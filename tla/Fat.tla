-------------------------------- MODULE Fat --------------------------------
(***************************************************************************)
(* The FAT32 root-directory files of kernel/fs.c on a volume fat32_parse   *)
(* accepts and whose FAT covers its clusters.  A descriptor keeps a copy   *)
(* of the first cluster and the size of its file, taken by fs_open and     *)
(* written back by fs_write_fd; nothing tells one descriptor what another  *)
(* did.                                                                    *)
(*                                                                         *)
(* The volume is its FAT and its directory: contents are left out.  shared *)
(* is a history variable: the files that were written or truncated while   *)
(* another descriptor had them open.                                       *)
(***************************************************************************)
EXTENDS Integers, Sequences, FiniteSetsExt

CONSTANTS
  Clusters,     \* fat.total_clusters, the root directory's included
  ClusterSize,  \* cluster_size()
  DirSlots,     \* entries of the root directory
  MaxOpen,      \* FS_MAX_OPEN
  Names,        \* 8.3 names
  NoName,       \* the entry of a closed descriptor
  Flags,        \* sets of "CREAT", "TRUNC", "APPEND" and "WRITE"
  Lengths,      \* lengths of reads and writes
  Seeks,        \* positions fs_lseek_fd moves to
  MaxPos        \* bound on file positions

ASSUME FatAssumption ==
  /\ {Clusters, ClusterSize, DirSlots, MaxOpen, MaxPos} \subseteq Nat \ {0}
  /\ Lengths \subseteq Nat /\ Seeks \subseteq 0 .. MaxPos

VARIABLES
  fat,          \* the FAT: 0 is free, EOC ends a chain
  dir,          \* the directory: name to first cluster and size
  open_files,   \* open_files[]
  shared

vars == <<fat, dir, open_files, shared>>

EOC == -1
Root == 2
Cluster == 2 .. (Clusters + 1)
Fds == 0 .. (MaxOpen - 1)
Closed == [used |-> FALSE, name |-> NoName, first |-> 0, size |-> 0, pos |-> 0, write |-> FALSE]

(* The first fs_mount, of a volume without files. *)
Init ==
  /\ fat = [c \in Cluster |-> IF c = Root THEN EOC ELSE 0]
  /\ dir = [n \in {} |-> [first |-> 0, size |-> 0]]
  /\ open_files = [fd \in Fds |-> Closed]
  /\ shared = {}

-----------------------------------------------------------------------------
(* Cluster chains.  An operation takes a FAT and gives the new one and the *)
(* cluster it found, 0 for none.                                           *)

\* Mutant: takes the last cluster of a chain, the root's too, for a free one.
AllocFromRoot(f) ==
  LET free == {c \in Cluster : f[c] \in {0, EOC}}
      c == IF free = {} THEN 0 ELSE Min(free)
  IN  [fat |-> IF c = 0 THEN f ELSE [f EXCEPT ![c] = EOC], c |-> c]

\* Mutant: the search does not skip the clusters in use.
AllocAnyTail(f) ==
  LET free == {c \in Cluster : f[c] = 0 \/ (c # Root /\ f[c] = EOC)}
      c == IF free = {} THEN 0 ELSE Min(free)
  IN  [fat |-> IF c = 0 THEN f ELSE [f EXCEPT ![c] = EOC], c |-> c]

alloc_cluster(f) ==
  LET free == {c \in Cluster : f[c] = 0}
      c == IF free = {} THEN 0 ELSE Min(free)
  IN  [fat |-> IF c = 0 THEN f ELSE [f EXCEPT ![c] = EOC], c |-> c]

\* Mutant: links the new cluster to nothing.
LinkNothing(f, from, to) == f
Link(f, from, to) == [f EXCEPT ![from] = to]

(* Walks index links from first; growing, it extends the chain at its end. *)
chain_cluster(f, first, index, grow) ==
  LET Follow(at) ==
        LET next == at.fat[at.c]
            new == alloc_cluster(at.fat)
        IN  IF at.c = 0 THEN at
            ELSE IF next # EOC THEN [fat |-> at.fat, c |-> IF next \in Cluster THEN next ELSE 0]
            ELSE IF ~grow \/ new.c = 0 THEN [fat |-> at.fat, c |-> 0]
            ELSE [fat |-> Link(new.fat, at.c, new.c), c |-> new.c]
      walk[i \in 0 .. index] ==
        IF i = 0 THEN [fat |-> f, c |-> first] ELSE Follow(walk[i - 1])
  IN  walk[index]

(* The clusters met from first on. *)
Chain(f, first) ==
  LET met[i \in 0 .. Clusters] == IF i = 0 THEN first
                                  ELSE IF met[i - 1] \in Cluster THEN f[met[i - 1]] ELSE 0
  IN  {met[i] : i \in 0 .. Clusters} \cap Cluster

\* Mutant: the last cluster of the chain stays allocated.
FreeAllButLast(f, first) ==
  [c \in Cluster |-> IF c \in Chain(f, first) /\ f[c] # EOC THEN 0 ELSE f[c]]
free_chain(f, first) == [c \in Cluster |-> IF c \in Chain(f, first) THEN 0 ELSE f[c]]

-----------------------------------------------------------------------------
Users(name) == {fd \in Fds : open_files[fd].used /\ open_files[fd].name = name}

(***************************************************************************)
(* fs_open.  Creating or truncating comes before the search for a          *)
(* descriptor, and other descriptors of a truncated file keep their copy.  *)
(***************************************************************************)
fs_open(name, flags) ==
  LET found == name \in DOMAIN dir
      empty == [first |-> 0, size |-> 0]
      cut == found /\ "TRUNC" \in flags
      entry == IF found /\ ~cut THEN dir[name] ELSE empty
      free == {fd \in Fds : ~open_files[fd].used}
  IN  /\ found \/ ("CREAT" \in flags /\ Cardinality(DOMAIN dir) < DirSlots)
      /\ dir' = [n \in DOMAIN dir \cup {name} |-> IF n = name THEN entry ELSE dir[n]]
      /\ fat' = IF cut /\ dir[name].first # 0 THEN free_chain(fat, dir[name].first) ELSE fat
      /\ shared' = IF cut /\ Users(name) # {} THEN shared \cup {name} ELSE shared
      /\ open_files' =
           IF free = {} THEN open_files
           ELSE [open_files EXCEPT ![Min(free)] =
                   [used |-> TRUE, name |-> name, first |-> entry.first, size |-> entry.size,
                    pos |-> IF "APPEND" \in flags THEN entry.size ELSE 0, write |-> "WRITE" \in flags]]

\* Mutant: always goes to the end of the cluster.
ChunkToClusterEnd(pos, left) == ClusterSize - (pos % ClusterSize)

(* The part of a transfer from pos that lies in pos's cluster. *)
Chunk(pos, left) == Min({ClusterSize - (pos % ClusterSize), left})

fs_read_fd(fd, len) ==
  LET of == open_files[fd]
      want == Min({len, of.size - of.pos})
      done[k \in 0 .. len] ==
        LET so_far == done[k - 1]
            at == of.pos + so_far
        IN  IF k = 0 THEN 0
            ELSE IF so_far = want \/ chain_cluster(fat, of.first, at \div ClusterSize, FALSE).c = 0 THEN so_far
            ELSE so_far + Chunk(at, want - so_far)
  IN  /\ of.used /\ of.pos < of.size
      /\ open_files' = [open_files EXCEPT ![fd].pos = @ + done[len]]
      /\ UNCHANGED <<fat, dir, shared>>

\* Mutant: leaves the directory entry as it was.
WriteBackNothing(of) == dir
WriteBack(of) == [dir EXCEPT ![of.name] = [first |-> of.first, size |-> of.size]]

(***************************************************************************)
(* fs_write_fd allocates the first cluster if there is none, writes chunk  *)
(* by chunk until the volume is full, and writes its copy of first cluster *)
(* and size back to the directory entry.                                   *)
(***************************************************************************)
fs_write_fd(fd, len) ==
  LET of == open_files[fd]
      new == IF of.first = 0 THEN alloc_cluster(fat) ELSE [fat |-> fat, c |-> of.first]
      step[k \in 0 .. len] ==
        LET prev == step[k - 1]
            at == chain_cluster(prev.fat, new.c, prev.pos \div ClusterSize, TRUE)
        IN  IF k = 0 THEN [fat |-> new.fat, pos |-> of.pos, size |-> of.size]
            ELSE IF prev.pos = of.pos + len THEN prev
            ELSE IF at.c = 0 THEN [prev EXCEPT !.fat = at.fat]
            ELSE LET pos == prev.pos + Chunk(prev.pos, of.pos + len - prev.pos)
                 IN  [fat |-> at.fat, pos |-> pos, size |-> Max({prev.size, pos})]
      end == step[len]
      after == [of EXCEPT !.first = new.c, !.pos = end.pos, !.size = end.size]
  IN  /\ of.used /\ of.write
      /\ of.pos + len <= MaxPos
      /\ new.c # 0
      /\ fat' = end.fat
      /\ open_files' = [open_files EXCEPT ![fd] = after]
      /\ dir' = WriteBack(after)
      /\ shared' = IF Users(of.name) # {fd} THEN shared \cup {of.name} ELSE shared

fs_lseek_fd(fd, pos) ==
  /\ open_files[fd].used
  /\ open_files' = [open_files EXCEPT ![fd].pos = pos]
  /\ UNCHANGED <<fat, dir, shared>>

fs_close(fd) ==
  /\ open_files[fd].used
  /\ open_files' = [open_files EXCEPT ![fd] = Closed]
  /\ UNCHANGED <<fat, dir, shared>>

(* Mounting the volume again forgets every descriptor. *)
fs_mount ==
  /\ open_files' = [fd \in Fds |-> Closed]
  /\ UNCHANGED <<fat, dir, shared>>

Next ==
  \/ \E name \in Names, flags \in Flags : fs_open(name, flags)
  \/ \E fd \in Fds :
       \/ \E len \in Lengths : fs_read_fd(fd, len) \/ fs_write_fd(fd, len)
       \/ \E pos \in Seeks : fs_lseek_fd(fd, pos)
       \/ fs_close(fd)
  \/ fs_mount

Spec == Init /\ [][Next]_vars

-----------------------------------------------------------------------------
Entries == {dir[n] : n \in DOMAIN dir}
OpenFds == {fd \in Fds : open_files[fd].used}

(* Types; in particular no FAT entry or copy leads outside the volume. *)
TypeOK ==
  /\ \A c \in Cluster : fat[c] \in Cluster \cup {0, EOC}
  /\ DOMAIN dir \subseteq Names /\ Cardinality(DOMAIN dir) <= DirSlots
  /\ \A e \in Entries : e.first \in Cluster \cup {0} /\ e.size \in 0 .. MaxPos
  /\ \A fd \in OpenFds : /\ open_files[fd].name \in DOMAIN dir
                         /\ open_files[fd].first \in Cluster \cup {0}
                         /\ {open_files[fd].size, open_files[fd].pos} \subseteq 0 .. MaxPos
  /\ shared \subseteq Names

(***************************************************************************)
(* No chain runs in a circle, so that chain_cluster, find_dir_entry and    *)
(* free_chain come to an end, even on the volume that stale descriptors    *)
(* have damaged: a link is only ever made to a cluster just allocated.     *)
(***************************************************************************)
ChainsEnd ==
  \A c \in Cluster : \A d \in Chain(fat, c) : fat[d] # c

(***************************************************************************)
(* The root directory is never taken over: its cluster stays the end of    *)
(* its chain, and no file, link or descriptor leads to it.                 *)
(***************************************************************************)
RootKept ==
  /\ fat[Root] = EOC
  /\ \A c \in Cluster : fat[c] # Root
  /\ \A e \in Entries : e.first # Root
  /\ \A fd \in OpenFds : open_files[fd].first # Root

(***************************************************************************)
(* What stale descriptors do to a volume stays within the files: chains    *)
(* end, and the root directory is kept.                                    *)
(***************************************************************************)
DamageContained == ChainsEnd /\ RootKept

(***************************************************************************)
(* As long as no file was written or truncated behind another descriptor,  *)
(* the allocated clusters are exactly those of the files and the root, no  *)
(* two files share one, and descriptors agree with the directory.  A full  *)
(* volume, a full descriptor table and seeks past the end are included.    *)
(***************************************************************************)
ClustersOwned ==
  shared = {} =>
    /\ {c \in Cluster : fat[c] # 0} = {Root} \cup UNION {Chain(fat, e.first) : e \in Entries}
    /\ \A m, n \in DOMAIN dir : m # n => Chain(fat, dir[m].first) \cap Chain(fat, dir[n].first) = {}

(***************************************************************************)
(* As long as no file was written or truncated behind another descriptor,  *)
(* every descriptor's copy of first cluster and size is the directory's.   *)
(***************************************************************************)
CopiesFresh ==
  shared = {} =>
    \A fd \in OpenFds : LET of == open_files[fd]
                        IN  dir[of.name] = [first |-> of.first, size |-> of.size]

(***************************************************************************)
(* As long as no file was written or truncated behind another descriptor,  *)
(* a file has clusters for all of its size, so a read up to the size is    *)
(* never cut short, also after a write that ran out of space.              *)
(***************************************************************************)
SizesBacked ==
  shared = {} =>
    \A e \in Entries : e.size <= ClusterSize * Cardinality(Chain(fat, e.first))

(***************************************************************************)
(* The volume is sound, full or not, as long as no file is changed behind  *)
(* another descriptor: well typed, clusters with one owner, descriptors    *)
(* that agree with the directory, and sizes backed by clusters.            *)
(***************************************************************************)
VolumeSound == TypeOK /\ ClustersOwned /\ CopiesFresh /\ SizesBacked
=============================================================================
