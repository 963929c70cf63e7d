-------------------------------- MODULE Vfs --------------------------------
(***************************************************************************)
(* The RAM file system of kernel/vfs.c: a table of nodes linked by parent  *)
(* indices, a table of open files that refer to nodes by index, and the    *)
(* working directory.                                                      *)
(*                                                                         *)
(* A path is a flag (absolute or not) and a sequence of segments.  A name  *)
(* longer than VFS_MAX_NAME is stored truncated but looked up in full;     *)
(* Truncate is what copy_name stores.  File contents are abstracted to     *)
(* their length, counted in units of the smallest buffer (64 bytes).       *)
(***************************************************************************)
EXTENDS Integers, Sequences, SequencesExt, FiniteSetsExt

CONSTANTS
  MaxNodes,     \* VFS_MAX_NODES
  MaxOpen,      \* VFS_MAX_OPEN
  Paths,        \* [abs : BOOLEAN, segs : sequences of names, "." and ".."]
  Truncate(_),  \* the stored form of a name
  Flags,        \* sets of the flags "CREAT", "TRUNC" and "APPEND"
  Lengths,      \* lengths of writes
  Seeks,        \* offsets given to vfs_lseek
  MaxOffset     \* bound on file offsets

ASSUME VfsAssumption ==
  /\ {MaxNodes, MaxOpen, MaxOffset} \subseteq Nat \ {0}
  /\ Lengths \subseteq Nat /\ Seeks \subseteq Int

VARIABLES
  nodes,        \* nodes[]
  open_files,   \* open_files[]
  cwd_node,
  heap          \* capacity of the buffers allocated and not freed, in units

vars == <<nodes, open_files, cwd_node, heap>>

Root == 0
NodeSlots == 0 .. (MaxNodes - 1)
Fds == 0 .. (MaxOpen - 1)
Used == {i \in NodeSlots : nodes[i].used}
Cleared == [used |-> FALSE, type |-> "none", parent |-> 0, name |-> "", size |-> 0, capacity |-> 0]
NewNode(type, parent, name) ==
  [Cleared EXCEPT !.used = TRUE, !.type = type, !.parent = parent, !.name = name]
Closed == [used |-> FALSE, node |-> 0, offset |-> 0, append |-> FALSE]

Init ==
  /\ nodes = [i \in NodeSlots |-> IF i = Root THEN NewNode("dir", Root, "") ELSE Cleared]
  /\ open_files = [fd \in Fds |-> Closed]
  /\ cwd_node = Root /\ heap = 0

-----------------------------------------------------------------------------
(* Looking up and creating nodes; -1 stands for "not found". *)

find_child(parent, name) ==
  LET hits == {i \in NodeSlots : nodes[i].used /\ nodes[i].name = name /\ nodes[i].parent = parent}
  IN  IF parent # -1 /\ nodes[parent].type = "dir" /\ hits # {} THEN Min(hits) ELSE -1

\* Mutant: counts only subdirectories.
child_dirs(parent) == Cardinality({i \in Used \ {parent} : nodes[i].parent = parent /\ nodes[i].type = "dir"})
child_count(parent) == Cardinality({i \in Used \ {parent} : nodes[i].parent = parent})

Up(node) == IF node = Root THEN Root ELSE nodes[node].parent
Start(path) == IF path.abs THEN Root ELSE cwd_node

(* The node reached by entering one segment after another. *)
resolve_path(path) ==
  LET Enter(node, seg) ==
        IF node = -1 THEN -1
        ELSE IF seg = "." THEN node
        ELSE IF seg = ".." THEN Up(node)
        ELSE find_child(node, seg)
      at[i \in 0 .. Len(path.segs)] ==
        IF i = 0 THEN Start(path) ELSE Enter(at[i - 1], path.segs[i])
  IN  IF ~path.abs /\ path.segs = <<>> THEN -1 ELSE at[Len(path.segs)]

(* The directory that is to hold the last segment of the path. *)
resolve_parent(path) ==
  LET Enter(node, seg) ==
        LET child == find_child(node, seg)
        IN  IF node = -1 THEN -1
            ELSE IF seg = "." THEN node
            ELSE IF seg = ".." THEN Up(node)
            ELSE IF child # -1 /\ nodes[child].type = "dir" THEN child ELSE -1
      at[i \in 0 .. Len(path.segs)] ==
        IF i = 0 THEN Start(path) ELSE Enter(at[i - 1], path.segs[i])
  IN  IF path.segs = <<>> \/ Last(path.segs) \in {".", ".."} THEN -1
      ELSE at[Len(path.segs) - 1]

Leaf(path) == Last(path.segs)
Vacant == NodeSlots \ Used

(* The node table after alloc_node, which takes the first vacant slot. *)
alloc_node(type, parent, name) ==
  [nodes EXCEPT ![Min(Vacant)] = NewNode(type, parent, Truncate(name))]

-----------------------------------------------------------------------------
(* Directories and names. *)

\* Mutant: does not look for an existing child.
TakesAnyName(parent, name) == parent # -1
NameIsFree(parent, name) == parent # -1 /\ find_child(parent, name) = -1

vfs_mkdir(path) ==
  LET parent == resolve_parent(path)
  IN  /\ NameIsFree(parent, Leaf(path))
      /\ Vacant # {}
      /\ nodes' = alloc_node("dir", parent, Leaf(path))
      /\ UNCHANGED <<open_files, cwd_node, heap>>

\* Mutant: clears the node and keeps its buffer.
UnlinkKeepsBuffer(path) ==
  LET node == resolve_path(path)
  IN  /\ node > 0
      /\ nodes[node].type # "dir" /\ child_count(node) = 0
      /\ nodes' = [nodes EXCEPT ![node] = Cleared]
      /\ UNCHANGED <<open_files, cwd_node, heap>>

(* Open files keep referring to the slot. *)
vfs_unlink(path) ==
  LET node == resolve_path(path)
  IN  /\ node > 0
      /\ nodes[node].type # "dir" /\ child_count(node) = 0
      /\ heap' = heap - nodes[node].capacity
      /\ nodes' = [nodes EXCEPT ![node] = Cleared]
      /\ UNCHANGED <<open_files, cwd_node>>

\* Mutant: removes the working directory and stays in it.
RmdirKeepsCwd(node) == cwd_node
CwdAfterRmdir(node) == IF cwd_node = node THEN Root ELSE cwd_node

vfs_rmdir(path) ==
  LET node == resolve_path(path)
  IN  /\ node > 0
      /\ nodes[node].type = "dir" /\ child_count(node) = 0
      /\ cwd_node' = CwdAfterRmdir(node)
      /\ heap' = heap - nodes[node].capacity
      /\ nodes' = [nodes EXCEPT ![node] = Cleared]
      /\ UNCHANGED open_files

(* The new place may lie inside the directory that moves. *)
vfs_rename(old_path, new_path) ==
  LET node == resolve_path(old_path)
      parent == resolve_parent(new_path)
  IN  /\ node > 0
      /\ NameIsFree(parent, Leaf(new_path))
      /\ nodes' = [nodes EXCEPT ![node].parent = parent, ![node].name = Truncate(Leaf(new_path))]
      /\ UNCHANGED <<open_files, cwd_node, heap>>

vfs_chdir(path) ==
  LET node == resolve_path(path)
  IN  /\ node # -1 /\ nodes[node].type = "dir"
      /\ cwd_node' = node
      /\ UNCHANGED <<nodes, open_files, heap>>

-----------------------------------------------------------------------------
(* Open files. *)

\* Mutant: makes room for the bytes written, wherever they go.
RoomForBytes(at, len) == len
RoomFor(at, len) == at + len

(* The capacity after ensure_capacity, which doubles until the need is met. *)
ensure_capacity(capacity, need) ==
  LET first == IF capacity = 0 THEN 1 ELSE capacity
  IN  IF need <= capacity THEN capacity
      ELSE Min({c \in {first * 2^k : k \in 0 .. need} : c >= need})

(***************************************************************************)
(* vfs_open.  A missing file is created, and an existing one truncated,    *)
(* before the open-file table is searched, so a call that fails for lack   *)
(* of a descriptor has changed the tree.  Of the flags, only those that    *)
(* change what happens are kept: no operation looks at the access mode,    *)
(* except that a directory is not opened for writing.                      *)
(***************************************************************************)
vfs_open(path, flags) ==
  LET found == resolve_path(path)
      parent == resolve_parent(path)
      create == found = -1 /\ "CREAT" \in flags /\ parent # -1 /\ Vacant # {}
      node == IF create THEN Min(Vacant) ELSE found
      tree == IF create THEN alloc_node("file", parent, Leaf(path)) ELSE nodes
      free == {fd \in Fds : ~open_files[fd].used}
      cut == [tree EXCEPT ![node].size = IF "TRUNC" \in flags /\ tree[node].type = "file" THEN 0 ELSE @]
  IN  /\ node # -1
      /\ tree[node].type = "dir" => flags = {}
      /\ nodes' = cut
      /\ open_files' =
           IF free = {} THEN open_files
           ELSE [open_files EXCEPT ![Min(free)] =
                   [used |-> TRUE, node |-> node, append |-> "APPEND" \in flags,
                    offset |-> IF "APPEND" \in flags THEN cut[node].size ELSE 0]]
      /\ UNCHANGED <<cwd_node, heap>>

OpenFile(fd) == open_files[fd].used /\ nodes[open_files[fd].node].type = "file"

vfs_read(fd, len) ==
  LET at == open_files[fd].offset
      size == nodes[open_files[fd].node].size
  IN  /\ OpenFile(fd)
      /\ at < size
      /\ open_files' = [open_files EXCEPT ![fd].offset = Min({at + len, size})]
      /\ UNCHANGED <<nodes, cwd_node, heap>>

(* The buffer may fail to grow; an appending descriptor has moved by then. *)
vfs_write(fd, len) ==
  LET node == open_files[fd].node
      at == IF open_files[fd].append THEN nodes[node].size ELSE open_files[fd].offset
      end == at + len
      cap == ensure_capacity(nodes[node].capacity, RoomFor(at, len))
  IN  /\ OpenFile(fd)
      /\ end <= MaxOffset
      /\ \/ /\ nodes' = [nodes EXCEPT ![node].size = IF end > @ THEN end ELSE @,
                                      ![node].capacity = cap]
            /\ heap' = heap + (cap - nodes[node].capacity)
            /\ open_files' = [open_files EXCEPT ![fd].offset = end]
         \/ /\ cap # nodes[node].capacity
            /\ open_files' = [open_files EXCEPT ![fd].offset = at]
            /\ UNCHANGED <<nodes, heap>>
      /\ UNCHANGED cwd_node

\* Mutant: accepts a negative position.
SeekAnywhere(next) == TRUE
Seekable(next) == next >= 0

vfs_lseek(fd, offset, whence) ==
  LET base == CASE whence = "SET" -> 0
                [] whence = "CUR" -> open_files[fd].offset
                [] whence = "END" -> nodes[open_files[fd].node].size
  IN  /\ open_files[fd].used
      /\ Seekable(base + offset) /\ base + offset <= MaxOffset
      /\ open_files' = [open_files EXCEPT ![fd].offset = base + offset]
      /\ UNCHANGED <<nodes, cwd_node, heap>>

vfs_close(fd) ==
  /\ open_files[fd].used
  /\ open_files' = [open_files EXCEPT ![fd] = Closed]
  /\ UNCHANGED <<nodes, cwd_node, heap>>

(* Emits the entries whose rank is at least the offset, at most max of them. *)
vfs_getdents(fd, max) ==
  LET dir == open_files[fd].node
      left == child_count(dir) - open_files[fd].offset
  IN  /\ open_files[fd].used /\ nodes[dir].type = "dir"
      /\ open_files' = [open_files EXCEPT ![fd].offset =
                          @ + (IF left <= 0 THEN 0 ELSE Min({left, max}))]
      /\ UNCHANGED <<nodes, cwd_node, heap>>

Next ==
  \/ \E path \in Paths : vfs_mkdir(path) \/ vfs_unlink(path) \/ vfs_rmdir(path) \/ vfs_chdir(path)
  \/ \E path, to \in Paths : vfs_rename(path, to)
  \/ \E path \in Paths, flags \in Flags : vfs_open(path, flags)
  \/ \E fd \in Fds :
       \/ \E len \in Lengths : vfs_read(fd, len) \/ vfs_write(fd, len) \/ vfs_getdents(fd, len)
       \/ \E offset \in Seeks, whence \in {"SET", "CUR", "END"} : vfs_lseek(fd, offset, whence)
       \/ vfs_close(fd)

Spec == Init /\ [][Next]_vars

-----------------------------------------------------------------------------
(* Types, and the values a vacant slot is cleared to. *)
TypeOK ==
  /\ \A i \in NodeSlots :
       /\ nodes[i].used \/ nodes[i] = Cleared
       /\ nodes[i].used <=> nodes[i].type \in {"dir", "file"}
       /\ nodes[i].parent \in NodeSlots
       /\ {nodes[i].size, nodes[i].capacity} \subseteq 0 .. (2 * MaxOffset)
  /\ \A fd \in Fds :
       /\ open_files[fd].node \in NodeSlots /\ open_files[fd].offset \in 0 .. MaxOffset
       /\ open_files[fd].used \/ open_files[fd] = Closed
  /\ cwd_node \in NodeSlots /\ heap \in Nat

(***************************************************************************)
(* Whatever is created, moved or removed, and from whatever working        *)
(* directory, slot 0 stays the root, every node hangs in a directory that  *)
(* exists (so resolve_path and build_path never walk through a freed slot) *)
(* and the working directory exists.                                       *)
(***************************************************************************)
TreeWellFormed ==
  /\ nodes[Root].type = "dir" /\ nodes[Root].parent = Root
  /\ \A i \in Used : nodes[nodes[i].parent].type = "dir"
  /\ nodes[cwd_node].type = "dir"

(***************************************************************************)
(* A directory has two entries with one stored name only when that name    *)
(* is the truncation of a longer one: vfs_mkdir, vfs_open and vfs_rename   *)
(* look for the full name and copy_name stores the cut one.                *)
(***************************************************************************)
SiblingsDistinct ==
  \A i, j \in Used \ {Root} :
    i # j /\ nodes[i].parent = nodes[j].parent /\ nodes[i].name = nodes[j].name
      => \E path \in Paths : \E n \in DOMAIN path.segs :
           path.segs[n] # nodes[i].name /\ Truncate(path.segs[n]) = nodes[i].name

(***************************************************************************)
(* The node table is a directory structure that lookups can walk, and the  *)
(* only names that can be ambiguous are those the code truncates.          *)
(***************************************************************************)
TreeSound == TreeWellFormed /\ SiblingsDistinct

(***************************************************************************)
(* The size of a file never exceeds its buffer, so that vfs_read and the   *)
(* copy in ensure_capacity stay inside it, even when two descriptors of    *)
(* one file, a truncating vfs_open and seeks past the end interleave.      *)
(***************************************************************************)
SizesFit == \A i \in NodeSlots : nodes[i].size <= nodes[i].capacity

(***************************************************************************)
(* The buffers on the heap are exactly those of the nodes in use: growing, *)
(* unlinking, removing and a failed vfs_write neither leak a buffer nor    *)
(* free one twice, whichever descriptors are still open.                   *)
(***************************************************************************)
BuffersAccounted == heap = MapThenSumSet(LAMBDA i : nodes[i].capacity, Used)

(***************************************************************************)
(* Files are sound whatever two descriptors do to them: the tables are     *)
(* well typed with no stale entry in a cleared slot, contents lie inside   *)
(* their buffers, and every buffer has exactly one node.                   *)
(***************************************************************************)
FilesSound == TypeOK /\ SizesFit /\ BuffersAccounted

(* The nodes met on the way up from a node, itself included; a node is     *)
(* linked if the way leads to the root, in no more steps than there are    *)
(* nodes and over nodes in use.                                            *)
Above(node, n) == LET up[k \in 0 .. n] == IF k = 0 THEN node ELSE Up(up[k - 1]) IN up[n]
Chain(node) == {Above(node, k) : k \in 0 .. MaxNodes}
Linked(node) == Above(node, MaxNodes) = Root /\ \A n \in Chain(node) : nodes[n].used

(***************************************************************************)
(* A node that can be reached from the root and is not removed can still   *)
(* be reached after any operation but one: a vfs_rename that moves a       *)
(* directory into itself, which the code does not refuse, or into a        *)
(* directory already lost that way (the working directory may be one).     *)
(* Only what the moved node holds is lost with it.                         *)
(***************************************************************************)
OnlyLoopsDetach ==
  [][\A n \in Used : nodes'[n].used /\ ~Linked(n)' /\ Linked(n)
       => \E top \in Chain(n) : LET to == nodes'[top].parent
                                IN  to # nodes[top].parent /\ (top \in Chain(to) \/ ~Linked(to))]_nodes
=============================================================================
