----------------------------- MODULE ProcFiles -----------------------------
(***************************************************************************)
(* File descriptors: the fds[] of every entry of kernel/proc.c's process   *)
(* table, and the table of open files of kernel/vfs.c they index.  A slot  *)
(* of that table counts no users; SYS_VFS_OPEN and SYS_VFS_CLOSE           *)
(* (kernel/syscall.c) hand out its indices themselves, to nobody.          *)
(*                                                                         *)
(* Abstracted: what an open file is, except the file it names; offsets and *)
(* contents are those of Vfs.                                              *)
(***************************************************************************)
EXTENDS Integers, FiniteSetsExt

CONSTANTS
  Procs,      \* the entries of procs[]
  FdMax,      \* PROC_MAX_FDS
  SlotMax,    \* VFS_MAX_OPEN
  Files,
  Nothing     \* no file: a slot that is not in use

ASSUME FilesAssumption ==
  FdMax \in Nat /\ SlotMax \in Nat /\ Nothing \notin Files

VARIABLES
  alive,        \* the processes that have not exited
  fds,          \* process -> number -> slot, or -1
  open_files,   \* slot -> the file it is open on, or Nothing
  by_call,      \* the slots SYS_VFS_OPEN handed out and nobody closed
  aliased       \* history: a descriptor was duplicated, or a slot closed by
                \* SYS_VFS_CLOSE that SYS_VFS_OPEN had not handed out

vars == <<alive, fds, open_files, by_call, aliased>>

Numbers == 0 .. (FdMax - 1)
Slots == 0 .. (SlotMax - 1)
Unused == [n \in Numbers |-> -1]

Init ==
  /\ alive = {}
  /\ fds = [p \in Procs |-> Unused]
  /\ open_files = [s \in Slots |-> Nothing]
  /\ by_call = {} /\ aliased = FALSE

(* proc_create clears the descriptors of the entry it takes. *)
proc_create(p) ==
  /\ p \notin alive
  /\ alive' = alive \cup {p}
  /\ fds' = [fds EXCEPT ![p] = Unused]
  /\ UNCHANGED <<open_files, by_call, aliased>>

FreeSlots == {s \in Slots : open_files[s] = Nothing}
FreeNumbers(p) == {n \in Numbers : fds[p][n] < 0}

(* vfs_close of a set of slots; it fails without effect on one not in use. *)
Release(files, gone) == [s \in Slots |-> IF s \in gone THEN Nothing ELSE files[s]]

(* proc_open gives the slot back when the process has no number left. *)
\* Mutant: forgets the slot.
ForgottenSlot(files, slot) == files
UnwantedSlot(files, slot) == Release(files, {slot})

proc_open(p, file) ==
  /\ p \in alive
  /\ FreeSlots # {}
  /\ LET slot == Min(FreeSlots)
         opened == [open_files EXCEPT ![slot] = file]
     IN  IF FreeNumbers(p) = {}
         THEN open_files' = UnwantedSlot(opened, slot) /\ UNCHANGED fds
         ELSE /\ open_files' = opened
              /\ fds' = [fds EXCEPT ![p][Min(FreeNumbers(p))] = slot]
  /\ UNCHANGED <<alive, by_call, aliased>>

\* Mutant: keeps the number naming the slot it closes.
CloseKeepsNumber(p, n) == fds
NumberFreed(p, n) == [fds EXCEPT ![p][n] = -1]

proc_close(p, n) ==
  /\ fds[p][n] >= 0
  /\ fds' = NumberFreed(p, n)
  /\ open_files' = Release(open_files, {fds[p][n]})
  /\ by_call' = by_call \ {fds[p][n]}
  /\ UNCHANGED <<alive, aliased>>

proc_dup(p, old) ==
  /\ fds[p][old] >= 0 /\ FreeNumbers(p) # {}
  /\ fds' = [fds EXCEPT ![p][Min(FreeNumbers(p))] = fds[p][old]]
  /\ aliased' = TRUE
  /\ UNCHANGED <<alive, open_files, by_call>>

(* What proc_dup2 closes: the slot the new number named, unless it is the same. *)
Replaced(p, old, new) == {fds[p][new]} \ {-1, fds[p][old]}

proc_dup2(p, old, new) ==
  /\ fds[p][old] >= 0
  /\ open_files' = Release(open_files, Replaced(p, old, new))
  /\ by_call' = by_call \ Replaced(p, old, new)
  /\ fds' = [fds EXCEPT ![p][new] = fds[p][old]]
  /\ aliased' = TRUE
  /\ UNCHANGED alive

(* proc_exit_locked closes every descriptor of the process. *)
proc_exit(p) ==
  LET held == {fds[p][n] : n \in Numbers}
  IN  /\ p \in alive
      /\ alive' = alive \ {p}
      /\ open_files' = Release(open_files, held)
      /\ by_call' = by_call \ held
      /\ fds' = [fds EXCEPT ![p] = Unused]
      /\ UNCHANGED aliased

SYS_VFS_OPEN(file) ==
  /\ FreeSlots # {}
  /\ open_files' = [open_files EXCEPT ![Min(FreeSlots)] = file]
  /\ by_call' = by_call \cup {Min(FreeSlots)}
  /\ UNCHANGED <<alive, fds, aliased>>

(* The system call closes any slot, a process's own included. *)
SYS_VFS_CLOSE(s) ==
  /\ open_files[s] # Nothing
  /\ open_files' = Release(open_files, {s})
  /\ by_call' = by_call \ {s}
  /\ aliased' = (aliased \/ s \notin by_call)
  /\ UNCHANGED <<alive, fds>>

Next ==
  \/ \E p \in Procs :
       \/ proc_create(p) \/ proc_exit(p)
       \/ \E file \in Files : proc_open(p, file)
       \/ \E n \in Numbers : proc_close(p, n) \/ proc_dup(p, n)
       \/ \E old, new \in Numbers : proc_dup2(p, old, new)
  \/ \E file \in Files : SYS_VFS_OPEN(file)
  \/ \E s \in Slots : SYS_VFS_CLOSE(s)

Spec == Init /\ [][Next]_vars

-----------------------------------------------------------------------------
TypeOK ==
  /\ alive \subseteq Procs
  /\ fds \in [Procs -> [Numbers -> Slots \cup {-1}]]
  /\ open_files \in [Slots -> Files \cup {Nothing}]
  /\ by_call \subseteq Slots

(* The slots the descriptors of living processes refer to. *)
Named == {fds[p][n] : p \in alive, n \in Numbers} \ {-1}

(***************************************************************************)
(* Every open slot is named by a process that has not exited or was handed *)
(* out by SYS_VFS_OPEN: whatever is opened, duplicated over one another    *)
(* and closed, and whoever exits, proc.c itself never leaks one of the 32  *)
(* slots of the whole system.                                              *)
(***************************************************************************)
SlotsAccounted ==
  \A s \in Slots : open_files[s] # Nothing => s \in Named \cup by_call

(* A process that has exited keeps no descriptors that a later close of    *)
(* them, or of their slot, could act on.                                   *)
ExitedHoldNothing == \A p \in Procs \ alive : fds[p] = Unused

(***************************************************************************)
(* The descriptors are the process's own: two numbers, of one process or   *)
(* of two, name two slots, a number names a slot that is open, and never   *)
(* one that SYS_VFS_OPEN handed out.  It holds as long as nobody has       *)
(* duplicated a descriptor or closed what it had not opened.               *)
(***************************************************************************)
NamedSlotsApart ==
  \A p, q \in Procs, m, n \in Numbers :
    fds[p][m] >= 0 =>
      /\ fds[p][m] = fds[q][n] => p = q /\ m = n
      /\ open_files[fds[p][m]] # Nothing
      /\ fds[p][m] \notin by_call

(* What a number names now. *)
NamedFile(p, n) == IF fds[p][n] < 0 THEN Nothing ELSE open_files[fds[p][n]]

(***************************************************************************)
(* As long as nobody has duplicated a descriptor or closed what it had not *)
(* opened, the two tables implement the promise of Handles: a descriptor   *)
(* names the file it was opened for until its owner closes it or exits,    *)
(* for all that others open, close and reuse.  A slot counts no users, so  *)
(* after proc_dup a close frees it under the other number.                 *)
(***************************************************************************)
Abstract == INSTANCE Handles WITH
  names <- [p \in Procs |-> [n \in Numbers |-> NamedFile(p, n)]],
  loose <- [s \in Slots |-> IF s \in by_call THEN open_files[s] ELSE Nothing],
  void <- aliased

ImplementsHandles == Abstract!HandlesSpec
=============================================================================
