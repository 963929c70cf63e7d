-------------------------------- MODULE Proc --------------------------------
(***************************************************************************)
(* The process table of kernel/proc.c and the system calls that drive it.  *)
(*                                                                         *)
(* There is no scheduler: proc_start_flat CALLS a process's entry point on *)
(* that process's own stack, so a spawn returns when the child returns, and*)
(* the processes that have started form a stack of nested calls, frames.   *)
(* Exiting or being killed ends a process in the table but not its frame:  *)
(* its code goes on until it returns, with system calls refused.           *)
(*                                                                         *)
(* Abstracted: table slots (the table maps process numbers to entries, at  *)
(* most ProcMax of them), names, paths, exit statuses and file             *)
(* descriptors.  A memory context is the set of blocks it owns, by what    *)
(* proc_spawn_exec and launchd_boot allocate them for; MemCtx models the   *)
(* contexts themselves.                                                    *)
(***************************************************************************)
EXTENDS Integers, Sequences, FiniteSets, Functions

CONSTANTS
  ProcMax,    \* PROC_MAX
  CtxMax,     \* MEMCTX_MAX_CONTEXTS
  MaxPid      \* the largest value of next_pid before it overflows

ASSUME ProcAssumption ==
  /\ {ProcMax, CtxMax, MaxPid} \subseteq Nat \ {0}
  /\ ProcMax <= CtxMax

VARIABLES
  procs,        \* used entries of procs[]: pid -> [parent, state, memctx]
  next_pid,
  current_pid,
  ctxs,         \* active memory contexts: id -> the blocks allocated in it
  next_ctx_id,
  frames,       \* the calls of proc_start_flat in progress: [pid, previous]
  panicked      \* panic() was called: the machine has halted

vars == <<procs, next_pid, current_pid, ctxs, next_ctx_id, frames, panicked>>

Pids == DOMAIN procs
INIT_PID == 1
Blocks == {"file", "image", "stack"}
States == {"READY", "RUNNING", "EXITED"}

Empty == [x \in {} |-> x]
Extend(f, x, v) == [y \in DOMAIN f \cup {x} |-> IF y = x THEN v ELSE f[y]]
Remove(f, x) == Restrict(f, DOMAIN f \ {x})

Init ==
  /\ procs = Empty /\ next_pid = INIT_PID /\ current_pid = 0
  /\ ctxs = Empty /\ next_ctx_id = 1
  /\ frames = <<>> /\ panicked = FALSE

proc_is_terminal_state(t, p) == t[p].state = "EXITED"

proc_current_valid ==
  current_pid \in Pids /\ procs[current_pid].state = "RUNNING"

(***************************************************************************)
(* proc_set_current: the table t and current process cur after the call.   *)
(* A process that is unknown or has exited is refused.                     *)
(***************************************************************************)
\* Mutant: does not look at the state of the process.
SettableInAnyState(t, p) == p \in DOMAIN t
Settable(t, p) == p \in DOMAIN t /\ ~proc_is_terminal_state(t, p)

SetCurrentTable(t, cur, p) ==
  [q \in DOMAIN t |->
     IF q = p THEN [t[q] EXCEPT !.state = "RUNNING"]
     ELSE IF q = cur /\ t[q].state = "RUNNING" THEN [t[q] EXCEPT !.state = "READY"]
     ELSE t[q]]

(***************************************************************************)
(* proc_exit_locked for a process other than the first: its children pass  *)
(* to the first process, whatever their state.                             *)
(***************************************************************************)
\* Mutant: children keep the parent that exited.
ExitKeepsChildren(t, p) == [t EXCEPT ![p].state = "EXITED"]

ExitTable(t, p) ==
  [q \in DOMAIN t |->
     [t[q] EXCEPT !.state = IF q = p THEN "EXITED" ELSE @,
                  !.parent = IF @ = p THEN INIT_PID ELSE @]]

ExitCurrent(cur, p) == IF cur = p THEN 0 ELSE cur

(***************************************************************************)
(* proc_create.  A number is used up once a table slot is found, even when *)
(* no memory context is left and the slot is given back.                   *)
(***************************************************************************)
TableFull == Cardinality(Pids) >= ProcMax
CtxsFull == Cardinality(DOMAIN ctxs) >= CtxMax

\* Mutant: hands out the lowest number that is free.
LowestFreePid == CHOOSE p \in 1 .. next_pid : p \notin Pids /\ \A q \in 1 .. (p - 1) : q \in Pids
NewPid == next_pid

NewEntry(parent) == [parent |-> parent, state |-> "READY", memctx |-> next_ctx_id]

(***************************************************************************)
(* launchd_boot, from the creation of process 1.  It fails where a file    *)
(* cannot be read, validated or loaded, and then leaves process 1 current, *)
(* with what it had allocated, and nothing running: the kernel goes on to  *)
(* run its boot modules.                                                   *)
(***************************************************************************)
BootedProcs ==
  SetCurrentTable(Extend(procs, NewPid, NewEntry(0)), current_pid, NewPid)

Boot ==
  /\ next_pid = INIT_PID
  /\ ~TableFull /\ ~CtxsFull
  /\ procs' = BootedProcs
  /\ current_pid' = NewPid
  /\ next_pid' = next_pid + 1
  /\ next_ctx_id' = next_ctx_id + 1
  /\ \/ /\ ctxs' = Extend(ctxs, next_ctx_id, Blocks)
        /\ frames' = <<[pid |-> NewPid, previous |-> NewPid]>>
     \/ /\ \E got \in {{}, {"file"}, {"file", "image"}} :
             ctxs' = Extend(ctxs, next_ctx_id, got)
        /\ UNCHANGED frames
  /\ UNCHANGED panicked

(***************************************************************************)
(* SYS_PROC_SPAWN, SYS_PROC_SPAWN_EX and SYS_EXECVE: proc_spawn_exec of a  *)
(* file that loads.  The child's code starts in a frame of its own.        *)
(***************************************************************************)
Spawn ==
  /\ ~panicked /\ proc_current_valid
  /\ next_pid < MaxPid
  /\ ~TableFull /\ ~CtxsFull
  /\ procs' = SetCurrentTable(Extend(procs, NewPid, NewEntry(current_pid)),
                              current_pid, NewPid)
  /\ current_pid' = NewPid
  /\ next_pid' = next_pid + 1
  /\ ctxs' = Extend(ctxs, next_ctx_id, Blocks)
  /\ next_ctx_id' = next_ctx_id + 1
  /\ frames' = Append(frames, [pid |-> NewPid, previous |-> current_pid])
  /\ UNCHANGED panicked

(***************************************************************************)
(* proc_spawn_exec of a file that cannot be held, read, loaded or given a  *)
(* stack: the context is destroyed with the blocks allocated so far and    *)
(* the entry is cleared.  Without a context only the number is lost; with  *)
(* a full table nothing happens.                                           *)
(***************************************************************************)
\* Mutant: clears the entry and forgets the context.
LeakedContext(got) == Extend(ctxs, next_ctx_id, got)
AbandonedContext(got) == Remove(Extend(ctxs, next_ctx_id, got), next_ctx_id)

SpawnFails ==
  /\ ~panicked /\ proc_current_valid
  /\ next_pid < MaxPid
  /\ ~TableFull
  /\ next_pid' = next_pid + 1
  /\ IF CtxsFull
     THEN UNCHANGED <<ctxs, next_ctx_id>>
     ELSE /\ \E got \in {{}, {"file"}, {"file", "image"}} :
               ctxs' = AbandonedContext(got)
          /\ next_ctx_id' = next_ctx_id + 1
  /\ UNCHANGED <<procs, current_pid, frames, panicked>>

(* Process 1 may not exit: proc_exit_locked panics before any change. *)
ExitProcess(p) ==
  IF p = INIT_PID
  THEN panicked' = TRUE /\ UNCHANGED <<procs, current_pid>>
  ELSE /\ procs' = ExitTable(procs, p)
       /\ current_pid' = ExitCurrent(current_pid, p)
       /\ UNCHANGED panicked

(* SYS_EXIT.  The code that called it goes on until it returns. *)
Exit ==
  /\ ~panicked /\ proc_current_valid
  /\ ExitProcess(current_pid)
  /\ UNCHANGED <<next_pid, ctxs, next_ctx_id, frames>>

(* SYS_PROC_KILL, by any process of any process, itself included. *)
Kill(p) ==
  /\ ~panicked /\ proc_current_valid
  /\ p # INIT_PID
  /\ ~proc_is_terminal_state(procs, p)
  /\ ExitProcess(p)
  /\ UNCHANGED <<next_pid, ctxs, next_ctx_id, frames>>

(* SYS_PROC_WAIT: it does not block, and fails unless the child has exited. *)
\* Mutant: accepts a process that is not the caller's child.
WaitableByAnyone(parent, child) == procs[child].state = "EXITED"
Waitable(parent, child) ==
  procs[child].parent = parent /\ procs[child].state = "EXITED"

Wait(child) ==
  /\ ~panicked /\ proc_current_valid
  /\ Waitable(current_pid, child)
  /\ ctxs' = Remove(ctxs, procs[child].memctx)
  /\ procs' = Remove(procs, child)
  /\ UNCHANGED <<next_pid, current_pid, next_ctx_id, frames, panicked>>

(***************************************************************************)
(* The code of the innermost call returns: the rest of proc_start_flat.    *)
(* The process exits unless it already has, and its caller becomes current *)
(* again unless that process has exited meanwhile.                         *)
(***************************************************************************)
\* Mutant: never makes the caller current again.
ResumeNobody(t, cur, f) == [table |-> t, current |-> cur]

Resume(t, cur, f) ==
  IF f.previous # 0 /\ f.previous # f.pid /\ f.previous \in DOMAIN t
  THEN IF Settable(t, f.previous)
       THEN [table |-> SetCurrentTable(t, cur, f.previous), current |-> f.previous]
       ELSE [table |-> t, current |-> cur]
  ELSE [table |-> t, current |-> IF cur = f.pid THEN 0 ELSE cur]

\* Mutant: a process that merely returns does not exit.
NeverEnds(p) == FALSE
EndsOnReturn(p) == p \in Pids /\ ~proc_is_terminal_state(procs, p)

Return ==
  /\ ~panicked /\ frames # <<>>
  /\ LET f == frames[Len(frames)]
         ends == EndsOnReturn(f.pid)
         t == IF ends THEN ExitTable(procs, f.pid) ELSE procs
         cur == IF ends THEN ExitCurrent(current_pid, f.pid) ELSE current_pid
         r == Resume(t, cur, f)
     IN  IF ends /\ f.pid = INIT_PID
         THEN panicked' = TRUE /\ UNCHANGED <<procs, current_pid, frames>>
         ELSE /\ procs' = r.table /\ current_pid' = r.current
              /\ frames' = SubSeq(frames, 1, Len(frames) - 1)
              /\ UNCHANGED panicked
  /\ UNCHANGED <<next_pid, ctxs, next_ctx_id>>

Next ==
  \/ Boot \/ Spawn \/ SpawnFails \/ Exit \/ Return
  \/ \E p \in Pids : Kill(p) \/ Wait(p)

Spec == Init /\ [][Next]_vars

-----------------------------------------------------------------------------
Alive(p) == p \in Pids /\ procs[p].state # "EXITED"
FramePids == {frames[i].pid : i \in DOMAIN frames}

(* The process on whose behalf code is running now: the innermost call, or *)
(* process 1 while the kernel itself runs after a failed boot.             *)
Running == IF frames = <<>> THEN INIT_PID ELSE frames[Len(frames)].pid

TypeOK ==
  /\ Pids \subseteq 1 .. (next_pid - 1)
  /\ procs \in [Pids -> [parent : Nat, state : States, memctx : Nat]]
  /\ Cardinality(Pids) <= ProcMax
  /\ next_pid \in Nat /\ next_ctx_id \in Nat
  /\ current_pid \in Pids \cup {0}
  /\ ctxs \in [DOMAIN ctxs -> SUBSET Blocks]
  /\ frames \in Seq([pid : Nat, previous : Nat])
  /\ panicked \in BOOLEAN

(***************************************************************************)
(* current_pid names the process whose code is running, as long as that    *)
(* process has not exited, and nobody once it has: code of a process that  *)
(* was killed or has exited never acts in another's name, and a parent is  *)
(* itself again when its child returns.  Only the current process is       *)
(* RUNNING (proc_set_current, the end of proc_start_flat).                 *)
(***************************************************************************)
CurrentIsInnermost ==
  /\ current_pid = IF Alive(Running) THEN Running ELSE 0
  /\ \A p \in Pids : procs[p].state = "RUNNING" <=> p = current_pid

(***************************************************************************)
(* A process whose call has not returned is still in the table and its     *)
(* context still owns its image and its stack: SYS_PROC_WAIT never frees   *)
(* the memory a suspended or running call uses.                            *)
(***************************************************************************)
FramesKeepMemory ==
  \A i \in DOMAIN frames :
    /\ frames[i].pid \in Pids
    /\ procs[frames[i].pid].memctx \in DOMAIN ctxs
    /\ {"image", "stack"} \subseteq ctxs[procs[frames[i].pid].memctx]

(***************************************************************************)
(* The calls in progress nest: each was made by the one before it, and its *)
(* process is still that caller's child, or process 1's once the caller    *)
(* has exited.  So a process can never wait for, and free, a process that  *)
(* is suspended below it.                                                  *)
(***************************************************************************)
CallsNest ==
  \A i \in DOMAIN frames :
    /\ frames[i].previous = IF i = 1 THEN INIT_PID ELSE frames[i - 1].pid
    /\ \A j \in 1 .. (i - 1) : frames[j].pid < frames[i].pid
    /\ frames[i].pid # INIT_PID =>
         procs[frames[i].pid].parent \in {frames[i].previous, INIT_PID}

(***************************************************************************)
(* Every process but the first has a parent in the table that has not      *)
(* exited, so there is always someone who may collect it: proc_exit_locked *)
(* passes children on in time, and proc_wait removes no one's parent.  The *)
(* first process itself never exits.                                       *)
(***************************************************************************)
ParentsAlive ==
  /\ \A p \in Pids : IF p = INIT_PID THEN procs[p].parent = 0
                     ELSE Alive(procs[p].parent)
  /\ next_pid > INIT_PID => Alive(INIT_PID)

(***************************************************************************)
(* The memory contexts are exactly those of the processes in the table, one*)
(* each: neither a failed proc_spawn_exec nor proc_wait leaks a context or *)
(* destroys another's.  Since there are at least as many contexts as       *)
(* slots, memctx_create never fails.                                       *)
(***************************************************************************)
ContextsMatch ==
  /\ DOMAIN ctxs = {procs[p].memctx : p \in Pids}
  /\ \A p, q \in Pids : procs[p].memctx = procs[q].memctx => p = q
  /\ ~TableFull => ~CtxsFull

(***************************************************************************)
(* Every process that has not exited is suspended in, or running, a call   *)
(* of its own (or is process 1 after a failed boot): none is left READY    *)
(* with nobody to return to it.                                            *)
(***************************************************************************)
NoneForgotten ==
  \A p \in Pids \ {INIT_PID} : Alive(p) => p \in FramePids

(***************************************************************************)
(* A process that has exited stays so until it is collected, and it is     *)
(* collected by its parent: resuming a caller that was killed while its    *)
(* child ran does not bring it back.                                       *)
(***************************************************************************)
ExitIsFinal ==
  [][\A p \in Pids : ~Alive(p) =>
       \/ p \in Pids' /\ procs'[p].state = "EXITED"
       \/ p \notin Pids' /\ current_pid = procs[p].parent]_vars

(* The table implements the abstract process life cycle. *)
Life == INSTANCE Lifecycle WITH
  parent <- [p \in Pids |-> procs[p].parent],
  exited <- {p \in Pids : procs[p].state = "EXITED"},
  numbers <- 1 .. (next_pid - 1),
  halted <- panicked

ImplementsLifecycle == Life!LifeSpec
=============================================================================
