--------------------------- MODULE LaunchdProofs ----------------------------
(***************************************************************************)
(* The machine as launchd_boot brings it up, for any configuration and any *)
(* size of the tables: process 1 never runs over a userland that was       *)
(* copied in part, and nothing that launchd's daemons do takes the machine *)
(* or the daemon it waits for from launchd.  Both rest on the invariant of *)
(* the process table, which this module first carries over from the        *)
(* processes by themselves to the processes under launchd.                 *)
(***************************************************************************)
EXTENDS Launchd, ProcProofs

Whole == \A p \in Paths : vfs[p] = "whole"
CopyStages == {"mount", "mirror", "install", "create"}

(* Before launchd_boot creates process 1 there is none, and it does so     *)
(* only when all files are whole; a table without process 1 does not panic *)
(* unless there is nothing at all to run.                                  *)
BootInv ==
  /\ stage \in CopyStages \cup UserStages \cup {"program", "modules", "halted"}
  /\ vfs \in [Paths -> {"absent", "partial", "whole"}]
  /\ stage \in CopyStages => next_pid = INIT_PID
  /\ stage = "create" \/ next_pid # INIT_PID => Whole
  /\ stage = "halted" => frames = <<>>
  /\ stage # "halted" => Early

(* launchd is the outermost call, and the daemon it waits for its child. *)
ControlInv ==
  /\ stage \in UserStages =>
       panicked = FALSE /\ frames # <<>> /\ frames[1].pid = INIT_PID
  /\ stage \in (CopyStages \cup UserStages) \ {"wait"} => daemon = 0
  /\ stage = "wait" =>
       daemon \in Pids /\ daemon # INIT_PID /\ procs[daemon].parent = INIT_PID

LInv == IInv /\ BootInv /\ ControlInv

-----------------------------------------------------------------------------
(* What launchd_boot, launchd and the programs do to the process table are *)
(* steps of the table, but for the panic of a kernel with nothing to run.  *)
LEMMA TableStep ==
  ASSUME LaunchdNext, ~RunModules PROVE [Next]_vars
<1>1. CASE mount \/ CopyWhole \/ CopyFails
  BY <1>1 DEF mount, CopyWhole, CopyFails
<1>2. CASE BootProcess
  BY <1>2 DEF BootProcess, Next
<1>3. CASE OpenConfig
  BY <1>3 DEF OpenConfig, Next
<1>4. CASE StartDaemon
  BY <1>4 DEF StartDaemon, Next
<1>5. CASE SkipDaemon
  BY <1>5 DEF SkipDaemon, Next
<1>6. CASE CollectDaemon
  BY <1>6 DEF CollectDaemon, WaitDaemon, Next
<1>7. CASE Finish
  BY <1>7 DEF Finish
<1>8. CASE ProgramCalls
  BY <1>8 DEF ProgramCalls, Next
<1>9. CASE ProgramReturns
  BY <1>9 DEF ProgramReturns, Next
<1> QED BY <1>1, <1>2, <1>3, <1>4, <1>5, <1>6, <1>7, <1>8, <1>9
        DEF LaunchdNext, Kernel, LaunchdCode

(* A call made inside another has a process of its own, later than it. *)
LEMMA NestedCall ==
  ASSUME IInv, Len(frames) > 1, frames[1].pid = INIT_PID
  PROVE  /\ frames[Len(frames)].pid # INIT_PID
         /\ proc_current_valid => current_pid # INIT_PID
<1>1. Len(frames) \in Nat /\ DOMAIN frames = 1 .. Len(frames)
      /\ frames[Len(frames)].pid \in Pids /\ Pids \subseteq Nat
  BY Basics
<1>2. frames[1].pid < frames[Len(frames)].pid
  <2>1. Len(frames) \in DOMAIN frames /\ 1 \in 1 .. (Len(frames) - 1)
    BY <1>1
  <2> QED BY <2>1 DEF IInv, CallsNest
<1>3. frames[Len(frames)].pid # INIT_PID
  BY <1>1, <1>2 DEF INIT_PID
<1>4. ASSUME proc_current_valid PROVE current_pid = frames[Len(frames)].pid
  <2>1. current_pid \in Pids /\ 0 \notin Pids /\ frames # <<>>
    BY <1>1, <1>4, Basics DEF proc_current_valid
  <2>2. Running = frames[Len(frames)].pid
    BY <2>1 DEF Running
  <2> QED BY <2>1, <2>2 DEF IInv, CurrentIsInnermost
<1> QED BY <1>3, <1>4

(* What a step of the table made inside launchd's call leaves to launchd. *)
Kept ==
  /\ panicked' = FALSE /\ frames' # <<>> /\ frames'[1].pid = INIT_PID
  /\ \A d \in Pids : procs[d].parent = INIT_PID => d \in Pids' /\ procs'[d].parent = INIT_PID

LEMMA NestedSpawn ==
  ASSUME IInv, panicked = FALSE, frames # <<>>, frames[1].pid = INIT_PID, Spawn
  PROVE  /\ Kept /\ Len(frames') = Len(frames) + 1
         /\ NewPid \in Pids' /\ NewPid # INIT_PID /\ procs'[NewPid].parent = current_pid
<1>1. current_pid \in Nat /\ panicked' = panicked
      /\ frames' = Append(frames, [pid |-> NewPid, previous |-> current_pid])
      /\ procs' = SetCurrentTable(Extend(procs, NewPid, NewEntry(current_pid)),
                                  current_pid, NewPid)
  BY Basics DEF Spawn, proc_current_valid
<1>2. /\ NewPid \notin Pids /\ NewPid \in Nat /\ Pids' = Pids \cup {NewPid}
      /\ procs'[NewPid].parent = current_pid
      /\ \A q \in Pids : procs'[q].parent = procs[q].parent
  BY <1>1, NewProcess
<1>3. INIT_PID \in Pids
  <2>1. 1 \in 1 .. Len(frames)
    BY Basics
  <2> QED BY <2>1, Basics
<1>4. /\ Len(frames') = Len(frames) + 1 /\ frames'[1] = frames[1] /\ frames' # <<>>
  <2>1. frames \in Seq([pid : Nat, previous : Nat]) /\ 1 \in 1 .. Len(frames) /\ Len(frames) \in Nat
    BY Basics
  <2>2. [pid |-> NewPid, previous |-> current_pid] \in [pid : Nat, previous : Nat]
    BY <1>1, <1>2
  <2>3. Len(frames') = Len(frames) + 1 /\ frames'[1] = frames[1]
    BY <1>1, <2>1, <2>2, AppendProperties
  <2> QED BY <2>1, <2>3
<1> QED BY <1>1, <1>2, <1>3, <1>4 DEF Kept

LEMMA NestedExit ==
  ASSUME IInv, panicked = FALSE, frames # <<>>, frames[1].pid = INIT_PID,
         NEW p \in Pids, p # INIT_PID, ExitProcess(p), UNCHANGED frames
  PROVE  Kept
<1>1. procs' = ExitTable(procs, p) /\ panicked' = panicked
  BY DEF ExitProcess
<1>2. \A q \in DOMAIN procs : procs[q] \in Entry
  BY Basics DEF Pids
<1>3. /\ DOMAIN procs' = DOMAIN procs
      /\ \A q \in DOMAIN procs :
           procs'[q].parent = IF procs[q].parent = p THEN INIT_PID ELSE procs[q].parent
  BY <1>1, <1>2, ExitTableFacts
<1> QED BY <1>1, <1>3 DEF Kept, Pids

LEMMA NestedWait ==
  ASSUME IInv, panicked = FALSE, frames # <<>>, frames[1].pid = INIT_PID,
         NEW c \in Pids, Wait(c), current_pid # INIT_PID
  PROVE  Kept
<1>1. procs' = Remove(procs, c) /\ procs[c].parent # INIT_PID /\ UNCHANGED <<frames, panicked>>
  BY DEF Wait, Waitable
<1>2. Pids' = Pids \ {c} /\ \A q \in Pids \ {c} : procs'[q] = procs[q]
  BY <1>1 DEF Remove, Restrict, Pids
<1> QED BY <1>1, <1>2 DEF Kept

LEMMA NestedReturn ==
  ASSUME IInv, panicked = FALSE, Len(frames) > 1, frames[1].pid = INIT_PID, Return
  PROVE  Kept
<1> DEFINE n == Len(frames)
           p == frames[n].pid
<1>1. p # INIT_PID
  BY NestedCall
<1>2. panicked' = FALSE
  BY <1>1 DEF Return
<1>3. /\ Pids' = Pids /\ frames' = SubSeq(frames, 1, n - 1)
      /\ \A q \in Pids : procs'[q].parent =
                           IF procs[q].parent = p THEN INIT_PID ELSE procs[q].parent
  BY <1>2, ReturnFacts
<1>4. frames \in Seq([pid : Nat, previous : Nat]) /\ n \in Nat \ {0} /\ 1 \in 1 .. (n - 1)
  BY Basics
<1>5. Len(frames') = n - 1 /\ frames'[1] = frames[1]
  BY <1>3, <1>4, DropLast
<1>6. frames' # <<>>
  BY <1>4, <1>5
<1> QED BY <1>2, <1>3, <1>5, <1>6 DEF Kept

(* Whatever a program running inside launchd's call does. *)
LEMMA NestedStep ==
  ASSUME IInv, panicked = FALSE, Len(frames) > 1, frames[1].pid = INIT_PID,
         ProgramCalls \/ ProgramReturns
  PROVE  Kept
<1>1. frames # <<>> /\ Len(frames) \in Nat
  BY Basics
<1>2. proc_current_valid => current_pid # INIT_PID
  BY NestedCall
<1>3. CASE ProgramReturns
  BY <1>3, NestedReturn DEF ProgramReturns
<1>4. CASE Spawn
  BY <1>1, <1>4, NestedSpawn
<1>5. CASE SpawnFails
  BY <1>1, <1>5 DEF SpawnFails, Kept, Pids
<1>6. CASE Exit
  <2>1. current_pid \in Pids /\ current_pid # INIT_PID /\ ExitProcess(current_pid) /\ UNCHANGED frames
    BY <1>2, <1>6 DEF Exit, proc_current_valid
  <2> QED BY <1>1, <2>1, NestedExit
<1>7. ASSUME NEW p \in Pids, Kill(p) PROVE Kept
  <2>1. p # INIT_PID /\ ExitProcess(p) /\ UNCHANGED frames
    BY <1>7 DEF Kill
  <2> QED BY <1>1, <2>1, NestedExit
<1>8. ASSUME NEW p \in Pids, Wait(p) PROVE Kept
  <2>1. current_pid # INIT_PID
    BY <1>2, <1>8 DEF Wait
  <2> QED BY <1>1, <1>8, <2>1, NestedWait
<1> QED BY <1>3, <1>4, <1>5, <1>6, <1>7, <1>8 DEF ProgramCalls

-----------------------------------------------------------------------------
(* The invariant, part by part. *)

LEMMA LaunchdInitInv == LaunchdInit => LInv
<1> SUFFICES ASSUME LaunchdInit PROVE LInv
  OBVIOUS
<1>1. IInv
  BY InitIInv DEF LaunchdInit
<1>2. stage = "mount" /\ daemon = 0 /\ next_pid = INIT_PID /\ panicked = FALSE
  BY DEF LaunchdInit, Init
<1>3. BootInv
  <2>1. vfs \in [Paths -> {"absent", "partial", "whole"}]
    BY DEF LaunchdInit
  <2> QED BY <1>2, <2>1, Zenon DEF BootInv, CopyStages, Early
<1>4. ControlInv
  BY <1>2 DEF ControlInv, CopyStages, UserStages
<1> QED BY <1>1, <1>3, <1>4 DEF LInv

LEMMA TableInvStep ==
  ASSUME LInv, [LaunchdNext]_everything PROVE IInv'
<1>1. CASE RunModules
  <2>1. UNCHANGED <<procs, next_pid, current_pid, ctxs, next_ctx_id, frames>> /\ panicked' \in BOOLEAN
    BY <1>1 DEF RunModules
  <2> QED BY <2>1, StutterIInv DEF LInv
<1>2. CASE UNCHANGED everything
  BY <1>2, NextIInv DEF everything, LInv
<1>3. CASE LaunchdNext /\ ~RunModules
  BY <1>3, TableStep, NextIInv DEF LInv
<1> QED BY <1>1, <1>2, <1>3

(* No step gives a process number back. *)
LEMMA NumbersGrow ==
  ASSUME IInv, [Next]_vars, next_pid # INIT_PID PROVE next_pid' # INIT_PID
<1>1. next_pid \in Nat /\ next_pid >= 1
  BY Basics
<1>2. next_pid' = next_pid \/ next_pid' = next_pid + 1
  <2>1. CASE Boot \/ Spawn \/ SpawnFails
    BY <2>1 DEF Boot, Spawn, SpawnFails
  <2>2. CASE Exit \/ Return
    BY <2>2 DEF Exit, Return
  <2>3. CASE \E p \in Pids : Kill(p) \/ Wait(p)
    BY <2>3 DEF Kill, Wait
  <2>4. CASE UNCHANGED vars
    BY <2>4 DEF vars
  <2> QED BY <2>1, <2>2, <2>3, <2>4 DEF Next
<1> QED BY <1>1, <1>2 DEF INIT_PID

(* Only process 1 or its descendants run. *)
LEMMA NobodyBeforeFirst ==
  ASSUME IInv, next_pid = INIT_PID
  PROVE  Pids = {} /\ frames = <<>> /\ ~proc_current_valid
<1>1. Pids = {}
  BY Basics DEF INIT_PID
<1>2. frames = <<>>
  <2>1. Len(frames) \in Nat /\ frames \in Seq([pid : Nat, previous : Nat])
        /\ \A i \in 1 .. Len(frames) : frames[i].pid \in Pids
    BY Basics
  <2>2. Len(frames) = 0
    BY <1>1, <2>1
  <2> QED BY <2>1, <2>2, EmptySeq
<1> QED BY <1>1, <1>2 DEF proc_current_valid

(* The code of launchd and of programs runs only once process 1 exists. *)
LEMMA RunsAfterBoot ==
  ASSUME LInv, LaunchdCode \/ ProgramCalls \/ ProgramReturns
  PROVE  /\ next_pid # INIT_PID /\ Whole /\ UNCHANGED vfs
         /\ stage \notin CopyStages \cup {"halted"}
         /\ stage' = stage \/ stage' \in UserStages
         /\ [Next]_vars
<1>1. proc_current_valid \/ frames # <<>>
  <2>1. CASE LaunchdCode
    BY <2>1 DEF LaunchdCode, OpenConfig, StartDaemon, SkipDaemon, CollectDaemon, Finish, LaunchdRuns
  <2>2. CASE ProgramCalls
    <3>1. CASE Spawn \/ SpawnFails \/ Exit
      BY <3>1 DEF Spawn, SpawnFails, Exit
    <3>2. CASE \E p \in Pids : Kill(p) \/ Wait(p)
      BY <3>2 DEF Kill, Wait
    <3> QED BY <2>2, <3>1, <3>2 DEF ProgramCalls
  <2>3. CASE ProgramReturns
    BY <2>3 DEF ProgramReturns, Return
  <2> QED BY <2>1, <2>2, <2>3
<1>2. next_pid # INIT_PID
  BY <1>1, NobodyBeforeFirst DEF LInv
<1>3. Whole /\ stage \notin CopyStages
  BY <1>2 DEF LInv, BootInv
<1>4. stage # "halted"
  <2>1. CASE LaunchdCode
    BY <2>1 DEF LaunchdCode, OpenConfig, StartDaemon, SkipDaemon, CollectDaemon, Finish
  <2>2. CASE ProgramCalls \/ ProgramReturns
    <3>1. ProgramRuns
      BY <2>2 DEF ProgramCalls, ProgramReturns
    <3>2. stage = "halted" => Len(frames) = 0
      BY DEF LInv, BootInv
    <3> QED BY <3>1, <3>2 DEF ProgramRuns
  <2> QED BY <2>1, <2>2
<1>5. UNCHANGED vfs /\ (stage' = stage \/ stage' \in UserStages)
  <2>1. CASE LaunchdCode
    BY <2>1 DEF LaunchdCode, OpenConfig, StartDaemon, SkipDaemon, CollectDaemon, Finish, UserStages
  <2>2. CASE ProgramCalls \/ ProgramReturns
    BY <2>2 DEF ProgramCalls, ProgramReturns, ours
  <2> QED BY <2>1, <2>2
<1>6. [Next]_vars
  <2>1. ~RunModules
    BY <1>5 DEF RunModules, UserStages, LaunchdCode, OpenConfig, StartDaemon, SkipDaemon,
                CollectDaemon, Finish, ProgramCalls, ProgramReturns, ours
  <2> QED BY <2>1, TableStep DEF LaunchdNext
<1> QED BY <1>2, <1>3, <1>4, <1>5, <1>6

LEMMA BootInvStep ==
  ASSUME LInv, [LaunchdNext]_everything PROVE BootInv'
<1>0. IInv /\ BootInv
  BY DEF LInv
<1>1. CASE mount \/ CopyWhole \/ CopyFails
  <2>1. /\ UNCHANGED vars /\ next_pid = INIT_PID /\ Early /\ stage \in {"mount", "mirror", "install"}
    BY <1>0, <1>1 DEF mount, CopyWhole, CopyFails, BootInv, CopyStages
  <2>2. /\ stage' \in {"mirror", "install", "create", "modules"}
        /\ vfs' \in [Paths -> {"absent", "partial", "whole"}]
    BY <1>0, <1>1 DEF mount, CopyWhole, CopyFails, GivenUp, BootInv
  <2>3. ASSUME stage' = "create" PROVE Whole'
    <3>1. CopyWhole /\ Missing = {NextPath}
      BY <1>1, <2>1, <2>3 DEF mount, CopyWhole, CopyFails, GivenUp
    <3> QED BY <1>0, <3>1 DEF CopyWhole, Missing, Whole, BootInv
  <2>4. next_pid' = INIT_PID /\ Early'
    BY <2>1, Zenon DEF vars, Early
  <2> QED BY <2>2, <2>3, <2>4 DEF BootInv, CopyStages
<1>2. CASE BootProcess
  <2>1. stage = "create" /\ Whole /\ UNCHANGED vfs /\ RInv /\ [Next]_vars
    BY <1>0, <1>2 DEF BootProcess, BootInv, RInv, Next
  <2>2. stage' \in {"modules", "program", "open"} /\ next_pid' # INIT_PID
    BY <1>2 DEF BootProcess, Boot, INIT_PID
  <2>3. Early'
    BY <2>1, StepEarly
  <2>4. Whole' /\ vfs' \in [Paths -> {"absent", "partial", "whole"}]
    BY <1>0, <2>1 DEF Whole, BootInv
  <2> QED BY <2>2, <2>3, <2>4 DEF BootInv, CopyStages, UserStages
<1>3. CASE RunModules
  <2>1. UNCHANGED <<next_pid, frames, vfs>> /\ stage' = "halted" /\ frames = <<>>
    BY <1>3 DEF RunModules
  <2> QED BY <1>0, <2>1 DEF BootInv, CopyStages, Whole
<1>4. CASE LaunchdCode \/ ProgramCalls \/ ProgramReturns
  <2>1. /\ next_pid # INIT_PID /\ Whole /\ UNCHANGED vfs
        /\ stage \notin CopyStages \cup {"halted"}
        /\ stage' = stage \/ stage' \in UserStages
        /\ [Next]_vars
    BY <1>4, RunsAfterBoot
  <2>2. RInv
    BY <1>0, <2>1 DEF RInv, BootInv
  <2>3. Early' /\ next_pid' # INIT_PID
    BY <1>0, <2>1, <2>2, StepEarly, NumbersGrow
  <2>4. Whole' /\ vfs' \in [Paths -> {"absent", "partial", "whole"}]
    BY <1>0, <2>1 DEF Whole, BootInv
  <2>5. stage' \notin CopyStages \cup {"halted"}
    BY <2>1 DEF CopyStages, UserStages
  <2> QED BY <1>0, <2>1, <2>3, <2>4, <2>5 DEF BootInv
<1>5. CASE UNCHANGED everything
  <2>1. UNCHANGED <<stage, vfs, next_pid, frames, panicked>>
    BY <1>5 DEF everything, vars, ours
  <2>2. Early' <=> Early
    BY <2>1, Zenon DEF Early
  <2> QED BY <1>0, <2>1, <2>2 DEF BootInv, Whole
<1> QED BY <1>1, <1>2, <1>3, <1>4, <1>5 DEF LaunchdNext, Kernel

(* With nothing running inside its call, launchd is the current process,   *)
(* and every other process has exited.                                     *)
LEMMA LaunchdAlone ==
  ASSUME LInv, stage \in UserStages, Len(frames) = 1
  PROVE  /\ proc_current_valid /\ current_pid = INIT_PID
         /\ \A p \in Pids : p # INIT_PID => procs[p].state = "EXITED"
<1>1. IInv /\ frames # <<>> /\ frames[1].pid = INIT_PID
  BY DEF LInv, ControlInv
<1>2. INIT_PID \in Pids /\ DOMAIN frames = {1}
  BY <1>1, Basics
<1>3. Alive(INIT_PID) /\ Running = INIT_PID
  <2>1. next_pid > INIT_PID
    BY <1>1, <1>2, Basics DEF INIT_PID
  <2> QED BY <1>1, <2>1 DEF IInv, ParentsAlive, Running
<1>4. current_pid = INIT_PID /\ procs[INIT_PID].state = "RUNNING"
  BY <1>1, <1>2, <1>3 DEF IInv, CurrentIsInnermost
<1>5. ASSUME NEW p \in Pids, p # INIT_PID PROVE procs[p].state = "EXITED"
  <2>1. FramePids = {INIT_PID}
    BY <1>1, <1>2 DEF FramePids
  <2> QED BY <1>1, <1>5, <2>1 DEF IInv, NoneForgotten, Alive
<1> QED BY <1>2, <1>4, <1>5 DEF proc_current_valid

LEMMA LaunchdControl ==
  ASSUME LInv, LaunchdCode PROVE ControlInv'
<1>0. /\ IInv /\ Whole /\ stage \in UserStages /\ Len(frames) = 1
      /\ panicked = FALSE /\ frames # <<>> /\ frames[1].pid = INIT_PID
  <2>1. stage \in UserStages /\ Len(frames) = 1
    BY DEF LaunchdCode, OpenConfig, StartDaemon, SkipDaemon, CollectDaemon, Finish,
           LaunchdRuns, UserStages
  <2> QED BY <2>1, RunsAfterBoot DEF LInv, ControlInv
<1>1. CASE OpenConfig
  <2>1. vfs[CONFIG] # "absent"
    BY <1>0 DEF Whole, Paths
  <2>2. stage = "open" /\ stage' = "next" /\ UNCHANGED <<procs, frames, panicked, daemon>>
    BY <1>1, <2>1 DEF OpenConfig, vars
  <2> QED BY <1>0, <2>2 DEF LInv, ControlInv, UserStages, CopyStages
<1>2. CASE StartDaemon
  <2>1. Spawn /\ daemon' = NewPid /\ stage' = "wait"
    BY <1>2 DEF StartDaemon
  <2>2. current_pid = INIT_PID
    BY <1>0, LaunchdAlone
  <2>3. Kept /\ NewPid \in Pids' /\ NewPid # INIT_PID /\ procs'[NewPid].parent = INIT_PID
    BY <1>0, <2>1, <2>2, NestedSpawn
  <2> QED BY <2>1, <2>3 DEF ControlInv, Kept, UserStages, CopyStages
<1>3. CASE SkipDaemon
  <2>1. stage = "next" /\ UNCHANGED <<frames, panicked, stage, daemon>>
    BY <1>3 DEF SkipDaemon, SpawnFails, vars
  <2> QED BY <1>0, <2>1 DEF LInv, ControlInv, UserStages, CopyStages
<1>4. CASE CollectDaemon
  <2>1. stage' = "next" /\ daemon' = 0 /\ UNCHANGED <<frames, panicked>>
    BY <1>4 DEF CollectDaemon, WaitDaemon, Wait, vars
  <2> QED BY <1>0, <2>1 DEF ControlInv, UserStages, CopyStages
<1>5. CASE Finish
  <2>1. stage = "next" /\ stage' = "idle" /\ UNCHANGED <<frames, panicked, daemon>>
    BY <1>5 DEF Finish, vars
  <2> QED BY <1>0, <2>1 DEF LInv, ControlInv, UserStages, CopyStages
<1> QED BY <1>1, <1>2, <1>3, <1>4, <1>5 DEF LaunchdCode

LEMMA ProgramControl ==
  ASSUME LInv, ProgramCalls \/ ProgramReturns PROVE ControlInv'
<1>0. UNCHANGED <<stage, daemon>> /\ stage \notin CopyStages
  BY RunsAfterBoot DEF ProgramCalls, ProgramReturns, ours
<1>1. CASE stage \in UserStages
  <2>1. IInv /\ panicked = FALSE /\ frames[1].pid = INIT_PID
    BY <1>1 DEF LInv, ControlInv
  <2>2. Len(frames) > 1
    BY <1>1 DEF ProgramCalls, ProgramReturns, ProgramRuns, UserStages
  <2>3. Kept
    BY <2>1, <2>2, NestedStep
  <2> QED BY <1>0, <1>1, <2>3 DEF LInv, ControlInv, Kept
<1>2. CASE stage \notin UserStages
  BY <1>0, <1>2 DEF ControlInv, UserStages
<1> QED BY <1>1, <1>2

LEMMA ControlInvStep ==
  ASSUME LInv, [LaunchdNext]_everything PROVE ControlInv'
<1>1. CASE mount \/ CopyWhole \/ CopyFails
  <2>1. /\ UNCHANGED daemon /\ stage \in CopyStages
        /\ stage' \in {"mirror", "install", "create", "modules"}
    BY <1>1 DEF mount, CopyWhole, CopyFails, GivenUp, CopyStages
  <2>2. daemon = 0
    BY <2>1 DEF LInv, ControlInv, CopyStages
  <2> QED BY <2>1, <2>2 DEF ControlInv, UserStages
<1>2. CASE BootProcess
  <2>1. stage = "create" /\ Boot /\ UNCHANGED daemon /\ next_pid = INIT_PID
    BY <1>2 DEF BootProcess, Boot
  <2>2. panicked = FALSE /\ frames = <<>> /\ daemon = 0
    BY <2>1, NobodyBeforeFirst, ZenonT(30) DEF LInv, BootInv, ControlInv, Early, CopyStages
  <2>3. panicked' = FALSE
    BY <2>1, <2>2 DEF Boot
  <2>4. frames' = <<>> \/ frames' = <<[pid |-> NewPid, previous |-> NewPid]>>
    BY <2>1, <2>2 DEF Boot
  <2>5. CASE frames' = <<>>
    <3>1. stage' = "modules"
      BY <1>2, <2>5 DEF BootProcess
    <3> QED BY <3>1 DEF ControlInv, UserStages, CopyStages
  <2>6. CASE frames' = <<[pid |-> NewPid, previous |-> NewPid]>>
    <3>1. stage' \in {"program", "open", "modules"} /\ daemon' = 0
      BY <1>2, <2>1, <2>2 DEF BootProcess
    <3>2. frames' # <<>> /\ frames'[1].pid = INIT_PID
      BY <2>1, <2>6 DEF NewPid
    <3> QED BY <2>3, <3>1, <3>2 DEF ControlInv, UserStages, CopyStages
  <2> QED BY <2>4, <2>5, <2>6
<1>3. CASE RunModules
  BY <1>3 DEF RunModules, ControlInv, UserStages, CopyStages
<1>4. CASE LaunchdCode
  BY <1>4, LaunchdControl
<1>5. CASE ProgramCalls \/ ProgramReturns
  BY <1>5, ProgramControl
<1>6. CASE UNCHANGED everything
  <2>1. UNCHANGED <<stage, daemon, procs, frames, panicked>>
    BY <1>6 DEF everything, vars, ours
  <2> QED BY <2>1 DEF LInv, ControlInv, Pids
<1> QED BY <1>1, <1>2, <1>3, <1>4, <1>5, <1>6 DEF LaunchdNext, Kernel

LEMMA LaunchdStep == LInv /\ [LaunchdNext]_everything => LInv'
  BY TableInvStep, BootInvStep, ControlInvStep DEF LInv

LEMMA LaunchdInvariant == LaunchdSpec => []LInv
  BY LaunchdInitInv, LaunchdStep, PTL DEF LaunchdSpec

-----------------------------------------------------------------------------
(***************************************************************************)
(* launchd_boot starts process 1 only over a complete userland: the prefix *)
(* that a failed copy leaves in the VFS is never run or read, whichever    *)
(* copy fails, and also when boot modules run in its stead.                *)
(***************************************************************************)
THEOREM UserlandComplete == LaunchdSpec => []OnlyWholeRuns
<1>1. LInv => OnlyWholeRuns
  BY NobodyBeforeFirst DEF LInv, BootInv, Whole, OnlyWholeRuns
<1> QED BY <1>1, LaunchdInvariant, PTL

(***************************************************************************)
(* Whatever launchd's daemons, and what these start, kill and collect, do: *)
(* the machine does not panic, launchd is the current process again when   *)
(* they have returned, and the daemon that start_daemon is to wait for is  *)
(* still there, launchd's child, and has exited by then.                   *)
(***************************************************************************)
THEOREM LaunchdKeepsControl == LaunchdSpec => []LaunchdInControl
<1>1. LInv => LaunchdInControl
  <2> SUFFICES ASSUME LInv, stage \in UserStages
               PROVE  /\ ~panicked /\ frames # <<>>
                      /\ Len(frames) = 1 => proc_current_valid /\ current_pid = INIT_PID
                      /\ daemon # 0 => daemon \in Pids /\ procs[daemon].parent = INIT_PID
                      /\ daemon # 0 /\ Len(frames) = 1 => Waitable(INIT_PID, daemon)
    BY DEF LaunchdInControl
  <2>1. ~panicked /\ frames # <<>>
    BY DEF LInv, ControlInv
  <2>2. daemon # 0 => daemon \in Pids /\ daemon # INIT_PID /\ procs[daemon].parent = INIT_PID
    BY DEF LInv, ControlInv
  <2> QED BY <2>1, <2>2, LaunchdAlone DEF Waitable
<1> QED BY <1>1, LaunchdInvariant, PTL

(***************************************************************************)
(* The process table stays sound on the machine as it boots: the           *)
(* invariants of the table by itself hold with the kernel, launchd, its    *)
(* daemons and boot modules as its users, and when the kernel panics.      *)
(***************************************************************************)
THEOREM TableSoundUnderLaunchd ==
  LaunchdSpec => [](/\ CurrentIsInnermost /\ FramesKeepMemory /\ ParentsAlive
                    /\ ContextsMatch /\ NoneForgotten)
<1>1. LInv => /\ CurrentIsInnermost /\ FramesKeepMemory /\ ParentsAlive
              /\ ContextsMatch /\ NoneForgotten
  BY DEF LInv, IInv
<1> QED BY <1>1, LaunchdInvariant, PTL

(* Every step of the machine is a step of the abstract life cycle. *)
LEMMA LifeStep ==
  ASSUME LInv, [LaunchdNext]_everything
  PROVE  /\ Life!LifeNext \/ UNCHANGED life
         /\ gone \subseteq gone' \/ \E c \in Pids : Wait(c)
<1>1. CASE RunModules
  <2>1. UNCHANGED <<procs, next_pid>> /\ ~panicked /\ panicked' = ~mods
    BY <1>1 DEF RunModules
  <2>2. parents' = parents /\ gone' = gone /\ used' = used
    BY <2>1 DEF parents, gone, used, Pids
  <2>3. CASE mods
    <3>1. panicked' = panicked
      <4>1. panicked = FALSE
        BY <2>1, ZenonT(30) DEF LInv, IInv, TypeOK
      <4> QED BY <2>1, <2>3, <4>1
    <3> QED BY <2>2, <3>1 DEF life
  <2>4. CASE ~mods
    <3>1. Life!Halt
      BY <2>1, <2>2, <2>4 DEF Life!Halt, parents, gone, used
    <3> QED BY <2>1, <2>2, <3>1 DEF Life!LifeNext
  <2> QED BY <2>2, <2>3, <2>4
<1>2. CASE [Next]_vars /\ stage # "halted"
  BY <1>2, StepLife DEF LInv, BootInv, RInv
<1>3. CASE UNCHANGED vars
  BY <1>3 DEF vars, life, parents, gone, used, Pids
<1>4. CASE LaunchdNext /\ ~RunModules
  <2>1. [Next]_vars
    BY <1>4, TableStep
  <2>2. stage # "halted"
    BY <1>4, RunsAfterBoot DEF LaunchdNext, Kernel, mount, CopyWhole, CopyFails, BootProcess
  <2> QED BY <1>2, <2>1, <2>2
<1> QED BY <1>1, <1>3, <1>4 DEF everything

(***************************************************************************)
(* The machine as it boots implements the abstract life cycle of processes:*)
(* the panic of a kernel with neither a userland nor a boot module is the  *)
(* only step beyond those of the process table, and it is a halt.          *)
(***************************************************************************)
THEOREM BootedLifecycle == LaunchdSpec => ImplementsLifecycle
<1>1. LaunchdInit => Life!LifeInit
  <2> SUFFICES ASSUME LaunchdInit PROVE Life!LifeInit
    OBVIOUS
  <2>1. Pids = {} /\ next_pid = 1 /\ panicked = FALSE
    BY DEF LaunchdInit, Init, Pids, Empty, INIT_PID
  <2>2. [p \in Pids |-> procs[p].parent] = <<>>
    BY <2>1
  <2>3. 1 .. (next_pid - 1) = {}
    BY <2>1
  <2> QED BY <2>1, <2>2, <2>3 DEF Life!LifeInit
<1>2. LInv /\ [LaunchdNext]_everything => [Life!LifeNext]_(Life!lifeVars)
  BY LifeStep DEF Life!lifeVars, life, parents, gone, used
<1> QED BY <1>1, <1>2, LaunchdInvariant, PTL DEF LaunchdSpec, ImplementsLifecycle, Life!LifeSpec

(***************************************************************************)
(* On the machine as it boots, too, a process that has exited stays so     *)
(* until its parent collects it.                                           *)
(***************************************************************************)
THEOREM BootedExitsFinal == LaunchdSpec => ExitIsFinal
<1> DEFINE Final == \A p \in Pids : ~Alive(p) =>
                      \/ p \in Pids' /\ procs'[p].state = "EXITED"
                      \/ p \notin Pids' /\ current_pid = procs[p].parent
<1>1. ASSUME LInv, [LaunchdNext]_everything PROVE Final
  <2>1. CASE gone \subseteq gone'
    BY <2>1 DEF gone, Alive
  <2>2. ASSUME NEW c \in Pids, Wait(c) PROVE Final
    <3>1. gone' = gone \ {c} /\ Pids' = Pids \ {c} /\ current_pid = procs[c].parent
      BY <1>1, <2>2, WaitLife DEF LInv
    <3> QED BY <3>1 DEF gone, Alive
  <2> QED BY <1>1, <2>1, <2>2, LifeStep
<1>2. LInv /\ [LaunchdNext]_everything => [Final]_vars
  BY <1>1
<1> QED BY <1>2, LaunchdInvariant, PTL DEF LaunchdSpec, ExitIsFinal
=============================================================================
