------------------------------ MODULE Launchd ------------------------------
(***************************************************************************)
(* Bringing up userland: launchd_boot (kernel/launchd.c) copies three      *)
(* files into the VFS and starts process 1; process 1 (run/userland/       *)
(* launchd.c) reads its configuration and starts the configured daemons    *)
(* one after the other, waiting for each.  The processes are those of      *)
(* Proc, whose actions this module drives: a daemon runs nested inside     *)
(* launchd's system call and may itself start, kill and collect processes, *)
(* as shelld does at its user's command.  The launchd of an image may also *)
(* be a program of its own, and so may the boot modules the kernel runs    *)
(* when process 1 does not load: these make any call, in any order.        *)
(*                                                                         *)
(* A file of the VFS is absent, a prefix of what it should be, or whole;   *)
(* what is in it is abstracted to whether it loads.  launchd_boot may fail *)
(* at every step that can: the image, its files, the VFS, the heap.        *)
(***************************************************************************)
EXTENDS Proc

CONSTANTS
  Lines,      \* the lines of /launchd.cfg that name a program
  Loadable,   \* those whose program can be loaded
  Spare       \* process numbers kept for launchd: bounds what daemons start

ASSUME LaunchdAssumption ==
  /\ Lines \in Nat /\ Loadable \subseteq 1 .. Lines
  /\ Spare \in Nat

VARIABLES
  image,      \* the boot module userland.img: "none", "raw", "fat", or "own": a
              \* FAT volume whose launchd.elf is not the repository's
  mods,       \* whether the boot loader passed any module
  vfs,        \* what the VFS holds under each of the three paths
  stage,      \* where the kernel, and then launchd's own code, is
  line,       \* the configuration line launchd is at
  daemon,     \* the process launchd is to wait for, or 0
  started, collected  \* history: the lines whose daemon was started, collected

ours == <<image, mods, vfs, stage, line, daemon, started, collected>>
everything == <<vars, ours>>

BINARY == 1
CONFIG == 2
SHELL == 3
Paths == {BINARY, CONFIG, SHELL}    \* in the order they are copied

UserStages == {"open", "next", "wait", "idle"}

LaunchdInit ==
  /\ Init
  /\ image \in {"none", "raw", "fat", "own"} /\ mods \in BOOLEAN
  /\ image # "none" => mods
  /\ vfs = [p \in Paths |-> "absent"]
  /\ stage = "mount"
  /\ line = 1 /\ daemon = 0 /\ started = {} /\ collected = {}

-----------------------------------------------------------------------------
(***************************************************************************)
(* launchd_boot up to the creation of process 1.  Both sources are copied  *)
(* file by file: copy_fat_file_to_vfs from the image, or                   *)
(* install_initramfs_file from the kernel's own copy when there is no      *)
(* image or it does not mount.                                             *)
(***************************************************************************)
Missing == {p \in Paths : vfs[p] # "whole"}
NextPath == CHOOSE p \in Missing : \A q \in Missing : p <= q

mount ==
  /\ stage = "mount"
  /\ stage' = IF image \in {"fat", "own"} THEN "mirror" ELSE "install"
  /\ UNCHANGED <<vars, image, mods, vfs, line, daemon, started, collected>>

CopyWhole ==
  /\ stage \in {"mirror", "install"} /\ Missing # {}
  /\ vfs' = [vfs EXCEPT ![NextPath] = "whole"]
  /\ stage' = IF Missing = {NextPath} THEN "create" ELSE stage
  /\ UNCHANGED <<vars, image, mods, line, daemon, started, collected>>

(* Not to be found, empty or too large, or the VFS gives no descriptor:    *)
(* nothing is written.  Otherwise a read or a write falls short and what   *)
(* was written stays.  Either way launchd_boot gives up, and kernel_main   *)
(* goes on to the boot modules.                                            *)
\* Mutant: takes an error for the end of the file.
TakenForTheEnd(path) ==
  /\ vfs' = [vfs EXCEPT ![path] = "partial"]
  /\ stage' = "create"
GivenUp(path) ==
  /\ \E left \in {"absent", "partial"} : vfs' = [vfs EXCEPT ![path] = left]
  /\ stage' = "modules"

CopyFails ==
  /\ stage \in {"mirror", "install"} /\ Missing # {}
  /\ GivenUp(NextPath)
  /\ UNCHANGED <<vars, image, mods, line, daemon, started, collected>>

(* The rest of launchd_boot: process 1 is created, loaded and started. *)
BootProcess ==
  /\ stage = "create"
  /\ Boot
  /\ stage' = IF frames' = <<>> THEN "modules"
              ELSE IF image = "own" THEN "program" ELSE "open"
  /\ UNCHANGED <<image, mods, vfs, line, daemon, started, collected>>

(* kernel_main after launchd_boot: without any module it panics, otherwise *)
(* it runs them and halts.                                                 *)
RunModules ==
  /\ stage = "modules" /\ frames = <<>> /\ ~panicked
  /\ stage' = "halted"
  /\ panicked' = ~mods
  /\ UNCHANGED <<procs, next_pid, current_pid, ctxs, next_ctx_id, frames,
                 image, mods, vfs, line, daemon, started, collected>>

Kernel == mount \/ CopyWhole \/ CopyFails \/ BootProcess \/ RunModules

-----------------------------------------------------------------------------
(* launchd's code runs when its call is the innermost and it is current. *)
LaunchdRuns == ~panicked /\ Len(frames) = 1 /\ proc_current_valid

(* _start: it returns when the configuration is missing or empty. *)
OpenConfig ==
  /\ LaunchdRuns /\ stage = "open"
  /\ IF vfs[CONFIG] = "absent"
     THEN Return /\ UNCHANGED stage
     ELSE stage' = "next" /\ UNCHANGED vars
  /\ UNCHANGED <<image, mods, vfs, line, daemon, started, collected>>

(* start_daemon of a program that loads: SYS_PROC_SPAWN returns once the   *)
(* daemon has run.                                                         *)
StartDaemon ==
  /\ LaunchdRuns /\ stage = "next" /\ line \in Loadable
  /\ Spawn
  /\ daemon' = NewPid
  /\ started' = started \cup {line}
  /\ stage' = "wait"
  /\ UNCHANGED <<image, mods, vfs, line, collected>>

(* start_daemon of a program that is missing (no process is made), does    *)
(* not load, or finds the table full: launchd goes on with the next line.  *)
SkipDaemon ==
  /\ LaunchdRuns /\ stage = "next" /\ line <= Lines
  /\ line \notin Loadable \/ TableFull
  /\ SpawnFails \/ UNCHANGED vars
  /\ line' = line + 1
  /\ UNCHANGED <<image, mods, vfs, stage, daemon, started, collected>>

(* SYS_PROC_WAIT for the daemon that has run; the call may fail. *)
\* Mutant: forgets to wait.
WaitsForNobody == UNCHANGED vars
WaitDaemon == IF daemon \in Pids /\ Waitable(current_pid, daemon) THEN Wait(daemon) ELSE UNCHANGED vars

CollectDaemon ==
  /\ LaunchdRuns /\ stage = "wait"
  /\ WaitDaemon
  /\ collected' = IF daemon \in Pids' THEN collected ELSE collected \cup {line}
  /\ line' = line + 1 /\ daemon' = 0 /\ stage' = "next"
  /\ UNCHANGED <<image, mods, vfs, started>>

(* All lines are done: launchd sleeps for ever. *)
Finish ==
  /\ LaunchdRuns /\ stage = "next" /\ line > Lines
  /\ stage' = "idle"
  /\ UNCHANGED <<vars, image, mods, vfs, line, daemon, started, collected>>

LaunchdCode == OpenConfig \/ StartDaemon \/ SkipDaemon \/ CollectDaemon \/ Finish

(***************************************************************************)
(* What runs inside launchd's system call, daemons and what they start; a  *)
(* launchd of the image's own; and boot modules while process 1 is there   *)
(* without a program.  They make any of the system calls in any order,     *)
(* until each returns.                                                     *)
(***************************************************************************)
ProgramRuns ==
  \/ Len(frames) > 1 \/ stage = "program"
  \/ stage = "modules" /\ mods /\ next_pid > INIT_PID

ProgramCalls ==
  /\ ProgramRuns
  /\ \/ next_pid + Spare < MaxPid /\ (Spawn \/ SpawnFails)
     \/ Exit
     \/ \E p \in Pids : Kill(p) \/ Wait(p)
  /\ UNCHANGED ours

ProgramReturns == ProgramRuns /\ Return /\ UNCHANGED ours

LaunchdNext == Kernel \/ LaunchdCode \/ ProgramCalls \/ ProgramReturns

(***************************************************************************)
(* One processor runs the innermost code and nothing takes it away: the    *)
(* kernel and launchd take their next step.  That a daemon's code returns  *)
(* is assumed of the daemons (shelld returns when its user types exit).    *)
(***************************************************************************)
Fairness ==
  /\ WF_everything(Kernel) /\ WF_everything(LaunchdCode)
  /\ WF_everything(ProgramReturns)

LaunchdSpec == LaunchdInit /\ [][LaunchdNext]_everything /\ Fairness

-----------------------------------------------------------------------------
(***************************************************************************)
(* Process 1 is started only over a complete userland: whichever copy of   *)
(* whichever file fails half-way, the prefix it leaves in the VFS under    *)
(* the file's own name is never run or read by launchd.                    *)
(***************************************************************************)
OnlyWholeRuns == frames # <<>> => \A p \in Paths : vfs[p] = "whole"

(***************************************************************************)
(* Once launchd has started, nothing its daemons do brings the machine     *)
(* down ("init process exited"), takes the processor from launchd when     *)
(* they have returned, or takes the daemon it is to wait for out of its    *)
(* reach.                                                                  *)
(***************************************************************************)
LaunchdInControl ==
  stage \in UserStages =>
    /\ ~panicked /\ frames # <<>>
    /\ Len(frames) = 1 => proc_current_valid /\ current_pid = INIT_PID
    /\ daemon # 0 => daemon \in Pids /\ procs[daemon].parent = INIT_PID
    /\ daemon # 0 /\ Len(frames) = 1 => Waitable(INIT_PID, daemon)

(***************************************************************************)
(* Every configured daemon that loads is eventually started and, once it   *)
(* has run, collected, and launchd comes to rest.  What daemons start and  *)
(* do not collect passes to process 1, which collects only its own, and    *)
(* fills the table; but a daemon's own slot is free again for the next.    *)
(***************************************************************************)
Booted == stage = "open"
DaemonsServed ==
  /\ \A l \in Loadable : Booted ~> l \in started
  /\ \A l \in Loadable : l \in started ~> l \in collected
  /\ Booted ~> stage = "idle"
=============================================================================
