---------------------------- MODULE ProcessTree ----------------------------
(***************************************************************************)
(* The cooperative process tree of mpymod/process/init.py: processes with  *)
(* requested permissions, effective permissions narrowed by those of the   *)
(* parent, run-time limits, termination of subtrees and the promotion of a *)
(* child to its parent's place.                                            *)
(*                                                                         *)
(* A process object outlives its termination, and whoever holds it may go  *)
(* on calling its methods; only run looks at the state.  A controller that *)
(* is not the process itself is one of its ancestors, so the controller    *)
(* decides nothing but who may call; for every setter the process itself   *)
(* may.  late is a history variable: a terminated process spawned a child. *)
(***************************************************************************)
EXTENDS Integers, Sequences, FiniteSetsExt, SequencesExt

CONSTANTS
  None,
  Libraries,    \* names of libraries
  Limits,       \* [sandboxed, libraries, runtime, can_spawn, max_children, ring] requested
  MaxPid,       \* bound on the processes ever created
  MaxNow,       \* bound on the clock
  MaxDepth      \* bound on nested runs

ASSUME TreeAssumption == {MaxPid, MaxNow, MaxDepth} \subseteq Nat

VARIABLES
  procs,        \* the process objects, by pid
  registry,     \* manager._processes
  root,         \* manager._root
  calls,        \* the processes whose target is executing, innermost last
  now,          \* the clock
  late

vars == <<procs, registry, root, calls, now, late>>

Pids == DOMAIN procs
Live == {p \in Pids : procs[p].state # "terminated"}

Init ==
  /\ procs = <<>> /\ registry = {} /\ root = None
  /\ calls = <<>> /\ now = 0 /\ late = FALSE

-----------------------------------------------------------------------------
(* Permissions. *)

Narrower(a, b) == IF a = None THEN b ELSE IF b = None THEN a ELSE Min({a, b})
Common(a, b) == IF a = None THEN b ELSE IF b = None THEN a ELSE a \cap b
Unlimited == [sandboxed |-> FALSE, libraries |-> None, runtime |-> None,
              can_spawn |-> TRUE, max_children |-> None, ring |-> 0]

\* Mutant: a request for libraries replaces the parent's set.
OwnLibraries(above, asked) ==
  [sandboxed |-> above.sandboxed \/ asked.sandboxed,
   libraries |-> IF asked.libraries = None THEN above.libraries ELSE asked.libraries,
   runtime |-> Narrower(above.runtime, asked.runtime),
   can_spawn |-> above.can_spawn /\ asked.can_spawn,
   max_children |-> Narrower(above.max_children, asked.max_children),
   ring |-> Max({above.ring, asked.ring})]

\* Mutant: the ring asked for is granted.
RingAsAsked(above, asked) ==
  [sandboxed |-> above.sandboxed \/ asked.sandboxed,
   libraries |-> Common(above.libraries, asked.libraries),
   runtime |-> Narrower(above.runtime, asked.runtime),
   can_spawn |-> above.can_spawn /\ asked.can_spawn,
   max_children |-> Narrower(above.max_children, asked.max_children),
   ring |-> asked.ring]

Effective(above, asked) ==
  [sandboxed |-> above.sandboxed \/ asked.sandboxed,
   libraries |-> Common(above.libraries, asked.libraries),
   runtime |-> Narrower(above.runtime, asked.runtime),
   can_spawn |-> above.can_spawn /\ asked.can_spawn,
   max_children |-> Narrower(above.max_children, asked.max_children),
   ring |-> Max({above.ring, asked.ring})]

\* Mutant: the deadline of a running process is left alone.
DeadlineKept(proc, eff) == proc.deadline
Deadline(proc, eff) ==
  IF proc.state # "running" THEN proc.deadline
  ELSE IF eff.runtime = None THEN None
  ELSE IF proc.start = None THEN proc.deadline
  ELSE proc.start + eff.runtime

(* _refresh_permissions(propagate=True): the process, then its children. *)
RECURSIVE Refresh(_, _)
Refresh(ps, p) ==
  LET eff == Effective(IF ps[p].parent = None THEN Unlimited ELSE ps[ps[p].parent].eff, ps[p].asked)
      mine == [ps EXCEPT ![p].eff = eff, ![p].deadline = Deadline(ps[p], eff)]
  IN  FoldSet(LAMBDA child, acc : Refresh(acc, child), mine, ps[p].children)

NewProcess(parent, asked, above) ==
  [state |-> "ready", parent |-> parent, children |-> {}, asked |-> asked,
   eff |-> Effective(above, asked), can_kill_parent |-> FALSE, start |-> None, deadline |-> None]

(* set_allowed_libraries, set_max_runtime and the other setters, with the  *)
(* value a caller passes; the process may be one that has terminated.      *)
Set(p, asked) ==
  /\ procs' = Refresh([procs EXCEPT ![p].asked = asked], p)
  /\ UNCHANGED <<registry, root, calls, now, late>>

Setters(p) ==
  \E field \in DOMAIN Unlimited : \E value \in {l[field] : l \in Limits} :
    Set(p, [procs[p].asked EXCEPT ![field] = value])

add_allowed_library(p, library) ==
  LET set == procs[p].asked.libraries
  IN  Set(p, [procs[p].asked EXCEPT !.libraries = (IF set = None THEN {} ELSE set) \cup {library}])

(* Removing the last library removes the restriction. *)
remove_allowed_library(p, library) ==
  LET left == procs[p].asked.libraries \ {library}
  IN  /\ procs[p].asked.libraries # None
      /\ Set(p, [procs[p].asked EXCEPT !.libraries = IF left = {} THEN None ELSE left])

(* Only an ancestor may allow it, and the parent is one. *)
set_can_kill_parent(p, allow) ==
  /\ procs[p].parent # None
  /\ procs' = [procs EXCEPT ![p].can_kill_parent = allow]
  /\ UNCHANGED <<registry, root, calls, now, late>>

-----------------------------------------------------------------------------
(* Life cycle. *)

create_kernel_process(asked) ==
  /\ root = None /\ Len(procs) < MaxPid
  /\ procs' = Append(procs, NewProcess(None, asked, Unlimited))
  /\ root' = Len(procs')
  /\ registry' = registry \cup {root'}
  /\ UNCHANGED <<calls, now, late>>

(* An omitted sandboxed or ring takes the spawner's effective value. *)
spawn_child(p, asked, inherit) ==
  LET eff == procs[p].eff
      request == IF inherit THEN [asked EXCEPT !.sandboxed = eff.sandboxed, !.ring = eff.ring] ELSE asked
      child == Len(procs) + 1
  IN  /\ child <= MaxPid
      /\ eff.can_spawn
      /\ eff.max_children # None => Cardinality(procs[p].children \cap Live) < eff.max_children
      /\ procs' = Append([procs EXCEPT ![p].children = @ \cup {child}], NewProcess(p, request, eff))
      /\ registry' = registry \cup {child}
      /\ late' = (late \/ p \notin Live)
      /\ UNCHANGED <<root, calls, now>>

run(p) ==
  /\ p \in Live /\ Len(calls) < MaxDepth
  /\ procs' = [procs EXCEPT ![p].state = "running", ![p].start = now,
                 ![p].deadline = IF procs[p].eff.runtime = None THEN None ELSE now + procs[p].eff.runtime]
  /\ calls' = Append(calls, p)
  /\ UNCHANGED <<registry, root, now, late>>

\* Mutant: the process is ready again whatever happened to it.
AlwaysReady(proc) == [proc EXCEPT !.state = "ready", !.start = None, !.deadline = None]
AfterRun(proc) ==
  IF proc.state = "terminated" THEN proc
  ELSE [proc EXCEPT !.state = "ready", !.start = None, !.deadline = None]

(* The innermost target returns or raises. *)
finish ==
  /\ calls # <<>>
  /\ procs' = [procs EXCEPT ![Last(calls)] = AfterRun(@)]
  /\ calls' = Front(calls)
  /\ UNCHANGED <<registry, root, now, late>>

RECURSIVE Below(_, _)
Below(ps, p) == {p} \cup UNION {Below(ps, child) : child \in ps[p].children}

\* Mutant: the terminated process stays among its parent's children.
StaysListed(ps, p) ==
  [q \in DOMAIN ps |->
     IF q \in Below(ps, p)
     THEN [ps[q] EXCEPT !.state = "terminated", !.children = {}, !.start = None, !.deadline = None]
     ELSE ps[q]]

(* _terminate: the process and all below it; nothing if it has terminated. *)
Terminated(ps, p) ==
  [q \in DOMAIN ps |->
     IF ps[p].state = "terminated" THEN ps[q]
     ELSE IF q \in Below(ps, p)
     THEN [ps[q] EXCEPT !.state = "terminated", !.children = {}, !.start = None, !.deadline = None]
     ELSE [ps[q] EXCEPT !.children = @ \ {p}]]

\* Mutant: only the process itself, its children live on.
KillsOne(ps, p) == {p}
Killed(ps, p) == IF ps[p].state = "terminated" THEN {} ELSE Below(ps, p)

(* terminate by the process or an ancestor, and kill_child. *)
terminate(p) ==
  /\ procs' = Terminated(procs, p)
  /\ registry' = registry \ Killed(procs, p)
  /\ root' = IF root = p THEN None ELSE root
  /\ UNCHANGED <<calls, now, late>>

check_runtime(p) ==
  /\ procs[p].state = "running" /\ procs[p].deadline # None /\ now > procs[p].deadline
  /\ terminate(p)

\* Mutant: the siblings keep the old parent.
SiblingsStay(ps, old, child) ==
  [q \in DOMAIN ps |->
     CASE q = child -> [ps[q] EXCEPT !.parent = ps[old].parent]
       [] q = old -> [ps[q] EXCEPT !.children = {}]
       [] q = ps[old].parent -> [ps[q] EXCEPT !.children = (@ \ {old}) \cup {child}]
       [] OTHER -> ps[q]]

(* The child takes its parent's place and adopts its siblings. *)
Promoted(ps, old, child) ==
  LET siblings == ps[old].children \ {child}
  IN  [q \in DOMAIN ps |->
         CASE q = child -> [ps[q] EXCEPT !.parent = ps[old].parent, !.children = @ \cup siblings]
           [] q = old -> [ps[q] EXCEPT !.children = {}]
           [] q \in siblings -> [ps[q] EXCEPT !.parent = child]
           [] q = ps[old].parent -> [ps[q] EXCEPT !.children = (@ \ {old}) \cup {child}]
           [] OTHER -> ps[q]]

Replaced(ps, old, child) ==
  [Refresh(Promoted(ps, old, child), child) EXCEPT ![child].can_kill_parent = FALSE]

request_parent_termination(p) ==
  LET old == procs[p].parent
      moved == Replaced(procs, old, p)
  IN  /\ old # None /\ procs[p].can_kill_parent
      /\ p \in procs[old].children
      /\ procs' = Terminated(moved, old)
      /\ registry' = registry \ Killed(moved, old)
      /\ root' = IF procs[old].parent = None THEN p ELSE root
      /\ UNCHANGED <<calls, now, late>>

Tick == now < MaxNow /\ now' = now + 1 /\ UNCHANGED <<procs, registry, root, calls, late>>

Next ==
  \/ \E asked \in Limits : create_kernel_process(asked)
  \/ \E p \in Pids :
       \/ Setters(p)
       \/ \E library \in Libraries : add_allowed_library(p, library) \/ remove_allowed_library(p, library)
       \/ \E allow \in BOOLEAN : set_can_kill_parent(p, allow)
       \/ \E asked \in Limits, inherit \in BOOLEAN : spawn_child(p, asked, inherit)
       \/ run(p) \/ terminate(p) \/ check_runtime(p) \/ request_parent_termination(p)
  \/ finish \/ Tick

Spec == Init /\ [][Next]_vars

-----------------------------------------------------------------------------
(* Types, and that exactly the processes not terminated are registered. *)
TypeOK ==
  /\ registry = Live
  /\ root \in Live \cup {None}
  /\ \A p \in Pids : /\ procs[p].state \in {"ready", "running", "terminated"}
                     /\ procs[p].parent \in (Pids \ {p}) \cup {None}
                     /\ procs[p].eff.ring \in {0, 3}
  /\ \A i \in DOMAIN calls : calls[i] \in Pids

(***************************************************************************)
(* Children tables and parent references describe the same tree, through   *)
(* every order of spawning, terminating and promoting: a process lists     *)
(* exactly the live processes whose parent it is.                          *)
(***************************************************************************)
TreeAgrees ==
  \A p \in Pids : procs[p].children = {c \in Live : procs[c].parent = p}

(***************************************************************************)
(* No live process has a permission its parent has not: whichever of them  *)
(* is changed, by whom and however the tree was rearranged since.          *)
(***************************************************************************)
PermissionsInherited ==
  \A c \in Live : procs[c].parent # None =>
    LET mine == procs[c].eff
        above == procs[procs[c].parent].eff
        AtMost(a, b) == b # None => a # None /\ a <= b
    IN  /\ above.sandboxed => mine.sandboxed
        /\ above.libraries # None => mine.libraries # None /\ mine.libraries \subseteq above.libraries
        /\ AtMost(mine.runtime, above.runtime)
        /\ mine.can_spawn => above.can_spawn
        /\ AtMost(mine.max_children, above.max_children)
        /\ above.ring <= mine.ring

(***************************************************************************)
(* As long as no terminated process was used to spawn, the live processes  *)
(* are one tree: every one but the root has a live parent, so terminating  *)
(* a process or promoting a child never leaves survivors out of reach.     *)
(***************************************************************************)
OneTree ==
  ~late => \A p \in Live : IF procs[p].parent = None THEN p = root ELSE procs[p].parent \in Live

(***************************************************************************)
(* The processes form one tree that both directions of references describe *)
(* and that holds exactly the registered processes.                        *)
(***************************************************************************)
TreeSound == TypeOK /\ TreeAgrees /\ OneTree

(***************************************************************************)
(* A running process has the deadline its current limit asks for, counted  *)
(* from its start, also when the limit, an ancestor's limit or the tree    *)
(* changed while it ran; a process that does not run has none.             *)
(***************************************************************************)
DeadlinesFollow ==
  \A p \in Pids :
    LET proc == procs[p]
    IN  IF proc.state = "running"
        THEN /\ proc.start # None
             /\ proc.deadline = IF proc.eff.runtime = None THEN None ELSE proc.start + proc.eff.runtime
        ELSE proc.start = None /\ proc.deadline = None

(***************************************************************************)
(* Termination is final, also when it strikes while the target executes    *)
(* and the target then returns through run.                                *)
(***************************************************************************)
TerminationIsFinal ==
  [][\A p \in Pids : procs[p].state = "terminated" => procs'[p].state = "terminated"]_vars
=============================================================================
