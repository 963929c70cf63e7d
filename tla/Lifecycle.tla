----------------------------- MODULE Lifecycle -----------------------------
(***************************************************************************)
(* What a process table promises, whatever its layout.  A process number   *)
(* is used once.  A process that exits stays in the table until the        *)
(* process responsible for it collects it; the children of a process that  *)
(* exits pass to the first process, which never exits.                     *)
(***************************************************************************)
EXTENDS Integers

VARIABLES
  parent,     \* the process responsible for each process of the table
  exited,     \* the processes of the table that have exited
  numbers,    \* the process numbers that have been used up
  halted      \* the machine has stopped

lifeVars == <<parent, exited, numbers, halted>>

First == 1
Nobody == 0
Alive == DOMAIN parent \ exited

LifeInit == parent = <<>> /\ exited = {} /\ numbers = {} /\ halted = FALSE

Boot ==
  /\ numbers = {}
  /\ parent' = [p \in {First} |-> Nobody]
  /\ numbers' = {First}
  /\ UNCHANGED <<exited, halted>>

Fork(p) ==
  /\ p \in Alive
  /\ \E c \in numbers' \ numbers :
       /\ numbers' = numbers \cup {c}
       /\ parent' = [q \in DOMAIN parent \cup {c} |-> IF q = c THEN p ELSE parent[q]]
  /\ UNCHANGED <<exited, halted>>

(* A fork that fails may use up a number. *)
FailedFork(p) ==
  /\ p \in Alive
  /\ \E c \in numbers' \ numbers : numbers' = numbers \cup {c}
  /\ UNCHANGED <<parent, exited, halted>>

Exit(p) ==
  /\ p \in Alive \ {First}
  /\ exited' = exited \cup {p}
  /\ parent' = [q \in DOMAIN parent |-> IF parent[q] = p THEN First ELSE parent[q]]
  /\ UNCHANGED <<numbers, halted>>

Collect(p, c) ==
  /\ p \in Alive
  /\ c \in exited
  /\ parent[c] = p
  /\ exited' = exited \ {c}
  /\ parent' = [q \in DOMAIN parent \ {c} |-> parent[q]]
  /\ UNCHANGED <<numbers, halted>>

Halt == halted' = TRUE /\ UNCHANGED <<parent, exited, numbers>>

LifeNext ==
  /\ ~halted
  /\ \/ Boot
     \/ \E p \in DOMAIN parent :
          \/ Fork(p) \/ FailedFork(p) \/ Exit(p)
          \/ \E c \in DOMAIN parent : Collect(p, c)
     \/ Halt

LifeSpec == LifeInit /\ [][LifeNext]_lifeVars
=============================================================================
