------------------------------ MODULE Regions ------------------------------
(***************************************************************************)
(* What memory contexts promise: a context is a set of allocations that    *)
(* are released together when the context is closed.  No allocation        *)
(* belongs to two contexts, and a context that was closed stays closed.    *)
(***************************************************************************)
EXTENDS Integers

VARIABLES
  regions,    \* the open contexts: id -> the allocations it owns
  closed      \* the ids of contexts that have been closed

regVars == <<regions, closed>>

Owned == UNION {regions[r] : r \in DOMAIN regions}

RegInit == regions = <<>> /\ closed = {}

Open ==
  \E r \in DOMAIN regions' \ (DOMAIN regions \cup closed) :
    /\ regions' = [x \in DOMAIN regions \cup {r} |-> IF x = r THEN {} ELSE regions[x]]
    /\ UNCHANGED closed

Take(r) ==
  \E a \in regions'[r] \ Owned :
    /\ regions' = [regions EXCEPT ![r] = @ \cup {a}]
    /\ UNCHANGED closed

Give(r) ==
  \E a \in regions[r] :
    /\ regions' = [regions EXCEPT ![r] = @ \ {a}]
    /\ UNCHANGED closed

Close(r) ==
  /\ regions' = [x \in DOMAIN regions \ {r} |-> regions[x]]
  /\ closed' = closed \cup {r}

RegNext ==
  \/ Open
  \/ \E r \in DOMAIN regions :
       \/ r \in DOMAIN regions' /\ (Take(r) \/ Give(r))
       \/ Close(r)

RegSpec == RegInit /\ [][RegNext]_regVars
=============================================================================
