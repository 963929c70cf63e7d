------------------------------ MODULE MCGcMark ------------------------------
(***************************************************************************)
(* Heaps of five objects and a stack of one entry.  An object points to at *)
(* most two others: two children overflow the stack, and five objects are  *)
(* what it takes for a rescan to overflow it again.  Up to two objects     *)
(* with pointers are combined with up to two roots, three with one root in *)
(* the middle, so that a rescan finds work before and after it.            *)
(***************************************************************************)
EXTENDS GcMark

MCHeads == 0 .. Last
Pairs(S) == {s \in SUBSET S : Cardinality(s) \in 1 .. 2}
Owned(P) ==
  {[o \in MCHeads |-> IF o \in P THEN f[o] ELSE {}] :
     f \in {g \in [P -> Pairs(MCHeads)] : \A o \in P : o \notin g[o]}}
Owners(n) == UNION {Owned(P) : P \in {p \in SUBSET MCHeads : Cardinality(p) = n}}
MCHeaps ==
  [kids : Owners(0) \cup Owners(1) \cup Owners(2), roots : {{}} \cup Pairs(MCHeads)]
    \cup [kids : Owners(3), roots : {{2}}]
=============================================================================
