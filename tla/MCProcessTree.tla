--------------------------- MODULE MCProcessTree ---------------------------
(***************************************************************************)
(* Three processes, looked at from three sides: a tree with library sets,  *)
(* a parent and a child with every other limit, and processes that run     *)
(* with limits on their time.  States outside all three are checked but    *)
(* not continued.                                                          *)
(***************************************************************************)
EXTENDS ProcessTree

Tight == [sandboxed |-> TRUE, libraries |-> None, runtime |-> 1,
          can_spawn |-> FALSE, max_children |-> 1, ring |-> 3]
MCLimits ==
  {Unlimited, Tight, [Unlimited EXCEPT !.runtime = 1]}
    \cup {[Unlimited EXCEPT !.libraries = l] : l \in {{"json"}, {"time"}}}

Only(field) ==
  \A p \in Pids : \A l \in {procs[p].asked, procs[p].eff} : [l EXCEPT ![field] = None] = Unlimited
Still == calls = <<>> /\ now = 0

Shaped == Still /\ Only("libraries")
Limited == Still /\ Len(procs) <= 2 /\ \A p \in Pids : procs[p].eff.libraries = None
Running == Only("runtime") /\ (Len(procs) = 3 => Len(calls) < 2)
OneSide == Shaped \/ Limited \/ Running
=============================================================================
