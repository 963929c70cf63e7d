----------------------------- MODULE MCLaunchd -----------------------------
(***************************************************************************)
(* Three configuration lines of which the second does not load.            *)
(***************************************************************************)
EXTENDS Launchd

MCLoadable == {1, 3}
=============================================================================
