---------------------------- MODULE MCProcFiles ----------------------------
(***************************************************************************)
(* Two processes with two numbers each and three slots in the system, so   *)
(* that numbers run out before slots and slots before numbers.             *)
(***************************************************************************)
EXTENDS ProcFiles

CONSTANTS p1, p2, f1, f2

MCProcs == {p1, p2}
MCFiles == {f1, f2}
=============================================================================
