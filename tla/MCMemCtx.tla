------------------------------ MODULE MCMemCtx ------------------------------
(***************************************************************************)
(* An instance of MemCtx for TLC: two contexts and three block records, so *)
(* that each table fills up, and four addresses, so that the heap has room *)
(* beyond the block table.  Addresses are interchangeable.                 *)
(***************************************************************************)
EXTENDS MemCtx, TLC

CONSTANTS p1, p2, p3, p4

MCPtrs == {p1, p2, p3, p4}
MCSizes == {0, 1, 2}
MCQuotas == {0, 2}
PtrSymmetry == Permutations(MCPtrs)
=============================================================================
