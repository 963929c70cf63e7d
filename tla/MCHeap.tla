------------------------------- MODULE MCHeap -------------------------------
(***************************************************************************)
(* Instances of Heap for TLC.  Sizes are multiples of a page, as in the    *)
(* build (512 KiB, 8 MiB and 64 KiB against 4 KiB).                        *)
(***************************************************************************)
EXTENDS Heap

MCRequests == {8, 12, 24}
=============================================================================
