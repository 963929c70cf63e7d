----------------------------- MODULE Allocator -----------------------------
(***************************************************************************)
(* What a heap promises its callers, whatever its layout: an allocation is *)
(* a run of words inside the managed space that no other allocation        *)
(* overlaps, at least as long as asked for, which stays where it is until  *)
(* it is freed.  An allocation may fail; a misuse may halt the machine.    *)
(***************************************************************************)
EXTENDS Integers

CONSTANTS Space     \* the managed words

VARIABLES
  blocks,           \* the allocations: [base, len, asked]
  halted            \* the kernel has panicked

absVars == <<blocks, halted>>

Extent(b) == b.base .. (b.base + b.len - 1)
Disjoint(b, c) == Extent(b) \cap Extent(c) = {}

AbsInit == blocks = {} /\ halted = FALSE

(* The new allocation is whatever appears in blocks'. *)
Allocate ==
  /\ ~halted
  /\ \E new \in blocks' \ blocks :
       /\ new \in [base : Space, len : Nat, asked : Nat]
       /\ new.asked <= new.len
       /\ Extent(new) \subseteq Space
       /\ \A b \in blocks : Disjoint(new, b) /\ b.base # new.base
       /\ blocks' = blocks \cup {new}
  /\ UNCHANGED halted

Release ==
  /\ ~halted
  /\ \E b \in blocks : blocks' = blocks \ {b}
  /\ UNCHANGED halted

Halt == ~halted /\ halted' = TRUE /\ UNCHANGED blocks

AbsNext == Allocate \/ Release \/ Halt

AbsSpec == AbsInit /\ [][AbsNext]_absVars
=============================================================================
