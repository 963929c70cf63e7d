------------------------------ MODULE GcTable -------------------------------
(***************************************************************************)
(* The allocation table of the MicroPython heap (micropython/py/gc.c) and  *)
(* its two hints: where the search for free blocks starts, and the last    *)
(* block a sweep has to look at.                                           *)
(*                                                                         *)
(* What a collection marks is any set of objects (GcMark models how it is  *)
(* found), except that the object being reallocated is on the C stack.     *)
(* One heap area, automatic collection on, no finalisers, as built.        *)
(***************************************************************************)
EXTENDS Integers, FiniteSets

CONSTANTS
  Atbs,             \* gc_alloc_table_byte_len
  BLOCKS_PER_ATB,   \* blocks in a byte of the table
  MaxAsk            \* bound on the blocks asked for

ASSUME GcTableAssumption ==
  Atbs \in Nat \ {0} /\ BLOCKS_PER_ATB \in Nat \ {0} /\ MaxAsk \in Nat

Blocks == 0 .. (Atbs * BLOCKS_PER_ATB - 1)
MaxBlock == Atbs * BLOCKS_PER_ATB

VARIABLES
  kind,       \* the table: "free", "head" or "tail" for each block
  lastFree,   \* gc_last_free_atb_index
  lastUsed,   \* gc_last_used_block
  locked      \* gc_lock_depth > 0

vars == <<kind, lastFree, lastUsed, locked>>

Kinds == {"free", "head", "tail"}
Least(S) == CHOOSE x \in S : \A y \in S : x <= y
Greater(a, b) == IF a >= b THEN a ELSE b
Smaller(a, b) == IF a <= b THEN a ELSE b

(* gc_setup_area *)
Init ==
  /\ kind = [b \in Blocks |-> "free"]
  /\ lastFree = 0 /\ lastUsed = 0 /\ locked = FALSE

HeadsOf(k) == {b \in Blocks : k[b] = "head"}

(* The chain that block b belongs to starts at h. *)
InChain(k, h, b) == h <= b /\ k[h] = "head" /\ \A c \in (h + 1) .. b : k[c] = "tail"

-----------------------------------------------------------------------------
(* gc_alloc: the ends of the runs of n free blocks the search can meet. *)
Ends(k, from, n) ==
  {e \in Blocks : /\ e - n + 1 >= from * BLOCKS_PER_ATB
                  /\ \A b \in (e - n + 1) .. e : k[b] = "free"}

SearchFrom(from, n, e) ==
  IF n = 1 THEN (e + 1) \div BLOCKS_PER_ATB ELSE from

Used(k, n, e) ==
  [b \in Blocks |-> IF b \in (e - n + 1) .. e
                    THEN IF b = e - n + 1 THEN "head" ELSE "tail"
                    ELSE k[b]]

(* gc_sweep_free_blocks and gc_collect_end: the table with only the marked *)
(* objects left, looking no further than lastUsed.                         *)
Swept(kept) ==
  [b \in Blocks |->
     IF b <= lastUsed /\ ~ \E h \in kept : InChain(kind, h, b) THEN "free"
     ELSE kind[b]]
SweptLast(k) ==
  CHOOSE x \in {0} \cup {b \in Blocks : b <= lastUsed /\ k[b] # "free"} :
    \A b \in Blocks : b <= lastUsed /\ k[b] # "free" => b <= x

gc_collect(kept) ==
  /\ kind' = Swept(kept) /\ lastUsed' = SweptLast(Swept(kept)) /\ lastFree' = 0
  /\ UNCHANGED locked

(* gc_alloc finds a run, in the table k with the hints from and last. *)
Found(k, from, last, n) ==
  LET e == Least(Ends(k, from, n))
  IN  /\ kind' = Used(k, n, e)
      /\ lastFree' = SearchFrom(from, n, e)
      /\ lastUsed' = Greater(last, e)

AllocFound(n) ==
  /\ ~locked /\ Ends(kind, lastFree, n) # {}
  /\ Found(kind, lastFree, lastUsed, n)
  /\ UNCHANGED locked

(* It finds none, collects, and looks again. *)
AllocCollects(n, kept) ==
  /\ ~locked /\ Ends(kind, lastFree, n) = {}
  /\ LET k == Swept(kept)
     IN  IF Ends(k, 0, n) # {} THEN Found(k, 0, SweptLast(k), n)
         ELSE /\ kind' = k /\ lastFree' = 0 /\ lastUsed' = SweptLast(k)
  /\ UNCHANGED locked

gc_alloc(n) ==
  \/ AllocFound(n)
  \/ \E kept \in SUBSET HeadsOf(kind) : AllocCollects(n, kept)

-----------------------------------------------------------------------------
(* The table without the object at h. *)
Without(k, h) == [b \in Blocks |-> IF InChain(k, h, b) THEN "free" ELSE k[b]]

(* The search starts no later than a block that has become free. *)
\* Mutant: leaves the start of the search where it was.
StartKept(from, b) == from
Lowered(from, b) == Smaller(from, b \div BLOCKS_PER_ATB)

gc_free(h) ==
  /\ ~locked
  /\ kind' = Without(kind, h)
  /\ lastFree' = Lowered(lastFree, h)
  /\ UNCHANGED <<lastUsed, locked>>

-----------------------------------------------------------------------------
(* gc_realloc: the object at h and the free blocks behind it. *)
ChainLength(h) == Cardinality({b \in Blocks : InChain(kind, h, b)})
Fits(h, n) ==
  /\ h + n <= MaxBlock
  /\ \A b \in (h + ChainLength(h)) .. (h + n - 1) : kind[b] = "free"

ReallocShrinks(h, n) ==
  /\ n < ChainLength(h)
  /\ kind' = [b \in Blocks |-> IF InChain(kind, h, b) /\ b >= h + n THEN "free"
                               ELSE kind[b]]
  /\ lastFree' = Lowered(lastFree, h + n)
  /\ UNCHANGED <<lastUsed, locked>>

\* Mutant: does not move the last used block.
LastKept(last, end) == last
Raised(last, end) == Greater(last, end)

ReallocExpands(h, n) ==
  /\ n > ChainLength(h) /\ Fits(h, n)
  /\ kind' = [b \in Blocks |-> IF b \in (h + ChainLength(h)) .. (h + n - 1)
                               THEN "tail" ELSE kind[b]]
  /\ lastUsed' = Raised(lastUsed, h + n)
  /\ UNCHANGED <<lastFree, locked>>

(* It moves: gc_alloc, the copy, and gc_free of the old object.  Without   *)
(* allow_move, or when gc_alloc fails, the old object stays.               *)
MovedTo(k, from, last, h, n) ==
  LET e == Least(Ends(k, from, n))
  IN  /\ kind' = Without(Used(k, n, e), h)
      /\ lastFree' = Lowered(SearchFrom(from, n, e), h)
      /\ lastUsed' = Greater(last, e)

ReallocMoves(h, n) ==
  /\ n > ChainLength(h) /\ ~Fits(h, n)
  /\ IF Ends(kind, lastFree, n) # {}
     THEN MovedTo(kind, lastFree, lastUsed, h, n)
     ELSE \E kept \in {s \in SUBSET HeadsOf(kind) : h \in s} :
            LET k == Swept(kept)
            IN  IF Ends(k, 0, n) # {} THEN MovedTo(k, 0, SweptLast(k), h, n)
                ELSE /\ kind' = k /\ lastFree' = 0 /\ lastUsed' = SweptLast(k)
  /\ UNCHANGED locked

gc_realloc(h, n) ==
  /\ ~locked
  /\ ReallocShrinks(h, n) \/ ReallocExpands(h, n) \/ ReallocMoves(h, n)

(* While locked gc_alloc and gc_realloc return NULL and gc_free does       *)
(* nothing; gc_collect does not look at the lock.                          *)
gc_lock == ~locked /\ locked' = TRUE /\ UNCHANGED <<kind, lastFree, lastUsed>>
gc_unlock == locked /\ locked' = FALSE /\ UNCHANGED <<kind, lastFree, lastUsed>>

Next ==
  \/ \E n \in 1 .. MaxAsk : gc_alloc(n)
  \/ \E h \in HeadsOf(kind) : gc_free(h)
  \/ \E h \in HeadsOf(kind), n \in 1 .. MaxAsk : gc_realloc(h, n)
  \/ \E kept \in SUBSET HeadsOf(kind) : gc_collect(kept)
  \/ gc_lock \/ gc_unlock

Spec == Init /\ [][Next]_vars

-----------------------------------------------------------------------------
TypeOK ==
  /\ kind \in [Blocks -> Kinds]
  /\ lastFree \in 0 .. Atbs /\ lastUsed \in 0 .. MaxBlock
  /\ locked \in BOOLEAN

(***************************************************************************)
(* Nothing before the block where gc_alloc starts its search is free: what *)
(* the comment in gc_alloc says of gc_last_free_atb_index.                 *)
(***************************************************************************)
NoneFreeBefore ==
  \A b \in Blocks : b < lastFree * BLOCKS_PER_ATB => kind[b] # "free"

(* No block is a tail without its head. *)
TailsOwned ==
  \A b \in Blocks : kind[b] = "tail" => b > 0 /\ kind[b - 1] # "free"

(***************************************************************************)
(* Every used block belongs to an object and is within reach of the sweep, *)
(* which follows the tails of an object and stops at gc_last_used_block:   *)
(* an object beyond it would keep its mark, a stray tail its block, for    *)
(* good.                                                                   *)
(***************************************************************************)
UsedWithinSweep ==
  TypeOK /\ TailsOwned /\ \A b \in Blocks : kind[b] # "free" => b <= lastUsed
=============================================================================
