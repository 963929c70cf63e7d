------------------------------- MODULE GcMark -------------------------------
(***************************************************************************)
(* One collection of the MicroPython heap (micropython/py/gc.c): marking   *)
(* from the roots with a block stack of fixed size, the rescans that make  *)
(* up for a stack that overflowed, and the sweep.                          *)
(*                                                                         *)
(* An object is a chain of blocks, named by the number of its head; which  *)
(* words of it are heap pointers is fixed, since nothing else runs.  The   *)
(* words of an object are looked at in one step and push what they mark in *)
(* any order.  GcTable models the allocation table.  Finalisers and weak   *)
(* references are not part of this build.                                  *)
(***************************************************************************)
EXTENDS Integers, Sequences, FiniteSets

CONSTANTS
  Heads,      \* the objects there can be, as block numbers
  Last,       \* the last block
  StackSize,  \* MICROPY_ALLOC_GC_STACK_SIZE
  Heaps,      \* the heaps to collect: the pointers of each object, the roots
  Nobody

ASSUME GcMarkAssumption ==
  /\ Last \in Nat /\ Heads \subseteq 0 .. Last
  /\ StackSize \in Nat /\ Nobody \notin Heads
  /\ Heaps \subseteq [kids : [Heads -> SUBSET Heads], roots : SUBSET Heads]

VARIABLES
  kids,       \* the heads each object's words point to
  roots,      \* the heads the root pointers and the C stack point to
  todo,       \* the roots not looked at yet
  marked,     \* AT_MARK
  block,      \* the object whose words are looked at next, or Nobody
  stack,      \* gc_block_stack up to sp
  overflow,   \* gc_stack_overflow
  at,         \* the next block of the rescan; Last + 1 outside of one
  stage,      \* "roots", "rescan" or "done"
  live        \* the objects left in the heap

vars == <<kids, roots, todo, marked, block, stack, overflow, at, stage, live>>

(* gc_collect_start *)
Init ==
  /\ \E h \in Heaps : kids = h.kids /\ roots = h.roots
  /\ todo = roots
  /\ marked = {} /\ block = Nobody /\ stack = <<>> /\ overflow = FALSE
  /\ at = Last + 1 /\ stage = "roots" /\ live = Heads

(* gc_collect_root, for one pointer. *)
gc_collect_root(r) ==
  /\ stage = "roots" /\ block = Nobody /\ r \in todo
  /\ todo' = todo \ {r}
  /\ IF r \in marked THEN UNCHANGED <<marked, block>>
     ELSE marked' = marked \cup {r} /\ block' = r
  /\ UNCHANGED <<kids, roots, stack, overflow, at, stage, live>>

(***************************************************************************)
(* One turn of the loop of gc_mark_subtree: the object's unmarked children *)
(* are marked, and pushed as long as there is room; then the topmost one   *)
(* is taken, if any.                                                       *)
(***************************************************************************)
Unmarked(b) == kids[b] \ marked
Pushes(b) ==
  {s \in UNION {[1 .. n -> Unmarked(b)] : n \in 0 .. Cardinality(Unmarked(b))} :
     /\ \A j, k \in DOMAIN s : j # k => s[j] # s[k]
     /\ Len(stack) + Len(s) <= StackSize
     /\ Len(s) = Cardinality(Unmarked(b)) \/ Len(stack) + Len(s) = StackSize}
Range1(s) == {s[k] : k \in DOMAIN s}

\* Mutant: forgets what did not fit.
OverflowUnnoticed(b, s) == overflow
Overflowed(b, s) == overflow \/ Range1(s) # Unmarked(b)

gc_mark_subtree ==
  /\ block # Nobody
  /\ marked' = marked \cup kids[block]
  /\ \E s \in Pushes(block) :
       LET pushed == stack \o s
       IN  /\ overflow' = Overflowed(block, s)
           /\ IF pushed = <<>> THEN block' = Nobody /\ stack' = <<>>
              ELSE /\ block' = pushed[Len(pushed)]
                   /\ stack' = SubSeq(pushed, 1, Len(pushed) - 1)
  /\ UNCHANGED <<kids, roots, todo, at, stage, live>>

(* gc_deal_with_stack_overflow: another rescan of all blocks while the     *)
(* stack has overflowed, clearing the flag before it starts.               *)
\* Mutant: clears the flag when the rescan is over.
ClearedLate(flag) == flag
ClearedFirst(flag) == FALSE

start_rescan ==
  /\ block = Nobody /\ overflow
  /\ \/ stage = "roots" /\ todo = {}
     \/ stage = "rescan" /\ at > Last
  /\ stage' = "rescan" /\ at' = 0
  /\ overflow' = ClearedFirst(overflow)
  /\ UNCHANGED <<kids, roots, todo, marked, block, stack, live>>

rescan_block ==
  /\ stage = "rescan" /\ block = Nobody /\ at <= Last
  /\ at' = at + 1
  /\ block' = IF at \in marked THEN at ELSE Nobody
  /\ UNCHANGED <<kids, roots, todo, marked, stack, overflow, stage, live>>

(* gc_sweep_free_blocks: unmarked heads are freed, marked ones kept. *)
gc_sweep_free_blocks ==
  /\ block = Nobody /\ ~overflow
  /\ \/ stage = "roots" /\ todo = {}
     \/ stage = "rescan" /\ at > Last
  /\ live' = live \cap marked
  /\ marked' = {}
  /\ stage' = "done"
  /\ UNCHANGED <<kids, roots, todo, block, stack, overflow, at>>

Next ==
  \/ \E r \in todo : gc_collect_root(r)
  \/ gc_mark_subtree \/ start_rescan \/ rescan_block \/ gc_sweep_free_blocks

Spec == Init /\ [][Next]_vars

(* The collector runs to its end: nothing else runs meanwhile. *)
FairSpec == Spec /\ WF_vars(Next)

-----------------------------------------------------------------------------
TypeOK ==
  /\ kids \in [Heads -> SUBSET Heads]
  /\ roots \subseteq Heads /\ todo \subseteq roots
  /\ marked \subseteq Heads /\ live \subseteq Heads
  /\ block \in Heads \cup {Nobody}
  /\ stack \in Seq(Heads)
  /\ overflow \in BOOLEAN
  /\ at \in 0 .. (Last + 1)
  /\ stage \in {"roots", "rescan", "done"}

(* An object is reachable if every set that holds the roots and is closed  *)
(* under the pointers holds it.                                            *)
Closed(S) == roots \subseteq S /\ \A o \in S : kids[o] \subseteq S
Reachable == {o \in Heads : \A S \in SUBSET Heads : Closed(S) => o \in S}

(***************************************************************************)
(* A marked object with an unmarked child is still to be looked at: it is  *)
(* the current one, on the stack or ahead of the rescan, or the overflow   *)
(* is on record and another rescan follows.                                *)
(***************************************************************************)
NoneLost ==
  stage # "done" =>
    \A o \in marked :
      \/ kids[o] \subseteq marked
      \/ o = block \/ o \in Range1(stack)
      \/ stage = "rescan" /\ at <= o
      \/ overflow

(***************************************************************************)
(* A collection frees exactly the objects that cannot be reached from the  *)
(* roots, however small the block stack and however often it overflows.    *)
(***************************************************************************)
CollectsGarbage == stage = "done" => live = Reachable

(* Every collection ends: each rescan that overflows has marked something. *)
CollectionEnds == <>(stage = "done")
=============================================================================
