-------------------------------- MODULE Mem --------------------------------
(***************************************************************************)
(* The kernel heap of kernel/mem.c: a bump allocator over a growable heap, *)
(* a static swap buffer used when the heap cannot grow, and a best-fit     *)
(* free list whose neighbouring blocks are merged on every free.           *)
(*                                                                         *)
(* Addresses and sizes are counted in 8-byte words, the allocator's        *)
(* granularity.  The swap buffer is a static array that the linker places  *)
(* below the heap (the heap starts at the end of the image), so the model  *)
(* puts the two regions side by side: the only thing that keeps a swap     *)
(* block and a heap block apart is then the code's own test.               *)
(*                                                                         *)
(* The operators are functions of the allocator's state m, a record, so    *)
(* that callers which allocate and free in one call can chain them.        *)
(***************************************************************************)
EXTENDS Integers, FiniteSets, SequencesExt

CONSTANTS
  Hdr,        \* words of a mem_block_t header (5 in the build)
  Page,       \* words the heap grows by (512: 4096 bytes)
  SwapSize,   \* words of swap_space
  HeapSize,   \* words committed by mem_init
  HeapMax     \* words the heap may grow to

ASSUME MemAssumption ==
  /\ {Hdr, Page} \subseteq Nat \ {0}
  /\ {SwapSize, HeapSize, HeapMax} \subseteq Nat
  /\ HeapSize <= HeapMax

Nil == -1
SwapSpace == 0
SwapEnd == SwapSize
HeapStart == SwapEnd
HeapMaxEnd == HeapStart + HeapMax
Addr == SwapSpace .. (HeapMaxEnd - 1)

(***************************************************************************)
(* total[a] and guard[a] are the total_size and guard fields of a header   *)
(* at a.  A guard is "data" where the word belongs to a caller or was      *)
(* never written.  A block's user_size is always its total_size - Hdr and  *)
(* from_swap is always the region of its address, so neither is stored.    *)
(***************************************************************************)
MemInit ==
  [total |-> [a \in Addr |-> 0],
   guard |-> [a \in Addr |-> "data"],
   free_list |-> <<>>,
   heap_ptr |-> HeapStart,
   heap_committed_end |-> HeapStart + HeapSize,
   swap_ptr |-> SwapSpace,
   heap_used |-> 0,
   grow_count |-> 0,
   fail_count |-> 0]

Words(bytes) == (bytes + 7) \div 8
RoundUp(n, unit) == ((n + unit - 1) \div unit) * unit
FromSwap(a) == a < SwapEnd
UserSize(m, a) == m.total[a] - Hdr

(* The header at a becomes that of an active block of n words. *)
Activate(m, a, n) ==
  [m EXCEPT
     !.total[a] = n,
     !.guard = [x \in Addr |-> IF x = a THEN "active"
                               ELSE IF x \in (a + 1) .. (a + n - 1) THEN "data"
                               ELSE @[x]]]

(***************************************************************************)
(* Best fit: the first block of minimal size among those large enough.     *)
(***************************************************************************)
\* Mutant: compares the payload instead of the whole block.
FitsWithoutHeader(m, n) ==
  {i \in DOMAIN m.free_list : m.total[m.free_list[i]] >= n - Hdr}
Fits(m, n) == {i \in DOMAIN m.free_list : m.total[m.free_list[i]] >= n}

BestFit(m, n) ==
  CHOOSE i \in Fits(m, n) :
    \A j \in Fits(m, n) :
      LET ti == m.total[m.free_list[i]]
          tj == m.total[m.free_list[j]]
      IN  ti < tj \/ (ti = tj /\ i <= j)

\* Mutant: the remainder keeps the size of the whole block.
SplitKeepsSize(m, i, n) ==
  LET a == m.free_list[i]
  IN  IF m.total[a] >= n + Hdr + 1
      THEN Activate([m EXCEPT !.total[a + n] = m.total[a],
                              !.guard[a + n] = "freed",
                              !.free_list[i] = a + n], a, n)
      ELSE Activate([m EXCEPT !.free_list = RemoveAt(@, i)], a, m.total[a])

(* A remainder of at least a header and one word replaces the block. *)
SplitBlock(m, i, n) ==
  LET a == m.free_list[i]
      available == m.total[a]
  IN  IF available >= n + Hdr + 1
      THEN Activate([m EXCEPT !.total[a + n] = available - n,
                              !.guard[a + n] = "freed",
                              !.free_list[i] = a + n], a, n)
      ELSE Activate([m EXCEPT !.free_list = RemoveAt(@, i)], a, available)

\* Mutant: commits pages without looking at heap_max_end.
GrowPastMax(m, n) ==
  IF m.heap_ptr + n > m.heap_committed_end
  THEN [m EXCEPT !.heap_committed_end =
                    @ + RoundUp(m.heap_ptr + n - m.heap_committed_end, Page),
                 !.grow_count = @ + 1]
  ELSE m

\* Mutant: never commits the last page.
GrowBelowMax(m, n) ==
  LET grow == RoundUp(m.heap_ptr + n - m.heap_committed_end, Page)
  IN  IF /\ m.heap_ptr + n > m.heap_committed_end
         /\ m.heap_committed_end + grow < HeapMaxEnd
      THEN [m EXCEPT !.heap_committed_end = @ + grow, !.grow_count = @ + 1]
      ELSE m

(* The heap grows by whole pages, and only when all of them fit. *)
Grow(m, n) ==
  LET grow == RoundUp(m.heap_ptr + n - m.heap_committed_end, Page)
  IN  IF /\ m.heap_ptr + n > m.heap_committed_end
         /\ m.heap_committed_end + grow <= HeapMaxEnd
      THEN [m EXCEPT !.heap_committed_end = @ + grow, !.grow_count = @ + 1]
      ELSE m

(* mem_alloc: the new state and the block's address, Nil for NULL. *)
MemAlloc(m, bytes) ==
  LET n == Hdr + Words(bytes)
      g == Grow(m, n)
      Result(s, a) == [mem |-> [s EXCEPT !.heap_used = @ + UserSize(s, a)],
                       ptr |-> a]
  IN  IF Fits(m, n) # {}
      THEN LET i == BestFit(m, n) IN Result(SplitBlock(m, i, n), m.free_list[i])
      ELSE IF g.heap_ptr + n <= g.heap_committed_end
      THEN Result(Activate([g EXCEPT !.heap_ptr = @ + n], g.heap_ptr, n), g.heap_ptr)
      ELSE IF m.swap_ptr + n <= SwapEnd
      THEN Result(Activate([m EXCEPT !.swap_ptr = @ + n], m.swap_ptr, n), m.swap_ptr)
      ELSE [mem |-> [m EXCEPT !.fail_count = @ + 1], ptr |-> Nil]

(***************************************************************************)
(* One turn of coalesce_block: blk is merged with the first block of the   *)
(* list that touches it, to the left or to the right; the absorbed header  *)
(* keeps its guard and gets size 0.                                        *)
(***************************************************************************)
\* Mutant: merges without comparing from_swap.
AnyRegion(a, b) == TRUE
SameRegion(a, b) == FromSwap(a) = FromSwap(b)
Adjacent(m, left, right) == left + m.total[left] = right

CoalesceStep(st) ==
  LET m == st.mem
      Touches(it) == /\ it # st.blk /\ SameRegion(it, st.blk)
                     /\ Adjacent(m, it, st.blk) \/ Adjacent(m, st.blk, it)
      i == SelectInSeq(m.free_list, Touches)
      it == m.free_list[i]
      Merge(into, from) ==
        [mem |-> [m EXCEPT !.total[into] = @ + m.total[from], !.total[from] = 0],
         blk |-> into]
  IN  IF i = 0 THEN st
      ELSE IF Adjacent(m, it, st.blk) THEN Merge(it, st.blk)
      ELSE Merge(st.blk, it)

(* Every turn absorbs a block, so the loop ends within Len(free_list). *)
Coalesce(m, blk) ==
  FoldLeft(LAMBDA st, unused : CoalesceStep(st), [mem |-> m, blk |-> blk],
           m.free_list).mem

CompactFreeList(m) ==
  [m EXCEPT !.free_list = SelectSeq(@, LAMBDA a : m.total[a] # 0)]

(* What mem_free checks before it touches the block; otherwise it panics. *)
FreeAccepted(m, a, bytes) ==
  /\ a \in Addr
  /\ m.guard[a] = "active"
  /\ bytes <= 8 * UserSize(m, a)

\* Mutant: leaves the guard active.
MemFreeKeepsGuard(m, a) ==
  LET user == UserSize(m, a)
      freed == [m EXCEPT !.heap_used = IF @ >= user THEN @ - user ELSE @,
                         !.free_list = <<a>> \o @]
  IN  CompactFreeList(Coalesce(freed, a))

\* Mutant: reads user_size after the merge instead of before it.
MemFreeCountsMerged(m, a) ==
  LET merged == Coalesce([m EXCEPT !.guard[a] = "freed",
                                   !.free_list = <<a>> \o @], a)
      user == UserSize(merged, a)
  IN  CompactFreeList([merged EXCEPT !.heap_used = IF @ >= user THEN @ - user ELSE @])

MemFree(m, a) ==
  LET user == UserSize(m, a)
      freed == [m EXCEPT !.heap_used = IF @ >= user THEN @ - user ELSE @,
                         !.guard[a] = "freed",
                         !.free_list = <<a>> \o @]
  IN  CompactFreeList(Coalesce(freed, a))

(* mem_heap_free: uncommitted room, unused swap and the free list. *)
MemHeapFree(m) ==
  (m.heap_committed_end - m.heap_ptr) + (SwapEnd - m.swap_ptr)
    + FoldLeft(LAMBDA sum, a : sum + m.total[a], 0, m.free_list)
=============================================================================
