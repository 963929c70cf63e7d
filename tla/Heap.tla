-------------------------------- MODULE Heap --------------------------------
(***************************************************************************)
(* The kernel heap in use: callers of kernel/mem.c allocate and free, free *)
(* twice, free too much, and run out of memory, in any order.              *)
(***************************************************************************)
EXTENDS Mem

CONSTANTS
  Requests,   \* sizes, in bytes, that callers ask for
  MaxFails    \* bound on the number of failed allocations

VARIABLES
  mem,        \* the allocator's static variables
  live,       \* ghost: the words asked for by the allocation at each address
  panicked    \* panic() was called: the machine has halted

vars == <<mem, live, panicked>>

Init == mem = MemInit /\ live = <<>> /\ panicked = FALSE

(* A pointer the caller was given and has not freed. *)
Live == DOMAIN live

Grant(r, bytes) ==
  /\ mem' = r.mem
  /\ live' = IF r.ptr = Nil THEN live
             ELSE [a \in Live \cup {r.ptr} |->
                     IF a = r.ptr THEN Words(bytes) ELSE live[a]]

Alloc(bytes) ==
  /\ ~panicked
  /\ mem.fail_count < MaxFails
  /\ Grant(MemAlloc(mem, bytes), bytes)
  /\ UNCHANGED panicked

AllocOrPanic(bytes) ==
  /\ ~panicked
  /\ mem.fail_count < MaxFails
  /\ LET r == MemAlloc(mem, bytes)
     IN  Grant(r, bytes) /\ panicked' = (r.ptr = Nil)

(* The caller frees what it holds and names a size, or 0 for "unknown". *)
Free(a, bytes) ==
  /\ ~panicked
  /\ a \in Live
  /\ IF FreeAccepted(mem, a, bytes)
     THEN /\ mem' = MemFree(mem, a)
          /\ live' = [b \in Live \ {a} |-> live[b]]
          /\ UNCHANGED panicked
     ELSE panicked' = TRUE /\ UNCHANGED <<mem, live>>

(***************************************************************************)
(* The caller frees a pointer again.  Once the words have been handed out  *)
(* anew their contents belong to another caller and what mem_free reads    *)
(* there is outside the model; until then the stale header is still there. *)
(***************************************************************************)
FreeAgain(a) ==
  /\ ~panicked
  /\ a \notin Live
  /\ mem.guard[a] # "data"
  /\ IF FreeAccepted(mem, a, 0)
     THEN mem' = MemFree(mem, a) /\ UNCHANGED <<live, panicked>>
     ELSE panicked' = TRUE /\ UNCHANGED <<mem, live>>

FreeSizes(a) == {0, 8 * live[a], 8 * UserSize(mem, a) + 1}

Next ==
  \/ \E bytes \in Requests : Alloc(bytes) \/ AllocOrPanic(bytes)
  \/ \E a \in Live : \E bytes \in FreeSizes(a) : Free(a, bytes)
  \/ \E a \in Addr : FreeAgain(a)

Spec == Init /\ [][Next]_vars

-----------------------------------------------------------------------------
FreeBlocks == ToSet(mem.free_list)
Extent(a) == a .. (a + mem.total[a] - 1)
CarvedOut == (SwapSpace .. (mem.swap_ptr - 1)) \cup (HeapStart .. (mem.heap_ptr - 1))

TypeOK ==
  /\ mem.total \in [Addr -> 0 .. (SwapSize + HeapMax)]
  /\ mem.guard \in [Addr -> {"data", "active", "freed"}]
  /\ mem.free_list \in Seq(Addr)
  /\ mem.heap_ptr \in HeapStart .. mem.heap_committed_end
  /\ mem.heap_committed_end \in (HeapStart + HeapSize) .. HeapMaxEnd
  /\ mem.swap_ptr \in SwapSpace .. SwapEnd
  /\ {mem.heap_used, mem.grow_count, mem.fail_count} \subseteq Nat
  /\ Live \subseteq Addr /\ panicked \in BOOLEAN

(***************************************************************************)
(* The allocated blocks and the free blocks tile what has been carved out  *)
(* of the two regions: every word lies in exactly one block, and the free  *)
(* list holds no block twice (split_block, coalesce_block, fresh_block).   *)
(***************************************************************************)
BlocksTile ==
  /\ \A x \in Addr :
       Cardinality({a \in Live \cup FreeBlocks : x \in Extent(a)})
         = (IF x \in CarvedOut THEN 1 ELSE 0)
  /\ Cardinality(FreeBlocks) = Len(mem.free_list)

(***************************************************************************)
(* Freeing leaves no two free blocks of a region side by side, so a large  *)
(* request is never refused for fragmentation that a merge would cure, and *)
(* no block ever crosses from the swap buffer into the heap.               *)
(***************************************************************************)
FullyCoalesced ==
  /\ \A a, b \in FreeBlocks : FromSwap(a) = FromSwap(b) => ~Adjacent(mem, a, b)
  /\ \A a \in Live \cup FreeBlocks :
       \A x \in Extent(a) : FromSwap(a) = FromSwap(x)

(***************************************************************************)
(* The layout of the heap is sound after any order of allocations and      *)
(* frees: well typed, tiled by its blocks without gap or overlap, and with *)
(* no two free neighbours left unmerged.                                   *)
(***************************************************************************)
LayoutSound == TypeOK /\ BlocksTile /\ FullyCoalesced

(***************************************************************************)
(* The statistics of mem_get_info balance: what is free and what is        *)
(* allocated, headers included, is what was committed plus the swap buffer;*)
(* heap_used counts exactly the user bytes of live blocks.                 *)
(***************************************************************************)
AccountsBalance ==
  LET held == MapThenSumSet(LAMBDA a : mem.total[a], Live)
  IN  /\ MemHeapFree(mem) + held = (mem.heap_committed_end - HeapStart) + SwapSize
      /\ mem.heap_used = held - Hdr * Cardinality(Live)

(***************************************************************************)
(* A header reads as active exactly while its block is allocated, so       *)
(* ensure_block_integrity accepts every proper free and stops every second *)
(* free until the words are handed out again.                              *)
(***************************************************************************)
ActiveIffLive == {a \in Addr : mem.guard[a] = "active"} = Live

(***************************************************************************)
(* What the kernel records about blocks agrees with the blocks that are    *)
(* allocated: the statistics balance and the guards are active on exactly  *)
(* these, through splits, merges and second frees.                         *)
(***************************************************************************)
RecordsAgree == AccountsBalance /\ ActiveIffLive

(***************************************************************************)
(* An allocation is refused only when nothing could have satisfied it: no  *)
(* free block is large enough, the heap's limit leaves no room above       *)
(* heap_ptr and neither does the swap buffer.                              *)
(***************************************************************************)
RefusedOnlyWhenFull ==
  \A bytes \in Requests :
    LET n == Hdr + Words(bytes)
    IN  MemAlloc(mem, bytes).ptr = Nil =>
          /\ \A a \in FreeBlocks : mem.total[a] < n
          /\ mem.heap_ptr + n > HeapMaxEnd
          /\ mem.swap_ptr + n > SwapEnd

(***************************************************************************)
(* The heap implements the abstract allocator: live blocks never overlap,  *)
(* move, shrink or fall short of the request.                              *)
(***************************************************************************)
Abstract == INSTANCE Allocator WITH
  Space <- Addr,
  blocks <- {[base |-> a, len |-> UserSize(mem, a), asked |-> live[a]] : a \in Live},
  halted <- panicked

ImplementsAllocator == Abstract!AbsSpec
=============================================================================
