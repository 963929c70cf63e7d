------------------------------- MODULE MemCtx -------------------------------
(***************************************************************************)
(* Memory contexts (kernel/memctx.c): a table of contexts with a quota and *)
(* statistics, and one table of block records shared by all of them, over  *)
(* the kernel heap, which other parts of the kernel use as well.           *)
(***************************************************************************)
EXTENDS Integers, FiniteSetsExt

CONSTANTS
  MaxContexts,  \* MEMCTX_MAX_CONTEXTS
  MaxBlocks,    \* MEMCTX_MAX_BLOCKS
  Ptrs,         \* addresses mem_alloc may return
  Sizes,        \* sizes callers ask for, 0 among them
  Quotas,       \* quotas given to memctx_create; 0 is "no quota"
  MaxId         \* bound on next_ctx_id

NULL == 0

ASSUME MemCtxAssumption ==
  /\ {MaxContexts, MaxBlocks, MaxId} \subseteq Nat \ {0}
  /\ NULL \notin Ptrs
  /\ Sizes \cup Quotas \subseteq Nat

VARIABLES
  contexts,     \* contexts[]
  blocks,       \* blocks[]
  next_ctx_id,
  heap,         \* live allocations of the kernel heap: address -> size
  others        \* those held by other parts of the kernel

vars == <<contexts, blocks, next_ctx_id, heap, others>>

ContextSlots == 1 .. MaxContexts
BlockSlots == 1 .. MaxBlocks
NoContext == [active |-> FALSE, id |-> 0, quota |-> 0, used |-> 0, peak |-> 0, allocations |-> 0]
NoBlock == [ptr |-> NULL, size |-> 0, ctx_id |-> 0]

Init ==
  /\ contexts = [i \in ContextSlots |-> NoContext]
  /\ blocks = [i \in BlockSlots |-> NoBlock]
  /\ next_ctx_id = 1
  /\ heap = <<>> /\ others = {}

(* The slots that find_ctx and find_block look for; they take the first.   *)
find_ctx(id) == {i \in ContextSlots : contexts[i].active /\ contexts[i].id = id}
find_block(id, p) == {i \in BlockSlots : blocks[i].ptr = p /\ blocks[i].ctx_id = id}

(* mem_alloc and mem_free, as this module uses them. *)
mem_alloc(p, size) ==
  /\ p \in Ptrs \ DOMAIN heap
  /\ heap' = [q \in DOMAIN heap \cup {p} |-> IF q = p THEN size ELSE heap[q]]
mem_free(ps) == heap' = [q \in DOMAIN heap \ ps |-> heap[q]]

\* Mutant: numbers a context by its slot.
IdOfSlot(i) == i
\* Mutant: increments before the number is taken.
PreIncremented(i) == next_ctx_id + 1
NewId(i) == next_ctx_id

memctx_create(quota) ==
  LET vacant == {i \in ContextSlots : ~contexts[i].active}
  IN  /\ next_ctx_id < MaxId
      /\ vacant # {}
      /\ contexts' = [contexts EXCEPT ![Min(vacant)] =
                        [NoContext EXCEPT !.active = TRUE, !.id = NewId(Min(vacant)),
                                          !.quota = quota]]
      /\ next_ctx_id' = next_ctx_id + 1
      /\ UNCHANGED <<blocks, heap, others>>

\* Mutant: compares the request alone with the quota.
QuotaOnRequest(c, size) == contexts[c].quota = 0 \/ size <= contexts[c].quota
WithinQuota(c, size) ==
  contexts[c].quota = 0 \/ contexts[c].used + size <= contexts[c].quota

memctx_alloc(id, size) ==
  LET c == Min(find_ctx(id))
      vacant == {i \in BlockSlots : blocks[i].ptr = NULL}
  IN  /\ size # 0
      /\ find_ctx(id) # {}
      /\ WithinQuota(c, size)
      /\ vacant # {}
      /\ \E p \in Ptrs :
           /\ mem_alloc(p, size)
           /\ blocks' = [blocks EXCEPT ![Min(vacant)] =
                           [ptr |-> p, size |-> size, ctx_id |-> id]]
      /\ contexts' = [contexts EXCEPT
                        ![c].used = @ + size,
                        ![c].peak = IF contexts[c].used + size > @
                                    THEN contexts[c].used + size ELSE @,
                        ![c].allocations = @ + 1]
      /\ UNCHANGED <<next_ctx_id, others>>

\* Mutant: forgets the count of allocations.
CreditWithoutCount(c, size) ==
  [contexts EXCEPT ![c].used = IF @ >= size THEN @ - size ELSE @]
Credit(c, size) ==
  [contexts EXCEPT ![c].used = IF @ >= size THEN @ - size ELSE @,
                   ![c].allocations = IF @ # 0 THEN @ - 1 ELSE @]

memctx_free(id, p) ==
  LET c == Min(find_ctx(id))
      b == Min(find_block(id, p))
  IN  /\ p # NULL
      /\ find_ctx(id) # {} /\ find_block(id, p) # {}
      /\ mem_free({p})
      /\ contexts' = Credit(c, blocks[b].size)
      /\ blocks' = [blocks EXCEPT ![b] = NoBlock]
      /\ UNCHANGED <<next_ctx_id, others>>

BlocksOf(id) == {i \in BlockSlots : blocks[i].ptr # NULL /\ blocks[i].ctx_id = id}

\* Mutant: clears the records without freeing the blocks.
DestroyKeepsHeap(id) ==
  /\ find_ctx(id) # {}
  /\ blocks' = [i \in BlockSlots |-> IF i \in BlocksOf(id) THEN NoBlock ELSE blocks[i]]
  /\ contexts' = [contexts EXCEPT ![Min(find_ctx(id))] = NoContext]
  /\ UNCHANGED <<next_ctx_id, heap, others>>

memctx_destroy(id) ==
  /\ find_ctx(id) # {}
  /\ mem_free({blocks[i].ptr : i \in BlocksOf(id)})
  /\ blocks' = [i \in BlockSlots |-> IF i \in BlocksOf(id) THEN NoBlock ELSE blocks[i]]
  /\ contexts' = [contexts EXCEPT ![Min(find_ctx(id))] = NoContext]
  /\ UNCHANGED <<next_ctx_id, others>>

(* Another part of the kernel allocates, or frees what it holds. *)
OtherAlloc(p) ==
  /\ mem_alloc(p, 1)
  /\ others' = others \cup {p}
  /\ UNCHANGED <<contexts, blocks, next_ctx_id>>

OtherFree(p) ==
  /\ p \in others
  /\ mem_free({p})
  /\ others' = others \ {p}
  /\ UNCHANGED <<contexts, blocks, next_ctx_id>>

(* Callers may use any id handed out so far, or one that never was. *)
Ids == 0 .. next_ctx_id

Next ==
  \/ \E quota \in Quotas : memctx_create(quota)
  \/ \E id \in Ids :
       \/ \E size \in Sizes : memctx_alloc(id, size)
       \/ \E p \in Ptrs : memctx_free(id, p)
       \/ memctx_destroy(id)
  \/ \E p \in Ptrs : OtherAlloc(p) \/ OtherFree(p)

Spec == Init /\ [][Next]_vars

-----------------------------------------------------------------------------
Active == {i \in ContextSlots : contexts[i].active}
Used == {i \in BlockSlots : blocks[i].ptr # NULL}
Registered == {blocks[i].ptr : i \in Used}

TypeOK ==
  /\ contexts \in [ContextSlots -> [active : BOOLEAN, id : 0 .. (next_ctx_id - 1), quota : Nat,
                                    used : Nat, peak : Nat, allocations : Nat]]
  /\ blocks \in [BlockSlots -> [ptr : Ptrs \cup {NULL}, size : Nat, ctx_id : Nat]]
  /\ next_ctx_id \in 1 .. MaxId
  /\ DOMAIN heap \subseteq Ptrs /\ others \subseteq Ptrs

(***************************************************************************)
(* The heap holds exactly what the block table and the rest of the kernel  *)
(* hold, nothing twice: destroying a context leaks none of its blocks and  *)
(* no call frees a block of another holder (memctx_free, memctx_destroy).  *)
(***************************************************************************)
NothingLeaks ==
  /\ DOMAIN heap = Registered \cup others
  /\ Registered \cap others = {}
  /\ Cardinality(Registered) = Cardinality(Used)

(***************************************************************************)
(* The statistics of a context are those of its blocks, and every block    *)
(* belongs to a context that is active: the counters that memctx_free and  *)
(* memctx_destroy keep agree with the table after any history.             *)
(***************************************************************************)
AccountsMatch ==
  /\ \A c \in Active :
       LET mine == BlocksOf(contexts[c].id)
       IN  /\ contexts[c].used = MapThenSumSet(LAMBDA i : blocks[i].size, mine)
           /\ contexts[c].allocations = Cardinality(mine)
           /\ contexts[c].used <= contexts[c].peak
  /\ \A i \in Used : \E c \in Active : contexts[c].id = blocks[i].ctx_id

(* A context never holds, and never held, more than its quota (memctx_alloc). *)
QuotaHolds ==
  \A c \in Active : contexts[c].quota # 0 => contexts[c].peak <= contexts[c].quota

(***************************************************************************)
(* The accounts of contexts are right: they equal what the block table     *)
(* holds, and neither what is held nor the peak ever passed the quota.     *)
(***************************************************************************)
AccountsSound == TypeOK /\ AccountsMatch /\ QuotaHolds

(***************************************************************************)
(* The tables implement the abstract contexts: in particular an id kept by *)
(* a caller after memctx_destroy never names a later context.              *)
(***************************************************************************)
ActiveIds == {contexts[c].id : c \in Active}
Abstract == INSTANCE Regions WITH
  regions <- [r \in ActiveIds |-> {blocks[i].ptr : i \in BlocksOf(r)}],
  closed <- (1 .. (next_ctx_id - 1)) \ ActiveIds

ImplementsRegions == Abstract!RegSpec
=============================================================================
