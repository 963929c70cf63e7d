---------------------------- MODULE MemCtxProofs ----------------------------
(***************************************************************************)
(* Memory contexts, for any number of contexts, block records, addresses   *)
(* and sizes: nothing leaks, nothing is freed for another holder, and the  *)
(* tables implement Regions.                                               *)
(***************************************************************************)
EXTENDS MemCtx, WellFoundedInduction, FiniteSetTheorems, TLAPS

(* A set of naturals has a least element, by well-foundedness of <. *)
LEMMA NatMin ==
  ASSUME NEW S \in SUBSET Nat, S # {}
  PROVE  \E x \in S : \A y \in S : x <= y
<1>1. IsWellFoundedOn(OpToRel(<, Nat), Nat)
  BY NatLessThanWellFounded
<1>2. PICK x \in S : \A y \in S : ~(<<y, x>> \in OpToRel(<, Nat))
  BY <1>1, WFMin
<1>3. \A y \in S : ~(y < x)
  BY <1>2 DEF OpToRel
<1> QED BY <1>3

Ctx == [active : BOOLEAN, id : Nat, quota : Nat, used : Nat, peak : Nat, allocations : Nat]
Rec == [ptr : Ptrs \cup {NULL}, size : Nat, ctx_id : Nat]
Tables ==
  /\ contexts \in [ContextSlots -> Ctx] /\ blocks \in [BlockSlots -> Rec]
  /\ next_ctx_id \in Nat \ {0}

(* No two records have one address, and each belongs to an active context. *)
RecordsApart == \A i, j \in Used : blocks[i].ptr = blocks[j].ptr => i = j
OwnersActive == \A i \in Used : \E c \in Active : contexts[c].id = blocks[i].ctx_id

(* No two active contexts have one id, and none has an id yet to be given. *)
IdsApart == \A c, d \in Active : contexts[c].id = contexts[d].id => c = d
IdsGiven == \A c \in Active : contexts[c].id > 0 /\ contexts[c].id < next_ctx_id

HeapHeld == DOMAIN heap = Registered \cup others /\ Registered \cap others = {}

(* The inductive invariant. *)
IInv == Tables /\ RecordsApart /\ OwnersActive /\ IdsApart /\ IdsGiven /\ HeapHeld

LEMMA MinIn ==
  ASSUME NEW S \in SUBSET Nat, S # {}
  PROVE  Min(S) \in S
<1>1. \E x \in S : \A y \in S : x <= y
  BY NatMin
<1> QED BY <1>1, Zenon DEF Min

LEMMA Slots ==
  ContextSlots \in SUBSET Nat /\ BlockSlots \in SUBSET Nat
  BY MemCtxAssumption DEF ContextSlots, BlockSlots

(* find_ctx finds the one active context with the id. *)
LEMMA FoundContext ==
  ASSUME NEW id, find_ctx(id) # {}
  PROVE  Min(find_ctx(id)) \in Active /\ contexts[Min(find_ctx(id))].id = id
<1>1. find_ctx(id) \in SUBSET Nat
  BY Slots, Zenon DEF find_ctx
<1>2. Min(find_ctx(id)) \in find_ctx(id)
  BY <1>1, MinIn
<1> QED BY <1>2 DEF find_ctx, Active

LEMMA NullIsNone == \A p \in Ptrs : p # NULL
  BY MemCtxAssumption

-----------------------------------------------------------------------------
(* The state of Regions. *)
regions == [r \in ActiveIds |-> {blocks[i].ptr : i \in BlocksOf(r)}]
closed == (1 .. (next_ctx_id - 1)) \ ActiveIds

(* A step that changes no context's id. *)
LEMMA SameIds ==
  ASSUME Tables, contexts' \in [ContextSlots -> Ctx],
         \A d \in ContextSlots : /\ contexts'[d].active = contexts[d].active
                                 /\ contexts'[d].id = contexts[d].id
  PROVE  Active' = Active /\ ActiveIds' = ActiveIds
<1>1. Active' = Active
  BY DEF Active
<1>2. \A c \in Active : contexts'[c].id = contexts[c].id
  BY DEF Active
<1> QED BY <1>1, <1>2 DEF ActiveIds

(* Such a step keeps what is said of ids. *)
LEMMA SameIdFacts ==
  ASSUME IInv, Active' = Active, next_ctx_id' = next_ctx_id,
         \A d \in ContextSlots : contexts'[d].id = contexts[d].id
  PROVE  IdsApart' /\ IdsGiven'
<1>1. \A c \in Active : contexts'[c].id = contexts[c].id
  BY DEF Active
<1>2. \A c, d \in Active' : contexts'[c].id = contexts'[d].id => c = d
  BY <1>1 DEF IInv, IdsApart
<1>3. \A c \in Active' : contexts'[c].id > 0 /\ contexts'[c].id < next_ctx_id'
  BY <1>1 DEF IInv, IdsGiven
<1> QED BY <1>2, <1>3 DEF IdsApart, IdsGiven

(* Changing the statistics of one context changes no id. *)
LEMMA NewStatistics ==
  ASSUME Tables, NEW c \in ContextSlots, NEW e \in Ctx,
         e.active = contexts[c].active, e.id = contexts[c].id,
         contexts' = [contexts EXCEPT ![c] = e]
  PROVE  /\ contexts' \in [ContextSlots -> Ctx]
         /\ \A d \in ContextSlots : /\ contexts'[d].active = contexts[d].active
                                    /\ contexts'[d].id = contexts[d].id
<1>1. contexts \in [ContextSlots -> Ctx]
  BY DEF Tables
<1>2. contexts' \in [ContextSlots -> Ctx]
  BY <1>1
<1>3. \A d \in ContextSlots : contexts'[d] = IF d = c THEN e ELSE contexts[d]
  BY <1>1
<1> QED BY <1>2, <1>3

(* Membership in the sets the mapping is made of, before and after a step. *)
LEMMA BlocksOfIs ==
  /\ \A r, i : i \in BlocksOf(r) <=> i \in Used /\ blocks[i].ctx_id = r
  /\ \A r, i : i \in BlocksOf(r)' <=> i \in Used' /\ blocks'[i].ctx_id = r
<1>1. \A r, i : i \in BlocksOf(r) <=> i \in Used /\ blocks[i].ctx_id = r
  BY Zenon DEF BlocksOf, Used
<1>2. \A r, i : i \in BlocksOf(r)' <=> i \in Used' /\ blocks'[i].ctx_id = r
  BY Zenon DEF BlocksOf, Used
<1> QED BY <1>1, <1>2, Zenon

LEMMA RegionIs ==
  /\ DOMAIN regions = ActiveIds /\ DOMAIN regions' = ActiveIds'
  /\ \A r \in ActiveIds : regions[r] = {blocks[i].ptr : i \in BlocksOf(r)}
  /\ \A r \in ActiveIds' : regions'[r] = {blocks'[i].ptr : i \in BlocksOf(r)'}
  BY Zenon DEF regions

(* A context whose records keep their addresses holds what it held. *)
LEMMA SameRegion ==
  ASSUME NEW r \in ActiveIds, r \in ActiveIds', BlocksOf(r)' = BlocksOf(r),
         \A i \in BlocksOf(r) : blocks'[i].ptr = blocks[i].ptr
  PROVE  regions'[r] = regions[r]
<1>1. {blocks'[i].ptr : i \in BlocksOf(r)} = {blocks[i].ptr : i \in BlocksOf(r)}
  OBVIOUS
<1> QED BY <1>1, RegionIs, Zenon

LEMMA Blank == NoContext \in Ctx /\ ~NoContext.active /\ NoBlock \in Rec /\ NoBlock.ptr = NULL
  BY DEF NoContext, NoBlock, Ctx, Rec

LEMMA ActiveIdsIs == \A r : r \in ActiveIds <=> \E c \in Active : contexts[c].id = r
  BY DEF ActiveIds

-----------------------------------------------------------------------------
LEMMA CreateStep ==
  ASSUME IInv, NEW quota \in Quotas, memctx_create(quota)
  PROVE  IInv' /\ Abstract!Open
<1> DEFINE vacant == {i \in ContextSlots : ~contexts[i].active}
           v == Min(vacant)
           new == [NoContext EXCEPT !.active = TRUE, !.id = NewId(v), !.quota = quota]
<1>1. v \in ContextSlots /\ v \notin Active
  <2>1. vacant \in SUBSET Nat /\ vacant # {}
    BY Slots DEF memctx_create
  <2>2. v \in vacant
    BY <2>1, MinIn
  <2> QED BY <2>2 DEF Active
<1>2. /\ contexts' = [contexts EXCEPT ![v] = new]
      /\ next_ctx_id' = next_ctx_id + 1
      /\ UNCHANGED <<blocks, heap, others>>
  BY DEF memctx_create
<1>3. new \in Ctx /\ new.active /\ new.id = next_ctx_id
  BY MemCtxAssumption, Zenon DEF NoContext, NewId, Ctx, IInv, Tables
<1> HIDE DEF v, new
<1>4. Tables'
  BY <1>1, <1>2, <1>3 DEF IInv, Tables
<1>5. \A d \in ContextSlots : contexts'[d] = IF d = v THEN new ELSE contexts[d]
  BY <1>2 DEF IInv, Tables
<1>6. Active' = Active \cup {v} /\ \A c \in Active : contexts'[c] = contexts[c]
  BY <1>1, <1>3, <1>5 DEF Active
<1>7. ActiveIds' = ActiveIds \cup {next_ctx_id}
  BY <1>1, <1>3, <1>5, <1>6 DEF ActiveIds
<1>8. next_ctx_id \notin ActiveIds /\ \A r \in ActiveIds : r \in Nat /\ r > 0 /\ r < next_ctx_id
  BY DEF ActiveIds, IInv, IdsGiven, Tables, Active, Ctx
<1>9. Used' = Used /\ Registered' = Registered
  BY <1>2 DEF Used, Registered
<1>10. RecordsApart' /\ HeapHeld' /\ OwnersActive'
  BY <1>2, <1>6, <1>9 DEF IInv, RecordsApart, HeapHeld, OwnersActive
<1>11. IdsApart'
  BY <1>3, <1>5, <1>6, <1>1, <1>8, ActiveIdsIs DEF IInv, IdsApart
<1>12. IdsGiven'
  <2>1. next_ctx_id \in Nat \ {0}
    BY DEF IInv, Tables
  <2>2. SUFFICES ASSUME NEW c \in Active'
                 PROVE  contexts'[c].id > 0 /\ contexts'[c].id < next_ctx_id + 1
    BY <1>2 DEF IdsGiven
  <2>3. CASE c = v
    BY <1>1, <1>3, <1>5, <2>1, <2>3
  <2>4. CASE c \in Active
    <3>1. contexts'[c].id \in ActiveIds
      BY <1>6, <2>4, ActiveIdsIs
    <3> QED BY <1>8, <2>1, <3>1
  <2> QED BY <1>6, <2>2, <2>3, <2>4
<1>13. \A r : BlocksOf(r)' = BlocksOf(r)
  BY <1>2 DEF BlocksOf
<1>14. BlocksOf(next_ctx_id) = {}
  BY <1>8, ActiveIdsIs DEF BlocksOf, IInv, OwnersActive, Used
<1>15. regions' = [x \in DOMAIN regions \cup {next_ctx_id} |->
                     IF x = next_ctx_id THEN {} ELSE regions[x]]
  BY <1>2, <1>7, <1>8, <1>13, <1>14 DEF regions
<1>16. closed' = closed
  <2>1. next_ctx_id \in Nat \ {0}
    BY DEF IInv, Tables
  <2> QED BY <1>2, <1>7, <1>8, <2>1 DEF closed
<1>17. next_ctx_id \in DOMAIN regions' \ (DOMAIN regions \cup closed)
  <2>1. next_ctx_id \notin closed
    BY DEF closed, IInv, Tables
  <2> QED BY <1>7, <1>8, <2>1 DEF regions
<1>18. Abstract!Open
  BY <1>15, <1>16, <1>17, Zenon DEF Abstract!Open, regions, closed
<1> QED BY <1>4, <1>10, <1>11, <1>12, <1>18 DEF IInv

(* What memctx_alloc does to the tables. *)
LEMMA AllocStep ==
  ASSUME IInv, NEW id \in Ids, NEW size \in Sizes, memctx_alloc(id, size)
  PROVE  IInv' /\ id \in DOMAIN regions /\ id \in DOMAIN regions' /\ Abstract!Take(id)
<1> DEFINE c == Min(find_ctx(id))
           vacant == {i \in BlockSlots : blocks[i].ptr = NULL}
           v == Min(vacant)
<1>1. c \in Active /\ c \in ContextSlots /\ contexts[c].id = id
  BY FoundContext DEF memctx_alloc, Active
<1>2. v \in BlockSlots /\ v \notin Used
  <2>1. vacant \in SUBSET Nat /\ vacant # {}
    BY Slots DEF memctx_alloc
  <2>2. v \in vacant
    BY <2>1, MinIn
  <2> QED BY <2>2 DEF Used
<1>3. PICK p \in Ptrs : /\ mem_alloc(p, size)
                        /\ blocks' = [blocks EXCEPT ![v] = [ptr |-> p, size |-> size, ctx_id |-> id]]
  BY DEF memctx_alloc
<1>4. /\ contexts' = [contexts EXCEPT
                        ![c].used = @ + size,
                        ![c].peak = IF contexts[c].used + size > @
                                    THEN contexts[c].used + size ELSE @,
                        ![c].allocations = @ + 1]
      /\ UNCHANGED <<next_ctx_id, others>>
  BY DEF memctx_alloc
<1>5. size \in Nat /\ id \in Nat /\ p # NULL
  BY MemCtxAssumption, NullIsNone DEF Ids, IInv, Tables
<1> HIDE DEF c, v
<1>6. /\ contexts' \in [ContextSlots -> Ctx]
      /\ \A d \in ContextSlots : /\ contexts'[d].active = contexts[d].active
                                 /\ contexts'[d].id = contexts[d].id
  <2> DEFINE u == contexts[c].used + size
             k == IF u > contexts[c].peak THEN u ELSE contexts[c].peak
             a == contexts[c].allocations + 1
             e == [contexts[c] EXCEPT !.used = u, !.peak = k, !.allocations = a]
  <2>1. contexts[c] \in Ctx
    BY <1>1 DEF IInv, Tables
  <2>2. u \in Nat /\ k \in Nat /\ a \in Nat
    BY <1>5, <2>1 DEF Ctx
  <2>3. contexts' = [contexts EXCEPT ![c] = e]
    BY <1>1, <1>4, <2>1 DEF IInv, Tables, Ctx
  <2> HIDE DEF u, k, a
  <2>4. e \in Ctx /\ e.active = contexts[c].active /\ e.id = contexts[c].id
    BY <2>1, <2>2, Zenon DEF Ctx
  <2> HIDE DEF e
  <2> QED BY <1>1, <2>3, <2>4, NewStatistics, Zenon DEF IInv
<1>7. Active' = Active /\ ActiveIds' = ActiveIds
  BY <1>6, SameIds DEF IInv
<1>8. \A d \in Active : contexts'[d].id = contexts[d].id
  BY <1>6 DEF Active
<1>9. blocks' \in [BlockSlots -> Rec]
  BY <1>3, <1>5, Zenon DEF IInv, Tables, Rec
<1>10. \A i \in BlockSlots :
        blocks'[i] = IF i = v THEN [ptr |-> p, size |-> size, ctx_id |-> id] ELSE blocks[i]
  BY <1>3 DEF IInv, Tables
<1>11. Used' = Used \cup {v} /\ Registered' = Registered \cup {p}
  <2>1. Used' = Used \cup {v}
    BY <1>2, <1>5, <1>10 DEF Used
  <2>2. blocks'[v].ptr = p /\ \A i \in Used : blocks'[i].ptr = blocks[i].ptr
    BY <1>2, <1>10 DEF Used
  <2> QED BY <2>1, <2>2 DEF Registered
<1>12. p \notin Registered /\ p \notin others /\ DOMAIN heap' = DOMAIN heap \cup {p}
  BY <1>3 DEF mem_alloc, IInv, HeapHeld
<1>13. HeapHeld'
  BY <1>4, <1>11, <1>12 DEF IInv, HeapHeld
<1>14. \A i \in Used : blocks[i].ptr # p
  BY <1>12 DEF Registered
<1>15. blocks'[v].ptr = p /\ blocks'[v].ctx_id = id /\ \A i \in Used : blocks'[i] = blocks[i]
  BY <1>2, <1>10 DEF Used
<1>16. RecordsApart' /\ OwnersActive'
  <2>1. \A i, j \in Used \cup {v} : blocks'[i].ptr = blocks'[j].ptr => i = j
    BY <1>14, <1>15 DEF IInv, RecordsApart
  <2>2. \A i \in Used : \E d \in Active : contexts'[d].id = blocks'[i].ctx_id
    BY <1>15, <1>8, Zenon DEF IInv, OwnersActive
  <2>3. \E d \in Active : contexts'[d].id = blocks'[v].ctx_id
    BY <1>1, <1>15, <1>8, Zenon
  <2> QED BY <1>7, <1>11, <2>1, <2>2, <2>3, Zenon DEF RecordsApart, OwnersActive
<1>17. IdsApart' /\ IdsGiven'
  BY <1>4, <1>6, <1>7, SameIdFacts
<1>18. IInv'
  BY <1>4, <1>6, <1>9, <1>13, <1>15, <1>16, <1>17 DEF IInv, Tables
<1>19. id \in ActiveIds
  BY <1>1, ActiveIdsIs
<1>20. \A r \in ActiveIds : BlocksOf(r)' = IF r = id THEN BlocksOf(r) \cup {v} ELSE BlocksOf(r)
  <2>1. \A r, i : i \in BlocksOf(r)' <=> i \in BlocksOf(r) \/ (i = v /\ r = id)
    BY <1>2, <1>11, <1>15, BlocksOfIs, Zenon
  <2> QED BY <2>1
<1>21. \A r : \A i \in BlocksOf(r) : i \in BlockSlots /\ i # v
  BY <1>2 DEF BlocksOf, Used
<1>22. regions' = [regions EXCEPT ![id] = @ \cup {p}]
  <2>1. regions'[id] = regions[id] \cup {p}
    <3>1. regions'[id] = {blocks'[i].ptr : i \in BlocksOf(id) \cup {v}}
      BY <1>7, <1>19, <1>20, RegionIs
    <3>2. \A i \in BlocksOf(id) : blocks'[i].ptr = blocks[i].ptr
      BY <1>10, <1>21
    <3>3. regions[id] = {blocks[i].ptr : i \in BlocksOf(id)}
      BY <1>19, RegionIs
    <3> QED BY <1>15, <3>1, <3>2, <3>3
  <2>2. \A r \in ActiveIds : r # id => regions'[r] = regions[r]
    <3> SUFFICES ASSUME NEW r \in ActiveIds, r # id
                 PROVE  regions'[r] = regions[r]
      OBVIOUS
    <3>1. BlocksOf(r)' = BlocksOf(r)
      BY <1>20
    <3>2. \A i \in BlocksOf(r) : blocks'[i].ptr = blocks[i].ptr
      BY <1>10, <1>21
    <3> QED BY <1>7, <3>1, <3>2, SameRegion
  <2> QED BY <1>7, <1>19, <2>1, <2>2, Zenon DEF regions
<1>23. closed' = closed
  BY <1>4, <1>7 DEF closed
<1>24. p \notin Abstract!Owned
  <2>1. \A r \in ActiveIds : p \notin regions[r]
    BY <1>14 DEF regions, BlocksOf, Used
  <2> QED BY <2>1 DEF Abstract!Owned, regions
<1>25. p \in regions'[id]
  BY <1>19, <1>22 DEF regions
<1>26. Abstract!Take(id)
  BY <1>22, <1>23, <1>24, <1>25, Zenon DEF Abstract!Take, regions, closed
<1> QED BY <1>7, <1>18, <1>19, <1>26 DEF regions

(* Clearing some records and giving their addresses back to the heap keeps *)
(* the heap as it is held.                                                 *)
LEMMA Cleared ==
  ASSUME IInv, NEW S \in SUBSET Used,
         \A i \in BlockSlots : blocks'[i] = IF i \in S THEN NoBlock ELSE blocks[i],
         mem_free({blocks[i].ptr : i \in S}), others' = others
  PROVE  /\ Used' = Used \ S
         /\ \A i \in Used' : blocks'[i] = blocks[i]
         /\ RecordsApart' /\ HeapHeld'
<1>1. Used' = Used \ S
  BY Blank DEF Used
<1>2. \A i \in Used' : blocks'[i] = blocks[i]
  BY <1>1 DEF Used
<1>3. RecordsApart'
  BY <1>1, <1>2 DEF IInv, RecordsApart
<1>4. Registered' = {blocks[i].ptr : i \in Used \ S}
  BY <1>1, <1>2 DEF Registered
<1>5. Registered' = Registered \ {blocks[i].ptr : i \in S}
  <2>1. \A i \in Used \ S : blocks[i].ptr \notin {blocks[j].ptr : j \in S}
    BY DEF IInv, RecordsApart
  <2>2. \A x \in Registered : x \notin {blocks[j].ptr : j \in S} =>
          \E i \in Used \ S : x = blocks[i].ptr
    BY DEF Registered
  <2>3. {blocks[i].ptr : i \in Used \ S} \subseteq Registered
    BY DEF Registered
  <2> QED BY <1>4, <2>1, <2>2, <2>3
<1>6. DOMAIN heap' = DOMAIN heap \ {blocks[i].ptr : i \in S}
  BY DEF mem_free
<1>7. {blocks[i].ptr : i \in S} \subseteq Registered
  BY DEF Registered
<1>8. HeapHeld'
  BY <1>5, <1>6, <1>7 DEF IInv, HeapHeld
<1> QED BY <1>1, <1>2, <1>3, <1>8

LEMMA FreeStep ==
  ASSUME IInv, NEW id \in Ids, NEW p \in Ptrs, memctx_free(id, p)
  PROVE  IInv' /\ id \in DOMAIN regions /\ id \in DOMAIN regions' /\ Abstract!Give(id)
<1> DEFINE c == Min(find_ctx(id))
           b == Min(find_block(id, p))
<1>1. c \in Active /\ c \in ContextSlots /\ contexts[c].id = id
  BY FoundContext DEF memctx_free, Active
<1>2. b \in BlockSlots /\ b \in Used /\ blocks[b].ptr = p /\ blocks[b].ctx_id = id
  <2>1. find_block(id, p) \in SUBSET Nat /\ find_block(id, p) # {}
    BY Slots, Zenon DEF memctx_free, find_block
  <2>2. b \in find_block(id, p)
    BY <2>1, MinIn
  <2> QED BY <2>2 DEF find_block, Used, memctx_free
<1>3. /\ mem_free({p})
      /\ contexts' = Credit(c, blocks[b].size)
      /\ blocks' = [blocks EXCEPT ![b] = NoBlock]
      /\ UNCHANGED <<next_ctx_id, others>>
  BY DEF memctx_free
<1> HIDE DEF c, b
<1>4. /\ contexts' \in [ContextSlots -> Ctx]
      /\ \A d \in ContextSlots : /\ contexts'[d].active = contexts[d].active
                                 /\ contexts'[d].id = contexts[d].id
  <2>1. blocks[b].size \in Nat
    BY <1>2 DEF IInv, Tables, Rec
  <2> DEFINE size == blocks[b].size
             u == IF contexts[c].used >= size THEN contexts[c].used - size ELSE contexts[c].used
             a == IF contexts[c].allocations # 0 THEN contexts[c].allocations - 1
                  ELSE contexts[c].allocations
  <2>2. u \in Nat /\ a \in Nat
    BY <1>1, <2>1 DEF IInv, Tables, Ctx
  <2> DEFINE e == [contexts[c] EXCEPT !.used = u, !.allocations = a]
  <2>3. contexts' = [contexts EXCEPT ![c] = e]
    BY <1>1, <1>3, Zenon DEF Credit, IInv, Tables, Ctx
  <2> HIDE DEF size, u, a
  <2>4. contexts[c] \in Ctx
    BY <1>1 DEF IInv, Tables
  <2>5. e \in Ctx /\ e.active = contexts[c].active /\ e.id = contexts[c].id
    BY <2>2, <2>4, Zenon DEF Ctx
  <2> HIDE DEF e
  <2> QED BY <1>1, <2>3, <2>5, NewStatistics, Zenon DEF IInv
<1>5. Active' = Active /\ ActiveIds' = ActiveIds
  BY <1>4, SameIds DEF IInv
<1>6. blocks' \in [BlockSlots -> Rec]
  BY <1>3, Blank DEF IInv, Tables
<1>7. \A i \in BlockSlots : blocks'[i] = IF i \in {b} THEN NoBlock ELSE blocks[i]
  BY <1>3 DEF IInv, Tables
<1>8. {blocks[i].ptr : i \in {b}} = {p}
  BY <1>2
<1>9. /\ Used' = Used \ {b}
      /\ \A i \in Used' : blocks'[i] = blocks[i]
      /\ RecordsApart' /\ HeapHeld'
  <2>1. {b} \in SUBSET Used
    BY <1>2
  <2>2. mem_free({blocks[i].ptr : i \in {b}})
    BY <1>3, <1>8
  <2> QED BY <1>3, <1>7, <2>1, <2>2, Cleared, Zenon
<1>10. OwnersActive'
  <2>1. \A d \in Active : contexts'[d].id = contexts[d].id
    BY <1>4 DEF Active
  <2>2. \A i \in Used' : i \in Used /\ blocks'[i] = blocks[i]
    BY <1>9
  <2>3. \A i \in Used' : \E d \in Active' : contexts'[d].id = blocks'[i].ctx_id
    BY <1>5, <2>1, <2>2, Zenon DEF IInv, OwnersActive
  <2> QED BY <2>3, Zenon DEF OwnersActive
<1>11. IdsApart' /\ IdsGiven'
  BY <1>3, <1>4, <1>5, SameIdFacts
<1>12. IInv'
  BY <1>3, <1>4, <1>6, <1>9, <1>10, <1>11 DEF IInv, Tables
<1>13. id \in ActiveIds
  BY <1>1, ActiveIdsIs
<1>14. \A r \in ActiveIds : BlocksOf(r)' = BlocksOf(r) \ {b}
  BY <1>9, BlocksOfIs
<1>15. \A r \in ActiveIds : \A i \in BlocksOf(r)' : blocks'[i].ptr = blocks[i].ptr
  BY <1>9, BlocksOfIs
<1>16. b \in BlocksOf(id) /\ \A r \in ActiveIds : r # id => b \notin BlocksOf(r)
  BY <1>2 DEF BlocksOf, Used
<1>17. \A i \in BlocksOf(id) : blocks[i].ptr = p => i = b
  BY <1>2 DEF IInv, RecordsApart, BlocksOf, Used
<1>18. regions' = [regions EXCEPT ![id] = @ \ {p}]
  <2>1. regions'[id] = regions[id] \ {p}
    <3>1. regions'[id] = {blocks[i].ptr : i \in BlocksOf(id) \ {b}}
      <4>1. BlocksOf(id)' = BlocksOf(id) \ {b}
        BY <1>13, <1>14
      <4>2. \A i \in BlocksOf(id) \ {b} : blocks'[i].ptr = blocks[i].ptr
        BY <1>13, <1>15, <4>1, Zenon
      <4>3. regions'[id] = {blocks'[i].ptr : i \in BlocksOf(id) \ {b}}
        BY <1>5, <1>13, <4>1, RegionIs, Zenon
      <4> QED BY <4>2, <4>3
    <3>2. regions[id] = {blocks[i].ptr : i \in BlocksOf(id)}
      BY <1>13, RegionIs
    <3> QED BY <1>2, <1>17, <3>1, <3>2
  <2>2. \A r \in ActiveIds : r # id => regions'[r] = regions[r]
    <3> SUFFICES ASSUME NEW r \in ActiveIds, r # id
                 PROVE  regions'[r] = regions[r]
      OBVIOUS
    <3>1. BlocksOf(r)' = BlocksOf(r)
      BY <1>14, <1>16
    <3> QED BY <1>5, <1>15, <3>1, SameRegion
  <2> QED BY <1>5, <1>13, <2>1, <2>2, Zenon DEF regions
<1>19. closed' = closed
  BY <1>3, <1>5 DEF closed
<1>20. p \in regions[id]
  BY <1>2, <1>13, <1>16 DEF regions
<1>21. Abstract!Give(id)
  BY <1>18, <1>19, <1>20, Zenon DEF Abstract!Give, regions, closed
<1> QED BY <1>5, <1>12, <1>13, <1>21 DEF regions

LEMMA DestroyStep ==
  ASSUME IInv, NEW id \in Ids, memctx_destroy(id)
  PROVE  IInv' /\ id \in DOMAIN regions /\ Abstract!Close(id)
<1> DEFINE c == Min(find_ctx(id))
<1>1. c \in Active /\ c \in ContextSlots /\ contexts[c].id = id
  BY FoundContext DEF memctx_destroy, Active
<1>2. /\ mem_free({blocks[i].ptr : i \in BlocksOf(id)})
      /\ blocks' = [i \in BlockSlots |-> IF i \in BlocksOf(id) THEN NoBlock ELSE blocks[i]]
      /\ contexts' = [contexts EXCEPT ![c] = NoContext]
      /\ UNCHANGED <<next_ctx_id, others>>
  BY DEF memctx_destroy
<1> HIDE DEF c
<1>3. contexts' \in [ContextSlots -> Ctx] /\ blocks' \in [BlockSlots -> Rec]
  BY <1>2, Blank DEF IInv, Tables
<1>4. \A d \in ContextSlots : contexts'[d] = IF d = c THEN NoContext ELSE contexts[d]
  BY <1>2 DEF IInv, Tables
<1>5. Active' = Active \ {c} /\ \A d \in Active' : contexts'[d] = contexts[d]
  <2>1. \A d \in ContextSlots : contexts'[d].active <=> d # c /\ contexts[d].active
    BY <1>4, Blank
  <2>2. Active' = Active \ {c}
    BY <2>1 DEF Active
  <2> QED BY <1>4, <2>2 DEF Active
<1>6. ActiveIds' = ActiveIds \ {id}
  BY <1>1, <1>5 DEF ActiveIds, IInv, IdsApart
<1>7. id \in ActiveIds
  BY <1>1, ActiveIdsIs
<1>8. /\ Used' = Used \ BlocksOf(id)
      /\ \A i \in Used' : blocks'[i] = blocks[i]
      /\ RecordsApart' /\ HeapHeld'
  <2>1. BlocksOf(id) \in SUBSET Used
    BY DEF BlocksOf, Used
  <2>2. \A i \in BlockSlots : blocks'[i] = IF i \in BlocksOf(id) THEN NoBlock ELSE blocks[i]
    BY <1>2
  <2> QED BY <1>2, <2>1, <2>2, Cleared
<1>9. OwnersActive'
  <2> SUFFICES ASSUME NEW i \in Used'
               PROVE  \E d \in Active' : contexts'[d].id = blocks'[i].ctx_id
    BY DEF OwnersActive
  <2>1. i \in Used /\ blocks'[i] = blocks[i] /\ blocks[i].ctx_id # id
    BY <1>8 DEF BlocksOf, Used
  <2>2. PICK d \in Active : contexts[d].id = blocks[i].ctx_id
    BY <2>1 DEF IInv, OwnersActive
  <2>3. d \in Active' /\ contexts'[d] = contexts[d]
    BY <1>1, <1>5, <2>1, <2>2
  <2> QED BY <2>1, <2>2, <2>3
<1>10. IdsApart' /\ IdsGiven'
  <2>1. \A d \in Active' : d \in Active /\ contexts'[d].id = contexts[d].id
    BY <1>5
  <2>2. \A d, f \in Active' : contexts'[d].id = contexts'[f].id => d = f
    BY <2>1 DEF IInv, IdsApart
  <2>3. \A d \in Active' : contexts'[d].id > 0 /\ contexts'[d].id < next_ctx_id'
    BY <1>2, <2>1 DEF IInv, IdsGiven
  <2> QED BY <2>2, <2>3 DEF IdsApart, IdsGiven
<1>11. IInv'
  BY <1>2, <1>3, <1>8, <1>9, <1>10 DEF IInv, Tables
<1>12. \A r \in ActiveIds' : BlocksOf(r)' = BlocksOf(r) /\ r # id
  BY <1>2, <1>6 DEF BlocksOf, NoBlock
<1>13. \A r \in ActiveIds' : \A i \in BlocksOf(r) : blocks'[i].ptr = blocks[i].ptr
  BY <1>2, <1>12 DEF BlocksOf
<1>14. regions' = [x \in DOMAIN regions \ {id} |-> regions[x]]
  <2>1. \A r \in ActiveIds' : regions'[r] = regions[r]
    BY <1>6, <1>12, <1>13, SameRegion
  <2> QED BY <1>6, <2>1, Zenon DEF regions
<1>15. closed' = closed \cup {id}
  <2>1. id \in 1 .. (next_ctx_id - 1)
    BY <1>1 DEF IInv, IdsGiven, Tables, Ctx
  <2> QED BY <1>2, <1>6, <2>1 DEF closed
<1>16. Abstract!Close(id)
  BY <1>14, <1>15, Zenon DEF Abstract!Close, regions, closed
<1> QED BY <1>7, <1>11, <1>16 DEF regions

(* A step that leaves the tables alone stutters. *)
LEMMA SameTables ==
  ASSUME UNCHANGED <<contexts, blocks, next_ctx_id>>
  PROVE  /\ regions' = regions /\ closed' = closed
         /\ Used' = Used /\ Active' = Active /\ Registered' = Registered
<1>1. Active' = Active /\ Used' = Used
  BY DEF Active, Used
<1>2. ActiveIds' = ActiveIds /\ Registered' = Registered
  BY <1>1 DEF ActiveIds, Registered
<1>3. \A r : BlocksOf(r)' = BlocksOf(r)
  BY DEF BlocksOf
<1> QED BY <1>1, <1>2, <1>3 DEF regions, closed

LEMMA OtherStep ==
  ASSUME IInv, NEW p \in Ptrs, OtherAlloc(p) \/ OtherFree(p)
  PROVE  IInv' /\ regions' = regions /\ closed' = closed
<1>1. UNCHANGED <<contexts, blocks, next_ctx_id>>
  BY DEF OtherAlloc, OtherFree
<1>2. Tables' /\ RecordsApart' /\ OwnersActive' /\ IdsApart' /\ IdsGiven'
  BY <1>1, SameTables DEF IInv, Tables, RecordsApart, OwnersActive, IdsApart, IdsGiven
<1>3. HeapHeld'
  BY <1>1, SameTables DEF IInv, HeapHeld, OtherAlloc, OtherFree, mem_alloc, mem_free
<1> QED BY <1>1, <1>2, <1>3, SameTables DEF IInv

LEMMA Initially == Init => IInv /\ Abstract!RegInit
<1> SUFFICES ASSUME Init PROVE IInv /\ Abstract!RegInit
  OBVIOUS
<1>1. Tables
  BY Blank DEF Init, Tables
<1>2. Active = {} /\ Used = {}
  BY Blank DEF Init, Active, Used
<1>3. Registered = {} /\ ActiveIds = {}
  BY <1>2 DEF Registered, ActiveIds
<1>4. IInv
  BY <1>1, <1>2, <1>3 DEF Init, IInv, RecordsApart, OwnersActive, IdsApart, IdsGiven, HeapHeld
<1>5. [r \in ActiveIds |-> {blocks[i].ptr : i \in BlocksOf(r)}] = <<>>
  BY <1>3
<1>6. (1 .. (next_ctx_id - 1)) \ ActiveIds = {}
  BY DEF Init
<1> QED BY <1>4, <1>5, <1>6 DEF Abstract!RegInit

(* Every step keeps the invariant and is a step of Regions or a stutter. *)
LEMMA Step == IInv /\ [Next]_vars => IInv' /\ [Abstract!RegNext]_(Abstract!regVars)
<1> SUFFICES ASSUME IInv, [Next]_vars
             PROVE  IInv' /\ [Abstract!RegNext]_(Abstract!regVars)
  OBVIOUS
<1>1. ASSUME NEW quota \in Quotas, memctx_create(quota)
      PROVE  IInv' /\ Abstract!RegNext
  BY <1>1, CreateStep DEF Abstract!RegNext
<1>2. ASSUME NEW id \in Ids, NEW size \in Sizes, memctx_alloc(id, size)
      PROVE  IInv' /\ Abstract!RegNext
  BY <1>2, AllocStep DEF Abstract!RegNext, regions
<1>3. ASSUME NEW id \in Ids, NEW p \in Ptrs, memctx_free(id, p)
      PROVE  IInv' /\ Abstract!RegNext
  BY <1>3, FreeStep DEF Abstract!RegNext, regions
<1>4. ASSUME NEW id \in Ids, memctx_destroy(id)
      PROVE  IInv' /\ Abstract!RegNext
  BY <1>4, DestroyStep DEF Abstract!RegNext, regions
<1>5. ASSUME NEW p \in Ptrs, OtherAlloc(p) \/ OtherFree(p)
      PROVE  IInv' /\ UNCHANGED Abstract!regVars
  BY <1>5, OtherStep, Zenon DEF Abstract!regVars, regions, closed
<1>6. ASSUME UNCHANGED vars
      PROVE  IInv' /\ UNCHANGED Abstract!regVars
  <2>1. UNCHANGED <<contexts, blocks, next_ctx_id>> /\ UNCHANGED <<heap, others>>
    BY <1>6 DEF vars
  <2>2. IInv'
    BY <2>1, SameTables DEF IInv, Tables, RecordsApart, OwnersActive, IdsApart, IdsGiven, HeapHeld
  <2> QED BY <2>1, <2>2, SameTables, Zenon DEF Abstract!regVars, regions, closed
<1> QED BY <1>1, <1>2, <1>3, <1>4, <1>5, <1>6 DEF Next

(***************************************************************************)
(* The invariant holds always: in particular an active context's id is its *)
(* own and every record belongs to an active context.                      *)
(***************************************************************************)
THEOREM MemCtxInvariant == Spec => []IInv
  BY Initially, Step, PTL DEF Spec

(* Records and their addresses are equally many. *)
LEMMA Counted == IInv => NothingLeaks
<1> SUFFICES ASSUME IInv PROVE Cardinality(Registered) = Cardinality(Used)
  BY DEF IInv, HeapHeld, NothingLeaks
<1>1. IsFiniteSet(Used)
  <2>1. IsFiniteSet(BlockSlots)
    BY MemCtxAssumption, FS_Interval DEF BlockSlots
  <2> QED BY <2>1, FS_Subset DEF Used
<1> DEFINE f == [i \in Used |-> blocks[i].ptr]
<1>2. f \in [Used -> Registered] /\ (\A y \in Registered : \E i \in Used : f[i] = y)
  BY DEF Registered
<1>3. \A i, j \in Used : f[i] = f[j] => i = j
  BY DEF IInv, RecordsApart
<1>4. f \in Bijection(Used, Registered)
  BY <1>2, <1>3 DEF Bijection, Injection, Surjection, IsInjective
<1>5. ExistsBijection(Used, Registered)
  BY <1>4 DEF ExistsBijection
<1> QED BY <1>1, <1>5, FS_Bijection

(***************************************************************************)
(* Nothing leaks and nothing is freed for another holder, whatever the     *)
(* order of memctx_create, _alloc, _free and _destroy.                     *)
(***************************************************************************)
THEOREM HeapAccounted == Spec => []NothingLeaks
  BY MemCtxInvariant, Counted, PTL

(***************************************************************************)
(* The tables implement Regions: memctx_destroy releases a context's       *)
(* blocks together, and its id never names a later context.                *)
(***************************************************************************)
THEOREM RegionsImplemented == Spec => ImplementsRegions
  BY Initially, Step, MemCtxInvariant, PTL DEF Spec, ImplementsRegions, Abstract!RegSpec
=============================================================================
