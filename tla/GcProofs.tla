------------------------------ MODULE GcProofs ------------------------------
(***************************************************************************)
(* A collection frees exactly the unreachable objects, for every heap and  *)
(* every size of the block stack.  The invariant is the one of incremental *)
(* collectors: a marked object either has only marked children or is still *)
(* on somebody's list.                                                     *)
(***************************************************************************)
EXTENDS GcMark, SequenceTheorems, TLAPS

(* What is marked lies in every closed set; the roots seen are marked.     *)
MarkedNeeded == \A S \in SUBSET Heads : Closed(S) => marked \subseteq S

IInv ==
  /\ TypeOK
  /\ stage # "done" =>
       /\ NoneLost /\ MarkedNeeded
       /\ roots \ todo \subseteq marked
       /\ live = Heads
  /\ stage = "rescan" => todo = {}
  /\ block # Nobody => stage # "done" /\ block \in marked
  /\ Range1(stack) \subseteq marked
  /\ block = Nobody => stack = <<>>
  /\ CollectsGarbage

LEMMA InitInv == Init => IInv
<1> SUFFICES ASSUME Init PROVE IInv
  OBVIOUS
<1>1. PICK h \in Heaps : kids = h.kids /\ roots = h.roots
  BY DEF Init
<1>2. kids \in [Heads -> SUBSET Heads] /\ roots \subseteq Heads
  BY <1>1, GcMarkAssumption
<1>3. stack = <<>> /\ stack \in Seq(Heads) /\ Range1(stack) = {}
  BY DEF Init, Range1
<1>4. at \in 0 .. (Last + 1)
  BY GcMarkAssumption DEF Init
<1>5. TypeOK
  BY <1>2, <1>3, <1>4, Zenon DEF Init, TypeOK
<1> QED
  BY <1>3, <1>5 DEF Init, IInv, NoneLost, MarkedNeeded, CollectsGarbage

(* What is reachable depends on pointers and roots alone. *)
LEMMA ReachableStays ==
  ASSUME UNCHANGED <<kids, roots>>
  PROVE  /\ Reachable' = Reachable
         /\ \A S : Closed(S)' <=> Closed(S)
  BY DEF Reachable, Closed

(* Pushing: what was there, and what is new. *)
LEMMA Push ==
  ASSUME NEW S, NEW old \in Seq(S), NEW s \in Seq(S)
  PROVE  /\ old \o s \in Seq(S)
         /\ Range1(old \o s) = Range1(old) \cup Range1(s)
<1> DEFINE p == old \o s
<1>1. /\ p \in Seq(S) /\ Len(p) = Len(old) + Len(s)
      /\ \A i \in 1 .. (Len(old) + Len(s)) :
           p[i] = IF i <= Len(old) THEN old[i] ELSE s[i - Len(old)]
  BY ConcatProperties
<1> HIDE DEF p
<1>2. /\ Len(old) \in Nat /\ Len(s) \in Nat /\ DOMAIN old = 1 .. Len(old)
      /\ DOMAIN s = 1 .. Len(s) /\ DOMAIN p = 1 .. (Len(old) + Len(s))
  BY <1>1, LenProperties
<1>3. \A k \in 1 .. Len(old) : k \in DOMAIN p /\ p[k] = old[k]
  BY <1>1, <1>2
<1>4. \A k \in 1 .. Len(s) : k + Len(old) \in DOMAIN p /\ p[k + Len(old)] = s[k]
  BY <1>1, <1>2
<1>5. ASSUME NEW k \in DOMAIN p
      PROVE  \/ k \in DOMAIN old /\ p[k] = old[k]
             \/ k - Len(old) \in DOMAIN s /\ p[k] = s[k - Len(old)]
  <2>1. CASE k <= Len(old)
    BY <1>1, <1>2, <2>1
  <2>2. CASE ~(k <= Len(old))
    BY <1>1, <1>2, <2>2
  <2> QED BY <2>1, <2>2
<1>6. Range1(p) = Range1(old) \cup Range1(s)
  <2>1. Range1(p) \subseteq Range1(old) \cup Range1(s)
    BY <1>5 DEF Range1
  <2>2. Range1(old) \subseteq Range1(p)
    BY <1>2, <1>3 DEF Range1
  <2>3. Range1(s) \subseteq Range1(p)
    BY <1>2, <1>4 DEF Range1
  <2> QED BY <2>1, <2>2, <2>3
<1> QED BY <1>1, <1>6 DEF p

(* Popping: the topmost object, and the rest. *)
LEMMA Pop ==
  ASSUME NEW S, NEW p \in Seq(S), p # <<>>
  PROVE  /\ SubSeq(p, 1, Len(p) - 1) \in Seq(S)
         /\ p[Len(p)] \in S
         /\ Range1(p) = Range1(SubSeq(p, 1, Len(p) - 1)) \cup {p[Len(p)]}
<1> DEFINE n == Len(p)
           q == SubSeq(p, 1, n - 1)
<1>1. n \in Nat \ {0} /\ DOMAIN p = 1 .. n /\ \A i \in 1 .. n : p[i] \in S
  BY EmptySeq, LenProperties, ElementOfSeq
<1>2. /\ q \in Seq(S)
      /\ Len(q) = IF 1 <= n - 1 THEN (n - 1) - 1 + 1 ELSE 0
      /\ \A i \in 1 .. ((n - 1) - 1 + 1) : q[i] = p[1 + i - 1]
  <2> HIDE DEF n
  <2>1. 1 \in Int /\ n - 1 \in Int /\ \A i \in 1 .. (n - 1) : p[i] \in S
    BY <1>1
  <2> QED BY <2>1, SubSeqProperties
<1> HIDE DEF n, q
<1>3. Len(q) = n - 1 /\ \A i \in 1 .. (n - 1) : q[i] = p[i]
  BY <1>1, <1>2
<1>4. DOMAIN q = 1 .. (n - 1)
  BY <1>2, <1>3, LenProperties
<1>5. DOMAIN p = DOMAIN q \cup {n}
  BY <1>1, <1>4
<1>6. Range1(p) = Range1(q) \cup {p[n]}
  BY <1>3, <1>4, <1>5 DEF Range1
<1> QED BY <1>1, <1>2, <1>6 DEF n, q

(* The step that looks at the words of one object. *)
LEMMA MarkInv == IInv /\ gc_mark_subtree => IInv'
<1> SUFFICES ASSUME IInv, gc_mark_subtree PROVE IInv'
  OBVIOUS
<1>1. /\ TypeOK /\ NoneLost /\ MarkedNeeded /\ roots \ todo \subseteq marked /\ live = Heads
      /\ stage # "done" /\ block \in marked /\ block \in Heads
      /\ stage = "rescan" => todo = {}
  BY DEF IInv, TypeOK, gc_mark_subtree
<1>2. UNCHANGED <<kids, roots, todo, at, stage, live>> /\ marked' = marked \cup kids[block]
  BY DEF gc_mark_subtree
<1>3. PICK s \in Pushes(block) :
        /\ overflow' = Overflowed(block, s)
        /\ IF stack \o s = <<>> THEN block' = Nobody /\ stack' = <<>>
           ELSE /\ block' = (stack \o s)[Len(stack \o s)]
                /\ stack' = SubSeq(stack \o s, 1, Len(stack \o s) - 1)
  BY DEF gc_mark_subtree
<1>4. PICK n \in Nat : s \in [1 .. n -> Unmarked(block)]
  <2>1. PICK n \in 0 .. Cardinality(Unmarked(block)) : s \in [1 .. n -> Unmarked(block)]
    BY <1>3, Zenon DEF Pushes
  <2> QED BY <2>1
<1>5. Range1(s) \subseteq kids[block] /\ s \in Seq(Heads)
  <2>1. Unmarked(block) \subseteq kids[block] /\ kids[block] \subseteq Heads
    BY <1>1 DEF Unmarked, TypeOK
  <2>2. \A k \in 1 .. n : s[k] \in Unmarked(block)
    BY <1>4
  <2>3. s \in [1 .. n -> Heads]
    BY <1>4, <2>1
  <2> QED BY <1>4, <2>1, <2>2, <2>3 DEF Range1
<1> DEFINE p == stack \o s
<1>6. p \in Seq(Heads) /\ Range1(p) = Range1(stack) \cup Range1(s)
  <2>1. stack \in Seq(Heads) /\ s \in Seq(Heads)
    BY <1>1, <1>5 DEF TypeOK
  <2> QED BY <2>1, Push
<1> HIDE DEF p
<1>7. /\ block' \in Heads \cup {Nobody} /\ stack' \in Seq(Heads)
      /\ block' = Nobody => stack' = <<>>
      /\ Range1(p) \subseteq Range1(stack') \cup {block'}
      /\ Range1(stack') \subseteq Range1(p)
      /\ block' # Nobody => block' \in Range1(p)
  <2>1. CASE p = <<>>
    <3>1. block' = Nobody /\ stack' = <<>> /\ Range1(p) = {} /\ Range1(stack') = {}
      BY <1>3, <2>1 DEF p, Range1
    <3> QED BY <3>1
  <2>2. CASE p # <<>>
    <3>1. block' = p[Len(p)] /\ stack' = SubSeq(p, 1, Len(p) - 1)
      BY <1>3, <2>2 DEF p
    <3>2. /\ stack' \in Seq(Heads) /\ block' \in Heads
          /\ Range1(p) = Range1(stack') \cup {block'}
      BY <1>6, <2>2, <3>1, Pop
    <3> QED BY <3>2, GcMarkAssumption
  <2> QED BY <2>1, <2>2
<1>8. kids[block] \subseteq Heads
  BY <1>1 DEF TypeOK
<1>9. TypeOK'
  <2>1. overflow' \in BOOLEAN
    BY <1>1, <1>3 DEF Overflowed, TypeOK
  <2> QED BY <1>1, <1>2, <1>7, <1>8, <2>1 DEF TypeOK
<1>10. NoneLost'
  <2> SUFFICES ASSUME NEW o \in marked', ~overflow', ~(kids[o] \subseteq marked')
               PROVE  o = block' \/ o \in Range1(stack') \/ (stage = "rescan" /\ at <= o)
    BY <1>2 DEF NoneLost
  <2>1. ~overflow /\ Range1(s) = Unmarked(block)
    BY <1>3, Zenon DEF Overflowed
  <2>2. CASE o \in marked
    <3>0. ~(kids[o] \subseteq marked)
      BY <1>2
    <3>1. o = block \/ o \in Range1(stack) \/ (stage = "rescan" /\ at <= o)
      BY <1>1, <2>1, <2>2, <3>0, Zenon DEF NoneLost
    <3>2. o # block
      BY <1>2
    <3>3. Range1(stack) \subseteq Range1(stack') \cup {block'}
      BY <1>6, <1>7
    <3> QED BY <3>1, <3>2, <3>3
  <2>3. CASE o \notin marked
    <3>1. o \in Range1(s)
      BY <1>2, <2>1, <2>3 DEF Unmarked
    <3>2. Range1(s) \subseteq Range1(stack') \cup {block'}
      BY <1>6, <1>7
    <3> QED BY <3>1, <3>2, Zenon
  <2> QED BY <2>2, <2>3
<1>11. MarkedNeeded'
  BY <1>1, <1>2, ReachableStays DEF MarkedNeeded, Closed
<1>12. Range1(stack') \subseteq marked' /\ (block' # Nobody => block' \in marked')
  <2>1. Range1(stack) \subseteq marked
    BY DEF IInv
  <2>2. Range1(p) \subseteq marked'
    BY <1>2, <1>5, <1>6, <2>1
  <2> QED BY <1>7, <2>2
<1> QED
  BY <1>1, <1>2, <1>7, <1>9, <1>10, <1>11, <1>12 DEF IInv, CollectsGarbage

(* The other steps move what is to be done, and the sweep ends it. *)
LEMMA RootInv == ASSUME NEW r \in todo PROVE IInv /\ gc_collect_root(r) => IInv'
<1> SUFFICES ASSUME IInv, gc_collect_root(r) PROVE IInv'
  OBVIOUS
<1>1. /\ TypeOK /\ NoneLost /\ MarkedNeeded /\ roots \ todo \subseteq marked /\ live = Heads
      /\ stage = "roots" /\ block = Nobody /\ stack = <<>> /\ Range1(stack) \subseteq marked
  BY DEF IInv, gc_collect_root
<1>2. /\ UNCHANGED <<kids, roots, stack, overflow, at, stage, live>> /\ todo' = todo \ {r}
      /\ marked' = marked \cup {r}
      /\ block' \in {Nobody, r} /\ (block' = Nobody => r \in marked)
  <2>1. CASE r \in marked
    BY <1>1, <2>1 DEF gc_collect_root
  <2>2. CASE r \notin marked
    BY <1>1, <2>2, GcMarkAssumption DEF gc_collect_root, TypeOK
  <2> QED BY <2>1, <2>2
<1>3. r \in Heads /\ r \in roots
  BY <1>1 DEF TypeOK
<1>4. TypeOK'
  BY <1>1, <1>2, <1>3 DEF TypeOK
<1>5. Range1(stack)' = Range1(stack)
  BY <1>2 DEF Range1
<1>6. NoneLost'
  <2> SUFFICES ASSUME NEW o \in marked', ~(kids[o] \subseteq marked'), ~overflow
               PROVE  o = block' \/ o \in Range1(stack)'
    BY <1>2 DEF NoneLost
  <2>1. CASE o \in marked
    BY <1>1, <1>2, <1>5, <2>1, GcMarkAssumption DEF NoneLost, TypeOK
  <2>2. CASE o \notin marked
    BY <1>2, <2>2
  <2> QED BY <2>1, <2>2
<1>7. MarkedNeeded'
  BY <1>1, <1>2, <1>3, ReachableStays DEF MarkedNeeded, Closed
<1> QED
  BY <1>1, <1>2, <1>3, <1>4, <1>5, <1>6, <1>7 DEF IInv, CollectsGarbage

LEMMA RescanInv == IInv /\ (start_rescan \/ rescan_block) => IInv'
<1> SUFFICES ASSUME IInv, start_rescan \/ rescan_block PROVE IInv'
  OBVIOUS
<1>1. /\ TypeOK /\ NoneLost /\ MarkedNeeded /\ roots \ todo \subseteq marked /\ live = Heads
      /\ stage # "done" /\ block = Nobody /\ stack = <<>> /\ Range1(stack) \subseteq marked
      /\ todo = {}
  BY DEF IInv, start_rescan, rescan_block
<1>2. UNCHANGED <<kids, roots, todo, marked, stack, live>> /\ stage' = "rescan"
  BY DEF start_rescan, rescan_block
<1>3. /\ at' \in 0 .. (Last + 1) /\ overflow' \in BOOLEAN
      /\ block' \in {Nobody, at} /\ (block' # Nobody => at \in marked)
  <2>1. CASE start_rescan
    <3>1. at' = 0 /\ overflow' = FALSE /\ block' = Nobody
      BY <1>1, <2>1, Zenon DEF start_rescan, ClearedFirst
    <3>2. 0 \in 0 .. (Last + 1)
      BY GcMarkAssumption
    <3> QED BY <3>1, <3>2, Zenon
  <2>2. CASE rescan_block
    <3>1. at \in 0 .. (Last + 1) /\ at <= Last /\ Last \in Nat /\ overflow \in BOOLEAN
      BY <1>1, <2>2, GcMarkAssumption DEF rescan_block, TypeOK
    <3>2. at' = at + 1 /\ overflow' = overflow /\ block' = IF at \in marked THEN at ELSE Nobody
      BY <2>2 DEF rescan_block
    <3> QED BY <3>1, <3>2
  <2> QED BY <2>1, <2>2
<1>4. TypeOK'
  BY <1>1, <1>2, <1>3 DEF TypeOK
<1>5. Range1(stack)' = Range1(stack) /\ Range1(stack) = {}
  BY <1>1, <1>2 DEF Range1
<1>6. NoneLost'
  <2> SUFFICES ASSUME NEW o \in marked, ~(kids[o] \subseteq marked), ~overflow'
               PROVE  o = block' \/ at' <= o
    BY <1>2 DEF NoneLost
  <2>1. o \in Nat /\ o <= Last /\ at \in Nat /\ Last \in Nat /\ o # Nobody
    BY <1>1, GcMarkAssumption DEF TypeOK
  <2>2. CASE start_rescan
    BY <2>1, <2>2 DEF start_rescan
  <2>3. CASE rescan_block
    <3>1. ~overflow /\ stage = "rescan" /\ at' = at + 1
          /\ block' = IF at \in marked THEN at ELSE Nobody
      BY <2>3 DEF rescan_block
    <3>2. at <= o
      BY <1>1, <1>5, <2>1, <3>1 DEF NoneLost
    <3> QED BY <2>1, <3>1, <3>2
  <2> QED BY <2>2, <2>3
<1>7. MarkedNeeded'
  BY <1>1, <1>2, ReachableStays DEF MarkedNeeded, Closed
<1> QED
  BY <1>1, <1>2, <1>3, <1>4, <1>5, <1>6, <1>7 DEF IInv, CollectsGarbage

LEMMA SweepInv == IInv /\ gc_sweep_free_blocks => IInv'
<1> SUFFICES ASSUME IInv, gc_sweep_free_blocks PROVE IInv'
  OBVIOUS
<1>1. /\ TypeOK /\ NoneLost /\ MarkedNeeded /\ roots \subseteq marked /\ live = Heads
      /\ stage # "done" /\ block = Nobody /\ stack = <<>> /\ ~overflow
      /\ stage = "rescan" => at > Last
  BY DEF IInv, gc_sweep_free_blocks
<1>2. /\ UNCHANGED <<kids, roots, todo, block, stack, overflow, at>>
      /\ stage' = "done" /\ live' = live \cap marked /\ marked' = {}
  BY DEF gc_sweep_free_blocks
<1>3. Range1(stack) = {} /\ Range1(stack)' = {}
  BY <1>1, <1>2 DEF Range1
<1>4. Closed(marked)
  <2> SUFFICES ASSUME NEW o \in marked PROVE kids[o] \subseteq marked
    BY <1>1 DEF Closed
  <2>1. o \in Heads /\ o \in 0 .. Last /\ o # Nobody /\ Last \in Nat /\ at \in Nat
    BY <1>1, GcMarkAssumption DEF TypeOK
  <2>2. ~(stage = "rescan" /\ at <= o)
    BY <1>1, <2>1
  <2> QED BY <1>1, <1>3, <2>1, <2>2 DEF NoneLost
<1>5. marked = Reachable
  BY <1>1, <1>4 DEF MarkedNeeded, Reachable, TypeOK
<1>6. live' = Reachable'
  BY <1>1, <1>2, <1>5, ReachableStays DEF TypeOK
<1>7. TypeOK'
  BY <1>1, <1>2 DEF TypeOK
<1> QED
  BY <1>1, <1>2, <1>3, <1>6, <1>7 DEF IInv, CollectsGarbage

(***************************************************************************)
(* Whatever the heap, the roots and the size of the block stack, when a    *)
(* collection is over exactly the reachable objects are left: marking      *)
(* that overflows gc_block_stack is made up for before the sweep.          *)
(***************************************************************************)
THEOREM CollectionExact == Spec => []CollectsGarbage
<1>1. IInv /\ [Next]_vars => IInv'
  <2> SUFFICES ASSUME IInv, [Next]_vars PROVE IInv'
    OBVIOUS
  <2>1. CASE Next
    BY <2>1, MarkInv, RootInv, RescanInv, SweepInv DEF Next
  <2>2. CASE UNCHANGED vars
    <3>1. UNCHANGED <<kids, roots, todo, marked, block, stack, overflow, at, stage, live>>
      BY <2>2 DEF vars
    <3>2. TypeOK' /\ (NoneLost' <=> NoneLost) /\ Range1(stack)' = Range1(stack)
      BY <3>1, Zenon DEF IInv, TypeOK, NoneLost, Range1
    <3>3. \A S : Closed(S)' <=> Closed(S)
      BY <3>1, Zenon DEF Closed
    <3>4. (MarkedNeeded' <=> MarkedNeeded) /\ (CollectsGarbage' <=> CollectsGarbage)
      BY <3>1, <3>3 DEF MarkedNeeded, CollectsGarbage, Reachable
    <3> QED BY <3>1, <3>2, <3>4, Zenon DEF IInv
  <2> QED BY <2>1, <2>2
<1>2. IInv => CollectsGarbage
  BY DEF IInv
<1> QED BY InitInv, <1>1, <1>2, PTL DEF Spec
=============================================================================
