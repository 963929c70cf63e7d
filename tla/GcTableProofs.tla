--------------------------- MODULE GcTableProofs ----------------------------
(***************************************************************************)
(* gc_alloc never skips a free block and the sweep never misses a used     *)
(* one, for every size of the heap and of the bytes of its table.          *)
(***************************************************************************)
EXTENDS GcTable, WellFoundedInduction, FiniteSetTheorems, TLAPS

(* A set of naturals has a least element, by well-foundedness of <. *)
LEMMA NatMin ==
  ASSUME NEW S \in SUBSET Nat, S # {}
  PROVE  \E x \in S : \A y \in S : x <= y
<1>1. IsWellFoundedOn(OpToRel(<, Nat), Nat)
  BY NatLessThanWellFounded
<1>2. PICK x \in S : \A y \in S : ~(<<y, x>> \in OpToRel(<, Nat))
  BY <1>1, WFMin
<1>3. \A y \in S : ~(y < x)
  BY <1>2 DEF OpToRel
<1> QED BY <1>3

(* Nothing before the byte "from" of the table k is free. *)
Full(k, from) == from \in Nat /\ \A b \in Blocks : b < from * BLOCKS_PER_ATB => k[b] # "free"

(* The inductive invariant: NoneFreeBefore, for a natural number. *)
IInv == Full(kind, lastFree)

LEMMA BlocksNat == Blocks \subseteq Nat
  BY GcTableAssumption DEF Blocks

LEMMA ByteOf ==
  ASSUME NEW n \in Nat
  PROVE  n \div BLOCKS_PER_ATB \in Nat /\ (n \div BLOCKS_PER_ATB) * BLOCKS_PER_ATB <= n
  BY GcTableAssumption, SMTT(30)

LEMMA TimesMonotone ==
  ASSUME NEW a \in Nat, NEW c \in Nat, a <= c
  PROVE  a * BLOCKS_PER_ATB <= c * BLOCKS_PER_ATB /\ a * BLOCKS_PER_ATB \in Nat
  BY GcTableAssumption, SMTT(30)

LEMMA StartFull == ASSUME NEW k PROVE Full(k, 0)
<1>1. 0 * BLOCKS_PER_ATB = 0
  BY GcTableAssumption
<1>2. \A b \in Blocks : ~(b < 0)
  BY BlocksNat
<1> QED BY <1>1, <1>2 DEF Full

(* A table that frees nothing. *)
LEMMA StillFull ==
  ASSUME NEW k, NEW l, NEW from, Full(k, from),
         \A b \in Blocks : k[b] # "free" => l[b] # "free"
  PROVE  Full(l, from)
  BY DEF Full

(* The blocks that are freed are not before h, and the search starts at h or before. *)
LEMMA FreedFull ==
  ASSUME NEW k, NEW l, NEW from, Full(k, from), NEW h \in Nat,
         \A b \in Blocks : b < h /\ k[b] # "free" => l[b] # "free"
  PROVE  Full(l, Lowered(from, h))
<1> DEFINE d == h \div BLOCKS_PER_ATB
           low == Lowered(from, h)
<1>1. d \in Nat /\ d * BLOCKS_PER_ATB <= h
  BY ByteOf
<1>2. from \in Nat
  BY DEF Full
<1>3. low \in Nat /\ low <= from /\ low <= d
  <2> HIDE DEF d
  <2>1. low = Smaller(from, d)
    BY DEF Lowered, d
  <2> QED BY <1>1, <1>2, <2>1 DEF Smaller
<1> SUFFICES Full(l, low)
  OBVIOUS
<1> HIDE DEF d, low
<1>4. /\ low * BLOCKS_PER_ATB \in Nat /\ from * BLOCKS_PER_ATB \in Nat /\ d * BLOCKS_PER_ATB \in Nat
      /\ low * BLOCKS_PER_ATB <= from * BLOCKS_PER_ATB
      /\ low * BLOCKS_PER_ATB <= d * BLOCKS_PER_ATB
  BY <1>1, <1>2, <1>3, TimesMonotone
<1>5. ASSUME NEW b \in Blocks, b < low * BLOCKS_PER_ATB PROVE l[b] # "free"
  <2>1. b \in Nat
    BY BlocksNat
  <2>2. b < from * BLOCKS_PER_ATB /\ b < h
    BY <1>1, <1>4, <1>5, <2>1
  <2> QED BY <2>2 DEF Full
<1> QED BY <1>3, <1>5 DEF Full

LEMMA LeastEnd ==
  ASSUME NEW S, S \subseteq Nat, S # {}
  PROVE  Least(S) \in S /\ \A x \in S : Least(S) <= x
<1>1. \E x \in S : \A y \in S : x <= y
  BY NatMin
<1> QED BY <1>1, Zenon DEF Least

(* What gc_alloc finds: a run of free blocks, the first one when it looks for one block. *)
LEMMA FoundFull ==
  ASSUME NEW k, NEW from, Full(k, from), NEW n \in Nat \ {0}, Ends(k, from, n) # {}
  PROVE  LET e == Least(Ends(k, from, n))
         IN  Full(Used(k, n, e), SearchFrom(from, n, e))
<1> DEFINE e == Least(Ends(k, from, n))
           u == Used(k, n, e)
<1>1. Ends(k, from, n) \subseteq Blocks
  BY DEF Ends
<1>2. e \in Ends(k, from, n) /\ \A x \in Ends(k, from, n) : e <= x
  BY <1>1, BlocksNat, LeastEnd, Zenon
<1> HIDE DEF e
<1>3. \A b \in Blocks : u[b] = IF b \in (e - n + 1) .. e
                               THEN IF b = e - n + 1 THEN "head" ELSE "tail" ELSE k[b]
  BY DEF Used
<1>4. \A b \in Blocks : k[b] # "free" => u[b] # "free"
  BY <1>3
<1> SUFFICES Full(u, SearchFrom(from, n, e))
  BY DEF e
<1> HIDE DEF u
<1>5. CASE n # 1
  BY <1>4, <1>5, StillFull DEF SearchFrom
<1>6. CASE n = 1
  <2> DEFINE d == (e + 1) \div BLOCKS_PER_ATB
  <2>1. e \in Nat
    BY <1>1, <1>2, BlocksNat, Zenon
  <2>2. d \in Nat /\ d * BLOCKS_PER_ATB <= e + 1
    BY <2>1, ByteOf
  <2>3. SearchFrom(from, n, e) = d
    BY <1>6 DEF SearchFrom
  <2> HIDE DEF d
  <2>4. ASSUME NEW b \in Blocks, b < d * BLOCKS_PER_ATB PROVE u[b] # "free"
    <3>1. b \in Nat /\ d * BLOCKS_PER_ATB \in Nat /\ from \in Nat /\ from * BLOCKS_PER_ATB \in Nat
      BY <2>2, BlocksNat, TimesMonotone DEF Full
    <3>2. b <= e
      BY <2>1, <2>2, <2>4, <3>1
    <3>3. CASE b = e
      <4>1. e - n + 1 = e
        BY <1>6, <2>1
      <4> QED BY <1>3, <2>1, <3>3, <4>1
    <3>4. CASE b < from * BLOCKS_PER_ATB
      BY <1>4, <3>4 DEF Full
    <3>5. CASE b # e /\ ~(b < from * BLOCKS_PER_ATB)
      <4>1. b \notin Ends(k, from, n)
        BY <1>2, <2>1, <3>1, <3>2, <3>5
      <4>2. b - n + 1 = b /\ b >= from * BLOCKS_PER_ATB /\ \A c \in b .. b : c = b
        BY <1>6, <3>1, <3>5
      <4>3. k[b] # "free"
        BY <4>1, <4>2, Zenon DEF Ends
      <4> QED BY <1>4, <4>3
    <3> QED BY <3>3, <3>4, <3>5
  <2> QED BY <2>2, <2>3, <2>4 DEF Full
<1> QED BY <1>5, <1>6

LEMMA WithoutFrees ==
  ASSUME NEW k, NEW h \in Nat, NEW b \in Blocks, b < h, k[b] # "free"
  PROVE  Without(k, h)[b] # "free"
<1>1. ~(h <= b)
  BY BlocksNat
<1> QED BY <1>1 DEF Without, InChain

LEMMA MovedFull ==
  ASSUME NEW k, NEW from, NEW last, Full(k, from), NEW h \in Blocks, NEW n \in Nat \ {0},
         Ends(k, from, n) # {}, MovedTo(k, from, last, h, n)
  PROVE  Full(kind', lastFree')
<1> DEFINE e == Least(Ends(k, from, n))
           u == Used(k, n, e)
           f == SearchFrom(from, n, e)
<1>1. Full(u, f)
  BY FoundFull
<1>2. kind' = Without(u, h) /\ lastFree' = Lowered(f, h)
  BY DEF MovedTo
<1> HIDE DEF u, f
<1>3. h \in Nat
  BY BlocksNat
<1>4. \A b \in Blocks : b < h /\ u[b] # "free" => Without(u, h)[b] # "free"
  BY <1>3, WithoutFrees
<1> QED BY <1>1, <1>2, <1>3, <1>4, FreedFull

LEMMA StepFull == IInv /\ [Next]_vars => IInv'
<1> SUFFICES ASSUME Full(kind, lastFree), [Next]_vars PROVE Full(kind', lastFree')
  BY DEF IInv
<1>1. ASSUME NEW n \in 1 .. MaxAsk, gc_alloc(n) PROVE Full(kind', lastFree')
  <2>0. n \in Nat \ {0}
    BY GcTableAssumption
  <2>1. CASE AllocFound(n)
    BY <2>0, <2>1, FoundFull DEF AllocFound, Found
  <2>2. ASSUME NEW kept, AllocCollects(n, kept) PROVE Full(kind', lastFree')
    <3> DEFINE k == Swept(kept)
    <3>1. CASE Ends(k, 0, n) # {}
      <4>1. Found(k, 0, SweptLast(k), n)
        BY <2>2, <3>1 DEF AllocCollects
      <4> HIDE DEF k
      <4> QED BY <2>0, <3>1, <4>1, StartFull, FoundFull DEF Found
    <3>2. CASE Ends(k, 0, n) = {}
      <4>1. lastFree' = 0
        BY <2>2, <3>2 DEF AllocCollects
      <4> QED BY <4>1, StartFull
    <3> QED BY <3>1, <3>2
  <2> QED BY <1>1, <2>1, <2>2 DEF gc_alloc
<1>2. ASSUME NEW h \in HeadsOf(kind), gc_free(h) PROVE Full(kind', lastFree')
  <2>1. h \in Nat
    BY BlocksNat DEF HeadsOf
  <2>2. \A b \in Blocks : b < h /\ kind[b] # "free" => kind'[b] # "free"
    BY <1>2, <2>1, WithoutFrees DEF gc_free
  <2> QED BY <1>2, <2>1, <2>2, FreedFull DEF gc_free
<1>3. ASSUME NEW h \in HeadsOf(kind), NEW n \in 1 .. MaxAsk, gc_realloc(h, n)
      PROVE  Full(kind', lastFree')
  <2>0. h \in Blocks /\ h \in Nat /\ n \in Nat \ {0} /\ h + n \in Nat
    BY BlocksNat, GcTableAssumption DEF HeadsOf
  <2>1. CASE ReallocShrinks(h, n)
    <3>1. \A b \in Blocks : b < h + n => ~(b >= h + n)
      BY <2>0, BlocksNat
    <3>2. \A b \in Blocks : b < h + n /\ kind[b] # "free" => kind'[b] # "free"
      BY <2>1, <3>1 DEF ReallocShrinks
    <3>3. lastFree' = Lowered(lastFree, h + n)
      BY <2>1 DEF ReallocShrinks
    <3> QED BY <2>0, <3>2, <3>3, FreedFull
  <2>2. CASE ReallocExpands(h, n)
    <3>1. \A b \in Blocks : kind[b] # "free" => kind'[b] # "free"
      BY <2>2 DEF ReallocExpands
    <3> QED BY <2>2, <3>1, StillFull DEF ReallocExpands
  <2>3. CASE ReallocMoves(h, n)
    <3>1. CASE Ends(kind, lastFree, n) # {}
      BY <2>0, <2>3, <3>1, MovedFull DEF ReallocMoves
    <3>2. CASE Ends(kind, lastFree, n) = {}
      <4>1. PICK kept \in {s \in SUBSET HeadsOf(kind) : h \in s} :
              LET k == Swept(kept)
              IN  IF Ends(k, 0, n) # {} THEN MovedTo(k, 0, SweptLast(k), h, n)
                  ELSE kind' = k /\ lastFree' = 0 /\ lastUsed' = SweptLast(k)
        BY <2>3, <3>2 DEF ReallocMoves
      <4>2. CASE Ends(Swept(kept), 0, n) # {}
        BY <2>0, <4>1, <4>2, StartFull, MovedFull
      <4>3. CASE Ends(Swept(kept), 0, n) = {}
        BY <4>1, <4>3, StartFull
      <4> QED BY <4>2, <4>3
    <3> QED BY <3>1, <3>2
  <2> QED BY <1>3, <2>1, <2>2, <2>3 DEF gc_realloc
<1>4. ASSUME NEW kept, gc_collect(kept) PROVE Full(kind', lastFree')
  BY <1>4, StartFull DEF gc_collect
<1>5. CASE UNCHANGED <<kind, lastFree>>
  BY <1>5
<1> QED BY <1>1, <1>2, <1>3, <1>4, <1>5 DEF Next, vars, gc_lock, gc_unlock

(***************************************************************************)
(* For every size of the heap, no block before the one where gc_alloc      *)
(* starts its search is free, through every allocation, release,           *)
(* reallocation and collection of micropython/py/gc.c.                     *)
(***************************************************************************)
THEOREM SearchMissesNothing == Spec => []NoneFreeBefore
<1>1. Init => IInv
  BY StartFull DEF Init, IInv
<1>2. IInv => NoneFreeBefore
  BY DEF IInv, Full, NoneFreeBefore
<1> QED BY <1>1, <1>2, StepFull, PTL DEF Spec
-----------------------------------------------------------------------------
(***************************************************************************)
(* The other hint.  Of a table k: it is well typed, its tails have owners, *)
(* and its used blocks lie at last or before.                              *)
(***************************************************************************)
Owned(k) == \A b \in Blocks : k[b] = "tail" => b > 0 /\ k[b - 1] # "free"
Covered(k, last) ==
  /\ k \in [Blocks -> Kinds] /\ last \in 0 .. MaxBlock
  /\ Owned(k)
  /\ \A b \in Blocks : k[b] # "free" => b <= last

(* The inductive invariant: UsedWithinSweep, its type invariant included. *)
SInv == Covered(kind, lastUsed) /\ lastFree \in 0 .. Atbs /\ locked \in BOOLEAN

LEMMA BlocksBelow ==
  /\ MaxBlock \in Nat \ {0} /\ Blocks = 0 .. (MaxBlock - 1)
  /\ \A b \in Int : b \in Blocks <=> 0 <= b /\ b < MaxBlock
<1>1. MaxBlock \in Nat \ {0}
  BY GcTableAssumption, SMTT(30) DEF MaxBlock
<1>2. Blocks = 0 .. (MaxBlock - 1)
  BY DEF Blocks, MaxBlock
<1> HIDE DEF MaxBlock
<1> QED BY <1>1, <1>2

LEMMA ByteBound ==
  ASSUME NEW n \in Nat, n <= MaxBlock
  PROVE  n \div BLOCKS_PER_ATB \in 0 .. Atbs
<1> DEFINE d == n \div BLOCKS_PER_ATB
<1>1. d \in Nat /\ d * BLOCKS_PER_ATB <= n
  BY ByteOf
<1> HIDE DEF d
<1>2. d <= Atbs
  <2> SUFFICES ASSUME d >= Atbs + 1 PROVE FALSE
    BY <1>1, GcTableAssumption
  <2>1. Atbs + 1 \in Nat
    BY GcTableAssumption
  <2>2. (Atbs + 1) * BLOCKS_PER_ATB <= d * BLOCKS_PER_ATB
    BY <1>1, <2>1, TimesMonotone
  <2>3. (Atbs + 1) * BLOCKS_PER_ATB = MaxBlock + BLOCKS_PER_ATB
    BY GcTableAssumption, SMTT(30) DEF MaxBlock
  <2>4. d * BLOCKS_PER_ATB \in Nat
    BY <1>1, TimesMonotone
  <2> QED BY <1>1, <2>2, <2>3, <2>4, BlocksBelow, GcTableAssumption
<1> QED BY <1>1, <1>2, GcTableAssumption DEF d

LEMMA LoweredBound ==
  ASSUME NEW from \in 0 .. Atbs, NEW h \in Nat, h <= MaxBlock
  PROVE  Lowered(from, h) \in 0 .. Atbs
  BY ByteBound DEF Lowered, Smaller

(* A bounded set of naturals has a greatest element. *)
LEMMA Greatest ==
  ASSUME NEW S, NEW m \in Nat, S \subseteq 0 .. m, S # {}
  PROVE  \E x \in S : \A y \in S : y <= x
<1> DEFINE T == {m - y : y \in S}
<1>1. T \subseteq Nat /\ T # {}
  <2>1. \A y \in S : m - y \in Nat
    OBVIOUS
  <2> QED BY <2>1, Zenon
<1>2. PICK t \in T : \A u \in T : t <= u
  BY <1>1, NatMin, Zenon
<1>3. PICK x \in S : t = m - x
  BY <1>2
<1>4. ASSUME NEW y \in S PROVE y <= x
  <2>1. m - y \in T
    OBVIOUS
  <2>2. m - x <= m - y
    BY <1>2, <1>3, <2>1, Zenon
  <2>3. x \in Int /\ y \in Int
    OBVIOUS
  <2> HIDE DEF T
  <2> QED BY <2>2, <2>3
<1> QED BY <1>4, Zenon

(* The block behind one of an object is of the object if it is a tail; the *)
(* block before a tail of an object is of the object.                      *)
LEMMA ChainSteps ==
  ASSUME NEW k, NEW h \in Blocks, NEW b \in Blocks, b > 0, k[b] = "tail"
  PROVE  InChain(k, h, b) <=> InChain(k, h, b - 1)
<1>1. b \in Nat /\ h \in Nat
  BY BlocksNat
<1>2. ASSUME InChain(k, h, b - 1) PROVE InChain(k, h, b)
  <2>1. \A c \in (h + 1) .. b : c = b \/ c \in (h + 1) .. (b - 1)
    BY <1>1
  <2> QED BY <1>1, <1>2, <2>1 DEF InChain
<1>3. ASSUME InChain(k, h, b) PROVE InChain(k, h, b - 1)
  <2>1. h # b
    BY <1>3 DEF InChain
  <2>2. \A c \in (h + 1) .. (b - 1) : c \in (h + 1) .. b
    BY <1>1
  <2> QED BY <1>1, <1>3, <2>1, <2>2 DEF InChain
<1> QED BY <1>2, <1>3

(* Freeing the end of an object, from block m on. *)
LEMMA CutCovered ==
  ASSUME NEW k, NEW last, Covered(k, last), NEW h \in Blocks, NEW m \in Nat,
         NEW l, l = [b \in Blocks |-> IF InChain(k, h, b) /\ b >= m THEN "free" ELSE k[b]]
  PROVE  Covered(l, last)
<1>1. l \in [Blocks -> Kinds]
  BY DEF Covered, Kinds
<1>2. ASSUME NEW b \in Blocks, l[b] = "tail" PROVE b > 0 /\ l[b - 1] # "free"
  <2>1. k[b] = "tail" /\ ~(InChain(k, h, b) /\ b >= m)
    BY <1>2
  <2>2. b > 0 /\ k[b - 1] # "free"
    BY <2>1 DEF Covered, Owned
  <2>3. b \in Nat /\ b - 1 \in Blocks
    BY <2>2, BlocksBelow
  <2>4. ~(InChain(k, h, b - 1) /\ b - 1 >= m)
    BY <2>1, <2>2, <2>3, ChainSteps
  <2> QED BY <2>2, <2>3, <2>4
<1>3. \A b \in Blocks : l[b] # "free" => k[b] # "free"
  OBVIOUS
<1> QED BY <1>1, <1>2, <1>3 DEF Covered, Owned

LEMMA WithoutCovered ==
  ASSUME NEW k, NEW last, Covered(k, last), NEW h \in Blocks
  PROVE  Covered(Without(k, h), last)
<1>1. h \in Nat /\ \A b \in Blocks : InChain(k, h, b) => b >= h
  BY BlocksNat DEF InChain
<1>2. Without(k, h) = [b \in Blocks |-> IF InChain(k, h, b) /\ b >= h THEN "free" ELSE k[b]]
  BY <1>1 DEF Without
<1> QED BY <1>1, <1>2, CutCovered
(* Taking a run of free blocks. *)
LEMMA UsedCovered ==
  ASSUME NEW k, NEW last, Covered(k, last), NEW from \in Nat, NEW n \in Nat \ {0},
         NEW e \in Ends(k, from, n)
  PROVE  Covered(Used(k, n, e), Greater(last, e))
<1> DEFINE s == e - n + 1
           u == Used(k, n, e)
<1>0. from * BLOCKS_PER_ATB \in Nat
  BY TimesMonotone
<1>1. e \in Blocks /\ e \in Nat /\ s \in Nat /\ s <= e /\ \A b \in s .. e : k[b] = "free"
  BY <1>0, BlocksNat DEF Ends
<1>2. \A b \in Blocks : u[b] = IF b \in s .. e THEN IF b = s THEN "head" ELSE "tail" ELSE k[b]
  BY DEF Used
<1>3. u \in [Blocks -> Kinds]
  BY DEF Covered, Used, Kinds
<1>4. Greater(last, e) \in 0 .. MaxBlock /\ last <= Greater(last, e) /\ e <= Greater(last, e)
  BY <1>1, BlocksBelow DEF Covered, Greater
<1> HIDE DEF s, u
<1>5. ASSUME NEW b \in Blocks, u[b] = "tail" PROVE b > 0 /\ u[b - 1] # "free"
  <2>1. b \in Nat
    BY BlocksNat
  <2>2. CASE b \in s .. e
    <3>1. b # s
      BY <1>2, <1>5, <2>2
    <3>2. b > 0 /\ b - 1 \in s .. e /\ b - 1 \in Blocks
      BY <1>1, <2>1, <2>2, <3>1, BlocksBelow
    <3> QED BY <1>2, <3>2
  <2>3. CASE b \notin s .. e
    <3>1. k[b] = "tail"
      BY <1>2, <1>5, <2>3
    <3>2. b > 0 /\ k[b - 1] # "free"
      BY <3>1 DEF Covered, Owned
    <3>3. b - 1 \in Blocks /\ b - 1 \notin s .. e
      BY <1>1, <2>1, <3>2, BlocksBelow
    <3> QED BY <1>2, <3>2, <3>3
  <2> QED BY <2>2, <2>3
<1>6. ASSUME NEW b \in Blocks, u[b] # "free" PROVE b <= Greater(last, e)
  <2>1. b \in Nat /\ last \in Nat /\ Greater(last, e) \in Nat
    BY <1>4, BlocksNat DEF Covered
  <2>2. CASE b \in s .. e
    BY <1>1, <1>4, <2>1, <2>2
  <2>3. CASE b \notin s .. e
    <3>1. b <= last
      BY <1>2, <1>6, <2>3 DEF Covered
    <3> QED BY <1>4, <2>1, <3>1
  <2> QED BY <2>2, <2>3
<1>7. Covered(u, Greater(last, e))
  BY <1>3, <1>4, <1>5, <1>6 DEF Covered, Owned
<1> QED BY <1>7 DEF u

(* What gc_alloc takes, and where it will search next. *)
LEMMA TakenCovered ==
  ASSUME NEW k, NEW last, Covered(k, last), NEW from \in 0 .. Atbs, NEW n \in Nat \ {0},
         Ends(k, from, n) # {}
  PROVE  LET e == Least(Ends(k, from, n))
         IN  Covered(Used(k, n, e), Greater(last, e)) /\ SearchFrom(from, n, e) \in 0 .. Atbs
<1> DEFINE e == Least(Ends(k, from, n))
<1>1. Ends(k, from, n) \subseteq Blocks
  BY DEF Ends
<1>2. e \in Ends(k, from, n)
  BY <1>1, BlocksNat, LeastEnd, Zenon
<1> HIDE DEF e
<1>3. Covered(Used(k, n, e), Greater(last, e))
  BY <1>2, UsedCovered, GcTableAssumption
<1>4. e + 1 \in Nat /\ e + 1 <= MaxBlock
  BY <1>1, <1>2, BlocksBelow
<1>5. SearchFrom(from, n, e) \in 0 .. Atbs
  BY <1>4, ByteBound DEF SearchFrom
<1> QED BY <1>3, <1>5 DEF e

(* A sweep that keeps whole objects. *)
LEMMA SweptCovered ==
  ASSUME Covered(kind, lastUsed), NEW kept \in SUBSET HeadsOf(kind)
  PROVE  Covered(Swept(kept), SweptLast(Swept(kept)))
<1> DEFINE k == Swept(kept)
           S == {0} \cup {b \in Blocks : b <= lastUsed /\ k[b] # "free"}
<1>1. \A b \in Blocks : k[b] = IF b <= lastUsed /\ ~ \E h \in kept : InChain(kind, h, b)
                               THEN "free" ELSE kind[b]
  BY DEF Swept
<1>2. k \in [Blocks -> Kinds]
  BY DEF Swept, Covered, Kinds
<1>3. kept \subseteq Blocks
  BY DEF HeadsOf
<1> HIDE DEF k
<1>4. \A b \in Blocks : k[b] # "free" => kind[b] # "free" /\ k[b] = kind[b] /\ b <= lastUsed
  BY <1>1 DEF Covered
<1>5. ASSUME NEW b \in Blocks, k[b] = "tail" PROVE b > 0 /\ k[b - 1] # "free"
  <2>1. kind[b] = "tail" /\ b <= lastUsed
    BY <1>4, <1>5
  <2>2. PICK h \in kept : InChain(kind, h, b)
    BY <1>1, <1>5, <2>1
  <2>3. b > 0 /\ kind[b - 1] # "free"
    BY <2>1 DEF Covered, Owned
  <2>4. b - 1 \in Blocks
    BY <2>3, BlocksBelow
  <2>5. InChain(kind, h, b - 1)
    BY <1>3, <2>1, <2>2, <2>3, ChainSteps
  <2> QED BY <1>1, <2>3, <2>4, <2>5
<1>6. \E x \in S : \A y \in S : y <= x
  <2>1. S \subseteq 0 .. MaxBlock /\ S # {}
    BY BlocksBelow
  <2> HIDE DEF S
  <2> QED BY <2>1, Greatest, BlocksBelow, Zenon
<1>7. SweptLast(k) \in S /\ \A b \in Blocks : b <= lastUsed /\ k[b] # "free" => b <= SweptLast(k)
  BY <1>6, Zenon DEF SweptLast
<1>8. SweptLast(k) \in 0 .. MaxBlock
  BY <1>7, BlocksBelow
<1>9. Covered(k, SweptLast(k))
  BY <1>2, <1>4, <1>5, <1>7, <1>8 DEF Covered, Owned
<1> QED BY <1>9 DEF k

(* The blocks of an object, and how many they are. *)
LEMMA ChainEnd ==
  ASSUME NEW h \in HeadsOf(kind)
  PROVE  /\ ChainLength(h) \in Nat \ {0}
         /\ h + ChainLength(h) - 1 \in Blocks
         /\ InChain(kind, h, h + ChainLength(h) - 1)
<1> DEFINE C == {b \in Blocks : InChain(kind, h, b)}
<1>1. h \in Blocks /\ h \in Nat /\ kind[h] = "head"
  BY BlocksNat DEF HeadsOf
<1>2. h \in C
  BY <1>1 DEF InChain
<1>3. C \subseteq 0 .. MaxBlock /\ MaxBlock \in Nat
  BY BlocksBelow
<1>4. PICK m \in C : \A b \in C : b <= m
  <2> HIDE DEF C
  <2> QED BY <1>2, <1>3, Greatest, Zenon
<1>5. m \in Nat /\ m \in Blocks /\ h <= m
  BY <1>2, <1>4, BlocksNat, Zenon
<1>6. ASSUME NEW b \in h .. m PROVE b \in C
  <2>1. b \in Blocks /\ b \in Nat
    BY <1>1, <1>5, BlocksBelow
  <2>2. \A c \in (h + 1) .. b : c \in (h + 1) .. m
    BY <1>1, <1>5, <2>1
  <2> QED BY <1>1, <1>4, <2>1, <2>2 DEF InChain
<1>7. \A b \in C : b \in h .. m
  BY <1>1, <1>4, <1>5, BlocksNat DEF InChain
<1>8. C = h .. m
  BY <1>6, <1>7
<1>9. Cardinality(h .. m) = m - h + 1
  <2>1. h \in Int /\ m \in Int /\ ~(h > m)
    BY <1>1, <1>5
  <2> QED BY <2>1, FS_Interval
<1>10. ChainLength(h) = m - h + 1
  BY <1>8, <1>9, Zenon DEF ChainLength
<1> QED BY <1>1, <1>4, <1>5, <1>10
(* Growing an object into the free blocks behind it. *)
LEMMA ExpandCovered ==
  ASSUME SInv, NEW h \in HeadsOf(kind), NEW n \in Nat \ {0}, ReallocExpands(h, n)
  PROVE  Covered(kind', lastUsed')
<1> DEFINE len == ChainLength(h)
<1>1. len \in Nat \ {0} /\ h + len - 1 \in Blocks /\ InChain(kind, h, h + len - 1)
  BY ChainEnd
<1>2. h \in Nat /\ h \in Blocks /\ kind[h] = "head"
  BY BlocksNat DEF HeadsOf
<1>3. /\ n > len /\ h + n <= MaxBlock
      /\ kind' = [b \in Blocks |-> IF b \in (h + len) .. (h + n - 1) THEN "tail" ELSE kind[b]]
      /\ lastUsed' = Greater(lastUsed, h + n)
  BY DEF ReallocExpands, Fits, Raised
<1> HIDE DEF len
<1>4. kind[h + len - 1] # "free"
  <2>1. CASE len = 1
    BY <1>2, <2>1
  <2>2. CASE len # 1
    <3>1. h + len - 1 \in (h + 1) .. (h + len - 1)
      BY <1>1, <1>2, <2>2
    <3> QED BY <1>1, <3>1 DEF InChain
  <2> QED BY <2>1, <2>2
<1>5. kind' \in [Blocks -> Kinds]
  BY <1>3 DEF SInv, Covered, Kinds
<1>6. lastUsed \in Nat /\ lastUsed' \in 0 .. MaxBlock /\ lastUsed <= lastUsed' /\ h + n <= lastUsed'
  BY <1>2, <1>3, BlocksBelow DEF SInv, Covered, Greater
<1>7. ASSUME NEW b \in Blocks, kind'[b] = "tail" PROVE b > 0 /\ kind'[b - 1] # "free"
  <2>1. b \in Nat
    BY BlocksNat
  <2>2. b > 0 /\ (kind[b - 1] # "free" \/ b - 1 \in (h + len) .. (h + n - 1))
    <3>1. CASE b = h + len
      BY <1>1, <1>2, <1>4, <3>1
    <3>2. CASE b \in (h + len) .. (h + n - 1) /\ b # h + len
      BY <1>1, <1>2, <2>1, <3>2, SMTT(60)
    <3>3. CASE b \notin (h + len) .. (h + n - 1)
      <4>1. kind[b] = "tail"
        BY <1>3, <1>7, <3>3
      <4> QED BY <4>1 DEF SInv, Covered, Owned
    <3> QED BY <3>1, <3>2, <3>3
  <2>3. b - 1 \in Blocks
    BY <2>1, <2>2, BlocksBelow
  <2> QED BY <1>3, <2>2, <2>3
<1>8. ASSUME NEW b \in Blocks, kind'[b] # "free" PROVE b <= lastUsed'
  <2>1. b \in Nat
    BY BlocksNat
  <2>2. CASE b \in (h + len) .. (h + n - 1)
    BY <1>2, <1>6, <2>1, <2>2
  <2>3. CASE b \notin (h + len) .. (h + n - 1)
    <3>1. b <= lastUsed
      BY <1>3, <1>8, <2>3 DEF SInv, Covered
    <3> QED BY <1>6, <2>1, <3>1
  <2> QED BY <2>2, <2>3
<1> QED BY <1>5, <1>6, <1>7, <1>8 DEF Covered, Owned

LEMMA MovedCovered ==
  ASSUME NEW k, NEW last, Covered(k, last), NEW from \in 0 .. Atbs, NEW h \in Blocks,
         NEW n \in Nat \ {0}, Ends(k, from, n) # {}, MovedTo(k, from, last, h, n)
  PROVE  Covered(kind', lastUsed') /\ lastFree' \in 0 .. Atbs
<1> DEFINE e == Least(Ends(k, from, n))
           u == Used(k, n, e)
           g == Greater(last, e)
           f == SearchFrom(from, n, e)
<1>1. Covered(u, g) /\ f \in 0 .. Atbs
  BY TakenCovered
<1>2. kind' = Without(u, h) /\ lastUsed' = g /\ lastFree' = Lowered(f, h)
  BY DEF MovedTo
<1> HIDE DEF u, g, f
<1>3. h \in Nat /\ h <= MaxBlock
  BY BlocksBelow
<1> QED BY <1>1, <1>2, <1>3, WithoutCovered, LoweredBound

LEMMA StepCovered == SInv /\ [Next]_vars => SInv'
<1> SUFFICES ASSUME SInv, [Next]_vars PROVE SInv'
  OBVIOUS
<1> DEFINE Goal == Covered(kind', lastUsed') /\ lastFree' \in 0 .. Atbs
<1>0. Covered(kind, lastUsed) /\ lastFree \in 0 .. Atbs /\ 0 \in 0 .. Atbs
  BY GcTableAssumption DEF SInv
<1>1. ASSUME NEW n \in 1 .. MaxAsk, gc_alloc(n) PROVE Goal
  <2>0. n \in Nat \ {0}
    BY GcTableAssumption
  <2>1. CASE AllocFound(n)
    BY <1>0, <2>0, <2>1, TakenCovered DEF AllocFound, Found
  <2>2. ASSUME NEW kept \in SUBSET HeadsOf(kind), AllocCollects(n, kept) PROVE Goal
    <3> DEFINE k == Swept(kept)
    <3>1. Covered(k, SweptLast(k))
      BY <1>0, SweptCovered
    <3>2. IF Ends(k, 0, n) # {} THEN Found(k, 0, SweptLast(k), n)
          ELSE kind' = k /\ lastFree' = 0 /\ lastUsed' = SweptLast(k)
      BY <2>2 DEF AllocCollects
    <3> HIDE DEF k
    <3> QED BY <1>0, <2>0, <3>1, <3>2, TakenCovered DEF Found
  <2> QED BY <1>1, <2>1, <2>2 DEF gc_alloc
<1>2. ASSUME NEW h \in HeadsOf(kind), gc_free(h) PROVE Goal
  <2>1. h \in Blocks /\ h \in Nat /\ h <= MaxBlock
    BY BlocksBelow DEF HeadsOf
  <2> QED BY <1>0, <1>2, <2>1, WithoutCovered, LoweredBound DEF gc_free
<1>3. ASSUME NEW h \in HeadsOf(kind), NEW n \in 1 .. MaxAsk, gc_realloc(h, n) PROVE Goal
  <2>0. h \in Blocks /\ h \in Nat /\ n \in Nat \ {0} /\ h + n \in Nat
    BY BlocksNat, GcTableAssumption DEF HeadsOf
  <2>1. CASE ReallocShrinks(h, n)
    <3>1. h + n <= MaxBlock
      BY <2>0, <2>1, ChainEnd, BlocksBelow DEF ReallocShrinks
    <3>2. Covered(kind', lastUsed')
      BY <1>0, <2>0, <2>1, CutCovered, Zenon DEF ReallocShrinks
    <3>3. lastFree' \in 0 .. Atbs
      BY <1>0, <2>0, <2>1, <3>1, LoweredBound DEF ReallocShrinks
    <3> QED BY <3>2, <3>3
  <2>2. CASE ReallocExpands(h, n)
    BY <1>0, <2>0, <2>2, ExpandCovered DEF ReallocExpands
  <2>3. CASE ReallocMoves(h, n)
    <3>1. CASE Ends(kind, lastFree, n) # {}
      BY <1>0, <2>0, <2>3, <3>1, MovedCovered DEF ReallocMoves
    <3>2. CASE Ends(kind, lastFree, n) = {}
      <4>1. PICK kept \in {s \in SUBSET HeadsOf(kind) : h \in s} :
              LET k == Swept(kept)
              IN  IF Ends(k, 0, n) # {} THEN MovedTo(k, 0, SweptLast(k), h, n)
                  ELSE kind' = k /\ lastFree' = 0 /\ lastUsed' = SweptLast(k)
        BY <2>3, <3>2 DEF ReallocMoves
      <4>2. Covered(Swept(kept), SweptLast(Swept(kept)))
        BY <1>0, SweptCovered
      <4>3. CASE Ends(Swept(kept), 0, n) # {}
        BY <1>0, <2>0, <4>1, <4>2, <4>3, MovedCovered
      <4>4. CASE Ends(Swept(kept), 0, n) = {}
        BY <1>0, <4>1, <4>2, <4>4
      <4> QED BY <4>3, <4>4
    <3> QED BY <3>1, <3>2
  <2> QED BY <1>3, <2>1, <2>2, <2>3 DEF gc_realloc
<1>4. ASSUME NEW kept \in SUBSET HeadsOf(kind), gc_collect(kept) PROVE Goal
  BY <1>0, <1>4, SweptCovered DEF gc_collect
<1>5. ASSUME UNCHANGED <<kind, lastFree, lastUsed>> PROVE Goal
  <2>1. kind' = kind /\ lastFree' = lastFree /\ lastUsed' = lastUsed
    BY <1>5
  <2>2. Covered(kind', lastUsed')
    BY <1>0, <2>1, Zenon
  <2>3. lastFree' \in 0 .. Atbs
    BY <1>0, <2>1
  <2> QED BY <2>2, <2>3
<1>6. Goal
  <2>1. CASE gc_lock \/ gc_unlock \/ UNCHANGED vars
    <3>1. UNCHANGED <<kind, lastFree, lastUsed>>
      BY <2>1 DEF gc_lock, gc_unlock, vars
    <3> QED BY <1>5, <3>1
  <2> HIDE DEF Goal
  <2> QED BY <1>1, <1>2, <1>3, <1>4, <2>1 DEF Next
<1>7. locked' \in BOOLEAN
  BY Zenon DEF SInv, Next, vars, gc_lock, gc_unlock, gc_alloc, AllocFound, AllocCollects, gc_free,
     gc_realloc, ReallocShrinks, ReallocExpands, ReallocMoves, gc_collect
<1> QED BY <1>6, <1>7 DEF SInv

(***************************************************************************)
(* For every size of the heap, every used block of the table belongs to an *)
(* object and lies at gc_last_used_block or before, so that the sweep of   *)
(* micropython/py/gc.c reaches every object and frees whole objects.       *)
(***************************************************************************)
THEOREM SweepReachesAll == Spec => []UsedWithinSweep
<1>1. Init => SInv
  <2> SUFFICES ASSUME Init PROVE SInv
    OBVIOUS
  <2>1. \A b \in Blocks : kind[b] = "free"
    BY DEF Init
  <2>2. kind \in [Blocks -> Kinds]
    BY DEF Init, Kinds
  <2>3. lastUsed \in 0 .. MaxBlock /\ lastFree \in 0 .. Atbs
    BY BlocksBelow, GcTableAssumption DEF Init
  <2> QED BY <2>1, <2>2, <2>3, Zenon DEF Init, SInv, Covered, Owned
<1>2. SInv => UsedWithinSweep
  BY DEF SInv, Covered, Owned, UsedWithinSweep, TypeOK, TailsOwned
<1> QED BY <1>1, <1>2, StepCovered, PTL DEF Spec
=============================================================================
