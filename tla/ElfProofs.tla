------------------------------ MODULE ElfProofs -----------------------------
(***************************************************************************)
(* The loader copies inside the file and inside its block, and the image   *)
(* it leaves there is the one the headers ask for, for every word size,    *)
(* file and set of program headers.                                        *)
(***************************************************************************)
EXTENDS Elf, SequenceTheorems, TLAPS

(* Sums modulo Word: a carry shows as a sum below its first term. *)
LEMMA ModOfSmall ==
  ASSUME NEW n \in Nat, n < Word
  PROVE  n % Word = n
  BY ElfAssumption, SMTT(30)

LEMMA ModOfCarry ==
  ASSUME NEW n \in Nat, Word <= n, n < 2 * Word
  PROVE  n % Word = n - Word
  BY ElfAssumption, SMTT(30)

LEMMA NoCarry ==
  ASSUME NEW a \in Values, NEW b \in Values, ~add_overflow_u64(a, b)
  PROVE  add(a, b) = a + b /\ a + b < Word
<1>1. a \in Nat /\ b \in Nat /\ a < Word /\ b < Word /\ a + b \in Nat /\ Word \in Nat
  BY ElfAssumption DEF Values
<1>2. CASE a + b < Word
  BY <1>1, <1>2, ModOfSmall DEF add
<1>3. CASE ~(a + b < Word)
  <2>1. (a + b) % Word = (a + b) - Word
    BY <1>1, <1>3, ModOfCarry
  <2>2. (a + b) - Word < a
    BY <1>1
  <2> QED BY <2>1, <2>2 DEF add_overflow_u64, add
<1> QED BY <1>2, <1>3

(***************************************************************************)
(* The inductive invariant: RangeCovers ties the range that the loop of    *)
(* inspect_load_range has gathered to the headers it has accepted, and the *)
(* block has the size of the range.                                        *)
(***************************************************************************)
IInv ==
  /\ TypeOK /\ RangeCovers
  /\ stage = "copy" => DOMAIN base = 0 .. (LoadSize - 1)

LEMMA HeaderValues ==
  ASSUME NEW h \in Headers
  PROVE  /\ h.p_offset \in Values /\ h.p_filesz \in Values
         /\ h.p_vaddr \in Values /\ h.p_memsz \in Values
  BY ElfAssumption DEF Values

LEMMA InitInv == Init => IInv
  BY ElfAssumption DEF Init, IInv, TypeOK, RangeCovers, Values

LEMMA InspectInv ==
  ASSUME NEW h \in Headers PROVE IInv /\ inspect_header(h) => IInv'
<1> SUFFICES ASSUME IInv, inspect_header(h) PROVE IInv'
  OBVIOUS
<1>1. stage = "inspect" /\ UNCHANGED <<i, base>> /\ TypeOK /\ RangeCovers
  BY DEF IInv, inspect_header
<1>2. CASE ~ValidHeader(h)
  BY <1>1, <1>2 DEF IInv, inspect_header, TypeOK, RangeCovers
<1>3. CASE ValidHeader(h)
  <2> DEFINE last == Len(ph) + 1
  <2>1. /\ ph' = Append(ph, h) /\ stage' = stage
        /\ min_vaddr' = IF h.p_vaddr < min_vaddr THEN h.p_vaddr ELSE min_vaddr
        /\ max_vaddr' = IF add(h.p_vaddr, h.p_memsz) > max_vaddr
                        THEN add(h.p_vaddr, h.p_memsz) ELSE max_vaddr
    BY <1>3 DEF inspect_header
  <2>2. /\ h.p_offset \in 0 .. (Word - 1) /\ h.p_filesz \in 0 .. (Word - 1)
        /\ h.p_vaddr \in 0 .. (Word - 1) /\ h.p_memsz \in 0 .. (Word - 1)
        /\ min_vaddr \in 0 .. (Word - 1) /\ max_vaddr \in 0 .. (Word - 1)
        /\ Word \in Nat
    BY <1>1, HeaderValues, ElfAssumption DEF TypeOK, Values
  <2>3. /\ h.p_offset + h.p_filesz <= FileSize /\ h.p_filesz <= h.p_memsz
        /\ add(h.p_vaddr, h.p_memsz) = h.p_vaddr + h.p_memsz
        /\ h.p_vaddr + h.p_memsz < Word
    BY <1>3, HeaderValues, NoCarry DEF ValidHeader
  <2>4. /\ min_vaddr' \in 0 .. (Word - 1) /\ max_vaddr' \in 0 .. (Word - 1)
        /\ min_vaddr' <= min_vaddr /\ max_vaddr <= max_vaddr'
        /\ min_vaddr' <= h.p_vaddr /\ h.p_vaddr + h.p_memsz <= max_vaddr'
    <3> DEFINE v == h.p_vaddr  e == add(h.p_vaddr, h.p_memsz)
    <3>1. /\ v \in 0 .. (Word - 1) /\ e \in 0 .. (Word - 1) /\ h.p_vaddr + h.p_memsz = e
          /\ min_vaddr' = IF v < min_vaddr THEN v ELSE min_vaddr
          /\ max_vaddr' = IF e > max_vaddr THEN e ELSE max_vaddr
      BY <2>1, <2>2, <2>3
    <3>2. h.p_vaddr = v
      OBVIOUS
    <3> HIDE DEF v, e
    <3> QED BY <2>2, <3>1, <3>2
  <2>5. /\ ph' \in Seq(Headers) /\ Len(ph) \in Nat
        /\ DOMAIN ph = 1 .. Len(ph) /\ DOMAIN ph' = 1 .. last
        /\ ph'[last] = h /\ \A k \in 1 .. Len(ph) : ph'[k] = ph[k]
    BY <1>1, <2>1, AppendProperties, LenProperties DEF TypeOK
  <2>6. TypeOK'
    BY <1>1, <2>1, <2>4, <2>5 DEF TypeOK, Values
  <2>7. RangeCovers'
    <3> SUFFICES ASSUME NEW k \in DOMAIN ph'
                 PROVE  /\ ph'[k].p_offset + ph'[k].p_filesz <= FileSize
                        /\ ph'[k].p_filesz <= ph'[k].p_memsz
                        /\ min_vaddr' <= ph'[k].p_vaddr
                        /\ ph'[k].p_vaddr + ph'[k].p_memsz <= max_vaddr'
      BY DEF RangeCovers
    <3>1. CASE k = last
      BY <2>3, <2>4, <2>5, <3>1
    <3>2. CASE k # last
      <4>1. k \in DOMAIN ph /\ ph'[k] = ph[k] /\ ph[k] \in Headers
        BY <1>1, <2>5, <3>2, ElementOfSeq DEF TypeOK
      <4>2. /\ ph[k].p_vaddr \in 0 .. (Word - 1) /\ ph[k].p_memsz \in 0 .. (Word - 1)
        BY <4>1, HeaderValues DEF Values
      <4>3. /\ ph[k].p_offset + ph[k].p_filesz <= FileSize
            /\ ph[k].p_filesz <= ph[k].p_memsz
            /\ min_vaddr <= ph[k].p_vaddr
            /\ ph[k].p_vaddr + ph[k].p_memsz <= max_vaddr
        BY <1>1, <4>1 DEF RangeCovers
      <4> QED BY <2>2, <2>4, <4>1, <4>2, <4>3
    <3> QED BY <3>1, <3>2
  <2> QED BY <1>1, <2>1, <2>6, <2>7 DEF IInv
<1> QED BY <1>2, <1>3

(* Inside the range an address has its offset in the block, without carry. *)
LEMMA InsideFits ==
  ASSUME IInv, stage = "copy", NEW k \in DOMAIN ph
  PROVE  /\ Refits(ph[k])
         /\ Target(ph[k]) \subseteq DOMAIN base
         /\ ph[k].p_offset + ph[k].p_filesz <= FileSize
<1> DEFINE h == ph[k]
<1>1. h \in Headers
  BY ElementOfSeq, LenProperties DEF IInv, TypeOK
<1>2. /\ h.p_filesz \in 0 .. (Word - 1) /\ h.p_memsz \in 0 .. (Word - 1)
      /\ h.p_vaddr \in 0 .. (Word - 1)
      /\ min_vaddr \in 0 .. (Word - 1) /\ max_vaddr \in 0 .. (Word - 1) /\ Word \in Nat
  BY <1>1, HeaderValues, ElfAssumption DEF IInv, TypeOK, Values
<1>3. /\ h.p_offset + h.p_filesz <= FileSize /\ h.p_filesz <= h.p_memsz
      /\ min_vaddr <= h.p_vaddr /\ h.p_vaddr + h.p_memsz <= max_vaddr
  BY DEF IInv, RangeCovers
<1> HIDE DEF h
<1>4. dest_off(h) = h.p_vaddr - min_vaddr
  <2>1. h.p_vaddr - min_vaddr \in Nat /\ h.p_vaddr - min_vaddr < Word
    BY <1>2, <1>3
  <2> QED BY <2>1, ModOfSmall DEF dest_off
<1>5. Refits(h)
  BY <1>2, <1>3, <1>4 DEF Refits, LoadSize
<1>6. Target(h) \subseteq 0 .. (LoadSize - 1)
  BY <1>2, <1>3, <1>4 DEF Target, LoadSize
<1>7. DOMAIN base = 0 .. (LoadSize - 1)
  BY DEF IInv
<1> QED BY <1>3, <1>5, <1>6, <1>7 DEF h

LEMMA CopyInv == IInv /\ copy_segment => IInv'
<1> SUFFICES ASSUME IInv, copy_segment PROVE IInv'
  OBVIOUS
<1>1. stage = "copy" /\ UNCHANGED <<ph, min_vaddr, max_vaddr>> /\ LoadSize' = LoadSize
  BY DEF copy_segment, LoadSize
<1>2. CASE Refits(ph[i])
  <2>1. base' = Copied(base, ph[i]) /\ i' = i + 1 /\ stage' = stage
    BY <1>2 DEF copy_segment
  <2>2. DOMAIN base' = DOMAIN base
    BY <2>1 DEF Copied
  <2> QED BY <1>1, <2>1, <2>2 DEF IInv, TypeOK, RangeCovers
<1>3. CASE ~Refits(ph[i])
  BY <1>1, <1>3 DEF copy_segment, IInv, TypeOK, RangeCovers
<1> QED BY <1>2, <1>3

LEMMA OtherInv ==
  IInv /\ ((\E e \in Values : allocate_image(e)) \/ finish_load \/ UNCHANGED vars) => IInv'
<1>1. ASSUME IInv, NEW e \in Values, allocate_image(e) PROVE IInv'
  <2>1. UNCHANGED <<ph, min_vaddr, max_vaddr, i>> /\ LoadSize' = LoadSize
    BY <1>1 DEF allocate_image, LoadSize
  <2>2. CASE base' = [o \in 0 .. (LoadSize - 1) |-> Zero] /\ stage' = "copy"
    BY <1>1, <2>1, <2>2 DEF IInv, TypeOK, RangeCovers
  <2>3. CASE stage' = "refused"
    BY <1>1, <2>1, <2>3 DEF IInv, TypeOK, RangeCovers
  <2> QED BY <1>1, <2>2, <2>3 DEF allocate_image
<1>2. ASSUME IInv, finish_load PROVE IInv'
  BY <1>2 DEF IInv, finish_load, TypeOK, RangeCovers
<1>3. ASSUME IInv, UNCHANGED vars PROVE IInv'
  BY <1>3 DEF IInv, vars, TypeOK, RangeCovers, LoadSize
<1> QED BY <1>1, <1>2, <1>3

(***************************************************************************)
(* Every memcpy of elf_load_process_image stays inside the file and inside *)
(* the block, whatever 64-bit values the program headers hold.             *)
(***************************************************************************)
THEOREM CopiesSafe == Spec => []CopiesStayInside
<1>1. IInv /\ [Next]_vars => IInv'
  BY InspectInv, CopyInv, OtherInv DEF Next
<1>2. IInv => CopiesStayInside
  <2> SUFFICES ASSUME IInv, stage = "copy", NEW k \in i .. Len(ph)
               PROVE  /\ Refits(ph[k])
                      /\ Target(ph[k]) \subseteq DOMAIN base
                      /\ ph[k].p_offset + ph[k].p_filesz <= FileSize
    BY DEF CopiesStayInside
  <2>1. k \in DOMAIN ph
    BY LenProperties DEF IInv, TypeOK
  <2> QED BY <2>1, InsideFits
<1> QED BY InitInv, <1>1, <1>2, PTL DEF Spec

-----------------------------------------------------------------------------
(* The image.  The addresses of a header's bytes in the file. *)
FileBytes(h) == h.p_vaddr .. (h.p_vaddr + h.p_filesz - 1)

(***************************************************************************)
(* What the block holds while the headers before i have been copied: the   *)
(* bytes of the file where one of them has any, zero everywhere else.      *)
(***************************************************************************)
CopiedBefore(b, n) ==
  \A o \in 0 .. (LoadSize - 1) :
    /\ \A k \in 1 .. (n - 1) : min_vaddr + o \in FileBytes(ph[k]) =>
         b[o] = ph[k].p_offset + ((min_vaddr + o) - ph[k].p_vaddr)
    /\ (\A k \in 1 .. (n - 1) : min_vaddr + o \notin FileBytes(ph[k])) => b[o] = Zero

ImageInv ==
  /\ IInv
  /\ stage = "inspect" => i = 1
  /\ stage = "copy" => i <= Len(ph) + 1 /\ (Disjoint => CopiedBefore(base, i))
  /\ stage = "loaded" /\ Disjoint => CopiedBefore(base, Len(ph) + 1)

(* A header that was accepted, by itself. *)
LEMMA AcceptedHeader ==
  ASSUME IInv, NEW k \in 1 .. Len(ph)
  PROVE  /\ ph[k].p_filesz \in Nat /\ ph[k].p_memsz \in Nat /\ ph[k].p_vaddr \in Nat
         /\ ph[k].p_offset \in Nat /\ min_vaddr \in Nat /\ max_vaddr \in Nat
         /\ min_vaddr <= ph[k].p_vaddr /\ ph[k].p_vaddr + ph[k].p_memsz <= max_vaddr
         /\ ph[k].p_filesz <= ph[k].p_memsz /\ ph[k].p_vaddr < Word
<1> DEFINE h == ph[k]
<1>1. k \in DOMAIN ph /\ h \in Headers
  BY ElementOfSeq, LenProperties DEF IInv, TypeOK
<1>2. /\ h.p_filesz \in 0 .. (Word - 1) /\ h.p_memsz \in 0 .. (Word - 1)
      /\ h.p_vaddr \in 0 .. (Word - 1) /\ h.p_offset \in 0 .. (Word - 1)
      /\ min_vaddr \in 0 .. (Word - 1) /\ max_vaddr \in 0 .. (Word - 1) /\ Word \in Nat
  BY <1>1, HeaderValues, ElfAssumption DEF IInv, TypeOK, Values
<1>3. /\ min_vaddr <= h.p_vaddr /\ h.p_vaddr + h.p_memsz <= max_vaddr /\ h.p_filesz <= h.p_memsz
  BY <1>1 DEF IInv, RangeCovers
<1> HIDE DEF h
<1>4. h.p_filesz \in Nat /\ h.p_memsz \in Nat /\ h.p_vaddr \in Nat /\ h.p_offset \in Nat
      /\ min_vaddr \in Nat /\ max_vaddr \in Nat /\ h.p_vaddr < Word
  BY <1>2
<1> QED BY <1>3, <1>4 DEF h

LEMMA FileInSegment ==
  ASSUME IInv, NEW k \in 1 .. Len(ph), NEW a \in Int
  PROVE  /\ a \in FileBytes(ph[k]) => a \in Segment(ph[k])
         /\ a \in Segment(ph[k]) => (a \in FileBytes(ph[k]) <=> a - ph[k].p_vaddr < ph[k].p_filesz)
<1> DEFINE v == ph[k].p_vaddr  f == ph[k].p_filesz  m == ph[k].p_memsz
<1>1. v \in Nat /\ f \in Nat /\ m \in Nat /\ f <= m
  BY AcceptedHeader
<1>2. /\ a \in FileBytes(ph[k]) <=> v <= a /\ a <= (v + f) - 1
      /\ a \in Segment(ph[k]) <=> v <= a /\ a <= (v + m) - 1
  <2>1. FileBytes(ph[k]) = v .. ((v + f) - 1) /\ Segment(ph[k]) = v .. ((v + m) - 1)
    <3>1. v + f - 1 = (v + f) - 1 /\ v + m - 1 = (v + m) - 1
      <4> HIDE DEF v, f, m
      <4> QED BY <1>1
    <3>2. FileBytes(ph[k]) = v .. (v + f - 1) /\ Segment(ph[k]) = v .. (v + m - 1)
      BY Zenon DEF FileBytes, Segment
    <3> QED BY <3>1, <3>2, Zenon
  <2> HIDE DEF v, f, m
  <2> QED BY <1>1, <2>1
<1> SUFFICES /\ a \in FileBytes(ph[k]) => a \in Segment(ph[k])
             /\ a \in Segment(ph[k]) => (a \in FileBytes(ph[k]) <=> a - v < f)
  OBVIOUS
<1> HIDE DEF v, f, m
<1>3. /\ v <= a /\ a <= (v + f) - 1 => v <= a /\ a <= (v + m) - 1
      /\ v <= a /\ a <= (v + m) - 1 => (v <= a /\ a <= (v + f) - 1 <=> a - v < f)
  BY <1>1
<1> QED BY <1>2, <1>3

(* One memcpy writes the bytes of its header where they belong. *)
LEMMA CopiedBytes ==
  ASSUME IInv, stage = "copy", NEW k \in 1 .. Len(ph), NEW o \in 0 .. (LoadSize - 1)
  PROVE  Copied(base, ph[k])[o] =
           IF min_vaddr + o \in FileBytes(ph[k])
           THEN ph[k].p_offset + ((min_vaddr + o) - ph[k].p_vaddr) ELSE base[o]
<1> DEFINE h == ph[k]
<1>1. /\ h.p_filesz \in Nat /\ h.p_vaddr \in Nat /\ h.p_offset \in Nat /\ min_vaddr \in Nat
      /\ min_vaddr <= h.p_vaddr /\ h.p_vaddr < Word
  BY AcceptedHeader
<1>2. o \in DOMAIN base /\ o \in Int
  BY DEF IInv
<1> HIDE DEF h
<1>3. dest_off(h) = h.p_vaddr - min_vaddr
  <2>1. h.p_vaddr - min_vaddr \in Nat /\ h.p_vaddr - min_vaddr < Word
    BY <1>1, ElfAssumption
  <2> QED BY <2>1, ModOfSmall DEF dest_off
<1>4. o \in Target(h) <=> min_vaddr + o \in FileBytes(h)
  <2> DEFINE v == h.p_vaddr  f == h.p_filesz
  <2>1. /\ Target(h) = dest_off(h) .. (dest_off(h) + f - 1)
        /\ FileBytes(h) = v .. (v + f - 1)
    BY Zenon DEF Target, FileBytes
  <2>2. dest_off(h) = v - min_vaddr /\ v \in Int /\ f \in Int /\ min_vaddr \in Int
    BY <1>1, <1>3
  <2> HIDE DEF v, f
  <2> QED BY <1>2, <2>1, <2>2
<1>5. h.p_offset + (o - dest_off(h)) = h.p_offset + ((min_vaddr + o) - h.p_vaddr)
  BY <1>1, <1>2, <1>3
<1>6. Copied(base, h)[o] = IF o \in Target(h) THEN h.p_offset + (o - dest_off(h)) ELSE base[o]
  BY <1>2 DEF Copied
<1> QED BY <1>4, <1>5, <1>6 DEF h

LEMMA CopyExtends ==
  ASSUME IInv, stage = "copy", i \in 1 .. Len(ph), Disjoint, CopiedBefore(base, i)
  PROVE  CopiedBefore(Copied(base, ph[i]), i + 1)
<1> DEFINE new == Copied(base, ph[i])
           byte(k, o) == ph[k].p_offset + ((min_vaddr + o) - ph[k].p_vaddr)
<1>1. Len(ph) \in Nat /\ DOMAIN ph = 1 .. Len(ph) /\ i \in Nat /\ (i + 1) - 1 = i
  BY LenProperties DEF IInv, TypeOK
<1> SUFFICES ASSUME NEW o \in 0 .. (LoadSize - 1)
             PROVE  /\ \A k \in 1 .. i : min_vaddr + o \in FileBytes(ph[k]) => new[o] = byte(k, o)
                    /\ (\A k \in 1 .. i : min_vaddr + o \notin FileBytes(ph[k])) => new[o] = Zero
  BY <1>1 DEF CopiedBefore
<1>2. new[o] = IF min_vaddr + o \in FileBytes(ph[i]) THEN byte(i, o) ELSE base[o]
  BY CopiedBytes
<1>3. /\ \A k \in 1 .. (i - 1) : min_vaddr + o \in FileBytes(ph[k]) => base[o] = byte(k, o)
      /\ (\A k \in 1 .. (i - 1) : min_vaddr + o \notin FileBytes(ph[k])) => base[o] = Zero
  BY DEF CopiedBefore
<1>4. min_vaddr + o \in Int
  BY AcceptedHeader
<1> HIDE DEF new, byte
<1>5. ASSUME NEW k \in 1 .. (i - 1), min_vaddr + o \in FileBytes(ph[k])
      PROVE  min_vaddr + o \notin FileBytes(ph[i])
  <2>1. k \in 1 .. Len(ph) /\ k # i
    BY <1>1
  <2>2. Segment(ph[k]) \cap Segment(ph[i]) = {}
    BY <1>1, <2>1 DEF Disjoint
  <2>3. min_vaddr + o \in Segment(ph[k])
    BY <1>4, <1>5, <2>1, FileInSegment
  <2>4. min_vaddr + o \in FileBytes(ph[i]) => min_vaddr + o \in Segment(ph[i])
    BY <1>4, FileInSegment
  <2> QED BY <2>2, <2>3, <2>4
<1>6. 1 .. i = (1 .. (i - 1)) \cup {i}
  BY <1>1
<1>7. ASSUME NEW k \in 1 .. i, min_vaddr + o \in FileBytes(ph[k])
      PROVE  new[o] = byte(k, o)
  <2>1. CASE k = i
    BY <1>2, <1>7, <2>1
  <2>2. CASE k \in 1 .. (i - 1)
    BY <1>2, <1>3, <1>5, <1>7, <2>2
  <2> QED BY <1>6, <2>1, <2>2
<1>8. ASSUME \A k \in 1 .. i : min_vaddr + o \notin FileBytes(ph[k])
      PROVE  new[o] = Zero
  BY <1>2, <1>3, <1>6, <1>8
<1> QED BY <1>7, <1>8

LEMMA ImageInit == Init => ImageInv
  BY InitInv DEF Init, ImageInv

LEMMA ImageStep == ImageInv /\ [Next]_vars => ImageInv'
<1> SUFFICES ASSUME ImageInv, [Next]_vars PROVE ImageInv'
  OBVIOUS
<1>1. IInv /\ IInv'
  BY InspectInv, CopyInv, OtherInv DEF Next, ImageInv
<1>2. ASSUME NEW h \in Headers, inspect_header(h) PROVE ImageInv'
  BY <1>1, <1>2 DEF inspect_header, ImageInv
<1>3. ASSUME NEW e \in Values, allocate_image(e) PROVE ImageInv'
  <2>1. UNCHANGED <<ph, min_vaddr, max_vaddr, i>> /\ stage = "inspect" /\ i = 1 /\ Len(ph) \in Nat
    BY <1>1, <1>3, LenProperties DEF allocate_image, ImageInv, IInv, TypeOK
  <2>2. CASE base' = [o \in 0 .. (LoadSize - 1) |-> Zero] /\ stage' = "copy"
    <3>1. CopiedBefore(base', 1)
      BY <2>2 DEF CopiedBefore
    <3>2. CopiedBefore(base, i)'
      BY <2>1, <3>1 DEF CopiedBefore, LoadSize, FileBytes
    <3> QED BY <1>1, <2>1, <2>2, <3>2 DEF ImageInv
  <2>3. CASE stage' = "refused"
    BY <1>1, <2>3 DEF ImageInv
  <2> QED BY <1>3, <2>2, <2>3 DEF allocate_image
<1>4. ASSUME copy_segment PROVE ImageInv'
  <2>1. /\ stage = "copy" /\ UNCHANGED <<ph, min_vaddr, max_vaddr>> /\ Len(ph) \in Nat
        /\ i \in 1 .. Len(ph)
    BY <1>1, <1>4, LenProperties DEF copy_segment, IInv, TypeOK
  <2>2. CASE Refits(ph[i])
    <3>1. base' = Copied(base, ph[i]) /\ i' = i + 1 /\ stage' = "copy"
      BY <1>4, <2>2 DEF copy_segment
    <3>2. Disjoint' <=> Disjoint
      BY <2>1 DEF Disjoint, Segment
    <3>3. ASSUME Disjoint PROVE CopiedBefore(base, i)'
      <4>1. CopiedBefore(base', i + 1)
        BY <1>1, <2>1, <3>1, <3>3, CopyExtends DEF ImageInv
      <4> QED BY <2>1, <3>1, <4>1 DEF CopiedBefore, LoadSize, FileBytes
    <3>4. i' <= Len(ph') + 1
      BY <2>1, <3>1
    <3> QED BY <1>1, <3>1, <3>2, <3>3, <3>4 DEF ImageInv
  <2>3. CASE ~Refits(ph[i])
    BY <1>1, <1>4, <2>3 DEF copy_segment, ImageInv
  <2> QED BY <2>2, <2>3
<1>5. ASSUME finish_load PROVE ImageInv'
  <2>1. /\ stage = "copy" /\ stage' = "loaded" /\ UNCHANGED <<ph, min_vaddr, max_vaddr, base>>
        /\ Len(ph) \in Nat /\ i \in Nat /\ i > Len(ph) /\ i <= Len(ph) + 1
    BY <1>1, <1>5, LenProperties DEF finish_load, ImageInv, IInv, TypeOK
  <2>2. i = Len(ph) + 1
    BY <2>1
  <2>3. Disjoint => CopiedBefore(base, Len(ph) + 1)
    BY <2>1, <2>2 DEF ImageInv
  <2>4. Disjoint' => CopiedBefore(base, Len(ph) + 1)'
    BY <2>1, <2>3 DEF Disjoint, Segment, CopiedBefore, LoadSize, FileBytes
  <2> QED BY <1>1, <2>1, <2>4 DEF ImageInv
<1>6. ASSUME UNCHANGED vars PROVE ImageInv'
  <2>1. UNCHANGED <<ph, min_vaddr, max_vaddr, stage, i, base>>
    BY <1>6 DEF vars
  <2>2. Disjoint' <=> Disjoint
    BY <2>1 DEF Disjoint, Segment
  <2>3. (CopiedBefore(base, i)' <=> CopiedBefore(base, i))
    BY <2>1 DEF CopiedBefore, LoadSize, FileBytes
  <2>4. (CopiedBefore(base, Len(ph) + 1)' <=> CopiedBefore(base, Len(ph) + 1))
    BY <2>1 DEF CopiedBefore, LoadSize, FileBytes
  <2> QED BY <1>1, <2>1, <2>2, <2>3, <2>4 DEF ImageInv
<1> QED BY <1>2, <1>3, <1>4, <1>5, <1>6 DEF Next

(***************************************************************************)
(* The image that elf_load_process_image hands to the new process is what  *)
(* the headers of a file with disjoint segments ask for: every byte of the *)
(* file is at its address, and all the rest of the block, the tails of the *)
(* segments and the gaps between them, is zero.                            *)
(***************************************************************************)
THEOREM ImageLoaded == Spec => []ImageAsAsked
<1>1. ImageInv => ImageAsAsked
  <2> SUFFICES ASSUME ImageInv, stage = "loaded", Disjoint,
                      NEW a \in min_vaddr .. (max_vaddr - 1)
               PROVE  base[a - min_vaddr] = Wanted(a)
    BY DEF ImageAsAsked
  <2> DEFINE o == a - min_vaddr
             inside == {k \in DOMAIN ph : a \in Segment(ph[k])}
             k0 == CHOOSE k \in inside : TRUE
  <2>1. IInv /\ Len(ph) \in Nat /\ DOMAIN ph = 1 .. Len(ph) /\ (Len(ph) + 1) - 1 = Len(ph)
    BY LenProperties DEF ImageInv, IInv, TypeOK
  <2>2. min_vaddr \in Nat /\ max_vaddr \in Nat /\ a \in Int
    BY <2>1, ElfAssumption DEF IInv, TypeOK, Values
  <2>3. o \in 0 .. (LoadSize - 1) /\ min_vaddr + o = a
    BY <2>2 DEF LoadSize
  <2>4. /\ \A k \in DOMAIN ph : a \in FileBytes(ph[k]) =>
             base[o] = ph[k].p_offset + (a - ph[k].p_vaddr)
        /\ (\A k \in DOMAIN ph : a \notin FileBytes(ph[k])) => base[o] = Zero
    <3> HIDE DEF o
    <3> QED BY <2>1, <2>3 DEF ImageInv, CopiedBefore
  <2>5. \A k \in DOMAIN ph :
          /\ a \in FileBytes(ph[k]) => a \in Segment(ph[k])
          /\ a \in Segment(ph[k]) =>
               (a \in FileBytes(ph[k]) <=> a - ph[k].p_vaddr < ph[k].p_filesz)
    BY <2>1, <2>2, FileInSegment
  <2>6. Wanted(a) = IF inside = {} THEN Zero
                    ELSE IF a - ph[k0].p_vaddr < ph[k0].p_filesz
                         THEN ph[k0].p_offset + (a - ph[k0].p_vaddr) ELSE Zero
    BY DEF Wanted
  <2> HIDE DEF o
  <2>7. ASSUME inside = {} PROVE base[o] = Wanted(a)
    <3>1. \A k \in DOMAIN ph : a \notin FileBytes(ph[k])
      BY <2>5, <2>7
    <3>2. Wanted(a) = Zero
      BY <2>7 DEF Wanted
    <3> QED BY <2>4, <3>1, <3>2
  <2>8. ASSUME inside # {} PROVE base[o] = Wanted(a)
    <3>1. k0 \in DOMAIN ph /\ a \in Segment(ph[k0])
      BY <2>8
    <3> HIDE DEF k0
    <3>2. Wanted(a) = IF a - ph[k0].p_vaddr < ph[k0].p_filesz
                      THEN ph[k0].p_offset + (a - ph[k0].p_vaddr) ELSE Zero
      BY <2>6, <2>8
    <3> HIDE DEF inside
    <3>3. ASSUME NEW k \in DOMAIN ph, a \in FileBytes(ph[k]) PROVE k = k0
      BY <2>5, <3>1, <3>3 DEF Disjoint
    <3>4. CASE a \in FileBytes(ph[k0])
      <4>1. a - ph[k0].p_vaddr < ph[k0].p_filesz
        BY <2>5, <3>1, <3>4
      <4>2. base[o] = ph[k0].p_offset + (a - ph[k0].p_vaddr)
        BY <2>4, <3>1, <3>4
      <4> QED BY <3>2, <4>1, <4>2
    <3>5. CASE a \notin FileBytes(ph[k0])
      <4>1. ~(a - ph[k0].p_vaddr < ph[k0].p_filesz)
        BY <2>5, <3>1, <3>5
      <4>2. base[o] = Zero
        BY <2>4, <3>3, <3>5
      <4> QED BY <3>2, <4>1, <4>2
    <3> QED BY <3>4, <3>5
  <2> QED BY <2>7, <2>8 DEF o
<1> QED BY ImageInit, ImageStep, <1>1, PTL DEF Spec
=============================================================================
