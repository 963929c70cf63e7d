-------------------------------- MODULE Elf --------------------------------
(***************************************************************************)
(* The loader of userland executables, kernel/elf.c: elf_validate and      *)
(* elf_load_process_image, with 64-bit arithmetic as arithmetic modulo     *)
(* Word.  The program headers are any the file may hold; the loop over     *)
(* them reads one after the other.  Of the file's bytes only the position  *)
(* matters: byte k of the file is the number k, and Zero is a cleared      *)
(* byte.                                                                   *)
(*                                                                         *)
(* Abstracted: the fields of the ELF header that must have one given value,*)
(* p_flags, and headers other than PT_LOAD, which both loops skip.         *)
(***************************************************************************)
EXTENDS Integers, Sequences

CONSTANTS
  Word,       \* 2^64
  FileSize,
  LoadMax,    \* ELF_MAX_LOAD_SIZE
  Headers,    \* the PT_LOAD headers a file may hold
  PhMax       \* bound on the number of headers

ASSUME ElfAssumption ==
  /\ Word \in Nat \ {0} /\ FileSize \in 0 .. (Word - 1) /\ LoadMax \in 0 .. (Word - 1)
  /\ PhMax \in Nat
  /\ \A h \in Headers : {h.p_offset, h.p_filesz, h.p_vaddr, h.p_memsz, h.p_align} \subseteq 0 .. (Word - 1)

Values == 0 .. (Word - 1)
Zero == -1

VARIABLES
  ph,           \* the program headers inspected so far
  min_vaddr, max_vaddr,
  stage,        \* "inspect", "copy", "loaded" or "refused"
  i,            \* the header to be copied next
  base          \* the block allocated for the image: offset -> byte

vars == <<ph, min_vaddr, max_vaddr, stage, i, base>>

Init ==
  /\ ph = <<>>
  /\ min_vaddr = Word - 1 /\ max_vaddr = 0
  /\ stage = "inspect" /\ i = 1 /\ base = <<>>

-----------------------------------------------------------------------------
add(a, b) == (a + b) % Word

\* Mutant: adds without looking for a carry out of the word.
NeverOverflows(a, b) == FALSE
add_overflow_u64(a, b) == add(a, b) < a

(* p_align & (p_align - 1) is zero for powers of two only. *)
IsPowerOfTwo(a) == \E k \in 0 .. a : a = 2 ^ k

ValidHeader(h) ==
  /\ h.p_memsz # 0 /\ h.p_filesz <= h.p_memsz
  /\ ~add_overflow_u64(h.p_offset, h.p_filesz)
  /\ add(h.p_offset, h.p_filesz) <= FileSize
  /\ ~add_overflow_u64(h.p_vaddr, h.p_memsz)
  /\ h.p_align # 0 => IsPowerOfTwo(h.p_align)
  /\ h.p_align > 1 => (h.p_vaddr - h.p_offset) % h.p_align = 0

(* One turn of the loop of inspect_load_range. *)
inspect_header(h) ==
  /\ stage = "inspect" /\ Len(ph) < PhMax
  /\ IF ValidHeader(h)
     THEN /\ ph' = Append(ph, h)
          /\ min_vaddr' = IF h.p_vaddr < min_vaddr THEN h.p_vaddr ELSE min_vaddr
          /\ max_vaddr' = IF add(h.p_vaddr, h.p_memsz) > max_vaddr
                          THEN add(h.p_vaddr, h.p_memsz) ELSE max_vaddr
          /\ UNCHANGED stage
     ELSE stage' = "refused" /\ UNCHANGED <<ph, min_vaddr, max_vaddr>>
  /\ UNCHANGED <<i, base>>

(* The end of inspect_load_range, and the allocation of the image. *)
LoadSize == max_vaddr - min_vaddr
ValidRange(e_entry) ==
  /\ ph # <<>>
  /\ min_vaddr <= e_entry /\ e_entry < max_vaddr
  /\ max_vaddr > min_vaddr /\ LoadSize <= LoadMax

allocate_image(e_entry) ==
  /\ stage = "inspect"
  /\ \/ /\ ValidRange(e_entry)
        /\ base' = [o \in 0 .. (LoadSize - 1) |-> Zero]
        /\ stage' = "copy"
     \/ stage' = "refused" /\ UNCHANGED base     \* as is when proc_alloc fails
  /\ UNCHANGED <<ph, min_vaddr, max_vaddr, i>>

(* One turn of the copying loop; memcpy writes at the offsets Target(h). *)
dest_off(h) == (h.p_vaddr - min_vaddr) % Word
Target(h) == dest_off(h) .. (dest_off(h) + h.p_filesz - 1)

\* Mutant: places the segment by its position in the file.
CopiedAsInFile(b, h) ==
  [o \in DOMAIN b |-> IF o \in h.p_offset .. (h.p_offset + h.p_filesz - 1) THEN o ELSE b[o]]
Copied(b, h) ==
  [o \in DOMAIN b |-> IF o \in Target(h) THEN h.p_offset + (o - dest_off(h)) ELSE b[o]]

Refits(h) == dest_off(h) <= LoadSize /\ h.p_memsz <= LoadSize - dest_off(h)

copy_segment ==
  /\ stage = "copy" /\ i <= Len(ph)
  /\ IF Refits(ph[i])
     THEN base' = Copied(base, ph[i]) /\ i' = i + 1 /\ UNCHANGED stage
     ELSE stage' = "refused" /\ base' = <<>> /\ UNCHANGED i
  /\ UNCHANGED <<ph, min_vaddr, max_vaddr>>

finish_load ==
  /\ stage = "copy" /\ i > Len(ph)
  /\ stage' = "loaded"
  /\ UNCHANGED <<ph, min_vaddr, max_vaddr, i, base>>

Next ==
  \/ \E h \in Headers : inspect_header(h)
  \/ \E e_entry \in Values : allocate_image(e_entry)
  \/ copy_segment \/ finish_load

Spec == Init /\ [][Next]_vars

-----------------------------------------------------------------------------
TypeOK ==
  /\ ph \in Seq(Headers)
  /\ min_vaddr \in Values /\ max_vaddr \in Values
  /\ stage \in {"inspect", "copy", "loaded", "refused"}
  /\ i \in Nat \ {0}

(* The headers accepted so far lie, without wrapping, inside the range. *)
RangeCovers ==
  \A k \in DOMAIN ph :
    /\ ph[k].p_offset + ph[k].p_filesz <= FileSize
    /\ ph[k].p_filesz <= ph[k].p_memsz
    /\ min_vaddr <= ph[k].p_vaddr
    /\ ph[k].p_vaddr + ph[k].p_memsz <= max_vaddr

(***************************************************************************)
(* Whatever the headers say, every memcpy of elf_load_process_image reads  *)
(* inside the file and writes inside the block it allocated: the checks    *)
(* for carries of inspect_load_range are enough, and the second check of   *)
(* the range, in the copying loop, never has anything to refuse.           *)
(***************************************************************************)
CopiesStayInside ==
  stage = "copy" =>
    \A k \in i .. Len(ph) :
      /\ Refits(ph[k])
      /\ Target(ph[k]) \subseteq DOMAIN base
      /\ ph[k].p_offset + ph[k].p_filesz <= FileSize

(***************************************************************************)
(* The image of a file whose segments do not overlap is what its headers   *)
(* ask for: at every address of a segment the byte of the file while there *)
(* are any, then zero, and zero between segments.                          *)
(***************************************************************************)
Segment(h) == h.p_vaddr .. (h.p_vaddr + h.p_memsz - 1)
Disjoint == \A j, k \in DOMAIN ph : j # k => Segment(ph[j]) \cap Segment(ph[k]) = {}

Wanted(a) ==
  LET inside == {k \in DOMAIN ph : a \in Segment(ph[k])}
  IN  IF inside = {} THEN Zero
      ELSE LET h == ph[CHOOSE k \in inside : TRUE]
           IN  IF a - h.p_vaddr < h.p_filesz THEN h.p_offset + (a - h.p_vaddr) ELSE Zero

ImageAsAsked ==
  stage = "loaded" /\ Disjoint =>
    \A a \in min_vaddr .. (max_vaddr - 1) : base[a - min_vaddr] = Wanted(a)
=============================================================================
