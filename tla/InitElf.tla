------------------------------ MODULE InitElf ------------------------------
(***************************************************************************)
(* How kernel_main loads init/kernel/init.elf: it copies the whole file to *)
(* MODULE_BASE_ADDR, then each PT_LOAD segment to its place relative to    *)
(* the first one, and clears what no file byte fills.                      *)
(*                                                                         *)
(* The files are those a linker makes: the first segment starts at offset  *)
(* 0 and so holds the headers (which the loop reads from the copy), later  *)
(* ones follow it in the file and in memory without overlap.  Byte k of    *)
(* the file is the number k; Old is whatever the memory held before.       *)
(***************************************************************************)
EXTENDS Integers, Sequences, FiniteSetsExt

CONSTANTS
  MemSize,    \* bytes of memory from MODULE_BASE_ADDR on that are looked at
  SizeMax     \* bound on init_size

Zero == -1
Old == -2

VARIABLES ph, init_size, p, max_size, base, stage

vars == <<ph, init_size, p, max_size, base, stage>>

(* Offsets are relative to the first segment's address: off. *)
Segments == [p_offset : 0 .. SizeMax, p_filesz : 0 .. SizeMax, off : 0 .. MemSize, p_memsz : 1 .. MemSize]

FileEnd(h) == h.p_offset + h.p_filesz
MemEnd(h) == h.off + h.p_memsz

WellFormed(h) == h.p_filesz <= h.p_memsz /\ FileEnd(h) <= init_size /\ MemEnd(h) <= MemSize

Init ==
  /\ init_size \in 1 .. SizeMax
  /\ \E text, data \in {h \in Segments : WellFormed(h)} :
       /\ text.p_offset = 0 /\ text.off = 0 /\ text.p_filesz > 0
       /\ FileEnd(text) <= data.p_offset /\ MemEnd(text) <= data.off
       /\ ph = <<text, data>>
  /\ p = 1 /\ max_size = 0 /\ stage = "copy"
  /\ base = [o \in 0 .. (MemSize - 1) |-> Old]

Written(b, from, to, byte) == [o \in DOMAIN b |-> IF from <= o /\ o < to THEN byte[o] ELSE b[o]]
Cleared == [o \in 0 .. (MemSize - 1) |-> Zero]

copy_file ==
  /\ stage = "copy"
  /\ base' = Written(base, 0, init_size, [o \in DOMAIN base |-> o])
  /\ stage' = "segments"
  /\ UNCHANGED <<ph, init_size, p, max_size>>

load_segment ==
  /\ stage = "segments" /\ p <= Len(ph)
  /\ LET h == ph[p]
         filled == Written(base, h.off, h.off + h.p_filesz, [o \in DOMAIN base |-> h.p_offset + (o - h.off)])
     IN  /\ base' = Written(filled, h.off + h.p_filesz, MemEnd(h), Cleared)
         /\ max_size' = Max({max_size, MemEnd(h)})
  /\ p' = p + 1
  /\ UNCHANGED <<ph, init_size, stage>>

clear_rest ==
  /\ stage = "segments" /\ p > Len(ph)
  /\ base' = Written(base, init_size, max_size, Cleared)
  /\ stage' = "enter"
  /\ UNCHANGED <<ph, init_size, p, max_size>>

Next == copy_file \/ load_segment \/ clear_rest

Spec == Init /\ [][Next]_vars

-----------------------------------------------------------------------------
(***************************************************************************)
(* When the program is entered each of its segments is in memory as the    *)
(* file has it, and the rest of the segment is zero ("Load each PT_LOAD    *)
(* segment and zero BSS", kernel/main.c:480).  It is not: the last memset  *)
(* clears from the end of the FILE on, and with it the data of a segment   *)
(* that lies further up in memory than the file is long.                   *)
(***************************************************************************)
SegmentsLoaded ==
  stage = "enter" =>
    \A k \in DOMAIN ph : \A o \in ph[k].off .. (MemEnd(ph[k]) - 1) :
      base[o] = IF o - ph[k].off < ph[k].p_filesz THEN ph[k].p_offset + (o - ph[k].off) ELSE Zero
=============================================================================
