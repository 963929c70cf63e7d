------------------------------- MODULE MCElf -------------------------------
(***************************************************************************)
(* Words of three bits, a file of two bytes and two segments: addresses    *)
(* and file positions both wrap.                                           *)
(***************************************************************************)
EXTENDS Elf

MCHeaders ==
  [p_offset : {0, 1, 2, 7}, p_filesz : {0, 1, 2, 7}, p_vaddr : {0, 1, 2, 4, 5, 7},
   p_memsz : {0, 1, 2, 3, 7}, p_align : {0, 2, 3}]
=============================================================================
