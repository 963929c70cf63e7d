------------------------------- MODULE MCFat -------------------------------
(***************************************************************************)
(* A volume of three data clusters with two files and two descriptors,     *)
(* looked at from two sides: one on which no file is changed behind        *)
(* another descriptor, with transfers that start and end inside clusters,  *)
(* and one on which anything may happen, to whole clusters of files that   *)
(* have two between them.  States outside both are checked but not         *)
(* continued.                                                              *)
(*                                                                         *)
(* Which files were changed matters only as far as whether one was.        *)
(***************************************************************************)
EXTENDS Fat, TLC

CONSTANTS f, g

MCNames == {f, g}
MCFlags == {{}, {"CREAT", "WRITE"}, {"CREAT", "TRUNC", "WRITE"}, {"APPEND", "WRITE"}}

Undisturbed == shared = {}
Whole == {0, ClusterSize, 2 * ClusterSize}
WholeClusters ==
  /\ \A e \in Entries : e.size \in Whole
  /\ MapThenSumSet(LAMBDA n : dir[n].size, DOMAIN dir) <= 2 * ClusterSize
  /\ \A fd \in OpenFds : LET of == open_files[fd] IN of.write /\ {of.size, of.pos} \subseteq Whole
OneSide == Undisturbed \/ WholeClusters

Volume == <<fat, dir, open_files, Undisturbed>>
Renaming == Permutations(MCNames)
=============================================================================
