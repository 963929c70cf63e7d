------------------------------ MODULE Handles ------------------------------
(***************************************************************************)
(* What the descriptors of kernel/proc.c promise their owner: a descriptor *)
(* names the file it was opened for until its owner closes it, reuses its  *)
(* number or exits, whatever other processes do meanwhile.  Descriptors    *)
(* opened by SYS_VFS_OPEN belong to nobody and last until SYS_VFS_CLOSE.   *)
(* The promise ends, for everybody, when one open file gets two names or   *)
(* is closed behind its owner's back.                                      *)
(***************************************************************************)
CONSTANTS Procs, Numbers, Files, Nothing

VARIABLES
  names,      \* process -> number -> the file it names, or Nothing
  loose,      \* descriptor of SYS_VFS_OPEN -> the file it names, or Nothing
  void        \* the promise has ended

AllFree == [n \in Numbers |-> Nothing]

HandlesInit ==
  /\ names = [p \in Procs |-> AllFree]
  /\ loose \in [DOMAIN loose -> {Nothing}]
  /\ void = FALSE

(* One number of one process comes to name a file, or stops naming one. *)
Open(p, n, f) ==
  /\ names[p][n] = Nothing
  /\ names' = [names EXCEPT ![p][n] = f]
  /\ UNCHANGED loose

Close(p, n) ==
  /\ names[p][n] # Nothing
  /\ names' = [names EXCEPT ![p][n] = Nothing]
  /\ UNCHANGED loose

Exit(p) == names' = [names EXCEPT ![p] = AllFree] /\ UNCHANGED loose

LooseOpen(s, f) == loose[s] = Nothing /\ loose' = [loose EXCEPT ![s] = f] /\ UNCHANGED names
LooseClose(s) == loose[s] # Nothing /\ loose' = [loose EXCEPT ![s] = Nothing] /\ UNCHANGED names

Kept ==
  \/ \E p \in Procs :
       \/ Exit(p)
       \/ \E n \in Numbers : Close(p, n) \/ \E f \in Files : Open(p, n, f)
  \/ \E s \in DOMAIN loose : LooseClose(s) \/ \E f \in Files : LooseOpen(s, f)

HandlesNext == (Kept /\ UNCHANGED void) \/ void' = TRUE

HandlesSpec == HandlesInit /\ [][HandlesNext]_<<names, loose, void>>
=============================================================================
