-------------------------- MODULE ProcFilesProofs ---------------------------
(***************************************************************************)
(* Descriptors, for every number of processes, numbers and slots: proc.c   *)
(* leaks no slot, and without duplicates and careless closes the two       *)
(* tables implement Handles.                                               *)
(***************************************************************************)
EXTENDS ProcFiles, WellFoundedInduction, TLAPS

(* A set of naturals has a least element, by well-foundedness of <. *)
LEMMA NatMin ==
  ASSUME NEW S \in SUBSET Nat, S # {}
  PROVE  \E x \in S : \A y \in S : x <= y
<1>1. IsWellFoundedOn(OpToRel(<, Nat), Nat)
  BY NatLessThanWellFounded
<1>2. PICK x \in S : \A y \in S : ~(<<y, x>> \in OpToRel(<, Nat))
  BY <1>1, WFMin
<1>3. \A y \in S : ~(y < x)
  BY <1>2 DEF OpToRel
<1> QED BY <1>3

LEMMA FirstFreeSlot ==
  ASSUME FreeSlots # {}
  PROVE  Min(FreeSlots) \in Slots /\ open_files[Min(FreeSlots)] = Nothing
<1>1. FreeSlots \in SUBSET Nat
  BY DEF FreeSlots, Slots
<1>2. \E x \in FreeSlots : \A y \in FreeSlots : x <= y
  BY <1>1, NatMin
<1>3. Min(FreeSlots) \in FreeSlots
  BY <1>2, Zenon DEF Min
<1> QED BY <1>3 DEF FreeSlots

LEMMA FirstFreeNumber ==
  ASSUME NEW p, FreeNumbers(p) # {}
  PROVE  Min(FreeNumbers(p)) \in Numbers /\ fds[p][Min(FreeNumbers(p))] < 0
<1>1. FreeNumbers(p) \in SUBSET Nat
  BY DEF FreeNumbers, Numbers
<1>2. \E x \in FreeNumbers(p) : \A y \in FreeNumbers(p) : x <= y
  BY <1>1, NatMin
<1>3. Min(FreeNumbers(p)) \in FreeNumbers(p)
  BY <1>2, Zenon DEF Min
<1> QED BY <1>3 DEF FreeNumbers

(***************************************************************************)
(* No slot is leaked, with duplicates and careless closes.                 *)
(***************************************************************************)
(* SlotsAccounted, without the set Named. *)
Holder(s) == \E p \in alive, n \in Numbers : fds[p][n] = s
Accounted == \A s \in Slots : open_files[s] # Nothing => Holder(s) \/ s \in by_call

LEMMA AccountedIs == Accounted <=> SlotsAccounted
<1>1. \A s \in Slots : s # -1
  BY DEF Slots
<1>2. \A s \in Slots : s \in Named <=> Holder(s)
  BY <1>1 DEF Named, Holder
<1> QED BY <1>2 DEF Accounted, SlotsAccounted

IInv == TypeOK /\ Accounted

LEMMA InitInv == Init => IInv
<1> SUFFICES ASSUME Init PROVE IInv
  OBVIOUS
<1>1. TypeOK
  BY DEF Init, TypeOK, Unused
<1>2. Accounted
  BY DEF Init, Accounted
<1> QED BY <1>1, <1>2 DEF IInv

LEMMA StepInv == IInv /\ [Next]_vars => IInv'
<1> SUFFICES ASSUME IInv, [Next]_vars PROVE IInv'
  OBVIOUS
<1>0. TypeOK /\ Accounted
  BY DEF IInv
<1>1. ASSUME NEW p \in Procs, proc_create(p) PROVE IInv'
  <2>1. TypeOK'
    BY <1>0, <1>1 DEF TypeOK, proc_create, Unused
  <2>2. Accounted'
    BY <1>0, <1>1 DEF TypeOK, Accounted, Holder, proc_create
  <2> QED BY <2>1, <2>2 DEF IInv
<1>2. ASSUME NEW p \in Procs, proc_exit(p) PROVE IInv'
  <2>1. TypeOK'
    BY <1>0, <1>2 DEF TypeOK, proc_exit, Release, Unused
  <2>2. Accounted'
    <3> SUFFICES ASSUME NEW s \in Slots, open_files'[s] # Nothing, s \notin by_call'
                 PROVE  Holder(s)'
      BY DEF Accounted
    <3>1. /\ s \notin {fds[p][n] : n \in Numbers} /\ open_files[s] # Nothing
          /\ s \notin by_call
      BY <1>0, <1>2 DEF TypeOK, proc_exit, Release
    <3>2. PICK q \in alive, n \in Numbers : fds[q][n] = s
      BY <1>0, <3>1 DEF Accounted, Holder
    <3>3. q # p
      BY <3>1, <3>2
    <3>4. q \in alive' /\ fds'[q] = fds[q]
      BY <1>0, <1>2, <3>3 DEF TypeOK, proc_exit
    <3> QED BY <3>2, <3>4 DEF Holder
  <2> QED BY <2>1, <2>2 DEF IInv
<1>3. ASSUME NEW p \in Procs, NEW file \in Files, proc_open(p, file) PROVE IInv'
  <2> DEFINE slot == Min(FreeSlots)
             m == Min(FreeNumbers(p))
  <2>1. slot \in Slots /\ open_files[slot] = Nothing
    BY <1>3, FirstFreeSlot DEF proc_open
  <2>2. CASE FreeNumbers(p) = {}
    <3>1. open_files' = Release([open_files EXCEPT ![slot] = file], {slot})
          /\ UNCHANGED <<alive, fds, by_call>>
      BY <1>3, <2>2 DEF proc_open, UnwantedSlot
    <3>2. open_files' = open_files
      BY <1>0, <2>1, <3>1 DEF Release, TypeOK
    <3> QED BY <1>0, <3>1, <3>2, Zenon DEF IInv, TypeOK, Accounted, Holder
  <2>3. CASE FreeNumbers(p) # {}
    <3> HIDE DEF slot, m
    <3>1. m \in Numbers /\ fds[p][m] < 0
      BY <2>3, FirstFreeNumber DEF m
    <3>2. /\ open_files' = [open_files EXCEPT ![slot] = file] /\ p \in alive
          /\ fds' = [fds EXCEPT ![p][m] = slot] /\ UNCHANGED <<alive, by_call>>
      BY <1>3, <2>3 DEF proc_open, slot, m
    <3>3. TypeOK'
      BY <1>0, <2>1, <3>1, <3>2 DEF TypeOK
    <3>4. fds'[p][m] = slot /\ \A q \in Procs, n \in Numbers : fds[q][n] >= 0 => fds'[q][n] = fds[q][n]
      BY <1>0, <3>1, <3>2 DEF TypeOK, Slots
    <3>5. Accounted'
      <4> SUFFICES ASSUME NEW s \in Slots, open_files'[s] # Nothing, s \notin by_call'
                   PROVE  Holder(s)'
        BY DEF Accounted
      <4>1. CASE s = slot
        BY <3>1, <3>2, <3>4, <4>1 DEF Holder
      <4>2. CASE s # slot
        <5>1. Holder(s)
          BY <1>0, <3>2, <4>2 DEF TypeOK, Accounted
        <5>2. s >= 0 /\ alive \subseteq Procs
          BY <1>0 DEF Slots, TypeOK
        <5> QED BY <3>2, <3>4, <5>1, <5>2 DEF Holder
      <4> QED BY <4>1, <4>2
    <3> QED BY <3>3, <3>5 DEF IInv
  <2> QED BY <2>2, <2>3
<1>4. ASSUME NEW p \in Procs, NEW k \in Numbers, proc_close(p, k) PROVE IInv'
  <2>0. /\ fds' = [fds EXCEPT ![p][k] = -1] /\ open_files' = Release(open_files, {fds[p][k]})
        /\ by_call' = by_call \ {fds[p][k]} /\ alive' = alive
    BY <1>4 DEF proc_close, NumberFreed
  <2>1. TypeOK'
    BY <1>0, <2>0 DEF TypeOK, Release
  <2>2. Accounted'
    <3> SUFFICES ASSUME NEW s \in Slots, open_files'[s] # Nothing, s \notin by_call'
                 PROVE  Holder(s)'
      BY DEF Accounted
    <3>1. s # fds[p][k] /\ open_files[s] # Nothing /\ s \notin by_call
      BY <2>0 DEF Release
    <3>2. PICK q \in alive, n \in Numbers : fds[q][n] = s
      BY <1>0, <3>1 DEF Accounted, Holder
    <3>3. fds'[q][n] = s
      BY <1>0, <2>0, <3>1, <3>2 DEF TypeOK
    <3> QED BY <2>0, <3>2, <3>3 DEF Holder
  <2> QED BY <2>1, <2>2 DEF IInv
<1>5. ASSUME NEW p \in Procs, NEW k \in Numbers, proc_dup(p, k) PROVE IInv'
  <2> DEFINE m == Min(FreeNumbers(p))
  <2>1. m \in Numbers /\ fds[p][m] < 0
    BY <1>5, FirstFreeNumber DEF proc_dup
  <2>2. fds' = [fds EXCEPT ![p][m] = fds[p][k]] /\ UNCHANGED <<alive, open_files, by_call>>
    BY <1>5 DEF proc_dup
  <2> HIDE DEF m
  <2>3. TypeOK'
    BY <1>0, <2>1, <2>2 DEF TypeOK
  <2>4. \A q \in Procs, n \in Numbers : fds[q][n] >= 0 => fds'[q][n] = fds[q][n]
    BY <1>0, <2>1, <2>2 DEF TypeOK, Slots
  <2>5. \A s \in Slots : s >= 0
    BY DEF Slots
  <2>6. Accounted'
    BY <1>0, <2>2, <2>4, <2>5 DEF Accounted, Holder, TypeOK
  <2> QED BY <2>3, <2>6 DEF IInv
<1>6. ASSUME NEW p \in Procs, NEW old \in Numbers, NEW new \in Numbers, proc_dup2(p, old, new)
      PROVE  IInv'
  <2> DEFINE gone == Replaced(p, old, new)
  <2>0. /\ open_files' = Release(open_files, gone) /\ by_call' = by_call \ gone
        /\ fds' = [fds EXCEPT ![p][new] = fds[p][old]] /\ alive' = alive
    BY <1>6 DEF proc_dup2
  <2>1. TypeOK'
    BY <1>0, <2>0 DEF TypeOK, Release
  <2>2. Accounted'
    <3> SUFFICES ASSUME NEW s \in Slots, open_files'[s] # Nothing, s \notin by_call'
                 PROVE  Holder(s)'
      BY DEF Accounted
    <3>1. s \notin gone /\ open_files[s] # Nothing /\ s \notin by_call
      BY <2>0 DEF Release
    <3>2. PICK q \in alive, n \in Numbers : fds[q][n] = s
      BY <1>0, <3>1 DEF Accounted, Holder
    <3>3. q \in Procs /\ s # -1
      BY <1>0 DEF TypeOK, Slots
    <3>4. CASE q = p /\ n = new
      <4>1. s = fds[p][old]
        BY <3>1, <3>2, <3>3, <3>4 DEF Replaced
      <4>2. fds'[p][new] = s
        BY <1>0, <2>0, <4>1 DEF TypeOK
      <4> QED BY <2>0, <3>2, <3>4, <4>2 DEF Holder
    <3>5. CASE ~(q = p /\ n = new)
      <4>1. fds'[q][n] = s
        BY <1>0, <2>0, <3>2, <3>3, <3>5 DEF TypeOK
      <4> QED BY <2>0, <3>2, <4>1 DEF Holder
    <3> QED BY <3>4, <3>5
  <2> QED BY <2>1, <2>2 DEF IInv
<1>7. ASSUME NEW file \in Files, SYS_VFS_OPEN(file) PROVE IInv'
  <2> DEFINE slot == Min(FreeSlots)
  <2>1. slot \in Slots /\ open_files[slot] = Nothing
    BY <1>7, FirstFreeSlot DEF SYS_VFS_OPEN
  <2>2. /\ open_files' = [open_files EXCEPT ![slot] = file]
        /\ by_call' = by_call \cup {slot} /\ UNCHANGED <<alive, fds>>
    BY <1>7 DEF SYS_VFS_OPEN
  <2> HIDE DEF slot
  <2> QED BY <1>0, <2>1, <2>2 DEF IInv, TypeOK, Accounted, Holder
<1>8. ASSUME NEW s \in Slots, SYS_VFS_CLOSE(s) PROVE IInv'
  BY <1>0, <1>8 DEF SYS_VFS_CLOSE, Release, IInv, TypeOK, Accounted, Holder
<1>9. CASE UNCHANGED vars
  BY <1>0, <1>9 DEF vars, IInv, TypeOK, Accounted, Holder
<1> QED BY <1>1, <1>2, <1>3, <1>4, <1>5, <1>6, <1>7, <1>8, <1>9 DEF Next

(***************************************************************************)
(* proc.c leaks none of the system's slots, whatever is opened, duplicated *)
(* and closed and whoever exits, for tables of any size.                   *)
(***************************************************************************)
THEOREM NoSlotLost == Spec => []SlotsAccounted
<1>1. IInv => SlotsAccounted
  BY AccountedIs DEF IInv
<1> QED BY InitInv, StepInv, <1>1, PTL DEF Spec

(***************************************************************************)
(* The refinement.  As long as nothing is aliased, no two numbers name one *)
(* slot, and none names a slot of SYS_VFS_OPEN; these facts keep a step on *)
(* one slot from being seen through another name.                          *)
(***************************************************************************)
ByCallOpen == \A s \in by_call : open_files[s] # Nothing

Apart == IInv /\ ExitedHoldNothing /\ NamedSlotsApart /\ ByCallOpen

names == [p \in Procs |-> [n \in Numbers |-> NamedFile(p, n)]]
loose == [s \in Slots |-> IF s \in by_call THEN open_files[s] ELSE Nothing]

LEMMA NamedFileKept ==
  ASSUME NEW q \in Procs, NEW n \in Numbers, fds'[q][n] = fds[q][n], fds[q][n] \in Int,
         fds[q][n] >= 0 => open_files'[fds[q][n]] = open_files[fds[q][n]]
  PROVE  NamedFile(q, n)' = NamedFile(q, n)
BY DEF NamedFile

LEMMA ApartInit == Init => Apart
<1> SUFFICES ASSUME Init PROVE Apart
  OBVIOUS
<1>1. IInv
  BY InitInv
<1>2. \A p \in Procs, n \in Numbers : fds[p][n] = -1
  BY DEF Init, Unused
<1>3. NamedSlotsApart
  BY <1>2 DEF NamedSlotsApart
<1> QED BY <1>1, <1>3 DEF Apart, Init, ExitedHoldNothing, ByCallOpen

LEMMA AbstractInit == Init => Abstract!HandlesInit
<1> SUFFICES ASSUME Init PROVE Abstract!HandlesInit
  OBVIOUS
<1>1. \A p \in Procs, n \in Numbers : NamedFile(p, n) = Nothing
  BY DEF Init, Unused, NamedFile
<1> QED BY <1>1 DEF Init, Abstract!HandlesInit, Abstract!AllFree

(* The three steps of the abstract tables, from their effect on each name. *)
LEMMA NamesAfter ==
  ASSUME NEW p \in Procs, NEW k \in Numbers, NEW f,
         \A q \in Procs, n \in Numbers :
           NamedFile(q, n)' = IF q = p /\ n = k THEN f ELSE NamedFile(q, n)
  PROVE  names' = [names EXCEPT ![p][k] = f]
  BY Zenon DEF names

LEMMA NamesKept ==
  ASSUME \A q \in Procs, n \in Numbers : NamedFile(q, n)' = NamedFile(q, n)
  PROVE  names' = names
  BY DEF names

LEMMA LooseKept ==
  ASSUME by_call' = by_call, \A s \in by_call : open_files'[s] = open_files[s]
  PROVE  loose' = loose
  BY DEF loose

LEMMA SameApart ==
  ASSUME Apart, IInv', UNCHANGED <<fds, open_files, by_call>>, alive \subseteq alive'
  PROVE  Apart' /\ UNCHANGED <<names, loose>>
<1>1. NamedSlotsApart' /\ ByCallOpen' /\ ExitedHoldNothing'
  BY DEF Apart, NamedSlotsApart, ByCallOpen, ExitedHoldNothing
<1>2. names' = names
  BY NamesKept DEF NamedFile
<1>3. loose' = loose
  BY LooseKept
<1> QED BY <1>1, <1>2, <1>3 DEF Apart

LEMMA OpenApart ==
  ASSUME Apart, IInv', NEW p \in Procs, NEW file \in Files, proc_open(p, file)
  PROVE  Apart' /\ (Abstract!Kept \/ UNCHANGED <<names, loose>>)
<1> DEFINE slot == Min(FreeSlots)
           m == Min(FreeNumbers(p))
<1>0. /\ fds \in [Procs -> [Numbers -> Slots \cup {-1}]]
      /\ open_files \in [Slots -> Files \cup {Nothing}]
      /\ p \in alive /\ by_call \subseteq Slots
      /\ \A s \in Slots : s >= 0 /\ s \in Int
  BY DEF Apart, IInv, TypeOK, Slots, proc_open
<1>1. slot \in Slots /\ open_files[slot] = Nothing
  BY FirstFreeSlot DEF proc_open
<1>2. CASE FreeNumbers(p) = {}
  <2>1. /\ open_files' = Release([open_files EXCEPT ![slot] = file], {slot})
        /\ UNCHANGED <<alive, fds, by_call>>
    BY <1>2 DEF proc_open, UnwantedSlot
  <2>2. open_files' = open_files
    BY <1>0, <1>1, <2>1 DEF Release
  <2> QED
    BY <2>1, <2>2, SameApart
<1>3. CASE FreeNumbers(p) # {}
  <2>1. m \in Numbers /\ fds[p][m] < 0
    BY <1>3, FirstFreeNumber
  <2>2. /\ open_files' = [open_files EXCEPT ![slot] = file]
        /\ fds' = [fds EXCEPT ![p][m] = slot] /\ UNCHANGED <<alive, by_call>>
    BY <1>3 DEF proc_open
  <2> HIDE DEF slot, m
  <2>3. slot \notin by_call /\ \A q \in Procs, n \in Numbers : fds[q][n] # slot
    BY <1>0, <1>1 DEF Apart, ByCallOpen, NamedSlotsApart
  <2>4. \A q \in Procs, n \in Numbers :
          fds'[q][n] = IF q = p /\ n = m THEN slot ELSE fds[q][n]
    BY <1>0, <2>1, <2>2
  <2>5. \A s \in Slots : open_files'[s] = IF s = slot THEN file ELSE open_files[s]
    BY <1>0, <2>2
  <2>6. file # Nothing
    BY FilesAssumption
  <2>7. NamedSlotsApart'
    <3> SUFFICES ASSUME NEW a \in Procs, NEW b \in Procs, NEW x \in Numbers, NEW y \in Numbers,
                        fds'[a][x] >= 0
                 PROVE  /\ fds'[a][x] = fds'[b][y] => a = b /\ x = y
                        /\ open_files'[fds'[a][x]] # Nothing /\ fds'[a][x] \notin by_call'
      BY Zenon DEF NamedSlotsApart
    <3>1. fds'[b][y] = IF b = p /\ y = m THEN slot ELSE fds[b][y]
      BY <2>4
    <3>2. CASE a = p /\ x = m
      <4>1. fds'[a][x] = slot
        BY <2>4, <3>2
      <4>2. open_files'[slot] # Nothing
        BY <1>1, <2>5, <2>6
      <4> QED BY <2>2, <2>3, <3>1, <3>2, <4>1, <4>2
    <3>3. CASE ~(a = p /\ x = m)
      <4>1. fds'[a][x] = fds[a][x] /\ fds[a][x] \in Slots
        BY <1>0, <2>4, <3>3
      <4>2. /\ fds[a][x] = fds[b][y] => a = b /\ x = y
            /\ open_files[fds[a][x]] # Nothing /\ fds[a][x] \notin by_call
        BY <4>1, Zenon DEF Apart, NamedSlotsApart
      <4>3. fds[a][x] # slot /\ open_files'[fds[a][x]] = open_files[fds[a][x]]
        BY <2>3, <2>5, <4>1
      <4>4. fds'[a][x] = fds'[b][y] => fds[a][x] = fds[b][y]
        BY <3>1, <4>1, <4>3
      <4>5. open_files'[fds'[a][x]] # Nothing
        BY <4>1, <4>2, <4>3, Zenon
      <4>6. fds'[a][x] \notin by_call'
        BY <2>2, <4>1, <4>2
      <4> QED BY <4>2, <4>4, <4>5, <4>6, Zenon
    <3> QED BY <3>2, <3>3
  <2>8. ExitedHoldNothing' /\ ByCallOpen'
    BY <1>0, <2>2, <2>3, <2>5 DEF Apart, ExitedHoldNothing, ByCallOpen
  <2>9. \A q \in Procs, n \in Numbers :
          NamedFile(q, n)' = IF q = p /\ n = m THEN file ELSE NamedFile(q, n)
    BY <1>0, <1>1, <2>3, <2>4, <2>5 DEF NamedFile
  <2>10. names' = [names EXCEPT ![p][m] = file] /\ names[p][m] = Nothing
    <3>1. names' = [names EXCEPT ![p][m] = file]
      BY <2>1, <2>9, NamesAfter
    <3> QED BY <2>1, <3>1 DEF names, NamedFile
  <2>11. loose' = loose
    BY <1>0, <2>2, <2>3, <2>5, LooseKept
  <2>12. Abstract!Open(p, m, file)
    BY <2>10, <2>11 DEF Abstract!Open, names, loose
  <2>13. Abstract!Kept
    BY <2>1, <2>12 DEF Abstract!Kept
  <2> QED BY <2>7, <2>8, <2>13 DEF Apart
<1> QED BY <1>2, <1>3

LEMMA CloseApart ==
  ASSUME Apart, IInv', NEW p \in Procs, NEW k \in Numbers, proc_close(p, k)
  PROVE  Apart' /\ Abstract!Kept
<1> DEFINE slot == fds[p][k]
<1>0. /\ fds \in [Procs -> [Numbers -> Slots \cup {-1}]]
      /\ open_files \in [Slots -> Files \cup {Nothing}]
      /\ by_call \subseteq Slots /\ \A s \in Slots : s >= 0 /\ s \in Int
      /\ slot >= 0 /\ slot \in Slots
  BY DEF Apart, IInv, TypeOK, Slots, proc_close
<1>1. open_files[slot] # Nothing /\ slot \notin by_call
  BY <1>0 DEF Apart, NamedSlotsApart
<1>2. /\ fds' = [fds EXCEPT ![p][k] = -1] /\ open_files' = Release(open_files, {slot})
      /\ by_call' = by_call /\ alive' = alive
  BY <1>1 DEF proc_close, NumberFreed
<1>3. \A q \in Procs, n \in Numbers : fds'[q][n] = IF q = p /\ n = k THEN -1 ELSE fds[q][n]
  BY <1>0, <1>2
<1>4. \A s \in Slots : open_files'[s] = IF s = slot THEN Nothing ELSE open_files[s]
  BY <1>2 DEF Release
<1>5. \A q \in Procs, n \in Numbers : fds[q][n] = slot => q = p /\ n = k
  BY <1>0 DEF Apart, NamedSlotsApart
<1> HIDE DEF slot
<1>6. NamedSlotsApart'
  <2> SUFFICES ASSUME NEW a \in Procs, NEW b \in Procs, NEW x \in Numbers, NEW y \in Numbers,
                      fds'[a][x] >= 0
               PROVE  /\ fds'[a][x] = fds'[b][y] => a = b /\ x = y
                      /\ open_files'[fds'[a][x]] # Nothing
                      /\ fds'[a][x] \notin by_call'
    BY DEF NamedSlotsApart
  <2>1. fds'[a][x] = fds[a][x] /\ ~(a = p /\ x = k) /\ fds[a][x] \in Slots
    BY <1>0, <1>3
  <2>2. fds[a][x] # slot
    BY <1>5, <2>1
  <2>3. /\ fds[a][x] = fds[b][y] => a = b /\ x = y
        /\ open_files[fds[a][x]] # Nothing /\ fds[a][x] \notin by_call
    BY <2>1 DEF Apart, NamedSlotsApart
  <2>4. fds'[a][x] = fds'[b][y] => fds[b][y] = fds[a][x]
    BY <1>3, <2>1
  <2>5. open_files'[fds[a][x]] = open_files[fds[a][x]]
    BY <1>4, <2>1, <2>2
  <2> DEFINE named == fds'[a][x]
  <2>6. named = fds[a][x]
    BY <2>1
  <2> HIDE DEF named
  <2>7. open_files'[named] # Nothing /\ named \notin by_call'
    BY <1>2, <2>3, <2>5, <2>6
  <2> QED BY <2>3, <2>4, <2>7 DEF named
<1>7. ByCallOpen'
  BY <1>0, <1>1, <1>2, <1>4, Zenon DEF Apart, ByCallOpen
<1>8. ExitedHoldNothing'
  <2>1. p \in alive
    BY <1>0 DEF Apart, ExitedHoldNothing, Unused, slot
  <2> QED BY <1>0, <1>2, <2>1 DEF Apart, ExitedHoldNothing
<1>9. \A q \in Procs, n \in Numbers :
        NamedFile(q, n)' = IF q = p /\ n = k THEN Nothing ELSE NamedFile(q, n)
  <2> SUFFICES ASSUME NEW q \in Procs, NEW n \in Numbers
               PROVE  NamedFile(q, n)' = IF q = p /\ n = k THEN Nothing ELSE NamedFile(q, n)
    OBVIOUS
  <2>1. CASE q = p /\ n = k
    BY <1>3, <2>1 DEF NamedFile
  <2>2. CASE ~(q = p /\ n = k)
    <3>1. fds'[q][n] = fds[q][n]
      BY <1>3, <2>2
    <3>2. fds[q][n] \in Int /\ (fds[q][n] >= 0 => fds[q][n] \in Slots)
      BY <1>0
    <3>3. fds[q][n] >= 0 => open_files'[fds[q][n]] = open_files[fds[q][n]]
      BY <1>4, <1>5, <2>2, <3>2
    <3>4. NamedFile(q, n)' = NamedFile(q, n)
      BY <3>1, <3>2, <3>3, NamedFileKept
    <3> QED BY <2>2, <3>4
  <2> QED BY <2>1, <2>2
<1>10. names' = [names EXCEPT ![p][k] = Nothing]
  BY <1>9, NamesAfter
<1>11. names[p][k] # Nothing
  BY <1>0, <1>1 DEF names, NamedFile, slot
<1>12. loose' = loose
  BY <1>0, <1>1, <1>2, <1>4, LooseKept, Zenon
<1>13. Abstract!Close(p, k)
  BY <1>10, <1>11, <1>12 DEF Abstract!Close, names, loose
<1>14. Abstract!Kept
  BY <1>13 DEF Abstract!Kept
<1> QED BY <1>6, <1>7, <1>8, <1>14 DEF Apart

LEMMA ExitApart ==
  ASSUME Apart, IInv', NEW p \in Procs, proc_exit(p)
  PROVE  Apart' /\ Abstract!Kept
<1> DEFINE held == {fds[p][n] : n \in Numbers}
<1>0. /\ fds \in [Procs -> [Numbers -> Slots \cup {-1}]]
      /\ open_files \in [Slots -> Files \cup {Nothing}]
      /\ by_call \subseteq Slots /\ \A s \in Slots : s >= 0 /\ s \in Int
  BY DEF Apart, IInv, TypeOK, Slots
<1>1. held \cap by_call = {}
  <2> SUFFICES ASSUME NEW n \in Numbers, fds[p][n] \in by_call PROVE FALSE
    OBVIOUS
  <2>1. fds[p][n] >= 0
    BY <1>0
  <2> QED BY <2>1 DEF Apart, NamedSlotsApart
<1>2. /\ fds' = [fds EXCEPT ![p] = Unused] /\ open_files' = Release(open_files, held)
      /\ by_call' = by_call /\ alive' = alive \ {p}
  BY <1>1 DEF proc_exit
<1>3. \A q \in Procs, n \in Numbers : fds'[q][n] = IF q = p THEN -1 ELSE fds[q][n]
  BY <1>0, <1>2 DEF Unused
<1>4. \A s \in Slots : open_files'[s] = IF s \in held THEN Nothing ELSE open_files[s]
  BY <1>2 DEF Release
<1>5. \A q \in Procs, n \in Numbers : fds[q][n] \in held /\ fds[q][n] >= 0 => q = p
  BY <1>0 DEF Apart, NamedSlotsApart
<1> HIDE DEF held
<1>6. NamedSlotsApart'
  <2> SUFFICES ASSUME NEW a \in Procs, NEW b \in Procs, NEW x \in Numbers, NEW y \in Numbers,
                      fds'[a][x] >= 0
               PROVE  /\ fds'[a][x] = fds'[b][y] => a = b /\ x = y
                      /\ open_files'[fds'[a][x]] # Nothing /\ fds'[a][x] \notin by_call'
    BY Zenon DEF NamedSlotsApart
  <2>1. a # p /\ fds'[a][x] = fds[a][x] /\ fds[a][x] \in Slots
    BY <1>0, <1>3
  <2>2. fds'[b][y] = IF b = p THEN -1 ELSE fds[b][y]
    BY <1>3
  <2>3. /\ fds[a][x] = fds[b][y] => a = b /\ x = y
        /\ open_files[fds[a][x]] # Nothing /\ fds[a][x] \notin by_call
    BY <2>1, Zenon DEF Apart, NamedSlotsApart
  <2>4. fds[a][x] \notin held /\ open_files'[fds[a][x]] = open_files[fds[a][x]]
    BY <1>4, <1>5, <2>1
  <2>5. fds'[a][x] = fds'[b][y] => fds[a][x] = fds[b][y]
    BY <1>0, <2>1, <2>2
  <2>6. open_files'[fds'[a][x]] # Nothing
    BY <2>1, <2>3, <2>4, Zenon
  <2>7. fds'[a][x] \notin by_call'
    BY <1>2, <2>1, <2>3
  <2> QED BY <2>3, <2>5, <2>6, <2>7, Zenon
<1>7. ByCallOpen'
  BY <1>0, <1>1, <1>2, <1>4 DEF Apart, ByCallOpen
<1>8. ExitedHoldNothing'
  BY <1>0, <1>2 DEF Apart, ExitedHoldNothing
<1>9. \A q \in Procs, n \in Numbers :
        NamedFile(q, n)' = IF q = p THEN Nothing ELSE NamedFile(q, n)
  <2> SUFFICES ASSUME NEW q \in Procs, NEW n \in Numbers
               PROVE  NamedFile(q, n)' = IF q = p THEN Nothing ELSE NamedFile(q, n)
    OBVIOUS
  <2>1. CASE q = p
    BY <1>3, <2>1 DEF NamedFile
  <2>2. CASE q # p
    <3>1. fds'[q][n] = fds[q][n]
      BY <1>3, <2>2
    <3>2. fds[q][n] \in Int /\ (fds[q][n] >= 0 => fds[q][n] \in Slots)
      BY <1>0
    <3>3. fds[q][n] >= 0 => open_files'[fds[q][n]] = open_files[fds[q][n]]
      BY <1>4, <1>5, <2>2, <3>2
    <3>4. NamedFile(q, n)' = NamedFile(q, n)
      BY <3>1, <3>2, <3>3, NamedFileKept
    <3> QED BY <2>2, <3>4
  <2> QED BY <2>1, <2>2
<1>10. names' = [names EXCEPT ![p] = [n \in Numbers |-> Nothing]]
  BY <1>9, Zenon DEF names
<1>11. loose' = loose
  BY <1>0, <1>1, <1>2, <1>4, LooseKept
<1>12. Abstract!Exit(p)
  BY <1>10, <1>11 DEF Abstract!Exit, Abstract!AllFree, names, loose
<1>13. Abstract!Kept
  BY <1>12 DEF Abstract!Kept
<1> QED BY <1>6, <1>7, <1>8, <1>13 DEF Apart

LEMMA CallApart ==
  ASSUME Apart, IInv',
         \/ \E file \in Files : SYS_VFS_OPEN(file)
         \/ \E s \in by_call : SYS_VFS_CLOSE(s)
  PROVE  Apart' /\ Abstract!Kept
<1>0. /\ fds \in [Procs -> [Numbers -> Slots \cup {-1}]]
      /\ open_files \in [Slots -> Files \cup {Nothing}]
      /\ by_call \subseteq Slots /\ \A s \in Slots : s >= 0 /\ s \in Int
  BY DEF Apart, IInv, TypeOK, Slots
<1>1. ASSUME NEW file \in Files, SYS_VFS_OPEN(file) PROVE Apart' /\ Abstract!Kept
  <2> DEFINE slot == Min(FreeSlots)
  <2>1. slot \in Slots /\ open_files[slot] = Nothing
    BY <1>1, FirstFreeSlot DEF SYS_VFS_OPEN
  <2>2. /\ open_files' = [open_files EXCEPT ![slot] = file]
        /\ by_call' = by_call \cup {slot} /\ UNCHANGED <<alive, fds>>
    BY <1>1 DEF SYS_VFS_OPEN
  <2> HIDE DEF slot
  <2>3. slot \notin by_call /\ \A q \in Procs, n \in Numbers : fds[q][n] # slot
    BY <1>0, <2>1 DEF Apart, ByCallOpen, NamedSlotsApart
  <2>4. \A s \in Slots : open_files'[s] = IF s = slot THEN file ELSE open_files[s]
    BY <1>0, <2>2
  <2>5. file # Nothing
    BY FilesAssumption
  <2>6. NamedSlotsApart'
    <3> SUFFICES ASSUME NEW a \in Procs, NEW b \in Procs, NEW x \in Numbers, NEW y \in Numbers,
                        fds'[a][x] >= 0
                 PROVE  /\ fds'[a][x] = fds'[b][y] => a = b /\ x = y
                        /\ open_files'[fds'[a][x]] # Nothing /\ fds'[a][x] \notin by_call'
      BY Zenon DEF NamedSlotsApart
    <3>0. fds' = fds /\ fds[a][x] >= 0
      BY <2>2
    <3>1. /\ fds[a][x] = fds[b][y] => a = b /\ x = y
          /\ open_files[fds[a][x]] # Nothing /\ fds[a][x] \notin by_call
      BY <3>0 DEF Apart, NamedSlotsApart
    <3>2. fds[a][x] # slot /\ fds[a][x] \in Slots
      BY <1>0, <2>3, <3>0
    <3>3. open_files'[fds[a][x]] # Nothing /\ fds[a][x] \notin by_call'
      BY <2>2, <2>4, <3>1, <3>2
    <3> QED BY <3>0, <3>1, <3>3, Zenon
  <2>7. ByCallOpen' /\ ExitedHoldNothing'
    BY <1>0, <2>1, <2>2, <2>4, <2>5 DEF Apart, ByCallOpen, ExitedHoldNothing
  <2>8. names' = names
    <3>1. ASSUME NEW q \in Procs, NEW n \in Numbers PROVE NamedFile(q, n)' = NamedFile(q, n)
      <4>1. fds[q][n] \in Int /\ (fds[q][n] >= 0 => fds[q][n] \in Slots)
        BY <1>0
      <4>2. fds[q][n] >= 0 => open_files'[fds[q][n]] = open_files[fds[q][n]]
        BY <2>3, <2>4, <4>1
      <4> QED BY <2>2, <4>1, <4>2, NamedFileKept
    <3> QED BY <3>1, NamesKept
  <2>9. loose' = [loose EXCEPT ![slot] = file] /\ loose[slot] = Nothing
    BY <1>0, <2>1, <2>2, <2>3, <2>4, Zenon DEF loose
  <2>10. Abstract!LooseOpen(slot, file)
    BY <2>8, <2>9 DEF Abstract!LooseOpen, names, loose
  <2>11. Abstract!Kept
    BY <2>1, <2>10 DEF Abstract!Kept
  <2> QED BY <2>6, <2>7, <2>11 DEF Apart
<1>2. ASSUME NEW slot \in by_call, SYS_VFS_CLOSE(slot) PROVE Apart' /\ Abstract!Kept
  <2>1. /\ slot \in by_call /\ open_files[slot] # Nothing
        /\ open_files' = Release(open_files, {slot})
        /\ by_call' = by_call \ {slot} /\ UNCHANGED <<alive, fds>>
    BY <1>2 DEF SYS_VFS_CLOSE
  <2> slot \in Slots
    BY <1>0
  <2>2. \A q \in Procs, n \in Numbers : fds[q][n] # slot
    BY <1>0, <2>1 DEF Apart, NamedSlotsApart
  <2>3. \A s \in Slots : open_files'[s] = IF s = slot THEN Nothing ELSE open_files[s]
    BY <2>1 DEF Release
  <2>4. NamedSlotsApart'
    <3> SUFFICES ASSUME NEW a \in Procs, NEW b \in Procs, NEW x \in Numbers, NEW y \in Numbers,
                        fds'[a][x] >= 0
                 PROVE  /\ fds'[a][x] = fds'[b][y] => a = b /\ x = y
                        /\ open_files'[fds'[a][x]] # Nothing
                        /\ fds'[a][x] \notin by_call'
      BY DEF NamedSlotsApart
    <3>1. fds' = fds
      BY <2>1
    <3> DEFINE named == fds[a][x]
    <3>2. named \in Slots /\ named # slot /\ named >= 0
      BY <1>0, <2>2, <3>1
    <3>3. /\ named = fds[b][y] => a = b /\ x = y
          /\ open_files[named] # Nothing /\ named \notin by_call
      BY <3>2 DEF Apart, NamedSlotsApart
    <3> HIDE DEF named
    <3>4. open_files'[named] # Nothing /\ named \notin by_call'
      BY <2>1, <2>3, <3>2, <3>3
    <3> QED BY <3>1, <3>3, <3>4 DEF named
  <2>5. ByCallOpen' /\ ExitedHoldNothing'
    BY <1>0, <2>1, <2>3, Zenon DEF Apart, ByCallOpen, ExitedHoldNothing
  <2>6. names' = names
    <3>1. \A q \in Procs, n \in Numbers : NamedFile(q, n)' = NamedFile(q, n)
      <4> SUFFICES ASSUME NEW q \in Procs, NEW n \in Numbers
                   PROVE  NamedFile(q, n)' = NamedFile(q, n)
        OBVIOUS
      <4>1. fds'[q][n] = fds[q][n] /\ (fds[q][n] < 0 \/ fds[q][n] \in Slots)
        BY <1>0, <2>1
      <4> QED BY <2>2, <2>3, <4>1 DEF NamedFile
    <3> QED BY <3>1, NamesKept
  <2>7. loose' = [loose EXCEPT ![slot] = Nothing] /\ loose[slot] # Nothing
    BY <1>0, <2>1, <2>3, Zenon DEF loose
  <2>8. Abstract!LooseClose(slot)
    BY <2>6, <2>7 DEF Abstract!LooseClose, names, loose
  <2>9. Abstract!Kept
    BY <2>8 DEF Abstract!Kept
  <2> QED BY <2>4, <2>5, <2>9 DEF Apart
<1> QED BY <1>1, <1>2

(* Once something is aliased it stays so; the inductive invariant of the   *)
(* refinement holds Apart only before.                                     *)
RInv ==
  /\ IInv
  /\ aliased = TRUE \/ (aliased = FALSE /\ Apart)

LEMMA StepAliased ==
  ASSUME RInv, [Next]_vars
  PROVE  RInv' /\ (Abstract!HandlesNext \/ UNCHANGED <<names, loose, aliased>>)
<1>1. IInv'
  BY StepInv DEF RInv
<1>2. CASE aliased' = TRUE
  BY <1>1, <1>2 DEF RInv, Abstract!HandlesNext
<1>3. CASE aliased' # TRUE
  <2>1. /\ aliased = FALSE /\ aliased' = FALSE
        /\ \A p \in Procs, n \in Numbers : ~proc_dup(p, n) /\ \A k \in Numbers : ~proc_dup2(p, n, k)
        /\ \A s \in Slots \ by_call : ~SYS_VFS_CLOSE(s)
    <3>1. \A p \in Procs, n \in Numbers : ~proc_dup(p, n) /\ \A k \in Numbers : ~proc_dup2(p, n, k)
      BY <1>3, Zenon DEF proc_dup, proc_dup2
    <3>2. \A s \in Slots : SYS_VFS_CLOSE(s) => s \in by_call /\ aliased # TRUE
      BY <1>3, Zenon DEF SYS_VFS_CLOSE
    <3>3. aliased = FALSE
      <4>1. CASE UNCHANGED aliased
        BY <1>3, <4>1, Zenon DEF RInv
      <4>2. ASSUME NEW s \in Slots, SYS_VFS_CLOSE(s) PROVE aliased = FALSE
        BY <3>2, <4>2, Zenon DEF RInv
      <4> QED
        BY <3>1, <4>1, <4>2, Zenon
           DEF Next, vars, proc_create, proc_exit, proc_open, proc_close, SYS_VFS_OPEN
    <3>4. aliased' = FALSE
      <4>1. CASE UNCHANGED aliased
        BY <3>3, <4>1
      <4>2. ASSUME NEW s \in Slots, SYS_VFS_CLOSE(s) PROVE aliased' = FALSE
        BY <3>2, <3>3, <4>2, Zenon DEF SYS_VFS_CLOSE
      <4> QED
        BY <3>1, <4>1, <4>2, Zenon
           DEF Next, vars, proc_create, proc_exit, proc_open, proc_close, SYS_VFS_OPEN
    <3> QED BY <3>1, <3>2, <3>3, <3>4, Zenon
  <2>2. Apart
    BY <2>1, Zenon DEF RInv
  <2>3. Apart' /\ (Abstract!Kept \/ UNCHANGED <<names, loose>>)
    <3>1. ASSUME NEW p \in Procs, proc_create(p)
          PROVE  Apart' /\ UNCHANGED <<names, loose>>
      <4>1. fds[p] = Unused /\ fds \in [Procs -> [Numbers -> Slots \cup {-1}]]
        BY <2>2, <3>1 DEF proc_create, Apart, ExitedHoldNothing, IInv, TypeOK
      <4>2. fds' = fds /\ UNCHANGED <<open_files, by_call>> /\ alive \subseteq alive'
        BY <3>1, <4>1 DEF proc_create
      <4> QED BY <1>1, <2>2, <4>2, SameApart
    <3>2. CASE UNCHANGED vars
      BY <1>1, <2>2, <3>2, SameApart DEF vars
    <3>3. CASE Next
      BY <1>1, <2>1, <2>2, <3>1, <3>3, OpenApart, CloseApart, ExitApart, CallApart DEF Next
    <3> QED BY <3>2, <3>3
  <2> QED BY <1>1, <2>1, <2>3, Zenon DEF RInv, Abstract!HandlesNext
<1> QED BY <1>2, <1>3, Zenon

(***************************************************************************)
(* As long as nobody has duplicated a descriptor or closed what it had not *)
(* opened, a descriptor names the file it was opened for until its owner   *)
(* closes it or exits, for any number of processes, numbers and slots.     *)
(***************************************************************************)
THEOREM DescriptorsRefine == Spec => ImplementsHandles
<1>1. Init => RInv
  BY InitInv, ApartInit, Zenon DEF Init, RInv
<1>2. RInv /\ [Next]_vars => RInv' /\ [Abstract!HandlesNext]_<<names, loose, aliased>>
  BY StepAliased
<1> QED
  BY AbstractInit, <1>1, <1>2, PTL
     DEF Spec, ImplementsHandles, Abstract!HandlesSpec, names, loose
=============================================================================
