----------------------------- MODULE ProcProofs -----------------------------
(***************************************************************************)
(* Proofs about Proc, for every size of the process table, any number of   *)
(* contexts not below it and any bound on process numbers.                 *)
(*                                                                         *)
(* The invariants TLC checks support each other: that a suspended call's   *)
(* memory is never freed (FramesKeepMemory) needs the nesting of calls     *)
(* (CallsNest) and that only the innermost process can make system calls   *)
(* (CurrentIsInnermost), which needs in turn that a suspended process is   *)
(* still in the table.  IInv, their conjunction with the freshness of      *)
(* context numbers, is inductive.                                          *)
(***************************************************************************)
EXTENDS Proc, FiniteSetTheorems, SequenceTheorems, TLAPS

Entry == [parent : Nat, state : States, memctx : Nat]

(* Context numbers handed out so far are below the next one. *)
Counters ==
  /\ next_pid >= 1
  /\ \A c \in DOMAIN ctxs : c \in Nat /\ c < next_ctx_id

IInv ==
  /\ TypeOK /\ Counters
  /\ CurrentIsInnermost /\ FramesKeepMemory /\ CallsNest
  /\ ParentsAlive /\ ContextsMatch /\ NoneForgotten

-----------------------------------------------------------------------------
(* Facts about the table operators. *)

(* proc_exit_locked ends one process and changes only parents besides. *)
LEMMA ExitTableFacts ==
  ASSUME NEW t, NEW p, \A q \in DOMAIN t : t[q] \in Entry
  PROVE  /\ DOMAIN ExitTable(t, p) = DOMAIN t
         /\ \A q \in DOMAIN t :
              /\ ExitTable(t, p)[q] \in Entry
              /\ ExitTable(t, p)[q].state = IF q = p THEN "EXITED" ELSE t[q].state
              /\ ExitTable(t, p)[q].parent =
                   IF t[q].parent = p THEN INIT_PID ELSE t[q].parent
              /\ ExitTable(t, p)[q].memctx = t[q].memctx
BY ZenonT(30) DEF ExitTable, Entry, States, INIT_PID

(* proc_set_current changes only states. *)
LEMMA SetCurrentFacts ==
  ASSUME NEW t, NEW cur, NEW p, \A q \in DOMAIN t : t[q] \in Entry
  PROVE  /\ DOMAIN SetCurrentTable(t, cur, p) = DOMAIN t
         /\ \A q \in DOMAIN t :
              /\ SetCurrentTable(t, cur, p)[q] \in Entry
              /\ SetCurrentTable(t, cur, p)[q].state =
                   IF q = p THEN "RUNNING"
                   ELSE IF q = cur /\ t[q].state = "RUNNING" THEN "READY"
                   ELSE t[q].state
              /\ SetCurrentTable(t, cur, p)[q].parent = t[q].parent
              /\ SetCurrentTable(t, cur, p)[q].memctx = t[q].memctx
BY DEF SetCurrentTable, Entry, States

(* Contexts of processes are never more than the processes, so contexts do *)
(* not run out before slots do.                                            *)
LEMMA ContextsSuffice ==
  ASSUME NEW t, NEW c, IsFiniteSet(DOMAIN t),
         DOMAIN c = {t[p].memctx : p \in DOMAIN t}
  PROVE  ~(Cardinality(DOMAIN t) >= ProcMax) => ~(Cardinality(DOMAIN c) >= CtxMax)
<1> DEFINE g == [x \in DOMAIN t |-> t[x].memctx]
<1>1. g \in Surjection(DOMAIN t, DOMAIN c)
  BY DEF Surjection
<1>2. IsFiniteSet(DOMAIN c) /\ Cardinality(DOMAIN c) <= Cardinality(DOMAIN t)
  BY <1>1, FS_Surjection
<1>3. Cardinality(DOMAIN c) \in Nat /\ Cardinality(DOMAIN t) \in Nat
  BY <1>2, FS_CardinalityType
<1> QED BY <1>2, <1>3, ProcAssumption

(* A table whose process numbers are below a bound is finite. *)
LEMMA TableFinite ==
  ASSUME NEW t, NEW n \in Nat, DOMAIN t \subseteq 1 .. (n - 1)
  PROVE  IsFiniteSet(DOMAIN t) /\ Cardinality(DOMAIN t) \in Nat
<1>1. 1 \in Int /\ n - 1 \in Int
  OBVIOUS
<1>2. IsFiniteSet(1 .. (n - 1))
  BY <1>1, FS_Interval
<1>3. IsFiniteSet(DOMAIN t)
  BY <1>2, FS_Subset
<1> QED BY <1>3, FS_CardinalityType

(* What is left of a sequence without its last element. *)
LEMMA DropLast ==
  ASSUME NEW S, NEW s \in Seq(S), NEW n \in Nat \ {0}, n = Len(s)
  PROVE  /\ SubSeq(s, 1, n - 1) \in Seq(S)
         /\ Len(SubSeq(s, 1, n - 1)) = n - 1
         /\ \A i \in 1 .. (n - 1) : SubSeq(s, 1, n - 1)[i] = s[i]
<1>1. \A i \in 1 .. (n - 1) : s[i] \in S
  BY ElementOfSeq
<1>2. 1 \in Int /\ n - 1 \in Int
  OBVIOUS
<1>3. /\ SubSeq(s, 1, n - 1) \in Seq(S)
      /\ Len(SubSeq(s, 1, n - 1)) = IF 1 <= n - 1 THEN (n - 1) - 1 + 1 ELSE 0
      /\ \A i \in 1 .. ((n - 1) - 1 + 1) : SubSeq(s, 1, n - 1)[i] = s[1 + i - 1]
  BY <1>1, <1>2, SubSeqProperties
<1>4. (n - 1) - 1 + 1 = n - 1 /\ \A i \in 1 .. (n - 1) : 1 + i - 1 = i
  OBVIOUS
<1> QED BY <1>3, <1>4

-----------------------------------------------------------------------------
(* The inductive invariant. *)

LEMMA InitIInv == Init => IInv
<1> SUFFICES ASSUME Init PROVE IInv
  OBVIOUS
<1>1. Pids = {} /\ DOMAIN ctxs = {} /\ DOMAIN frames = {}
  BY DEF Init, Pids, Empty
<1>2. Cardinality({}) = 0
  BY FS_EmptySet
<1>3. TypeOK
  <2>1. procs \in [Pids -> Entry] /\ ctxs \in [DOMAIN ctxs -> SUBSET Blocks]
    BY DEF Init, Empty, Pids
  <2>2. frames \in Seq([pid : Nat, previous : Nat])
    BY DEF Init
  <2>3. panicked \in BOOLEAN
    BY ZenonT(30) DEF Init
  <2> QED BY <1>1, <1>2, <2>1, <2>2, <2>3, ProcAssumption
          DEF Init, TypeOK, INIT_PID, Entry
<1>9. Counters
  BY <1>1 DEF Init, Counters, INIT_PID
<1>4. CurrentIsInnermost /\ FramesKeepMemory /\ CallsNest /\ ParentsAlive /\ NoneForgotten
  BY <1>1 DEF Init, CurrentIsInnermost, FramesKeepMemory, CallsNest, ParentsAlive,
              NoneForgotten, Alive, Running, INIT_PID
<1>5. ContextsMatch
  BY <1>1, <1>2, ProcAssumption DEF ContextsMatch, CtxsFull, TableFull
<1> QED BY <1>3, <1>9, <1>4, <1>5 DEF IInv

(* What the type invariant says of numbers and frames, in the form the     *)
(* proofs below use.                                                       *)
LEMMA Basics ==
  ASSUME IInv
  PROVE  /\ next_pid \in Nat /\ next_pid >= 1 /\ next_ctx_id \in Nat
         /\ \A p \in Pids : p \in Nat /\ 1 <= p /\ p < next_pid
         /\ \A p \in Pids : procs[p] \in Entry
         /\ frames \in Seq([pid : Nat, previous : Nat])
         /\ Len(frames) \in Nat /\ DOMAIN frames = 1 .. Len(frames)
         /\ \A i \in 1 .. Len(frames) : frames[i].pid \in Pids /\ frames[i].previous \in Nat
         /\ IsFiniteSet(Pids) /\ Cardinality(Pids) \in Nat
<1>1. next_pid \in Nat /\ next_pid >= 1 /\ next_ctx_id \in Nat
  BY DEF IInv, TypeOK, Counters
<1>2. \A p \in Pids : p \in Nat /\ 1 <= p /\ p < next_pid
  <2>1. Pids \subseteq 1 .. (next_pid - 1)
    BY DEF IInv, TypeOK
  <2> QED BY <1>1, <2>1
<1>3. frames \in Seq([pid : Nat, previous : Nat])
  BY DEF IInv, TypeOK
<1>4. Len(frames) \in Nat /\ DOMAIN frames = 1 .. Len(frames)
  BY <1>3
<1>5. \A i \in 1 .. Len(frames) : frames[i] \in [pid : Nat, previous : Nat]
  BY <1>3, ElementOfSeq, ZenonT(30)
<1>6. \A i \in 1 .. Len(frames) : frames[i].pid \in Pids
  BY <1>4 DEF IInv, FramesKeepMemory
<1>7. \A p \in Pids : procs[p] \in Entry
  BY DEF IInv, TypeOK, Entry
<1>8. IsFiniteSet(Pids) /\ Cardinality(Pids) \in Nat
  BY <1>1, TableFinite DEF IInv, TypeOK, Pids
<1> QED BY <1>1, <1>2, <1>3, <1>4, <1>5, <1>6, <1>7, <1>8

(* The entry that proc_create and proc_start_flat add for a new process. *)
LEMMA NewProcess ==
  ASSUME IInv, NEW parent \in Nat,
         procs' = SetCurrentTable(Extend(procs, NewPid, NewEntry(parent)),
                                  current_pid, NewPid)
  PROVE  /\ NewPid \notin Pids /\ NewPid \in Nat
         /\ Pids' = Pids \cup {NewPid}
         /\ procs' \in [Pids' -> Entry]
         /\ procs'[NewPid].parent = parent
         /\ procs'[NewPid].state = "RUNNING"
         /\ procs'[NewPid].memctx = next_ctx_id
         /\ \A q \in Pids :
              /\ procs'[q].parent = procs[q].parent
              /\ procs'[q].memctx = procs[q].memctx
              /\ procs'[q].state =
                   IF q = current_pid /\ procs[q].state = "RUNNING" THEN "READY"
                   ELSE procs[q].state
<1> DEFINE t == Extend(procs, NewPid, NewEntry(parent))
<1>1. NewPid \notin Pids /\ NewPid \in Nat
  BY DEF IInv, TypeOK, NewPid
<1>2. NewEntry(parent) \in Entry
  BY DEF IInv, TypeOK, NewEntry, Entry, States
<1>3. /\ DOMAIN t = Pids \cup {NewPid}
      /\ t[NewPid] = NewEntry(parent)
      /\ \A q \in Pids : t[q] = procs[q]
  BY <1>1 DEF Extend, Pids
<1>4. \A q \in DOMAIN t : t[q] \in Entry
  BY <1>2, <1>3 DEF IInv, TypeOK, Entry
<1>5. procs' = SetCurrentTable(t, current_pid, NewPid)
  OBVIOUS
<1> HIDE DEF t
<1>6. /\ DOMAIN procs' = DOMAIN t
      /\ \A q \in DOMAIN t :
              /\ procs'[q] \in Entry
              /\ procs'[q].state =
                   IF q = NewPid THEN "RUNNING"
                   ELSE IF q = current_pid /\ t[q].state = "RUNNING" THEN "READY"
                   ELSE t[q].state
              /\ procs'[q].parent = t[q].parent
              /\ procs'[q].memctx = t[q].memctx
  BY <1>4, <1>5, SetCurrentFacts
<1>7. procs' \in [Pids' -> Entry]
  <2>1. procs' = [q \in DOMAIN t |-> procs'[q]]
    BY <1>5 DEF SetCurrentTable
  <2> QED BY <2>1, <1>6 DEF Pids
<1> QED BY <1>1, <1>3, <1>6, <1>7 DEF Pids, NewEntry

LEMMA SpawnIInv == IInv /\ Spawn => IInv'
<1> SUFFICES ASSUME IInv, Spawn PROVE IInv'
  OBVIOUS
<1> DEFINE n == Len(frames)
           new == [pid |-> NewPid, previous |-> current_pid]
<1>1. /\ current_pid \in Pids /\ current_pid \in Nat /\ current_pid = Running
      /\ procs[current_pid].state = "RUNNING" /\ Alive(Running)
  BY DEF Spawn, proc_current_valid, IInv, TypeOK, CurrentIsInnermost, Alive
<1>2. /\ NewPid \notin Pids /\ NewPid \in Nat
      /\ Pids' = Pids \cup {NewPid}
      /\ procs' \in [Pids' -> Entry]
      /\ procs'[NewPid].parent = current_pid
      /\ procs'[NewPid].state = "RUNNING"
      /\ procs'[NewPid].memctx = next_ctx_id
      /\ \A q \in Pids :
           /\ procs'[q].parent = procs[q].parent
           /\ procs'[q].memctx = procs[q].memctx
           /\ procs'[q].state = IF q = current_pid THEN "READY" ELSE procs[q].state
  BY <1>1, NewProcess DEF Spawn
<1>3. frames \in Seq([pid : Nat, previous : Nat]) /\ new \in [pid : Nat, previous : Nat]
  BY <1>1, <1>2 DEF IInv, TypeOK
<1>4. /\ n \in Nat /\ DOMAIN frames = 1 .. n
      /\ frames' \in Seq([pid : Nat, previous : Nat])
      /\ Len(frames') = n + 1 /\ DOMAIN frames' = 1 .. (n + 1)
      /\ frames'[n + 1] = new
      /\ \A i \in 1 .. n : frames'[i] = frames[i]
  BY <1>3, AppendProperties DEF Spawn
<1>5. /\ DOMAIN ctxs' = DOMAIN ctxs \cup {next_ctx_id}
      /\ next_ctx_id \notin DOMAIN ctxs
      /\ ctxs'[next_ctx_id] = Blocks
      /\ \A c \in DOMAIN ctxs : ctxs'[c] = ctxs[c]
  BY DEF Spawn, Extend, IInv, Counters, TypeOK
<1>6. TypeOK'
  <2>1. Pids' \subseteq 1 .. (next_pid' - 1) /\ next_pid' \in Nat /\ next_ctx_id' \in Nat
    BY <1>2, Basics DEF Spawn, NewPid
  <2>2. Cardinality(Pids') <= ProcMax
    <3>1. IsFiniteSet(Pids) /\ Cardinality(Pids) \in Nat
      BY Basics
    <3>2. Cardinality(Pids') = Cardinality(Pids) + 1
      BY <1>2, <3>1, FS_AddElement, ZenonT(30)
    <3> QED BY <3>1, <3>2, ProcAssumption DEF Spawn, TableFull
  <2>3. current_pid' \in Pids'
    BY <1>2 DEF Spawn
  <2>4. ctxs' \in [DOMAIN ctxs' -> SUBSET Blocks]
    BY <1>5 DEF Spawn, Extend, IInv, TypeOK
  <2>5. panicked' \in BOOLEAN
    BY DEF Spawn, IInv, TypeOK
  <2> QED BY <1>2, <1>4, <2>1, <2>2, <2>3, <2>4, <2>5 DEF TypeOK, Entry
<1>7. Counters'
  BY <1>5 DEF IInv, Counters, TypeOK, Spawn
<1>8. CurrentIsInnermost'
  <2>1. Running' = NewPid
    BY <1>4 DEF Running
  <2>2. Alive(Running)'
    BY <1>2, <2>1 DEF Alive
  <2> QED BY <1>1, <1>2, <2>1, <2>2 DEF CurrentIsInnermost, Spawn, IInv
<1>9. FramesKeepMemory'
  <2>1. ASSUME NEW i \in 1 .. (n + 1)
        PROVE  /\ frames'[i].pid \in Pids'
               /\ procs'[frames'[i].pid].memctx \in DOMAIN ctxs'
               /\ {"image", "stack"} \subseteq ctxs'[procs'[frames'[i].pid].memctx]
    <3>1. CASE i = n + 1
      BY <1>2, <1>4, <1>5, <3>1 DEF Blocks
    <3>2. CASE i \in 1 .. n
      <4>1. /\ frames[i].pid \in Pids
            /\ procs[frames[i].pid].memctx \in DOMAIN ctxs
            /\ {"image", "stack"} \subseteq ctxs[procs[frames[i].pid].memctx]
        BY <1>4, <3>2, SMTT(30) DEF IInv, FramesKeepMemory
      <4> QED BY <1>2, <1>4, <1>5, <3>2, <4>1, SMTT(30)
    <3> QED BY <1>4, <3>1, <3>2
  <2> QED BY <1>4, <2>1 DEF FramesKeepMemory
<1>10. CallsNest'
  <2>1. \A i \in 1 .. n : frames[i].pid \in Pids /\ frames[i].pid < NewPid
    BY <1>4, Basics, ZenonT(30) DEF NewPid
  <2>2. current_pid = IF n = 0 THEN INIT_PID ELSE frames[n].pid
    BY <1>1, <1>3 DEF Running
  <2>3. ASSUME NEW i \in 1 .. (n + 1)
        PROVE  /\ frames'[i].previous = IF i = 1 THEN INIT_PID ELSE frames'[i - 1].pid
               /\ \A j \in 1 .. (i - 1) : frames'[j].pid < frames'[i].pid
               /\ frames'[i].pid # INIT_PID =>
                    procs'[frames'[i].pid].parent \in {frames'[i].previous, INIT_PID}
    <3>1. CASE i = n + 1
      <4>1. frames'[i].pid = NewPid /\ frames'[i].previous = current_pid
        BY <1>4, <3>1
      <4>2. /\ i = 1 <=> n = 0
            /\ i # 1 => i - 1 = n /\ n \in 1 .. n
            /\ \A j \in 1 .. (i - 1) : j \in 1 .. n
        <5>1. n \in Nat
          BY <1>4
        <5> HIDE DEF n
        <5> QED BY <3>1, <5>1
      <4>3. \A j \in 1 .. n : frames'[j].pid = frames[j].pid
        BY <1>4, SMTT(30)
      <4>4. frames'[i].previous = IF i = 1 THEN INIT_PID ELSE frames'[i - 1].pid
        BY <2>2, <4>1, <4>2, <4>3
      <4>5. \A j \in 1 .. (i - 1) : frames'[j].pid < frames'[i].pid
        BY <2>1, <4>1, <4>2, <4>3
      <4>6. procs'[frames'[i].pid].parent = frames'[i].previous
        BY <1>2, <4>1
      <4> QED BY <4>4, <4>5, <4>6
    <3>2. CASE i \in 1 .. n
      <4>1. /\ frames[i].previous = IF i = 1 THEN INIT_PID ELSE frames[i - 1].pid
            /\ \A j \in 1 .. (i - 1) : frames[j].pid < frames[i].pid
            /\ frames[i].pid # INIT_PID =>
                 procs[frames[i].pid].parent \in {frames[i].previous, INIT_PID}
        BY <1>4, <3>2, ZenonT(30) DEF IInv, CallsNest
      <4>2. \A j \in 1 .. i : frames'[j] = frames[j]
        BY <1>4, <3>2, SMTT(30)
      <4> /\ i \in 1 .. i /\ (i # 1 => i - 1 \in 1 .. i)
          /\ \A j \in 1 .. (i - 1) : j \in 1 .. i
        <5>1. n \in Nat
          BY <1>4
        <5> HIDE DEF n
        <5> QED BY <3>2, <5>1
      <4>3. frames'[i].previous = IF i = 1 THEN INIT_PID ELSE frames'[i - 1].pid
        BY <4>1, <4>2
      <4>4. \A j \in 1 .. (i - 1) : frames'[j].pid < frames'[i].pid
        BY <4>1, <4>2
      <4>5. procs'[frames[i].pid].parent = procs[frames[i].pid].parent
        BY <1>2, <2>1, <3>2
      <4> QED BY <1>4, <3>2, <4>1, <4>3, <4>4, <4>5, ZenonT(30)
    <3> QED BY <1>4, <3>1, <3>2
  <2> QED BY <1>4, <2>3, ZenonT(30) DEF CallsNest
<1>11. ParentsAlive'
  <2>1. NewPid # INIT_PID
    BY <1>1, <1>2, Basics DEF NewPid, INIT_PID
  <2>2. \A p \in Pids : Alive(p) => Alive(p)'
    BY <1>2 DEF Alive
  <2>3. Alive(INIT_PID)
    BY <1>1, Basics DEF IInv, ParentsAlive, INIT_PID
  <2>4. INIT_PID \in Pids /\ Alive(current_pid)
    BY <1>1, <2>3 DEF Alive
  <2>5. \A p \in Pids : IF p = INIT_PID THEN procs[p].parent = 0
                        ELSE Alive(procs[p].parent) /\ procs[p].parent \in Pids
    BY DEF IInv, ParentsAlive, Alive
  <2> QED BY <1>1, <1>2, <2>1, <2>2, <2>3, <2>4, <2>5, ZenonT(30) DEF ParentsAlive
<1>12. ContextsMatch'
  <2>1. DOMAIN ctxs' = {procs'[p].memctx : p \in Pids'}
    BY <1>2, <1>5 DEF IInv, ContextsMatch
  <2>2. \A p, q \in Pids' : procs'[p].memctx = procs'[q].memctx => p = q
    BY <1>2, <1>5 DEF IInv, ContextsMatch
  <2>3. ~TableFull' => ~CtxsFull'
    <3>1. IsFiniteSet(Pids') /\ Cardinality(Pids') \in Nat
      BY <1>6, TableFinite DEF TypeOK, Pids
    <3> QED BY <2>1, <3>1, ContextsSuffice DEF TableFull, CtxsFull, Pids
  <2> QED BY <2>1, <2>2, <2>3 DEF ContextsMatch
<1>13. NoneForgotten'
  <2>1. \A p \in Pids : Alive(p)' => Alive(p)
    BY <1>1, <1>2 DEF Alive
  <2>2. FramePids \subseteq FramePids' /\ NewPid \in FramePids'
    <3>1. \A i \in 1 .. n : frames'[i].pid = frames[i].pid /\ i \in 1 .. (n + 1)
      BY <1>4, SMTT(30)
    <3>2. frames'[n + 1].pid = NewPid /\ n + 1 \in 1 .. (n + 1)
      BY <1>4
    <3> QED BY <1>4, <3>1, <3>2, ZenonT(30) DEF FramePids
  <2> QED BY <1>2, <2>1, <2>2, ZenonT(30) DEF NoneForgotten, IInv
<1> QED BY <1>6, <1>7, <1>8, <1>9, <1>10, <1>11, <1>12, <1>13 DEF IInv

LEMMA BootIInv == IInv /\ Boot => IInv'
<1> SUFFICES ASSUME IInv, Boot PROVE IInv'
  OBVIOUS
<1>1. Pids = {} /\ NewPid = 1 /\ INIT_PID = 1
  BY Basics DEF Boot, INIT_PID, NewPid
<1>2. /\ Pids' = {1}
      /\ procs' \in [Pids' -> Entry]
      /\ procs'[1].parent = 0
      /\ procs'[1].state = "RUNNING"
      /\ procs'[1].memctx = next_ctx_id
  BY <1>1, NewProcess DEF Boot, BootedProcs
<1>3. DOMAIN ctxs = {}
  BY <1>1 DEF IInv, ContextsMatch
<1>4. PICK got \in SUBSET Blocks :
        /\ ctxs' = Extend(ctxs, next_ctx_id, got)
        /\ \/ got = Blocks /\ frames' = <<[pid |-> 1, previous |-> 1]>>
           \/ UNCHANGED frames
  BY <1>1 DEF Boot, Blocks
<1>5. /\ DOMAIN ctxs' = {next_ctx_id} /\ ctxs'[next_ctx_id] = got
      /\ ctxs' \in [DOMAIN ctxs' -> SUBSET Blocks]
  BY <1>3, <1>4 DEF Extend
<1>6. frames = <<>>
  <2>1. Len(frames) = 0
    BY <1>1, Basics
  <2> QED BY <2>1, Basics, EmptySeq
<1>7. \/ /\ got = Blocks /\ frames' = <<[pid |-> 1, previous |-> 1]>>
         /\ Len(frames') = 1 /\ DOMAIN frames' = {1}
         /\ frames'[1] = [pid |-> 1, previous |-> 1]
      \/ frames' = <<>> /\ DOMAIN frames' = {}
  BY <1>4, <1>6
<1>8. TypeOK'
  <2>1. next_pid' = 2 /\ next_ctx_id' \in Nat /\ Pids' \subseteq 1 .. (next_pid' - 1)
    BY <1>1, <1>2, Basics DEF Boot, NewPid
  <2>2. Cardinality(Pids') <= ProcMax
    BY <1>2, FS_Singleton, ProcAssumption
  <2>3. current_pid' \in Pids'
    BY <1>1, <1>2 DEF Boot
  <2>4. frames' \in Seq([pid : Nat, previous : Nat])
    <3>1. ASSUME NEW S, NEW x \in S PROVE <<x>> \in Seq(S) /\ <<>> \in Seq(S)
      OBVIOUS
    <3>2. [pid |-> 1, previous |-> 1] \in [pid : Nat, previous : Nat]
      OBVIOUS
    <3> QED BY <1>7, <3>1, <3>2, ZenonT(30)
  <2>5. panicked' \in BOOLEAN
    BY DEF Boot, IInv, TypeOK
  <2> QED BY <1>2, <1>5, <2>1, <2>2, <2>3, <2>4, <2>5, SMTT(30) DEF TypeOK, Entry
<1>9. Counters'
  BY <1>5, Basics DEF Counters, Boot
<1>10. CurrentIsInnermost'
  <2>1. Running' = 1
    BY <1>1, <1>7 DEF Running
  <2> QED BY <1>1, <1>2, <2>1 DEF CurrentIsInnermost, Alive, Boot
<1>11. FramesKeepMemory'
  BY <1>2, <1>5, <1>7 DEF FramesKeepMemory, Blocks
<1>12. CallsNest'
  BY <1>1, <1>7 DEF CallsNest
<1>13. ParentsAlive'
  BY <1>1, <1>2 DEF ParentsAlive, Alive
<1>14. ContextsMatch'
  <2>1. DOMAIN ctxs' = {procs'[p].memctx : p \in Pids'}
    BY <1>2, <1>5
  <2>2. IsFiniteSet(Pids')
    BY <1>2, FS_Singleton, ZenonT(30)
  <2>3. ~TableFull' => ~CtxsFull'
    BY <2>1, <2>2, ContextsSuffice DEF TableFull, CtxsFull, Pids
  <2> QED BY <1>2, <2>1, <2>3 DEF ContextsMatch
<1>15. NoneForgotten'
  BY <1>1, <1>2 DEF NoneForgotten
<1> QED BY <1>8, <1>9, <1>10, <1>11, <1>12, <1>13, <1>14, <1>15, SMTT(30) DEF IInv

LEMMA SpawnFailsIInv == IInv /\ SpawnFails => IInv'
<1> SUFFICES ASSUME IInv, SpawnFails PROVE IInv'
  OBVIOUS
<1>1. ctxs' = ctxs
  <2>1. ASSUME NEW got PROVE AbandonedContext(got) = ctxs
    <3>1. next_ctx_id \notin DOMAIN ctxs
      BY Basics DEF IInv, Counters
    <3>2. ctxs = [c \in DOMAIN ctxs |-> ctxs[c]]
      BY DEF IInv, TypeOK
    <3> QED BY <3>1, <3>2 DEF AbandonedContext, Extend, Remove, Restrict
  <2> QED BY <2>1 DEF SpawnFails
<1>2. /\ next_pid' = next_pid + 1
      /\ next_ctx_id' = next_ctx_id \/ next_ctx_id' = next_ctx_id + 1
      /\ UNCHANGED <<procs, current_pid, frames, panicked>>
  BY DEF SpawnFails
<1>3. Pids' = Pids
  BY <1>2 DEF Pids
<1>4. TypeOK'
  <2>1. Pids' \subseteq 1 .. (next_pid' - 1) /\ next_pid' \in Nat /\ next_ctx_id' \in Nat
    BY <1>2, <1>3, Basics
  <2> QED BY <1>1, <1>2, <1>3, <2>1 DEF IInv, TypeOK
<1>5. Counters'
  BY <1>1, <1>2, Basics DEF IInv, Counters
<1>6. ParentsAlive'
  <2>1. next_pid > INIT_PID
    BY <1>2, Basics, SMTT(30) DEF SpawnFails, proc_current_valid, INIT_PID
  <2> QED BY <1>2, <1>3, <2>1 DEF IInv, ParentsAlive, Alive
<1>7. (CurrentIsInnermost /\ FramesKeepMemory)'
  BY <1>1, <1>2, <1>3 DEF IInv, CurrentIsInnermost, FramesKeepMemory, Alive, Running
<1>8. CallsNest' /\ ContextsMatch'
  BY <1>1, <1>2, <1>3 DEF IInv, CallsNest, ContextsMatch, Alive, TableFull, CtxsFull
<1>9. NoneForgotten'
  BY <1>2, <1>3 DEF IInv, NoneForgotten, Alive, FramePids
<1> QED BY <1>4, <1>5, <1>6, <1>7, <1>8, <1>9 DEF IInv

(* proc_exit_locked of a process other than the first, by SYS_EXIT or      *)
(* SYS_PROC_KILL: the call of that process stays where it is.              *)
LEMMA ExitIInv ==
  ASSUME IInv, NEW p \in Pids, p # INIT_PID, Alive(p),
         proc_current_valid,
         procs' = ExitTable(procs, p),
         current_pid' = ExitCurrent(current_pid, p),
         UNCHANGED <<next_pid, ctxs, next_ctx_id, frames, panicked>>
  PROVE  IInv'
<1>1. /\ Pids' = Pids
      /\ \A q \in Pids :
           /\ procs'[q] \in Entry
           /\ procs'[q].state = IF q = p THEN "EXITED" ELSE procs[q].state
           /\ procs'[q].parent = IF procs[q].parent = p THEN INIT_PID ELSE procs[q].parent
           /\ procs'[q].memctx = procs[q].memctx
  <2>1. \A q \in DOMAIN procs : procs[q] \in Entry
    BY Basics, Zenon DEF Pids
  <2> QED BY <2>1, ExitTableFacts DEF Pids
<1>2. procs' \in [Pids' -> Entry]
  BY <1>1, ZenonT(30) DEF ExitTable, Pids
<1>3. current_pid' = IF current_pid = p THEN 0 ELSE current_pid
  BY DEF ExitCurrent
<1>4. \A q : Alive(q)' <=> Alive(q) /\ q # p
  BY <1>1 DEF Alive
<1>5. Running' = Running /\ FramePids' = FramePids
  BY DEF Running, FramePids
<1>6. 0 \notin Pids /\ INIT_PID # 0
  BY Basics DEF INIT_PID
<1>7. TypeOK'
  BY <1>1, <1>2, <1>3 DEF IInv, TypeOK, Entry
<1>8. Counters'
  BY DEF IInv, Counters
<1>9. CurrentIsInnermost'
  <2>1. current_pid = IF Alive(Running) THEN Running ELSE 0
    BY DEF IInv, CurrentIsInnermost
  <2>2. current_pid' = IF Alive(Running)' THEN Running' ELSE 0
    BY <1>3, <1>4, <1>5, <2>1
  <2>3. \A q \in Pids : procs[q].state = "RUNNING" <=> q = current_pid
    BY DEF IInv, CurrentIsInnermost
  <2>4. ASSUME NEW q \in Pids PROVE procs'[q].state = "RUNNING" <=> q = current_pid'
    <3>1. CASE q = p
      BY <1>1, <1>3, <1>6, <3>1
    <3>2. CASE q # p
      BY <1>1, <1>3, <1>6, <2>3, <3>2, SMTT(30)
    <3> QED BY <3>1, <3>2
  <2> QED BY <1>1, <2>2, <2>4 DEF CurrentIsInnermost
<1>10. FramesKeepMemory'
  BY <1>1 DEF IInv, FramesKeepMemory
<1>11. CallsNest'
  <2>1. \A i \in DOMAIN frames : frames[i].pid \in Pids
    BY Basics, SMTT(30)
  <2> QED BY <1>1, <2>1 DEF IInv, CallsNest
<1>12. ParentsAlive'
  <2>1. Alive(INIT_PID)
    BY Basics DEF IInv, ParentsAlive, INIT_PID
  <2>2. \A q \in Pids : IF q = INIT_PID THEN procs[q].parent = 0
                        ELSE Alive(procs[q].parent)
    BY DEF IInv, ParentsAlive
  <2> QED BY <1>1, <1>4, <1>6, <2>1, <2>2 DEF ParentsAlive
<1>13. ContextsMatch'
  BY <1>1 DEF IInv, ContextsMatch, TableFull, CtxsFull
<1>14. NoneForgotten'
  BY <1>1, <1>4, <1>5 DEF IInv, NoneForgotten
<1> QED BY <1>7, <1>8, <1>9, <1>10, <1>11, <1>12, <1>13, <1>14, SMTT(30) DEF IInv

(* proc_wait: the one place where a process's memory is freed.  The child  *)
(* is not below the caller in the nest of calls, and the caller is the     *)
(* innermost, so no call in progress belongs to the child.                 *)
LEMMA WaitIInv ==
  ASSUME IInv, NEW c \in Pids, Wait(c)
  PROVE  IInv'
<1> DEFINE n == Len(frames)
           m == procs[c].memctx
<1>1. /\ current_pid \in Pids /\ current_pid = Running /\ Alive(current_pid)
      /\ procs[c].parent = current_pid /\ procs[c].state = "EXITED"
  <2>1. 0 \notin Pids
    BY Basics
  <2> QED BY <2>1 DEF Wait, Waitable, proc_current_valid, IInv, CurrentIsInnermost, Alive
<1>2. /\ Pids' = Pids \ {c}
      /\ \A q \in Pids' : procs'[q] = procs[q]
      /\ procs' \in [Pids' -> Entry]
  BY Basics DEF Wait, Remove, Restrict, Pids
<1>3. /\ DOMAIN ctxs' = DOMAIN ctxs \ {m}
      /\ \A x \in DOMAIN ctxs' : ctxs'[x] = ctxs[x]
      /\ ctxs' \in [DOMAIN ctxs' -> SUBSET Blocks]
  BY DEF Wait, Remove, Restrict, IInv, TypeOK
<1>4. UNCHANGED <<next_pid, current_pid, next_ctx_id, frames, panicked>>
  BY DEF Wait
<1>5. c # current_pid /\ c # INIT_PID
  <2>1. Alive(INIT_PID)
    BY Basics DEF IInv, ParentsAlive, INIT_PID
  <2> QED BY <1>1, <2>1 DEF Alive
<1>6. \A i \in 1 .. n : frames[i].pid # c
  <2> SUFFICES ASSUME NEW i \in 1 .. n, frames[i].pid = c PROVE FALSE
    OBVIOUS
  <2>1. n \in Nat /\ DOMAIN frames = 1 .. n
    BY Basics
  <2>2. \A j \in 1 .. n : frames[j].pid \in Nat /\ frames[j].pid >= 1
    BY Basics, SMTT(30)
  <2>3. Running = frames[n].pid /\ n \in 1 .. n
    BY <2>1 DEF Running
  <2>4. \A j, k \in 1 .. n : j < k => frames[j].pid < frames[k].pid
    BY <2>1 DEF IInv, CallsNest
  <2>5. \/ current_pid = INIT_PID
        \/ i # 1 /\ current_pid = frames[i - 1].pid
    BY <1>1, <1>5, <2>1 DEF IInv, CallsNest
  <2> HIDE DEF n
  <2>6. frames[n].pid # INIT_PID
    <3>1. CASE i = n
      BY <1>5, <3>1
    <3>2. CASE i < n
      BY <2>1, <2>2, <2>3, <2>4, <3>2 DEF INIT_PID
    <3> QED BY <2>1, <3>1, <3>2
  <2>7. i # 1 /\ frames[n].pid = frames[i - 1].pid
    BY <1>1, <2>3, <2>5, <2>6
  <2>8. i - 1 \in 1 .. n /\ i - 1 < n
    BY <2>1, <2>7
  <2> QED BY <2>2, <2>3, <2>4, <2>7, <2>8
<1>7. TypeOK'
  <2>1. Cardinality(Pids') <= ProcMax
    <3>1. IsFiniteSet(Pids) /\ Cardinality(Pids) \in Nat /\ Cardinality(Pids) <= ProcMax
      BY Basics DEF IInv, TypeOK
    <3>2. Cardinality(Pids') = Cardinality(Pids) - 1
      BY <1>2, <3>1, FS_RemoveElement
    <3> QED BY <3>1, <3>2, ProcAssumption
  <2>2. Pids' \subseteq 1 .. (next_pid' - 1) /\ next_pid' \in Nat /\ next_ctx_id' \in Nat
    BY <1>2, <1>4, Basics
  <2>3. current_pid' \in Pids'
    BY <1>1, <1>2, <1>4, <1>5
  <2> QED BY <1>2, <1>3, <1>4, <2>1, <2>2, <2>3 DEF IInv, TypeOK, Entry
<1>8. Counters'
  BY <1>3, <1>4 DEF IInv, Counters
<1>9. Running' = Running /\ FramePids' = FramePids
  BY <1>4 DEF Running, FramePids
<1>10. \A q : Alive(q)' <=> Alive(q)
  BY <1>1, <1>2 DEF Alive
<1>11. CurrentIsInnermost'
  BY <1>2, <1>4, <1>9, <1>10 DEF IInv, CurrentIsInnermost
<1>12. FramesKeepMemory'
  <2>1. ASSUME NEW i \in DOMAIN frames
        PROVE  /\ frames[i].pid \in Pids'
               /\ procs'[frames[i].pid].memctx \in DOMAIN ctxs'
               /\ {"image", "stack"} \subseteq ctxs'[procs'[frames[i].pid].memctx]
    <3>1. frames[i].pid \in Pids /\ frames[i].pid # c
      BY <1>6, Basics, SMTT(30)
    <3>2. procs[frames[i].pid].memctx # m
      BY <3>1 DEF IInv, ContextsMatch
    <3>3. procs'[frames[i].pid] = procs[frames[i].pid]
      BY <1>2, <3>1, SMTT(30)
    <3> QED BY <1>2, <1>3, <3>1, <3>2, <3>3, SMTT(30) DEF IInv, FramesKeepMemory
  <2> QED BY <1>4, <2>1 DEF FramesKeepMemory
<1>13. CallsNest'
  <2>1. \A i \in DOMAIN frames : procs'[frames[i].pid] = procs[frames[i].pid]
    BY <1>2, <1>6, Basics
  <2> QED BY <1>4, <2>1 DEF IInv, CallsNest
<1>14. ParentsAlive'
  BY <1>2, <1>4, <1>10 DEF IInv, ParentsAlive
<1>15. ContextsMatch'
  <2>1. DOMAIN ctxs' = {procs'[p].memctx : p \in Pids'}
    BY <1>2, <1>3 DEF IInv, ContextsMatch
  <2>2. \A p, q \in Pids' : procs'[p].memctx = procs'[q].memctx => p = q
    BY <1>2 DEF IInv, ContextsMatch
  <2>3. IsFiniteSet(Pids')
    BY <1>2, FS_RemoveElement, Basics
  <2>4. ~TableFull' => ~CtxsFull'
    BY <2>1, <2>3, ContextsSuffice DEF TableFull, CtxsFull, Pids
  <2> QED BY <2>1, <2>2, <2>4 DEF ContextsMatch
<1>16. NoneForgotten'
  BY <1>2, <1>9, <1>10, SMTT(30) DEF IInv, NoneForgotten
<1> QED BY <1>7, <1>8, <1>11, <1>12, <1>13, <1>14, <1>15, <1>16, SMTT(30) DEF IInv

(* The end of proc_start_flat: whether the process has exited before or    *)
(* exits now, nobody is current, it has no children left, and its caller   *)
(* becomes current exactly if it has not exited.                           *)
LEMMA ReturnFacts ==
  ASSUME IInv, Return, panicked' = FALSE
  PROVE  LET n == Len(frames)
             p == frames[n].pid
             caller == frames[n].previous
         IN  /\ n \in Nat /\ n >= 1
             /\ p \in Pids /\ p # INIT_PID
             /\ caller \in Pids /\ caller # p
             /\ caller = IF n = 1 THEN INIT_PID ELSE frames[n - 1].pid
             /\ Pids' = Pids /\ procs' \in [Pids' -> Entry]
             /\ current_pid' = IF Alive(caller) THEN caller ELSE 0
             /\ \A q \in Pids :
                  /\ procs'[q].memctx = procs[q].memctx
                  /\ procs'[q].parent =
                       IF procs[q].parent = p THEN INIT_PID ELSE procs[q].parent
                  /\ procs'[q].state =
                       IF q = p THEN "EXITED"
                       ELSE IF q = caller /\ Alive(caller) THEN "RUNNING"
                       ELSE procs[q].state
             /\ frames' = SubSeq(frames, 1, n - 1)
             /\ UNCHANGED <<next_pid, ctxs, next_ctx_id, panicked>>
<1> DEFINE n == Len(frames)
           f == frames[n]
           p == f.pid
           caller == f.previous
           ends == EndsOnReturn(p)
           t == IF ends THEN ExitTable(procs, p) ELSE procs
           cur == IF ends THEN ExitCurrent(current_pid, p) ELSE current_pid
           r == Resume(t, cur, f)
<1>1. n \in Nat /\ n >= 1 /\ DOMAIN frames = 1 .. n /\ n \in 1 .. n
  <2>1. n \in Nat /\ DOMAIN frames = 1 .. n /\ frames \in Seq([pid : Nat, previous : Nat])
    BY Basics
  <2>2. n # 0
    BY <2>1, EmptySeq DEF Return
  <2> QED BY <2>1, <2>2
<1>2. p \in Pids /\ p \in Nat
  BY <1>1, Basics
<1>3. ends <=> Alive(p)
  BY <1>2 DEF EndsOnReturn, Alive, proc_is_terminal_state
<1>4. Alive(INIT_PID) /\ INIT_PID \in Pids
  BY <1>2, Basics DEF IInv, ParentsAlive, INIT_PID, Alive
<1>5. p # INIT_PID /\ ~panicked
  <2>1. ~panicked' /\ ~panicked
    BY DEF Return
  <2> QED BY <1>3, <1>4, <2>1 DEF Return
<1>6. /\ procs' = r.table /\ current_pid' = r.current
      /\ frames' = SubSeq(frames, 1, n - 1)
      /\ UNCHANGED <<next_pid, ctxs, next_ctx_id, panicked>>
  BY <1>5 DEF Return
<1>7. caller = IF n = 1 THEN INIT_PID ELSE frames[n - 1].pid
  BY <1>1 DEF IInv, CallsNest
<1>8. caller \in Pids /\ caller # p /\ caller # 0
  <2>1. CASE n = 1
    BY <1>4, <1>5, <1>7, <2>1 DEF INIT_PID
  <2>2. CASE n # 1
    <3>1. n - 1 \in 1 .. n /\ n - 1 \in 1 .. (n - 1)
      BY <1>1, <2>2
    <3>2. frames[n - 1].pid \in Pids
      BY <3>1, Basics
    <3>3. frames[n - 1].pid < p
      BY <1>1, <3>1 DEF IInv, CallsNest
    <3>4. frames[n - 1].pid \in Nat /\ frames[n - 1].pid >= 1
      BY <3>2, Basics, SMTT(30)
    <3> QED BY <1>2, <1>7, <2>2, <3>2, <3>3, <3>4
  <2> QED BY <2>1, <2>2
<1>9. cur = 0
  <2>1. Running = p
    BY <1>1 DEF Running
  <2>2. current_pid = IF Alive(p) THEN p ELSE 0
    BY <2>1 DEF IInv, CurrentIsInnermost
  <2> QED BY <1>3, <2>2 DEF ExitCurrent
<1>10. /\ DOMAIN t = Pids
       /\ t \in [Pids -> Entry]
       /\ \A q \in Pids :
            /\ t[q] \in Entry
            /\ t[q].state = IF q = p THEN "EXITED" ELSE procs[q].state
            /\ t[q].parent = IF procs[q].parent = p THEN INIT_PID ELSE procs[q].parent
            /\ t[q].memctx = procs[q].memctx
  <2>1. CASE ends
    <3>1. t = ExitTable(procs, p)
      BY <2>1
    <3> HIDE DEF t
    <3>2. /\ DOMAIN t = Pids
          /\ \A q \in Pids :
               /\ t[q] \in Entry
               /\ t[q].state = IF q = p THEN "EXITED" ELSE procs[q].state
               /\ t[q].parent = IF procs[q].parent = p THEN INIT_PID ELSE procs[q].parent
               /\ t[q].memctx = procs[q].memctx
      <4>1. \A q \in DOMAIN procs : procs[q] \in Entry
        BY Basics, Zenon DEF Pids
      <4> QED BY <3>1, <4>1, ExitTableFacts DEF Pids
    <3>3. t = [q \in Pids |-> t[q]]
      BY <3>1, ZenonT(30) DEF ExitTable, Pids
    <3> QED BY <3>2, <3>3
  <2>2. CASE ~ends
    <3>1. t = procs /\ procs[p].state = "EXITED"
      BY <1>2, <1>3, <2>2 DEF Alive
    <3>2. \A q \in Pids : procs[q].parent # p
      <4>1. \A q \in Pids : procs[q].parent = 0 \/ Alive(procs[q].parent)
        BY DEF IInv, ParentsAlive
      <4>2. p # 0
        BY <1>2, Basics
      <4> QED BY <1>3, <2>2, <4>1, <4>2
    <3>3. procs \in [Pids -> Entry]
      BY DEF IInv, TypeOK, Entry
    <3> QED BY <3>1, <3>2, <3>3 DEF Pids
  <2> QED BY <2>1, <2>2
<1>11. Settable(t, caller) <=> Alive(caller)
  BY <1>8, <1>10, SMTT(30) DEF Settable, proc_is_terminal_state, Alive
<1> HIDE DEF t, cur
<1>12. /\ r.table = IF Alive(caller) THEN SetCurrentTable(t, 0, caller) ELSE t
       /\ r.current = IF Alive(caller) THEN caller ELSE 0
  <2>1. r = IF Settable(t, caller)
            THEN [table |-> SetCurrentTable(t, cur, caller), current |-> caller]
            ELSE [table |-> t, current |-> cur]
    BY <1>8, <1>10, Zenon DEF Resume
  <2> HIDE DEF r
  <2> QED BY <1>9, <1>11, <2>1
<1>13. /\ Pids' = Pids /\ procs' \in [Pids' -> Entry]
       /\ \A q \in Pids :
            /\ procs'[q].memctx = procs[q].memctx
            /\ procs'[q].parent =
                 IF procs[q].parent = p THEN INIT_PID ELSE procs[q].parent
            /\ procs'[q].state =
                 IF q = p THEN "EXITED"
                 ELSE IF q = caller /\ Alive(caller) THEN "RUNNING"
                 ELSE procs[q].state
  <2>1. CASE Alive(caller)
    <3>1. procs' = SetCurrentTable(t, 0, caller)
      BY <1>6, <1>12, <2>1
    <3>2. 0 \notin Pids
      BY Basics, SMTT(30)
    <3>3. /\ DOMAIN procs' = Pids
          /\ \A q \in Pids :
               /\ procs'[q] \in Entry
               /\ procs'[q].state = IF q = caller THEN "RUNNING" ELSE t[q].state
               /\ procs'[q].parent = t[q].parent
               /\ procs'[q].memctx = t[q].memctx
      BY <1>10, <3>1, <3>2, SetCurrentFacts
    <3>4. procs' = [q \in Pids |-> procs'[q]]
      BY <1>10, <3>1 DEF SetCurrentTable
    <3>5. procs' \in [Pids' -> Entry] /\ Pids' = Pids
      BY <3>3, <3>4, SMTT(30) DEF Pids
    <3> QED BY <1>8, <1>10, <2>1, <3>3, <3>5, SMTT(30)
  <2>2. CASE ~Alive(caller)
    <3>1. procs' = t
      BY <1>6, <1>12, <2>2
    <3> QED BY <1>10, <2>2, <3>1 DEF Pids
  <2> QED BY <2>1, <2>2, SMTT(30)
<1> QED BY <1>1, <1>2, <1>5, <1>6, <1>7, <1>8, <1>12, <1>13, ZenonT(30)

LEMMA ReturnIInv ==
  ASSUME IInv, Return, panicked' = FALSE
  PROVE  IInv'
<1> DEFINE n == Len(frames)
           p == frames[n].pid
           caller == frames[n].previous
<1>1. /\ n \in Nat /\ n >= 1
      /\ p \in Pids /\ p # INIT_PID
      /\ caller \in Pids /\ caller # p
      /\ caller = IF n = 1 THEN INIT_PID ELSE frames[n - 1].pid
      /\ Pids' = Pids /\ procs' \in [Pids' -> Entry]
      /\ current_pid' = IF Alive(caller) THEN caller ELSE 0
      /\ \A q \in Pids :
           /\ procs'[q].memctx = procs[q].memctx
           /\ procs'[q].parent =
                IF procs[q].parent = p THEN INIT_PID ELSE procs[q].parent
           /\ procs'[q].state =
                IF q = p THEN "EXITED"
                ELSE IF q = caller /\ Alive(caller) THEN "RUNNING"
                ELSE procs[q].state
      /\ frames' = SubSeq(frames, 1, n - 1)
      /\ UNCHANGED <<next_pid, ctxs, next_ctx_id, panicked>>
  BY ReturnFacts, ZenonT(30)
<1>2. /\ frames' \in Seq([pid : Nat, previous : Nat])
      /\ Len(frames') = n - 1 /\ DOMAIN frames' = 1 .. (n - 1)
      /\ \A i \in 1 .. (n - 1) : frames'[i] = frames[i]
  <2>1. frames \in Seq([pid : Nat, previous : Nat])
    BY Basics
  <2>2. n \in Nat \ {0}
    BY <1>1
  <2>3. /\ SubSeq(frames, 1, n - 1) \in Seq([pid : Nat, previous : Nat])
        /\ Len(SubSeq(frames, 1, n - 1)) = n - 1
        /\ \A i \in 1 .. (n - 1) : SubSeq(frames, 1, n - 1)[i] = frames[i]
    BY <2>1, <2>2, DropLast, ZenonT(30)
  <2> QED BY <1>1, <2>3
<1>3. DOMAIN frames = 1 .. n /\ \A i \in 1 .. n : frames[i].pid \in Pids
  BY Basics
<1>4. \A q : Alive(q)' <=> Alive(q) /\ q # p
  BY <1>1 DEF Alive
<1>5. 0 \notin Pids /\ INIT_PID # 0
  BY Basics DEF INIT_PID
<1>6. Running = p /\ Running' = caller
  <2>1. Running = p
    BY <1>1 DEF Running
  <2>2. CASE n = 1
    <3>1. frames' = <<>>
      BY <1>2, <2>2, EmptySeq
    <3> QED BY <1>1, <2>1, <2>2, <3>1 DEF Running
  <2>3. CASE n # 1
    <3>1. n - 1 \in 1 .. (n - 1)
      <4>1. n \in Nat /\ n >= 1
        BY <1>1
      <4> HIDE DEF n
      <4> QED BY <2>3, <4>1
    <3>2. frames' # <<>> /\ frames'[Len(frames')] = frames[n - 1]
      BY <1>2, <3>1, SMTT(30)
    <3> QED BY <1>1, <2>1, <2>3, <3>2 DEF Running
  <2> QED BY <2>2, <2>3
<1>7. TypeOK'
  <2>1. current_pid' \in Pids' \cup {0}
    BY <1>1
  <2> QED BY <1>1, <1>2, <2>1, ZenonT(30) DEF IInv, TypeOK, Entry
<1>8. Counters'
  BY <1>1 DEF IInv, Counters
<1>9. CurrentIsInnermost'
  <2>1. current_pid = IF Alive(p) THEN p ELSE 0
    BY <1>6 DEF IInv, CurrentIsInnermost
  <2>2. \A q \in Pids : procs[q].state = "RUNNING" => q = p
    BY <1>5, <2>1, SMTT(30) DEF IInv, CurrentIsInnermost
  <2>3. current_pid' = IF Alive(Running)' THEN Running' ELSE 0
    BY <1>1, <1>4, <1>6
  <2>4. \A q \in Pids : procs'[q].state = "RUNNING" <=> q = current_pid'
    BY <1>1, <1>5, <2>2, SMTT(30)
  <2> QED BY <1>1, <2>3, <2>4 DEF CurrentIsInnermost
<1>10. FramesKeepMemory'
  <2>1. ASSUME NEW i \in 1 .. (n - 1)
        PROVE  /\ frames'[i].pid \in Pids
               /\ procs'[frames'[i].pid].memctx \in DOMAIN ctxs
               /\ {"image", "stack"} \subseteq ctxs[procs'[frames'[i].pid].memctx]
    <3>1. i \in 1 .. n
      <4>1. n \in Nat
        BY <1>1
      <4> HIDE DEF n
      <4> QED BY <4>1
    <3>2. frames'[i] = frames[i] /\ frames[i].pid \in Pids
      BY <1>2, <1>3, <3>1, SMTT(30)
    <3>3. procs'[frames[i].pid].memctx = procs[frames[i].pid].memctx
      BY <1>1, <3>2, SMTT(30)
    <3> QED BY <1>3, <3>1, <3>2, <3>3 DEF IInv, FramesKeepMemory
  <2> QED BY <1>1, <1>2, <2>1, ZenonT(30) DEF FramesKeepMemory
<1>11. CallsNest'
  <2> SUFFICES ASSUME NEW i \in 1 .. (n - 1)
      PROVE  /\ frames'[i].previous = IF i = 1 THEN INIT_PID ELSE frames'[i - 1].pid
             /\ \A j \in 1 .. (i - 1) : frames'[j].pid < frames'[i].pid
             /\ frames'[i].pid # INIT_PID =>
                  procs'[frames'[i].pid].parent \in {frames'[i].previous, INIT_PID}
    BY <1>2, ZenonT(30) DEF CallsNest
  <2>1. n \in Nat
    BY <1>1
  <2>2. /\ i \in 1 .. n /\ (i # 1 => i - 1 \in 1 .. (n - 1))
        /\ \A j \in 1 .. (i - 1) : j \in 1 .. (n - 1)
    <3> HIDE DEF n
    <3> QED BY <2>1
  <2>3. /\ frames[i].previous = IF i = 1 THEN INIT_PID ELSE frames[i - 1].pid
        /\ \A j \in 1 .. (i - 1) : frames[j].pid < frames[i].pid
        /\ frames[i].pid # INIT_PID =>
             procs[frames[i].pid].parent \in {frames[i].previous, INIT_PID}
    BY <1>3, <2>2 DEF IInv, CallsNest
  <2>4. \A j \in 1 .. (n - 1) : frames'[j] = frames[j]
    BY <1>2
  <2>5. frames[i].pid \in Pids
    BY <1>3, <2>2, SMTT(30)
  <2>6. procs'[frames[i].pid].parent \in {procs[frames[i].pid].parent, INIT_PID}
    <3> DEFINE q == frames[i].pid
    <3> HIDE DEF q
    <3>1. q \in Pids => procs'[q].parent \in {procs[q].parent, INIT_PID}
      BY <1>1, Zenon
    <3> QED BY <2>5, <3>1 DEF q
  <2> QED BY <2>2, <2>3, <2>4, <2>6, ZenonT(30)
<1>12. ParentsAlive'
  <2>1. Alive(INIT_PID)
    BY <1>1, Basics, SMTT(30) DEF IInv, ParentsAlive, INIT_PID
  <2>2. \A q \in Pids : IF q = INIT_PID THEN procs[q].parent = 0
                        ELSE Alive(procs[q].parent)
    BY SMTT(30) DEF IInv, ParentsAlive
  <2> QED BY <1>1, <1>4, <1>5, <2>1, <2>2, SMTT(30) DEF ParentsAlive
<1>13. ContextsMatch'
  BY <1>1, SMTT(30) DEF IInv, ContextsMatch, TableFull, CtxsFull
<1>14. NoneForgotten'
  <2>1. ASSUME NEW q \in Pids \ {INIT_PID}, Alive(q)' PROVE q \in FramePids'
    <3>1. Alive(q) /\ q # p
      BY <1>4, <2>1
    <3>2. PICK i \in 1 .. n : q = frames[i].pid
      BY <1>3, <3>1, SMTT(30) DEF IInv, NoneForgotten, FramePids
    <3>3. i \in 1 .. (n - 1)
      BY <1>1, <3>1, <3>2
    <3>4. frames'[i].pid = q /\ i \in DOMAIN frames'
      BY <1>2, <3>2, <3>3, SMTT(30)
    <3> QED BY <3>4 DEF FramePids
  <2> QED BY <1>1, <2>1 DEF NoneForgotten
<1> QED BY <1>7, <1>8, <1>9, <1>10, <1>11, <1>12, <1>13, <1>14, SMTT(30) DEF IInv

(* Steps that change nothing the invariant is about: a panic or none. *)
LEMMA StutterIInv ==
  ASSUME IInv, UNCHANGED <<procs, next_pid, current_pid, ctxs, next_ctx_id, frames>>,
         panicked' \in BOOLEAN
  PROVE  IInv'
<1>1. Pids' = Pids
  BY DEF Pids
<1>2. TypeOK'
  BY <1>1 DEF IInv, TypeOK
<1>3. (Counters /\ CurrentIsInnermost /\ FramesKeepMemory /\ CallsNest)'
  <2>1. Counters'
    BY DEF IInv, Counters
  <2>2. Running' = Running /\ \A q : Alive(q)' <=> Alive(q)
    BY <1>1 DEF Running, Alive
  <2>3. CurrentIsInnermost'
    BY <1>1, <2>2, Zenon DEF IInv, CurrentIsInnermost
  <2>4. FramesKeepMemory'
    BY <1>1, Zenon DEF IInv, FramesKeepMemory
  <2>5. CallsNest'
    BY <1>1, Zenon DEF IInv, CallsNest
  <2> QED BY <2>1, <2>3, <2>4, <2>5
<1>4. (ParentsAlive /\ ContextsMatch /\ NoneForgotten)'
  BY <1>1 DEF IInv, ParentsAlive, ContextsMatch, NoneForgotten, Alive, FramePids,
              TableFull, CtxsFull
<1> QED BY <1>2, <1>3, <1>4 DEF IInv

LEMMA NextIInv == IInv /\ [Next]_vars => IInv'
<1> SUFFICES ASSUME IInv, [Next]_vars PROVE IInv'
  OBVIOUS
<1>1. CASE Boot
  BY <1>1, BootIInv
<1>2. CASE Spawn
  BY <1>2, SpawnIInv
<1>3. CASE SpawnFails
  BY <1>3, SpawnFailsIInv
<1>4. CASE Exit
  <2>1. CASE current_pid = INIT_PID
    BY <1>4, <2>1, StutterIInv DEF Exit, ExitProcess
  <2>2. CASE current_pid # INIT_PID
    <3>1. current_pid \in Pids /\ Alive(current_pid)
      BY <1>4 DEF Exit, proc_current_valid, Alive
    <3> QED BY <1>4, <2>2, <3>1, ExitIInv, SMTT(30) DEF Exit, ExitProcess
  <2> QED BY <2>1, <2>2
<1>5. ASSUME NEW p \in Pids, Kill(p) PROVE IInv'
  <2>1. Alive(p)
    BY <1>5 DEF Kill, Alive, proc_is_terminal_state
  <2> QED BY <1>5, <2>1, ExitIInv DEF Kill, ExitProcess
<1>6. ASSUME NEW p \in Pids, Wait(p) PROVE IInv'
  BY <1>6, WaitIInv
<1>7. CASE Return
  <2>1. CASE panicked' = FALSE
    BY <1>7, <2>1, ReturnIInv, ZenonT(30)
  <2>2. CASE panicked' # FALSE
    <3>1. /\ panicked' = TRUE
          /\ UNCHANGED <<procs, next_pid, current_pid, ctxs, next_ctx_id, frames>>
      <4>1. panicked \in BOOLEAN
        BY DEF IInv, TypeOK
      <4> QED BY <1>7, <2>2, <4>1, ZenonT(30) DEF Return
    <3> QED BY <3>1, StutterIInv
  <2> QED BY <2>1, <2>2, ZenonT(30)
<1>8. CASE UNCHANGED vars
  <2>1. panicked' \in BOOLEAN
    BY <1>8 DEF vars, IInv, TypeOK
  <2> QED BY <1>8, <2>1, StutterIInv DEF vars
<1> QED BY <1>1, <1>2, <1>3, <1>4, <1>5, <1>6, <1>7, <1>8, SMTT(30) DEF Next

-----------------------------------------------------------------------------
(***************************************************************************)
(* The strengthened invariant holds in every reachable state.              *)
(***************************************************************************)
THEOREM Invariant == Spec => []IInv
<1>1. Init => IInv
  BY InitIInv
<1>2. IInv /\ [Next]_vars => IInv'
  BY NextIInv
<1> QED BY <1>1, <1>2, PTL DEF Spec

(***************************************************************************)
(* The process table has the types proc.c gives it, and never holds more   *)
(* than PROC_MAX processes.                                                *)
(***************************************************************************)
THEOREM TypeCorrect == Spec => []TypeOK
<1>1. IInv => TypeOK
  BY DEF IInv
<1> QED BY <1>1, Invariant, PTL

(***************************************************************************)
(* current_pid names the innermost call's process while it has not exited  *)
(* and nobody afterwards; nobody else is RUNNING.                          *)
(***************************************************************************)
THEOREM CurrentCorrect == Spec => []CurrentIsInnermost
<1>1. IInv => CurrentIsInnermost
  BY DEF IInv
<1> QED BY <1>1, Invariant, PTL

(***************************************************************************)
(* proc_wait never frees the image or the stack of a call in progress, for *)
(* any table size and any depth of nesting.                                *)
(***************************************************************************)
THEOREM SuspendedMemorySafe == Spec => []FramesKeepMemory
<1>1. IInv => FramesKeepMemory
  BY DEF IInv
<1> QED BY <1>1, Invariant, PTL

(***************************************************************************)
(* Every process has a parent that can still collect it.                   *)
(***************************************************************************)
THEOREM OrphansAdopted == Spec => []ParentsAlive
<1>1. IInv => ParentsAlive
  BY DEF IInv
<1> QED BY <1>1, Invariant, PTL

(***************************************************************************)
(* No memory context leaks, and memctx_create never fails in proc_create.  *)
(***************************************************************************)
THEOREM ContextsCorrect == Spec => []ContextsMatch
<1>1. IInv => ContextsMatch
  BY DEF IInv
<1> QED BY <1>1, Invariant, PTL

(***************************************************************************)
(* Every process but the first that has not exited is in a call of         *)
(* proc_start_flat: none is left READY with nobody to return to it.        *)
(***************************************************************************)
THEOREM NobodyForgotten == Spec => []NoneForgotten
<1>1. IInv => NoneForgotten
  BY DEF IInv
<1> QED BY <1>1, Invariant, PTL
-----------------------------------------------------------------------------
(***************************************************************************)
(* The process table implements the life cycle of Lifecycle, and an exit   *)
(* is final, for every size of the table: from the invariant above.        *)
(***************************************************************************)

(* The abstract state. *)
parents == [p \in Pids |-> procs[p].parent]
gone == {p \in Pids : procs[p].state = "EXITED"}
used == 1 .. (next_pid - 1)
life == <<parents, gone, used, panicked>>

(* Nothing panics before process 1 exists. *)
Early == next_pid = INIT_PID => panicked = FALSE
RInv == IInv /\ Early

LEMMA NumberUsed ==
  ASSUME IInv, next_pid' = next_pid + 1
  PROVE  used' = used \cup {next_pid} /\ next_pid \in used' \ used
<1>1. next_pid \in Nat /\ next_pid >= 1
  BY Basics
<1> QED BY <1>1 DEF used

LEMMA NumbersKept ==
  ASSUME UNCHANGED next_pid PROVE used' = used
  BY DEF used

-----------------------------------------------------------------------------
(* The operations, one by one. *)

LEMMA BootLife ==
  ASSUME RInv, Boot PROVE Life!LifeNext /\ gone \subseteq gone'
<1>1. Pids = {} /\ NewPid = 1 /\ next_pid = 1 /\ panicked = FALSE
  BY Basics DEF RInv, Early, Boot, INIT_PID, NewPid
<1>2. procs' = SetCurrentTable(Extend(procs, NewPid, NewEntry(0)), current_pid, NewPid)
  BY DEF Boot, BootedProcs
<1>3. /\ Pids' = {1} /\ procs'[1].parent = 0 /\ procs'[1].state = "RUNNING"
  BY <1>1, <1>2, NewProcess DEF RInv
<1>4. parents' = [p \in {1} |-> 0] /\ gone = {} /\ gone' = {}
  BY <1>1, <1>3 DEF parents, gone
<1>5. used = {} /\ used' = {1}
  BY <1>1 DEF used, Boot
<1>6. UNCHANGED panicked
  BY DEF Boot
<1>7. Life!Boot
  BY <1>4, <1>5, <1>6 DEF Life!Boot, Life!First, Life!Nobody, parents, gone, used
<1> QED BY <1>1, <1>4, <1>7 DEF Life!LifeNext

LEMMA SpawnLife ==
  ASSUME IInv, Spawn PROVE Life!LifeNext /\ gone \subseteq gone'
<1>1. /\ current_pid \in Pids /\ procs[current_pid].state = "RUNNING"
      /\ panicked = FALSE /\ UNCHANGED panicked /\ next_pid' = next_pid + 1 /\ NewPid = next_pid
  <2>1. panicked = FALSE
    BY ZenonT(30) DEF Spawn, IInv, TypeOK
  <2> QED BY <2>1 DEF Spawn, proc_current_valid, NewPid
<1>2. current_pid \in Nat
  BY <1>1, Basics
<1>3. /\ NewPid \notin Pids /\ Pids' = Pids \cup {NewPid}
      /\ procs'[NewPid].parent = current_pid /\ procs'[NewPid].state = "RUNNING"
      /\ \A q \in Pids : /\ procs'[q].parent = procs[q].parent
                         /\ procs'[q].state =
                              IF q = current_pid /\ procs[q].state = "RUNNING" THEN "READY"
                              ELSE procs[q].state
  BY <1>2, NewProcess DEF Spawn
<1>4. parents' = [q \in Pids \cup {NewPid} |-> IF q = NewPid THEN current_pid ELSE parents[q]]
  BY <1>3 DEF parents
<1>5. gone' = gone
  BY <1>3 DEF gone
<1>6. used' = used \cup {NewPid} /\ NewPid \in used' \ used
  BY <1>1, NumberUsed
<1>7. DOMAIN parents = Pids /\ current_pid \notin gone
  BY <1>1 DEF parents, gone
<1>8. ASSUME NEW p \in Pids, p = current_pid
      PROVE  Life!Fork(p)
  <2>1. parents' = [q \in DOMAIN parents \cup {NewPid} |-> IF q = NewPid THEN p ELSE parents[q]]
    BY <1>4, <1>7, <1>8
  <2>2. p \in DOMAIN parents \ gone
    BY <1>7, <1>8
  <2> QED BY <1>1, <1>5, <1>6, <2>1, <2>2 DEF Life!Fork, Life!Alive, parents, gone, used
<1>9. ~panicked
  BY <1>1
<1>10. \E p \in DOMAIN [q \in Pids |-> procs[q].parent] : Life!Fork(p)
  BY <1>1, <1>8
<1>11. Life!LifeNext
  BY <1>9, <1>10 DEF Life!LifeNext
<1> QED BY <1>5, <1>11

LEMMA SpawnFailsLife ==
  ASSUME IInv, SpawnFails PROVE Life!LifeNext /\ gone \subseteq gone'
<1>1. /\ current_pid \in Pids /\ procs[current_pid].state = "RUNNING"
      /\ panicked = FALSE /\ UNCHANGED <<panicked, procs>> /\ next_pid' = next_pid + 1
  <2>1. panicked = FALSE
    BY ZenonT(30) DEF SpawnFails, IInv, TypeOK
  <2> QED BY <2>1 DEF SpawnFails, proc_current_valid
<1>2. parents' = parents /\ gone' = gone
  BY <1>1 DEF parents, gone, Pids
<1>3. used' = used \cup {next_pid} /\ next_pid \in used' \ used
  BY <1>1, NumberUsed
<1>4. DOMAIN parents = Pids /\ current_pid \notin gone
  BY <1>1 DEF parents, gone
<1>5. Life!FailedFork(current_pid)
  BY <1>1, <1>2, <1>3, <1>4 DEF Life!FailedFork, Life!Alive, parents, gone, used
<1> QED BY <1>1, <1>2, <1>4, <1>5 DEF Life!LifeNext, parents

(* What an exit does to the table, in proc_exit_locked or at a return. *)
LEMMA ExitLife ==
  ASSUME IInv, panicked = FALSE, UNCHANGED <<next_pid, panicked>>,
         NEW p \in Pids, p # INIT_PID, Alive(p), Pids' = Pids,
         \A q \in Pids : /\ procs'[q].parent = IF procs[q].parent = p THEN INIT_PID ELSE procs[q].parent
                         /\ procs'[q].state = "EXITED" <=> q = p \/ procs[q].state = "EXITED"
  PROVE  Life!LifeNext /\ gone \subseteq gone'
<1>1. parents' = [q \in Pids |-> IF parents[q] = p THEN INIT_PID ELSE parents[q]]
  BY DEF parents
<1>2. gone' = gone \cup {p} /\ p \notin gone
  BY DEF gone, Alive
<1>3. used' = used
  BY NumbersKept
<1>4. DOMAIN parents = Pids
  BY DEF parents
<1>5. Life!Exit(p)
  BY <1>1, <1>2, <1>3, <1>4 DEF Life!Exit, Life!Alive, Life!First, INIT_PID, parents, gone, used
<1> QED BY <1>2, <1>4, <1>5 DEF Life!LifeNext, parents

LEMMA ExitProcessLife ==
  ASSUME IInv, NEW p \in Pids, Alive(p), ~panicked, ExitProcess(p), UNCHANGED next_pid
  PROVE  Life!LifeNext /\ gone \subseteq gone'
<1>0. panicked = FALSE
  BY ZenonT(30) DEF IInv, TypeOK
<1>1. CASE p = INIT_PID
  <2>1. panicked' = TRUE /\ UNCHANGED procs
    BY <1>1 DEF ExitProcess
  <2>2. parents' = parents /\ gone' = gone /\ used' = used
    BY <2>1, NumbersKept DEF parents, gone, Pids
  <2>3. Life!Halt
    BY <2>1, <2>2 DEF Life!Halt, parents, gone, used
  <2> QED BY <1>0, <2>2, <2>3 DEF Life!LifeNext
<1>2. CASE p # INIT_PID
  <2>1. procs' = ExitTable(procs, p) /\ UNCHANGED panicked
    BY <1>2 DEF ExitProcess
  <2>2. \A q \in DOMAIN procs : procs[q] \in Entry
    BY Basics DEF Pids
  <2>3. /\ Pids' = Pids
        /\ \A q \in Pids : /\ procs'[q].state = IF q = p THEN "EXITED" ELSE procs[q].state
                           /\ procs'[q].parent = IF procs[q].parent = p THEN INIT_PID ELSE procs[q].parent
    BY <2>1, <2>2, ExitTableFacts DEF Pids
  <2> QED BY <1>0, <1>2, <2>1, <2>3, ExitLife
<1> QED BY <1>1, <1>2

LEMMA WaitLife ==
  ASSUME IInv, NEW c \in Pids, Wait(c)
  PROVE  /\ Life!LifeNext
         /\ gone' = gone \ {c} /\ c \in gone /\ Pids' = Pids \ {c}
         /\ current_pid = procs[c].parent
<1>1. /\ current_pid \in Pids /\ procs[current_pid].state = "RUNNING"
      /\ procs[c].parent = current_pid /\ procs[c].state = "EXITED"
      /\ panicked = FALSE /\ UNCHANGED <<panicked, next_pid>> /\ procs' = Remove(procs, c)
  <2>1. panicked = FALSE
    BY ZenonT(30) DEF Wait, IInv, TypeOK
  <2> QED BY <2>1 DEF Wait, proc_current_valid, Waitable
<1>2. Pids' = Pids \ {c} /\ \A q \in Pids \ {c} : procs'[q] = procs[q]
  BY <1>1 DEF Remove, Restrict, Pids
<1>3. parents' = [q \in Pids \ {c} |-> parents[q]]
  BY <1>2 DEF parents
<1>4. gone' = gone \ {c} /\ c \in gone /\ current_pid \notin gone
  BY <1>1, <1>2 DEF gone
<1>5. used' = used
  BY <1>1, NumbersKept
<1>6. DOMAIN parents = Pids /\ parents[c] = current_pid
  BY <1>1 DEF parents
<1>7. Life!Collect(current_pid, c)
  BY <1>1, <1>3, <1>4, <1>5, <1>6 DEF Life!Collect, Life!Alive, parents, gone, used
<1> QED BY <1>1, <1>2, <1>4, <1>6, <1>7 DEF Life!LifeNext, parents

LEMMA ReturnLife ==
  ASSUME IInv, Return
  PROVE  (Life!LifeNext \/ UNCHANGED life) /\ gone \subseteq gone'
<1>0. panicked = FALSE /\ panicked' \in BOOLEAN
  <2>1. panicked = FALSE
    BY ZenonT(30) DEF Return, IInv, TypeOK
  <2> QED BY <2>1, ZenonT(30) DEF Return
<1>1. CASE panicked' = FALSE
  <2> DEFINE p == frames[Len(frames)].pid
             caller == frames[Len(frames)].previous
  <2>1. /\ p \in Pids /\ p # INIT_PID /\ caller # p
        /\ Pids' = Pids /\ UNCHANGED <<next_pid, panicked>>
        /\ \A q \in Pids : /\ procs'[q].parent =
                                IF procs[q].parent = p THEN INIT_PID ELSE procs[q].parent
                           /\ procs'[q].state =
                                IF q = p THEN "EXITED"
                                ELSE IF q = caller /\ Alive(caller) THEN "RUNNING"
                                ELSE procs[q].state
    BY <1>1, ReturnFacts, ZenonT(30)
  <2> HIDE DEF p, caller
  <2>2. \A q \in Pids : procs'[q].state = "EXITED" <=> q = p \/ procs[q].state = "EXITED"
    BY <2>1 DEF Alive
  <2>3. CASE Alive(p)
    BY <1>0, <2>1, <2>2, <2>3, ExitLife
  <2>4. CASE ~Alive(p)
    <3>1. procs[p].state = "EXITED" /\ p # 0
      BY <2>1, <2>4, Basics DEF Alive
    <3>2. \A q \in Pids : procs[q].parent # p
      BY <2>4, <3>1 DEF IInv, ParentsAlive
    <3>3. parents' = parents
      BY <2>1, <3>2 DEF parents
    <3>4. gone' = gone
      BY <2>1, <2>2, <3>1 DEF gone
    <3> QED BY <2>1, <3>3, <3>4, NumbersKept DEF life
  <2> QED BY <2>3, <2>4
<1>2. CASE panicked' # FALSE
  <2>1. panicked' = TRUE /\ UNCHANGED <<procs, next_pid>>
    BY <1>0, <1>2, ZenonT(30) DEF Return
  <2>2. parents' = parents /\ gone' = gone /\ used' = used
    BY <2>1, NumbersKept DEF parents, gone, Pids
  <2>3. Life!Halt
    BY <2>1, <2>2 DEF Life!Halt, parents, gone, used
  <2> QED BY <1>0, <2>2, <2>3 DEF Life!LifeNext
<1> QED BY <1>1, <1>2
-----------------------------------------------------------------------------
(* Every step of the table is a step of the life cycle, and forgets an     *)
(* exited process only when its parent waits for it.                       *)
LEMMA StepLife ==
  ASSUME RInv, [Next]_vars
  PROVE  /\ Life!LifeNext \/ UNCHANGED life
         /\ gone \subseteq gone' \/ \E c \in Pids : Wait(c)
<1>0. IInv
  BY DEF RInv
<1>1. CASE Boot
  BY <1>1, BootLife
<1>2. CASE Spawn
  BY <1>0, <1>2, SpawnLife
<1>3. CASE SpawnFails
  BY <1>0, <1>3, SpawnFailsLife
<1>4. CASE Exit
  BY <1>0, <1>4, Basics, ExitProcessLife DEF Exit, proc_current_valid, Alive
<1>5. CASE Return
  BY <1>0, <1>5, ReturnLife
<1>6. ASSUME NEW p \in Pids, Kill(p)
      PROVE  Life!LifeNext /\ gone \subseteq gone'
  BY <1>0, <1>6, ExitProcessLife DEF Kill, Alive, proc_is_terminal_state
<1>7. ASSUME NEW p \in Pids, Wait(p)
      PROVE  Life!LifeNext
  BY <1>0, <1>7, WaitLife
<1>8. CASE UNCHANGED vars
  <2>1. UNCHANGED life /\ gone' = gone
    BY <1>8 DEF vars, life, parents, gone, used, Pids
  <2> QED BY <2>1
<1> QED BY <1>1, <1>2, <1>3, <1>4, <1>5, <1>6, <1>7, <1>8 DEF Next

(* Nothing but the creation of process 1 can happen before it exists. *)
LEMMA StepEarly ==
  ASSUME RInv, [Next]_vars PROVE Early'
<1>1. /\ next_pid \in Nat /\ next_pid >= 1
      /\ \A p \in Pids : p \in Nat /\ 1 <= p /\ p < next_pid
      /\ Len(frames) \in Nat
      /\ \A i \in 1 .. Len(frames) : frames[i].pid \in Pids
      /\ frames \in Seq([pid : Nat, previous : Nat])
  BY Basics DEF RInv
<1>2. CASE Boot \/ Spawn \/ SpawnFails
  <2>1. next_pid' = next_pid + 1
    BY <1>2 DEF Boot, Spawn, SpawnFails
  <2> QED BY <1>1, <2>1 DEF Early, INIT_PID
<1>3. CASE Exit
  <2>1. current_pid \in Pids /\ next_pid' = next_pid
    BY <1>3 DEF Exit, proc_current_valid
  <2> QED BY <1>1, <2>1 DEF Early, INIT_PID
<1>4. CASE Return
  <2>1. frames # <<>> /\ next_pid' = next_pid
    BY <1>4 DEF Return
  <2>2. frames[Len(frames)].pid \in Pids
    BY <1>1, <2>1
  <2> QED BY <1>1, <2>1, <2>2 DEF Early, INIT_PID
<1>5. ASSUME NEW p \in Pids, Kill(p) \/ Wait(p)
      PROVE  Early'
  <2>1. next_pid' = next_pid
    BY <1>5 DEF Kill, Wait
  <2> QED BY <1>1, <2>1 DEF Early, INIT_PID
<1>6. CASE UNCHANGED vars
  BY <1>6, Zenon DEF vars, RInv, Early
<1> QED BY <1>2, <1>3, <1>4, <1>5, <1>6 DEF Next

LEMMA RInvariant == Spec => []RInv
<1>1. Init => RInv
  BY InitIInv, Zenon DEF Init, RInv, Early
<1>2. RInv /\ [Next]_vars => RInv'
  <2> SUFFICES ASSUME RInv, [Next]_vars PROVE RInv'
    OBVIOUS
  <2>1. IInv'
    BY NextIInv DEF RInv
  <2> QED BY <2>1, StepEarly DEF RInv
<1> QED BY <1>1, <1>2, PTL DEF Spec

-----------------------------------------------------------------------------
(***************************************************************************)
(* proc.c implements the abstract life cycle for every table size and every*)
(* depth of nested calls: numbers are used once, an exit hands the children*)
(* to process 1, and only a parent's wait takes a process out.  The return *)
(* of a process that exited earlier is the one step that maps to nothing.  *)
(***************************************************************************)
THEOREM LifecycleRefined == Spec => ImplementsLifecycle
<1>1. Init => Life!LifeInit
  <2> SUFFICES ASSUME Init PROVE Life!LifeInit
    OBVIOUS
  <2>1. Pids = {} /\ next_pid = 1 /\ panicked = FALSE
    BY DEF Init, Pids, Empty, INIT_PID
  <2>2. [p \in Pids |-> procs[p].parent] = <<>>
    BY <2>1
  <2>3. 1 .. (next_pid - 1) = {}
    BY <2>1
  <2> QED BY <2>1, <2>2, <2>3 DEF Life!LifeInit
<1>2. RInv /\ [Next]_vars => [Life!LifeNext]_(Life!lifeVars)
  BY StepLife DEF Life!lifeVars, life, parents, gone, used
<1> QED BY <1>1, <1>2, RInvariant, PTL DEF Spec, ImplementsLifecycle, Life!LifeSpec

(***************************************************************************)
(* A process that has exited stays so until its parent collects it: when   *)
(* proc_start_flat resumes a caller that was killed while its child ran,   *)
(* it does not bring that caller back.                                     *)
(***************************************************************************)
THEOREM ExitsAreFinal == Spec => ExitIsFinal
<1> DEFINE Final == \A p \in Pids : ~Alive(p) =>
                      \/ p \in Pids' /\ procs'[p].state = "EXITED"
                      \/ p \notin Pids' /\ current_pid = procs[p].parent
<1>1. ASSUME RInv, [Next]_vars PROVE Final
  <2>1. CASE gone \subseteq gone'
    BY <2>1 DEF gone, Alive
  <2>2. ASSUME NEW c \in Pids, Wait(c) PROVE Final
    <3>1. gone' = gone \ {c} /\ Pids' = Pids \ {c} /\ current_pid = procs[c].parent
      BY <1>1, <2>2, WaitLife DEF RInv
    <3> QED BY <3>1 DEF gone, Alive
  <2> QED BY <1>1, <2>1, <2>2, StepLife
<1>2. RInv /\ [Next]_vars => [Final]_vars
  BY <1>1
<1> QED BY <1>2, RInvariant, PTL DEF Spec, ExitIsFinal
=============================================================================
