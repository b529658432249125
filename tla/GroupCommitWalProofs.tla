------------------------ MODULE GroupCommitWalProofs ------------------------
(***************************************************************************)
(* Proofs about GroupCommitWal, for every value of its constants.          *)
(***************************************************************************)
EXTENDS GroupCommitWal, SequenceTheorems, TLAPS

-----------------------------------------------------------------------------
(* Sequences. *)

\* Writing a well-formed batch of lines keeps the WAL a sequence of lines.
LEMMA LandType ==
    ASSUME NEW S, wal \in Seq(S), eol \in BOOLEAN,
           Corrupt \in S, Unreadable \in S,
           wal = <<>> => eol,
           NEW landing, landing.lines \in Seq(S), landing.eol \in BOOLEAN,
           Land(landing)
    PROVE  wal' \in Seq(S) /\ eol' \in BOOLEAN
<1>1. CASE landing.lines = <<>>
  BY <1>1 DEF Land
<1>2. CASE landing.lines # <<>> /\ eol
  BY <1>2, ConcatProperties DEF Land
<1>3. CASE landing.lines # <<>> /\ ~eol
  <2>1. Len(wal) \in Nat /\ Len(wal) >= 1
    BY <1>3, EmptySeq, LenProperties
  <2>2. SubSeq(wal, 1, Len(wal) - 1) \in Seq(S)
    BY <2>1, SubSeqProperties
  <2>3. Tail(landing.lines) \in Seq(S)
    BY <1>3, HeadTailProperties
  <2>4. PICK last \in S : last = Joined(wal[Len(wal)], Head(landing.lines))
    BY DEF Joined
  <2>5. SubSeq(wal, 1, Len(wal) - 1) \o <<last>> \in Seq(S)
    BY <2>2, ConcatProperties
  <2>6. wal' = (SubSeq(wal, 1, Len(wal) - 1) \o <<last>>) \o Tail(landing.lines)
    BY <1>3, <2>4 DEF Land
  <2>7. wal' \in Seq(S)
    BY <2>3, <2>5, <2>6, ConcatProperties
  <2> QED
    BY <1>3, <2>7 DEF Land
<1> QED
  BY <1>1, <1>2, <1>3

\* The lines of a stamped batch.
LEMMA StampedType ==
    ASSUME NEW reqs \in Seq(InsertRequest), NEW base \in Nat,
           base + Len(reqs) <= MaxSequence, MaxSequence \in Nat
    PROVE  /\ Stamped(reqs, base) \in Seq(WalEntry)
           /\ Len(Stamped(reqs, base)) = Len(reqs)
           /\ \A i \in 1..Len(reqs) :
                Stamped(reqs, base)[i] =
                  [op |-> reqs[i].op, uuid |-> reqs[i].uuid, seq |-> base + i]
<1>1. Len(reqs) \in Nat
  BY LenProperties
<1>2. ASSUME NEW i \in 1..Len(reqs)
      PROVE  [op |-> reqs[i].op, uuid |-> reqs[i].uuid, seq |-> base + i]
                \in WalEntry
  <2>1. reqs[i] \in InsertRequest
    BY ElementOfSeq
  <2>2. base + i \in 1..MaxSequence
    BY <1>1
  <2> QED
    BY <2>1, <2>2 DEF InsertRequest, WalEntry
<1>3. Stamped(reqs, base) \in [1..Len(reqs) -> WalEntry]
  BY <1>2 DEF Stamped
<1>4. Stamped(reqs, base) \in Seq(WalEntry)
  BY <1>1, <1>3, SeqDef
<1> QED
  BY <1>1, <1>3, <1>4, LenProperties DEF Stamped

\* The lines of the tombstones of evicted entries.
LEMMA TombstoneLinesType ==
    ASSUME NEW us \in Seq(Uuids), NEW base \in Nat,
           base + Len(us) <= MaxSequence, MaxSequence \in Nat
    PROVE  /\ TombstoneLines(us, base) \in Seq(WalEntry)
           /\ Len(TombstoneLines(us, base)) = Len(us)
           /\ \A i \in 1..Len(us) :
                TombstoneLines(us, base)[i] =
                  [op |-> "tombstone", uuid |-> us[i], seq |-> base + i]
<1>1. Len(us) \in Nat
  BY LenProperties
<1>2. \A i \in 1..Len(us) :
        [op |-> "tombstone", uuid |-> us[i], seq |-> base + i] \in WalEntry
  BY <1>1, ElementOfSeq DEF WalEntry
<1>3. TombstoneLines(us, base) \in [1..Len(us) -> WalEntry]
  BY <1>2 DEF TombstoneLines
<1>4. TombstoneLines(us, base) \in Seq(WalEntry)
  BY <1>1, <1>3, SeqDef
<1> QED
  BY <1>1, <1>3, <1>4, LenProperties DEF TombstoneLines

\* Whatever part of some lines lands is a sequence of lines.
LEMMA LandingsType ==
    ASSUME NEW lines \in Seq(WalEntry), NEW landing \in Landings(lines)
    PROVE  landing.lines \in Seq(Line) /\ landing.eol \in BOOLEAN
<1>0. Len(lines) \in Nat /\ lines \in Seq(Line)
  BY LenProperties DEF Line
<1>1. ASSUME NEW k \in 0..Len(lines)
      PROVE  SubSeq(lines, 1, k) \in Seq(Line)
  BY <1>0, <1>1, SubSeqProperties
<1>2. ASSUME NEW j \in 0..(Len(lines) - 1)
      PROVE  lines[j + 1] \in Line
  BY <1>0, ElementOfSeq
<1>3. ASSUME NEW j \in 0..(Len(lines) - 1)
      PROVE  Pieces(lines[j + 1]) \subseteq Line
  BY <1>2 DEF Line, Pieces
<1>4. CASE landing \in {[lines |-> SubSeq(lines, 1, k), eol |-> TRUE] :
                          k \in 0..Len(lines)}
  <2>1. PICK k \in 0..Len(lines) :
          landing = [lines |-> SubSeq(lines, 1, k), eol |-> TRUE]
    BY <1>4
  <2> QED
    BY <1>1, <2>1
<1>5. CASE landing \notin {[lines |-> SubSeq(lines, 1, k), eol |-> TRUE] :
                          k \in 0..Len(lines)}
  <2>1. PICK k \in 0..(Len(lines) - 1), piece \in Line :
          landing = [lines |-> Append(SubSeq(lines, 1, k), piece),
                     eol |-> FALSE]
    BY <1>5, <1>3 DEF Landings
  <2>2. SubSeq(lines, 1, k) \in Seq(Line)
    BY <1>0, <1>1
  <2>3. Append(SubSeq(lines, 1, k), piece) \in Seq(Line)
    BY <2>2, AppendProperties
  <2> QED
    BY <2>1, <2>3
<1> QED
  BY <1>4, <1>5

-----------------------------------------------------------------------------
(* Type correctness. *)

\* The batch and the pending compaction are there when the flush task reads
\* them, a resolved delete has a UUID, and only a non-empty file can end
\* without a newline.
Shape ==
    /\ pc \in {"collect", "write", "written", "apply"} => batch # <<>>
    /\ pc \in {"snapshot", "truncate"} /\ compaction = "request"
          => pending_compact # <<>>
    /\ \A t \in Tasks : task[t].state = "resolved" => task[t].uuid \in Uuids
    /\ wal = <<>> => eol

TypeInv == TypeOK /\ Shape

\* A task that moves to a well-formed place.
LEMMA TaskType ==
    ASSUME TypeInv, NEW t \in Tasks, NEW r \in TaskState,
           r.state = "resolved" => r.uuid \in Uuids,
           task' = [task EXCEPT ![t] = r]
    PROVE  /\ task' \in [Tasks -> TaskState]
           /\ \A x \in Tasks : task'[x].state = "resolved" =>
                                 task'[x].uuid \in Uuids
           /\ \A x \in Tasks : task'[x] = IF x = t THEN r ELSE task[x]
BY DEF TypeInv, TypeOK, Shape

\* What a task owes after it has begun to sweep.
LEMMA SweepingType ==
    ASSUME NEW S \in SUBSET Uuids
    PROVE  /\ Sweeping(S) \in TaskState
           /\ Sweeping(S).state # "resolved"
           /\ Sweeping(S).todo = S
BY DEF Sweeping, Idle, TaskState

\* A reply leaves every task well formed.
LEMMA AnsweredType ==
    ASSUME TypeInv, NEW froms
    PROVE  /\ Answered(froms) \in [Tasks -> TaskState]
           /\ \A t \in Tasks : Answered(froms)[t].state = "resolved" =>
                                 Answered(froms)[t].uuid \in Uuids
           /\ \A t \in Tasks : Answered(froms)[t].todo = task[t].todo
<1>1. ASSUME NEW t \in Tasks
      PROVE  /\ task[t] \in TaskState
             /\ task[t].todo \in SUBSET Uuids
             /\ task[t].state = "resolved" => task[t].uuid \in Uuids
  BY DEF TypeInv, TypeOK, Shape, TaskState
<1> QED
  BY <1>1, SweepingType DEF Answered

\* Removing a set of entries leaves the index and the task well formed.
LEMMA BeginRemovalType ==
    ASSUME TypeInv, NEW t \in Tasks, NEW S \in SUBSET Uuids,
           BeginRemoval(t, S)
    PROVE  /\ live' \in SUBSET Uuids
           /\ acked' \in SUBSET Uuids
           /\ removal' \in
                [Uuids -> {"none", "begun", "reported", "durable"}]
           /\ task' \in [Tasks -> TaskState]
           /\ \A x \in Tasks : task'[x].state = "resolved" =>
                                 task'[x].uuid \in Uuids
           /\ \A x \in Tasks : task'[x].todo =
                                 IF x = t THEN S ELSE task[x].todo
<1>1. /\ task' \in [Tasks -> TaskState]
      /\ \A x \in Tasks : task'[x].state = "resolved" =>
                            task'[x].uuid \in Uuids
      /\ \A x \in Tasks : task'[x] = IF x = t THEN Sweeping(S) ELSE task[x]
  BY SweepingType, TaskType DEF BeginRemoval
<1>2. \A x \in Tasks : task'[x].todo = IF x = t THEN S ELSE task[x].todo
  BY <1>1, SweepingType
<1>3. removal' \in [Uuids -> {"none", "begun", "reported", "durable"}]
  BY DEF BeginRemoval, TypeInv, TypeOK
<1> QED
  BY <1>1, <1>2, <1>3 DEF BeginRemoval, TypeInv, TypeOK

\* An empty directory is well typed.
LEMMA TypeInit == Init => TypeInv
<1> SUFFICES ASSUME Init PROVE TypeInv
  OBVIOUS
<1>1. TypeOK
  <2>1. task \in [Tasks -> TaskState]
    BY DEF Init, Idle, TaskState
  <2>2. /\ wal \in Seq(Line) /\ batch \in Seq(InsertRequest)
        /\ pending_compact \in Seq(CompactRequest)
        /\ victims \in Seq(Uuids) /\ channel \in Seq(WalCommand)
    BY EmptySeq DEF Init
  <2>3. dimension \in [Namespaces -> Nat]
    BY DEF Init
  <2>4. removal \in [Uuids -> {"none", "begun", "reported", "durable"}]
    BY DEF Init
  <2>5. eol \in BOOLEAN /\ serving \in BOOLEAN
    BY DEF Init
  <2> QED
    BY <2>1, <2>2, <2>3, <2>4, <2>5, NodeAssumption DEF Init, TypeOK, Control
<1>2. Shape
  BY DEF Init, Shape, Idle
<1> QED
  BY <1>1, <1>2 DEF TypeInv

\* Dropping a reply's receiver keeps every request, in place.
LEMMA OrphanedType ==
    ASSUME NEW h, NEW S \in {WalCommand, InsertRequest, CompactRequest},
           NEW reqs \in Seq(S)
    PROVE  /\ Orphaned(reqs, h) \in Seq(S)
           /\ Len(Orphaned(reqs, h)) = Len(reqs)
           /\ reqs # <<>> => Orphaned(reqs, h) # <<>>
           /\ \A i \in 1..Len(reqs) :
                /\ Orphaned(reqs, h)[i].op = reqs[i].op
                /\ Orphaned(reqs, h)[i].uuid = reqs[i].uuid
<1>1. Len(reqs) \in Nat /\ DOMAIN reqs = 1..Len(reqs)
  BY LenProperties
<1>2. ASSUME NEW i \in 1..Len(reqs)
      PROVE  LET r == [reqs[i] EXCEPT !.from = IF @ = h THEN Nil ELSE @]
             IN  r \in S /\ r.op = reqs[i].op /\ r.uuid = reqs[i].uuid
  <2>1. reqs[i] \in S
    BY ElementOfSeq
  <2>2. CASE reqs[i] \in InsertRequest
    BY <2>1, <2>2 DEF WalCommand, InsertRequest, CompactRequest
  <2>3. CASE reqs[i] \in CompactRequest
    BY <2>1, <2>3 DEF WalCommand, InsertRequest, CompactRequest
  <2> QED
    BY <2>1, <2>2, <2>3 DEF WalCommand
<1>3. Orphaned(reqs, h) \in [1..Len(reqs) -> S]
  BY <1>1, <1>2 DEF Orphaned
<1>4. Orphaned(reqs, h) \in Seq(S)
  BY <1>1, <1>3, SeqDef
<1>5. Len(Orphaned(reqs, h)) = Len(reqs)
  BY <1>1, <1>3, <1>4, LenProperties
<1>6. reqs # <<>> => Orphaned(reqs, h) # <<>>
  BY <1>1, <1>4, <1>5, EmptySeq
<1> QED
  BY <1>1, <1>2, <1>4, <1>5, <1>6 DEF Orphaned

\* The HTTP handlers and a dropped connection keep the types.
LEMMA TypeHandlers ==
    ASSUME TypeInv, NEW h \in Handlers, Handler(h)
    PROVE  TypeInv'
<1> USE NodeAssumption, NilAssumption
<1>0. h \in Tasks
  BY DEF Tasks
<1>1. ASSUME NEW u \in Uuids, SubmitInsert(h, u) PROVE TypeInv'
  <2>1. [op |-> "insert", uuid |-> u, from |-> h] \in WalCommand
    BY <1>0 DEF WalCommand, InsertRequest
  <2>2. channel' \in Seq(WalCommand)
    BY <1>1, <2>1, AppendProperties DEF SubmitInsert, TypeInv, TypeOK
  <2>3. /\ task' \in [Tasks -> TaskState]
        /\ \A x \in Tasks : task'[x].state = "resolved" =>
                              task'[x].uuid \in Uuids
    <3>1. Waiting(u) \in TaskState /\ Waiting(u).state # "resolved"
      BY DEF Waiting, TaskState
    <3> QED
      BY <1>0, <1>1, <3>1, TaskType DEF SubmitInsert
  <2>4. removal' \in [Uuids -> {"none", "begun", "reported", "durable"}]
    BY <1>1 DEF SubmitInsert, TypeInv, TypeOK
  <2> QED
    BY <1>1, <2>2, <2>3, <2>4 DEF SubmitInsert, TypeInv, TypeOK, Shape,
       diskVars, indexVars, loopVars, bootVars, boundVars
<1>2. ASSUME SubmitCompact(h) PROVE TypeInv'
  <2>1. [op |-> "compact", uuid |-> Nil, from |-> h] \in WalCommand
    BY <1>0 DEF WalCommand, CompactRequest
  <2>2. channel' \in Seq(WalCommand)
    BY <1>2, <2>1, AppendProperties DEF SubmitCompact, TypeInv, TypeOK
  <2>3. /\ task' \in [Tasks -> TaskState]
        /\ \A x \in Tasks : task'[x].state = "resolved" =>
                              task'[x].uuid \in Uuids
    <3>1. Waiting(Nil) \in TaskState /\ Waiting(Nil).state # "resolved"
      BY DEF Waiting, TaskState
    <3> QED
      BY <1>0, <1>2, <3>1, TaskType DEF SubmitCompact
  <2> QED
    BY <1>2, <2>2, <2>3 DEF SubmitCompact, TypeInv, TypeOK, Shape, diskVars,
       indexVars, loopVars, bootVars, boundVars, historyVars
<1>3. ASSUME NEW u \in Uuids, DeleteResolve(h, u) PROVE TypeInv'
  <2>1. /\ task' \in [Tasks -> TaskState]
        /\ \A x \in Tasks : task'[x].state = "resolved" =>
                              task'[x].uuid \in Uuids
    <3>1. /\ [state |-> "resolved", todo |-> {}, uuid |-> u] \in TaskState
          /\ [state |-> "resolved", todo |-> {}, uuid |-> u].uuid \in Uuids
      BY DEF TaskState
    <3> QED
      BY <1>0, <1>3, <3>1, TaskType DEF DeleteResolve
  <2> QED
    BY <1>3, <2>1 DEF DeleteResolve, TypeInv, TypeOK, Shape, diskVars,
       indexVars, loopVars, bootVars, boundVars, historyVars
<1>4. ASSUME DeleteRemove(h) PROVE TypeInv'
  <2>1. {task[h].uuid} \in SUBSET Uuids
    BY <1>0, <1>4 DEF DeleteRemove, TypeInv, Shape
  <2> QED
    BY <1>0, <1>4, <2>1, BeginRemovalType DEF DeleteRemove, TypeInv, TypeOK,
       Shape, diskVars, loopVars, bootVars, boundVars
<1>5. ASSUME NEW ns \in Namespaces, NEW S \in SUBSET Uuids,
             Invalidate(h, ns, S)
      PROVE  TypeInv'
  BY <1>0, <1>5, BeginRemovalType DEF Invalidate, TypeInv, TypeOK, Shape,
     diskVars, loopVars, bootVars, boundVars
<1>6. ASSUME Disconnect(h) PROVE TypeInv'
  <2>5. channel' \in Seq(WalCommand)
    BY <1>6, OrphanedType DEF Disconnect, TypeInv, TypeOK
  <2>6. batch' \in Seq(InsertRequest) /\ (batch # <<>> => batch' # <<>>)
    BY <1>6, OrphanedType DEF Disconnect, TypeInv, TypeOK
  <2>7. /\ pending_compact' \in Seq(CompactRequest)
        /\ pending_compact # <<>> => pending_compact' # <<>>
    BY <1>6, OrphanedType DEF Disconnect, TypeInv, TypeOK
  <2>8. /\ task' \in [Tasks -> TaskState]
        /\ \A x \in Tasks : task'[x].state = "resolved" =>
                              task'[x].uuid \in Uuids
    <3>1. Idle \in TaskState /\ Idle.state # "resolved"
      BY DEF Idle, TaskState
    <3> QED
      BY <1>0, <1>6, <3>1, TaskType DEF Disconnect
  <2> QED
    BY <1>6, <2>5, <2>6, <2>7, <2>8 DEF Disconnect, Fault, TypeInv, TypeOK,
       Shape, diskVars, indexVars, bootVars, historyVars
<1> QED
  BY <1>1, <1>2, <1>3, <1>4, <1>5, <1>6 DEF Handler

\* A whole or partial write of well-formed lines leaves a well-formed WAL.
LEMMA WalType ==
    ASSUME TypeInv, NEW lines \in Seq(WalEntry),
           \/ Land(Whole(lines))
           \/ \E landing \in Landings(lines) : Land(landing)
    PROVE  wal' \in Seq(Line) /\ eol' \in BOOLEAN /\ (wal' = <<>> => eol')
<1>0. Corrupt \in Line /\ Unreadable \in Line /\ lines \in Seq(Line)
  BY SeqMonotonic DEF Line
<1>1. PICK landing : /\ Land(landing)
                     /\ landing.lines \in Seq(Line)
                     /\ landing.eol \in BOOLEAN
  <2>1. CASE Land(Whole(lines))
    <3>1. Whole(lines).lines = lines /\ Whole(lines).eol = TRUE
      BY DEF Whole
    <3> QED
      BY <1>0, <2>1, <3>1
  <2>2. CASE \E landing \in Landings(lines) : Land(landing)
    BY <2>2, LandingsType
  <2> QED
    BY <2>1, <2>2
<1>2. wal' \in Seq(Line) /\ eol' \in BOOLEAN
  BY <1>0, <1>1, LandType DEF TypeInv, TypeOK, Shape
<1>3. wal' = <<>> => eol'
  <2>1. CASE landing.lines = <<>>
    BY <1>1, <2>1 DEF Land, TypeInv, Shape
  <2>2. CASE landing.lines # <<>> /\ eol
    <3>1. wal' = wal \o landing.lines
      BY <1>1, <2>2 DEF Land
    <3>2. wal \in Seq(Line)
      BY DEF TypeInv, TypeOK
    <3>3. Len(wal') = Len(wal) + Len(landing.lines)
      BY <1>1, <3>1, <3>2, ConcatProperties
    <3>4. Len(landing.lines) \in Nat \ {0} /\ Len(wal) \in Nat
      BY <1>1, <2>2, <3>2, EmptySeq, LenProperties
    <3> QED
      BY <3>3, <3>4
  <2>3. CASE landing.lines # <<>> /\ ~eol
    <3>1. Len(wal) \in Nat /\ Len(wal) >= 1
      BY <2>3, EmptySeq, LenProperties DEF TypeInv, TypeOK, Shape
    <3>2. SubSeq(wal, 1, Len(wal) - 1) \in Seq(Line)
      BY <3>1, SubSeqProperties, ElementOfSeq DEF TypeInv, TypeOK
    <3>3. Tail(landing.lines) \in Seq(Line)
      BY <1>1, <2>3, HeadTailProperties
    <3>4. PICK last \in Line : last = Joined(wal[Len(wal)], Head(landing.lines))
      BY <1>0 DEF Joined
    <3>5. /\ SubSeq(wal, 1, Len(wal) - 1) \o <<last>> \in Seq(Line)
          /\ SubSeq(wal, 1, Len(wal) - 1) \o <<last>> # <<>>
      BY <3>2, ConcatProperties, ConcatEqualIffEmpty
    <3>6. (SubSeq(wal, 1, Len(wal) - 1) \o <<last>>) \o Tail(landing.lines) # <<>>
      BY <3>3, <3>5, ConcatEqualIffEmpty
    <3> QED
      BY <1>1, <2>3, <3>4, <3>6 DEF Land
  <2> QED
    BY <2>1, <2>2, <2>3 DEF TypeInv, TypeOK
<1> QED
  BY <1>2, <1>3

\* So does taking requests from the channel.
LEMMA TypeReceive ==
    ASSUME TypeInv, RecvFirst \/ CollectMore \/ CloseBatch
    PROVE  TypeInv'
<1>1. ASSUME channel # <<>>
      PROVE  /\ Head(channel) \in WalCommand
             /\ Tail(channel) \in Seq(WalCommand)
             /\ Head(channel).op = "compact" =>
                  <<Head(channel)>> \in Seq(CompactRequest)
             /\ Head(channel).op # "compact" =>
                  /\ Head(channel) \in InsertRequest
                  /\ <<Head(channel)>> \in Seq(InsertRequest)
  BY <1>1, HeadTailProperties
     DEF TypeInv, TypeOK, WalCommand, InsertRequest, CompactRequest
<1>2. CASE RecvFirst
  <2>1. channel # <<>> /\ pc = "recv" /\ channel' = Tail(channel)
    BY <1>2 DEF RecvFirst
  <2>2. CASE Head(channel).op = "compact"
    <3>1. /\ pending_compact' = <<Head(channel)>>
          /\ pc' = "pending" /\ UNCHANGED batch
      BY <1>2, <2>2 DEF RecvFirst
    <3> QED
      BY <1>1, <1>2, <2>1, <2>2, <3>1 DEF RecvFirst, TypeInv, TypeOK, Shape,
         Control, diskVars, indexVars, bootVars, boundVars, historyVars
  <2>3. CASE Head(channel).op # "compact"
    <3>1. /\ batch' = <<Head(channel)>>
          /\ pc' = "collect" /\ UNCHANGED pending_compact
      BY <1>2, <2>3 DEF RecvFirst
    <3>2. batch' \in Seq(InsertRequest) /\ batch' # <<>>
      BY <1>1, <2>1, <2>3, <3>1
    <3> QED
      BY <1>1, <1>2, <2>1, <3>1, <3>2 DEF RecvFirst, TypeInv, TypeOK, Shape,
         Control, diskVars, indexVars, bootVars, boundVars, historyVars
  <2> QED
    BY <2>2, <2>3
<1>3. CASE CollectMore
  <2>1. channel # <<>> /\ pc = "collect" /\ channel' = Tail(channel)
    BY <1>3 DEF CollectMore
  <2>2. CASE Head(channel).op = "compact"
    <3>1. /\ pending_compact' = <<Head(channel)>>
          /\ pc' = "write" /\ UNCHANGED batch
      BY <1>3, <2>2 DEF CollectMore
    <3> QED
      BY <1>1, <1>3, <2>1, <2>2, <3>1 DEF CollectMore, TypeInv, TypeOK, Shape,
         Control, diskVars, indexVars, bootVars, boundVars, historyVars
  <2>3. CASE Head(channel).op # "compact"
    <3>1. /\ batch' = Append(batch, Head(channel))
          /\ UNCHANGED <<pc, pending_compact>>
      BY <1>3, <2>3 DEF CollectMore
    <3>2. batch \in Seq(InsertRequest) /\ Head(channel) \in InsertRequest
      BY <1>1, <2>1, <2>3 DEF TypeInv, TypeOK
    <3>3. batch' \in Seq(InsertRequest) /\ batch' # <<>>
      BY <3>1, <3>2, AppendProperties
    <3> QED
      BY <1>1, <1>3, <2>1, <3>1, <3>3 DEF CollectMore, TypeInv, TypeOK, Shape,
         Control, diskVars, indexVars, bootVars, boundVars, historyVars
  <2> QED
    BY <2>2, <2>3
<1>4. CASE CloseBatch
  BY <1>4 DEF CloseBatch, TypeInv, TypeOK, Shape, Control, diskVars,
     indexVars, loopVars, bootVars, clientVars, boundVars, historyVars
<1> QED
  BY <1>2, <1>3, <1>4

\* So does the write of a batch, whatever becomes of it.
LEMMA TypeWrite ==
    ASSUME TypeInv, WriteBatch \/ WriteBatchFails \/ SequenceOverflow
    PROVE  TypeInv'
<1> USE NodeAssumption
<1>1. ASSUME Fits(Len(batch))
      PROVE  /\ Stamped(batch, sequence) \in Seq(WalEntry)
             /\ sequence + Len(batch) \in 0..MaxSequence
  <2>1. batch \in Seq(InsertRequest) /\ sequence \in 0..MaxSequence
    BY DEF TypeInv, TypeOK
  <2>2. Len(batch) \in Nat
    BY <2>1, LenProperties
  <2>3. sequence + Len(batch) \in 0..MaxSequence
    BY <1>1, <2>1, <2>2 DEF Fits
  <2>4. Stamped(batch, sequence) \in Seq(WalEntry)
    BY <1>1, <2>1, <2>3, StampedType DEF Fits
  <2> QED
    BY <2>3, <2>4
<1>2. CASE WriteBatch
  <2>1. wal' \in Seq(Line) /\ eol' \in BOOLEAN /\ (wal' = <<>> => eol')
    BY <1>1, <1>2, WalType DEF WriteBatch
  <2> QED
    BY <1>1, <1>2, <2>1 DEF WriteBatch, TypeInv, TypeOK, Shape, Control,
       indexVars, bootVars, clientVars, boundVars, historyVars
<1>3. ASSUME RejectBatch, pc = "write", sequence' \in 0..MaxSequence,
             wal' \in Seq(Line), eol' \in BOOLEAN, wal' = <<>> => eol',
             crashes' \in 0..MaxCrashes, faults' \in 0..MaxFaults
      PROVE  TypeInv'
  <2>1. /\ task' \in [Tasks -> TaskState]
        /\ \A x \in Tasks : task'[x].state = "resolved" =>
                              task'[x].uuid \in Uuids
    BY <1>3, AnsweredType DEF RejectBatch
  <2>2. removal' \in [Uuids -> {"none", "begun", "reported", "durable"}]
    BY <1>3 DEF RejectBatch, TypeInv, TypeOK
  <2>3. batch' \in Seq(InsertRequest)
    BY <1>3, EmptySeq DEF RejectBatch
  <2> QED
    BY <1>3, <2>1, <2>2, <2>3 DEF RejectBatch, TypeInv, TypeOK, Shape,
       Control, indexVars, bootVars
<1>4. CASE WriteBatchFails
  <2>1. wal' \in Seq(Line) /\ eol' \in BOOLEAN /\ (wal' = <<>> => eol')
    BY <1>1, <1>4, WalType DEF WriteBatchFails
  <2>2. /\ sequence' \in 0..MaxSequence
        /\ crashes' \in 0..MaxCrashes /\ faults' \in 0..MaxFaults
    BY <1>1, <1>4 DEF WriteBatchFails, Fault, TypeInv, TypeOK
  <2>3. RejectBatch /\ pc = "write"
    BY <1>4 DEF WriteBatchFails
  <2> QED
    BY <1>3, <2>1, <2>2, <2>3
<1>5. CASE SequenceOverflow
  <2>1. /\ sequence' \in 0..MaxSequence
        /\ crashes' \in 0..MaxCrashes /\ faults' \in 0..MaxFaults
    BY <1>5 DEF SequenceOverflow, TypeInv, TypeOK, boundVars
  <2>2. wal' \in Seq(Line) /\ eol' \in BOOLEAN /\ (wal' = <<>> => eol')
    BY <1>5 DEF SequenceOverflow, TypeInv, TypeOK, Shape
  <2>3. RejectBatch /\ pc = "write"
    BY <1>5 DEF SequenceOverflow
  <2> QED
    BY <1>3, <2>1, <2>2, <2>3
<1> QED
  BY <1>2, <1>4, <1>5

\* So does applying a batch to the index.
LEMMA TypeApply ==
    ASSUME TypeInv, ApplyInsert \/ ApplyTombstone
    PROVE  TypeInv'
<1> USE NodeAssumption
<1> DEFINE u == Head(batch).uuid
<1>1. /\ batch # <<>>
      /\ Head(batch) \in InsertRequest
      /\ Tail(batch) \in Seq(InsertRequest)
      /\ Len(Tail(batch)) = Len(batch) - 1
      /\ Len(batch) \in Nat
  BY HeadTailProperties, LenProperties
     DEF TypeInv, TypeOK, Shape, ApplyInsert, ApplyTombstone
<1>2. u \in Uuids
  BY <1>1 DEF InsertRequest
<1>3. Len(batch) # 1 => Tail(batch) # <<>>
  <2>1. Tail(batch) = <<>> => Len(Tail(batch)) = 0
    BY EmptySeq
  <2> HIDE DEF u
  <2> QED
    BY <1>1, <2>1
<1>4. /\ task' \in [Tasks -> TaskState]
      /\ \A x \in Tasks : task'[x].state = "resolved" =>
                            task'[x].uuid \in Uuids
  BY AnsweredType DEF ApplyInsert, ApplyTombstone
<1>5. /\ batch' \in Seq(InsertRequest)
      /\ pc' \in Control
      /\ Shape'
  BY <1>1, <1>3, <1>4
     DEF ApplyInsert, ApplyTombstone, Control, TypeInv, Shape, diskVars
<1>6. CASE ApplyInsert
  <2>1. /\ live' \in SUBSET Uuids
        /\ acked' \in SUBSET Uuids
    BY <1>2, <1>6
       DEF ApplyInsert, TypeInv, TypeOK, indexVars, historyVars
  <2>2. dimension' \in [Namespaces -> Nat]
    BY <1>2, <1>6 DEF ApplyInsert, TypeInv, TypeOK, indexVars
  <2>3. inserts_since_compact' \in 0..CompactInterval
    BY <1>6 DEF ApplyInsert, CountApplied, TypeInv, TypeOK
  <2>4. removal' \in [Uuids -> {"none", "begun", "reported", "durable"}]
    BY <1>2, <1>6 DEF ApplyInsert, TypeInv, TypeOK, historyVars
  <2> QED
    BY <1>4, <1>5, <1>6, <2>1, <2>2, <2>3, <2>4 DEF ApplyInsert, TypeInv,
       TypeOK, diskVars, bootVars, boundVars
<1>7. CASE ApplyTombstone
  <2>1. live' \in SUBSET Uuids
    BY <1>2, <1>7 DEF ApplyTombstone, TypeInv, TypeOK
  <2>2. inserts_since_compact' \in 0..CompactInterval
    BY <1>7 DEF ApplyTombstone, CountApplied, TypeInv, TypeOK
  <2>3. removal' \in [Uuids -> {"none", "begun", "reported", "durable"}]
    BY <1>2, <1>7 DEF ApplyTombstone, TypeInv, TypeOK
  <2> QED
    BY <1>4, <1>5, <1>7, <2>1, <2>2, <2>3 DEF ApplyTombstone, TypeInv,
       TypeOK, diskVars, bootVars, boundVars
<1> QED
  BY <1>6, <1>7

\* So does the eviction step with its tombstones.
LEMMA TypeEvict ==
    ASSUME TypeInv,
           EvictOne \/ EvictDone \/ EvictWrite \/ EvictWriteFails
              \/ EvictOverflow
    PROVE  TypeInv'
<1> USE NodeAssumption
<1>1. ASSUME Fits(Len(victims))
      PROVE  /\ TombstoneLines(victims, sequence) \in Seq(WalEntry)
             /\ sequence + Len(victims) \in 0..MaxSequence
  <2>1. victims \in Seq(Uuids) /\ sequence \in 0..MaxSequence
    BY DEF TypeInv, TypeOK
  <2>2. Len(victims) \in Nat
    BY <2>1, LenProperties
  <2>3. sequence + Len(victims) \in 0..MaxSequence
    BY <1>1, <2>1, <2>2 DEF Fits
  <2>4. TombstoneLines(victims, sequence) \in Seq(WalEntry)
    BY <1>1, <2>1, <2>3, TombstoneLinesType DEF Fits
  <2> QED
    BY <2>3, <2>4
<1>2. <<>> \in Seq(Uuids)
  BY EmptySeq
<1>3. CASE EvictOne
  <2>1. PICK u \in Uuids : /\ live' = live \ {u}
                           /\ acked' = acked \ {u}
                           /\ removal' = [removal EXCEPT ![u] = "begun"]
                           /\ victims' = Append(victims, u)
    BY <1>3 DEF EvictOne, In, TypeInv, TypeOK
  <2>2. victims' \in Seq(Uuids)
    BY <2>1, AppendProperties DEF TypeInv, TypeOK
  <2>3. removal' \in [Uuids -> {"none", "begun", "reported", "durable"}]
    BY <2>1 DEF TypeInv, TypeOK
  <2> QED
    BY <1>3, <2>1, <2>2, <2>3 DEF EvictOne, TypeInv, TypeOK, Shape, Control,
       diskVars, bootVars, clientVars, boundVars
<1>4. CASE EvictDone
  BY <1>4 DEF EvictDone, TypeInv, TypeOK, Shape, Control, diskVars,
     indexVars, loopVars, bootVars, clientVars, boundVars, historyVars
<1>5. CASE EvictWrite
  <2>1. wal' \in Seq(Line) /\ eol' \in BOOLEAN /\ (wal' = <<>> => eol')
    BY <1>1, <1>5, WalType DEF EvictWrite
  <2>2. removal' \in [Uuids -> {"none", "begun", "reported", "durable"}]
    BY <1>5 DEF EvictWrite, TypeInv, TypeOK
  <2> QED
    BY <1>1, <1>2, <1>5, <2>1, <2>2 DEF EvictWrite, TypeInv, TypeOK, Shape,
       Control, indexVars, bootVars, clientVars, boundVars
<1>6. CASE EvictWriteFails
  <2>1. wal' \in Seq(Line) /\ eol' \in BOOLEAN /\ (wal' = <<>> => eol')
    BY <1>1, <1>6, WalType DEF EvictWriteFails
  <2>2. /\ sequence' \in 0..MaxSequence
        /\ crashes' \in 0..MaxCrashes /\ faults' \in 0..MaxFaults
    BY <1>1, <1>6 DEF EvictWriteFails, Fault, TypeInv, TypeOK
  <2> QED
    BY <1>2, <1>6, <2>1, <2>2 DEF EvictWriteFails, TypeInv, TypeOK, Shape,
       Control, indexVars, bootVars, clientVars, historyVars
<1>7. CASE EvictOverflow
  BY <1>2, <1>7 DEF EvictOverflow, TypeInv, TypeOK, Shape, Control, diskVars,
     indexVars, bootVars, clientVars, boundVars, historyVars
<1> QED
  BY <1>3, <1>4, <1>5, <1>6, <1>7

\* So does compaction, successful or not.
LEMMA TypeCompact ==
    ASSUME TypeInv,
           AutoCompact \/ RunPending \/ WriteSnapshot \/ WriteSnapshotFails
              \/ Truncate \/ TruncateFails
    PROVE  TypeInv'
<1> USE NodeAssumption
<1>1. ASSUME FinishCompaction
      PROVE  /\ pc' \in {"pending", "recv"}
             /\ pending_compact' \in Seq(CompactRequest)
             /\ inserts_since_compact' \in 0..CompactInterval
             /\ task' \in [Tasks -> TaskState]
             /\ \A x \in Tasks : task'[x].state = "resolved" =>
                                   task'[x].uuid \in Uuids
  <2>1. CASE compaction = "auto"
    BY <1>1, <2>1 DEF FinishCompaction, TypeInv, TypeOK, Shape
  <2>2. CASE compaction # "auto"
    BY <1>1, <2>2, AnsweredType, EmptySeq DEF FinishCompaction
  <2> QED
    BY <2>1, <2>2
<1>2. CASE AutoCompact
  <2>1. /\ inserts_since_compact' \in 0..CompactInterval
        /\ compaction' \in {"auto", "request"}
        /\ pc' \in {"snapshot", "pending"}
        /\ pc' = "snapshot" => compaction' = "auto"
    BY <1>2 DEF AutoCompact, TypeInv, TypeOK
  <2>2. TypeOK'
    BY <1>2, <2>1 DEF AutoCompact, TypeInv, TypeOK, Control, diskVars,
       indexVars, bootVars, clientVars, boundVars, historyVars
  <2>3. Shape'
    BY <1>2, <2>1 DEF AutoCompact, TypeInv, Shape, diskVars, clientVars
  <2> QED
    BY <2>2, <2>3 DEF TypeInv
<1>3. CASE RunPending
  BY <1>3 DEF RunPending, TypeInv, TypeOK, Shape, Control, diskVars,
     indexVars, bootVars, clientVars, boundVars, historyVars
<1>4. CASE WriteSnapshot
  <2>1. TypeOK'
    BY <1>4 DEF WriteSnapshot, TypeInv, TypeOK, Control,
       indexVars, loopVars, bootVars, clientVars, boundVars, historyVars
  <2>2. Shape'
    BY <1>4 DEF WriteSnapshot, TypeInv, Shape, loopVars, clientVars
  <2> QED
    BY <2>1, <2>2 DEF TypeInv
<1>5. CASE WriteSnapshotFails
  <2>1. FinishCompaction
    BY <1>5 DEF WriteSnapshotFails
  <2>2. crashes' \in 0..MaxCrashes /\ faults' \in 0..MaxFaults
    BY <1>5 DEF WriteSnapshotFails, Fault, TypeInv, TypeOK
  <2> QED
    BY <1>1, <1>5, <2>1, <2>2 DEF WriteSnapshotFails, TypeInv, TypeOK, Shape,
       Control, diskVars, indexVars, bootVars, historyVars
<1>6. CASE Truncate
  <2>1. wal' \in Seq(Line) /\ eol' \in BOOLEAN /\ (wal' = <<>> => eol')
    BY <1>6, EmptySeq DEF Truncate
  <2> QED
    BY <1>1, <1>6, <2>1 DEF Truncate, TypeInv, TypeOK, Shape, Control,
       indexVars, bootVars, boundVars, historyVars
<1>7. CASE TruncateFails
  <2>1. wal' \in Seq(Line) /\ eol' \in BOOLEAN /\ (wal' = <<>> => eol')
    <3>1. CASE wal' = <<>> /\ eol' = TRUE
      BY <3>1, EmptySeq
    <3>2. CASE UNCHANGED <<wal, eol>>
      BY <3>2 DEF TypeInv, TypeOK, Shape
    <3> QED
      BY <1>7, <3>1, <3>2 DEF TruncateFails
  <2>2. FinishCompaction
    BY <1>7 DEF TruncateFails
  <2>3. crashes' \in 0..MaxCrashes /\ faults' \in 0..MaxFaults
    BY <1>7 DEF TruncateFails, Fault, TypeInv, TypeOK
  <2> QED
    BY <1>1, <1>7, <2>1, <2>2, <2>3 DEF TruncateFails, TypeInv, TypeOK,
       Shape, Control, indexVars, bootVars, historyVars
<1> QED
  BY <1>2, <1>3, <1>4, <1>5, <1>6, <1>7

\* So does start-up: snapshot, replay and the expiry pass.
LEMMA TypeBoot ==
    ASSUME TypeInv, Boot
    PROVE  TypeInv'
<1> USE NodeAssumption
<1>1. CASE LoadSnapshot
  <2>1. dimension' \in [Namespaces -> Nat]
    <3>1. ASSUME NEW ns \in Namespaces, In(ns, snapshot) # {}
          PROVE  DimOf[CHOOSE u \in In(ns, snapshot) : TRUE] \in Nat
      BY <3>1 DEF In, TypeInv, TypeOK
    <3> QED
      BY <1>1, <3>1 DEF LoadSnapshot, DimensionsOf
  <2> QED
    BY <1>1, <2>1 DEF LoadSnapshot, TypeInv, TypeOK, Shape, Control,
       diskVars, clientVars, boundVars, historyVars
<1>2. CASE LoadSnapshotFails
  BY <1>2 DEF LoadSnapshotFails, Fault, TypeInv, TypeOK, Shape, Control,
     diskVars, indexVars, loopVars, bootVars, clientVars, historyVars
<1>3. CASE ReplayLine
  <2> DEFINE line == wal[cursor + 1]
  <2>1. line \in Line
    BY <1>3, ElementOfSeq, LenProperties DEF ReplayLine, TypeInv, TypeOK
  <2>2. CASE Readable(line) /\ line.seq > watermark
    <3>1. line \in WalEntry
      BY <2>1, <2>2 DEF Line, Readable, Corrupt, Unreadable
    <3>2. line.uuid \in Uuids /\ line.seq \in 1..MaxSequence
      BY <3>1 DEF WalEntry
    <3> HIDE DEF line
    <3>3. sequence' = IF line.seq > sequence THEN line.seq ELSE sequence
      BY <1>3, <2>2 DEF ReplayLine, line
    <3>4. sequence' \in 0..MaxSequence
      BY <3>2, <3>3 DEF TypeInv, TypeOK
    <3>5. live' \in SUBSET Uuids
      BY <1>3, <2>2, <3>2 DEF ReplayLine, line, TypeInv, TypeOK, indexVars
    <3>6. dimension' \in [Namespaces -> Nat]
      <4>1. dimension \in [Namespaces -> Nat] /\ DimOf[line.uuid] \in Nat
        BY <3>2 DEF TypeInv, TypeOK
      <4>2. \/ dimension' = dimension
            \/ dimension' = [dimension EXCEPT ![NsOf[line.uuid]] =
                                DimOf[line.uuid]]
        BY <1>3, <2>2 DEF ReplayLine, line, indexVars
      <4> QED
        BY <4>1, <4>2
    <3>7. cursor' \in Nat
      BY <1>3 DEF ReplayLine, TypeInv, TypeOK
    <3>8. TypeOK'
      BY <1>3, <3>4, <3>5, <3>6, <3>7 DEF ReplayLine, TypeInv, TypeOK,
         diskVars, clientVars, boundVars, historyVars
    <3>9. Shape'
      BY <1>3 DEF ReplayLine, TypeInv, Shape, diskVars, clientVars
    <3> QED
      BY <3>8, <3>9 DEF TypeInv
  <2>3. CASE ~(Readable(line) /\ line.seq > watermark)
    BY <1>3, <2>3 DEF ReplayLine, TypeInv, TypeOK, Shape, indexVars,
       diskVars, clientVars, boundVars, historyVars
  <2> QED
    BY <2>2, <2>3
<1>4. CASE StartupExpiry
  <2>1. live \cap expired \in SUBSET Uuids /\ Janitor \in Tasks
    BY DEF TypeInv, TypeOK, Tasks
  <2> QED
    BY <1>4, <2>1, BeginRemovalType DEF StartupExpiry, TypeInv, TypeOK,
       Shape, Control, diskVars, loopVars, bootVars, boundVars
<1>5. CASE ReplayFails
  BY <1>5 DEF ReplayFails, TypeInv, TypeOK, Shape, Control, diskVars,
     clientVars, boundVars, historyVars
<1> QED
  BY <1>1, <1>2, <1>3, <1>4, <1>5 DEF Boot

\* So do the listener, the reaper, the clock and a crash.
LEMMA TypeRest ==
    ASSUME TypeInv,
           \/ Listen \/ ReaperSweep \/ Crash
           \/ \E t \in Tasks : SendTombstone(t)
           \/ \E u \in TtlUuids : Expire(u)
    PROVE  TypeInv'
<1> USE NodeAssumption
<1>1. CASE Listen
  BY <1>1 DEF Listen, TypeInv, TypeOK, Shape, diskVars, indexVars, loopVars,
     bootVars, boundVars, historyVars
<1>2. CASE ReaperSweep
  <2>1. live \cap expired \in SUBSET Uuids /\ Janitor \in Tasks
    BY DEF TypeInv, TypeOK, Tasks
  <2>2. dimension' \in [Namespaces -> Nat]
    BY <1>2 DEF ReaperSweep, TypeInv, TypeOK
  <2> QED
    BY <1>2, <2>1, <2>2, BeginRemovalType DEF ReaperSweep, TypeInv, TypeOK,
       Shape, diskVars, loopVars, bootVars, boundVars
<1>3. ASSUME NEW t \in Tasks, SendTombstone(t) PROVE TypeInv'
  <2>1. PICK u \in task[t].todo :
          /\ channel' = Append(channel,
                          [op |-> "tombstone", uuid |-> u, from |-> t])
          /\ task' = [task EXCEPT ![t] = [state |-> "wait",
                                          todo |-> task[t].todo \ {u},
                                          uuid |-> u]]
    BY <1>3 DEF SendTombstone
  <2>2. task[t].todo \in SUBSET Uuids /\ u \in Uuids
    BY <2>1 DEF TypeInv, TypeOK, TaskState
  <2>3. [op |-> "tombstone", uuid |-> u, from |-> t] \in WalCommand
    BY <2>2 DEF WalCommand, InsertRequest
  <2>4. channel' \in Seq(WalCommand)
    BY <2>1, <2>3, AppendProperties DEF TypeInv, TypeOK
  <2>5. [state |-> "wait", todo |-> task[t].todo \ {u}, uuid |-> u]
           \in TaskState
    BY <2>2 DEF TaskState
  <2>6. /\ task' \in [Tasks -> TaskState]
        /\ \A x \in Tasks : task'[x].state = "resolved" =>
                              task'[x].uuid \in Uuids
    BY <2>1, <2>5, TaskType
  <2> QED
    BY <1>3, <2>4, <2>6 DEF SendTombstone, TypeInv, TypeOK, Shape, diskVars,
       indexVars, loopVars, bootVars, boundVars, historyVars
<1>4. ASSUME NEW u \in TtlUuids, Expire(u) PROVE TypeInv'
  BY <1>4 DEF Expire, TypeInv, TypeOK, Shape, diskVars, indexVars, loopVars,
     bootVars, clientVars, boundVars, historyVars
<1>5. CASE Crash
  <2>1. LinesInFlight \in Seq(WalEntry)
    <3>1. Len(batch) \in Nat /\ Len(victims) \in Nat
      BY LenProperties DEF TypeInv, TypeOK
    <3>2. Fits(Len(batch)) => Stamped(batch, sequence) \in Seq(WalEntry)
      BY <3>1, StampedType DEF Fits, TypeInv, TypeOK
    <3>3. Fits(Len(victims)) =>
            TombstoneLines(victims, sequence) \in Seq(WalEntry)
      BY <3>1, TombstoneLinesType DEF Fits, TypeInv, TypeOK
    <3> QED
      BY <3>2, <3>3, EmptySeq DEF LinesInFlight
  <2>2. wal' \in Seq(Line) /\ eol' \in BOOLEAN /\ (wal' = <<>> => eol')
    BY <1>5, <2>1, WalType DEF Crash
  <2>3. /\ batch' \in Seq(InsertRequest)
        /\ pending_compact' \in Seq(CompactRequest)
        /\ victims' \in Seq(Uuids) /\ channel' \in Seq(WalCommand)
    BY <1>5, EmptySeq DEF Crash
  <2>4. /\ task' \in [Tasks -> TaskState]
        /\ \A x \in Tasks : task'[x].state = "resolved" =>
                              task'[x].uuid \in Uuids
    BY <1>5 DEF Crash, Idle, TaskState
  <2>5. dimension' \in [Namespaces -> Nat] /\ serving' \in BOOLEAN
    BY <1>5 DEF Crash
  <2>6. crashes' \in 0..MaxCrashes
    BY <1>5 DEF Crash, TypeInv, TypeOK
  <2> QED
    BY <1>5, <2>2, <2>3, <2>4, <2>5, <2>6 DEF Crash, TypeInv, TypeOK, Shape,
       Control, historyVars
<1> QED
  BY <1>1, <1>2, <1>3, <1>4, <1>5

\* So does a step in which nothing happens.
LEMMA TypeStutter ==
    ASSUME TypeInv, UNCHANGED vars
    PROVE  TypeInv'
BY DEF TypeInv, TypeOK, Shape, vars, diskVars, indexVars, loopVars, bootVars,
   clientVars, boundVars, historyVars

\* TypeInv is inductive.
LEMMA TypeNext ==
    ASSUME TypeInv, [Next]_vars
    PROVE  TypeInv'
BY TypeHandlers, TypeReceive, TypeWrite, TypeApply, TypeEvict, TypeCompact,
   TypeBoot, TypeRest, TypeStutter DEF Next, Flush

\* Type correctness of the whole node: whatever requests, crashes and failures
\* occur, every structure of wal.rs, snapshot.rs and main.rs that the model
\* keeps stays well formed; the WAL holds only entries with a known UUID and a
\* sequence number in range, or lines that do not parse.
THEOREM TypeCorrect == Spec => []TypeOK
<1>1. Init => TypeInv
  BY TypeInit
<1>2. TypeInv /\ [Next]_vars => TypeInv'
  BY TypeNext
<1>3. TypeInv => TypeOK
  BY DEF TypeInv
<1> QED
  BY <1>1, <1>2, <1>3, PTL DEF Spec

-----------------------------------------------------------------------------
(* Replies. *)

\* The tasks to which the requests of a queue are to be answered, the tasks
\* that wait for an answer, and that each is in the queue once and waits for
\* the answer about that entry.
Repliers(q) == {q[i].from : i \in 1..Len(q)} \ {Nil}

Once(q) ==
    \A i, j \in 1..Len(q) : q[i].from = q[j].from /\ q[i].from # Nil => i = j

WaitingIn(tasks) == {t \in Tasks : tasks[t].state = "wait"}

Asked(q, tasks) ==
    \A i \in 1..Len(q) : q[i].from # Nil => tasks[q[i].from].uuid = q[i].uuid

\* The oneshot senders are in three places: the channel, the batch and the
\* pending compaction. Whoever waits has one of them, and only one.
OneEach(c, b, p, tasks) ==
    /\ WaitingIn(tasks) = Repliers(c) \cup Repliers(b) \cup Repliers(p)
    /\ Once(c) /\ Once(b) /\ Once(p)
    /\ Repliers(c) \cap Repliers(b) = {}
    /\ Repliers(c) \cap Repliers(p) = {}
    /\ Repliers(b) \cap Repliers(p) = {}
    /\ Asked(c, tasks) /\ Asked(b, tasks) /\ Asked(p, tasks)

OneReplyEach == OneEach(channel, batch, pending_compact, task)

\* Where the flush task has nothing in its hands, and that nobody has asked
\* anything before it runs.
HandsEmpty ==
    /\ pc \notin {"collect", "write", "written", "apply"} => batch = <<>>
    /\ pc \in {"boot", "replay", "recv", "collect"} => pending_compact = <<>>
    /\ Len(pending_compact) <= 1
    /\ pc \in {"boot", "replay"} =>
         channel = <<>> /\ ~serving /\ \A t \in Tasks : task[t] = Idle

ReplyInv == OneReplyEach /\ HandsEmpty

\* The empty queue, and the queue of one request.
LEMMA ShortQueues ==
    ASSUME NEW tasks
    PROVE  /\ Repliers(<<>>) = {} /\ Once(<<>>) /\ Asked(<<>>, tasks)
           /\ \A r : /\ Repliers(<<r>>) = {r.from} \ {Nil} /\ Once(<<r>>)
                     /\ (r.from # Nil => tasks[r.from].uuid = r.uuid) => Asked(<<r>>, tasks)
BY DEF Repliers, Once, Asked

\* A request is sent.
LEMMA QueueAppend ==
    ASSUME NEW S, NEW q \in Seq(S), NEW r \in S, NEW tasks, Once(q), Asked(q, tasks),
           r.from \notin Repliers(q),
           r.from # Nil => tasks[r.from].uuid = r.uuid
    PROVE  /\ Repliers(Append(q, r)) = Repliers(q) \cup ({r.from} \ {Nil})
           /\ Once(Append(q, r)) /\ Asked(Append(q, r), tasks)
<1>1. PICK p : p = Append(q, r)
  OBVIOUS
<1>2. /\ Len(q) \in Nat /\ Len(p) = Len(q) + 1 /\ p[Len(q) + 1] = r
      /\ \A i \in 1..Len(q) : p[i] = q[i]
  BY <1>1, AppendProperties, LenProperties
<1>3. 1..Len(p) = (1..Len(q)) \cup {Len(q) + 1}
  BY <1>2
<1>4. Repliers(p) = Repliers(q) \cup ({r.from} \ {Nil})
  BY <1>2, <1>3 DEF Repliers
<1>5. Once(p)
  BY <1>2, <1>3 DEF Once, Repliers
<1>6. Asked(p, tasks)
  BY <1>2, <1>3 DEF Asked
<1> QED
  BY <1>1, <1>4, <1>5, <1>6

\* The first request is taken.
LEMMA QueueTail ==
    ASSUME NEW S, NEW q \in Seq(S), q # <<>>, NEW tasks, Once(q), Asked(q, tasks)
    PROVE  /\ Repliers(Tail(q)) = Repliers(q) \ {Head(q).from}
           /\ Once(Tail(q)) /\ Asked(Tail(q), tasks)
           /\ Head(q).from \in Repliers(q) \cup {Nil}
           /\ Head(q).from # Nil => tasks[Head(q).from].uuid = Head(q).uuid
<1>1. PICK p : p = Tail(q)
  OBVIOUS
<1>2. /\ Len(q) \in Nat /\ Len(q) >= 1 /\ Len(p) = Len(q) - 1 /\ Head(q) = q[1]
      /\ \A i \in 1..Len(p) : p[i] = q[i + 1]
  BY <1>1, HeadTailProperties, LenProperties, EmptySeq
<1>3. ASSUME NEW i \in 1..Len(p) PROVE i + 1 \in 1..Len(q) /\ p[i] = q[i + 1] /\ i + 1 # 1
  BY <1>2
<1>4. ASSUME NEW i \in 1..Len(q), i # 1 PROVE i - 1 \in 1..Len(p) /\ q[i] = p[i - 1]
  BY <1>2, <1>4
<1>5. Repliers(p) \subseteq Repliers(q) \ {Head(q).from}
  <2> SUFFICES ASSUME NEW i \in 1..Len(p), p[i].from # Nil
               PROVE  p[i].from \in Repliers(q) \ {Head(q).from}
    BY DEF Repliers
  <2>1. i + 1 \in 1..Len(q) /\ p[i] = q[i + 1] /\ 1 \in 1..Len(q) /\ i + 1 # 1
    BY <1>2, <1>3
  <2>2. q[i + 1].from # q[1].from
    BY <2>1 DEF Once
  <2> QED
    BY <1>2, <2>1, <2>2 DEF Repliers
<1>6. Repliers(q) \ {Head(q).from} \subseteq Repliers(p)
  <2> SUFFICES ASSUME NEW i \in 1..Len(q), q[i].from # Nil, q[i].from # Head(q).from
               PROVE  q[i].from \in Repliers(p)
    BY DEF Repliers
  <2>1. i - 1 \in 1..Len(p) /\ q[i] = p[i - 1]
    BY <1>2, <1>4
  <2> QED
    BY <2>1 DEF Repliers
<1>7. Once(p)
  <2> SUFFICES ASSUME NEW i \in 1..Len(p), NEW j \in 1..Len(p),
                      p[i].from = p[j].from, p[i].from # Nil
               PROVE  i = j
    BY DEF Once
  <2>1. i + 1 = j + 1
    BY <1>3 DEF Once
  <2> QED
    BY <1>2, <2>1
<1>8. Asked(p, tasks)
  BY <1>3 DEF Asked
<1>9. /\ Head(q).from \in Repliers(q) \cup {Nil}
      /\ Head(q).from # Nil => tasks[Head(q).from].uuid = Head(q).uuid
  <2>1. 1 \in 1..Len(q)
    BY <1>2
  <2> QED
    BY <1>2, <2>1 DEF Repliers, Asked
<1> QED
  BY <1>1, <1>5, <1>6, <1>7, <1>8, <1>9

\* A receiver goes away.
LEMMA QueueOrphaned ==
    ASSUME NEW S, NEW q \in Seq(S), \A r \in S : DOMAIN r = {"op", "uuid", "from"},
           NEW tasks, Once(q), Asked(q, tasks), NEW h
    PROVE  /\ Repliers(Orphaned(q, h)) = Repliers(q) \ {h}
           /\ Once(Orphaned(q, h)) /\ Asked(Orphaned(q, h), tasks)
           /\ Len(Orphaned(q, h)) = Len(q)
           /\ (q = <<>> => Orphaned(q, h) = <<>>)
<1>1. PICK p : p = Orphaned(q, h)
  OBVIOUS
<1>2. Len(q) \in Nat /\ DOMAIN q = 1..Len(q) /\ \A i \in 1..Len(q) : q[i] \in S
  BY LenProperties, ElementOfSeq
<1>3. p = [i \in 1..Len(q) |-> [q[i] EXCEPT !.from = IF @ = h THEN Nil ELSE @]]
  BY <1>1, <1>2 DEF Orphaned
<1>4. Len(p) = Len(q)
  BY <1>2, <1>3
<1>5. ASSUME NEW i \in 1..Len(q)
      PROVE  p[i].from = (IF q[i].from = h THEN Nil ELSE q[i].from) /\ p[i].uuid = q[i].uuid
  BY <1>2, <1>3
<1>6. Repliers(p) = Repliers(q) \ {h}
  BY <1>4, <1>5 DEF Repliers
<1>7. Once(p)
  BY <1>4, <1>5 DEF Once
<1>8. Asked(p, tasks)
  BY <1>4, <1>5 DEF Asked
<1>9. q = <<>> => p = <<>>
  BY <1>3
<1> QED
  BY <1>1, <1>4, <1>6, <1>7, <1>8, <1>9

\* The tasks that wait change, and the queues with them.
LEMMA AskedStill ==
    ASSUME NEW q, NEW k, NEW l, Asked(q, k), \A t \in Repliers(q) : l[t].uuid = k[t].uuid
    PROVE  Asked(q, l)
BY DEF Asked, Repliers

LEMMA NobodyNew ==
    ASSUME NEW c, NEW b, NEW p, NEW k, NEW l, OneEach(c, b, p, k),
           WaitingIn(l) = WaitingIn(k), \A t \in WaitingIn(k) : l[t].uuid = k[t].uuid
    PROVE  OneEach(c, b, p, l)
BY AskedStill DEF OneEach

LEMMA OneMoreWaits ==
    ASSUME NEW S, NEW c \in Seq(S), NEW b, NEW p, NEW k, NEW l, OneEach(c, b, p, k),
           NEW r \in S, NEW t \in Tasks, r.from = t, t \notin WaitingIn(k),
           l[t].state = "wait", l[t].uuid = r.uuid,
           \A x \in Tasks \ {t} : l[x] = k[x]
    PROVE  OneEach(Append(c, r), b, p, l)
<1>1. t # Nil /\ WaitingIn(l) = WaitingIn(k) \cup {t}
  BY NilAssumption DEF WaitingIn
<1>2. \A x \in WaitingIn(k) : l[x].uuid = k[x].uuid
  BY DEF WaitingIn
<1>3. /\ Repliers(c) \subseteq WaitingIn(k) /\ Repliers(b) \subseteq WaitingIn(k)
      /\ Repliers(p) \subseteq WaitingIn(k)
  BY DEF OneEach
<1>4. Asked(c, l) /\ Asked(b, l) /\ Asked(p, l)
  BY <1>2, <1>3, AskedStill DEF OneEach
<1>5. r.from \notin Repliers(c) /\ Once(c)
  BY <1>3 DEF OneEach
<1>6. /\ Repliers(Append(c, r)) = Repliers(c) \cup {t}
      /\ Once(Append(c, r)) /\ Asked(Append(c, r), l)
  BY <1>1, <1>4, <1>5, QueueAppend
<1> QED
  BY <1>1, <1>3, <1>4, <1>6 DEF OneEach

\* The flush task takes a request: it joins the batch, or is the compaction to run.
LEMMA OneIsTaken ==
    ASSUME NEW S, NEW c \in Seq(S), c # <<>>, NEW b, NEW p, NEW k, OneEach(c, b, p, k)
    PROVE  /\ b \in Seq(S) => OneEach(Tail(c), Append(b, Head(c)), p, k)
           /\ b = <<>> => OneEach(Tail(c), <<Head(c)>>, p, k)
           /\ p = <<>> => OneEach(Tail(c), b, <<Head(c)>>, k)
<1>1. PICK d : d = Tail(c)
  OBVIOUS
<1>2. PICK r : r = Head(c)
  OBVIOUS
<1>3. /\ Repliers(d) = Repliers(c) \ {r.from} /\ Once(d) /\ Asked(d, k)
      /\ r.from \in Repliers(c) \cup {Nil}
      /\ r.from # Nil => k[r.from].uuid = r.uuid
  BY <1>1, <1>2, QueueTail DEF OneEach
<1>4. r \in S
  BY <1>2, HeadTailProperties
<1>5. Nil \notin Repliers(c) /\ Nil \notin Repliers(b) /\ Nil \notin Repliers(p)
  BY DEF Repliers
<1>6. ASSUME b \in Seq(S) PROVE OneEach(d, Append(b, r), p, k)
  <2>1. r.from \notin Repliers(b) /\ Once(b) /\ Asked(b, k)
    BY <1>3, <1>5 DEF OneEach
  <2>2. /\ Repliers(Append(b, r)) = Repliers(b) \cup ({r.from} \ {Nil})
        /\ Once(Append(b, r)) /\ Asked(Append(b, r), k)
    BY <1>3, <1>4, <1>6, <2>1, QueueAppend
  <2> QED
    BY <1>3, <1>5, <2>2 DEF OneEach
<1>7. Repliers(<<r>>) = {r.from} \ {Nil} /\ Once(<<r>>) /\ Asked(<<r>>, k)
  BY <1>3, ShortQueues
<1>8. Repliers(<<>>) = {}
  BY ShortQueues
<1>9. ASSUME b = <<>> PROVE OneEach(d, <<r>>, p, k)
  <2>1. Repliers(b) = {}
    BY <1>8, <1>9
  <2> HIDE <1>9
  <2> QED
    BY <1>3, <1>5, <1>7, <2>1 DEF OneEach
<1>10. ASSUME p = <<>> PROVE OneEach(d, b, <<r>>, k)
  <2>1. Repliers(p) = {}
    BY <1>8, <1>10
  <2> HIDE <1>10
  <2> QED
    BY <1>3, <1>5, <1>7, <2>1 DEF OneEach
<1> QED
  BY <1>1, <1>2, <1>6, <1>9, <1>10

\* Those in W are answered.
AnsweredIn(k, l, W) ==
    \A t \in Tasks : l[t] = IF t \in W THEN Sweeping(k[t].todo) ELSE k[t]

LEMMA AnsweredSays ==
    ASSUME NEW k, NEW l, NEW W, AnsweredIn(k, l, W)
    PROVE  /\ WaitingIn(l) = WaitingIn(k) \ W
           /\ \A t \in WaitingIn(l) : l[t].uuid = k[t].uuid
<1>1. \A T : Sweeping(T).state # "wait"
  BY DEF Sweeping, Idle
<1> QED
  BY <1>1 DEF AnsweredIn, WaitingIn

LEMMA SomeAreAnswered ==
    ASSUME NEW S, NEW c, NEW b, NEW p, NEW k, NEW l, OneEach(c, b, p, k), NEW W,
           AnsweredIn(k, l, W)
    PROVE  /\ b \in Seq(S) /\ b # <<>> /\ W = {Head(b).from} => OneEach(c, Tail(b), p, l)
           /\ W \ {Nil} = Repliers(b) => OneEach(c, <<>>, p, l)
           /\ W \ {Nil} = Repliers(p) => OneEach(c, b, <<>>, l)
<1>1. /\ WaitingIn(l) = WaitingIn(k) \ W
      /\ \A t \in WaitingIn(l) : l[t].uuid = k[t].uuid
  BY AnsweredSays
<1>2. Nil \notin Repliers(c) /\ Nil \notin Repliers(b) /\ Nil \notin Repliers(p)
  BY DEF Repliers
<1>3. Repliers(<<>>) = {} /\ Once(<<>>) /\ Asked(<<>>, l)
  BY ShortQueues
<1>4. PICK none : none = <<>>
  OBVIOUS
<1>5. ASSUME b \in Seq(S), b # <<>>, W = {Head(b).from} PROVE OneEach(c, Tail(b), p, l)
  <2>1. PICK d : d = Tail(b)
    OBVIOUS
  <2>2. /\ Repliers(d) = Repliers(b) \ W /\ Once(d) /\ Asked(d, k)
        /\ W \subseteq Repliers(b) \cup {Nil}
    BY <1>5, <2>1, QueueTail DEF OneEach
  <2>3. /\ Repliers(c) \subseteq WaitingIn(l) /\ Repliers(d) \subseteq WaitingIn(l)
        /\ Repliers(p) \subseteq WaitingIn(l)
    BY <1>1, <1>2, <2>2 DEF OneEach
  <2>4. Asked(c, l) /\ Asked(d, l) /\ Asked(p, l)
    BY <1>1, <2>2, <2>3, AskedStill DEF OneEach
  <2>5. OneEach(c, d, p, l)
    BY <1>1, <1>2, <2>2, <2>4 DEF OneEach
  <2> QED
    BY <2>1, <2>5
<1>6. ASSUME W \ {Nil} = Repliers(b) PROVE OneEach(c, none, p, l)
  <2>1. Repliers(c) \subseteq WaitingIn(l) /\ Repliers(p) \subseteq WaitingIn(l)
    BY <1>1, <1>2, <1>6 DEF OneEach
  <2>2. Asked(c, l) /\ Asked(p, l)
    BY <1>1, <2>1, AskedStill DEF OneEach
  <2>3. Repliers(none) = {} /\ Once(none) /\ Asked(none, l)
    BY <1>3, <1>4
  <2> QED
    BY <1>1, <1>2, <1>6, <2>2, <2>3 DEF OneEach
<1>7. ASSUME W \ {Nil} = Repliers(p) PROVE OneEach(c, b, none, l)
  <2>1. Repliers(c) \subseteq WaitingIn(l) /\ Repliers(b) \subseteq WaitingIn(l)
    BY <1>1, <1>2, <1>7 DEF OneEach
  <2>2. Asked(c, l) /\ Asked(b, l)
    BY <1>1, <2>1, AskedStill DEF OneEach
  <2>3. Repliers(none) = {} /\ Once(none) /\ Asked(none, l)
    BY <1>3, <1>4
  <2> QED
    BY <1>1, <1>2, <1>7, <2>2, <2>3 DEF OneEach
<1> QED
  BY <1>4, <1>5, <1>6, <1>7

\* One of them goes away.
LEMMA OneGoes ==
    ASSUME NEW c \in Seq(WalCommand), NEW b \in Seq(InsertRequest),
           NEW p \in Seq(CompactRequest), NEW k, NEW l, OneEach(c, b, p, k),
           NEW h, l[h].state # "wait", \A x \in Tasks \ {h} : l[x] = k[x]
    PROVE  OneEach(Orphaned(c, h), Orphaned(b, h), Orphaned(p, h), l)
<1>1. /\ \A r \in WalCommand : DOMAIN r = {"op", "uuid", "from"}
      /\ \A r \in InsertRequest : DOMAIN r = {"op", "uuid", "from"}
      /\ \A r \in CompactRequest : DOMAIN r = {"op", "uuid", "from"}
  BY DEF WalCommand, InsertRequest, CompactRequest
<1>2. PICK d, e, f : d = Orphaned(c, h) /\ e = Orphaned(b, h) /\ f = Orphaned(p, h)
  OBVIOUS
<1>3. Repliers(d) = Repliers(c) \ {h} /\ Once(d) /\ Asked(d, k)
  BY <1>1, <1>2, QueueOrphaned DEF OneEach
<1>4. Repliers(e) = Repliers(b) \ {h} /\ Once(e) /\ Asked(e, k)
  BY <1>1, <1>2, QueueOrphaned DEF OneEach
<1>5. Repliers(f) = Repliers(p) \ {h} /\ Once(f) /\ Asked(f, k)
  BY <1>1, <1>2, QueueOrphaned DEF OneEach
<1>6. WaitingIn(l) = WaitingIn(k) \ {h} /\ \A x \in WaitingIn(l) : l[x].uuid = k[x].uuid
  BY DEF WaitingIn
<1>7. /\ Repliers(d) \subseteq WaitingIn(l) /\ Repliers(e) \subseteq WaitingIn(l)
      /\ Repliers(f) \subseteq WaitingIn(l)
  BY <1>3, <1>4, <1>5, <1>6 DEF OneEach
<1>8. Asked(d, l) /\ Asked(e, l) /\ Asked(f, l)
  BY <1>3, <1>4, <1>5, <1>6, <1>7, AskedStill
<1>9. OneEach(d, e, f, l)
  BY <1>3, <1>4, <1>5, <1>6, <1>8 DEF OneEach
<1> QED
  BY <1>2, <1>9

LEMMA NextOneEach ==
    ASSUME OneEach(channel', batch', pending_compact', task')
    PROVE  OneReplyEach'
BY DEF OneReplyEach, OneEach, Repliers, Once, Asked, WaitingIn

LEMMA ReplyInit == Init => ReplyInv
<1> SUFFICES ASSUME Init PROVE ReplyInv
  OBVIOUS
<1>1. WaitingIn(task) = {}
  BY DEF Init, WaitingIn, Idle
<1>2. PICK none : none = <<>>
  OBVIOUS
<1>3. Repliers(none) = {} /\ Once(none) /\ Asked(none, task)
  BY <1>2, ShortQueues
<1>4. channel = none /\ batch = none /\ pending_compact = none
  BY <1>2 DEF Init
<1>5. OneReplyEach
  BY <1>1, <1>3, <1>4 DEF OneReplyEach, OneEach
<1>6. HandsEmpty
  BY DEF Init, HandsEmpty
<1> QED
  BY <1>5, <1>6 DEF ReplyInv

\* Steps that touch none of the queues, and nobody who waits.
LEMMA ReplyQuiet ==
    ASSUME TypeInv, ReplyInv, UNCHANGED <<channel, batch, pending_compact, task>>
    PROVE  OneReplyEach'
<1>1. OneEach(channel, batch, pending_compact, task)
  BY DEF ReplyInv, OneReplyEach
<1> QED
  BY <1>1, NextOneEach

LEMMA ReplyElsewhere ==
    ASSUME TypeInv, ReplyInv, UNCHANGED <<channel, batch, pending_compact>>,
           NEW t \in Tasks, NEW r, task' = [task EXCEPT ![t] = r],
           task[t].state # "wait", r.state # "wait"
    PROVE  OneReplyEach'
<1>1. task'[t] = r /\ \A x \in Tasks \ {t} : task'[x] = task[x]
  BY DEF TypeInv, TypeOK
<1>2. /\ WaitingIn(task') = WaitingIn(task)
      /\ \A x \in WaitingIn(task) : task'[x].uuid = task[x].uuid
  BY <1>1 DEF WaitingIn
<1>3. OneEach(channel, batch, pending_compact, task')
  BY <1>2, NobodyNew DEF ReplyInv, OneReplyEach
<1> QED
  BY <1>3, NextOneEach

\* A task that sends a request waits for its answer.
LEMMA ReplySend ==
    ASSUME TypeInv, ReplyInv, UNCHANGED <<batch, pending_compact>>,
           NEW t \in Tasks, task[t].state # "wait", NEW r \in WalCommand, r.from = t,
           NEW s, s.state = "wait", s.uuid = r.uuid,
           task' = [task EXCEPT ![t] = s], channel' = Append(channel, r)
    PROVE  OneReplyEach'
<1>1. task'[t] = s /\ \A x \in Tasks \ {t} : task'[x] = task[x]
  BY DEF TypeInv, TypeOK
<1>2. t \notin WaitingIn(task)
  BY DEF WaitingIn
<1>3. channel \in Seq(WalCommand) /\ OneEach(channel, batch, pending_compact, task)
  BY DEF TypeInv, TypeOK, ReplyInv, OneReplyEach
<1>4. PICK l : l = task'
  OBVIOUS
<1>5. l[t].state = "wait" /\ l[t].uuid = r.uuid /\ \A x \in Tasks \ {t} : l[x] = task[x]
  BY <1>1, <1>4
<1>6. OneEach(Append(channel, r), batch, pending_compact, l)
  BY <1>2, <1>3, <1>5, OneMoreWaits
<1> QED
  BY <1>4, <1>6, NextOneEach

\* Handlers: what they send is the one thing they wait for, and when they go
\* away nothing is owed to them.
LEMMA ReplyHandlers ==
    ASSUME TypeInv, ReplyInv, NEW h \in Handlers, Handler(h)
    PROVE  ReplyInv'
<1>0. h \in Tasks
  BY DEF Tasks
<1>1. ASSUME NEW u \in Uuids, SubmitInsert(h, u) PROVE ReplyInv'
  <2>1. PICK r : r = [op |-> "insert", uuid |-> u, from |-> h]
    OBVIOUS
  <2>2. r \in WalCommand /\ r.from = h /\ r.uuid = u
    BY <1>0, <2>1 DEF WalCommand, InsertRequest
  <2>3. PICK s : s = Waiting(u)
    OBVIOUS
  <2>4. s.state = "wait" /\ s.uuid = u
    BY <2>3 DEF Waiting
  <2>5. /\ channel' = Append(channel, r) /\ task' = [task EXCEPT ![h] = s]
        /\ task[h].state = "idle" /\ serving
        /\ UNCHANGED <<batch, pending_compact, pc, serving>>
    BY <1>1, <2>1, <2>3 DEF SubmitInsert, loopVars
  <2>6. OneReplyEach'
    BY <1>0, <2>2, <2>4, <2>5, ReplySend
  <2> QED
    BY <2>5, <2>6 DEF ReplyInv, HandsEmpty
<1>2. CASE SubmitCompact(h)
  <2>1. PICK r : r = [op |-> "compact", uuid |-> Nil, from |-> h]
    OBVIOUS
  <2>2. r \in WalCommand /\ r.from = h /\ r.uuid = Nil
    BY <1>0, <2>1 DEF WalCommand, CompactRequest
  <2>3. PICK s : s = Waiting(Nil)
    OBVIOUS
  <2>4. s.state = "wait" /\ s.uuid = Nil
    BY <2>3 DEF Waiting
  <2>5. /\ channel' = Append(channel, r) /\ task' = [task EXCEPT ![h] = s]
        /\ task[h].state = "idle" /\ serving
        /\ UNCHANGED <<batch, pending_compact, pc, serving>>
    BY <1>2, <2>1, <2>3 DEF SubmitCompact, loopVars
  <2>6. OneReplyEach'
    BY <1>0, <2>2, <2>4, <2>5, ReplySend
  <2> QED
    BY <2>5, <2>6 DEF ReplyInv, HandsEmpty
<1>3. ASSUME NEW u \in Uuids, DeleteResolve(h, u) PROVE ReplyInv'
  <2>1. PICK s : s = [state |-> "resolved", todo |-> {}, uuid |-> u]
    OBVIOUS
  <2>2. /\ task' = [task EXCEPT ![h] = s] /\ task[h].state = "idle" /\ s.state = "resolved"
        /\ serving /\ UNCHANGED <<channel, batch, pending_compact, pc, serving>>
    BY <1>3, <2>1 DEF DeleteResolve, loopVars
  <2>3. OneReplyEach'
    BY <1>0, <2>2, ReplyElsewhere
  <2> QED
    BY <2>2, <2>3 DEF ReplyInv, HandsEmpty
<1>4. ASSUME NEW T, BeginRemoval(h, T), task[h].state \in {"resolved", "idle"},
             serving \/ task[h].state = "resolved",
             UNCHANGED <<channel, batch, pending_compact, pc, serving>>
      PROVE  ReplyInv'
  <2>1. PICK s : s = Sweeping(T)
    OBVIOUS
  <2>2. s.state # "wait"
    BY <2>1 DEF Sweeping, Idle
  <2>3. task' = [task EXCEPT ![h] = s]
    BY <1>4, <2>1 DEF BeginRemoval
  <2>4. OneReplyEach'
    BY <1>0, <1>4, <2>2, <2>3, ReplyElsewhere
  <2>5. pc \notin {"boot", "replay"}
    BY <1>0, <1>4 DEF ReplyInv, HandsEmpty, Idle
  <2> QED
    BY <1>4, <2>4, <2>5 DEF ReplyInv, HandsEmpty
<1>5. CASE DeleteRemove(h)
  BY <1>4, <1>5 DEF DeleteRemove, loopVars
<1>6. ASSUME NEW ns \in Namespaces, NEW T \in SUBSET Uuids, Invalidate(h, ns, T)
      PROVE  ReplyInv'
  BY <1>4, <1>6 DEF Invalidate, loopVars
<1>7. CASE Disconnect(h)
  <2>1. /\ channel \in Seq(WalCommand) /\ batch \in Seq(InsertRequest)
        /\ pending_compact \in Seq(CompactRequest)
        /\ OneEach(channel, batch, pending_compact, task)
    BY DEF TypeInv, TypeOK, ReplyInv, OneReplyEach
  <2>2. /\ channel' = Orphaned(channel, h) /\ batch' = Orphaned(batch, h)
        /\ pending_compact' = Orphaned(pending_compact, h)
        /\ task' = [task EXCEPT ![h] = Idle] /\ task[h].state # "idle"
        /\ UNCHANGED <<pc, serving>>
    BY <1>7 DEF Disconnect
  <2>3. PICK l : l = task'
    OBVIOUS
  <2>4. l[h].state # "wait" /\ \A x \in Tasks \ {h} : l[x] = task[x]
    BY <1>0, <2>2, <2>3 DEF Idle, TypeInv, TypeOK
  <2>5. OneEach(Orphaned(channel, h), Orphaned(batch, h), Orphaned(pending_compact, h), l)
    BY <2>1, <2>4, OneGoes
  <2>6. OneReplyEach'
    BY <2>2, <2>3, <2>5, NextOneEach
  <2>7. /\ batch = <<>> => batch' = <<>>
        /\ pending_compact = <<>> => pending_compact' = <<>>
        /\ Len(pending_compact') = Len(pending_compact)
    <3>1. /\ \A r \in InsertRequest : DOMAIN r = {"op", "uuid", "from"}
          /\ \A r \in CompactRequest : DOMAIN r = {"op", "uuid", "from"}
      BY DEF InsertRequest, CompactRequest
    <3> QED
      BY <2>1, <2>2, <3>1, QueueOrphaned DEF OneEach
  <2>8. pc \notin {"boot", "replay"}
    BY <1>0, <2>2 DEF ReplyInv, HandsEmpty, Idle
  <2> QED
    BY <2>2, <2>6, <2>7, <2>8 DEF ReplyInv, HandsEmpty
<1> QED
  BY <1>1, <1>2, <1>3, <1>5, <1>6, <1>7 DEF Handler

\* The flush task takes requests over; none is dropped on the way.
LEMMA ReplyReceive ==
    ASSUME TypeInv, ReplyInv, RecvFirst \/ CollectMore \/ CloseBatch
    PROVE  ReplyInv'
<1>1. /\ channel \in Seq(WalCommand) /\ batch \in Seq(WalCommand)
      /\ OneEach(channel, batch, pending_compact, task)
  BY DEF TypeInv, TypeOK, ReplyInv, OneReplyEach, WalCommand
<1>2. channel # <<>> =>
        /\ OneEach(Tail(channel), Append(batch, Head(channel)), pending_compact, task)
        /\ batch = <<>> => OneEach(Tail(channel), <<Head(channel)>>, pending_compact, task)
        /\ pending_compact = <<>> => OneEach(Tail(channel), batch, <<Head(channel)>>, task)
  BY <1>1, OneIsTaken
<1>3. Len(<<>>) <= 1 /\ \A r : Len(<<r>>) <= 1
  OBVIOUS
<1>4. CASE RecvFirst
  <2>1. /\ pc = "recv" /\ batch = <<>> /\ pending_compact = <<>> /\ channel # <<>>
        /\ channel' = Tail(channel) /\ UNCHANGED <<task, serving>>
        /\ \/ /\ pending_compact' = <<Head(channel)>> /\ batch' = batch /\ pc' = "pending"
           \/ /\ batch' = <<Head(channel)>> /\ pending_compact' = pending_compact
              /\ pc' = "collect"
    BY <1>4 DEF RecvFirst, ReplyInv, HandsEmpty
  <2>2. OneReplyEach'
    BY <1>2, <2>1, NextOneEach
  <2>3. Len(pending_compact') <= 1
    BY <1>3, <2>1
  <2>4. HandsEmpty'
    BY <2>1, <2>3 DEF HandsEmpty
  <2> QED
    BY <2>2, <2>4 DEF ReplyInv
<1>5. CASE CollectMore
  <2>1. /\ pc = "collect" /\ pending_compact = <<>> /\ channel # <<>>
        /\ channel' = Tail(channel) /\ UNCHANGED <<task, serving>>
        /\ \/ /\ pending_compact' = <<Head(channel)>> /\ batch' = batch /\ pc' = "write"
           \/ /\ batch' = Append(batch, Head(channel)) /\ pending_compact' = pending_compact
              /\ pc' = pc
    BY <1>5 DEF CollectMore, ReplyInv, HandsEmpty
  <2>2. OneReplyEach'
    BY <1>2, <2>1, NextOneEach
  <2>3. Len(pending_compact') <= 1
    BY <1>3, <2>1
  <2>4. HandsEmpty'
    BY <2>1, <2>3 DEF HandsEmpty
  <2> QED
    BY <2>2, <2>4 DEF ReplyInv
<1>6. CASE CloseBatch
  <2>1. OneReplyEach'
    BY <1>6, ReplyQuiet DEF CloseBatch, loopVars, clientVars
  <2> QED
    BY <1>6, <2>1 DEF CloseBatch, loopVars, clientVars, ReplyInv, HandsEmpty
<1> QED
  BY <1>4, <1>5, <1>6

\* A batch that cannot be written is answered as a whole.
LEMMA ReplyWrite ==
    ASSUME TypeInv, ReplyInv, WriteBatch \/ WriteBatchFails \/ SequenceOverflow
    PROVE  ReplyInv'
<1>1. CASE WriteBatch
  <2>1. OneReplyEach'
    BY <1>1, ReplyQuiet DEF WriteBatch, clientVars
  <2> QED
    BY <1>1, <2>1 DEF WriteBatch, clientVars, ReplyInv, HandsEmpty
<1>2. CASE WriteBatchFails \/ SequenceOverflow
  <2>1. /\ pc = "write" /\ pc' = "evict" /\ batch' = <<>>
        /\ task' = Answered({batch[i].from : i \in DOMAIN batch})
        /\ UNCHANGED <<channel, pending_compact, serving>>
    BY <1>2 DEF WriteBatchFails, SequenceOverflow, RejectBatch
  <2>2. PICK W : W = {batch[i].from : i \in DOMAIN batch}
    OBVIOUS
  <2>3. W \ {Nil} = Repliers(batch)
    <3>1. DOMAIN batch = 1..Len(batch)
      BY LenProperties DEF TypeInv, TypeOK
    <3> QED
      BY <2>2, <3>1 DEF Repliers
  <2>4. PICK l : l = task'
    OBVIOUS
  <2>5. AnsweredIn(task, l, W)
    BY <2>1, <2>2, <2>4 DEF Answered, AnsweredIn
  <2>6. OneEach(channel, <<>>, pending_compact, l)
    BY <2>3, <2>5, SomeAreAnswered DEF ReplyInv, OneReplyEach
  <2>7. OneReplyEach'
    BY <2>1, <2>4, <2>6, NextOneEach
  <2> QED
    BY <2>1, <2>7 DEF ReplyInv, HandsEmpty
<1> QED
  BY <1>1, <1>2

\* Each request of the batch is answered when it is applied.
LEMMA ReplyApply ==
    ASSUME TypeInv, ReplyInv, ApplyInsert \/ ApplyTombstone
    PROVE  ReplyInv'
<1>1. /\ pc \in {"written", "apply"} /\ batch' = Tail(batch)
      /\ pc' = IF Len(batch) = 1 THEN "evict" ELSE "apply"
      /\ task' = Answered({Head(batch).from})
      /\ UNCHANGED <<channel, pending_compact, serving>>
  BY DEF ApplyInsert, ApplyTombstone
<1>2. batch \in Seq(InsertRequest) /\ batch # <<>>
  BY <1>1 DEF TypeInv, TypeOK, Shape
<1>3. PICK W : W = {Head(batch).from}
  OBVIOUS
<1>4. PICK l : l = task'
  OBVIOUS
<1>5. AnsweredIn(task, l, W)
  BY <1>1, <1>3, <1>4 DEF Answered, AnsweredIn
<1>6. OneEach(channel, Tail(batch), pending_compact, l)
  BY <1>2, <1>3, <1>5, SomeAreAnswered DEF ReplyInv, OneReplyEach
<1>7. OneReplyEach'
  BY <1>1, <1>4, <1>6, NextOneEach
<1>8. Len(batch) = 1 => batch' = <<>>
  <2>1. Tail(batch) \in Seq(InsertRequest) /\ Len(Tail(batch)) = Len(batch) - 1
    BY <1>2, HeadTailProperties
  <2> QED
    BY <1>1, <2>1, EmptySeq
<1>9. HandsEmpty'
  BY <1>1, <1>8 DEF ReplyInv, HandsEmpty
<1> QED
  BY <1>7, <1>9 DEF ReplyInv

\* Evictions owe nobody an answer.
LEMMA ReplyEvict ==
    ASSUME TypeInv, ReplyInv,
           EvictOne \/ EvictDone \/ EvictWrite \/ EvictWriteFails \/ EvictOverflow
    PROVE  ReplyInv'
<1>1. /\ UNCHANGED <<channel, batch, pending_compact, task, serving>>
      /\ pc \in {"evict", "evicting", "evict_write"}
      /\ pc' \in {"evicting", "evict_write", "autocompact"}
  BY DEF EvictOne, EvictDone, EvictWrite, EvictWriteFails, EvictOverflow, loopVars,
     clientVars
<1>2. OneReplyEach'
  BY <1>1, ReplyQuiet
<1>3. HandsEmpty'
  BY <1>1 DEF ReplyInv, HandsEmpty
<1> QED
  BY <1>2, <1>3 DEF ReplyInv

\* A requested compaction is answered at its end, whatever became of it; an
\* automatic one leaves the requested one to be run.
LEMMA ReplyCompact ==
    ASSUME TypeInv, ReplyInv,
           \/ AutoCompact \/ RunPending \/ WriteSnapshot \/ WriteSnapshotFails
           \/ Truncate \/ TruncateFails
    PROVE  ReplyInv'
<1>1. CASE AutoCompact \/ RunPending \/ WriteSnapshot
  <2>1. /\ UNCHANGED <<channel, batch, pending_compact, task, serving>>
        /\ pc \in {"autocompact", "pending", "snapshot"}
        /\ pc' \in {"snapshot", "pending", "recv", "truncate"}
        /\ pc' = "recv" => pending_compact = <<>>
    BY <1>1 DEF AutoCompact, RunPending, WriteSnapshot, loopVars, clientVars
  <2>2. OneReplyEach'
    BY <2>1, ReplyQuiet
  <2>3. HandsEmpty'
    BY <2>1 DEF ReplyInv, HandsEmpty
  <2> QED
    BY <2>2, <2>3 DEF ReplyInv
<1>2. CASE WriteSnapshotFails \/ Truncate \/ TruncateFails
  <2>1. /\ pc \in {"snapshot", "truncate"} /\ FinishCompaction
        /\ UNCHANGED <<channel, batch, serving>>
    BY <1>2 DEF WriteSnapshotFails, Truncate, TruncateFails
  <2>2. CASE compaction = "auto"
    <3>1. pc' = "pending" /\ UNCHANGED <<pending_compact, task>>
      BY <2>1, <2>2 DEF FinishCompaction
    <3>2. OneReplyEach'
      BY <2>1, <3>1, ReplyQuiet
    <3>3. HandsEmpty'
      BY <2>1, <3>1 DEF ReplyInv, HandsEmpty
    <3> QED
      BY <3>2, <3>3 DEF ReplyInv
  <2>3. CASE compaction # "auto"
    <3>1. /\ pc' = "recv" /\ pending_compact' = <<>>
          /\ task' = Answered({Head(pending_compact).from})
      BY <2>1, <2>3 DEF FinishCompaction
    <3>2. pending_compact \in Seq(CompactRequest) /\ pending_compact # <<>>
      BY <2>1, <2>3 DEF TypeInv, TypeOK, Shape
    <3>3. Len(pending_compact) = 1 /\ Head(pending_compact) = pending_compact[1]
      <4>1. Len(pending_compact) \in Nat /\ Len(pending_compact) # 0
        BY <3>2, LenProperties, EmptySeq
      <4>2. Len(pending_compact) <= 1
        BY DEF ReplyInv, HandsEmpty
      <4>3. Head(pending_compact) = pending_compact[1]
        BY <3>2, HeadTailProperties
      <4> QED
        BY <4>1, <4>2, <4>3
    <3>4. PICK W : W = {Head(pending_compact).from}
      OBVIOUS
    <3>5. W \ {Nil} = Repliers(pending_compact)
      <4>1. 1..Len(pending_compact) = {1}
        BY <3>3
      <4> QED
        BY <3>3, <3>4, <4>1 DEF Repliers
    <3>6. PICK l : l = task'
      OBVIOUS
    <3>7. AnsweredIn(task, l, W)
      BY <3>1, <3>4, <3>6 DEF Answered, AnsweredIn
    <3>8. OneEach(channel, batch, <<>>, l)
      BY <3>5, <3>7, SomeAreAnswered DEF ReplyInv, OneReplyEach
    <3>9. OneReplyEach'
      BY <2>1, <3>1, <3>6, <3>8, NextOneEach
    <3>10. Len(pending_compact') <= 1
      BY <3>1
    <3>11. HandsEmpty'
      BY <2>1, <3>1, <3>10 DEF ReplyInv, HandsEmpty
    <3> QED
      BY <3>9, <3>11 DEF ReplyInv
  <2> QED
    BY <2>2, <2>3
<1> QED
  BY <1>1, <1>2

\* The start, the reaper, the tombstones and the end of the process.
LEMMA ReplyRest ==
    ASSUME TypeInv, ReplyInv,
           \/ Boot \/ Listen \/ ReaperSweep \/ (\E t \in Tasks : SendTombstone(t))
           \/ (\E u \in TtlUuids : Expire(u)) \/ Crash \/ UNCHANGED vars
    PROVE  ReplyInv'
<1>0. Janitor \in Tasks
  BY DEF Tasks
<1>1. CASE \/ LoadSnapshot \/ LoadSnapshotFails \/ ReplayLine \/ ReplayFails \/ Listen
           \/ (\E u \in TtlUuids : Expire(u)) \/ UNCHANGED vars
  <2>1. UNCHANGED <<channel, batch, pending_compact, task>>
    BY <1>1 DEF LoadSnapshot, LoadSnapshotFails, ReplayLine, ReplayFails, Listen,
       Expire, vars, loopVars, clientVars
  <2>2. OneReplyEach'
    BY <2>1, ReplyQuiet
  <2>3. \/ UNCHANGED <<pc, serving>>
        \/ pc \in {"boot", "replay"} /\ pc' \in {"boot", "replay"} /\ UNCHANGED serving
        \/ pc \notin {"boot", "replay"} /\ UNCHANGED pc
    BY <1>1 DEF LoadSnapshot, LoadSnapshotFails, ReplayLine, ReplayFails, Listen,
       Expire, vars, loopVars, clientVars
  <2>4. HandsEmpty'
    BY <2>1, <2>3 DEF ReplyInv, HandsEmpty
  <2> QED
    BY <2>2, <2>4 DEF ReplyInv
<1>2. CASE StartupExpiry \/ ReaperSweep
  <2>1. PICK T : BeginRemoval(Janitor, T)
    BY <1>2 DEF StartupExpiry, ReaperSweep
  <2>2. PICK s : s = Sweeping(T)
    OBVIOUS
  <2>3. s.state # "wait" /\ task' = [task EXCEPT ![Janitor] = s]
    BY <2>1, <2>2 DEF BeginRemoval, Sweeping, Idle
  <2>4. /\ UNCHANGED <<channel, batch, pending_compact, serving>>
        /\ \/ pc = "replay" /\ pc' = "recv"
           \/ serving /\ pc' = pc
    BY <1>2 DEF StartupExpiry, ReaperSweep, loopVars
  <2>5. task[Janitor].state # "wait"
    BY <1>0, <1>2 DEF StartupExpiry, ReaperSweep, ReplyInv, HandsEmpty, Idle
  <2>6. OneReplyEach'
    BY <1>0, <2>3, <2>4, <2>5, ReplyElsewhere
  <2>7. HandsEmpty'
    BY <2>4 DEF ReplyInv, HandsEmpty
  <2> QED
    BY <2>6, <2>7 DEF ReplyInv
<1>3. ASSUME NEW t \in Tasks, SendTombstone(t) PROVE ReplyInv'
  <2>1. PICK u \in task[t].todo :
          /\ channel' = Append(channel, [op |-> "tombstone", uuid |-> u, from |-> t])
          /\ task' = [task EXCEPT ![t] = [state |-> "wait", todo |-> task[t].todo \ {u},
                                          uuid |-> u]]
    BY <1>3 DEF SendTombstone
  <2>2. PICK r : r = [op |-> "tombstone", uuid |-> u, from |-> t]
    OBVIOUS
  <2>3. PICK s : s = [state |-> "wait", todo |-> task[t].todo \ {u}, uuid |-> u]
    OBVIOUS
  <2>4. u \in Uuids
    BY DEF TypeInv, TypeOK, TaskState
  <2>5. /\ r \in WalCommand /\ r.from = t /\ r.uuid = u /\ s.state = "wait" /\ s.uuid = u
    BY <2>2, <2>3, <2>4 DEF WalCommand, InsertRequest
  <2>6. /\ channel' = Append(channel, r) /\ task' = [task EXCEPT ![t] = s]
        /\ task[t].state = "sweep" /\ UNCHANGED <<batch, pending_compact, pc, serving>>
    BY <1>3, <2>1, <2>2, <2>3 DEF SendTombstone, loopVars
  <2>7. OneReplyEach'
    BY <2>5, <2>6, ReplySend
  <2>8. pc \notin {"boot", "replay"}
    BY <2>6 DEF ReplyInv, HandsEmpty, Idle
  <2>9. HandsEmpty'
    BY <2>6, <2>8 DEF ReplyInv, HandsEmpty
  <2> QED
    BY <2>7, <2>9 DEF ReplyInv
<1>4. CASE Crash
  <2>1. PICK none : none = <<>>
    OBVIOUS
  <2>2. /\ channel' = none /\ batch' = none /\ pending_compact' = none /\ pc' = "boot"
        /\ task' = [t \in Tasks |-> Idle] /\ serving' = FALSE
    BY <1>4, <2>1 DEF Crash
  <2>3. WaitingIn(task') = {}
    BY <2>2 DEF WaitingIn, Idle
  <2>4. Repliers(none) = {} /\ Once(none) /\ Asked(none, task')
    BY <2>1, ShortQueues
  <2>5. OneEach(none, none, none, task')
    BY <2>3, <2>4 DEF OneEach
  <2>6. OneReplyEach'
    BY <2>2, <2>5, NextOneEach
  <2>7. HandsEmpty'
    BY <2>1, <2>2 DEF HandsEmpty
  <2> QED
    BY <2>6, <2>7 DEF ReplyInv
<1> QED
  BY <1>1, <1>2, <1>3, <1>4 DEF Boot

LEMMA ReplyNext ==
    ASSUME TypeInv, ReplyInv, [Next]_vars
    PROVE  ReplyInv'
BY ReplyHandlers, ReplyReceive, ReplyWrite, ReplyApply, ReplyEvict, ReplyCompact,
   ReplyRest DEF Next, Flush

\* A handler, the reaper or main that awaits a reply of the flush task has its
\* oneshot sender in exactly one request, in the channel, in the batch or as the
\* compaction to run, and that request is the one it has made. No reply is lost,
\* and none reaches a task that waits for something else, through all failed
\* writes, failed compactions, disconnects and crashes.
THEOREM RepliesMatchWaiters == Spec => []OneReplyEach
<1>1. TypeInv /\ ReplyInv /\ [Next]_vars => (TypeInv /\ ReplyInv)'
  BY TypeNext, ReplyNext
<1>2. ReplyInv => OneReplyEach
  BY DEF ReplyInv
<1> QED
  BY <1>1, <1>2, TypeInit, ReplyInit, PTL DEF Spec

\* The flush task is never at rest while somebody waits for it: it has work in
\* hand, or a request to receive.
NobodyWaitsInVain ==
    WaitingIn(task) # {} => Up /\ (pc = "recv" => channel # <<>>)

\* Whoever awaits a oneshot reply waits for a flush task that runs and has work:
\* it is never parked in recv on an empty channel, so a request left behind by a
\* failed write, a compaction or a crash cannot hang its caller. This is the
\* safety half of EveryRequestAnswered.
THEOREM NobodyWaitsInVainHolds == Spec => []NobodyWaitsInVain
<1>1. TypeInv /\ ReplyInv /\ [Next]_vars => (TypeInv /\ ReplyInv)'
  BY TypeNext, ReplyNext
<1>2. ReplyInv => NobodyWaitsInVain
  <2> SUFFICES ASSUME ReplyInv, WaitingIn(task) # {}
               PROVE  Up /\ (pc = "recv" => channel # <<>>)
    BY DEF NobodyWaitsInVain
  <2>1. Up
    BY DEF ReplyInv, HandsEmpty, Up, WaitingIn, Idle
  <2>2. ASSUME pc = "recv", channel = <<>> PROVE FALSE
    <3>1. batch = <<>> /\ pending_compact = <<>>
      BY <2>2 DEF ReplyInv, HandsEmpty
    <3>2. Repliers(channel) = {} /\ Repliers(batch) = {} /\ Repliers(pending_compact) = {}
      BY <2>2, <3>1, ShortQueues
    <3> QED
      BY <3>2 DEF ReplyInv, OneReplyEach, OneEach
  <2> QED
    BY <2>1, <2>2
<1> QED
  BY <1>1, <1>2, TypeInit, ReplyInit, PTL DEF Spec

=============================================================================
