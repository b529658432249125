-------------------------- MODULE DurabilityProofs --------------------------
(***************************************************************************)
(* On a clean disk (see CleanDisk) no crash and no failed call loses an    *)
(* acknowledged insert, for every value of the constants.                  *)
(***************************************************************************)
EXTENDS GroupCommitWalProofs

-----------------------------------------------------------------------------
(* What the disk says. *)

\* On a clean disk every line reads back, so only the watermark hides one.
LEMMA TailLine ==
    ASSUME CleanDisk, WholeLines, NEW i \in 1..Len(wal)
    PROVE  /\ wal[i] \in WalEntry
           /\ InTail(i) <=> wal[i].seq > snapshot_sequence
BY DEF CleanDisk, WholeLines, InTail, Readable, WalEntry

\* A log of whole lines is never refused at start-up.
LEMMA NothingRefused ==
    ASSUME TypeInv, WholeLines, ReplayFails
    PROVE  FALSE
<1>1. cursor + 1 \in 1..Len(wal)
  BY LenProperties DEF ReplayFails, TypeInv, TypeOK
<1> QED
  BY <1>1 DEF ReplayFails, WholeLines, WalEntry

\* Nothing about the disk changes when its files do not.
LEMMA SameDisk ==
    ASSUME UNCHANGED <<wal, snapshot, snapshot_sequence>>, NEW u
    PROVE  /\ OnDisk(u)' <=> OnDisk(u)
           /\ \A n : OnDiskAfter(n, u)' <=> OnDiskAfter(n, u)
BY DEF OnDisk, OnDiskAfter, InTail, Readable, IsFor

\* Before the first line the snapshot decides.
LEMMA OnDiskAfterNone ==
    ASSUME NEW u
    PROVE  OnDiskAfter(0, u) <=> u \in snapshot
BY DEF OnDiskAfter

\* What one more line does to what the disk says of an entry.
LEMMA OnDiskAfterLine ==
    ASSUME CleanDisk, WholeLines, TypeInv,
           NEW n \in Nat, n < Len(wal), NEW u \in Uuids
    PROVE  /\ \/ wal[n + 1].seq <= snapshot_sequence
              \/ wal[n + 1].uuid # u
              => (OnDiskAfter(n + 1, u) <=> OnDiskAfter(n, u))
           /\ /\ wal[n + 1].seq > snapshot_sequence
              /\ IsFor(wal[n + 1], "tombstone", u)
              => ~OnDiskAfter(n + 1, u)
           /\ /\ wal[n + 1].seq > snapshot_sequence
              /\ IsFor(wal[n + 1], "insert", u)
              => OnDiskAfter(n + 1, u)
<1>0. Len(wal) \in Nat /\ n + 1 \in 1..Len(wal)
  BY LenProperties DEF TypeInv, TypeOK
<1>1. /\ wal[n + 1] \in WalEntry
      /\ InTail(n + 1) <=> wal[n + 1].seq > snapshot_sequence
  BY <1>0, TailLine
<1>2. snapshot_sequence \in Nat /\ wal[n + 1].seq \in Nat
  BY <1>1, NodeAssumption DEF TypeInv, TypeOK, WalEntry
<1>3. ASSUME wal[n + 1].seq <= snapshot_sequence \/ wal[n + 1].uuid # u
      PROVE  OnDiskAfter(n + 1, u) <=> OnDiskAfter(n, u)
  <2>1. /\ ~(InTail(n + 1) /\ IsFor(wal[n + 1], "tombstone", u))
        /\ ~(InTail(n + 1) /\ IsFor(wal[n + 1], "insert", u))
    BY <1>1, <1>2, <1>3 DEF IsFor
  <2>2. 1..(n + 1) = (1..n) \cup {n + 1}
    OBVIOUS
  <2>3. \A i \in 1..n : (i + 1)..(n + 1) = ((i + 1)..n) \cup {n + 1}
    OBVIOUS
  <2> QED
    BY <2>1, <2>2, <2>3 DEF OnDiskAfter
<1>4. ASSUME wal[n + 1].seq > snapshot_sequence,
             IsFor(wal[n + 1], "tombstone", u)
      PROVE  ~OnDiskAfter(n + 1, u)
  <2>1. InTail(n + 1) /\ ~IsFor(wal[n + 1], "insert", u)
    BY <1>1, <1>4 DEF IsFor
  <2>2. n + 1 \in 1..(n + 1) /\ \A i \in 1..n : n + 1 \in (i + 1)..(n + 1)
    OBVIOUS
  <2>3. \A i \in 1..(n + 1) : i = n + 1 \/ i \in 1..n
    OBVIOUS
  <2> QED
    BY <1>4, <2>1, <2>2, <2>3 DEF OnDiskAfter
<1>5. ASSUME wal[n + 1].seq > snapshot_sequence,
             IsFor(wal[n + 1], "insert", u)
      PROVE  OnDiskAfter(n + 1, u)
  <2>1. n + 1 \in 1..(n + 1) /\ (n + 1 + 1)..(n + 1) = {}
    OBVIOUS
  <2> QED
    BY <1>1, <1>5, <2>1 DEF OnDiskAfter
<1> QED
  BY <1>3, <1>4, <1>5

\* The WAL file has grown by the first k of some lines.
Grown(lines, k) ==
    /\ eol'
    /\ Len(wal') = Len(wal) + k
    /\ \A i \in 1..Len(wal) : wal'[i] = wal[i]
    /\ \A i \in 1..k : wal'[Len(wal) + i] = lines[i]

\* On a clean disk a write appends whole lines, all of them if it succeeds.
LEMMA CleanWrite ==
    ASSUME CleanDisk, TypeInv, WholeLines, NEW lines \in Seq(WalEntry)
    PROVE  /\ Land(Whole(lines)) => Grown(lines, Len(lines))
           /\ (\E landing \in Landings(lines) : Land(landing)) =>
                \E k \in 0..Len(lines) : Grown(lines, k)
<1>0. /\ wal \in Seq(Line) /\ lines \in Seq(Line)
      /\ Len(wal) \in Nat /\ Len(lines) \in Nat /\ eol
  BY SeqMonotonic, LenProperties DEF TypeInv, TypeOK, Line, WholeLines
<1>1. ASSUME NEW k \in 0..Len(lines), NEW landing,
             landing.lines \in Seq(Line), Len(landing.lines) = k,
             \A i \in 1..k : landing.lines[i] = lines[i],
             landing.eol = TRUE, Land(landing)
      PROVE  Grown(lines, k)
  <2>1. CASE landing.lines = <<>>
    <3>1. k = 0
      BY <1>1, <2>1, EmptySeq
    <3>2. wal' = wal /\ eol' = eol
      BY <1>1, <2>1 DEF Land
    <3> QED
      BY <1>0, <3>1, <3>2 DEF Grown
  <2>2. CASE landing.lines # <<>>
    <3>1. wal' = wal \o landing.lines /\ eol'
      BY <1>0, <1>1, <2>2 DEF Land
    <3>2. /\ Len(wal \o landing.lines) = Len(wal) + k
          /\ \A i \in 1..(Len(wal) + k) : (wal \o landing.lines)[i] =
               IF i <= Len(wal) THEN wal[i] ELSE landing.lines[i - Len(wal)]
      <4>1. landing.lines \in Seq(Line) /\ Len(landing.lines) = k
        BY <1>1
      <4> QED
        BY <1>0, <4>1, ConcatProperties
    <3>3. \A i \in 1..Len(wal) : wal'[i] = wal[i]
      BY <1>0, <3>1, <3>2
    <3>4. ASSUME NEW i \in 1..k PROVE wal'[Len(wal) + i] = lines[i]
      <4>1. /\ Len(wal) + i \in 1..(Len(wal) + k)
            /\ ~(Len(wal) + i <= Len(wal))
            /\ (Len(wal) + i) - Len(wal) = i
        BY <1>0, <1>1
      <4>2. landing.lines[i] = lines[i]
        BY <1>1
      <4> QED
        BY <3>1, <3>2, <4>1, <4>2
    <3> QED
      BY <3>1, <3>2, <3>3, <3>4 DEF Grown
  <2> QED
    BY <2>1, <2>2
<1>2. ASSUME Land(Whole(lines)) PROVE Grown(lines, Len(lines))
  <2>1. Whole(lines).lines = lines /\ Whole(lines).eol = TRUE
    BY DEF Whole
  <2>2. Len(lines) \in 0..Len(lines)
    BY <1>0
  <2> QED
    BY <1>0, <1>1, <1>2, <2>1, <2>2
<1>3. ASSUME NEW landing \in Landings(lines), Land(landing)
      PROVE  \E k \in 0..Len(lines) : Grown(lines, k)
  <2>1. PICK k \in 0..Len(lines) :
          landing = [lines |-> SubSeq(lines, 1, k), eol |-> TRUE]
    BY DEF Landings, Pieces, CleanDisk
  <2>2. \A i \in 1..k : lines[i] \in Line
    BY <1>0, ElementOfSeq
  <2>3. /\ SubSeq(lines, 1, k) \in Seq(Line)
        /\ Len(SubSeq(lines, 1, k)) = k
        /\ \A i \in 1..k : SubSeq(lines, 1, k)[i] = lines[i]
    BY <1>0, <2>2, SubSeqProperties
  <2> QED
    BY <1>1, <1>3, <2>1, <2>3
<1> QED
  BY <1>2, <1>3

-----------------------------------------------------------------------------
(* What is queued. *)

\* A request joins the end of a queue.
LEMMA QueuedAppend ==
    ASSUME NEW Q, NEW q \in Seq(Q), NEW r \in Q, NEW op, NEW u
    PROVE  Queued(Append(q, r), op, u) <=> Queued(q, op, u) \/ IsFor(r, op, u)
<1>1. /\ Len(q) \in Nat /\ DOMAIN q = 1..Len(q)
      /\ DOMAIN Append(q, r) = 1..(Len(q) + 1)
      /\ \A i \in 1..Len(q) : Append(q, r)[i] = q[i]
      /\ Append(q, r)[Len(q) + 1] = r
  BY AppendProperties, LenProperties
<1>2. 1..(Len(q) + 1) = (1..Len(q)) \cup {Len(q) + 1}
  BY <1>1
<1> QED
  BY <1>1, <1>2 DEF Queued

\* A queue is its head and its tail.
LEMMA QueuedTail ==
    ASSUME NEW Q, NEW q \in Seq(Q), q # <<>>, NEW op, NEW u
    PROVE  Queued(q, op, u) <=> Queued(Tail(q), op, u) \/ IsFor(Head(q), op, u)
<1>1. /\ Len(q) \in Nat \ {0} /\ DOMAIN q = 1..Len(q)
      /\ Len(Tail(q)) = Len(q) - 1 /\ DOMAIN Tail(q) = 1..(Len(q) - 1)
      /\ \A i \in 1..(Len(q) - 1) : Tail(q)[i] = q[i + 1]
      /\ Head(q) = q[1]
  BY HeadTailProperties, LenProperties, EmptySeq
<1>2. ASSUME NEW i \in 1..Len(q), IsFor(q[i], op, u)
      PROVE  Queued(Tail(q), op, u) \/ IsFor(Head(q), op, u)
  <2>1. CASE i = 1
    BY <1>1, <1>2, <2>1
  <2>2. CASE i # 1
    <3>1. i - 1 \in 1..(Len(q) - 1) /\ (i - 1) + 1 = i
      BY <1>1, <2>2
    <3> QED
      BY <1>1, <1>2, <3>1 DEF Queued
  <2> QED
    BY <2>1, <2>2
<1>3. ASSUME NEW i \in 1..(Len(q) - 1), IsFor(Tail(q)[i], op, u)
      PROVE  Queued(q, op, u)
  <2>1. i + 1 \in 1..Len(q)
    BY <1>1
  <2> QED
    BY <1>1, <1>3, <2>1 DEF Queued
<1>4. IsFor(Head(q), op, u) => Queued(q, op, u)
  <2>1. 1 \in 1..Len(q)
    BY <1>1
  <2> QED
    BY <1>1, <2>1 DEF Queued
<1> QED
  BY <1>1, <1>2, <1>3, <1>4 DEF Queued

\* Requests keep what they ask for when their sender goes away.
LEMMA QueuedOrphaned ==
    ASSUME NEW q \in Seq(WalCommand), NEW h
    PROVE  /\ DOMAIN Orphaned(q, h) = DOMAIN q
           /\ \A i \in DOMAIN q : /\ Orphaned(q, h)[i].op = q[i].op
                                  /\ Orphaned(q, h)[i].uuid = q[i].uuid
           /\ \A op, u : Queued(Orphaned(q, h), op, u) <=> Queued(q, op, u)
<1>1. \A i \in DOMAIN q : q[i] \in WalCommand
  BY ElementOfSeq, LenProperties
<1>2. /\ DOMAIN Orphaned(q, h) = DOMAIN q
      /\ \A i \in DOMAIN q : /\ Orphaned(q, h)[i].op = q[i].op
                             /\ Orphaned(q, h)[i].uuid = q[i].uuid
  BY <1>1 DEF Orphaned, WalCommand, InsertRequest, CompactRequest
<1> QED
  BY <1>2 DEF Queued, IsFor

\* A task that is answered still owes what it owed.
LEMMA AnsweredTodo ==
    ASSUME TypeInv, NEW froms, task' = Answered(froms)
    PROVE  \A t \in Tasks : task'[t].todo = task[t].todo
<1>1. \A t \in Tasks : task[t].todo \in SUBSET Uuids
  BY DEF TypeInv, TypeOK, TaskState
<1> QED
  BY <1>1, SweepingType DEF Answered

-----------------------------------------------------------------------------
(* Steps that leave the disk alone. *)

SameFiles == UNCHANGED <<wal, eol, snapshot, snapshot_sequence>>

\* The node is up, or main has replayed the whole WAL.
CaughtUp == Up \/ (pc = "replay" /\ cursor = Len(wal))

\* The same requests, possibly without their senders.
SameBatch ==
    /\ Len(batch') = Len(batch)
    /\ \A k \in 1..Len(batch) : /\ batch'[k].op = batch[k].op
                                /\ batch'[k].uuid = batch[k].uuid

\* A step of the running node that leaves the disk alone keeps the invariant
\* if it acknowledges nothing new, keeps what is acknowledged in the index and
\* owes no tombstone for it.
LEMMA Calm ==
    ASSUME TypeInv, DurabilityInv, SameFiles, CaughtUp, Up',
           sequence' \in Nat, sequence <= sequence',
           acked' \subseteq acked, acked' \subseteq live',
           RightDimensions', NoTombstoneForAcked', Quiescent',
           pc' \in {"written", "apply"} =>
             pc \in {"written", "apply"} /\ SameBatch,
           pc' = "truncate" => pc = "truncate" /\ sequence' = sequence
    PROVE  DurabilityInv'
<1>1. WholeLines'
  BY DEF DurabilityInv, WholeLines, SameFiles
<1>2. /\ snapshot_sequence <= sequence
      /\ \A i \in 1..Len(wal) : wal[i].seq <= sequence
  BY DEF DurabilityInv, Ordered, CaughtUp, Up
<1>3. /\ snapshot_sequence \in Nat /\ sequence \in Nat
      /\ \A i \in 1..Len(wal) : wal[i].seq \in Nat
  <2>1. MaxSequence \in Nat
    BY NodeAssumption
  <2>2. snapshot_sequence \in 0..MaxSequence /\ sequence \in 0..MaxSequence
    BY DEF TypeInv, TypeOK
  <2>3. \A i \in 1..Len(wal) : wal[i] \in WalEntry
    BY DEF DurabilityInv, WholeLines
  <2> QED
    BY <2>1, <2>2, <2>3 DEF WalEntry
<1>4. Ordered'
  <2>1. snapshot_sequence' <= sequence'
    BY <1>2, <1>3 DEF SameFiles
  <2>2. \A i \in 1..Len(wal) : wal[i].seq <= sequence'
    BY <1>2, <1>3
  <2> QED
    BY <2>1, <2>2 DEF DurabilityInv, Ordered, SameFiles, Up
<1>5. BatchLogged'
  BY DEF DurabilityInv, BatchLogged, SameFiles, SameBatch
<1>6. Replayed' /\ AckedInsertsSurvive'
  BY DEF Replayed, AckedInsertsSurvive, Up
<1>7. Snapshotted'
  BY DEF DurabilityInv, Snapshotted, SameFiles
<1>8. AckedInsertsDurable'
  BY SameDisk DEF DurabilityInv, AckedInsertsDurable, SameFiles
<1> QED
  BY <1>1, <1>4, <1>5, <1>6, <1>7, <1>8 DEF DurabilityInv

\* What keeps NoTombstoneForAcked, piece by piece.
LEMMA NothingOwed ==
    ASSUME NoTombstoneForAcked, acked' \subseteq acked,
           \A u \in acked' :
             /\ Queued(channel', "tombstone", u)
                  => Queued(channel, "tombstone", u) \/ Queued(batch, "tombstone", u)
             /\ Queued(batch', "tombstone", u)
                  => Queued(channel, "tombstone", u) \/ Queued(batch, "tombstone", u)
             /\ \A t \in Tasks : u \in task'[t].todo =>
                  \E x \in Tasks : u \in task[x].todo
             /\ \A i \in DOMAIN victims' : victims'[i] = u =>
                  \E j \in DOMAIN victims : victims[j] = u
    PROVE  NoTombstoneForAcked'
BY DEF NoTombstoneForAcked, PendingTombstone, Queued

\* In the up state, a step that touches neither disk nor index nor history.
LEMMA Stirred ==
    ASSUME TypeInv, DurabilityInv, SameFiles, Up, Up',
           UNCHANGED <<live, dimension, acked, victims>>,
           sequence' \in Nat, sequence <= sequence', NoTombstoneForAcked',
           pc' \notin {"evicting", "evict_write"} => victims = <<>>,
           pc' \in {"written", "apply"} =>
             pc \in {"written", "apply"} /\ SameBatch,
           pc' = "truncate" => pc = "truncate" /\ sequence' = sequence
    PROVE  DurabilityInv'
<1>1. CaughtUp /\ acked' \subseteq live'
  BY DEF CaughtUp, DurabilityInv, AckedInsertsSurvive
<1>2. RightDimensions'
  BY DEF DurabilityInv, RightDimensions, Accepts
<1>3. Quiescent'
  BY DEF Quiescent
<1> QED
  BY <1>1, <1>2, <1>3, Calm

\* A removal from the index keeps the invariant: what is removed is no longer
\* acknowledged when its tombstones are owed.
LEMMA RemovalKeeps ==
    ASSUME TypeInv, DurabilityInv, SameFiles, CaughtUp, Up',
           NEW t \in Tasks, NEW S \in SUBSET Uuids, BeginRemoval(t, S),
           acked \subseteq live, RightDimensions',
           UNCHANGED <<channel, batch, victims, sequence>>,
           pc' = pc \/ (pc = "replay" /\ pc' = "recv")
    PROVE  DurabilityInv'
<1>1. Sweeping(S) \in TaskState /\ Sweeping(S).todo = S
  BY SweepingType
<1>2. /\ acked' = acked \ S /\ live' = live \ S
      /\ task' = [task EXCEPT ![t] = Sweeping(S)]
  BY DEF BeginRemoval
<1>3. \A x \in Tasks : task'[x] = IF x = t THEN Sweeping(S) ELSE task[x]
  BY <1>2 DEF TypeInv, TypeOK
<1>4. NoTombstoneForAcked'
  <2>1. \A u \in acked', x \in Tasks : u \in task'[x].todo =>
          \E y \in Tasks : u \in task[y].todo
    BY <1>1, <1>2, <1>3
  <2> QED
    BY <1>2, <2>1, NothingOwed DEF DurabilityInv
<1>5. Quiescent'
  BY DEF DurabilityInv, Quiescent, Up
<1>6. SameBatch
  BY DEF SameBatch
<1>7. sequence' \in Nat /\ sequence <= sequence'
  BY NodeAssumption DEF TypeInv, TypeOK
<1> QED
  BY <1>2, <1>4, <1>5, <1>6, <1>7, Calm

-----------------------------------------------------------------------------
(* The clients of the flush task. *)

\* A handler that runs finds the node up.
LEMMA HandlerUp ==
    ASSUME DurabilityInv
    PROVE  /\ serving => Up
           /\ \A t \in Tasks : task[t].state # "idle" => Up
BY DEF DurabilityInv, Quiescent, Idle

\* No request of a client loses an acknowledged insert.
LEMMA DurableHandlers ==
    ASSUME TypeInv, DurabilityInv, NEW h \in Handlers, Handler(h)
    PROVE  DurabilityInv'
<1>1. /\ h \in Tasks
      /\ sequence \in Nat
      /\ channel \in Seq(WalCommand)
      /\ \A t \in Tasks : task[t].todo \in SUBSET Uuids
  BY NodeAssumption DEF Tasks, TypeInv, TypeOK, TaskState
<1>2. ASSUME NEW r \in WalCommand, r.op # "tombstone",
             channel' = Append(channel, r), Up,
             NEW w, task' = [task EXCEPT ![h] = w], w.todo = {},
             UNCHANGED <<diskVars, indexVars, pc, loopVars, acked>>
      PROVE  DurabilityInv'
  <2>1. \A u : Queued(channel', "tombstone", u) => Queued(channel, "tombstone", u)
    BY <1>1, <1>2, QueuedAppend DEF IsFor
  <2>2. \A x \in Tasks : task'[x] = IF x = h THEN w ELSE task[x]
    BY <1>2 DEF TypeInv, TypeOK
  <2>3. NoTombstoneForAcked'
    <3>1. \A u, x : x \in Tasks /\ u \in task'[x].todo => u \in task[x].todo
      BY <1>2, <2>2
    <3> QED
      BY <1>2, <2>1, <3>1, NothingOwed DEF DurabilityInv, loopVars
  <2> QED
    BY <1>1, <1>2, <2>3, Stirred
       DEF diskVars, indexVars, loopVars, SameFiles, SameBatch, Up,
           DurabilityInv, Quiescent
<1>3. ASSUME NEW u \in Uuids, SubmitInsert(h, u) PROVE DurabilityInv'
  <2>1. [op |-> "insert", uuid |-> u, from |-> h] \in WalCommand
    BY <1>1 DEF WalCommand, InsertRequest
  <2>2. Waiting(u).todo = {}
    BY DEF Waiting
  <2> QED
    BY <1>2, <1>3, <2>1, <2>2, HandlerUp DEF SubmitInsert
<1>4. ASSUME SubmitCompact(h) PROVE DurabilityInv'
  <2>1. [op |-> "compact", uuid |-> Nil, from |-> h] \in WalCommand
    BY <1>1 DEF WalCommand, CompactRequest
  <2>2. Waiting(Nil).todo = {}
    BY DEF Waiting
  <2> QED
    BY <1>2, <1>4, <2>1, <2>2, HandlerUp DEF SubmitCompact, historyVars
<1>5. ASSUME NEW u \in Uuids, DeleteResolve(h, u) PROVE DurabilityInv'
  <2>1. task' = [task EXCEPT ![h] =
                   [state |-> "resolved", todo |-> {}, uuid |-> u]]
    BY <1>5 DEF DeleteResolve
  <2>2. \A x, v : x \in Tasks /\ v \in task'[x].todo => v \in task[x].todo
    BY <2>1 DEF TypeInv, TypeOK
  <2>3. NoTombstoneForAcked'
    BY <1>5, <2>2, NothingOwed
       DEF DeleteResolve, DurabilityInv, loopVars, historyVars
  <2> QED
    BY <1>1, <1>5, <2>3, HandlerUp, Stirred
       DEF DeleteResolve, diskVars, indexVars, loopVars, historyVars,
           SameFiles, SameBatch, Up, DurabilityInv, Quiescent
<1>6. ASSUME NEW S \in SUBSET Uuids, BeginRemoval(h, S), Up,
             UNCHANGED <<diskVars, dimension, pc, loopVars, channel>>
      PROVE  DurabilityInv'
  <2>1. RightDimensions'
    BY <1>6 DEF DurabilityInv, RightDimensions, Accepts
  <2>2. CaughtUp /\ Up' /\ acked \subseteq live
    BY <1>6 DEF CaughtUp, Up, DurabilityInv, AckedInsertsSurvive
  <2> QED
    BY <1>1, <1>6, <2>1, <2>2, RemovalKeeps DEF diskVars, loopVars, SameFiles
<1>7. ASSUME DeleteRemove(h) PROVE DurabilityInv'
  <2>1. {task[h].uuid} \in SUBSET Uuids
    BY <1>1, <1>7 DEF DeleteRemove, TypeInv, Shape
  <2> QED
    BY <1>1, <1>6, <1>7, <2>1, HandlerUp DEF DeleteRemove
<1>8. ASSUME NEW ns \in Namespaces, NEW S \in SUBSET Uuids,
             Invalidate(h, ns, S)
      PROVE  DurabilityInv'
  BY <1>6, <1>8, HandlerUp DEF Invalidate
<1>9. ASSUME Disconnect(h) PROVE DurabilityInv'
  <2>1. task' = [task EXCEPT ![h] = Idle]
    BY <1>9 DEF Disconnect
  <2>2. \A x, v : x \in Tasks /\ v \in task'[x].todo => v \in task[x].todo
    BY <2>1 DEF TypeInv, TypeOK, Idle
  <2>3. batch \in Seq(WalCommand)
    BY SeqMonotonic DEF TypeInv, TypeOK, WalCommand
  <2>4. /\ channel' = Orphaned(channel, h) /\ batch' = Orphaned(batch, h)
        /\ UNCHANGED <<diskVars, indexVars, pc, sequence, victims, historyVars>>
    BY <1>9 DEF Disconnect
  <2>5. NoTombstoneForAcked'
    BY <1>1, <2>2, <2>3, <2>4, NothingOwed, QueuedOrphaned
       DEF DurabilityInv, historyVars
  <2>6. SameBatch
    <3>1. batch \in Seq(InsertRequest) /\ DOMAIN batch = 1..Len(batch)
      BY LenProperties DEF TypeInv, TypeOK
    <3>2. Len(batch') = Len(batch)
      BY <2>4, <3>1, OrphanedType
    <3>3. \A i \in DOMAIN batch : /\ batch'[i].op = batch[i].op
                                  /\ batch'[i].uuid = batch[i].uuid
      BY <2>3, <2>4, QueuedOrphaned
    <3> QED
      BY <3>1, <3>2, <3>3 DEF SameBatch
  <2>7. Up
    BY <1>1, <1>9, HandlerUp DEF Disconnect
  <2> QED
    BY <1>1, <2>4, <2>5, <2>6, <2>7, Stirred
       DEF diskVars, indexVars, historyVars, SameFiles, Up, DurabilityInv,
           Quiescent
<1> QED
  BY <1>3, <1>4, <1>5, <1>7, <1>8, <1>9 DEF Handler

\* Nor does the reaper, a tombstone on its way, the clock or the listener.
LEMMA DurableTasks ==
    ASSUME TypeInv, DurabilityInv,
           \/ Listen \/ ReaperSweep
           \/ \E t \in Tasks : SendTombstone(t)
           \/ \E u \in TtlUuids : Expire(u)
    PROVE  DurabilityInv'
<1>1. /\ Janitor \in Tasks /\ sequence \in Nat
      /\ channel \in Seq(WalCommand)
      /\ \A t \in Tasks : task[t].todo \in SUBSET Uuids
  BY NodeAssumption DEF Tasks, TypeInv, TypeOK, TaskState
<1>2. CASE Listen
  <2>1. NoTombstoneForAcked'
    BY <1>2, NothingOwed DEF Listen, DurabilityInv, loopVars, historyVars
  <2> QED
    BY <1>1, <1>2, <2>1, Stirred
       DEF Listen, diskVars, indexVars, loopVars, historyVars, SameFiles,
           SameBatch, Up, DurabilityInv, Quiescent
<1>3. CASE ReaperSweep
  <2>1. live \cap expired \in SUBSET Uuids
    BY DEF TypeInv, TypeOK
  <2>2. RightDimensions'
    <3>1. \A ns \in Namespaces : dimension'[ns] \in {0, dimension[ns]}
      BY <1>3 DEF ReaperSweep
    <3> QED
      BY <3>1, NodeAssumption DEF DurabilityInv, RightDimensions, Accepts
  <2>3. CaughtUp /\ Up' /\ acked \subseteq live
    BY <1>3, HandlerUp
       DEF ReaperSweep, CaughtUp, Up, DurabilityInv, AckedInsertsSurvive
  <2> QED
    BY <1>1, <1>3, <2>1, <2>2, <2>3, RemovalKeeps
       DEF ReaperSweep, diskVars, loopVars, SameFiles
<1>4. ASSUME NEW t \in Tasks, SendTombstone(t) PROVE DurabilityInv'
  <2>1. PICK u \in task[t].todo :
          /\ channel' = Append(channel,
                          [op |-> "tombstone", uuid |-> u, from |-> t])
          /\ task' = [task EXCEPT ![t] = [state |-> "wait",
                                          todo |-> task[t].todo \ {u},
                                          uuid |-> u]]
    BY <1>4 DEF SendTombstone
  <2>2. u \notin acked /\ u \in Uuids
    BY <1>1, <2>1 DEF DurabilityInv, NoTombstoneForAcked, PendingTombstone
  <2>3. [op |-> "tombstone", uuid |-> u, from |-> t] \in WalCommand
    BY <2>2 DEF WalCommand, InsertRequest
  <2>4. \A v \in acked : Queued(channel', "tombstone", v) =>
                           Queued(channel, "tombstone", v)
    BY <1>1, <2>1, <2>2, <2>3, QueuedAppend DEF IsFor
  <2>5. \A x, v : x \in Tasks /\ v \in task'[x].todo => v \in task[x].todo
    BY <2>1 DEF TypeInv, TypeOK
  <2>6. NoTombstoneForAcked'
    BY <1>4, <2>4, <2>5, NothingOwed
       DEF SendTombstone, DurabilityInv, loopVars, historyVars
  <2> QED
    BY <1>1, <1>4, <2>6, HandlerUp, Stirred
       DEF SendTombstone, diskVars, indexVars, loopVars, historyVars,
           SameFiles, SameBatch, Up, DurabilityInv, Quiescent
<1>5. ASSUME NEW u \in TtlUuids, Expire(u) PROVE DurabilityInv'
  <2>1. \A v : OnDisk(v)' <=> OnDisk(v)
    BY <1>5, SameDisk DEF Expire, diskVars
  <2>2. Replayed'
    BY <1>5, SameDisk DEF Expire, diskVars, indexVars, bootVars,
       DurabilityInv, Replayed
  <2> QED
    BY <1>5, <2>1, <2>2 DEF Expire, DurabilityInv, WholeLines, Ordered,
       BatchLogged, RightDimensions, Accepts, NoTombstoneForAcked,
       PendingTombstone, Queued, Quiescent, Snapshotted, AckedInsertsSurvive,
       AckedInsertsDurable, Up, diskVars, indexVars, loopVars, bootVars,
       clientVars, historyVars
<1> QED
  BY <1>2, <1>3, <1>4, <1>5

-----------------------------------------------------------------------------
(* The flush task. *)

\* Taking requests from the channel moves them into the batch.
LEMMA DurableReceive ==
    ASSUME TypeInv, DurabilityInv, RecvFirst \/ CollectMore \/ CloseBatch
    PROVE  DurabilityInv'
<1>1. /\ sequence \in Nat /\ channel \in Seq(WalCommand)
      /\ batch \in Seq(InsertRequest)
  BY NodeAssumption DEF TypeInv, TypeOK
<1>2. ASSUME channel # <<>>
      PROVE  /\ Head(channel) \in WalCommand
             /\ \A u : Queued(Tail(channel), "tombstone", u)
                         => Queued(channel, "tombstone", u)
             /\ \A u : IsFor(Head(channel), "tombstone", u)
                         => Queued(channel, "tombstone", u)
  BY <1>1, <1>2, QueuedTail, HeadTailProperties
<1>3. ASSUME NoTombstoneForAcked', SameFiles, Up, Up', sequence' = sequence,
             UNCHANGED <<live, dimension, acked, victims>>,
             pc \in {"recv", "collect"},
             pc' \in {"pending", "collect", "write"}
      PROVE  DurabilityInv'
  BY <1>1, <1>3, Stirred DEF DurabilityInv, Quiescent
<1>4. CASE RecvFirst
  <2>1. \A u : Queued(batch', "tombstone", u) =>
                 \/ Queued(batch, "tombstone", u)
                 \/ Queued(channel, "tombstone", u)
    <3>1. CASE Head(channel).op = "compact"
      BY <1>4, <3>1 DEF RecvFirst
    <3>2. CASE Head(channel).op # "compact"
      BY <1>2, <1>4, <3>2 DEF RecvFirst, Queued
    <3> QED
      BY <3>1, <3>2
  <2>2. NoTombstoneForAcked'
    BY <1>2, <1>4, <2>1, NothingOwed DEF RecvFirst, DurabilityInv, historyVars
  <2>3. pc = "recv" /\ pc' \in {"pending", "collect"}
    BY <1>4 DEF RecvFirst
  <2> QED
    BY <1>3, <1>4, <2>2, <2>3
       DEF RecvFirst, diskVars, indexVars, historyVars, SameFiles, Up
<1>5. CASE CollectMore
  <2>1. \A u : Queued(batch', "tombstone", u) =>
                 \/ Queued(batch, "tombstone", u)
                 \/ Queued(channel, "tombstone", u)
    <3>1. CASE Head(channel).op = "compact"
      BY <1>5, <3>1 DEF CollectMore
    <3>2. CASE Head(channel).op # "compact"
      <4>1. batch' = Append(batch, Head(channel)) /\ channel # <<>>
        BY <1>5, <3>2 DEF CollectMore
      <4>2. batch \in Seq(WalCommand)
        BY <1>1, SeqMonotonic DEF WalCommand
      <4> QED
        BY <1>2, <4>1, <4>2, QueuedAppend
    <3> QED
      BY <3>1, <3>2
  <2>2. NoTombstoneForAcked'
    BY <1>2, <1>5, <2>1, NothingOwed
       DEF CollectMore, DurabilityInv, historyVars
  <2>3. pc = "collect" /\ pc' \in {"collect", "write"}
    BY <1>5 DEF CollectMore
  <2> QED
    BY <1>3, <1>5, <2>2, <2>3
       DEF CollectMore, diskVars, indexVars, historyVars, SameFiles, Up
<1>6. CASE CloseBatch
  <2>1. NoTombstoneForAcked'
    BY <1>6, NothingOwed
       DEF CloseBatch, DurabilityInv, loopVars, clientVars, historyVars
  <2> QED
    BY <1>3, <1>6, <2>1
       DEF CloseBatch, diskVars, indexVars, loopVars, historyVars, SameFiles,
           Up
<1> QED
  BY <1>4, <1>5, <1>6

\* The lines a write puts on disk: numbered from the counter on, and no
\* tombstone for an acknowledged insert among them.
Numbered(lines) ==
    /\ lines \in Seq(WalEntry)
    /\ \A i \in 1..Len(lines) : lines[i].seq = sequence + i
    /\ \A i \in 1..Len(lines), u \in acked : ~IsFor(lines[i], "tombstone", u)

\* What such lines, as far as they landed, change of what the disk says.
LEMMA GrowthSays ==
    ASSUME CleanDisk, TypeInv, DurabilityInv, Up,
           NEW lines, Numbered(lines), NEW k \in 0..Len(lines),
           Grown(lines, k), UNCHANGED <<snapshot, snapshot_sequence>>, NEW u
    PROVE  /\ /\ \A i \in 1..k : ~IsFor(lines[i], "tombstone", u)
              /\ OnDisk(u)
              => OnDisk(u)'
           /\ /\ \A i \in 1..k : ~IsFor(lines[i], "insert", u)
              /\ OnDisk(u)'
              => /\ OnDisk(u)
                 /\ \A i \in 1..k : ~IsFor(lines[i], "tombstone", u)
<1>0. PICK n \in Nat : n = Len(wal)
  BY LenProperties DEF TypeInv, TypeOK
<1>1. Len(lines) \in Nat /\ sequence \in Nat /\ snapshot_sequence \in Nat
  BY NodeAssumption, LenProperties DEF TypeInv, TypeOK, Numbered
<1>2. /\ Len(wal') = n + k
      /\ \A i \in 1..n : wal'[i] = wal[i]
      /\ \A i \in 1..k : wal'[n + i] = lines[i]
  BY <1>0 DEF Grown
<1>3. \A i \in 1..n : InTail(i)' <=> InTail(i)
  BY <1>1, <1>2 DEF InTail, Readable
<1>4. ASSUME NEW i \in 1..k PROVE InTail(n + i)'
  <2>1. lines[i] \in WalEntry /\ lines[i].seq = sequence + i
    BY <1>1, ElementOfSeq DEF Numbered
  <2>2. snapshot_sequence <= sequence
    BY DEF DurabilityInv, Ordered
  <2>3. wal'[n + i].seq > snapshot_sequence
    BY <1>1, <1>2, <2>1, <2>2
  <2> QED
    BY <1>2, <2>1, <2>3 DEF InTail, Readable, CleanDisk, WalEntry
<1>5. \A i \in 1..(n + k) :
        \/ i \in 1..n /\ wal'[i] = wal[i]
        \/ i \notin 1..n /\ i - n \in 1..k /\ wal'[i] = lines[i - n]
  <2> SUFFICES ASSUME NEW i \in 1..(n + k)
               PROVE  \/ i \in 1..n /\ wal'[i] = wal[i]
                      \/ i \notin 1..n /\ i - n \in 1..k /\ wal'[i] = lines[i - n]
    OBVIOUS
  <2>1. \/ i \in 1..n
        \/ i \notin 1..n /\ i - n \in 1..k /\ n + (i - n) = i
    BY <1>1
  <2> QED
    BY <1>2, <2>1
<1>6. OnDisk(u) <=> OnDiskAfter(n, u)
  BY <1>0 DEF OnDisk
<1>7. OnDisk(u)' <=> OnDiskAfter(n + k, u)'
  BY <1>2 DEF OnDisk
<1>8. ASSUME \A i \in 1..k : ~IsFor(lines[i], "tombstone", u), OnDisk(u)
      PROVE  OnDisk(u)'
  <2>3. \A i \in 1..(n + k) : i \notin 1..n => ~IsFor(wal'[i], "tombstone", u)
    BY <1>5, <1>8
  <2>4. ASSUME NEW i \in 1..n, InTail(i), IsFor(wal[i], "insert", u),
               \A j \in (i + 1)..n :
                  ~(InTail(j) /\ IsFor(wal[j], "tombstone", u))
        PROVE  OnDiskAfter(n + k, u)'
    <3>1. i \in 1..(n + k) /\ InTail(i)' /\ IsFor(wal'[i], "insert", u)
      BY <1>1, <1>2, <1>3, <2>4
    <3>2. ASSUME NEW j \in (i + 1)..(n + k)
          PROVE  ~(InTail(j)' /\ IsFor(wal'[j], "tombstone", u))
      <4>1. CASE j \in 1..n
        <5>1. j \in (i + 1)..n
          BY <1>1, <4>1
        <5> QED
          BY <1>2, <1>3, <2>4, <4>1, <5>1
      <4>2. CASE j \notin 1..n
        BY <1>1, <2>3, <4>2
      <4> QED
        BY <4>1, <4>2
    <3> QED
      BY <3>1, <3>2 DEF OnDiskAfter
  <2>5. ASSUME u \in snapshot,
               \A j \in 1..n : ~(InTail(j) /\ IsFor(wal[j], "tombstone", u))
        PROVE  OnDiskAfter(n + k, u)'
    <3>1. \A j \in 1..(n + k) :
            ~(InTail(j)' /\ IsFor(wal'[j], "tombstone", u))
      BY <1>2, <1>3, <2>3, <2>5
    <3> QED
      BY <2>5, <3>1 DEF OnDiskAfter
  <2> QED
    BY <1>6, <1>7, <1>8, <2>4, <2>5 DEF OnDiskAfter
<1>9. ASSUME \A i \in 1..k : ~IsFor(lines[i], "insert", u), OnDisk(u)'
      PROVE  OnDisk(u) /\ \A i \in 1..k : ~IsFor(lines[i], "tombstone", u)
  <2>1. \A i \in 1..k : n + i \in 1..(n + k)
    BY <1>1
  <2>2. ASSUME NEW i \in 1..(n + k), InTail(i)', IsFor(wal'[i], "insert", u),
               \A j \in (i + 1)..(n + k) : ~(InTail(j) /\ IsFor(wal[j], "tombstone", u))'
        PROVE  OnDisk(u) /\ \A m \in 1..k : ~IsFor(lines[m], "tombstone", u)
    <3>1. i \in 1..n
      BY <1>5, <1>9, <2>2
    <3>2. InTail(i) /\ IsFor(wal[i], "insert", u)
      BY <1>2, <1>3, <2>2, <3>1
    <3>3. ASSUME NEW j \in (i + 1)..n PROVE ~(InTail(j) /\ IsFor(wal[j], "tombstone", u))
      <4>1. j \in 1..n /\ j \in (i + 1)..(n + k)
        BY <1>1, <3>1
      <4> QED
        BY <1>2, <1>3, <2>2, <4>1
    <3>4. ASSUME NEW m \in 1..k PROVE ~IsFor(lines[m], "tombstone", u)
      <4>1. n + m \in (i + 1)..(n + k)
        BY <1>1, <3>1
      <4> QED
        BY <1>2, <1>4, <2>2, <4>1
    <3> QED
      BY <1>6, <3>1, <3>2, <3>3, <3>4 DEF OnDiskAfter
  <2>3. ASSUME u \in snapshot,
               \A j \in 1..(n + k) : ~(InTail(j) /\ IsFor(wal[j], "tombstone", u))'
        PROVE  OnDisk(u) /\ \A m \in 1..k : ~IsFor(lines[m], "tombstone", u)
    <3>1. ASSUME NEW j \in 1..n PROVE ~(InTail(j) /\ IsFor(wal[j], "tombstone", u))
      <4>1. j \in 1..(n + k)
        BY <1>1
      <4> QED
        BY <1>2, <1>3, <2>3, <4>1
    <3>2. ASSUME NEW m \in 1..k PROVE ~IsFor(lines[m], "tombstone", u)
      BY <1>2, <1>4, <2>1, <2>3
    <3> QED
      BY <1>6, <2>3, <3>1, <3>2 DEF OnDiskAfter
  <2> QED
    BY <1>7, <1>9, <2>2, <2>3 DEF OnDiskAfter
<1> QED
  BY <1>8, <1>9

\* What is left of such lines keeps everything the disk owes.
LEMMA GrowthKeeps ==
    ASSUME CleanDisk, TypeInv, DurabilityInv, Up,
           NEW lines, Numbered(lines), NEW k \in 0..Len(lines),
           Grown(lines, k), UNCHANGED <<snapshot, snapshot_sequence>>
    PROVE  /\ WholeLines'
           /\ \A i, j \in 1..Len(wal') : i < j => wal'[i].seq < wal'[j].seq
           /\ \A i \in 1..Len(wal') : wal'[i].seq <= sequence + Len(lines)
           /\ \A u \in acked : OnDisk(u)'
<1>0. PICK n \in Nat : n = Len(wal)
  BY LenProperties DEF TypeInv, TypeOK
<1>1. Len(lines) \in Nat /\ sequence \in Nat /\ snapshot_sequence \in Nat
  BY NodeAssumption, LenProperties DEF TypeInv, TypeOK, Numbered
<1>2. /\ Len(wal') = n + k
      /\ \A i \in 1..n : wal'[i] = wal[i]
      /\ \A i \in 1..k : wal'[n + i] = lines[i]
  BY <1>0 DEF Grown
<1>3. /\ \A i \in 1..n : wal[i] \in WalEntry /\ wal[i].seq <= sequence
      /\ \A i, j \in 1..n : i < j => wal[i].seq < wal[j].seq
  BY <1>0 DEF DurabilityInv, WholeLines, Ordered
<1>4. \A i \in 1..k : /\ lines[i] \in WalEntry
                      /\ lines[i].seq = sequence + i
                      /\ \A u \in acked : ~IsFor(lines[i], "tombstone", u)
  BY <1>1, ElementOfSeq DEF Numbered
<1>5. ASSUME NEW i \in 1..(n + k)
      PROVE  \/ i \in 1..n
             \/ i \notin 1..n /\ i - n \in 1..k /\ n + (i - n) = i
  BY <1>1
<1>6. \A i \in 1..(n + k) :
        \/ i \in 1..n /\ wal'[i] = wal[i]
        \/ i \notin 1..n /\ i - n \in 1..k /\ wal'[i] = lines[i - n]
  BY <1>2, <1>5
<1>7. WholeLines'
  BY <1>2, <1>3, <1>4, <1>6 DEF WholeLines, Grown
<1>8. ASSUME NEW i \in 1..(n + k)
      PROVE  /\ wal'[i].seq \in Nat
             /\ i \in 1..n => wal'[i].seq <= sequence
             /\ i \notin 1..n => wal'[i].seq = sequence + (i - n)
  <2>1. CASE i \in 1..n
    <3>1. MaxSequence \in Nat
      BY NodeAssumption
    <3>2. wal[i] \in WalEntry /\ wal[i].seq <= sequence /\ wal'[i] = wal[i]
      BY <1>2, <1>3, <2>1
    <3> QED
      BY <2>1, <3>1, <3>2 DEF WalEntry
  <2>2. CASE i \notin 1..n
    <3>1. PICK m \in 1..k : m = i - n /\ wal'[i] = lines[m]
      BY <1>6, <1>8, <2>2
    <3>2. lines[m].seq = sequence + m
      BY <1>4, <3>1
    <3>3. wal'[i].seq = sequence + (i - n) /\ m \in Nat
      BY <3>1, <3>2
    <3> QED
      BY <1>1, <2>2, <3>1, <3>3
  <2> QED
    BY <2>1, <2>2
<1>9. ASSUME NEW i \in 1..(n + k), NEW j \in 1..(n + k), i < j
      PROVE  wal'[i].seq < wal'[j].seq
  <2>1. CASE j \in 1..n
    <3>1. i \in 1..n
      BY <1>9, <2>1
    <3> QED
      BY <1>2, <1>3, <1>9, <2>1, <3>1
  <2>2. CASE j \notin 1..n
    <3>1. wal'[j].seq = sequence + (j - n) /\ j - n > 0
      BY <1>8, <1>9, <2>2
    <3>2. \/ i \in 1..n /\ wal'[i].seq <= sequence
          \/ wal'[i].seq = sequence + (i - n)
      BY <1>8, <1>9
    <3>3. wal'[i].seq \in Nat /\ wal'[j].seq \in Nat
      BY <1>8, <1>9
    <3> QED
      BY <1>1, <1>9, <3>1, <3>2, <3>3
  <2> QED
    BY <2>1, <2>2
<1>10. ASSUME NEW i \in 1..(n + k)
       PROVE  wal'[i].seq <= sequence + Len(lines)
  <2>1. /\ wal'[i].seq \in Nat
        /\ \/ wal'[i].seq <= sequence
           \/ wal'[i].seq = sequence + (i - n)
    BY <1>8, <1>10
  <2>2. i - n <= Len(lines)
    BY <1>1, <1>10
  <2> QED
    BY <1>1, <2>1, <2>2
<1>11. ASSUME NEW u \in acked
       PROVE  OnDisk(u)'
  BY <1>4, GrowthSays DEF DurabilityInv, AckedInsertsDurable
<1> QED
  BY <1>2, <1>7, <1>9, <1>10, <1>11

\* The lines of a batch, and those of the evicted entries, are such lines.
LEMMA NumberedLines ==
    ASSUME TypeInv, DurabilityInv
    PROVE  /\ Fits(Len(batch)) =>
                /\ Numbered(Stamped(batch, sequence))
                /\ Len(Stamped(batch, sequence)) = Len(batch)
           /\ Fits(Len(victims)) =>
                /\ Numbered(TombstoneLines(victims, sequence))
                /\ Len(TombstoneLines(victims, sequence)) = Len(victims)
<1>1. /\ batch \in Seq(InsertRequest) /\ victims \in Seq(Uuids)
      /\ sequence \in Nat /\ MaxSequence \in Nat
      /\ DOMAIN batch = 1..Len(batch) /\ DOMAIN victims = 1..Len(victims)
  BY NodeAssumption, LenProperties DEF TypeInv, TypeOK
<1>2. ASSUME Fits(Len(batch))
      PROVE  /\ Numbered(Stamped(batch, sequence))
             /\ Len(Stamped(batch, sequence)) = Len(batch)
  <2>1. /\ Stamped(batch, sequence) \in Seq(WalEntry)
        /\ Len(Stamped(batch, sequence)) = Len(batch)
        /\ \A i \in 1..Len(batch) : Stamped(batch, sequence)[i] =
             [op |-> batch[i].op, uuid |-> batch[i].uuid, seq |-> sequence + i]
    BY <1>1, <1>2, StampedType DEF Fits
  <2> DEFINE lines == Stamped(batch, sequence)
  <2>2. ASSUME NEW i \in 1..Len(batch)
        PROVE  /\ lines[i].op = batch[i].op /\ lines[i].uuid = batch[i].uuid
               /\ lines[i].seq = sequence + i
    BY DEF Stamped
  <2> HIDE DEF lines
  <2>3. \A u \in acked, i \in 1..Len(batch) : ~IsFor(batch[i], "tombstone", u)
    BY <1>1 DEF DurabilityInv, NoTombstoneForAcked, PendingTombstone, Queued
  <2>4. \A i \in 1..Len(batch), u \in acked : ~IsFor(lines[i], "tombstone", u)
    BY <2>2, <2>3 DEF IsFor
  <2>5. lines \in Seq(WalEntry) /\ Len(lines) = Len(batch)
    BY <2>1 DEF lines
  <2>6. Numbered(lines)
    BY <2>2, <2>4, <2>5 DEF Numbered
  <2> QED
    BY <2>5, <2>6 DEF lines
<1>3. ASSUME Fits(Len(victims))
      PROVE  /\ Numbered(TombstoneLines(victims, sequence))
             /\ Len(TombstoneLines(victims, sequence)) = Len(victims)
  <2>1. /\ TombstoneLines(victims, sequence) \in Seq(WalEntry)
        /\ Len(TombstoneLines(victims, sequence)) = Len(victims)
        /\ \A i \in 1..Len(victims) : TombstoneLines(victims, sequence)[i] =
             [op |-> "tombstone", uuid |-> victims[i], seq |-> sequence + i]
    BY <1>1, <1>3, TombstoneLinesType DEF Fits
  <2> DEFINE lines == TombstoneLines(victims, sequence)
  <2>2. ASSUME NEW i \in 1..Len(victims)
        PROVE  /\ lines[i].uuid = victims[i]
               /\ lines[i].seq = sequence + i
    BY DEF TombstoneLines
  <2> HIDE DEF lines
  <2>3. \A i \in 1..Len(victims), u \in acked : ~IsFor(lines[i], "tombstone", u)
    BY <1>1, <2>2 DEF DurabilityInv, NoTombstoneForAcked, IsFor
  <2>4. lines \in Seq(WalEntry) /\ Len(lines) = Len(victims)
    BY <2>1 DEF lines
  <2>5. Numbered(lines)
    BY <2>2, <2>3, <2>4 DEF Numbered
  <2> QED
    BY <2>4, <2>5 DEF lines
<1> QED
  BY <1>2, <1>3

\* A write, successful or cut short at a line's end, keeps the invariant.
LEMMA WriteKeeps ==
    ASSUME CleanDisk, TypeInv, DurabilityInv, Up, Up',
           NEW lines, Numbered(lines), NEW k \in 0..Len(lines),
           Grown(lines, k),
           UNCHANGED <<snapshot, snapshot_sequence, live, dimension, acked>>,
           sequence' = sequence + Len(lines), pc' # "truncate",
           NoTombstoneForAcked', Quiescent', BatchLogged'
    PROVE  DurabilityInv'
<1>1. /\ WholeLines'
      /\ \A i, j \in 1..Len(wal') : i < j => wal'[i].seq < wal'[j].seq
      /\ \A i \in 1..Len(wal') : wal'[i].seq <= sequence'
      /\ \A u \in acked : OnDisk(u)'
  BY GrowthKeeps
<1>2. snapshot_sequence' <= sequence'
  <2>1. snapshot_sequence <= sequence
    BY DEF DurabilityInv, Ordered
  <2>2. /\ snapshot_sequence \in Nat /\ sequence \in Nat
        /\ Len(lines) \in Nat
    BY NodeAssumption, LenProperties DEF TypeInv, TypeOK, Numbered
  <2> QED
    BY <2>1, <2>2
<1>3. Ordered'
  BY <1>1, <1>2 DEF Ordered, Up
<1>4. RightDimensions'
  BY DEF DurabilityInv, RightDimensions, Accepts
<1>5. AckedInsertsSurvive' /\ AckedInsertsDurable'
  BY <1>1 DEF DurabilityInv, AckedInsertsSurvive, AckedInsertsDurable
<1>6. Replayed' /\ Snapshotted'
  BY DEF Replayed, Snapshotted, Up
<1> QED
  BY <1>1, <1>3, <1>4, <1>5, <1>6 DEF DurabilityInv

\* flush_insert_batch up to its fsync: the batch is in the WAL, or it was
\* rejected and whatever part of it landed does no harm.
LEMMA DurableWrite ==
    ASSUME CleanDisk, TypeInv, DurabilityInv,
           WriteBatch \/ WriteBatchFails \/ SequenceOverflow
    PROVE  DurabilityInv'
<1>1. /\ sequence \in Nat /\ Len(batch) \in Nat
      /\ snapshot_sequence \in Nat /\ Len(wal) \in Nat
      /\ MaxSequence \in Nat /\ sequence <= MaxSequence
  BY NodeAssumption, LenProperties DEF TypeInv, TypeOK
<1>2. pc = "write" /\ Up /\ victims = <<>>
  BY DEF WriteBatch, WriteBatchFails, SequenceOverflow, Up, DurabilityInv,
     Quiescent
<1>3. CASE WriteBatch
  <2> DEFINE lines == Stamped(batch, sequence)
  <2>1. Numbered(lines) /\ Len(lines) = Len(batch)
    BY <1>3, NumberedLines DEF WriteBatch
  <2>2. Grown(lines, Len(lines))
    BY <1>3, <2>1, CleanWrite DEF WriteBatch, Numbered, DurabilityInv
  <2>3. NoTombstoneForAcked'
    BY <1>3, NothingOwed
       DEF WriteBatch, DurabilityInv, clientVars, historyVars
  <2>4. Quiescent'
    BY <1>2, <1>3 DEF WriteBatch, DurabilityInv, Quiescent, Up, clientVars
  <2>5. BatchLogged'
    <3>1. batch' = batch /\ snapshot_sequence' = snapshot_sequence
      BY <1>3 DEF WriteBatch
    <3>2. snapshot_sequence <= sequence
      BY <1>2 DEF DurabilityInv, Ordered
    <3>3. ASSUME NEW k \in 1..Len(batch)
          PROVE  /\ lines[k].op = batch[k].op /\ lines[k].uuid = batch[k].uuid
                 /\ lines[k].seq = sequence + k
      BY DEF Stamped
    <3> HIDE DEF lines
    <3>4. Len(wal') = Len(wal) + Len(batch)
      BY <2>1, <2>2 DEF Grown
    <3>5. \A k \in 1..Len(batch) :
            Len(wal') - Len(batch') + k = Len(wal) + k
      BY <1>1, <3>1, <3>4
    <3>6. \A k \in 1..Len(batch) : wal'[Len(wal) + k] = lines[k]
      BY <2>1, <2>2 DEF Grown
    <3>7. \A k \in 1..Len(batch) :
            /\ wal'[Len(wal) + k].op = batch[k].op
            /\ wal'[Len(wal) + k].uuid = batch[k].uuid
            /\ wal'[Len(wal) + k].seq > snapshot_sequence
      <4> SUFFICES ASSUME NEW k \in 1..Len(batch)
                   PROVE  /\ wal'[Len(wal) + k].op = batch[k].op
                          /\ wal'[Len(wal) + k].uuid = batch[k].uuid
                          /\ wal'[Len(wal) + k].seq > snapshot_sequence
        OBVIOUS
      <4>1. /\ lines[k].op = batch[k].op
            /\ lines[k].uuid = batch[k].uuid
            /\ lines[k].seq = sequence + k
        BY <3>3
      <4>2. sequence + k > snapshot_sequence
        BY <1>1, <3>2
      <4> QED
        BY <3>6, <4>1, <4>2
    <3> QED
      BY <1>1, <3>1, <3>4, <3>5, <3>7 DEF BatchLogged
  <2>6. Len(lines) \in 0..Len(lines) /\ sequence' = sequence + Len(lines)
    BY <1>1, <1>3, <2>1 DEF WriteBatch
  <2> HIDE DEF lines
  <2> QED
    BY <1>2, <1>3, <2>1, <2>2, <2>3, <2>4, <2>5, <2>6, WriteKeeps
       DEF WriteBatch, indexVars, historyVars, Up
<1>4. ASSUME RejectBatch PROVE NoTombstoneForAcked'
  <2>1. \A t \in Tasks : task'[t].todo = task[t].todo
    BY <1>4, AnsweredTodo DEF RejectBatch
  <2>2. \A u : ~Queued(batch', "tombstone", u)
    BY <1>4 DEF RejectBatch, Queued
  <2> QED
    BY <1>4, <2>1, <2>2, NothingOwed DEF RejectBatch, DurabilityInv
<1>5. CASE WriteBatchFails
  <2> DEFINE lines == Stamped(batch, sequence)
  <2>1. Numbered(lines) /\ Len(lines) = Len(batch)
    BY <1>5, NumberedLines DEF WriteBatchFails
  <2>2. PICK k \in 0..Len(lines) : Grown(lines, k)
    BY <1>5, <2>1, CleanWrite DEF WriteBatchFails, Numbered, DurabilityInv
  <2>3. /\ pc' = "evict" /\ victims' = victims
        /\ sequence' = sequence + Len(lines)
        /\ NoTombstoneForAcked'
        /\ UNCHANGED <<snapshot, snapshot_sequence, live, dimension, acked>>
    BY <1>4, <1>5, <2>1 DEF WriteBatchFails, RejectBatch, indexVars
  <2>4. Quiescent' /\ BatchLogged'
    BY <1>2, <2>3 DEF Quiescent, BatchLogged, Up
  <2> HIDE DEF lines
  <2> QED
    BY <1>2, <2>1, <2>2, <2>3, <2>4, WriteKeeps DEF Up
<1>6. CASE SequenceOverflow
  BY <1>1, <1>2, <1>4, <1>6, Stirred
     DEF SequenceOverflow, RejectBatch, indexVars, SameFiles, Up
<1> QED
  BY <1>3, <1>5, <1>6

\* The line of the request that is applied next is the last word on its entry,
\* unless a later request of the batch is about the same entry.
LEMMA HeadLogged ==
    ASSUME CleanDisk, TypeInv, DurabilityInv, pc \in {"written", "apply"},
           NEW u, u = Head(batch).uuid
    PROVE  /\ Head(batch).op = "insert" /\ ~Queued(Tail(batch), "tombstone", u)
                => OnDisk(u)
           /\ Head(batch).op = "tombstone" /\ ~Queued(Tail(batch), "insert", u)
                => ~OnDisk(u)
<1>1. /\ batch \in Seq(InsertRequest) /\ batch # <<>> /\ Len(batch) \in Nat \ {0}
      /\ Head(batch) = batch[1]
      /\ \A k \in 1..(Len(batch) - 1) : Tail(batch)[k] = batch[k + 1]
      /\ DOMAIN Tail(batch) = 1..(Len(batch) - 1)
  BY HeadTailProperties, LenProperties, EmptySeq DEF TypeInv, TypeOK, Shape
<1>2. Len(wal) \in Nat
  BY LenProperties DEF TypeInv, TypeOK
<1>3. PICK first \in 1..Len(wal) : first = Len(wal) - Len(batch) + 1
  BY <1>1, <1>2 DEF DurabilityInv, BatchLogged
<1>4. /\ wal[first].op = Head(batch).op /\ wal[first].uuid = u
      /\ wal[first].seq > snapshot_sequence
  <2>1. 1 \in 1..Len(batch)
    BY <1>1
  <2> QED
    BY <1>1, <1>3, <2>1 DEF DurabilityInv, BatchLogged
<1>5. InTail(first)
  BY <1>4, TailLine DEF DurabilityInv
<1>6. ASSUME NEW j \in (first + 1)..Len(wal), NEW op, IsFor(wal[j], op, u)
      PROVE  Queued(Tail(batch), op, u)
  <2>1. PICK k \in 1..Len(batch) : j = Len(wal) - Len(batch) + k /\ k # 1
    <3>1. j - first + 1 \in 1..Len(batch) /\ j - first + 1 # 1
      BY <1>1, <1>2, <1>3
    <3>2. j = Len(wal) - Len(batch) + (j - first + 1)
      BY <1>1, <1>2, <1>3
    <3> QED
      BY <3>1, <3>2
  <2>2. wal[j].op = batch[k].op /\ wal[j].uuid = batch[k].uuid
    BY <2>1 DEF DurabilityInv, BatchLogged
  <2>3. k - 1 \in DOMAIN Tail(batch) /\ Tail(batch)[k - 1] = batch[k]
    BY <1>1, <2>1
  <2> QED
    BY <1>6, <2>2, <2>3 DEF Queued, IsFor
<1>7. ASSUME Head(batch).op = "insert", ~Queued(Tail(batch), "tombstone", u)
      PROVE  OnDisk(u)
  BY <1>4, <1>5, <1>6, <1>7 DEF OnDisk, OnDiskAfter, IsFor
<1>8. ASSUME Head(batch).op = "tombstone", ~Queued(Tail(batch), "insert", u)
      PROVE  ~OnDisk(u)
  <2>1. \A i \in 1..Len(wal) : i > first => ~IsFor(wal[i], "insert", u)
    <3>1. \A i \in 1..Len(wal) : i > first => i \in (first + 1)..Len(wal)
      BY <1>2, <1>3
    <3> QED
      BY <1>6, <1>8, <3>1
  <2>2. InTail(first) /\ IsFor(wal[first], "tombstone", u) /\ ~IsFor(wal[first], "insert", u)
    BY <1>4, <1>5, <1>8 DEF IsFor
  <2>3. \A i \in 1..Len(wal) : i < first => first \in (i + 1)..Len(wal)
    BY <1>2, <1>3
  <2>4. \A i \in 1..Len(wal) : i < first \/ i = first \/ i > first
    BY <1>2, <1>3
  <2> QED
    BY <1>3, <2>1, <2>2, <2>3, <2>4 DEF OnDisk, OnDiskAfter
<1> QED
  BY <1>7, <1>8

\* Applying the batch: an insert is acknowledged when its line is the last word
\* on it in the WAL, and a tombstone removes nothing acknowledged.
LEMMA DurableApply ==
    ASSUME CleanDisk, TypeInv, DurabilityInv, ApplyInsert \/ ApplyTombstone
    PROVE  DurabilityInv'
<1>1. /\ batch \in Seq(InsertRequest) /\ batch # <<>> /\ Len(batch) \in Nat \ {0}
      /\ Head(batch) = batch[1] /\ Head(batch) \in InsertRequest
      /\ Len(Tail(batch)) = Len(batch) - 1
      /\ \A k \in 1..(Len(batch) - 1) : Tail(batch)[k] = batch[k + 1]
      /\ DOMAIN Tail(batch) = 1..(Len(batch) - 1)
  BY HeadTailProperties, LenProperties, EmptySeq
     DEF TypeInv, TypeOK, Shape, ApplyInsert, ApplyTombstone
<1>2. /\ Len(wal) \in Nat /\ sequence \in Nat /\ snapshot_sequence \in Nat
      /\ acked \subseteq Uuids
  BY NodeAssumption, LenProperties DEF TypeInv, TypeOK
<1>u. PICK u \in Uuids : u = Head(batch).uuid
  BY <1>1 DEF InsertRequest
<1>3. /\ pc \in {"written", "apply"} /\ Up /\ victims = <<>>
      /\ pc' \in {"evict", "apply"} /\ Up' /\ victims' = <<>>
      /\ batch' = Tail(batch) /\ sequence' = sequence /\ channel' = channel
      /\ SameFiles
  BY DEF ApplyInsert, ApplyTombstone, Up, DurabilityInv, Quiescent, diskVars,
     SameFiles
<1>4. WholeLines'
  BY <1>3 DEF DurabilityInv, WholeLines, SameFiles
<1>5. Ordered' /\ Replayed' /\ Snapshotted' /\ Quiescent'
  BY <1>3 DEF DurabilityInv, Ordered, Replayed, Snapshotted, Quiescent, Up,
     SameFiles
<1>6. BatchLogged'
  <2>1. ASSUME NEW k \in 1..Len(batch')
        PROVE  /\ k + 1 \in 1..Len(batch)
               /\ Len(wal') - Len(batch') + k = Len(wal) - Len(batch) + (k + 1)
               /\ batch'[k] = batch[k + 1]
    <3>1. /\ batch' = Tail(batch) /\ Len(batch') = Len(batch) - 1
          /\ wal' = wal
      BY <1>1, <1>3 DEF SameFiles
    <3>2. k \in 1..(Len(batch) - 1)
      BY <2>1, <3>1
    <3>3. Tail(batch)[k] = batch[k + 1]
      BY <1>1, <3>2
    <3> QED
      BY <1>1, <1>2, <3>1, <3>2, <3>3
  <2>2. Len(batch) <= Len(wal) /\ Len(batch') <= Len(wal)
    BY <1>1, <1>2, <1>3 DEF DurabilityInv, BatchLogged
  <2>3. ASSUME NEW k \in 1..Len(batch)
        PROVE  LET i == Len(wal) - Len(batch) + k
               IN  /\ wal[i].op = batch[k].op
                   /\ wal[i].uuid = batch[k].uuid
                   /\ wal[i].seq > snapshot_sequence
    BY <1>3 DEF DurabilityInv, BatchLogged
  <2>4. wal' = wal /\ snapshot_sequence' = snapshot_sequence
    BY <1>3 DEF SameFiles
  <2>5. ASSUME NEW k \in 1..Len(batch')
        PROVE  LET i == Len(wal') - Len(batch') + k
               IN  /\ wal'[i].op = batch'[k].op
                   /\ wal'[i].uuid = batch'[k].uuid
                   /\ wal'[i].seq > snapshot_sequence'
    <3>1. k + 1 \in 1..Len(batch) /\ batch'[k] = batch[k + 1]
      BY <2>1, <2>5
    <3>2. Len(wal') - Len(batch') + k = Len(wal) - Len(batch) + (k + 1)
      BY <2>1, <2>5
    <3> QED
      BY <2>3, <2>4, <3>1, <3>2
  <2> QED
    BY <2>2, <2>4, <2>5 DEF BatchLogged
<1>7. \A t \in Tasks : task'[t].todo = task[t].todo
  BY AnsweredTodo DEF ApplyInsert, ApplyTombstone
<1>8. ASSUME NEW v, v \in acked
      PROVE  /\ OnDisk(v)'
             /\ v \in live
             /\ ~PendingTombstone(v, batch)'
             /\ Head(batch).op = "tombstone" => v # u
  <2>1. OnDisk(v)' /\ v \in live
    BY <1>3, <1>8, SameDisk DEF DurabilityInv, AckedInsertsDurable,
       AckedInsertsSurvive, SameFiles
  <2>2. ~PendingTombstone(v, batch)
    BY <1>8 DEF DurabilityInv, NoTombstoneForAcked
  <2>3. ~Queued(Tail(batch), "tombstone", v) /\ ~IsFor(Head(batch), "tombstone", v)
    BY <1>1, <2>2, QueuedTail DEF PendingTombstone
  <2> QED
    BY <1>3, <1>7, <2>1, <2>2, <2>3, <1>u DEF PendingTombstone, Queued, IsFor
<1>9. CASE ApplyInsert
  <2>1. Accepts(dimension, u)
    BY <1>2 DEF DurabilityInv, RightDimensions
  <2>2. /\ live' = live \cup {u}
        /\ dimension' = [dimension EXCEPT ![NsOf[u]] = DimOf[u]]
        /\ acked' = IF PendingTombstone(u, Tail(batch))
                    THEN acked ELSE acked \cup {u}
    BY <1>u, <1>9, <2>1 DEF ApplyInsert
  <2>3. RightDimensions'
    <3>1. ASSUME NEW v \in Uuids PROVE Accepts(dimension', v)
      <4>1. NsOf[v] \in Namespaces /\ NsOf[u] \in Namespaces
        BY <1>2, NodeAssumption
      <4>2. CASE NsOf[v] = NsOf[u]
        BY <1>2, <2>2, <4>1, <4>2 DEF CleanDisk, Accepts, TypeInv, TypeOK
      <4>3. CASE NsOf[v] # NsOf[u]
        BY <2>2, <4>1, <4>3
           DEF Accepts, TypeInv, TypeOK, DurabilityInv, RightDimensions
      <4> QED
        BY <4>2, <4>3
    <3> QED
      BY <3>1 DEF RightDimensions, Accepts
  <2>4. ASSUME ~PendingTombstone(u, Tail(batch))
        PROVE  OnDisk(u)' /\ ~PendingTombstone(u, batch)'
    <3>1. ~PendingTombstone(u, batch)'
      BY <1>3, <1>7, <2>4 DEF PendingTombstone, Queued
    <3>6. OnDisk(u)
      BY <1>3, <1>9, <1>u, <2>4, HeadLogged DEF ApplyInsert, PendingTombstone
    <3> QED
      BY <1>3, <3>1, <3>6, SameDisk DEF SameFiles
  <2>5. NoTombstoneForAcked'
    BY <1>3, <1>8, <2>2, <2>4 DEF NoTombstoneForAcked
  <2>6. AckedInsertsSurvive' /\ AckedInsertsDurable'
    BY <1>8, <2>2, <2>4 DEF AckedInsertsSurvive, AckedInsertsDurable
  <2> QED
    BY <1>4, <1>5, <1>6, <2>3, <2>5, <2>6 DEF DurabilityInv
<1>10. CASE ApplyTombstone
  <2>1. /\ live' = live \ {u} /\ dimension' = dimension /\ acked' = acked
        /\ Head(batch).op = "tombstone"
    BY <1>u, <1>10 DEF ApplyTombstone
  <2>2. RightDimensions'
    BY <2>1 DEF DurabilityInv, RightDimensions, Accepts
  <2>3. NoTombstoneForAcked'
    BY <1>3, <1>8, <2>1 DEF NoTombstoneForAcked
  <2>4. AckedInsertsSurvive' /\ AckedInsertsDurable'
    BY <1>8, <2>1 DEF AckedInsertsSurvive, AckedInsertsDurable
  <2> QED
    BY <1>4, <1>5, <1>6, <2>2, <2>3, <2>4 DEF DurabilityInv
<1> QED
  BY <1>9, <1>10

\* evict_to_cap_step: a victim is no longer acknowledged when it is taken.
LEMMA DurableEvict ==
    ASSUME CleanDisk, TypeInv, DurabilityInv,
           EvictOne \/ EvictDone \/ EvictWrite \/ EvictWriteFails
              \/ EvictOverflow
    PROVE  DurabilityInv'
<1>1. /\ sequence \in Nat /\ MaxSequence \in Nat /\ sequence <= MaxSequence
      /\ Len(victims) \in Nat /\ victims \in Seq(Uuids)
  BY NodeAssumption, LenProperties DEF TypeInv, TypeOK
<1>2. pc \in {"evict", "evicting", "evict_write"} /\ Up
  BY DEF EvictOne, EvictDone, EvictWrite, EvictWriteFails, EvictOverflow, Up
<1>3. CASE EvictOne
  <2>1. PICK u \in Uuids : /\ live' = live \ {u}
                           /\ acked' = acked \ {u}
                           /\ victims' = Append(victims, u)
    BY <1>3 DEF EvictOne, In, TypeInv, TypeOK
  <2>2. ASSUME NEW v \in acked', NEW i \in DOMAIN victims', victims'[i] = v
        PROVE  \E j \in DOMAIN victims : victims[j] = v
    <3>1. /\ DOMAIN victims = 1..Len(victims)
          /\ DOMAIN victims' = 1..(Len(victims) + 1)
          /\ \A j \in 1..Len(victims) : victims'[j] = victims[j]
          /\ victims'[Len(victims) + 1] = u
      BY <1>1, <2>1, AppendProperties, LenProperties
    <3>2. i # Len(victims) + 1
      BY <2>1, <2>2, <3>1
    <3>3. i \in 1..Len(victims)
      BY <1>1, <2>2, <3>1, <3>2
    <3> QED
      BY <2>2, <3>1, <3>3
  <2>3. NoTombstoneForAcked'
    BY <1>3, <2>1, <2>2, NothingOwed DEF EvictOne, clientVars, DurabilityInv
  <2>4. acked' \subseteq live' /\ CaughtUp /\ Up'
    BY <1>2, <1>3, <2>1
       DEF EvictOne, DurabilityInv, AckedInsertsSurvive, CaughtUp, Up
  <2>5. RightDimensions' /\ Quiescent'
    BY <1>3, <2>4
       DEF EvictOne, DurabilityInv, RightDimensions, Accepts, Quiescent
  <2> QED
    BY <1>1, <1>3, <2>1, <2>3, <2>4, <2>5, Calm
       DEF EvictOne, SameFiles, diskVars
<1>4. CASE EvictDone
  <2>1. NoTombstoneForAcked'
    BY <1>4, NothingOwed
       DEF EvictDone, DurabilityInv, loopVars, clientVars, historyVars
  <2> QED
    BY <1>1, <1>2, <1>4, <2>1, Stirred
       DEF EvictDone, diskVars, indexVars, loopVars, historyVars, SameFiles,
           Up
<1>5. ASSUME victims' = <<>>, UNCHANGED <<channel, batch, task, acked>>
      PROVE  NoTombstoneForAcked'
  BY <1>5, NothingOwed DEF DurabilityInv
<1>6. ASSUME NEW k \in 0..Len(TombstoneLines(victims, sequence)),
             Fits(Len(victims)), Grown(TombstoneLines(victims, sequence), k),
             sequence' = sequence + Len(victims), victims' = <<>>,
             pc' = "autocompact",
             UNCHANGED <<snapshot, snapshot_sequence, live, dimension, acked,
                         channel, batch, task, serving>>
      PROVE  DurabilityInv'
  <2> DEFINE lines == TombstoneLines(victims, sequence)
  <2>1. Numbered(lines) /\ Len(lines) = Len(victims)
    BY <1>6, NumberedLines
  <2>2. NoTombstoneForAcked' /\ Quiescent' /\ BatchLogged' /\ Up'
    BY <1>5, <1>6 DEF Quiescent, BatchLogged, Up
  <2> HIDE DEF lines
  <2>3. k \in 0..Len(lines) /\ Grown(lines, k)
    BY <1>6 DEF lines
  <2>4. sequence' = sequence + Len(lines)
    BY <1>6, <2>1
  <2> QED
    BY <1>2, <1>6, <2>1, <2>2, <2>3, <2>4, WriteKeeps
<1>7. CASE EvictWrite
  <2> DEFINE lines == TombstoneLines(victims, sequence)
  <2>1. Numbered(lines) /\ Len(lines) = Len(victims)
    BY <1>7, NumberedLines DEF EvictWrite
  <2>2. Grown(lines, Len(lines))
    BY <1>7, <2>1, CleanWrite DEF EvictWrite, Numbered, DurabilityInv
  <2>3. Len(lines) \in 0..Len(lines)
    BY <1>1, <2>1
  <2> QED
    BY <1>6, <1>7, <2>2, <2>3 DEF EvictWrite, indexVars, clientVars
<1>8. CASE EvictWriteFails
  <2> DEFINE lines == TombstoneLines(victims, sequence)
  <2>1. Numbered(lines)
    BY <1>8, NumberedLines DEF EvictWriteFails
  <2>2. PICK k \in 0..Len(lines) : Grown(lines, k)
    BY <1>8, <2>1, CleanWrite DEF EvictWriteFails, Numbered, DurabilityInv
  <2> QED
    BY <1>6, <1>8, <2>2 DEF EvictWriteFails, indexVars, clientVars, historyVars
<1>9. CASE EvictOverflow
  <2>1. NoTombstoneForAcked'
    BY <1>5, <1>9 DEF EvictOverflow, clientVars, historyVars
  <2>2. acked' \subseteq live' /\ CaughtUp /\ Up'
    BY <1>2, <1>9 DEF EvictOverflow, indexVars, historyVars, DurabilityInv,
       AckedInsertsSurvive, CaughtUp, Up
  <2>3. RightDimensions' /\ Quiescent'
    BY <1>9, <2>2 DEF EvictOverflow, indexVars, DurabilityInv,
       RightDimensions, Accepts, Quiescent
  <2> QED
    BY <1>1, <1>9, <2>1, <2>2, <2>3, Calm
       DEF EvictOverflow, SameFiles, diskVars, historyVars
<1> QED
  BY <1>3, <1>4, <1>7, <1>8, <1>9

\* Compaction: between the rename and the truncation snapshot and WAL agree.
LEMMA DurableCompact ==
    ASSUME TypeInv, DurabilityInv,
           AutoCompact \/ RunPending \/ WriteSnapshot \/ WriteSnapshotFails
              \/ Truncate \/ TruncateFails
    PROVE  DurabilityInv'
<1>1. /\ sequence \in Nat /\ snapshot_sequence \in Nat
      /\ \A i \in 1..Len(wal) : wal[i].seq \in Nat
  BY NodeAssumption DEF TypeInv, TypeOK, DurabilityInv, WholeLines, WalEntry
<1>2. /\ pc \in {"autocompact", "pending", "snapshot", "truncate"} /\ Up
      /\ victims = <<>>
  BY DEF AutoCompact, RunPending, WriteSnapshot, WriteSnapshotFails, Truncate,
     TruncateFails, Up, DurabilityInv, Quiescent
<1>3. ASSUME UNCHANGED <<channel, batch, acked, victims>>,
             task' = task \/ \E froms : task' = Answered(froms)
      PROVE  NoTombstoneForAcked'
  <2>1. \A t \in Tasks : task'[t].todo = task[t].todo
    BY <1>3, AnsweredTodo
  <2> QED
    BY <1>3, <2>1, NothingOwed DEF DurabilityInv
<1>4. ASSUME FinishCompaction
      PROVE  /\ pc' \in {"pending", "recv"}
             /\ task' = task \/ \E froms : task' = Answered(froms)
  BY <1>4 DEF FinishCompaction
<1>5. ASSUME SameFiles, pc' \in {"snapshot", "pending", "recv"},
             UNCHANGED <<live, dimension, acked, victims, sequence, channel,
                         batch>>,
             task' = task \/ \E froms : task' = Answered(froms)
      PROVE  DurabilityInv'
  BY <1>1, <1>2, <1>3, <1>5, Stirred DEF Up
<1>6. CASE AutoCompact \/ RunPending
  BY <1>5, <1>6 DEF AutoCompact, RunPending, diskVars, indexVars, clientVars,
     historyVars, SameFiles
<1>7. CASE WriteSnapshotFails
  BY <1>4, <1>5, <1>7 DEF WriteSnapshotFails, diskVars, indexVars,
     historyVars, SameFiles
<1>8. CASE WriteSnapshot
  <2>1. /\ snapshot' = live /\ snapshot_sequence' = sequence /\ pc' = "truncate"
        /\ UNCHANGED <<wal, eol, live, dimension, acked, victims, sequence,
                       channel, batch, task, serving>>
    BY <1>8 DEF WriteSnapshot, indexVars, loopVars, clientVars, historyVars
  <2>2. acked \subseteq live /\ \A i \in 1..Len(wal) : wal[i].seq <= sequence
    BY <1>2 DEF DurabilityInv, AckedInsertsSurvive, Ordered
  <2>3. \A i \in 1..Len(wal) : ~InTail(i)'
    BY <1>1, <2>1, <2>2 DEF InTail
  <2>4. AckedInsertsDurable'
    BY <2>1, <2>2, <2>3 DEF AckedInsertsDurable, OnDisk, OnDiskAfter
  <2>5. Ordered'
    BY <1>1, <2>1, <2>2 DEF DurabilityInv, Ordered, Up
  <2>6. NoTombstoneForAcked'
    BY <1>3, <2>1
  <2> QED
    BY <1>2, <2>1, <2>2, <2>4, <2>5, <2>6 DEF DurabilityInv, WholeLines,
       BatchLogged, Replayed, RightDimensions, Accepts, Quiescent, Snapshotted,
       AckedInsertsSurvive, Up
<1>9. ASSUME pc = "truncate", wal' = <<>>, eol' = TRUE, FinishCompaction,
             UNCHANGED <<snapshot, snapshot_sequence, live, dimension, acked,
                         victims, sequence, channel, batch, serving>>
      PROVE  DurabilityInv'
  <2>1. Len(wal') = 0
    BY <1>9, EmptySeq
  <2>2. /\ acked \subseteq snapshot /\ snapshot_sequence = sequence
        /\ acked \subseteq live
    BY <1>2, <1>9 DEF DurabilityInv, Snapshotted, AckedInsertsSurvive
  <2>3. \A i : i \notin 1..0
    OBVIOUS
  <2>4. AckedInsertsDurable'
    BY <1>9, <2>1, <2>2, <2>3 DEF AckedInsertsDurable, OnDisk, OnDiskAfter
  <2>5. pc' \in {"pending", "recv"} /\ NoTombstoneForAcked'
    BY <1>3, <1>4, <1>9
  <2>6. WholeLines'
    BY <1>9, <2>1, <2>3 DEF WholeLines
  <2>7. Ordered'
    BY <1>1, <1>9, <2>1, <2>2, <2>3, <2>5 DEF Ordered, Up
  <2> QED
    BY <1>2, <1>9, <2>2, <2>4, <2>5, <2>6, <2>7 DEF DurabilityInv,
       BatchLogged, Replayed, RightDimensions, Accepts, Quiescent, Snapshotted,
       AckedInsertsSurvive, Up
<1>10. CASE Truncate
  BY <1>9, <1>10 DEF Truncate, indexVars, historyVars
<1>11. CASE TruncateFails
  <2>1. CASE wal' = <<>> /\ eol' = TRUE
    BY <1>9, <1>11, <2>1 DEF TruncateFails, indexVars, historyVars
  <2>2. CASE UNCHANGED <<wal, eol>>
    BY <1>4, <1>5, <1>11, <2>2
       DEF TruncateFails, indexVars, historyVars, SameFiles
  <2> QED
    BY <1>11, <2>1, <2>2 DEF TruncateFails
<1> QED
  BY <1>6, <1>7, <1>8, <1>10, <1>11

-----------------------------------------------------------------------------
(* Start-up and crashes. *)

\* Replay rebuilds what the disk says, line by line.
LEMMA DurableBoot ==
    ASSUME CleanDisk, TypeInv, DurabilityInv, Boot
    PROVE  DurabilityInv'
<1>1. /\ sequence \in Nat /\ snapshot_sequence \in Nat /\ cursor \in Nat
      /\ Len(wal) \in Nat
      /\ \A i \in 1..Len(wal) : wal[i] \in WalEntry /\ wal[i].seq \in Nat
  BY NodeAssumption, LenProperties
     DEF TypeInv, TypeOK, DurabilityInv, WholeLines, WalEntry
<1>2. ASSUME pc \in {"boot", "replay"}, pc' = "replay", SameFiles,
             UNCHANGED <<channel, task, serving, batch, victims, acked>>
      PROVE  /\ WholeLines' /\ BatchLogged' /\ NoTombstoneForAcked'
             /\ Quiescent' /\ Snapshotted' /\ AckedInsertsSurvive'
             /\ AckedInsertsDurable'
  <2>1. NoTombstoneForAcked'
    BY <1>2, NothingOwed DEF DurabilityInv
  <2>2. AckedInsertsDurable'
    BY <1>2, SameDisk DEF DurabilityInv, AckedInsertsDurable, SameFiles
  <2> QED
    BY <1>2, <2>1, <2>2 DEF DurabilityInv, WholeLines, BatchLogged, Quiescent,
       Snapshotted, AckedInsertsSurvive, Up, SameFiles
<1>3. CASE LoadSnapshot
  <2>1. /\ pc = "boot" /\ pc' = "replay" /\ live' = snapshot
        /\ dimension' = DimensionsOf(snapshot)
        /\ watermark' = snapshot_sequence /\ sequence' = snapshot_sequence
        /\ SameFiles
        /\ UNCHANGED <<channel, task, serving, batch, victims, acked, cursor>>
    BY <1>3 DEF LoadSnapshot, diskVars, clientVars, historyVars, SameFiles
  <2>2. cursor = 0 /\ cursor' = 0
    BY <2>1 DEF DurabilityInv, Ordered
  <2>3. Ordered'
    BY <1>1, <2>1, <2>2 DEF DurabilityInv, Ordered, Up, SameFiles
  <2>4. RightDimensions'
    <3>1. ASSUME NEW u \in Uuids PROVE Accepts(dimension', u)
      <4>1. NsOf[u] \in Namespaces
        BY NodeAssumption
      <4>2. CASE In(NsOf[u], snapshot) = {}
        BY <2>1, <4>1, <4>2 DEF DimensionsOf, Accepts
      <4>3. CASE In(NsOf[u], snapshot) # {}
        <5>1. PICK v \in In(NsOf[u], snapshot) :
                dimension'[NsOf[u]] = DimOf[v]
          BY <2>1, <4>1, <4>3 DEF DimensionsOf
        <5> QED
          BY <5>1 DEF In, CleanDisk, Accepts, TypeInv, TypeOK
      <4> QED
        BY <4>2, <4>3
    <3> QED
      BY <3>1 DEF RightDimensions, Accepts
  <2>5. Replayed'
    <3>1. \A u : OnDiskAfter(0, u)' <=> u \in snapshot
      BY <2>1, OnDiskAfterNone, SameDisk DEF SameFiles
    <3> QED
      BY <2>1, <2>2, <3>1 DEF Replayed
  <2> QED
    BY <1>2, <2>1, <2>3, <2>4, <2>5 DEF DurabilityInv
<1>4. CASE LoadSnapshotFails
  BY <1>4 DEF LoadSnapshotFails, Fault, CleanDisk
<1>5. CASE ReplayLine
  <2>1. /\ pc = "replay" /\ pc' = "replay" /\ SameFiles
        /\ cursor < Len(wal) /\ cursor' = cursor + 1 /\ watermark' = watermark
        /\ UNCHANGED <<channel, task, serving, batch, victims, acked>>
    BY <1>5 DEF ReplayLine, diskVars, clientVars, historyVars, SameFiles
  <2>2. PICK n \in Nat : n = cursor
    BY <1>1
  <2>3. n < Len(wal) /\ n + 1 \in 1..Len(wal)
    BY <1>1, <2>1, <2>2
  <2>4. PICK line \in WalEntry : line = wal[n + 1]
    BY <1>1, <2>3
  <2>5. /\ Readable(line) /\ line.uuid \in Uuids /\ line.seq \in Nat
        /\ line.op \in {"insert", "tombstone"}
    BY <1>1, <2>3, <2>4 DEF Readable, CleanDisk, WalEntry
  <2>6. watermark = snapshot_sequence
    BY <2>1 DEF DurabilityInv, Ordered
  <2>7. /\ line.seq > snapshot_sequence =>
             /\ sequence' = IF line.seq > sequence THEN line.seq ELSE sequence
             /\ line.op = "tombstone" =>
                  live' = live \ {line.uuid} /\ dimension' = dimension
             /\ line.op = "insert" =>
                  /\ live' = live \cup {line.uuid}
                  /\ dimension' = [dimension EXCEPT ![NsOf[line.uuid]] =
                                     DimOf[line.uuid]]
        /\ ~(line.seq > snapshot_sequence) =>
             UNCHANGED <<live, dimension, sequence>>
    <3>1. Accepts(dimension, line.uuid)
      BY <2>5 DEF DurabilityInv, RightDimensions
    <3> QED
      BY <1>5, <2>2, <2>4, <2>5, <2>6, <3>1 DEF ReplayLine, indexVars
  <2>8. Ordered'
    <3>1. /\ snapshot_sequence <= sequence
          /\ \A i \in 1..n : wal[i].seq <= sequence
      BY <2>1, <2>2 DEF DurabilityInv, Ordered
    <3>2. sequence' \in Nat /\ sequence <= sequence' /\ line.seq <= sequence'
      <4>1. CASE line.seq > snapshot_sequence
        BY <1>1, <2>5, <2>7, <4>1
      <4>2. CASE ~(line.seq > snapshot_sequence)
        BY <1>1, <2>5, <2>7, <3>1, <4>2
      <4> QED
        BY <4>1, <4>2
    <3>3. ASSUME NEW i \in 1..(n + 1) PROVE wal[i].seq <= sequence'
      <4>1. CASE i \in 1..n
        <5>1. i \in 1..Len(wal)
          BY <1>1, <2>3, <4>1
        <5> QED
          BY <1>1, <3>1, <3>2, <4>1, <5>1
      <4>2. CASE i \notin 1..n
        <5>1. i = n + 1
          BY <4>2
        <5> QED
          BY <2>4, <3>2, <5>1
      <4> QED
        BY <4>1, <4>2
    <3>4. snapshot_sequence <= sequence' /\ n + 1 <= Len(wal)
      BY <1>1, <2>3, <3>1, <3>2
    <3> QED
      BY <2>1, <2>2, <2>6, <3>3, <3>4
         DEF DurabilityInv, Ordered, Up, SameFiles
  <2>9. RightDimensions'
    <3>1. ASSUME NEW v \in Uuids PROVE Accepts(dimension', v)
      <4>1. NsOf[v] \in Namespaces /\ NsOf[line.uuid] \in Namespaces
        BY <2>5, NodeAssumption
      <4>2. CASE dimension' = dimension
        BY <4>2 DEF Accepts, DurabilityInv, RightDimensions
      <4>3. CASE /\ dimension' = [dimension EXCEPT ![NsOf[line.uuid]] =
                                    DimOf[line.uuid]]
                 /\ NsOf[v] = NsOf[line.uuid]
        <5>1. dimension'[NsOf[v]] = DimOf[line.uuid]
          BY <4>1, <4>3 DEF TypeInv, TypeOK
        <5> QED
          BY <2>5, <4>3, <5>1 DEF CleanDisk, Accepts
      <4>4. CASE /\ dimension' = [dimension EXCEPT ![NsOf[line.uuid]] =
                                    DimOf[line.uuid]]
                 /\ NsOf[v] # NsOf[line.uuid]
        BY <4>1, <4>4
           DEF Accepts, TypeInv, TypeOK, DurabilityInv, RightDimensions
      <4> QED
        BY <2>5, <2>7, <4>2, <4>3, <4>4
    <3> QED
      BY <3>1 DEF RightDimensions, Accepts
  <2>10. Replayed'
    <3>1. ASSUME NEW u \in Uuids
          PROVE  u \in live' <=> OnDiskAfter(n + 1, u)
      <4>1. u \in live <=> OnDiskAfter(n, u)
        BY <2>1, <2>2 DEF DurabilityInv, Replayed
      <4>2. WholeLines
        BY DEF DurabilityInv
      <4>3. CASE line.seq <= snapshot_sequence
        BY <1>1, <2>3, <2>4, <2>5, <2>7, <4>1, <4>2, <4>3, OnDiskAfterLine
      <4>4. CASE line.seq > snapshot_sequence /\ line.uuid # u
        BY <2>3, <2>4, <2>5, <2>7, <4>1, <4>2, <4>4, OnDiskAfterLine
      <4>5. CASE /\ line.seq > snapshot_sequence /\ line.uuid = u
                 /\ line.op = "tombstone"
        BY <2>3, <2>4, <2>7, <4>2, <4>5, OnDiskAfterLine DEF IsFor
      <4>6. CASE /\ line.seq > snapshot_sequence /\ line.uuid = u
                 /\ line.op = "insert"
        BY <2>3, <2>4, <2>7, <4>2, <4>6, OnDiskAfterLine DEF IsFor
      <4> QED
        BY <1>1, <2>5, <4>3, <4>4, <4>5, <4>6
    <3>2. \A u : OnDiskAfter(n + 1, u)' <=> OnDiskAfter(n + 1, u)
      BY <2>1, SameDisk DEF SameFiles
    <3> QED
      BY <2>1, <2>2, <3>1, <3>2 DEF Replayed
  <2> QED
    BY <1>2, <2>1, <2>8, <2>9, <2>10 DEF DurabilityInv
<1>6. CASE StartupExpiry
  <2>1. /\ pc = "replay" /\ cursor = Len(wal) /\ pc' = "recv"
        /\ BeginRemoval(Janitor, live \cap expired)
        /\ UNCHANGED <<diskVars, dimension, loopVars, channel>>
    BY <1>6 DEF StartupExpiry
  <2>2. acked \subseteq live
    <3>1. \A u \in Uuids : u \in live <=> OnDisk(u)
      BY <2>1 DEF DurabilityInv, Replayed, OnDisk
    <3> QED
      BY <3>1 DEF DurabilityInv, AckedInsertsDurable, TypeInv, TypeOK
  <2>3. live \cap expired \in SUBSET Uuids /\ Janitor \in Tasks
    BY DEF TypeInv, TypeOK, Tasks
  <2>4. RightDimensions' /\ CaughtUp /\ Up'
    BY <2>1 DEF DurabilityInv, RightDimensions, Accepts, CaughtUp, Up
  <2> QED
    BY <2>1, <2>2, <2>3, <2>4, RemovalKeeps DEF diskVars, loopVars, SameFiles
<1> QED
  BY <1>3, <1>4, <1>5, <1>6, NothingRefused DEF Boot, DurabilityInv

\* A crash outside a write leaves the disk as it is.
LEMMA NothingInFlight ==
    ASSUME CleanDisk, TypeInv, DurabilityInv,
           ~(pc = "write" /\ Fits(Len(batch))),
           ~(pc = "evict_write" /\ Fits(Len(victims))),
           UNCHANGED <<snapshot, snapshot_sequence>>,
           \E landing \in Landings(LinesInFlight) : Land(landing)
    PROVE  /\ eol' /\ Len(wal') = Len(wal)
           /\ \A i \in 1..Len(wal) : wal'[i] = wal[i]
           /\ \A u : OnDisk(u)' <=> OnDisk(u)
<1>1. LinesInFlight = <<>>
  BY DEF LinesInFlight
<1>2. <<>> \in Seq(WalEntry) /\ Len(<<>>) = 0
  BY EmptySeq
<1>3. PICK k \in 0..0 : Grown(<<>>, k)
  BY <1>1, <1>2, CleanWrite DEF DurabilityInv
<1>4. /\ eol' /\ Len(wal') = Len(wal)
      /\ \A i \in 1..Len(wal) : wal'[i] = wal[i]
  <2>1. Len(wal) \in Nat
    BY LenProperties DEF TypeInv, TypeOK
  <2> QED
    BY <1>3, <2>1 DEF Grown
<1>5. \A u : OnDisk(u)' <=> OnDisk(u)
  BY <1>4 DEF OnDisk, OnDiskAfter, InTail, Readable, IsFor
<1> QED
  BY <1>4, <1>5

\* A crash leaves whole lines behind, and the disk still holds what it must.
LEMMA DurableCrash ==
    ASSUME CleanDisk, TypeInv, DurabilityInv, Crash
    PROVE  DurabilityInv'
<1>1. /\ pc' = "boot" /\ live' = {} /\ dimension' = [ns \in Namespaces |-> 0]
      /\ batch' = <<>> /\ victims' = <<>> /\ cursor' = 0 /\ channel' = <<>>
      /\ task' = [t \in Tasks |-> Idle] /\ serving' = FALSE
      /\ UNCHANGED <<snapshot, snapshot_sequence, acked>>
      /\ \E landing \in Landings(LinesInFlight) : Land(landing)
  BY DEF Crash, historyVars
<1>2. /\ WholeLines'
      /\ \A i, j \in 1..Len(wal') : i < j => wal'[i].seq < wal'[j].seq
      /\ \A u \in acked : OnDisk(u)'
  <2>1. CASE pc = "write" /\ Fits(Len(batch))
    <3>1. LinesInFlight = Stamped(batch, sequence) /\ Up
      BY <2>1 DEF LinesInFlight, Up
    <3>2. Numbered(LinesInFlight)
      BY <2>1, <3>1, NumberedLines
    <3>3. PICK k \in 0..Len(LinesInFlight) : Grown(LinesInFlight, k)
      BY <1>1, <3>2, CleanWrite DEF Numbered, DurabilityInv
    <3> QED
      BY <1>1, <3>1, <3>2, <3>3, GrowthKeeps
  <2>2. CASE pc = "evict_write" /\ Fits(Len(victims))
    <3>1. LinesInFlight = TombstoneLines(victims, sequence) /\ Up
      BY <2>2 DEF LinesInFlight, Up
    <3>2. Numbered(LinesInFlight)
      BY <2>2, <3>1, NumberedLines
    <3>3. PICK k \in 0..Len(LinesInFlight) : Grown(LinesInFlight, k)
      BY <1>1, <3>2, CleanWrite DEF Numbered, DurabilityInv
    <3> QED
      BY <1>1, <3>1, <3>2, <3>3, GrowthKeeps
  <2>3. CASE /\ ~(pc = "write" /\ Fits(Len(batch)))
             /\ ~(pc = "evict_write" /\ Fits(Len(victims)))
    <3>1. /\ eol' /\ Len(wal') = Len(wal)
          /\ \A i \in 1..Len(wal) : wal'[i] = wal[i]
          /\ \A u : OnDisk(u)' <=> OnDisk(u)
      BY <1>1, <2>3, NothingInFlight
    <3> QED
      BY <3>1
         DEF DurabilityInv, WholeLines, Ordered, AckedInsertsDurable
  <2> QED
    BY <2>1, <2>2, <2>3
<1>3. Ordered'
  BY <1>1, <1>2 DEF Ordered, Up
<1>4. RightDimensions'
  <2>1. \A u \in Uuids : NsOf[u] \in Namespaces
    BY NodeAssumption
  <2> QED
    BY <1>1, <2>1 DEF RightDimensions, Accepts
<1>5. NoTombstoneForAcked'
  BY <1>1, NothingOwed DEF DurabilityInv, Queued, Idle
<1>6. Quiescent'
  BY <1>1 DEF Quiescent
<1>7. /\ BatchLogged' /\ Replayed' /\ Snapshotted' /\ AckedInsertsSurvive'
      /\ AckedInsertsDurable'
  BY <1>1, <1>2 DEF BatchLogged, Replayed, Snapshotted, AckedInsertsSurvive,
     AckedInsertsDurable, Up
<1> QED
  BY <1>2, <1>3, <1>4, <1>5, <1>6, <1>7 DEF DurabilityInv

-----------------------------------------------------------------------------
(* The results. *)

\* The invariant holds on an empty directory.
LEMMA DurableInit ==
    ASSUME Init
    PROVE  DurabilityInv
<1>1. Len(wal) = 0 /\ Len(batch) = 0 /\ \A i : i \notin 1..0
  BY EmptySeq DEF Init
<1>2. WholeLines /\ Ordered /\ BatchLogged /\ Replayed /\ Snapshotted
  BY <1>1 DEF Init, WholeLines, Ordered, BatchLogged, Replayed, Snapshotted, Up
<1>3. RightDimensions
  BY NodeAssumption DEF Init, RightDimensions, Accepts
<1>4. NoTombstoneForAcked /\ AckedInsertsSurvive /\ AckedInsertsDurable
  BY DEF Init, NoTombstoneForAcked, AckedInsertsSurvive, AckedInsertsDurable
<1>5. Quiescent
  BY DEF Init, Quiescent
<1> QED
  BY <1>2, <1>3, <1>4, <1>5 DEF DurabilityInv

\* And nothing changes it when nothing happens.
LEMMA DurableStutter ==
    ASSUME DurabilityInv, UNCHANGED vars
    PROVE  DurabilityInv'
<1>1. /\ \A u : OnDisk(u)' <=> OnDisk(u)
      /\ \A n, u : OnDiskAfter(n, u)' <=> OnDiskAfter(n, u)
  BY SameDisk DEF vars, diskVars
<1>2. Replayed' /\ AckedInsertsDurable'
  BY <1>1 DEF DurabilityInv, Replayed, AckedInsertsDurable, vars, diskVars,
     indexVars, bootVars, historyVars
<1> QED
  BY <1>2 DEF DurabilityInv, WholeLines, Ordered, BatchLogged,
     RightDimensions, Accepts, NoTombstoneForAcked, PendingTombstone, Queued,
     Quiescent, Snapshotted, AckedInsertsSurvive, Up, vars, diskVars,
     indexVars, loopVars, bootVars, clientVars, historyVars

\* Every step of the node keeps it.
LEMMA DurableNext ==
    ASSUME CleanDisk, TypeInv, DurabilityInv, [Next]_vars
    PROVE  DurabilityInv'
BY DurableHandlers, DurableTasks, DurableReceive, DurableWrite, DurableApply,
   DurableEvict, DurableCompact, DurableBoot, DurableCrash, DurableStutter
   DEF Next, Flush

\* The inductive invariant itself, for a disk that tears no line.
THEOREM DurabilityInvariant ==
    ASSUME CleanDisk PROVE Spec => [](TypeInv /\ DurabilityInv)
<1>1. Init => TypeInv /\ DurabilityInv
  BY TypeInit, DurableInit
<1>2. TypeInv /\ DurabilityInv /\ [Next]_vars => (TypeInv /\ DurabilityInv)'
  BY TypeNext, DurableNext
<1> QED
  BY <1>1, <1>2, PTL DEF Spec

\* No crash point, failed write, failed snapshot or failed truncation loses an
\* insert that the flush task answered Ok: it is in the index whenever the node
\* is up, for any number of entries, requests, crashes and failures.
THEOREM AckedInsertsSurviveThm ==
    ASSUME CleanDisk PROVE Spec => []AckedInsertsSurvive
<1>1. TypeInv /\ DurabilityInv => AckedInsertsSurvive
  BY DEF DurabilityInv
<1> QED
  BY <1>1, DurabilityInvariant, PTL

\* At every moment snapshot and WAL together hold every such insert.
THEOREM AckedInsertsDurableThm ==
    ASSUME CleanDisk PROVE Spec => []AckedInsertsDurable
<1>1. TypeInv /\ DurabilityInv => AckedInsertsDurable
  BY DEF DurabilityInv
<1> QED
  BY <1>1, DurabilityInvariant, PTL

\* main's replay, with its watermark, arrives at what the disk means.
THEOREM RecoveredMatchesDiskThm ==
    ASSUME CleanDisk PROVE Spec => []RecoveredMatchesDisk
<1>1. TypeInv /\ DurabilityInv => RecoveredMatchesDisk
  BY DEF DurabilityInv, Replayed, RecoveredMatchesDisk, OnDisk, TypeInv, TypeOK
<1> QED
  BY <1>1, DurabilityInvariant, PTL

\* No sequence number is used twice, over restarts, failed writes and failed
\* truncations: next_sequence always starts above everything on disk.
THEOREM SequencesIncreaseThm ==
    ASSUME CleanDisk PROVE Spec => []SequencesIncrease
<1>1. TypeInv /\ DurabilityInv => SequencesIncrease
  BY DEF DurabilityInv, Ordered, SequencesIncrease
<1> QED
  BY <1>1, DurabilityInvariant, PTL

-----------------------------------------------------------------------------
(* Removals that are confirmed. *)

Batching == {"collect", "write", "written", "apply"}

\* Nothing that is under way brings the entry back.
Final(u) ==
    /\ ~OnDisk(u)
    /\ ~Queued(channel, "insert", u) /\ ~Queued(batch, "insert", u)
    /\ Up => u \notin live

\* The batch lives as long as the flush task works on it, victims are out of
\* the index, and a removal that is durable is final.
Confirmed ==
    /\ pc \notin Batching => batch = <<>>
    /\ \A i \in DOMAIN victims : victims[i] \notin live
    /\ \A u \in Uuids : removal[u] = "durable" => Final(u)

\* A step that confirms no removal, and brings no entry back.
LEMMA ConfirmedKept ==
    ASSUME Confirmed,
           pc' \notin Batching => batch' = <<>>,
           \A i \in DOMAIN victims' : victims'[i] \notin live',
           \A u \in Uuids : removal'[u] = "durable" =>
             /\ removal[u] = "durable"
             /\ OnDisk(u)' => OnDisk(u)
             /\ Queued(channel', "insert", u) \/ Queued(batch', "insert", u)
                  => Queued(channel, "insert", u) \/ Queued(batch, "insert", u)
             /\ Up' => u \notin live'
    PROVE  Confirmed'
<1> SUFFICES ASSUME NEW u \in Uuids, removal'[u] = "durable" PROVE Final(u)'
  BY DEF Confirmed, Batching
<1>1. Final(u)
  BY DEF Confirmed
<1> QED
  BY <1>1 DEF Final, Queued

\* The same for a step that leaves disk, batch, victims and pc alone.
LEMMA ConfirmedQuiet ==
    ASSUME Confirmed, Up, SameFiles, UNCHANGED <<pc, victims>>,
           live' \subseteq live,
           \A u \in Uuids : removal'[u] = "durable" =>
             /\ removal[u] = "durable"
             /\ Queued(channel', "insert", u) => Queued(channel, "insert", u)
             /\ Queued(batch', "insert", u) => Queued(batch, "insert", u),
           batch = <<>> => batch' = <<>>
    PROVE  Confirmed'
<1>1. \A u : OnDisk(u)' => OnDisk(u)
  BY SameDisk DEF SameFiles
<1>2. \A u \in Uuids : removal'[u] = "durable" => u \notin live'
  BY DEF Confirmed, Final
<1> QED
  BY <1>1, <1>2, ConfirmedKept DEF Confirmed

LEMMA ConfirmedHandlers ==
    ASSUME TypeInv, DurabilityInv, Confirmed, NEW h \in Handlers, Handler(h)
    PROVE  Confirmed'
<1>1. channel \in Seq(WalCommand) /\ h \in Tasks /\ batch \in Seq(WalCommand)
  BY SeqMonotonic DEF TypeInv, TypeOK, Tasks, WalCommand
<1>r. removal \in [Uuids -> {"none", "begun", "reported", "durable"}]
  BY DEF TypeInv, TypeOK
<1>2. ASSUME NEW u \in Uuids, SubmitInsert(h, u) PROVE Confirmed'
  <2>1. [op |-> "insert", uuid |-> u, from |-> h] \in WalCommand
    BY <1>1 DEF WalCommand, InsertRequest
  <2>2. \A v : Queued(channel', "insert", v) => Queued(channel, "insert", v) \/ v = u
    BY <1>1, <1>2, <2>1, QueuedAppend DEF SubmitInsert, IsFor
  <2>3. \A v \in Uuids : removal'[v] = "durable" => removal[v] = "durable" /\ v # u
    BY <1>2, <1>r DEF SubmitInsert
  <2>4. Up /\ SameFiles /\ UNCHANGED <<pc, victims, live, batch>>
    BY <1>2, HandlerUp DEF SubmitInsert, diskVars, indexVars, loopVars, SameFiles
  <2> QED
    BY <2>2, <2>3, <2>4, ConfirmedQuiet
<1>3. CASE SubmitCompact(h)
  <2>1. [op |-> "compact", uuid |-> Nil, from |-> h] \in WalCommand
    BY <1>1 DEF WalCommand, CompactRequest
  <2>2. \A v : Queued(channel', "insert", v) => Queued(channel, "insert", v)
    BY <1>1, <1>3, <2>1, QueuedAppend DEF SubmitCompact, IsFor
  <2>3. Up /\ SameFiles /\ UNCHANGED <<pc, victims, live, batch, removal>>
    BY <1>3, HandlerUp
       DEF SubmitCompact, diskVars, indexVars, loopVars, historyVars, SameFiles
  <2> QED
    BY <2>2, <2>3, ConfirmedQuiet
<1>4. ASSUME NEW u \in Uuids, DeleteResolve(h, u) PROVE Confirmed'
  <2>1. Up /\ SameFiles /\ UNCHANGED <<pc, victims, live, batch, channel, removal>>
    BY <1>4, HandlerUp
       DEF DeleteResolve, diskVars, indexVars, loopVars, historyVars, SameFiles
  <2> QED
    BY <2>1, ConfirmedQuiet
<1>5. ASSUME NEW S, BeginRemoval(h, S), Up, UNCHANGED <<diskVars, pc, loopVars, channel>>
      PROVE  Confirmed'
  <2>1. live' \subseteq live /\ \A u \in Uuids : removal'[u] = "durable" => removal[u] = "durable"
    BY <1>5 DEF BeginRemoval
  <2>2. SameFiles /\ UNCHANGED <<pc, victims, batch, channel>>
    BY <1>5 DEF diskVars, loopVars, SameFiles
  <2> QED
    BY <1>5, <2>1, <2>2, ConfirmedQuiet
<1>6. CASE DeleteRemove(h)
  BY <1>1, <1>5, <1>6, HandlerUp DEF DeleteRemove
<1>7. ASSUME NEW ns \in Namespaces, NEW S \in SUBSET Uuids, Invalidate(h, ns, S)
      PROVE  Confirmed'
  BY <1>5, <1>7, HandlerUp DEF Invalidate
<1>8. CASE Disconnect(h)
  <2>1. /\ channel' = Orphaned(channel, h) /\ batch' = Orphaned(batch, h) /\ Up
        /\ SameFiles /\ UNCHANGED <<pc, victims, live, removal>>
    BY <1>1, <1>8, HandlerUp DEF Disconnect, diskVars, indexVars, historyVars, SameFiles
  <2>2. \A op, u : /\ Queued(channel', op, u) <=> Queued(channel, op, u)
                   /\ Queued(batch', op, u) <=> Queued(batch, op, u)
    BY <1>1, <2>1, QueuedOrphaned
  <2>3. batch = <<>> => batch' = <<>>
    <3>1. batch \in Seq(InsertRequest) /\ Len(batch) \in Nat
      BY LenProperties DEF TypeInv, TypeOK
    <3>2. Len(batch') = Len(batch) /\ batch' \in Seq(InsertRequest)
      BY <2>1, <3>1, OrphanedType
    <3> QED
      BY <3>1, <3>2, EmptySeq
  <2> QED
    BY <2>1, <2>2, <2>3, ConfirmedQuiet
<1> QED
  BY <1>2, <1>3, <1>4, <1>6, <1>7, <1>8 DEF Handler

LEMMA ConfirmedTasks ==
    ASSUME TypeInv, DurabilityInv, Confirmed,
           \/ Listen \/ ReaperSweep
           \/ \E t \in Tasks : SendTombstone(t)
           \/ \E u \in TtlUuids : Expire(u)
    PROVE  Confirmed'
<1>1. channel \in Seq(WalCommand)
      /\ \A t \in Tasks : task[t].todo \in SUBSET Uuids
  BY DEF TypeInv, TypeOK, TaskState
<1>2. CASE Listen
  <2>1. Up /\ SameFiles /\ UNCHANGED <<pc, victims, live, batch, channel, removal>>
    BY <1>2 DEF Listen, Up, diskVars, indexVars, loopVars, historyVars, SameFiles
  <2> QED
    BY <2>1, ConfirmedQuiet
<1>3. CASE ReaperSweep
  <2>1. live' \subseteq live /\ \A u \in Uuids : removal'[u] = "durable" => removal[u] = "durable"
    BY <1>3 DEF ReaperSweep, BeginRemoval
  <2>2. Up /\ SameFiles /\ UNCHANGED <<pc, victims, batch, channel>>
    BY <1>3, HandlerUp DEF ReaperSweep, diskVars, loopVars, SameFiles
  <2> QED
    BY <2>1, <2>2, ConfirmedQuiet
<1>4. ASSUME NEW t \in Tasks, SendTombstone(t) PROVE Confirmed'
  <2>1. PICK u \in task[t].todo :
          channel' = Append(channel, [op |-> "tombstone", uuid |-> u, from |-> t])
    BY <1>4 DEF SendTombstone
  <2>2. [op |-> "tombstone", uuid |-> u, from |-> t] \in WalCommand
    BY <1>1, <2>1 DEF WalCommand, InsertRequest
  <2>3. \A v : Queued(channel', "insert", v) => Queued(channel, "insert", v)
    BY <1>1, <2>1, <2>2, QueuedAppend DEF IsFor
  <2>4. Up /\ SameFiles /\ UNCHANGED <<pc, victims, live, batch, removal>>
    BY <1>4, HandlerUp
       DEF SendTombstone, diskVars, indexVars, loopVars, historyVars, SameFiles
  <2> QED
    BY <2>3, <2>4, ConfirmedQuiet
<1>5. ASSUME NEW u \in TtlUuids, Expire(u) PROVE Confirmed'
  <2>1. SameFiles /\ UNCHANGED <<pc, victims, live, batch, channel, removal>>
    BY <1>5 DEF Expire, diskVars, indexVars, loopVars, clientVars, historyVars, SameFiles
  <2>2. \A v : OnDisk(v)' => OnDisk(v)
    BY <2>1, SameDisk DEF SameFiles
  <2>3. \A v \in Uuids : removal'[v] = "durable" /\ Up' => v \notin live'
    BY <2>1 DEF Confirmed, Final, Up
  <2> QED
    BY <2>1, <2>2, <2>3, ConfirmedKept DEF Confirmed
<1> QED
  BY <1>2, <1>3, <1>4, <1>5

LEMMA ConfirmedReceive ==
    ASSUME TypeInv, DurabilityInv, Confirmed, RecvFirst \/ CollectMore \/ CloseBatch
    PROVE  Confirmed'
<1>1. channel \in Seq(WalCommand) /\ batch \in Seq(WalCommand)
  BY SeqMonotonic DEF TypeInv, TypeOK, WalCommand
<1>2. /\ SameFiles /\ UNCHANGED <<victims, live, removal>> /\ Up
      /\ pc' \in {"pending"} \cup Batching /\ pc \in {"recv", "collect"}
      /\ pc' = "pending" => pc = "recv" /\ batch' = batch
  BY DEF RecvFirst, CollectMore, CloseBatch, diskVars, indexVars, loopVars, historyVars,
         SameFiles, Up, Batching
<1>3. ASSUME channel # <<>>
      PROVE  /\ Head(channel) \in WalCommand
             /\ \A u : Queued(Tail(channel), "insert", u) => Queued(channel, "insert", u)
             /\ \A u : IsFor(Head(channel), "insert", u) => Queued(channel, "insert", u)
  BY <1>1, <1>3, QueuedTail, HeadTailProperties
<1>4. \A u : Queued(channel', "insert", u) \/ Queued(batch', "insert", u)
               => Queued(channel, "insert", u) \/ Queued(batch, "insert", u)
  <2>1. CASE RecvFirst
    BY <1>3, <2>1 DEF RecvFirst, Queued
  <2>2. CASE CollectMore
    <3>1. channel # <<>> /\ channel' = Tail(channel)
      BY <2>2 DEF CollectMore
    <3>2. CASE batch' = batch
      BY <1>3, <3>1, <3>2
    <3>3. CASE batch' = Append(batch, Head(channel))
      BY <1>1, <1>3, <3>1, <3>3, QueuedAppend
    <3> QED
      BY <2>2, <3>2, <3>3 DEF CollectMore
  <2>3. CASE CloseBatch
    BY <2>3 DEF CloseBatch, loopVars, clientVars
  <2> QED
    BY <2>1, <2>2, <2>3
<1>5. \A u : OnDisk(u)' => OnDisk(u)
  BY <1>2, SameDisk DEF SameFiles
<1>6. pc' \notin Batching => batch' = <<>>
  BY <1>2 DEF Confirmed, Batching
<1>7. \A u \in Uuids : removal'[u] = "durable" => u \notin live'
  BY <1>2 DEF Confirmed, Final
<1> QED
  BY <1>2, <1>4, <1>5, <1>6, <1>7, ConfirmedKept DEF Confirmed

\* The lines of a batch ask for what its requests ask for; those of the victims
\* are tombstones.
LEMMA LinesAre ==
    ASSUME TypeInv, NEW u, NEW op
    PROVE  /\ (\E i \in 1..Len(batch) : IsFor(Stamped(batch, sequence)[i], op, u))
                <=> Queued(batch, op, u)
           /\ \A i \in 1..Len(victims) :
                /\ ~IsFor(TombstoneLines(victims, sequence)[i], "insert", u)
                /\ IsFor(TombstoneLines(victims, sequence)[i], "tombstone", u) <=> victims[i] = u
           /\ DOMAIN batch = 1..Len(batch) /\ DOMAIN victims = 1..Len(victims)
<1>1. DOMAIN batch = 1..Len(batch) /\ DOMAIN victims = 1..Len(victims)
  BY LenProperties DEF TypeInv, TypeOK
<1>2. \A i \in 1..Len(batch) : IsFor(Stamped(batch, sequence)[i], op, u) <=> IsFor(batch[i], op, u)
  BY DEF Stamped, IsFor
<1>3. \A i \in 1..Len(victims) :
        /\ ~IsFor(TombstoneLines(victims, sequence)[i], "insert", u)
        /\ IsFor(TombstoneLines(victims, sequence)[i], "tombstone", u) <=> victims[i] = u
  BY DEF TombstoneLines, IsFor
<1> QED
  BY <1>1, <1>2, <1>3 DEF Queued

LEMMA ConfirmedWrite ==
    ASSUME CleanDisk, TypeInv, DurabilityInv, Confirmed,
           WriteBatch \/ WriteBatchFails \/ SequenceOverflow
    PROVE  Confirmed'
<1>1. /\ pc = "write" /\ Up /\ victims' = victims /\ live' = live /\ channel' = channel
      /\ UNCHANGED <<snapshot, snapshot_sequence>>
  BY DEF WriteBatch, WriteBatchFails, SequenceOverflow, RejectBatch, indexVars, clientVars, Up
<1>b. \/ batch' = batch /\ pc' = "written"
      \/ batch' = <<>> /\ pc' = "evict"
  BY DEF WriteBatch, WriteBatchFails, SequenceOverflow, RejectBatch
<1>2. \A u \in Uuids : removal'[u] = "durable" => removal[u] = "durable"
  BY DEF WriteBatch, WriteBatchFails, SequenceOverflow, RejectBatch, historyVars
<1>3. ASSUME NEW u \in Uuids, removal[u] = "durable" PROVE OnDisk(u)' => OnDisk(u)
  <2>1. ~Queued(batch, "insert", u)
    BY <1>3 DEF Confirmed, Final
  <2>2. CASE WriteBatch \/ WriteBatchFails
    <3> DEFINE lines == Stamped(batch, sequence)
    <3>1. Numbered(lines) /\ Len(lines) = Len(batch) /\ Len(batch) \in Nat
      BY <2>2, NumberedLines, LenProperties DEF WriteBatch, WriteBatchFails, TypeInv, TypeOK
    <3>2. PICK k \in 0..Len(lines) : Grown(lines, k)
      <4>1. Len(lines) \in 0..Len(lines)
        BY <3>1
      <4> QED
        BY <2>2, <3>1, <4>1, CleanWrite DEF WriteBatch, WriteBatchFails, Numbered, DurabilityInv
    <3>3. \A i \in 1..k : ~IsFor(lines[i], "insert", u)
      <4>1. \A i \in 1..k : i \in 1..Len(batch)
        BY <3>1, <3>2
      <4> QED
        BY <2>1, <4>1, LinesAre
    <3> HIDE DEF lines
    <3> QED
      BY <1>1, <3>1, <3>2, <3>3, GrowthSays
  <2>3. CASE SequenceOverflow
    BY <1>1, <2>3, SameDisk DEF SequenceOverflow
  <2> QED
    BY <2>2, <2>3
<1>4. pc' \notin Batching => batch' = <<>>
  BY <1>b DEF Batching
<1>5. \A u : Queued(batch', "insert", u) => Queued(batch, "insert", u)
  BY <1>b DEF Queued
<1>6. \A u \in Uuids : removal'[u] = "durable" => u \notin live'
  BY <1>1, <1>2 DEF Confirmed, Final
<1> QED
  BY <1>1, <1>2, <1>3, <1>4, <1>5, <1>6, ConfirmedKept DEF Confirmed

LEMMA ConfirmedApply ==
    ASSUME CleanDisk, TypeInv, DurabilityInv, Confirmed, ApplyInsert \/ ApplyTombstone
    PROVE  Confirmed'
<1>1. /\ batch \in Seq(InsertRequest) /\ batch # <<>> /\ Len(batch) \in Nat \ {0}
      /\ Head(batch) \in InsertRequest
      /\ Tail(batch) \in Seq(InsertRequest) /\ Len(Tail(batch)) = Len(batch) - 1
      /\ channel \in Seq(WalCommand)
      /\ removal \in [Uuids -> {"none", "begun", "reported", "durable"}]
  BY HeadTailProperties, LenProperties, EmptySeq
     DEF TypeInv, TypeOK, Shape, ApplyInsert, ApplyTombstone
<1>u. PICK u \in Uuids : u = Head(batch).uuid
  BY <1>1 DEF InsertRequest
<1>2. /\ pc \in {"written", "apply"} /\ Up /\ victims' = <<>> /\ channel' = channel
      /\ SameFiles /\ batch' = Tail(batch)
      /\ pc' = IF Len(batch) = 1 THEN "evict" ELSE "apply"
  BY DEF ApplyInsert, ApplyTombstone, Up, DurabilityInv, Quiescent, diskVars, SameFiles
<1>3. pc' \notin Batching => batch' = <<>>
  BY <1>1, <1>2, EmptySeq DEF Batching
<1>4. \A op, v : Queued(batch, op, v) <=> Queued(batch', op, v) \/ IsFor(Head(batch), op, v)
  BY <1>1, <1>2, QueuedTail
<1>5. \A v : OnDisk(v)' <=> OnDisk(v)
  BY <1>2, SameDisk DEF SameFiles
<1>6. \A i \in DOMAIN victims' : victims'[i] \notin live'
  BY <1>2
<1>7. CASE ApplyInsert
  <2>1. \/ live' = live \cup {u} /\ removal' = [removal EXCEPT ![u] = "none"]
        \/ live' = live /\ removal' = removal
    BY <1>u, <1>7 DEF ApplyInsert, indexVars, historyVars
  <2>2. \A v \in Uuids : removal'[v] = "durable" => removal[v] = "durable" /\ v \notin live'
    BY <1>1, <1>2, <2>1 DEF Confirmed, Final
  <2> QED
    BY <1>2, <1>3, <1>4, <1>5, <1>6, <2>2, ConfirmedKept
<1>8. CASE ApplyTombstone
  <2>1. /\ live' = live \ {u} /\ Head(batch).op = "tombstone"
        /\ removal' = [removal EXCEPT ![u] =
                         IF Queued(channel \o Tail(batch), "insert", u) THEN @ ELSE "durable"]
    BY <1>u, <1>8 DEF ApplyTombstone
  <2>2. Queued(channel, "insert", u) \/ Queued(Tail(batch), "insert", u)
          => Queued(channel \o Tail(batch), "insert", u)
    <3>1. Tail(batch) \in Seq(WalCommand)
      BY <1>1, SeqMonotonic DEF WalCommand
    <3> DEFINE c == channel
               b == Tail(batch)
    <3>2. /\ Len(c) \in Nat /\ Len(b) \in Nat
          /\ DOMAIN c = 1..Len(c) /\ DOMAIN b = 1..Len(b)
          /\ DOMAIN (c \o b) = 1..(Len(c) + Len(b))
          /\ \A i \in 1..(Len(c) + Len(b)) :
               (c \o b)[i] = IF i <= Len(c) THEN c[i] ELSE b[i - Len(c)]
      BY <1>1, <3>1, ConcatProperties, LenProperties
    <3> HIDE DEF c, b
    <3>3. ASSUME NEW i \in 1..Len(c) PROVE i \in 1..(Len(c) + Len(b)) /\ (c \o b)[i] = c[i]
      BY <3>2
    <3>4. ASSUME NEW i \in 1..Len(b)
          PROVE  Len(c) + i \in 1..(Len(c) + Len(b)) /\ (c \o b)[Len(c) + i] = b[i]
      <4>1. /\ Len(c) + i \in 1..(Len(c) + Len(b)) /\ ~(Len(c) + i <= Len(c))
            /\ (Len(c) + i) - Len(c) = i
        BY <3>2
      <4> QED
        BY <3>2, <4>1
    <3>5. Queued(c, "insert", u) \/ Queued(b, "insert", u) => Queued(c \o b, "insert", u)
      BY <3>2, <3>3, <3>4 DEF Queued
    <3> QED
      BY <3>5 DEF c, b
  <2>3. ASSUME NEW v \in Uuids, removal'[v] = "durable" PROVE Final(v)'
    <3>1. CASE removal[v] = "durable"
      <4>1. Final(v)
        BY <3>1 DEF Confirmed
      <4> QED
        BY <1>2, <1>4, <1>5, <2>1, <4>1 DEF Final
    <3>2. CASE removal[v] # "durable"
      <4>1. v = u /\ ~Queued(channel \o Tail(batch), "insert", u)
        BY <1>1, <2>1, <2>3, <3>2
      <4>2. ~Queued(channel, "insert", u) /\ ~Queued(Tail(batch), "insert", u)
        BY <2>2, <4>1
      <4>3. ~OnDisk(u)
        BY <1>2, <1>u, <2>1, <4>2, HeadLogged
      <4> QED
        BY <1>2, <1>5, <2>1, <4>1, <4>2, <4>3 DEF Final
    <3> QED
      BY <3>1, <3>2
  <2> QED
    BY <1>3, <1>6, <2>3 DEF Confirmed, Batching
<1> QED
  BY <1>7, <1>8

LEMMA ConfirmedEvict ==
    ASSUME CleanDisk, TypeInv, DurabilityInv, Confirmed,
           EvictOne \/ EvictDone \/ EvictWrite \/ EvictWriteFails \/ EvictOverflow
    PROVE  Confirmed'
<1>1. /\ pc \in {"evict", "evicting", "evict_write"} /\ Up /\ UNCHANGED <<channel, batch>>
      /\ pc' \in {"evicting", "autocompact", "evict_write"} /\ Up'
      /\ UNCHANGED <<snapshot, snapshot_sequence>> /\ victims \in Seq(Uuids)
      /\ removal \in [Uuids -> {"none", "begun", "reported", "durable"}]
      /\ live \in SUBSET Uuids
  BY DEF EvictOne, EvictDone, EvictWrite, EvictWriteFails, EvictOverflow, Up, clientVars,
         loopVars, diskVars, TypeInv, TypeOK
<1>2. pc \notin Batching /\ pc' \notin Batching /\ batch = <<>> /\ batch' = <<>>
  BY <1>1 DEF Confirmed, Batching
<1>3. CASE EvictOne
  <2>1. PICK u \in live : /\ live' = live \ {u} /\ victims' = Append(victims, u)
                          /\ removal' = [removal EXCEPT ![u] = "begun"]
    BY <1>3 DEF EvictOne, In
  <2>2. \A i \in DOMAIN victims' : victims'[i] = u \/ (i \in DOMAIN victims /\ victims'[i] = victims[i])
    <3>1. /\ Len(victims) \in Nat /\ DOMAIN victims = 1..Len(victims)
          /\ DOMAIN victims' = 1..(Len(victims) + 1)
          /\ \A j \in 1..Len(victims) : victims'[j] = victims[j]
          /\ victims'[Len(victims) + 1] = u
      BY <1>1, <2>1, AppendProperties, LenProperties
    <3> QED
      BY <3>1
  <2>3. \A i \in DOMAIN victims' : victims'[i] \notin live'
    BY <2>1, <2>2 DEF Confirmed
  <2>4. \A v \in Uuids : removal'[v] = "durable" => removal[v] = "durable" /\ v \notin live'
    BY <1>1, <2>1 DEF Confirmed, Final
  <2>5. \A v : OnDisk(v)' <=> OnDisk(v)
    BY <1>3, SameDisk DEF EvictOne, diskVars
  <2> QED
    BY <1>1, <1>2, <2>3, <2>4, <2>5, ConfirmedKept
<1>4. ASSUME UNCHANGED <<live, removal, wal>>, victims' \in {victims, <<>>} PROVE Confirmed'
  <2>1. \A v : OnDisk(v)' <=> OnDisk(v)
    BY <1>1, <1>4, SameDisk
  <2>2. \A i \in DOMAIN victims' : victims'[i] \notin live'
    BY <1>4 DEF Confirmed
  <2>3. \A v \in Uuids : removal'[v] = "durable" => v \notin live'
    BY <1>1, <1>4 DEF Confirmed, Final
  <2> QED
    BY <1>1, <1>2, <1>4, <2>1, <2>2, <2>3, ConfirmedKept
<1>5. CASE EvictDone \/ EvictOverflow
  BY <1>4, <1>5 DEF EvictDone, EvictOverflow, diskVars, indexVars, loopVars, historyVars
<1>6. ASSUME Fits(Len(victims)), NEW k \in 0..Len(victims),
             Grown(TombstoneLines(victims, sequence), k),
             live' = live, victims' = <<>>,
             \A v \in Uuids : removal'[v] = "durable" =>
               \/ removal[v] = "durable"
               \/ /\ k = Len(victims) /\ ~Queued(channel, "insert", v)
                  /\ \E i \in DOMAIN victims : victims[i] = v
      PROVE  Confirmed'
  <2> DEFINE lines == TombstoneLines(victims, sequence)
  <2>1. Numbered(lines) /\ Len(lines) = Len(victims) /\ Len(victims) \in Nat
    BY <1>6, NumberedLines, LenProperties DEF TypeInv, TypeOK
  <2>2. ASSUME NEW v \in Uuids, removal'[v] = "durable" PROVE Final(v)'
    <3>1. \A i \in 1..k : i \in 1..Len(victims)
      BY <2>1
    <3>2. \A i \in 1..k : ~IsFor(lines[i], "insert", v)
      BY <3>1, LinesAre
    <3>3. \A i \in 1..k : IsFor(lines[i], "tombstone", v) <=> victims[i] = v
      BY <3>1, LinesAre
    <3>4. DOMAIN victims = 1..Len(victims)
      BY LinesAre
    <3> HIDE DEF lines
    <3>5. k \in 0..Len(lines) /\ Grown(lines, k)
      BY <1>6, <2>1 DEF lines
    <3>6. OnDisk(v)' => OnDisk(v) /\ \A i \in 1..k : ~IsFor(lines[i], "tombstone", v)
      BY <1>1, <2>1, <3>2, <3>5, GrowthSays
    <3>7. CASE removal[v] = "durable"
      <4>1. Final(v)
        BY <3>7 DEF Confirmed
      <4> QED
        BY <1>1, <1>6, <3>6, <4>1 DEF Final
    <3>8. CASE /\ k = Len(victims) /\ ~Queued(channel, "insert", v)
               /\ \E i \in DOMAIN victims : victims[i] = v
      <4>1. ~OnDisk(v)'
        BY <3>3, <3>4, <3>6, <3>8
      <4>2. v \notin live'
        BY <1>6, <3>8 DEF Confirmed
      <4>3. ~Queued(channel', "insert", v) /\ ~Queued(batch', "insert", v)
        BY <1>1, <1>2, <3>8 DEF Queued
      <4> QED
        BY <4>1, <4>2, <4>3 DEF Final
    <3> QED
      BY <1>6, <2>2, <3>7, <3>8
  <2> QED
    BY <1>2, <1>6, <2>2 DEF Confirmed, Batching
<1>7. CASE EvictWrite
  <2> DEFINE lines == TombstoneLines(victims, sequence)
  <2>1. Numbered(lines) /\ Len(lines) = Len(victims) /\ Len(victims) \in Nat
    BY <1>7, NumberedLines, LenProperties DEF EvictWrite, TypeInv, TypeOK
  <2>2. Grown(lines, Len(victims))
    BY <1>7, <2>1, CleanWrite DEF EvictWrite, Numbered, DurabilityInv
  <2>3. /\ Len(victims) \in 0..Len(victims) /\ Fits(Len(victims)) /\ live' = live
        /\ victims' = <<>>
    BY <1>7, <2>1 DEF EvictWrite, indexVars
  <2>4. \A v \in Uuids : removal'[v] = "durable" =>
          \/ removal[v] = "durable"
          \/ ~Queued(channel, "insert", v) /\ \E i \in DOMAIN victims : victims[i] = v
    BY <1>7 DEF EvictWrite
  <2> QED
    BY <1>6, <2>2, <2>3, <2>4
<1>8. CASE EvictWriteFails
  <2> DEFINE lines == TombstoneLines(victims, sequence)
  <2>1. Numbered(lines) /\ Len(lines) = Len(victims)
    BY <1>8, NumberedLines DEF EvictWriteFails
  <2>2. PICK k \in 0..Len(victims) : Grown(lines, k)
    BY <1>8, <2>1, CleanWrite DEF EvictWriteFails, Numbered, DurabilityInv
  <2>3. Fits(Len(victims)) /\ live' = live /\ victims' = <<>> /\ removal' = removal
    BY <1>8 DEF EvictWriteFails, indexVars, historyVars
  <2> QED
    BY <1>6, <2>2, <2>3
<1> QED
  BY <1>3, <1>5, <1>7, <1>8

\* Between rename and truncation the snapshot alone decides.
LEMMA TruncationSays ==
    ASSUME TypeInv, DurabilityInv, pc = "truncate", wal' \in {wal, <<>>},
           UNCHANGED <<snapshot, snapshot_sequence>>, NEW u
    PROVE  OnDisk(u)' <=> OnDisk(u)
<1>1. /\ sequence \in Nat /\ snapshot_sequence \in Nat
      /\ \A i \in 1..Len(wal) : wal[i].seq \in Nat
  BY NodeAssumption DEF TypeInv, TypeOK, DurabilityInv, WholeLines, WalEntry
<1>2. \A i \in 1..Len(wal) : ~InTail(i)
  BY <1>1 DEF InTail, DurabilityInv, Snapshotted, Ordered, Up
<1>3. OnDisk(u) <=> u \in snapshot
  BY <1>2 DEF OnDisk, OnDiskAfter
<1>4. CASE wal' = wal
  BY <1>4, SameDisk
<1>5. CASE wal' = <<>>
  <2>1. Len(wal') = 0 /\ \A i : i \notin 1..0
    BY <1>5, EmptySeq
  <2>2. OnDisk(u)' <=> u \in snapshot
    BY <2>1 DEF OnDisk, OnDiskAfter
  <2> QED
    BY <1>3, <2>2
<1> QED
  BY <1>4, <1>5

\* Right after the rename the disk says what the index holds.
LEMMA SnapshotSays ==
    ASSUME TypeInv, DurabilityInv, WriteSnapshot, NEW u
    PROVE  OnDisk(u)' <=> u \in live
<1>1. /\ sequence \in Nat /\ \A i \in 1..Len(wal) : wal[i].seq \in Nat
  BY NodeAssumption DEF TypeInv, TypeOK, DurabilityInv, WholeLines, WalEntry
<1>2. snapshot' = live /\ snapshot_sequence' = sequence /\ wal' = wal
  BY DEF WriteSnapshot
<1>3. \A i \in 1..Len(wal) : wal[i].seq <= sequence
  BY DEF DurabilityInv, Ordered, WriteSnapshot, Up
<1>4. \A i \in 1..Len(wal) : ~InTail(i)'
  BY <1>1, <1>2, <1>3 DEF InTail
<1> QED
  BY <1>2, <1>4 DEF OnDisk, OnDiskAfter

LEMMA ConfirmedCompact ==
    ASSUME TypeInv, DurabilityInv, Confirmed,
           AutoCompact \/ RunPending \/ WriteSnapshot \/ WriteSnapshotFails
              \/ Truncate \/ TruncateFails
    PROVE  Confirmed'
<1>1. /\ pc \in {"autocompact", "pending", "snapshot", "truncate"} /\ Up
      /\ UNCHANGED <<live, removal, victims, channel, batch>>
  BY DEF AutoCompact, RunPending, WriteSnapshot, WriteSnapshotFails, Truncate,
     TruncateFails, Up, indexVars, loopVars, clientVars, historyVars
<1>2. batch' = <<>>
  BY <1>1 DEF Confirmed, Batching
<1>3. \A u \in Uuids : removal[u] = "durable" => u \notin live
  BY <1>1 DEF Confirmed, Final
<1>4. ASSUME NEW u \in Uuids, removal[u] = "durable" PROVE OnDisk(u)' => OnDisk(u)
  <2>1. CASE WriteSnapshot
    BY <1>3, <1>4, <2>1, SnapshotSays
  <2>2. CASE Truncate \/ TruncateFails
    BY <2>2, TruncationSays DEF Truncate, TruncateFails
  <2>3. CASE AutoCompact \/ RunPending \/ WriteSnapshotFails
    BY <2>3, SameDisk DEF AutoCompact, RunPending, WriteSnapshotFails, diskVars
  <2> QED
    BY <2>1, <2>2, <2>3
<1> QED
  BY <1>1, <1>2, <1>3, <1>4, ConfirmedKept DEF Confirmed

\* Replay rebuilds what the disk says, and the disk no longer has the entry.
LEMMA ConfirmedBoot ==
    ASSUME CleanDisk, TypeInv, DurabilityInv, Confirmed, Boot
    PROVE  Confirmed'
<1>1. /\ pc \in {"boot", "replay"} /\ SameFiles /\ UNCHANGED <<victims, channel, batch>>
      /\ pc' \in {"replay", "recv"}
  BY NothingRefused DEF DurabilityInv, Boot, LoadSnapshot, LoadSnapshotFails, ReplayLine, StartupExpiry, diskVars,
         loopVars, clientVars, SameFiles
<1>2. batch' = <<>> /\ victims' = <<>> /\ \A u : OnDisk(u)' => OnDisk(u)
  BY <1>1, SameDisk DEF Confirmed, Batching, DurabilityInv, Quiescent, SameFiles
<1>3. CASE StartupExpiry
  <2>1. \A u \in Uuids : u \in live <=> OnDisk(u)
    BY <1>3 DEF StartupExpiry, DurabilityInv, Replayed, OnDisk
  <2>2. live' \subseteq live /\ \A u \in Uuids : removal'[u] = "durable" => removal[u] = "durable"
    BY <1>3 DEF StartupExpiry, BeginRemoval
  <2>3. \A u \in Uuids : removal'[u] = "durable" => u \notin live'
    BY <2>1, <2>2 DEF Confirmed, Final
  <2> QED
    BY <1>1, <1>2, <2>2, <2>3, ConfirmedKept
<1>4. CASE LoadSnapshot \/ LoadSnapshotFails \/ ReplayLine
  <2>1. ~Up' /\ removal' = removal
    BY <1>4 DEF LoadSnapshot, LoadSnapshotFails, ReplayLine, Up, historyVars
  <2> QED
    BY <1>1, <1>2, <2>1, ConfirmedKept
<1> QED
  BY <1>3, <1>4, NothingRefused DEF Boot, DurabilityInv

\* A crash lands no line that brings the entry back.
LEMMA ConfirmedCrash ==
    ASSUME CleanDisk, TypeInv, DurabilityInv, Confirmed, Crash
    PROVE  Confirmed'
<1>1. /\ pc' = "boot" /\ batch' = <<>> /\ victims' = <<>> /\ channel' = <<>> /\ removal' = removal
      /\ UNCHANGED <<snapshot, snapshot_sequence>>
      /\ \E landing \in Landings(LinesInFlight) : Land(landing)
  BY DEF Crash, historyVars
<1>2. ASSUME NEW u \in Uuids, removal[u] = "durable" PROVE OnDisk(u)' => OnDisk(u)
  <2>1. ASSUME NEW lines, lines = LinesInFlight, Up, Numbered(lines),
               \A i \in 1..Len(lines) : ~IsFor(lines[i], "insert", u)
        PROVE  OnDisk(u)' => OnDisk(u)
    <3>1. PICK k \in 0..Len(lines) : Grown(lines, k)
      BY <1>1, <2>1, CleanWrite DEF Numbered, DurabilityInv
    <3>2. Len(lines) \in Nat
      BY <2>1, LenProperties DEF Numbered
    <3>3. \A i \in 1..k : ~IsFor(lines[i], "insert", u)
      BY <2>1, <3>1, <3>2
    <3> QED
      BY <1>1, <2>1, <3>1, <3>3, GrowthSays
  <2>2. CASE pc = "write" /\ Fits(Len(batch))
    <3>1. LinesInFlight = Stamped(batch, sequence) /\ Up
      BY <2>2 DEF LinesInFlight, Up
    <3>2. ~Queued(batch, "insert", u)
      BY <1>2 DEF Confirmed, Final
    <3>3. /\ Numbered(LinesInFlight) /\ Len(LinesInFlight) = Len(batch)
          /\ \A i \in 1..Len(batch) : ~IsFor(LinesInFlight[i], "insert", u)
      BY <2>2, <3>1, <3>2, NumberedLines, LinesAre
    <3> QED
      BY <2>1, <3>1, <3>3
  <2>3. CASE pc = "evict_write" /\ Fits(Len(victims))
    <3>1. LinesInFlight = TombstoneLines(victims, sequence) /\ Up
      BY <2>3 DEF LinesInFlight, Up
    <3>2. /\ Numbered(LinesInFlight) /\ Len(LinesInFlight) = Len(victims)
          /\ \A i \in 1..Len(victims) : ~IsFor(LinesInFlight[i], "insert", u)
      BY <2>3, <3>1, NumberedLines, LinesAre
    <3> QED
      BY <2>1, <3>1, <3>2
  <2>4. CASE /\ ~(pc = "write" /\ Fits(Len(batch)))
             /\ ~(pc = "evict_write" /\ Fits(Len(victims)))
    BY <1>1, <2>4, NothingInFlight
  <2> QED
    BY <2>2, <2>3, <2>4
<1> QED
  BY <1>1, <1>2, ConfirmedKept DEF Up, Queued

LEMMA ConfirmedInit ==
    ASSUME Init
    PROVE  Confirmed
BY DEF Init, Confirmed

LEMMA ConfirmedStutter ==
    ASSUME Confirmed, UNCHANGED vars
    PROVE  Confirmed'
<1>1. \A u : OnDisk(u)' <=> OnDisk(u)
  BY SameDisk DEF vars, diskVars
<1> QED
  BY <1>1 DEF Confirmed, Final, Up, Queued, vars, indexVars, loopVars, clientVars, historyVars

LEMMA ConfirmedNext ==
    ASSUME CleanDisk, TypeInv, DurabilityInv, Confirmed, [Next]_vars
    PROVE  Confirmed'
BY ConfirmedHandlers, ConfirmedTasks, ConfirmedReceive, ConfirmedWrite, ConfirmedApply,
   ConfirmedEvict, ConfirmedCompact, ConfirmedBoot, ConfirmedCrash, ConfirmedStutter
   DEF Next, Flush

\* The disk-side half of every removal argument, as an invariant of the node.
THEOREM ConfirmedInvariant ==
    ASSUME CleanDisk PROVE Spec => [](TypeInv /\ DurabilityInv /\ Confirmed)
<1>1. Init => TypeInv /\ DurabilityInv /\ Confirmed
  BY TypeInit, DurableInit, ConfirmedInit
<1>2. TypeInv /\ DurabilityInv /\ Confirmed /\ [Next]_vars
        => (TypeInv /\ DurabilityInv /\ Confirmed)'
  BY TypeNext, DurableNext, ConfirmedNext
<1> QED
  BY <1>1, <1>2, PTL DEF Spec

\* A delete, invalidation, expiry or eviction whose tombstone reached the disk
\* is undone by no restart, however late the crash and whatever was queued.
THEOREM ConfirmedRemovalsSurviveThm ==
    ASSUME CleanDisk PROVE Spec => []ConfirmedRemovalsSurvive
<1>1. TypeInv /\ DurabilityInv /\ Confirmed => ConfirmedRemovalsSurvive
  BY DEF Confirmed, Final, ConfirmedRemovalsSurvive
<1> QED
  BY <1>1, ConfirmedInvariant, PTL

-----------------------------------------------------------------------------
(* The refinement: every step of the node is one its clients were promised. *)

Gone == {u \in Uuids : removal[u] = "durable"}

\* A step of the node, seen by its clients.
Kept == [Promise!Next]_(Promise!vars)

\* The clients see nothing.
LEMMA SeenNothing ==
    ASSUME Up' = Up, Up => live' = live, UNCHANGED <<acked, removal>>
    PROVE  Kept
<1>1. UNCHANGED Promise!vars
  BY DEF Promise!vars
<1> QED
  BY <1>1 DEF Kept

\* An entry may come back.
LEMMA SeenOffer ==
    ASSUME Up, Up', NEW u \in Uuids, UNCHANGED <<live, acked>>, Gone' = Gone \ {u}
    PROVE  Kept
<1>1. Promise!Offer(u)
  BY DEF Promise!Offer, Gone
<1> QED
  BY <1>1 DEF Kept, Promise!Next

LEMMA SeenStore ==
    ASSUME Up, Up', NEW u \in Uuids, live' = live \cup {u},
           acked' \in {acked, acked \cup {u}}, Gone' = Gone \ {u}
    PROVE  Kept
<1>1. Promise!Store(u)
  BY DEF Promise!Store, Gone
<1> QED
  BY <1>1 DEF Kept, Promise!Next

LEMMA SeenRemove ==
    ASSUME Up, Up', NEW S \in SUBSET Uuids, live' = live \ S, acked' = acked \ S, Gone' = Gone
    PROVE  Kept
<1>1. Promise!Remove(S)
  BY DEF Promise!Remove, Gone
<1> QED
  BY <1>1 DEF Kept, Promise!Next

LEMMA SeenConfirm ==
    ASSUME Up, Up', NEW S \in SUBSET Uuids, S \cap acked = {}, live' = live \ S,
           acked' = acked, Gone' = Gone \cup S
    PROVE  Kept
<1>1. Promise!Confirm(S)
  BY DEF Promise!Confirm, Gone
<1> QED
  BY <1>1 DEF Kept, Promise!Next

\* A removal that starts with entries of the index, while it serves.
LEMMA SeenRemoval ==
    ASSUME TypeInv, DurabilityInv, Confirmed, Up, Up',
           NEW t, NEW S \in SUBSET Uuids, BeginRemoval(t, S),
           S \subseteq live \/ \E u \in Uuids : S = {u}
    PROVE  Kept
<1>1. /\ live' = live \ S /\ acked' = acked \ S /\ acked \subseteq live
      /\ \A u \in Uuids : removal'[u] = IF u \in S THEN "begun" ELSE removal[u]
      /\ live \cap Gone = {} /\ Gone' = Gone \ S
  BY DEF BeginRemoval, DurabilityInv, AckedInsertsSurvive, Confirmed, Final, Gone
<1>2. CASE S \subseteq live
  BY <1>1, <1>2, SeenRemove
<1>3. CASE ~(S \subseteq live)
  <2>1. PICK u \in Uuids : S = {u}
    BY <1>3
  <2> QED
    BY <1>1, <1>3, <2>1, SeenOffer
<1> QED
  BY <1>2, <1>3

\* What the requests, the reaper and the clock do.
LEMMA SeenRequests ==
    ASSUME TypeInv, DurabilityInv, Confirmed,
           \/ \E h \in Handlers : Handler(h)
           \/ Listen \/ ReaperSweep
           \/ \E t \in Tasks : SendTombstone(t)
           \/ \E u \in TtlUuids : Expire(u)
    PROVE  Kept
<1>0. /\ live \in SUBSET Uuids /\ Handlers \subseteq Tasks
      /\ removal \in [Uuids -> {"none", "begun", "reported", "durable"}]
      /\ \A t \in Tasks : task[t].uuid \in Uuids \cup {Nil}
  BY DEF TypeInv, TypeOK, Tasks, TaskState
<1>1. ASSUME NEW h \in Handlers, Handler(h) PROVE Kept
  <2>1. ASSUME NEW u \in Uuids, SubmitInsert(h, u) PROVE Kept
    <3>1. Up /\ Up' /\ UNCHANGED <<live, acked>> /\ removal' = [removal EXCEPT ![u] = "none"]
      BY <2>1, HandlerUp DEF SubmitInsert, indexVars, Up
    <3>2. Gone' = Gone \ {u}
      BY <1>0, <3>1 DEF Gone
    <3> QED
      BY <3>1, <3>2, SeenOffer
  <2>2. CASE SubmitCompact(h) \/ (\E u \in Uuids : DeleteResolve(h, u)) \/ Disconnect(h)
    BY <2>2, SeenNothing
       DEF SubmitCompact, DeleteResolve, Disconnect, Up, indexVars, historyVars
  <2>3. CASE DeleteRemove(h)
    <3>1. /\ Up /\ Up' /\ BeginRemoval(h, {task[h].uuid}) /\ task[h].uuid \in Uuids \cup {Nil}
      BY <1>0, <2>3, HandlerUp DEF DeleteRemove, Up
    <3>2. CASE task[h].uuid \in Uuids
      BY <3>1, <3>2, SeenRemoval
    <3>3. CASE task[h].uuid = Nil
      <4>1. UNCHANGED <<live, acked, removal>>
        BY <1>0, <3>1, <3>3, NilAssumption DEF BeginRemoval, TypeInv, TypeOK
      <4> QED
        BY <3>1, <4>1, SeenNothing
    <3> QED
      BY <3>1, <3>2, <3>3
  <2>4. ASSUME NEW ns \in Namespaces, NEW S \in SUBSET Uuids, Invalidate(h, ns, S) PROVE Kept
    <3>1. Up /\ Up' /\ BeginRemoval(h, S) /\ S \subseteq live
      BY <2>4, HandlerUp DEF Invalidate, In, Up
    <3> QED
      BY <3>1, SeenRemoval
  <2> QED
    BY <1>1, <2>1, <2>2, <2>3, <2>4 DEF Handler
<1>2. CASE ReaperSweep
  <2>1. Up /\ Up' /\ BeginRemoval(Janitor, live \cap expired) /\ live \cap expired \in SUBSET Uuids
    BY <1>0, <1>2, HandlerUp DEF ReaperSweep, Up
  <2> QED
    BY <2>1, SeenRemoval
<1>3. CASE Listen \/ (\E t \in Tasks : SendTombstone(t)) \/ \E u \in TtlUuids : Expire(u)
  BY <1>3, SeenNothing DEF Listen, SendTombstone, Expire, Up, indexVars, historyVars
<1> QED
  BY <1>1, <1>2, <1>3

\* What the flush task does.
LEMMA SeenFlush ==
    ASSUME TypeInv, DurabilityInv, Confirmed, Flush
    PROVE  Kept
<1>0. /\ live \in SUBSET Uuids /\ acked \subseteq live /\ acked \in SUBSET Uuids
      /\ removal \in [Uuids -> {"none", "begun", "reported", "durable"}]
      /\ live \cap Gone = {} /\ Up /\ Up'
  <2>1. Up /\ Up'
    BY DEF Flush, RecvFirst, CollectMore, CloseBatch, WriteBatch, WriteBatchFails,
       SequenceOverflow, RejectBatch, ApplyInsert, ApplyTombstone, EvictOne, EvictDone,
       EvictWrite, EvictWriteFails, EvictOverflow, AutoCompact, RunPending, WriteSnapshot,
       WriteSnapshotFails, Truncate, TruncateFails, FinishCompaction, Up
  <2> QED
    BY <2>1 DEF TypeInv, TypeOK, DurabilityInv, AckedInsertsSurvive, Confirmed, Final, Gone
<1>1. ASSUME ApplyInsert \/ ApplyTombstone
      PROVE  Head(batch).uuid \in Uuids /\ IsFor(Head(batch), Head(batch).op, Head(batch).uuid)
             /\ Queued(batch, Head(batch).op, Head(batch).uuid)
  <2>1. batch \in Seq(InsertRequest) /\ batch # <<>>
    BY <1>1 DEF TypeInv, TypeOK, Shape, ApplyInsert, ApplyTombstone
  <2>2. Head(batch) \in InsertRequest /\ Head(batch) = batch[1] /\ 1 \in DOMAIN batch
    BY <2>1, HeadTailProperties, LenProperties, EmptySeq
  <2> QED
    BY <2>2 DEF InsertRequest, IsFor, Queued
<1>2. CASE RecvFirst \/ CollectMore \/ CloseBatch
  BY <1>0, <1>2, SeenNothing
     DEF RecvFirst, CollectMore, CloseBatch, indexVars, historyVars
<1>3. CASE WriteBatch \/ WriteBatchFails \/ SequenceOverflow
  <2>1. UNCHANGED <<live, acked>>
    BY <1>3 DEF WriteBatch, WriteBatchFails, SequenceOverflow, RejectBatch, indexVars, historyVars
  <2>2. Gone' = Gone
    BY <1>0, <1>3
       DEF WriteBatch, WriteBatchFails, SequenceOverflow, RejectBatch, historyVars, Gone
  <2> QED
    BY <1>0, <2>1, <2>2, SeenRemove
<1>4. CASE ApplyInsert
  <2>1. PICK u \in Uuids : u = Head(batch).uuid
    BY <1>1, <1>4
  <2>2. CASE UNCHANGED <<indexVars, historyVars>>
    BY <1>0, <2>2, SeenNothing DEF indexVars, historyVars
  <2>3. CASE /\ live' = live \cup {u} /\ acked' \in {acked, acked \cup {u}}
             /\ removal' = [removal EXCEPT ![u] = "none"]
    <3>1. Gone' = Gone \ {u}
      BY <1>0, <2>3 DEF Gone
    <3> QED
      BY <1>0, <2>3, <3>1, SeenStore
  <2> QED
    BY <1>4, <2>1, <2>2, <2>3 DEF ApplyInsert
<1>5. CASE ApplyTombstone
  <2>1. PICK u \in Uuids : u = Head(batch).uuid
    BY <1>1, <1>5
  <2>2. Queued(batch, "tombstone", u)
    BY <1>1, <1>5, <2>1 DEF ApplyTombstone
  <2>3. u \notin acked
    BY <2>2 DEF DurabilityInv, NoTombstoneForAcked, PendingTombstone
  <2>4. /\ live' = live \ {u} /\ acked' = acked
        /\ \/ removal' = removal
           \/ removal' = [removal EXCEPT ![u] = "durable"]
    BY <1>0, <1>5, <2>1 DEF ApplyTombstone
  <2>5. CASE removal' = removal
    <3>1. Gone' = Gone /\ acked' = acked \ {u} /\ {u} \in SUBSET Uuids
      BY <2>3, <2>4, <2>5 DEF Gone
    <3> QED
      BY <1>0, <2>4, <3>1, SeenRemove
  <2>6. CASE removal' = [removal EXCEPT ![u] = "durable"]
    <3>1. Gone' = Gone \cup {u} /\ {u} \cap acked = {} /\ {u} \in SUBSET Uuids
      BY <1>0, <2>3, <2>6 DEF Gone
    <3> QED
      BY <1>0, <2>4, <3>1, SeenConfirm
  <2> QED
    BY <2>4, <2>5, <2>6
<1>6. CASE EvictOne
  <2>1. PICK u \in live : /\ live' = live \ {u} /\ acked' = acked \ {u}
                          /\ removal' = [removal EXCEPT ![u] = "begun"]
    BY <1>6 DEF EvictOne, In
  <2>2. Gone' = Gone /\ {u} \in SUBSET Uuids
    BY <1>0, <2>1 DEF Gone
  <2> QED
    BY <1>0, <2>1, <2>2, SeenRemove
<1>7. CASE EvictWrite
  <2> DEFINE S == {u \in Uuids : /\ \E i \in DOMAIN victims : victims[i] = u
                                 /\ removal[u] = "begun" /\ ~Queued(channel, "insert", u)}
  <2>1. \A u \in S : u \notin live /\ u \notin acked
    BY <1>0 DEF Confirmed
  <2>2. /\ UNCHANGED <<live, acked>>
        /\ \A u \in Uuids : removal'[u] = IF u \in S THEN "durable" ELSE removal[u]
    BY <1>7 DEF EvictWrite, indexVars
  <2> HIDE DEF S
  <2>3. S \in SUBSET Uuids
    BY DEF S
  <2>4. Gone' = Gone \cup S /\ S \cap acked = {} /\ live' = live \ S
    BY <2>1, <2>2, <2>3 DEF Gone
  <2> QED
    BY <1>0, <2>2, <2>3, <2>4, SeenConfirm
<1>8. CASE EvictDone \/ EvictWriteFails \/ EvictOverflow
  BY <1>0, <1>8, SeenNothing DEF EvictDone, EvictWriteFails, EvictOverflow, indexVars, historyVars
<1>9. CASE \/ AutoCompact \/ RunPending \/ WriteSnapshot \/ WriteSnapshotFails
           \/ Truncate \/ TruncateFails
  BY <1>0, <1>9, SeenNothing
     DEF AutoCompact, RunPending, WriteSnapshot, WriteSnapshotFails, Truncate, TruncateFails,
         indexVars, historyVars
<1> QED
  BY <1>2, <1>3, <1>4, <1>5, <1>6, <1>7, <1>8, <1>9 DEF Flush

\* A restart: nothing is seen until the replay is complete.
LEMMA SeenRestart ==
    ASSUME TypeInv, DurabilityInv, Confirmed, Boot \/ Crash
    PROVE  Kept
<1>1. CASE Crash
  <2>1. ~Up' /\ UNCHANGED <<acked, removal>>
    BY <1>1 DEF Crash, Up, historyVars
  <2>2. Promise!Crash
    BY <2>1 DEF Promise!Crash
  <2> QED
    BY <2>2 DEF Kept, Promise!Next
<1>2. CASE LoadSnapshot \/ LoadSnapshotFails \/ ReplayLine
  BY <1>2, SeenNothing DEF LoadSnapshot, LoadSnapshotFails, ReplayLine, Up, historyVars
<1>3. CASE StartupExpiry
  <2>1. /\ ~Up /\ Up' /\ live \in SUBSET Uuids
        /\ live' = live \ (live \cap expired) /\ acked' = acked \ (live \cap expired)
        /\ \A u \in Uuids : removal'[u] = IF u \in live \cap expired THEN "begun" ELSE removal[u]
    BY <1>3 DEF StartupExpiry, BeginRemoval, Up, TypeInv, TypeOK
  <2>2. \A u \in Uuids : u \in live <=> OnDisk(u)
    BY <1>3 DEF StartupExpiry, DurabilityInv, Replayed, OnDisk
  <2>3. acked \subseteq live /\ live \cap Gone = {}
    BY <2>2 DEF DurabilityInv, AckedInsertsDurable, TypeInv, TypeOK, Confirmed, Final, Gone
  <2>4. Gone' = Gone
    BY <2>1, <2>3 DEF Gone
  <2>5. Promise!Recover(live, live \cap expired)
    BY <2>1, <2>3, <2>4 DEF Promise!Recover, Gone
  <2>6. live \cap expired \in SUBSET Uuids
    BY <2>1
  <2> QED
    BY <2>1, <2>5, <2>6 DEF Kept, Promise!Next
<1> QED
  BY <1>1, <1>2, <1>3, NothingRefused DEF Boot, DurabilityInv

\* The node implements what its clients are promised: group commit, batching,
\* eviction, snapshots, truncation, crashes and replay cannot be told from a
\* cache that keeps what it acknowledged and loses what it confirmed as gone.
THEOREM ImplementsDurableCacheThm ==
    ASSUME CleanDisk PROVE Spec => ImplementsDurableCache
<1>1. Init => Promise!Init
  BY DEF Init, Promise!Init, Up
<1>2. TypeInv /\ DurabilityInv /\ Confirmed /\ [Next]_vars => [Promise!Next]_(Promise!vars)
  <2> SUFFICES ASSUME TypeInv, DurabilityInv, Confirmed, [Next]_vars PROVE Kept
    BY DEF Kept
  <2>1. CASE UNCHANGED vars
    BY <2>1, SeenNothing DEF vars, indexVars, historyVars, Up
  <2> QED
    BY <2>1, SeenRequests, SeenFlush, SeenRestart DEF Next
<1> QED
  BY <1>1, <1>2, ConfirmedInvariant, PTL DEF Spec, ImplementsDurableCache, Promise!Spec

-----------------------------------------------------------------------------
(* The disk follows the index. *)

\* No log write fails, and no client leaves before its tombstones are sent.
NothingLost == FaultKinds \cap {"write", "disconnect"} = {}

Applying == pc \in {"written", "apply"}

Owing(u) == PendingTombstone(u, batch)

Evicted(u) == \E i \in DOMAIN victims : victims[i] = u

\* Who is not sweeping owes nothing.
Settled ==
    \A t \in Tasks : task[t].state \in {"idle", "resolved"} => task[t].todo = {}

\* What the index holds is on disk, unless its tombstone is there already.
Logged(u) == u \in live => OnDisk(u) \/ (Applying /\ Queued(batch, "tombstone", u))

\* What is on disk is in the index, or about to leave one or to enter the other.
Explained(u) ==
    OnDisk(u) => \/ u \in live \/ Owing(u) \/ Evicted(u)
                 \/ (Applying /\ Queued(batch, "insert", u))

DiskFollows ==
    /\ Settled
    /\ Up => \A u \in Uuids :
               Logged(u) /\ (sequence < MaxSequence => Explained(u))

\* A step that leaves the disk alone, and drops an entry from the index only
\* when it owes or keeps its tombstone.
LEMMA FollowsQuiet ==
    ASSUME DiskFollows, Up, SameFiles, Settled', Applying' <=> Applying,
           sequence' < MaxSequence => sequence < MaxSequence,
           \A u \in Uuids :
             /\ u \in live' => u \in live
             /\ u \in live => u \in live' \/ Owing(u)' \/ Evicted(u)'
             /\ Owing(u) => Owing(u)'
             /\ Evicted(u) => Evicted(u)'
             /\ Applying => \A op : Queued(batch, op, u) => Queued(batch', op, u)
    PROVE  DiskFollows'
<1> SUFFICES ASSUME NEW u \in Uuids
             PROVE  Logged(u)' /\ (sequence' < MaxSequence => Explained(u)')
  BY DEF DiskFollows
<1>1. Logged(u) /\ (sequence < MaxSequence => Explained(u))
  BY DEF DiskFollows
<1>2. OnDisk(u)' <=> OnDisk(u)
  BY SameDisk DEF SameFiles
<1>3. Logged(u)'
  BY <1>1, <1>2 DEF Logged, Queued
<1>4. sequence' < MaxSequence => Explained(u)'
  BY <1>1, <1>2 DEF Explained, Queued
<1> QED
  BY <1>3, <1>4

\* The tombstones that are owed are those in the channel, those in the batch
\* and those still to be sent.
LEMMA StillOwing ==
    ASSUME NEW u, Owing(u),
           Queued(channel, "tombstone", u)
             => Queued(channel', "tombstone", u) \/ Queued(batch', "tombstone", u),
           Queued(batch, "tombstone", u) => Queued(batch', "tombstone", u),
           \A t \in Tasks : u \in task[t].todo =>
             \/ \E x \in Tasks : u \in task'[x].todo
             \/ Queued(channel', "tombstone", u)
    PROVE  Owing(u)'
BY DEF Owing, PendingTombstone, Queued

LEMMA SettledTask ==
    ASSUME TypeInv, Settled, NEW t \in Tasks, NEW r, task' = [task EXCEPT ![t] = r],
           r.state \in {"idle", "resolved"} => r.todo = {}
    PROVE  /\ Settled'
           /\ \A x \in Tasks : task'[x] = IF x = t THEN r ELSE task[x]
BY DEF TypeInv, TypeOK, Settled

LEMMA SettledSweep ==
    ASSUME NEW S
    PROVE  /\ Sweeping(S).state \in {"idle", "resolved"} => Sweeping(S).todo = {}
           /\ Sweeping(S).todo = S
BY DEF Sweeping, Idle

LEMMA SettledAnswer ==
    ASSUME TypeInv, Settled, NEW froms, task' = Answered(froms)
    PROVE  Settled' /\ \A t \in Tasks : task'[t].todo = task[t].todo
<1>1. \A t \in Tasks : task'[t] = task[t] \/ task'[t] = Sweeping(task[t].todo)
  BY DEF Answered
<1> QED
  BY <1>1, AnsweredTodo, SettledSweep DEF Settled

\* A removal under way.
LEMMA FollowsRemoval ==
    ASSUME TypeInv, DiskFollows, Up, SameFiles, NEW t \in Tasks, NEW S, BeginRemoval(t, S),
           task[t].state \in {"idle", "resolved"},
           UNCHANGED <<pc, batch, victims, channel, sequence>>
    PROVE  DiskFollows'
<1>1. live' = live \ S /\ task' = [task EXCEPT ![t] = Sweeping(S)]
  BY DEF BeginRemoval
<1>2. /\ Settled' /\ \A x \in Tasks : task'[x] = IF x = t THEN Sweeping(S) ELSE task[x]
      /\ Sweeping(S).todo = S /\ task[t].todo = {}
  <2>1. Settled
    BY DEF DiskFollows
  <2>2. task[t].todo = {}
    BY <2>1 DEF Settled
  <2>3. PICK r : r = Sweeping(S)
    OBVIOUS
  <2>4. r.todo = S /\ (r.state \in {"idle", "resolved"} => r.todo = {})
    BY <2>3, SettledSweep
  <2>5. Settled' /\ \A x \in Tasks : task'[x] = IF x = t THEN r ELSE task[x]
    BY <1>1, <2>1, <2>3, <2>4, SettledTask
  <2> QED
    BY <2>2, <2>3, <2>4, <2>5
<1>3. ASSUME NEW u PROVE Owing(u) => Owing(u)'
  BY <1>2, StillOwing
<1>4. \A u \in S : Owing(u)'
  BY <1>2 DEF Owing, PendingTombstone
<1> QED
  BY <1>1, <1>2, <1>3, <1>4, FollowsQuiet DEF Applying, Evicted

LEMMA FollowsHandlers ==
    ASSUME NothingLost, TypeInv, DurabilityInv, DiskFollows, NEW h \in Handlers, Handler(h)
    PROVE  DiskFollows'
<1>1. channel \in Seq(WalCommand) /\ h \in Tasks
  BY DEF TypeInv, TypeOK, Tasks
<1>2. ASSUME NEW r \in WalCommand, channel' = Append(channel, r), serving,
             NEW v, task' = [task EXCEPT ![h] = Waiting(v)], task[h].state = "idle",
             UNCHANGED <<diskVars, indexVars, pc, loopVars>>
      PROVE  DiskFollows'
  <2>1. /\ Settled' /\ \A x \in Tasks : task'[x] = IF x = h THEN Waiting(v) ELSE task[x]
        /\ task[h].todo = {}
    BY <1>1, <1>2, SettledTask DEF DiskFollows, Settled, Waiting
  <2>2. \A u : Queued(channel, "tombstone", u) => Queued(channel', "tombstone", u)
    BY <1>1, <1>2, QueuedAppend
  <2>3. ASSUME NEW u PROVE Owing(u) => Owing(u)'
    BY <1>2, <2>1, <2>2, StillOwing DEF loopVars
  <2>4. Up /\ SameFiles /\ UNCHANGED <<live, pc, batch, victims, sequence>>
    BY <1>2, HandlerUp DEF diskVars, indexVars, loopVars, SameFiles
  <2> QED
    BY <2>1, <2>3, <2>4, FollowsQuiet DEF Applying, Evicted
<1>3. ASSUME NEW u \in Uuids, SubmitInsert(h, u) PROVE DiskFollows'
  <2>1. [op |-> "insert", uuid |-> u, from |-> h] \in WalCommand
    BY <1>1 DEF WalCommand, InsertRequest
  <2> QED
    BY <1>2, <1>3, <2>1 DEF SubmitInsert
<1>4. CASE SubmitCompact(h)
  <2>1. [op |-> "compact", uuid |-> Nil, from |-> h] \in WalCommand
    BY <1>1 DEF WalCommand, CompactRequest
  <2> QED
    BY <1>2, <1>4, <2>1 DEF SubmitCompact
<1>5. ASSUME NEW u \in Uuids, DeleteResolve(h, u) PROVE DiskFollows'
  <2>r. PICK r : r = [state |-> "resolved", todo |-> {}, uuid |-> u]
    OBVIOUS
  <2>1. /\ Settled' /\ \A x \in Tasks : task'[x] = IF x = h THEN r ELSE task[x]
        /\ task[h].todo = {}
    <3>1. Settled /\ r.todo = {} /\ task' = [task EXCEPT ![h] = r] /\ task[h].state = "idle"
      BY <1>5, <2>r DEF DiskFollows, DeleteResolve
    <3>2. task[h].todo = {}
      BY <1>1, <3>1 DEF Settled
    <3> QED
      BY <1>1, <3>1, <3>2, SettledTask
  <2>2. /\ Up /\ SameFiles /\ UNCHANGED <<live, pc, batch, victims, sequence, channel>>
    BY <1>5, HandlerUp DEF DeleteResolve, diskVars, indexVars, loopVars, SameFiles
  <2>3. ASSUME NEW v PROVE Owing(v) => Owing(v)'
    BY <2>1, <2>2, StillOwing
  <2> QED
    BY <2>1, <2>2, <2>3, FollowsQuiet DEF Applying, Evicted
<1>6. CASE DeleteRemove(h)
  BY <1>1, <1>6, HandlerUp, FollowsRemoval DEF DeleteRemove, diskVars, loopVars, SameFiles
<1>7. ASSUME NEW ns \in Namespaces, NEW S \in SUBSET Uuids, Invalidate(h, ns, S)
      PROVE  DiskFollows'
  BY <1>1, <1>7, HandlerUp, FollowsRemoval DEF Invalidate, diskVars, loopVars, SameFiles
<1>8. ~Disconnect(h)
  BY DEF Disconnect, Fault, NothingLost
<1> QED
  BY <1>3, <1>4, <1>5, <1>6, <1>7, <1>8 DEF Handler

LEMMA FollowsTasks ==
    ASSUME TypeInv, DurabilityInv, DiskFollows,
           \/ Listen \/ ReaperSweep
           \/ \E t \in Tasks : SendTombstone(t)
           \/ \E u \in TtlUuids : Expire(u)
    PROVE  DiskFollows'
<1>1. /\ channel \in Seq(WalCommand) /\ Janitor \in Tasks
      /\ \A t \in Tasks : task[t].todo \in SUBSET Uuids
  BY DEF TypeInv, TypeOK, TaskState, Tasks
<1>2. CASE Listen
  <2>1. Up /\ SameFiles /\ UNCHANGED <<pc, live, batch, victims, sequence, channel, task>>
    BY <1>2 DEF Listen, Up, diskVars, indexVars, loopVars, SameFiles
  <2>2. Settled' /\ \A u : Owing(u)' <=> Owing(u)
    BY <2>1 DEF DiskFollows, Settled, Owing, PendingTombstone, Queued
  <2> QED
    BY <2>1, <2>2, FollowsQuiet DEF Applying, Evicted
<1>3. CASE ReaperSweep
  BY <1>1, <1>3, HandlerUp, FollowsRemoval DEF ReaperSweep, diskVars, loopVars, SameFiles
<1>4. ASSUME NEW t \in Tasks, SendTombstone(t) PROVE DiskFollows'
  <2>1. PICK u \in task[t].todo :
          /\ channel' = Append(channel, [op |-> "tombstone", uuid |-> u, from |-> t])
          /\ task' = [task EXCEPT ![t] = [state |-> "wait", todo |-> task[t].todo \ {u}, uuid |-> u]]
    BY <1>4 DEF SendTombstone
  <2>2. [op |-> "tombstone", uuid |-> u, from |-> t] \in WalCommand
    BY <1>1, <2>1 DEF WalCommand, InsertRequest
  <2>3. \A v : Queued(channel', "tombstone", v) <=> Queued(channel, "tombstone", v) \/ v = u
    BY <1>1, <2>1, <2>2, QueuedAppend DEF IsFor
  <2>4. /\ Settled'
        /\ \A x \in Tasks \ {t} : task'[x] = task[x]
        /\ task'[t].todo = task[t].todo \ {u}
    <3>1. PICK r : r = [state |-> "wait", todo |-> task[t].todo \ {u}, uuid |-> u]
      OBVIOUS
    <3>2. Settled /\ r.state = "wait" /\ r.todo = task[t].todo \ {u} /\ task' = [task EXCEPT ![t] = r]
      BY <2>1, <3>1 DEF DiskFollows
    <3>3. Settled' /\ \A x \in Tasks : task'[x] = IF x = t THEN r ELSE task[x]
      BY <3>2, SettledTask
    <3> QED
      BY <3>2, <3>3
  <2>5. Up /\ SameFiles /\ UNCHANGED <<pc, live, batch, victims, sequence>>
    BY <1>4, HandlerUp DEF SendTombstone, diskVars, indexVars, loopVars, SameFiles
  <2>6. ASSUME NEW v PROVE Owing(v) => Owing(v)'
    BY <2>3, <2>4, <2>5, StillOwing
  <2> QED
    BY <2>4, <2>5, <2>6, FollowsQuiet DEF Applying, Evicted
<1>5. ASSUME NEW u \in TtlUuids, Expire(u) PROVE DiskFollows'
  <2>1. SameFiles /\ UNCHANGED <<pc, live, batch, victims, sequence, channel, task>>
    BY <1>5 DEF Expire, diskVars, indexVars, loopVars, clientVars, SameFiles
  <2>2. Settled' /\ (\A v : Owing(v)' <=> Owing(v)) /\ (Up' <=> Up)
    BY <2>1 DEF DiskFollows, Settled, Owing, PendingTombstone, Queued, Up
  <2>3. CASE Up
    BY <2>1, <2>2, <2>3, FollowsQuiet DEF Applying, Evicted
  <2> QED
    BY <2>2, <2>3 DEF DiskFollows
<1> QED
  BY <1>2, <1>3, <1>4, <1>5

LEMMA FollowsReceive ==
    ASSUME TypeInv, Confirmed, DiskFollows, RecvFirst \/ CollectMore \/ CloseBatch
    PROVE  DiskFollows'
<1>1. channel \in Seq(WalCommand) /\ batch \in Seq(WalCommand)
  BY SeqMonotonic DEF TypeInv, TypeOK, WalCommand
<1>2. /\ SameFiles /\ UNCHANGED <<victims, live, sequence, task>> /\ Up
      /\ ~Applying /\ ~Applying'
  BY DEF RecvFirst, CollectMore, CloseBatch, diskVars, indexVars, loopVars, clientVars,
         SameFiles, Up, Applying
<1>3. Settled'
  BY <1>2 DEF DiskFollows, Settled
<1>4. ASSUME NEW u
      PROVE  /\ Queued(channel, "tombstone", u)
                  => Queued(channel', "tombstone", u) \/ Queued(batch', "tombstone", u)
             /\ Queued(batch, "tombstone", u) => Queued(batch', "tombstone", u)
  <2>1. CASE CloseBatch
    BY <2>1 DEF CloseBatch, loopVars, clientVars
  <2>2. CASE RecvFirst \/ CollectMore
    <3>1. /\ channel # <<>> /\ channel' = Tail(channel)
          /\ \/ Head(channel).op = "compact" /\ batch' = batch
             \/ pc = "recv" /\ batch' = <<Head(channel)>>
             \/ batch' = Append(batch, Head(channel))
      BY <2>2 DEF RecvFirst, CollectMore
    <3>2. /\ Head(channel) \in WalCommand
          /\ Queued(channel, "tombstone", u) <=>
               Queued(Tail(channel), "tombstone", u) \/ IsFor(Head(channel), "tombstone", u)
      BY <1>1, <3>1, QueuedTail, HeadTailProperties
    <3>3. CASE Head(channel).op = "compact" /\ batch' = batch
      BY <3>1, <3>2, <3>3 DEF IsFor
    <3>4. CASE pc = "recv" /\ batch' = <<Head(channel)>>
      <4>1. batch = <<>>
        BY <3>4 DEF Confirmed, Batching
      <4>2. ~Queued(batch, "tombstone", u)
        BY <4>1 DEF Queued
      <4>3. IsFor(Head(channel), "tombstone", u) => Queued(batch', "tombstone", u)
        BY <3>4 DEF Queued
      <4> QED
        BY <3>1, <3>2, <4>2, <4>3
    <3>5. CASE batch' = Append(batch, Head(channel))
      BY <1>1, <3>1, <3>2, <3>5, QueuedAppend
    <3> QED
      BY <3>1, <3>3, <3>4, <3>5
  <2> QED
    BY <2>1, <2>2
<1>5. ASSUME NEW u PROVE Owing(u) => Owing(u)'
  BY <1>2, <1>4, StillOwing
<1> QED
  BY <1>2, <1>3, <1>5, FollowsQuiet DEF Evicted

\* A write of the log, complete or refused.
LEMMA FollowsWrite ==
    ASSUME CleanDisk, NothingLost, TypeInv, DurabilityInv, Confirmed, DiskFollows,
           WriteBatch \/ WriteBatchFails \/ SequenceOverflow
    PROVE  DiskFollows'
<1>1. pc = "write" /\ Up /\ UNCHANGED <<victims, live, channel, snapshot, snapshot_sequence>>
  BY DEF WriteBatch, WriteBatchFails, SequenceOverflow, RejectBatch, indexVars, clientVars, Up
<1>n. /\ sequence \in Nat /\ MaxSequence \in Nat /\ Len(batch) \in Nat
  BY NodeAssumption, LenProperties DEF TypeInv, TypeOK
<1>2. ~WriteBatchFails
  BY DEF WriteBatchFails, Fault, NothingLost
<1>3. CASE SequenceOverflow
  <2>1. /\ sequence' = MaxSequence /\ wal' = wal /\ pc' = "evict"
        /\ task' = Answered({batch[i].from : i \in DOMAIN batch})
    BY <1>3 DEF SequenceOverflow, RejectBatch
  <2>2. Settled'
    BY <2>1, SettledAnswer DEF DiskFollows
  <2>3. \A u \in Uuids : u \in live => OnDisk(u)
    BY <1>1 DEF DiskFollows, Logged, Applying
  <2>4. \A u : OnDisk(u)' <=> OnDisk(u)
    BY <1>1, <2>1, SameDisk
  <2>5. ~(sequence' < MaxSequence)
    BY <1>n, <2>1
  <2> QED
    BY <1>1, <2>2, <2>3, <2>4, <2>5 DEF DiskFollows, Logged
<1>4. CASE WriteBatch
  <2> DEFINE lines == Stamped(batch, sequence)
  <2>1. /\ pc' = "written" /\ UNCHANGED <<batch, task>> /\ sequence' = sequence + Len(batch)
        /\ Fits(Len(batch)) /\ Land(Whole(lines))
    BY <1>4 DEF WriteBatch, clientVars
  <2>2. Numbered(lines) /\ Len(lines) = Len(batch) /\ Grown(lines, Len(lines))
    BY <2>1, NumberedLines, CleanWrite DEF Numbered, DurabilityInv
  <2>3. Settled'
    BY <2>1 DEF DiskFollows, Settled
  <2>4. ASSUME NEW u \in Uuids PROVE Logged(u)' /\ (sequence' < MaxSequence => Explained(u)')
    <3>1. \A op : (\E i \in 1..Len(lines) : IsFor(lines[i], op, u)) <=> Queued(batch, op, u)
      BY <2>2, LinesAre
    <3>2. Len(lines) \in 0..Len(lines)
      BY <1>n, <2>2
    <3> HIDE DEF lines
    <3>3. /\ ~Queued(batch, "tombstone", u) /\ OnDisk(u) => OnDisk(u)'
          /\ ~Queued(batch, "insert", u) /\ OnDisk(u)' => OnDisk(u)
      BY <1>1, <2>2, <3>1, <3>2, GrowthSays
    <3>4. Logged(u) /\ (sequence < MaxSequence => Explained(u)) /\ ~Applying /\ Applying'
      BY <1>1, <2>1 DEF DiskFollows, Applying
    <3>5. \A op : Queued(batch', op, u) <=> Queued(batch, op, u)
      BY <2>1
    <3>6. Logged(u)'
      BY <1>1, <3>3, <3>4, <3>5 DEF Logged
    <3>7. Owing(u)' <=> Owing(u)
      BY <1>1, <2>1 DEF Owing, PendingTombstone, Queued
    <3>8. sequence' < MaxSequence => sequence < MaxSequence
      BY <1>n, <2>1
    <3>9. sequence' < MaxSequence => Explained(u)'
      BY <1>1, <3>3, <3>4, <3>5, <3>7, <3>8 DEF Explained, Evicted
    <3> QED
      BY <3>6, <3>9
  <2> QED
    BY <2>3, <2>4 DEF DiskFollows
<1> QED
  BY <1>2, <1>3, <1>4

LEMMA FollowsApply ==
    ASSUME CleanDisk, TypeInv, DurabilityInv, DiskFollows, ApplyInsert \/ ApplyTombstone
    PROVE  DiskFollows'
<1>1. /\ batch \in Seq(InsertRequest) /\ batch # <<>> /\ Len(batch) \in Nat \ {0}
      /\ Head(batch) \in InsertRequest
      /\ Tail(batch) \in Seq(InsertRequest) /\ Len(Tail(batch)) = Len(batch) - 1
  BY HeadTailProperties, LenProperties, EmptySeq
     DEF TypeInv, TypeOK, Shape, ApplyInsert, ApplyTombstone
<1>u. PICK u \in Uuids : u = Head(batch).uuid
  BY <1>1 DEF InsertRequest
<1>2. /\ pc \in {"written", "apply"} /\ Up /\ Up' /\ Applying
      /\ SameFiles /\ batch' = Tail(batch) /\ UNCHANGED <<channel, victims, sequence>>
      /\ pc' = IF Len(batch) = 1 THEN "evict" ELSE "apply"
      /\ task' = Answered({Head(batch).from})
  BY DEF ApplyInsert, ApplyTombstone, Up, diskVars, SameFiles, Applying
<1>3. \A op, v : Queued(batch, op, v) <=> Queued(batch', op, v) \/ IsFor(Head(batch), op, v)
  BY <1>1, <1>2, QueuedTail
<1>4. \A op, v : Queued(batch', op, v) => Applying'
  <2>1. batch' = <<>> => \A op, v : ~Queued(batch', op, v)
    BY DEF Queued
  <2>2. Len(batch) = 1 => batch' = <<>>
    BY <1>1, <1>2, EmptySeq
  <2> QED
    BY <1>2, <2>1, <2>2 DEF Applying
<1>5. Settled' /\ \A t \in Tasks : task'[t].todo = task[t].todo
  BY <1>2, SettledAnswer DEF DiskFollows
<1>6. \A v : OnDisk(v)' <=> OnDisk(v)
  BY <1>2, SameDisk DEF SameFiles
<1>7. ASSUME NEW v PROVE Owing(v) /\ ~IsFor(Head(batch), "tombstone", v) => Owing(v)'
  BY <1>2, <1>3, <1>5, StillOwing
<1>8. ASSUME NEW v \in Uuids, v # u, v \in live' <=> v \in live
      PROVE  Logged(v)' /\ (sequence' < MaxSequence => Explained(v)')
  <2>1. Logged(v) /\ (sequence < MaxSequence => Explained(v))
    BY <1>2 DEF DiskFollows
  <2>2. \A op : ~IsFor(Head(batch), op, v)
    BY <1>8, <1>u DEF IsFor
  <2>3. \A op : Queued(batch', op, v) <=> Queued(batch, op, v)
    BY <1>3, <2>2
  <2>4. Logged(v)'
    BY <1>4, <1>6, <1>8, <2>1, <2>3 DEF Logged
  <2>5. Owing(v) => Owing(v)'
    BY <1>7, <2>2
  <2>6. sequence' < MaxSequence => Explained(v)'
    BY <1>2, <1>4, <1>6, <1>8, <2>1, <2>3, <2>5 DEF Explained, Evicted
  <2> QED
    BY <2>4, <2>6
<1>9. CASE ApplyInsert
  <2>1. Head(batch).op = "insert" /\ live' = live \cup {u}
    BY <1>u, <1>9 DEF ApplyInsert, DurabilityInv, RightDimensions
  <2>2. OnDisk(u) \/ Queued(batch', "tombstone", u)
    BY <1>2, <1>u, <2>1, HeadLogged
  <2>3. Logged(u)' /\ Explained(u)'
    BY <1>4, <1>6, <2>1, <2>2 DEF Logged, Explained
  <2>4. \A v \in Uuids : Logged(v)' /\ (sequence' < MaxSequence => Explained(v)')
    BY <1>8, <2>1, <2>3
  <2> QED
    BY <1>5, <2>4 DEF DiskFollows
<1>10. CASE ApplyTombstone
  <2>1. Head(batch).op = "tombstone" /\ live' = live \ {u}
    BY <1>u, <1>10 DEF ApplyTombstone
  <2>2. OnDisk(u) => Queued(batch', "insert", u)
    BY <1>2, <1>u, <2>1, HeadLogged
  <2>3. Logged(u)' /\ Explained(u)'
    BY <1>4, <1>6, <2>1, <2>2 DEF Logged, Explained
  <2>4. \A v \in Uuids : Logged(v)' /\ (sequence' < MaxSequence => Explained(v)')
    BY <1>8, <2>1, <2>3
  <2> QED
    BY <1>5, <2>4 DEF DiskFollows
<1> QED
  BY <1>9, <1>10

LEMMA FollowsEvict ==
    ASSUME CleanDisk, NothingLost, TypeInv, DurabilityInv, Confirmed, DiskFollows,
           EvictOne \/ EvictDone \/ EvictWrite \/ EvictWriteFails \/ EvictOverflow
    PROVE  DiskFollows'
<1>1. /\ Up /\ ~Applying /\ ~Applying' /\ UNCHANGED <<channel, batch, task>>
      /\ UNCHANGED <<snapshot, snapshot_sequence>> /\ victims \in Seq(Uuids)
  BY DEF EvictOne, EvictDone, EvictWrite, EvictWriteFails, EvictOverflow, Up, clientVars,
         loopVars, diskVars, TypeInv, TypeOK, Applying
<1>n. sequence \in Nat /\ MaxSequence \in Nat /\ Len(victims) \in Nat
  BY <1>1, NodeAssumption, LenProperties DEF TypeInv, TypeOK
<1>2. Settled' /\ \A u : Owing(u)' <=> Owing(u)
  BY <1>1 DEF DiskFollows, Settled, Owing, PendingTombstone, Queued
<1>3. ~EvictWriteFails
  BY DEF EvictWriteFails, Fault, NothingLost
<1>4. CASE EvictOne
  <2>1. PICK u \in live : live' = live \ {u} /\ victims' = Append(victims, u)
    BY <1>4 DEF EvictOne, In
  <2>2. /\ DOMAIN victims = 1..Len(victims) /\ DOMAIN victims' = 1..(Len(victims) + 1)
        /\ \A j \in 1..Len(victims) : victims'[j] = victims[j]
        /\ victims'[Len(victims) + 1] = u
    BY <1>1, <2>1, AppendProperties, LenProperties
       DEF TypeInv, TypeOK
  <2>3. /\ \A j \in DOMAIN victims : j \in DOMAIN victims'
        /\ Len(victims) + 1 \in DOMAIN victims'
    BY <1>n, <2>2
  <2>4. Evicted(u)' /\ \A v : Evicted(v) => Evicted(v)'
    BY <2>2, <2>3 DEF Evicted
  <2>5. SameFiles /\ sequence' = sequence
    BY <1>4 DEF EvictOne, diskVars, SameFiles
  <2> QED
    BY <1>1, <1>2, <2>1, <2>4, <2>5, FollowsQuiet
<1>5. CASE EvictDone
  <2>1. SameFiles /\ UNCHANGED <<sequence, live, victims>>
    BY <1>5 DEF EvictDone, diskVars, indexVars, loopVars, SameFiles
  <2> QED
    BY <1>1, <1>2, <2>1, FollowsQuiet DEF Evicted
<1>6. CASE EvictOverflow
  <2>1. sequence' = MaxSequence /\ UNCHANGED <<wal, live>>
    BY <1>6 DEF EvictOverflow, diskVars, indexVars
  <2>2. \A u : OnDisk(u)' <=> OnDisk(u)
    BY <1>1, <2>1, SameDisk
  <2>3. ~(sequence' < MaxSequence)
    BY <1>n, <2>1
  <2> QED
    BY <1>1, <1>2, <2>1, <2>2, <2>3 DEF DiskFollows, Logged
<1>7. CASE EvictWrite
  <2> DEFINE lines == TombstoneLines(victims, sequence)
  <2>1. /\ Fits(Len(victims)) /\ Land(Whole(lines)) /\ live' = live /\ victims' = <<>>
        /\ sequence' = sequence + Len(victims)
    BY <1>7 DEF EvictWrite, indexVars
  <2>2. Numbered(lines) /\ Len(lines) = Len(victims) /\ Grown(lines, Len(lines))
    BY <2>1, NumberedLines, CleanWrite DEF Numbered, DurabilityInv
  <2>3. ASSUME NEW u \in Uuids PROVE Logged(u)' /\ (sequence' < MaxSequence => Explained(u)')
    <3>1. /\ \A i \in 1..Len(lines) : ~IsFor(lines[i], "insert", u)
          /\ \A i \in 1..Len(lines) : IsFor(lines[i], "tombstone", u) <=> victims[i] = u
          /\ DOMAIN victims = 1..Len(lines) /\ Len(lines) \in 0..Len(lines)
      <4>1. Len(lines) = Len(victims) /\ Len(lines) \in 0..Len(lines)
        BY <1>n, <2>2
      <4> QED
        BY <4>1, LinesAre
    <3> HIDE DEF lines
    <3>2. /\ ~Evicted(u) /\ OnDisk(u) => OnDisk(u)'
          /\ OnDisk(u)' => OnDisk(u) /\ ~Evicted(u)
      BY <1>1, <2>2, <3>1, GrowthSays DEF Evicted
    <3>3. u \in live => ~Evicted(u)
      BY DEF Confirmed, Evicted
    <3>4. Logged(u) /\ (sequence < MaxSequence => Explained(u))
      BY <1>1 DEF DiskFollows
    <3>5. sequence' < MaxSequence => sequence < MaxSequence
      BY <1>n, <2>1
    <3> QED
      BY <1>1, <1>2, <2>1, <3>2, <3>3, <3>4, <3>5 DEF Logged, Explained
  <2> QED
    BY <1>2, <2>3 DEF DiskFollows
<1> QED
  BY <1>3, <1>4, <1>5, <1>6, <1>7

LEMMA FollowsCompact ==
    ASSUME TypeInv, DurabilityInv, DiskFollows,
           AutoCompact \/ RunPending \/ WriteSnapshot \/ WriteSnapshotFails
              \/ Truncate \/ TruncateFails
    PROVE  DiskFollows'
<1>1. /\ pc \in {"autocompact", "pending", "snapshot", "truncate"} /\ Up
      /\ UNCHANGED <<live, victims, channel, batch, sequence>>
      /\ task' = task \/ task' = Answered({Head(pending_compact).from})
  BY DEF AutoCompact, RunPending, WriteSnapshot, WriteSnapshotFails, Truncate,
     TruncateFails, FinishCompaction, Up, indexVars, loopVars, clientVars
<1>2. ~Applying /\ ~Applying'
  BY DEF AutoCompact, RunPending, WriteSnapshot, WriteSnapshotFails, Truncate,
     TruncateFails, FinishCompaction, Applying
<1>3. Settled' /\ \A t \in Tasks : task'[t].todo = task[t].todo
  <2>1. CASE task' = task
    BY <2>1 DEF DiskFollows, Settled
  <2>2. CASE task' = Answered({Head(pending_compact).from})
    BY <2>2, SettledAnswer DEF DiskFollows
  <2> QED
    BY <1>1, <2>1, <2>2
<1>4. \A u : Owing(u) => Owing(u)'
  BY <1>1, <1>3 DEF Owing, PendingTombstone, Queued
<1>5. ASSUME \A u : OnDisk(u)' <=> OnDisk(u) PROVE DiskFollows'
  <2>1. ASSUME NEW u \in Uuids PROVE Logged(u)' /\ (sequence' < MaxSequence => Explained(u)')
    <3>1. Logged(u) /\ (sequence < MaxSequence => Explained(u))
      BY <1>1 DEF DiskFollows
    <3> QED
      BY <1>1, <1>2, <1>4, <1>5, <3>1 DEF Logged, Explained, Evicted
  <2> QED
    BY <1>3, <2>1 DEF DiskFollows
<1>6. CASE WriteSnapshot
  <2>1. \A u : OnDisk(u)' <=> u \in live
    BY <1>6, SnapshotSays
  <2> QED
    BY <1>1, <1>3, <2>1 DEF DiskFollows, Logged, Explained
<1>7. CASE Truncate \/ TruncateFails
  BY <1>5, <1>7, TruncationSays DEF Truncate, TruncateFails
<1>8. CASE AutoCompact \/ RunPending \/ WriteSnapshotFails
  BY <1>5, <1>8, SameDisk DEF AutoCompact, RunPending, WriteSnapshotFails, diskVars
<1> QED
  BY <1>6, <1>7, <1>8

\* A start hands over what the disk says, less what it then owes tombstones for.
LEMMA FollowsRestart ==
    ASSUME TypeInv, DurabilityInv, DiskFollows, Boot \/ Crash
    PROVE  DiskFollows'
<1>1. CASE Crash
  <2>1. ~Up' /\ task' = [t \in Tasks |-> Idle]
    BY <1>1 DEF Crash, Up
  <2> QED
    BY <2>1 DEF DiskFollows, Settled, Idle
<1>2. CASE LoadSnapshot \/ LoadSnapshotFails \/ ReplayLine
  <2>1. ~Up' /\ task' = task
    BY <1>2 DEF LoadSnapshot, LoadSnapshotFails, ReplayLine, Up, clientVars
  <2> QED
    BY <2>1 DEF DiskFollows, Settled
<1>3. CASE StartupExpiry
  <2> DEFINE S == live \cap expired
  <2>1. /\ live' = live \ S /\ task' = [task EXCEPT ![Janitor] = Sweeping(S)]
        /\ SameFiles /\ Janitor \in Tasks
    BY <1>3 DEF StartupExpiry, BeginRemoval, Tasks, diskVars, SameFiles
  <2> HIDE DEF S
  <2>2. Settled' /\ task'[Janitor].todo = S
    <3>1. PICK r : r = Sweeping(S)
      OBVIOUS
    <3>2. Settled /\ r.todo = S /\ (r.state \in {"idle", "resolved"} => r.todo = {})
      BY <3>1, SettledSweep DEF DiskFollows
    <3>3. Settled' /\ \A x \in Tasks : task'[x] = IF x = Janitor THEN r ELSE task[x]
      BY <2>1, <3>1, <3>2, SettledTask
    <3> QED
      BY <2>1, <3>2, <3>3
  <2>3. \A u \in Uuids : u \in live <=> OnDisk(u)'
    <3>1. \A u \in Uuids : u \in live <=> OnDisk(u)
      BY <1>3 DEF StartupExpiry, DurabilityInv, Replayed, OnDisk
    <3> QED
      BY <2>1, <3>1, SameDisk DEF SameFiles
  <2>4. \A u \in S : Owing(u)'
    BY <2>1, <2>2 DEF Owing, PendingTombstone
  <2> QED
    BY <2>1, <2>2, <2>3, <2>4 DEF DiskFollows, Logged, Explained
<1> QED
  BY <1>1, <1>2, <1>3, NothingRefused DEF Boot, DurabilityInv

LEMMA FollowsNext ==
    ASSUME CleanDisk, NothingLost, TypeInv, DurabilityInv, Confirmed, DiskFollows, [Next]_vars
    PROVE  DiskFollows'
<1>1. CASE UNCHANGED vars
  <2>1. \A u : OnDisk(u)' <=> OnDisk(u)
    BY <1>1, SameDisk DEF vars, diskVars
  <2>2. UNCHANGED <<live, pc, batch, victims, sequence, channel, task>>
    BY <1>1 DEF vars, indexVars, loopVars, clientVars
  <2> QED
    BY <2>1, <2>2 DEF DiskFollows, Settled, Logged, Explained, Owing, Evicted,
       PendingTombstone, Queued, Applying, Up
<1> QED
  BY <1>1, FollowsHandlers, FollowsTasks, FollowsReceive, FollowsWrite, FollowsApply,
     FollowsEvict, FollowsCompact, FollowsRestart DEF Next, Flush

\* With no removal half way a restart would bring back exactly what the node
\* serves, whatever deletes, sweeps, evictions and re-inserts raced, over any
\* crashes, failed snapshots and failed truncations.
THEOREM DiskMatchesMemoryAtRestThm ==
    ASSUME CleanDisk, NothingLost PROVE Spec => []DiskMatchesMemoryAtRest
<1> DEFINE Inv == TypeInv /\ DurabilityInv /\ Confirmed /\ DiskFollows
<1>1. Init => Inv
  <2>1. Init => DiskFollows
    BY DEF Init, DiskFollows, Settled, Idle, Up
  <2> QED
    BY <2>1, TypeInit, DurableInit, ConfirmedInit
<1>2. Inv /\ [Next]_vars => Inv'
  BY TypeNext, DurableNext, ConfirmedNext, FollowsNext
<1>3. Inv => DiskMatchesMemoryAtRest
  <2> SUFFICES ASSUME Inv, pc = "recv", NoRemovalInFlight, sequence < MaxSequence
               PROVE  live = {u \in Uuids : OnDisk(u)}
    BY DEF DiskMatchesMemoryAtRest
  <2>1. batch = <<>> /\ victims = <<>> /\ ~Applying /\ Up /\ live \in SUBSET Uuids
    BY DEF Confirmed, Batching, DurabilityInv, Quiescent, Applying, Up, TypeInv, TypeOK
  <2>2. \A u \in Uuids : ~Owing(u) /\ ~Evicted(u)
    BY <2>1 DEF Owing, PendingTombstone, NoRemovalInFlight, Queued, Evicted
  <2> QED
    BY <2>1, <2>2 DEF DiskFollows, Logged, Explained
<1> HIDE DEF Inv
<1> QED
  BY <1>1, <1>2, <1>3, PTL DEF Spec

=============================================================================
