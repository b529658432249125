--------------------------- MODULE GroupCommitWal ---------------------------
(***************************************************************************)
(* One FerroCache node: the group-commit flush task (wal.rs), the          *)
(* snapshot and compaction code (snapshot.rs), start-up replay and the TTL *)
(* reaper (main.rs), and the HTTP handlers that change the cache           *)
(* (server.rs), around one shared index.                                   *)
(*                                                                         *)
(* The index is abstracted to the set of UUIDs it holds and the dimension  *)
(* each namespace has fixed; what it does inside is module SemanticIndex.  *)
(* A UUID stands for an entry: its namespace, embedding dimension and      *)
(* whether it has a TTL are fixed by constants.                            *)
(*                                                                         *)
(* The node may crash between any two steps and while it writes to disk,   *)
(* and an I/O call may fail; both are bounded.                             *)
(***************************************************************************)
EXTENDS Integers, Sequences, FiniteSets

CONSTANTS
    Uuids,            \* entry identifiers
    Namespaces,       \* effective namespaces (model_id, scope, conversation)
    ConvNamespaces,   \* the ones whose key contains "::conv_"
    NsOf,             \* NsOf[u]: the namespace of entry u
    DimOf,            \* DimOf[u]: the length of u's embedding
    TtlUuids,         \* the entries inserted with a TTL
    NonFinite,        \* the entries whose embedding holds an infinite f32
    Matching,         \* the entries an invalidation request may match
    Handlers,         \* concurrent HTTP requests
    Janitor,          \* main's start-up expiry pass, then the TTL reaper
    BatchSize,        \* wal_batch_size
    ChannelCapacity,  \* capacity of the mpsc channel
    CompactInterval,  \* compact_interval_inserts, 0 = off
    MaxEntries,       \* max_entries_per_namespace; Cardinality(Uuids) = off
    MaxSequence,      \* u64::MAX, made small
    MaxCrashes,       \* bound on crashes
    MaxFaults,        \* bound on I/O failures and dropped connections
    FaultKinds,       \* the kinds of failure a configuration allows
    Nil

Tasks == Handlers \cup {Janitor}

AllFaultKinds ==
    {"write", "torn", "torn_char", "snapshot", "truncate", "read_snapshot",
     "disconnect"}

ASSUME NodeAssumption ==
    /\ ConvNamespaces \subseteq Namespaces
    /\ NsOf \in [Uuids -> Namespaces]
    /\ DimOf \in [Uuids -> Nat \ {0}]
    /\ TtlUuids \subseteq Uuids
    /\ NonFinite \subseteq Uuids
    /\ Matching \subseteq Uuids
    /\ Janitor \notin Handlers
    /\ BatchSize \in Nat \ {0}
    /\ ChannelCapacity \in Nat \ {0}
    /\ CompactInterval \in Nat
    /\ MaxEntries \in Nat
    /\ MaxSequence \in Nat
    /\ MaxCrashes \in Nat
    /\ MaxFaults \in Nat
    /\ FaultKinds \subseteq AllFaultKinds

ASSUME NilAssumption ==
    /\ Nil \notin Uuids
    /\ Nil \notin Tasks

-----------------------------------------------------------------------------

VARIABLES
    (* on disk *)
    wal,                    \* the lines of the WAL file
    eol,                    \* the WAL file is empty or ends with a newline
    snapshot,               \* the entries of the snapshot file
    snapshot_sequence,      \* its wal_sequence header; 0 = no snapshot
    (* the index *)
    live,                   \* the UUIDs in the side tables
    dimension,              \* dimension[ns]; 0 = None or no such namespace
    expired,                \* entries whose expires_at lies in the past
    (* the flush task, and main before it *)
    pc,
    batch,                  \* the requests taken and not yet applied
    pending_compact,        \* <<>> or <<request>>
    compaction,             \* why snapshot_compact runs: "auto", "request"
    inserts_since_compact,  \* counted up to CompactInterval
    sequence,               \* Wal.sequence (max_seq while main replays)
    victims,                \* evicted, tombstones not written yet
    watermark,              \* main's watermark
    cursor,                 \* lines of the WAL that main has replayed
    (* the clients of the flush task *)
    channel,                \* the mpsc channel
    task,                   \* where each handler and the janitor are
    serving,                \* the listener is bound
    (* bounds *)
    crashes, faults,
    (* history *)
    acked,                  \* inserts answered Ok and not removed since
    removal                 \* how far the last removal of each entry got

diskVars    == <<wal, eol, snapshot, snapshot_sequence>>
indexVars   == <<live, dimension>>
loopVars    == <<batch, pending_compact, compaction, inserts_since_compact,
                 sequence, victims>>
bootVars    == <<watermark, cursor>>
clientVars  == <<channel, task, serving>>
boundVars   == <<crashes, faults>>
historyVars == <<acked, removal>>

vars == <<diskVars, indexVars, expired, pc, loopVars, bootVars, clientVars,
          boundVars, historyVars>>

-----------------------------------------------------------------------------
(* Requests, WAL lines and how lines reach the disk. *)

\* WalCommand: the oneshot sender is the task to answer, Nil if it has gone.
InsertRequest == [op : {"insert", "tombstone"}, uuid : Uuids,
                  from : Tasks \cup {Nil}]
CompactRequest == [op : {"compact"}, uuid : {Nil}, from : Tasks \cup {Nil}]
WalCommand == InsertRequest \cup CompactRequest

\* WalEntry as a line of the file. A line that does not parse is Corrupt; one
\* that is not UTF-8, because it was cut inside a character, is Unreadable.
Corrupt == [op |-> "corrupt", uuid |-> Nil, seq |-> 0]
Unreadable == [op |-> "unreadable", uuid |-> Nil, seq |-> 0]
WalEntry == [op : {"insert", "tombstone"}, uuid : Uuids, seq : 1..MaxSequence]
Line == WalEntry \cup {Corrupt, Unreadable}

\* The batch stamped with the sequence numbers that follow base.
Stamped(reqs, base) ==
    [i \in 1..Len(reqs) |->
        [op |-> reqs[i].op, uuid |-> reqs[i].uuid, seq |-> base + i]]

\* Tombstones for the evicted entries, stamped likewise.
TombstoneLines(us, base) ==
    [i \in 1..Len(us) |->
        [op |-> "tombstone", uuid |-> us[i], seq |-> base + i]]

\* What a cut leaves of a line: with "torn" a piece of it or all of it but its
\* newline, with "torn_char" a piece that ends inside a character.
Pieces(line) ==
    (IF "torn" \in FaultKinds THEN {Corrupt, line} ELSE {})
    \cup (IF "torn_char" \in FaultKinds THEN {Unreadable} ELSE {})

\* What a write that is cut short leaves behind: a prefix of whole lines, then
\* perhaps a piece of the next one.
Landings(lines) ==
    {[lines |-> SubSeq(lines, 1, k), eol |-> TRUE] : k \in 0..Len(lines)}
    \cup
    UNION {{[lines |-> Append(SubSeq(lines, 1, k), piece), eol |-> FALSE] :
              piece \in Pieces(lines[k + 1])} : k \in 0..(Len(lines) - 1)}

Whole(lines) == [lines |-> lines, eol |-> TRUE]

\* The joined line does not parse, and is no UTF-8 if either part is not.
Joined(last, first) ==
    IF Unreadable \in {last, first} THEN Unreadable ELSE Corrupt

\* The file is opened with O_APPEND: bytes after an unterminated last line
\* continue that line.
Land(landing) ==
    IF landing.lines = <<>>
    THEN UNCHANGED <<wal, eol>>
    ELSE /\ wal' = IF eol
                   THEN wal \o landing.lines
                   ELSE SubSeq(wal, 1, Len(wal) - 1)
                            \o <<Joined(wal[Len(wal)], Head(landing.lines))>>
                            \o Tail(landing.lines)
         /\ eol' = landing.eol

\* serde_json writes an infinite f32 as null, which does not read back as f32.
Readable(line) ==
    /\ line.op \notin {"corrupt", "unreadable"}
    /\ line.op = "insert" => line.uuid \notin NonFinite

Fits(n) == sequence + n <= MaxSequence

Fault(kind) ==
    /\ kind \in FaultKinds
    /\ faults < MaxFaults
    /\ faults' = faults + 1
    /\ UNCHANGED crashes

-----------------------------------------------------------------------------
(* The index. *)

\* A write guard of the RwLock is held, or a read guard across the compaction.
WriteLocked == pc \in {"apply", "evicting"}
IndexLocked == WriteLocked \/ pc \in {"snapshot", "truncate"}

In(ns, S) == {u \in S : NsOf[u] = ns}

\* insert_with_uuid: the first entry fixes the namespace's dimension.
Accepts(dims, u) == dims[NsOf[u]] \in {0, DimOf[u]}

DimensionsOf(S) ==
    [ns \in Namespaces |->
        IF In(ns, S) = {} THEN 0 ELSE DimOf[CHOOSE u \in In(ns, S) : TRUE]]

-----------------------------------------------------------------------------
(* Replies, removals and their history. *)

\* Where a handler or the janitor is: "resolved" between the two halves of a
\* delete, "sweep" with the tombstones it still has to send in todo, "wait"
\* for the reply to the request about uuid.
TaskState == [state : {"idle", "resolved", "sweep", "wait"},
              todo : SUBSET Uuids, uuid : Uuids \cup {Nil}]

Idle == [state |-> "idle", todo |-> {}, uuid |-> Nil]

Waiting(u) == [state |-> "wait", todo |-> {}, uuid |-> u]

Sweeping(S) == IF S = {} THEN Idle
               ELSE [state |-> "sweep", todo |-> S, uuid |-> Nil]

\* A oneshot reply: the task resumes, with the tombstones it still has to send.
Answered(froms) ==
    [t \in Tasks |->
        IF t \in froms THEN Sweeping(task[t].todo) ELSE task[t]]

IsFor(req, op, u) == req.op = op /\ req.uuid = u

Queued(reqs, op, u) == \E i \in DOMAIN reqs : IsFor(reqs[i], op, u)

\* u has been removed from memory and its tombstone is on its way to the WAL.
PendingTombstone(u, rest) ==
    \/ Queued(channel, "tombstone", u)
    \/ Queued(rest, "tombstone", u)
    \/ \E t \in Tasks : u \in task[t].todo

\* Task t removes the entries S from the index and owes their tombstones.
BeginRemoval(t, S) ==
    /\ live' = live \ S
    /\ acked' = acked \ S
    /\ removal' = [u \in Uuids |-> IF u \in S THEN "begun" ELSE removal[u]]
    /\ task' = [task EXCEPT ![t] = Sweeping(S)]

-----------------------------------------------------------------------------
(* HTTP handlers. *)

CanSend == Len(channel) < ChannelCapacity

\* local_insert_inner (also the insert half of read repair): queue the entry
\* and wait for the flush task. A UUID may be sent again (a retried
\* replication call), but not once its deadline has passed.
SubmitInsert(h, u) ==
    /\ serving
    /\ task[h].state = "idle"
    /\ u \notin expired
    /\ CanSend
    /\ channel' = Append(channel, [op |-> "insert", uuid |-> u, from |-> h])
    /\ task' = [task EXCEPT ![h] = Waiting(u)]
    /\ removal' = [removal EXCEPT ![u] = "none"]
    /\ UNCHANGED <<diskVars, indexVars, expired, pc, loopVars, bootVars,
                   serving, boundVars, acked>>

\* compact_handler
SubmitCompact(h) ==
    /\ serving
    /\ task[h].state = "idle"
    /\ CanSend
    /\ channel' = Append(channel, [op |-> "compact", uuid |-> Nil, from |-> h])
    /\ task' = [task EXCEPT ![h] = Waiting(Nil)]
    /\ UNCHANGED <<diskVars, indexVars, expired, pc, loopVars, bootVars,
                   serving, boundVars, historyVars>>

\* delete_entry_handler, first half: resolve the namespace under a read lock;
\* an unknown UUID is a 404 and changes nothing.
DeleteResolve(h, u) ==
    /\ serving
    /\ task[h].state = "idle"
    /\ ~WriteLocked
    /\ u \in live
    /\ task' = [task EXCEPT ![h] =
                  [state |-> "resolved", todo |-> {}, uuid |-> u]]
    /\ UNCHANGED <<diskVars, indexVars, expired, pc, loopVars, bootVars,
                   channel, serving, boundVars, historyVars>>

\* delete_entry_handler, second half: remove under the write lock. The entry
\* may have gone, or have been inserted again, since it was resolved.
DeleteRemove(h) ==
    /\ task[h].state = "resolved"
    /\ ~IndexLocked
    /\ BeginRemoval(h, {task[h].uuid})
    /\ UNCHANGED <<diskVars, dimension, expired, pc, loopVars, bootVars,
                   channel, serving, boundVars>>

\* invalidate_handler, which takes no conversation id: the unexpired entries
\* of one namespace that are similar enough (any subset of those that may
\* match) go under one write lock.
Invalidate(h, ns, S) ==
    /\ serving
    /\ task[h].state = "idle"
    /\ ~IndexLocked
    /\ ns \notin ConvNamespaces
    /\ S # {}
    /\ S \subseteq (In(ns, live) \ expired) \cap Matching
    /\ BeginRemoval(h, S)
    /\ UNCHANGED <<diskVars, dimension, expired, pc, loopVars, bootVars,
                   channel, serving, boundVars>>

\* delete, invalidate, the reaper and main's start-up pass send one tombstone
\* at a time and wait for each reply.
SendTombstone(t) ==
    /\ task[t].state = "sweep"
    /\ CanSend
    /\ \E u \in task[t].todo :
         /\ channel' = Append(channel,
                         [op |-> "tombstone", uuid |-> u, from |-> t])
         /\ task' = [task EXCEPT ![t] = [state |-> "wait",
                                         todo |-> task[t].todo \ {u},
                                         uuid |-> u]]
    /\ UNCHANGED <<diskVars, indexVars, expired, pc, loopVars, bootVars,
                   serving, boundVars, historyVars>>

\* The receiver of h's reply is gone; sending to it is a no-op.
Orphaned(reqs, h) ==
    [i \in DOMAIN reqs |->
        [reqs[i] EXCEPT !.from = IF @ = h THEN Nil ELSE @]]

\* The client goes away: the server drops the handler's future where it
\* awaits. What it has queued stays queued; what it still owed is never sent.
Disconnect(h) ==
    /\ Fault("disconnect")
    /\ task[h].state # "idle"
    /\ task' = [task EXCEPT ![h] = Idle]
    /\ channel' = Orphaned(channel, h)
    /\ batch' = Orphaned(batch, h)
    /\ pending_compact' = Orphaned(pending_compact, h)
    /\ UNCHANGED <<diskVars, indexVars, expired, pc, compaction,
                   inserts_since_compact, sequence, victims, bootVars,
                   serving, historyVars>>

-----------------------------------------------------------------------------
(* Time and the reaper. *)

\* The wall clock passes u's expires_at.
Expire(u) ==
    /\ u \in TtlUuids \ expired
    /\ expired' = expired \cup {u}
    /\ UNCHANGED <<diskVars, indexVars, pc, loopVars, bootVars, clientVars,
                   boundVars, historyVars>>

\* Mutant: the sweep passes over the conversation namespaces.
ReaperSweep_BaseOnly ==
    /\ serving
    /\ task[Janitor].state = "idle"
    /\ ~IndexLocked
    /\ BeginRemoval(Janitor,
           {u \in live \cap expired : NsOf[u] \notin ConvNamespaces})
    /\ UNCHANGED <<diskVars, dimension, expired, pc, loopVars, bootVars,
                   channel, serving, boundVars>>

\* One tick of expiry_reaper_loop: collect_expired, rebuild_dirty_namespaces,
\* prune_empty_namespaces under one write lock, then the tombstones. An
\* emptied namespace holds only ghosts, so the rebuild always clears it.
ReaperSweep ==
    /\ serving
    /\ task[Janitor].state = "idle"
    /\ ~IndexLocked
    /\ BeginRemoval(Janitor, live \cap expired)
    /\ dimension' = [ns \in Namespaces |->
                       IF ns \in ConvNamespaces /\ In(ns, live \ expired) = {}
                       THEN 0 ELSE dimension[ns]]
    /\ UNCHANGED <<diskVars, expired, pc, loopVars, bootVars, channel,
                   serving, boundVars>>

-----------------------------------------------------------------------------
(* The flush task: taking requests. *)

\* The first command of a round; a compaction runs at once.
RecvFirst ==
    /\ pc = "recv"
    /\ channel # <<>>
    /\ channel' = Tail(channel)
    /\ IF Head(channel).op = "compact"
       THEN /\ pending_compact' = <<Head(channel)>>
            /\ pc' = "pending"
            /\ UNCHANGED batch
       ELSE /\ batch' = <<Head(channel)>>
            /\ pc' = "collect"
            /\ UNCHANGED pending_compact
    /\ UNCHANGED <<diskVars, indexVars, expired, compaction,
                   inserts_since_compact, sequence, victims, bootVars, task,
                   serving, boundVars, historyVars>>

\* More requests join the batch until it is full; a compaction closes it.
CollectMore ==
    /\ pc = "collect"
    /\ Len(batch) < BatchSize
    /\ channel # <<>>
    /\ channel' = Tail(channel)
    /\ IF Head(channel).op = "compact"
       THEN /\ pending_compact' = <<Head(channel)>>
            /\ pc' = "write"
            /\ UNCHANGED batch
       ELSE /\ batch' = Append(batch, Head(channel))
            /\ UNCHANGED <<pc, pending_compact>>
    /\ UNCHANGED <<diskVars, indexVars, expired, compaction,
                   inserts_since_compact, sequence, victims, bootVars, task,
                   serving, boundVars, historyVars>>

\* The batch is full or batch_timeout has passed.
CloseBatch ==
    /\ pc = "collect"
    /\ pc' = "write"
    /\ UNCHANGED <<diskVars, indexVars, expired, loopVars, bootVars,
                   clientVars, boundVars, historyVars>>

-----------------------------------------------------------------------------
(* The flush task: flush_insert_batch. *)

\* Mutant: the bytes are still in a buffer when the call returns.
WriteBatch_Buffered ==
    /\ pc = "write"
    /\ Fits(Len(batch))
    /\ sequence' = sequence + Len(batch)
    /\ pc' = "written"
    /\ UNCHANGED <<diskVars, indexVars, expired, batch, pending_compact,
                   compaction, inserts_since_compact, victims, bootVars,
                   clientVars, boundVars, historyVars>>

\* write_batch_bytes succeeds: all lines and one fsync.
WriteBatch ==
    /\ pc = "write"
    /\ Fits(Len(batch))
    /\ Land(Whole(Stamped(batch, sequence)))
    /\ sequence' = sequence + Len(batch)
    /\ pc' = "written"
    /\ UNCHANGED <<snapshot, snapshot_sequence, indexVars, expired, batch,
                   pending_compact, compaction, inserts_since_compact,
                   victims, bootVars, clientVars, boundVars, historyVars>>

\* Mutant: the requests of a failed batch are never answered.
RejectBatch_Silent ==
    /\ batch' = <<>>
    /\ pc' = "evict"
    /\ UNCHANGED <<snapshot, snapshot_sequence, indexVars, expired,
                   pending_compact, compaction, inserts_since_compact,
                   victims, bootVars, clientVars, historyVars>>

\* Every request of the batch is answered with InsertError::Wal.
RejectBatch ==
    /\ batch' = <<>>
    /\ task' = Answered({batch[i].from : i \in DOMAIN batch})
    /\ removal' = [u \in Uuids |->
                     IF Queued(batch, "tombstone", u) /\ removal[u] = "begun"
                     THEN "reported" ELSE removal[u]]
    /\ pc' = "evict"
    /\ UNCHANGED <<snapshot, snapshot_sequence, indexVars, expired,
                   pending_compact, compaction, inserts_since_compact,
                   victims, bootVars, channel, serving, acked>>

\* write_all or sync_data fails, after any part of the bytes has landed. The
\* sequence numbers stay used.
WriteBatchFails ==
    /\ pc = "write"
    /\ Fits(Len(batch))
    /\ Fault("write")
    /\ \E landing \in Landings(Stamped(batch, sequence)) : Land(landing)
    /\ sequence' = sequence + Len(batch)
    /\ RejectBatch

\* Mutant: the counter is incremented without a check.
SequenceOverflow_Unchecked ==
    /\ pc = "write"
    /\ ~Fits(Len(batch))
    /\ sequence' = sequence + Len(batch)
    /\ RejectBatch
    /\ UNCHANGED <<wal, eol, boundVars>>

\* next_sequence overflows while the batch is stamped: nothing is written.
SequenceOverflow ==
    /\ pc = "write"
    /\ ~Fits(Len(batch))
    /\ sequence' = MaxSequence
    /\ RejectBatch
    /\ UNCHANGED <<wal, eol, boundVars>>

CountApplied ==
    inserts_since_compact' =
        IF inserts_since_compact < CompactInterval
        THEN inserts_since_compact + 1 ELSE inserts_since_compact

\* replay_entry for the next request of the batch, under the write lock that
\* is held until the batch is done: an insert.
ApplyInsert ==
    /\ pc \in {"written", "apply"}
    /\ Head(batch).op = "insert"
    /\ LET u == Head(batch).uuid IN
         /\ IF Accepts(dimension, u)
            THEN /\ live' = live \cup {u}
                 /\ dimension' = [dimension EXCEPT ![NsOf[u]] = DimOf[u]]
                 /\ CountApplied
                 /\ acked' = IF PendingTombstone(u, Tail(batch))
                             THEN acked ELSE acked \cup {u}
                 /\ removal' = [removal EXCEPT ![u] = "none"]
            ELSE UNCHANGED <<indexVars, inserts_since_compact, historyVars>>
         /\ task' = Answered({Head(batch).from})
    /\ batch' = Tail(batch)
    /\ pc' = IF Len(batch) = 1 THEN "evict" ELSE "apply"
    /\ UNCHANGED <<diskVars, expired, pending_compact, compaction, sequence,
                   victims, bootVars, channel, serving, boundVars>>

\* Mutant: the index is left to whoever sent the tombstone.
ApplyTombstone_LogOnly ==
    /\ pc \in {"written", "apply"}
    /\ Head(batch).op = "tombstone"
    /\ removal' = [removal EXCEPT ![Head(batch).uuid] = "durable"]
    /\ task' = Answered({Head(batch).from})
    /\ CountApplied
    /\ batch' = Tail(batch)
    /\ pc' = IF Len(batch) = 1 THEN "evict" ELSE "apply"
    /\ UNCHANGED <<diskVars, indexVars, expired, pending_compact, compaction,
                   sequence, victims, bootVars, channel, serving, boundVars,
                   acked>>

\* The same for a tombstone, which removes and always succeeds.
ApplyTombstone ==
    /\ pc \in {"written", "apply"}
    /\ Head(batch).op = "tombstone"
    /\ LET u == Head(batch).uuid IN
         /\ live' = live \ {u}
         /\ removal' = [removal EXCEPT ![u] =
                          IF Queued(channel \o Tail(batch), "insert", u)
                          THEN @ ELSE "durable"]
         /\ task' = Answered({Head(batch).from})
    /\ CountApplied
    /\ batch' = Tail(batch)
    /\ pc' = IF Len(batch) = 1 THEN "evict" ELSE "apply"
    /\ UNCHANGED <<diskVars, dimension, expired, pending_compact, compaction,
                   sequence, victims, bootVars, channel, serving, boundVars,
                   acked>>

-----------------------------------------------------------------------------
(* The flush task: evict_to_cap_step. *)

OverCap == {ns \in Namespaces : Cardinality(In(ns, live)) > MaxEntries}

\* One victim of a namespace above its cap (any: the order is SemanticIndex's).
EvictOne ==
    /\ pc \in {"evict", "evicting"}
    /\ \E ns \in OverCap : \E u \in In(ns, live) :
         /\ live' = live \ {u}
         /\ acked' = acked \ {u}
         /\ removal' = [removal EXCEPT ![u] = "begun"]
         /\ victims' = Append(victims, u)
    /\ pc' = "evicting"
    /\ UNCHANGED <<diskVars, dimension, expired, batch, pending_compact,
                   compaction, inserts_since_compact, sequence, bootVars,
                   clientVars, boundVars>>

\* Every namespace is at or below its cap: release the lock.
EvictDone ==
    /\ pc \in {"evict", "evicting"}
    /\ OverCap = {}
    /\ pc' = IF victims = <<>> THEN "autocompact" ELSE "evict_write"
    /\ UNCHANGED <<diskVars, indexVars, expired, loopVars, bootVars,
                   clientVars, boundVars, historyVars>>

\* The tombstones of the victims go to the WAL with one fsync.
EvictWrite ==
    /\ pc = "evict_write"
    /\ Fits(Len(victims))
    /\ Land(Whole(TombstoneLines(victims, sequence)))
    /\ sequence' = sequence + Len(victims)
    /\ victims' = <<>>
    /\ removal' = [u \in Uuids |->
                     IF /\ \E i \in DOMAIN victims : victims[i] = u
                        /\ removal[u] = "begun"
                        /\ ~Queued(channel, "insert", u)
                     THEN "durable" ELSE removal[u]]
    /\ pc' = "autocompact"
    /\ UNCHANGED <<snapshot, snapshot_sequence, indexVars, expired, batch,
                   pending_compact, compaction, inserts_since_compact,
                   bootVars, clientVars, boundVars, acked>>

\* The write fails: logged, and the evictions stand without tombstones.
EvictWriteFails ==
    /\ pc = "evict_write"
    /\ Fits(Len(victims))
    /\ Fault("write")
    /\ \E landing \in Landings(TombstoneLines(victims, sequence)) :
         Land(landing)
    /\ sequence' = sequence + Len(victims)
    /\ victims' = <<>>
    /\ pc' = "autocompact"
    /\ UNCHANGED <<snapshot, snapshot_sequence, indexVars, expired, batch,
                   pending_compact, compaction, inserts_since_compact,
                   bootVars, clientVars, historyVars>>

\* next_sequence overflows: the same, with nothing written.
EvictOverflow ==
    /\ pc = "evict_write"
    /\ ~Fits(Len(victims))
    /\ sequence' = MaxSequence
    /\ victims' = <<>>
    /\ pc' = "autocompact"
    /\ UNCHANGED <<diskVars, indexVars, expired, batch, pending_compact,
                   compaction, inserts_since_compact, bootVars, clientVars,
                   boundVars, historyVars>>

-----------------------------------------------------------------------------
(* The flush task: compaction. *)

\* The automatic threshold, tested after every batch.
AutoCompact ==
    /\ pc = "autocompact"
    /\ IF CompactInterval > 0 /\ inserts_since_compact >= CompactInterval
       THEN /\ inserts_since_compact' = 0
            /\ compaction' = "auto"
            /\ pc' = "snapshot"
       ELSE /\ pc' = "pending"
            /\ UNCHANGED <<inserts_since_compact, compaction>>
    /\ UNCHANGED <<diskVars, indexVars, expired, batch, pending_compact,
                   sequence, victims, bootVars, clientVars, boundVars,
                   historyVars>>

\* Mutant: the round ends without looking at the requested compaction.
RunPending_Skipped ==
    /\ pc = "pending"
    /\ pc' = "recv"
    /\ UNCHANGED <<diskVars, indexVars, expired, loopVars, bootVars,
                   clientVars, boundVars, historyVars>>

\* run_compact for a requested compaction, or the end of the round.
RunPending ==
    /\ pc = "pending"
    /\ IF pending_compact = <<>>
       THEN pc' = "recv" /\ UNCHANGED compaction
       ELSE pc' = "snapshot" /\ compaction' = "request"
    /\ UNCHANGED <<diskVars, indexVars, expired, batch, pending_compact,
                   inserts_since_compact, sequence, victims, bootVars,
                   clientVars, boundVars, historyVars>>

\* What follows a compaction, successful or not: an automatic one returns to
\* the loop, a requested one is answered and resets the counter.
FinishCompaction ==
    IF compaction = "auto"
    THEN /\ pc' = "pending"
         /\ UNCHANGED <<pending_compact, inserts_since_compact, task>>
    ELSE /\ pc' = "recv"
         /\ pending_compact' = <<>>
         /\ inserts_since_compact' = 0
         /\ task' = Answered({Head(pending_compact).from})

\* Mutant: the header takes the sequence number of the next entry.
WriteSnapshot_NextSequence ==
    /\ pc = "snapshot"
    /\ snapshot' = live
    /\ snapshot_sequence' = sequence + 1
    /\ pc' = "truncate"
    /\ UNCHANGED <<wal, eol, indexVars, expired, loopVars, bootVars,
                   clientVars, boundVars, historyVars>>

\* write_snapshot: temporary file, fsync, rename over the old snapshot.
WriteSnapshot ==
    /\ pc = "snapshot"
    /\ snapshot' = live
    /\ snapshot_sequence' = sequence
    /\ pc' = "truncate"
    /\ UNCHANGED <<wal, eol, indexVars, expired, loopVars, bootVars,
                   clientVars, boundVars, historyVars>>

\* Mutant: the error is logged and the WAL truncated all the same.
WriteSnapshotFails_Ignored ==
    /\ pc = "snapshot"
    /\ Fault("snapshot")
    /\ pc' = "truncate"
    /\ UNCHANGED <<diskVars, indexVars, expired, loopVars, bootVars,
                   clientVars, historyVars>>

\* write_snapshot fails before the rename: the old snapshot stays.
WriteSnapshotFails ==
    /\ pc = "snapshot"
    /\ Fault("snapshot")
    /\ FinishCompaction
    /\ UNCHANGED <<diskVars, indexVars, expired, batch, compaction, sequence,
                   victims, bootVars, channel, serving, historyVars>>

\* Mutant: an empty WAL starts counting from the beginning.
Truncate_ResetsSequence ==
    /\ pc = "truncate"
    /\ wal' = <<>>
    /\ eol' = TRUE
    /\ sequence' = 0
    /\ FinishCompaction
    /\ UNCHANGED <<snapshot, snapshot_sequence, indexVars, expired, batch,
                   compaction, victims, bootVars, channel, serving, boundVars,
                   historyVars>>

\* Wal::truncate; the sequence counter goes on.
Truncate ==
    /\ pc = "truncate"
    /\ wal' = <<>>
    /\ eol' = TRUE
    /\ FinishCompaction
    /\ UNCHANGED <<snapshot, snapshot_sequence, indexVars, expired, batch,
                   compaction, sequence, victims, bootVars, channel, serving,
                   boundVars, historyVars>>

\* Wal::truncate fails before or after the file was emptied; the old append
\* handle stays in use on the same file.
TruncateFails ==
    /\ pc = "truncate"
    /\ Fault("truncate")
    /\ \/ wal' = <<>> /\ eol' = TRUE
       \/ UNCHANGED <<wal, eol>>
    /\ FinishCompaction
    /\ UNCHANGED <<snapshot, snapshot_sequence, indexVars, expired, batch,
                   compaction, sequence, victims, bootVars, channel, serving,
                   historyVars>>

-----------------------------------------------------------------------------
(* Start-up. *)

\* Mutant: max_seq starts at zero and not at the snapshot's watermark.
LoadSnapshot_SequenceZero ==
    /\ pc = "boot"
    /\ live' = snapshot
    /\ dimension' = DimensionsOf(snapshot)
    /\ watermark' = snapshot_sequence
    /\ pc' = "replay"
    /\ UNCHANGED <<diskVars, expired, loopVars, cursor, clientVars, boundVars,
                   historyVars>>

\* main reads the snapshot into an empty index.
LoadSnapshot ==
    /\ pc = "boot"
    /\ live' = snapshot
    /\ dimension' = DimensionsOf(snapshot)
    /\ watermark' = snapshot_sequence
    /\ sequence' = snapshot_sequence
    /\ pc' = "replay"
    /\ UNCHANGED <<diskVars, expired, batch, pending_compact, compaction,
                   inserts_since_compact, victims, cursor, clientVars,
                   boundVars, historyVars>>

\* read_snapshot fails: a warning, and the whole WAL is replayed instead.
LoadSnapshotFails ==
    /\ pc = "boot"
    /\ snapshot_sequence > 0
    /\ Fault("read_snapshot")
    /\ pc' = "replay"
    /\ UNCHANGED <<diskVars, indexVars, expired, loopVars, bootVars,
                   clientVars, historyVars>>

\* Mutants: the line at the watermark is applied again; a tombstone is passed
\* over.
ReplayLine_AtWatermark ==
    /\ pc = "replay"
    /\ cursor < Len(wal)
    /\ wal[cursor + 1].op # "unreadable"
    /\ LET line == wal[cursor + 1] IN
         IF Readable(line) /\ line.seq >= watermark
         THEN /\ sequence' = IF line.seq > sequence THEN line.seq ELSE sequence
              /\ live' = IF line.op = "tombstone" THEN live \ {line.uuid}
                         ELSE live \cup {line.uuid}
         ELSE UNCHANGED <<live, sequence>>
    /\ cursor' = cursor + 1
    /\ UNCHANGED <<diskVars, dimension, expired, pc, batch, pending_compact,
                   compaction, inserts_since_compact, victims, watermark,
                   clientVars, boundVars, historyVars>>

ReplayLine_InsertsOnly ==
    /\ pc = "replay"
    /\ cursor < Len(wal)
    /\ wal[cursor + 1].op # "unreadable"
    /\ LET line == wal[cursor + 1] IN
         IF Readable(line) /\ line.seq > watermark
         THEN /\ sequence' = IF line.seq > sequence THEN line.seq ELSE sequence
              /\ live' = IF line.op = "tombstone" THEN live
                         ELSE live \cup {line.uuid}
         ELSE UNCHANGED <<live, sequence>>
    /\ cursor' = cursor + 1
    /\ UNCHANGED <<diskVars, dimension, expired, pc, batch, pending_compact,
                   compaction, inserts_since_compact, victims, watermark,
                   clientVars, boundVars, historyVars>>

\* One line of Wal::replay and of main's loop over it; a line that does not
\* parse is skipped.
ReplayLine ==
    /\ pc = "replay"
    /\ cursor < Len(wal)
    /\ wal[cursor + 1].op # "unreadable"
    /\ LET line == wal[cursor + 1] IN
         IF Readable(line) /\ line.seq > watermark
         THEN /\ sequence' = IF line.seq > sequence THEN line.seq ELSE sequence
              /\ IF line.op = "tombstone"
                 THEN live' = live \ {line.uuid} /\ UNCHANGED dimension
                 ELSE IF Accepts(dimension, line.uuid)
                 THEN /\ live' = live \cup {line.uuid}
                      /\ dimension' = [dimension EXCEPT ![NsOf[line.uuid]] =
                                         DimOf[line.uuid]]
                 ELSE UNCHANGED indexVars
         ELSE UNCHANGED <<indexVars, sequence>>
    /\ cursor' = cursor + 1
    /\ UNCHANGED <<diskVars, expired, pc, batch, pending_compact, compaction,
                   inserts_since_compact, victims, watermark, clientVars,
                   boundVars, historyVars>>

\* next_line fails on a line that is not UTF-8: Wal::replay returns the error,
\* main exits, and the process is started again on the same disk.
ReplayFails ==
    /\ pc = "replay"
    /\ cursor < Len(wal)
    /\ wal[cursor + 1].op = "unreadable"
    /\ live' = {}
    /\ dimension' = [ns \in Namespaces |-> 0]
    /\ pc' = "boot"
    /\ sequence' = 0
    /\ watermark' = 0
    /\ cursor' = 0
    /\ UNCHANGED <<diskVars, expired, batch, pending_compact, compaction,
                   inserts_since_compact, victims, clientVars, boundVars,
                   historyVars>>

\* The one-shot expiry pass, then the flush task is spawned; the tombstones
\* are sent before the listener binds.
StartupExpiry ==
    /\ pc = "replay"
    /\ cursor = Len(wal)
    /\ BeginRemoval(Janitor, live \cap expired)
    /\ pc' = "recv"
    /\ UNCHANGED <<diskVars, dimension, expired, loopVars, bootVars, channel,
                   serving, boundVars>>

\* The listener binds once the start-up tombstones are answered.
Listen ==
    /\ ~serving
    /\ pc \notin {"boot", "replay"}
    /\ task[Janitor].state = "idle"
    /\ serving' = TRUE
    /\ UNCHANGED <<diskVars, indexVars, expired, pc, loopVars, bootVars,
                   channel, task, boundVars, historyVars>>

-----------------------------------------------------------------------------
(* Crashes. *)

\* The lines a write in progress is putting on disk.
LinesInFlight ==
    CASE pc = "write" /\ Fits(Len(batch)) -> Stamped(batch, sequence)
      [] pc = "evict_write" /\ Fits(Len(victims)) ->
             TombstoneLines(victims, sequence)
      [] OTHER -> <<>>

\* The process dies at any moment, in the middle of a write too; it is started
\* again with an empty memory and the disk as it is.
Crash ==
    /\ crashes < MaxCrashes
    /\ crashes' = crashes + 1
    /\ \E landing \in Landings(LinesInFlight) : Land(landing)
    /\ live' = {}
    /\ dimension' = [ns \in Namespaces |-> 0]
    /\ pc' = "boot"
    /\ batch' = <<>>
    /\ pending_compact' = <<>>
    /\ compaction' = "auto"
    /\ inserts_since_compact' = 0
    /\ sequence' = 0
    /\ victims' = <<>>
    /\ watermark' = 0
    /\ cursor' = 0
    /\ channel' = <<>>
    /\ task' = [t \in Tasks |-> Idle]
    /\ serving' = FALSE
    /\ UNCHANGED <<snapshot, snapshot_sequence, expired, faults, historyVars>>

-----------------------------------------------------------------------------

\* The first start, on an empty directory.
Init ==
    /\ wal = <<>>
    /\ eol = TRUE
    /\ snapshot = {}
    /\ snapshot_sequence = 0
    /\ live = {}
    /\ dimension = [ns \in Namespaces |-> 0]
    /\ expired = {}
    /\ pc = "boot"
    /\ batch = <<>>
    /\ pending_compact = <<>>
    /\ compaction = "auto"
    /\ inserts_since_compact = 0
    /\ sequence = 0
    /\ victims = <<>>
    /\ watermark = 0
    /\ cursor = 0
    /\ channel = <<>>
    /\ task = [t \in Tasks |-> Idle]
    /\ serving = FALSE
    /\ crashes = 0
    /\ faults = 0
    /\ acked = {}
    /\ removal = [u \in Uuids |-> "none"]

Boot ==
    \/ LoadSnapshot
    \/ LoadSnapshotFails
    \/ ReplayLine
    \/ ReplayFails
    \/ StartupExpiry

Flush ==
    \/ RecvFirst
    \/ CollectMore
    \/ CloseBatch
    \/ WriteBatch
    \/ WriteBatchFails
    \/ SequenceOverflow
    \/ ApplyInsert
    \/ ApplyTombstone
    \/ EvictOne
    \/ EvictDone
    \/ EvictWrite
    \/ EvictWriteFails
    \/ EvictOverflow
    \/ AutoCompact
    \/ RunPending
    \/ WriteSnapshot
    \/ WriteSnapshotFails
    \/ Truncate
    \/ TruncateFails

Handler(h) ==
    \/ \E u \in Uuids : SubmitInsert(h, u)
    \/ SubmitCompact(h)
    \/ \E u \in Uuids : DeleteResolve(h, u)
    \/ DeleteRemove(h)
    \/ \E ns \in Namespaces : \E S \in SUBSET Uuids : Invalidate(h, ns, S)
    \/ Disconnect(h)

Next ==
    \/ Boot
    \/ Flush
    \/ Listen
    \/ ReaperSweep
    \/ \E t \in Tasks : SendTombstone(t)
    \/ \E h \in Handlers : Handler(h)
    \/ \E u \in TtlUuids : Expire(u)
    \/ Crash

Spec == Init /\ [][Next]_vars

\* The runtime keeps polling main, the flush task and the reaper. A full
\* channel and the index lock admit waiters in FIFO order, so a task that waits
\* for either is served although others keep arriving (strong fairness).
\* Nothing is assumed of clients, crashes, failures or the clock.
Fairness ==
    /\ WF_vars(Boot)
    /\ WF_vars(Flush)
    /\ WF_vars(Listen)
    /\ SF_vars(ReaperSweep)
    /\ \A t \in Tasks : SF_vars(SendTombstone(t))
    /\ \A h \in Handlers : SF_vars(DeleteRemove(h))

FairSpec == Spec /\ Fairness

-----------------------------------------------------------------------------
(* Properties. *)

Control == {"boot", "replay", "recv", "collect", "write", "written", "apply",
            "evict", "evicting", "evict_write", "autocompact", "snapshot",
            "truncate", "pending"}

\* Every variable has the type of the Rust value it stands for.
TypeOK ==
    /\ wal \in Seq(Line)
    /\ eol \in BOOLEAN
    /\ snapshot \in SUBSET Uuids
    /\ snapshot_sequence \in 0..MaxSequence
    /\ live \in SUBSET Uuids
    /\ dimension \in [Namespaces -> Nat]
    /\ expired \in SUBSET TtlUuids
    /\ pc \in Control
    /\ batch \in Seq(InsertRequest)
    /\ pending_compact \in Seq(CompactRequest)
    /\ compaction \in {"auto", "request"}
    /\ inserts_since_compact \in 0..CompactInterval
    /\ sequence \in 0..MaxSequence
    /\ victims \in Seq(Uuids)
    /\ watermark \in 0..MaxSequence
    /\ cursor \in Nat
    /\ channel \in Seq(WalCommand)
    /\ task \in [Tasks -> TaskState]
    /\ serving \in BOOLEAN
    /\ crashes \in 0..MaxCrashes
    /\ faults \in 0..MaxFaults
    /\ acked \in SUBSET Uuids
    /\ removal \in [Uuids -> {"none", "begun", "reported", "durable"}]

\* The flush task runs: the index is the one requests see.
Up == pc \notin {"boot", "replay"}

\* What the disk says of an entry, without replaying it: the last word on it
\* in the readable tail of the first n WAL lines, or else in the snapshot.
InTail(i) == Readable(wal[i]) /\ wal[i].seq > snapshot_sequence

OnDiskAfter(n, u) ==
    \/ \E i \in 1..n :
         /\ InTail(i) /\ IsFor(wal[i], "insert", u)
         /\ \A j \in (i + 1)..n : ~(InTail(j) /\ IsFor(wal[j], "tombstone", u))
    \/ /\ u \in snapshot
       /\ \A j \in 1..n : ~(InTail(j) /\ IsFor(wal[j], "tombstone", u))

OnDisk(u) == OnDiskAfter(Len(wal), u)

\* An insert that was answered Ok and not removed since is in the index
\* whenever the node is up, after any number of crashes (wal.rs acknowledges
\* after the fsync; main.rs replays before it serves).
AckedInsertsSurvive == Up => acked \subseteq live

\* It is on disk at every moment, also in the middle of a batch write, of a
\* compaction and of a replay: no crash point loses it.
AckedInsertsDurable == \A u \in acked : OnDisk(u)

\* A removal whose tombstone was answered Ok is never undone by a restart.
ConfirmedRemovalsSurvive ==
    Up => \A u \in Uuids : removal[u] = "durable" => u \notin live

\* Replaying snapshot and WAL, with the watermark skip and tombstones, arrives
\* at exactly the entries the disk contents mean.
RecoveredMatchesDisk ==
    (pc = "replay" /\ cursor = Len(wal)) => live = {u \in Uuids : OnDisk(u)}

\* Sequence numbers are never reused, across restarts and failed truncations:
\* the WAL's lines increase, and the counter is at or above all of them and
\* above the snapshot's watermark before the next batch is stamped.
SequencesIncrease ==
    /\ \A i, j \in 1..Len(wal) :
         (i < j /\ wal[i] \in WalEntry /\ wal[j] \in WalEntry)
            => wal[i].seq < wal[j].seq
    /\ Up => /\ snapshot_sequence <= sequence
             /\ \A i \in 1..Len(wal) : wal[i].seq <= sequence

Promise == INSTANCE DurableCache WITH
    up <- Up,
    contents <- IF Up THEN live ELSE {},
    promised <- acked,
    gone <- {u \in Uuids : removal[u] = "durable"}

\* Batches, log, snapshot, compaction, eviction and replay cannot be seen from
\* outside: every step of the node is one its clients were promised. A crash
\* loses nothing acknowledged and brings back nothing whose removal was
\* confirmed; what a client was told nothing of may be there or not.
ImplementsDurableCache == Promise!Spec

\* No removal is half way: no tombstone is owed, queued or being applied.
NoRemovalInFlight ==
    /\ \A t \in Tasks : task[t].todo = {}
    /\ \A u \in Uuids : ~Queued(channel, "tombstone", u)

\* With no batch in progress and no removal half way, a restart at this moment
\* would bring back exactly what the node is serving, whatever the order in
\* which deletes, sweeps, evictions and re-inserts raced for the channel
\* (until the sequence counter is exhausted and nothing is logged any more).
DiskMatchesMemoryAtRest ==
    (pc = "recv" /\ NoRemovalInFlight /\ sequence < MaxSequence)
        => live = {u \in Uuids : OnDisk(u)}

\* What docs/features/eviction-ttl.md says: a restarted node never brings back
\* a removed entry. (Every removal path changes memory before the tombstone is
\* durable.)
RemovedStaysRemoved ==
    Up => \A u \in Uuids : removal[u] # "none" => u \notin live

\* Every request and every sweep in progress comes to an end: neither the
\* bounded channel nor the index lock nor a compaction strands a waiter.
EveryRequestAnswered ==
    \A t \in Tasks : (task[t].state # "idle") ~> (task[t].state = "idle")

\* Once its deadline has passed an entry leaves the index of the running node
\* for good, although an insert of it may still be queued and a tombstone may
\* be lost.
ExpiredReaped ==
    \A u \in TtlUuids : (u \in expired) ~> [](Up => u \notin live)

\* A start gets as far as binding the listener, whatever failures and torn
\* lines came before it, unless the log holds a line that is not UTF-8.
RestartCompletes ==
    (~serving) ~> (serving \/ \E i \in 1..Len(wal) : wal[i] = Unreadable)

\* What README.md says of the WAL ("survives process crashes"): every start
\* gets as far as binding the listener. (A crash in the middle of a character
\* leaves a log that Wal::replay refuses at every start.)
EveryStartServes == (~serving) ~> serving

-----------------------------------------------------------------------------
(* The inductive invariant behind the safety properties. *)

\* What the durability results need of the configuration: no line is ever cut
\* in the middle, a snapshot that exists can be read, every embedding reads
\* back from JSON, and the entries of a namespace agree on their dimension.
CleanDisk ==
    /\ FaultKinds \cap {"torn", "torn_char", "read_snapshot"} = {}
    /\ NonFinite = {}
    /\ \A u, v \in Uuids : NsOf[u] = NsOf[v] => DimOf[u] = DimOf[v]

\* Every line of the WAL is whole.
WholeLines == eol /\ \A i \in 1..Len(wal) : wal[i] \in WalEntry

\* The sequence numbers on disk increase and bound main's counter from below
\* as far as it has read, and the flush task's always.
Ordered ==
    /\ \A i, j \in 1..Len(wal) : i < j => wal[i].seq < wal[j].seq
    /\ Up => /\ snapshot_sequence <= sequence
             /\ \A i \in 1..Len(wal) : wal[i].seq <= sequence
    /\ pc = "replay" => /\ watermark = snapshot_sequence
                        /\ snapshot_sequence <= sequence
                        /\ cursor <= Len(wal)
                        /\ \A i \in 1..cursor : wal[i].seq <= sequence
    /\ pc = "boot" => cursor = 0

\* The requests still to be applied are the last lines of the WAL, above the
\* snapshot's watermark.
BatchLogged ==
    pc \in {"written", "apply"} =>
        /\ Len(batch) <= Len(wal)
        /\ \A k \in 1..Len(batch) :
             LET i == Len(wal) - Len(batch) + k
             IN  /\ wal[i].op = batch[k].op
                 /\ wal[i].uuid = batch[k].uuid
                 /\ wal[i].seq > snapshot_sequence

\* Replay has rebuilt what the lines read so far say.
Replayed ==
    pc = "replay" => \A u \in Uuids : u \in live <=> OnDiskAfter(cursor, u)

\* No namespace has a dimension its entries do not have.
RightDimensions == \A u \in Uuids : Accepts(dimension, u)

\* No tombstone is on its way for an acknowledged insert.
NoTombstoneForAcked ==
    \A u \in acked : /\ ~PendingTombstone(u, batch)
                     /\ \A i \in DOMAIN victims : victims[i] # u

\* Only main runs before the node is up, and victims wait only while the
\* eviction step runs.
Quiescent ==
    /\ ~Up => ~serving /\ \A t \in Tasks : task[t] = Idle
    /\ pc \notin {"evicting", "evict_write"} => victims = <<>>

\* Between the snapshot's rename and the truncation the snapshot has it all.
Snapshotted ==
    pc = "truncate" => /\ snapshot_sequence = sequence
                       /\ acked \subseteq snapshot

\* The conjunction is inductive; it says why no crash point loses an
\* acknowledged insert (wal.rs, snapshot.rs and main.rs together).
DurabilityInv ==
    /\ WholeLines
    /\ Ordered
    /\ BatchLogged
    /\ Replayed
    /\ RightDimensions
    /\ NoTombstoneForAcked
    /\ Quiescent
    /\ Snapshotted
    /\ AckedInsertsSurvive
    /\ AckedInsertsDurable

=============================================================================
