# FerroCache: TLA+ verification project

FerroCache is a semantic cache for LLM answers: a Rust server that stores
(embedding, query text, response) entries, finds them again by vector
similarity, keeps them on disk with a write-ahead log (WAL) and snapshots, and
spreads them over a cluster with a consistent-hash ring. This directory holds
TLA+ models of that program, the TLC configurations that check them on small
instances, and TLAPS proofs about them. All source paths below are relative to
the repository, whose Rust files are in `src/`.

1. [Inventory](#inventory)
2. [Modules and their code](#modules-and-their-code)
3. [Runs](#runs)
4. [Fairness](#fairness)
5. [Proofs](#proofs)
6. [What is left out](#what-is-left-out)
7. [Plan](#plan)

## Inventory

| component | state it keeps | operations | talks to |
|---|---|---|---|
| group-commit WAL (`wal.rs`) | the WAL file, the sequence counter, the batch being collected, the pending compaction, inserts since the last compaction | take requests from an mpsc channel, stamp, write and fsync a batch, apply it to the index, evict over the cap, compact | handlers (channel, oneshot replies), index (`RwLock`), snapshot |
| snapshot (`snapshot.rs`) | the snapshot file with its `wal_sequence` | write (temporary file, fsync, rename), read, compact = write + truncate | WAL, index |
| start-up and reaper (`main.rs`) | watermark, `max_seq`, replay position | read snapshot, replay, expire once, spawn the flush task, bind; periodically expire, rebuild and prune | all of the above |
| handlers (`server.rs`) | what each request in flight has read so far | query, insert, get, delete, invalidate, compact, read repair | index, channel, router |
| semantic index (`index.rs`) | per namespace: entries, UUID table, ghosts, exact-match table, next internal id, dimension, HNSW graph; globally: UUID to namespace | insert, query (exact then ANN, conversation then base), record access, remove, invalidate, evict LRU, expire, rebuild, prune, snapshot | HNSW library |
| hash ring (`ring.rs`) | virtual nodes | add, remove, replicas of a key | cluster |
| membership (`cluster.rs`, `failure_detector.rs`) | ring, address book, list of dead nodes, heartbeat history and status per peer | take gossip's view, reconcile: addresses, heartbeats, join, check, leave | chitchat library |
| router and replication (`router.rs`, `server.rs`) | none of its own | forward with retries, replicate, read repair, delete and invalidate fan-out | peers over HTTP |
| namespace keys (`index.rs`, `models.rs`) | none | build the effective and the conversation key | index |
| metrics (`metrics.rs`) | totals, counters per namespace, histograms | record, render a page | everything records; `/metrics` reads |
| configuration, TLS, authentication (`config.rs`, `tls.rs`, `auth.rs`) | settings, CA bundle, certificate and key as read at start | load or generate, announce an address, accept or refuse a call | router, listeners, gossip |
| Python clients | none the server depends on | wrap the HTTP API | server |

**What is hard.** One flush task, one reaper and any number of handlers share
the index through a read-write lock and the WAL through a bounded channel.
Inserts are written first and applied afterwards; *every removal does it the
other way round*: memory first, then a tombstone through the channel. The
process may stop between any two of these steps, or in the middle of a write.
Replay must rebuild, from a snapshot, a watermark and a WAL that may overlap
it, what clients were told. The index renumbers its entries when it rebuilds
its graph, while queries hold ids read under an earlier lock. In a cluster,
forwarded calls time out after having been carried out, and membership changes
while requests are routed.

**What makes each component correct.**

* WAL, snapshot, start-up: an acknowledged insert is in the index whenever the
  node is up; a confirmed removal is not undone by a restart; sequence numbers
  are never reused; replay computes what the disk means; every request is
  answered, every start ends in a bound listener (unless the log has a line that is
  not text any more), expired entries leave.
* Index: its five tables agree; an entry is found where it was stored; eviction
  takes the least recently used; a rebuild changes nothing a client can see.
* Ring: replicas are distinct, deterministic and as many as there are nodes to
  give; one node's arrival moves only the keys it takes.
* Membership: a node on the ring always has an address; ring, addresses, dead list
  and detector agree between passes; a peer that gossip reports stays, one that is
  silent leaves, and the view follows gossip once it settles.
* Replication: an insert answered 200 is on every replica that was not held
  dead; whatever is retried or repaired, an insert has one id; a miss means that
  no replica had the entry; a removal nothing interferes with is final; every
  request is answered.
* Namespace keys: requests of equal meaning share a key, others do not as long as
  their names keep apart; a query that looks in two namespaces sees them at one
  instant.
* Metrics: no update is lost, a counter never goes back from one page to the next.
* Configuration, TLS, authentication: a stepwise rotation of certificates costs
  no call, links work both ways or not at all, and nodes with one configuration
  end up connected.

`PROJECT.json` lists the components, the definitions with the lines they
model, and under `hazards` each place where this can go wrong.

## Modules and their code

| module | role |
|---|---|
| `GroupCommitWal` | one node: flush task, compaction, start-up, reaper, mutating handlers, crash and I/O failures; properties and inductive invariant |
| `DurableCache` | the abstract node: what is promised, what is gone, what is in doubt; `GroupCommitWal` implements it |
| `MCGroupCommitWal` | values for the constants of `GroupCommitWal`, and its six configurations |
| `SemanticIndex` | the tables of the index, queries with their two locks, rebuild, expiry, prune, restart |
| `CacheIndex` | the abstract index: a set of entries and a dimension per namespace; `SemanticIndex` implements it, `GroupCommitWal` uses the index in this form |
| `MCSemanticIndex` | values for the constants of `SemanticIndex`, and its two configurations |
| `HashRing` | the consistent-hash ring and its walk, as operators, with their reference definitions |
| `Membership` | one node's view of the cluster: gossip, failure detector, `reconcile_step`, over `HashRing` |
| `MCMembership` | values for the constants of `HashRing` and `Membership` |
| `Replication` | one key across the cluster: coordinator, forwarding, retries, read repair, fan-out of removals |
| `Requests` | what a request means: namespace keys, deadlines, the two-level query |
| `Metrics` | the counters, the calls that update them, the page |
| `ClusterLinks` | whether one node's call can reach another, while configuration and certificates are rolled out |
| `MCReplication`, `MCRequests`, `MCMetrics`, `MCClusterLinks` | values for their constants |
| `MCNames` | values for the names of `Requests` that collide |
| `GroupCommitWalProofs` | TLAPS: the type invariant, and who is owed a reply |
| `DurabilityProofs` | TLAPS: what survives a restart, and the refinement of `DurableCache` |
| `SemanticIndexProofs` | TLAPS: the tables of the index, search, eviction, and the refinement of `CacheIndex` |
| `MembershipProofs` | TLAPS: what the ring's walk computes and who moves, the invariant of `reconcile_step` and its theorems |
| `ReplicationProofs` | TLAPS: inserts, repairs, removals and queries across the cluster |
| `RequestsProofs` | TLAPS: when two keys are equal, deadlines, the two-level query |
| `ClusterLinksProofs` | TLAPS: links in every mixture of generations |
| `MetricsProofs` | TLAPS: what tasks owe the counters, and what pages have shown |

### GroupCommitWal

State. `wal`, `eol`, `snapshot`, `snapshot_sequence` are the disk. `live` and
`dimension` are the index, abstracted to which UUIDs it holds and which
dimension each namespace has fixed; a UUID stands for an entry, and constants
give its namespace, dimension and whether it has a TTL. `pc`, `batch`,
`pending_compact`, `compaction`, `inserts_since_compact`, `sequence`, `victims`
are the locals of `flush_task`; `watermark` and `cursor` those of `main` while
it replays. `channel` is the mpsc channel, `task[t]` says where handler or
janitor `t` is, `serving` that the listener is bound. `expired` is the clock as
far as entries see it. `acked` and `removal` are history: which inserts a
client was told Ok about, and how far the last removal of an entry got
(`begun` in memory, `reported` to its caller, `durable` in the log).

Locks. The flush task holds the write lock while `pc` is `apply` or `evicting`
and a read lock from the snapshot to the truncation; the other actions that
need the lock are guarded by `WriteLocked` or `IndexLocked`. Everything done
under one acquisition by any other task is one action.

| action | code |
|---|---|
| `SubmitInsert`, `SubmitCompact` | `local_insert_inner`, `compact_handler` up to the await |
| `DeleteResolve`, `DeleteRemove` | the two lock scopes of `delete_entry_handler` |
| `Invalidate` | the write-lock scope of `invalidate_handler` |
| `SendTombstone` | the loop in delete, invalidate, reaper and `main` that sends one tombstone and awaits its reply |
| `Disconnect` | the server drops a handler's future when its connection closes |
| `Expire`, `ReaperSweep` | a deadline passes; one tick of `expiry_reaper_loop`, with its rebuild and prune |
| `RecvFirst`, `CollectMore`, `CloseBatch` | the receive part of `flush_task`: first command, more until the batch is full or the timeout, a compaction closes the batch |
| `WriteBatch`, `WriteBatchFails`, `SequenceOverflow` | `flush_insert_batch` up to the fsync: `checked_add`, `write_batch_bytes`, its failure after any prefix |
| `ApplyInsert`, `ApplyTombstone` | its loop over the batch under the write lock, with the replies |
| `EvictOne`, `EvictDone`, `EvictWrite`, `EvictWriteFails`, `EvictOverflow` | `evict_to_cap_step` |
| `AutoCompact`, `RunPending`, `WriteSnapshot`, `Truncate` and failures | the threshold, `run_compact`, `snapshot::compact`, `Wal::truncate` |
| `LoadSnapshot`, `LoadSnapshotFails`, `ReplayLine`, `ReplayFails`, `StartupExpiry`, `Listen` | `main`; `ReplayFails` is its exit on a line that is not UTF-8, and the next start |
| `Crash` | the process dies; a write in progress leaves any prefix of its lines, with `torn` also part of a line, with `torn_char` a part that ends inside a character |

Conversions are modelled by what they do: a line cut short is `Corrupt` or lacks
only its newline, or is `Unreadable` if the cut lies inside a multi-byte character
(`Pieces`); appending to a file without a final newline joins two lines into one that
does not parse, and is no UTF-8 if either part is not (`Land`, `Joined`). Replay skips
a corrupt line, but `next_line` fails on an unreadable one before that code sees it,
and `main` exits. An embedding with an infinite component
is written as `null` and does not read back (`Readable`).

Assumptions of the model, beyond the code:

* a crash is a crash of the process or of the machine after `rename` has become
  durable (the code does not fsync the directory);
* an I/O error is reported by the call that caused it (a tokio `File` may report a
  failed write at a later call);
* one UUID has one namespace, dimension and deadline; a UUID is not inserted
  again after its deadline has passed;
* the eviction victim is any entry of the namespace (the LRU order belongs to
  the index), and `MaxEntries >= Cardinality(Uuids)` means that the cap is off;
* a namespace that has lost all its entries has only ghosts, a ghost ratio of 1,
  above the code's 0.20, so `rebuild_dirty_namespaces` always clears it before
  `prune_empty_namespaces` looks at it.

`DurableCache` says the same to a client who sees no disk. Its `up`, `contents`,
`promised` and `gone` are `Up`, `live` while the node is up, `acked`, and the
entries whose last removal is `durable`; writes, compactions, replay and everything
else are steps that leave these alone.

### SemanticIndex

`index[ns]` is a `NamespacedIndex`: the fields `entries`, `uuid_to_internal`,
`evicted_ids`, `exact_match_index`, `next_id`, `dimension` of the struct, and
`graph`, which says for each node of the HNSW graph whose embedding it holds. A
namespace that does not exist is an empty one: no operation tells them apart.
`uuid_to_namespace` is the global table, `clock` the wall clock in seconds,
`query[r]` the hit (namespace, internal id, UUID) that query handler `r` has
read and not yet credited.

The methods of `NamespacedIndex` are operators from one value of the struct to the
next: `InsertWithUuid`, `DropEntries` (`drop_entry` for a set of ids, since the
order does not matter), `Victims` (the loop around `evict_lru`), `Renumbered`
(`rebuild`, for a drain order `f` of the HashMap), `Pruned`, `Reloaded`. The
lookup is `Answers`, the set of results `query_with_text` may return: the exact
match, else the loop over the `Want(n)` nodes that the search gives. `Neighbours`
stands for the HNSW library, whose search is approximate: in a graph of at most
`ExactUpTo` nodes, which a search with `ef_search` visits whole, it gives the nearest
ones (`Nearest`), in a larger one any nodes, or fewer than asked for. Properties about
what is found speak of small graphs (`SmallGraph`); those about the tables do not.

| action | lock scope in the code |
|---|---|
| `Insert`, `RemoveByUuid` | one entry of the flush task's batch, or of replay; the write lock of a delete |
| `InvalidateSimilar` | the write lock of `invalidate_handler` |
| `EvictToCap` | `evict_to_cap_step`: evict, then rebuild what is dirty |
| `Sweep` | one tick of the reaper: expire, rebuild, prune |
| `QueryHit`, `RecordAccess` | the read lock and the later write lock of `process_query_locally` (a miss changes nothing) |
| `Reload` | a restart right after a compaction: snapshot, load in any order, start-up expiry |
| `Tick` | time passes |

An insert carries the time its handler stamped, up to `MaxDelay` before it is
applied. `access_count` is left out: it is reported and never used.

`CacheIndex` is the contract between the two: `Insert` fixes or checks a dimension,
`Remove` keeps it, `Sweep` forgets it for the conversations it leaves empty,
`Restart` keeps the dimensions of the entries on disk. These are the steps that
`GroupCommitWal` takes on `live` and `dimension`.

### HashRing and Membership

`HashRing` has the ring as a function from positions to nodes (the `BTreeMap`).
`Vnode[n][i]` is the hash of label `"n-i"`; the labels of different nodes differ,
and `RingAssumption` takes their 64-bit hashes to differ too. `Walk` is the chain of
`range(key..)` and `range(..key)`, as the two sets of positions; `MetBefore` is the
order in which the chain meets them, `FirstSeen` where the loop adds a node to `out`,
and `GetNNodes` the first `n` of these. `WalkIsNearestFirst` says what the loop should
compute without chain or loop: the nodes in the order of their least distance
clockwise, modulo `RingSize`, from the key. `OrderKept` compares two rings: full walks
meet the nodes on both, in the same order for every key, which is what makes a lost
node's next replica its successor.

`Membership` is the view of one node. `ring`, `addrs`, `dead_nodes` and `detector`
are the structures of `ClusterState`, each under its own lock; `pc`, `snapshot` and
`changed` are the reconciler's position and locals. `gossip[p]` is the set of
addresses at which the chitchat library currently reports peer `p`: none, one, or
several while an old incarnation of a restarted peer has not timed out. The library
is external and unconstrained: any set may follow any other.

| action | code |
|---|---|
| `GossipChanges` | the library's view changes |
| `Silence` | time passes without a heartbeat: `compute_phi` grows with the silence |
| `TakeSnapshot` | the closure in `spawn_ring_reconciler`; of two incarnations the last in the library's order counts |
| `UpdateAddrs`, `RecordHeartbeats`, `AddToRing`, `ClearRejoined` | steps 1 to 3 of `reconcile_step`, one per write lock |
| `CheckAll` | step 4, `check_all_at`, and the choice of what step 5 removes |
| `RemoveFromRing`, `RemoveAddrs`, `RecordDead` | step 5, one per write lock |

Phi is `-log10(1 - F(t))` for a normal distribution `F`, hence increasing in the
silence `t` and near 0 right after a heartbeat. The code compares it with the
threshold and with twice the threshold only, so the model keeps three levels, `low`,
`high` and `over`, which `Silence` raises and a heartbeat resets, and of the window
of intervals whether it is empty. Time may pass between any two steps, so a pass may
be delayed for longer than any threshold. The node's own restart is a new `Init`:
nothing here is persisted.

### Replication

All requests are about one embedding in one namespace, so that the ring is one
order of the nodes (`Pref`); a replica list is a set of nodes, gone through in that
order (`First`). `copies[n][id]` is a copy on node `n`; its value is the
node whose clock gave it its deadline. `peer[n][p]` is `n`'s view of `p`, one of the
combinations that `Membership`'s tables can show a request: in the ring and not dead,
in the ring and dead, out of the ring, out of the address book too, or heard again
and not yet in the ring. `wire` has the calls not yet carried out: a caller that
gives up on a refused connection or a 5xx takes its call away, one that gives up on
a timeout may leave it there, to be carried out later. (A connection that breaks after
the call was carried out is not retried and ends in the same state as such a timeout.)
A storing or removing step on one node is atomic here; its parts are in
`GroupCommitWal`. `read_repair_enabled` is the setting; where it is off a miss is
answered at once, and `MissMeansNoReplicaHadIt` says nothing.

| actions | code |
|---|---|
| `InsertHere`, `InsertBegin` ... `InsertNext`, `InsertDeliver`, `InsertCallFails` | `insert_handler`: ring and address book read one after the other, own copy first, then one replica after another with retries, dead ones passed over |
| `QueryHere`, `QueryBegin`, `QueryResolve`, `ForwardQuery` | `query_handler`: owner, forwarding, retries |
| `ServeLook`, `ServeRing`, `ServeAddrs`, `ServeAsk`, `ServeFanOut`, `ServePeer`, `ServeJoin` | `process_query_locally` and `attempt_read_repair` on the node that serves it |
| `RepairFetch`, `RepairStore`, `RepairFails` | `perform_repair`, a task of its own |
| `RemovalBegin`, `RemovalPeers`, `RemovalNext`, `RemovalDeliver`, `RemovalCallFails` | `delete_entry_handler` and `invalidate_handler` with their fan-out |
| `ViewChange`, `Drop`, `Crash` | a reconciler's step; eviction or expiry; the end of a node's tasks |

### Requests

A string is the sequence of its pieces: each colon, each `conv_` and each space is one,
and so is the text between two of them. Keys are put together as `format!` does it
(`effective_namespace`, `conversation_namespace`), so that different requests may get
the same key, and nothing is assumed about names. What keeps keys apart is stated as
`NamesApart`: no model begins with another one and `::`, and no scope has `conv_` at
its start, which the docs reserve (`docs/features/conversations.md:118`), or behind a
`::`. Models of the documented form `name::dimension`, scopes with `::` and any
conversation ids satisfy it. The code checks none of it; what happens without it is
under [Reproductions](#reproductions).

An optional field is unset, blank or given, and each handler's treatment of blanks is
its own. A query reads the time, takes the read lock, and looks in the conversation and
then in the base namespace; writers wait for the lock. A lookup may return any live
entry within the radius (`Hits`) and may miss all of them (`MayMiss`) where the search
is inexact, or where an expired entry that the reaper has not taken yet has used up the
bounded number of candidates; both are `SemanticIndex`'s subject. A replica stands for
the source of a repair.

### Metrics

A call of `record_*` is the set of its relaxed `fetch_add`s, each a step of its own, and
they are seen in any order, which is what `Ordering::Relaxed` leaves between different
atomics. A namespace seen for the first time takes the read lock, then the write lock.
A page is the set of its loads, in any order within each of its three parts: totals,
namespaces under the read lock of the map, histograms. `Watched` selects the lines a run
follows; a load that nothing compares changes no property. A sum over namespaces is the
cardinality of a set with one pair per count (`Counted`).

### ClusterLinks

`Plan` is a sequence of generations of the four files a node reads when it starts:
settings, CA bundle, certificate, key. The operator takes all nodes from one
generation to the next as `docs/security.md` describes: replace the files one by
one, restart one node at a time. A node may crash between two replacements and
start with a mixture; with a certificate and a key that do not belong together it
does not start until the operator goes on. Settings are partial functions on their
keys, merged as `FerrocacheConfig::load` merges them. `Outcome(n, m)` is what a call
from `n` to `m` meets, from the listener behind the port that `n` has for `m`, both
sides of the handshake, and the token. A peer that is down is forgotten; a running one
may be too, by a false Dead verdict, which counts as a fault, and comes back with its
next heartbeat (`Forget`, `Hear`). External: the operator, the handshake, and that
a certificate covers the name its node is called by.

## Runs

Passing runs:

| run | bounds | what it shows |
|---|---|---|
| `durability` | 2 entries (one with a TTL), 1 client, batch and channel of 2, compaction every 2, cap of 1, 3 sequence numbers, 1 crash, 1 failure | `AckedInsertsSurvive`, `AckedInsertsDurable`, `ConfirmedRemovalsSurvive`, `RecoveredMatchesDisk`, `SequencesIncrease`; the inductive invariant `DurabilityInv`; `ImplementsDurableCache` |
| `races` | as above with 2 clients, 4 sequence numbers (an insert, a second insert of the same entry, a late tombstone, and one to spare), no crash and no failure | `DiskMatchesMemoryAtRest`: whatever the order of deletes, sweeps, evictions and re-inserts, a restart at a quiet moment would bring back exactly what is being served |
| `progress` | 1 entry with a TTL in a conversation namespace, 1 client, 2 sequence numbers, 1 crash, 1 failure of any kind, cuts inside a line and inside a character | `EveryRequestAnswered`, `ExpiredReaped`, `RestartCompletes` |
| `tables` | 2 entries with the same text in the base namespace, 2 of different dimension in a conversation, one with a TTL, 1 query handler, graphs of up to 4 nodes, searched exactly up to 3, cap of 1, overscan of 2, 2 seconds | `SideTablesAgree`, `GhostsHideNoHit`, `EvictionTakesOldest`, `ImplementsCacheIndex` (the refinement of `CacheIndex`) |
| `membership` | 3 nodes with 2 virtual nodes each on a ring of 7 positions, every position as a key, 2 addresses | `AddressesCoverRing`, `StatusCoherent`, `ReplicasNearestFirst`, `HeardPeersStay`, `OnlyOwnKeysMove`, `SettledPeerServes`, `SilentPeerLeaves` |
| `replication` | 3 nodes, replication factor 2, read repair enabled, 1 retry, an insert, a query and a removal through the node that is no replica, two of them at once; it may lose sight of the owner, the owner of its replica; 1 fault (a late call, a crash, an eviction, a change of view) | `AckMeansReplicated`, `OneIdPerInsert`, `MissMeansNoReplicaHadIt`, `UndisturbedRemovalIsFinal`, `RepairKeepsDeadlines`, `EveryRequestAnswered` |
| `requests` | 2 models `m::3` and `m::4`, 1 scope `x::3`, 2 conversations, one named like the scope and one blank, scope and conversation possibly unset; 2 inserts, 1 query, times 0 and 1 with 1 as the last representable second | `NoForeignAnswer`, `NothingOverlooked`, `NeverBornExpired`, `InvalidationStaysHome` |
| `metrics` | 2 tasks, 2 namespaces, 1 bucket, 2 events of 4 kinds (or changes of the index), 2 pages | `RestingCountersAgree`, `PagesNeverGoBack` |
| `links` | 3 nodes, 8 generations, 1 crash or false Dead verdict, one node with a port above 64535 and one with an internal port of its own | `RotationKeepsLinks`, `LinksAreMutual`, `UniformClusterConnects` |

For replication, the coordinator that is no replica is the case with the most steps (it
forwards everything); the nodes' roles are fixed by `Pref`, so another coordinator is
another choice of `Fronts`. Two requests under way give every pair of insert, query and
removal, with the third before or after them; one fault is enough for each retry, skip
and late delivery, and `UndisturbedRemovalIsFinal` and `MissMeansNoReplicaHadIt` say
themselves which disturbances they exclude: the code has no tombstones between nodes, so
a repair or a late insert that crosses a removal does bring the entry back. In
`requests` two inserts are a pair that could be confused, under names that `NamesApart`
allows (`InstanceNamesApart` has TLC evaluate it). In `metrics` two tasks are needed for
the race to create a namespace, two pages to compare them. In `links` the eight
generations are a CA rotation in three steps (trust both, change the certificate, drop
the old one), a wrong CA file, a generation without a cluster, one with a path missing
(each node then signs for itself) and one without TLS, with the token empty in one and
changed in another.

For the index, two entries per namespace and four nodes allow an approximate search, a
rebuild that permutes the live entries, a UUID that is removed and stored again beside
its own ghost, and as many ghosts as the overscan covers; the cap of one makes each
batch evict, and the conversation is drained, pruned and refilled with another
dimension.

For the cluster view, two peers can join, leave and rejoin in the same or in
different passes, an uneven ring makes a walk meet one node twice before another and
wrap around, and two addresses let a peer move. There are no bounds on time or on the
number of passes. `SilentPeerLeaves` asks for a peer heard of in two passes: after a
single heartbeat the window is empty, phi stays 0, and the peer stays on the ring
however long it is silent. The library normally reports a peer for several passes
before it drops it, so this takes a reconciler that is held up for that long.

For the WAL, the bounds are the smallest at which the cases of interest meet: two entries
and a cap of one make a batch evict an entry it has just acknowledged; three
sequence numbers allow a batch of two, a tombstone and the overflow in the
middle of a batch; a compaction interval of two compacts both within and across
batches; a channel of two fills while the flush task compacts; one crash falls
at every point of every one of these. The safety theorems do not depend on
these bounds.

Violation runs: each shows a place where a document or a comment promises more
than the code does. The counterexample of each is the scenario described.

| run | property | what happens |
|---|---|---|
| `removal_crash` | `RemovedStaysRemoved` | delete, invalidate, reaper and eviction change memory first; a crash before the tombstone is durable brings the entry back |
| `torn_line` | `AckedInsertsSurvive` | a crash leaves a line without its newline; the first batch after the restart is appended to it, acknowledged, and skipped as corrupt by the next replay |
| `stored_nowhere` | `AckedInsertStored` | the coordinator is not a replica of the key and holds both replicas dead: it skips them, stores nothing itself and answers 200 |

`torn_line` shows one reason why the durability theorems need `CleanDisk`: no torn
line or character, no unreadable snapshot, finite embeddings, one dimension per
namespace.

### Reproductions

Four more configurations reproduce what the premises of properties leave out. They are
not in the list of runs; TLC finds each property violated within a minute.

| configuration | module | property | what happens |
|---|---|---|---|
| `MCTornChar.cfg` | `MCGroupCommitWal` | `EveryStartServes` | a crash cuts a line inside a multi-byte character of a response or a query text; `next_line` fails on it (`wal.rs:205`), `main` exits (`main.rs:151`) at this start and at every later one, although the `README.md` of the repository has the WAL survive process crashes. `RestartCompletes` excepts such a log |
| `MCExpiredHides.cfg` | `MCSemanticIndex` | `ExpiredHidesNoHit` | the number of candidates allows for ghosts and not for expired entries (`index.rs:352`, `Want`): an entry that waits for the reaper is the only candidate and the live one behind it is missed, although "a still-live neighbour can match" (`index.rs:371`) |
| `MCScopeCollision.cfg` | `MCNames` | `NoForeignAnswer` | scope `a::conv_b` has the key of scope `a`, conversation `b`, and a query of the one is answered with an entry of the other; the docs reserve `conv_` only at the start of a scope and give scopes with `::` as examples (`docs/features/namespaces.md:28`, `:50`) |
| `MCModelCollision.cfg` | `MCNames` | `InvalidationStaysHome` | model `m::3` has the key of model `m` with scope `3`, so an invalidation of the one removes entries of the other; `docs/features/namespaces.md:49` says "different `model_id`, different namespace" |

The models have more disagreements between the code and its comments or documents,
each visible in the definitions named:

* `delete_entry_handler` waits for its tombstone "so the response is only returned
  after the tombstone is durable" (`server.rs:988`) and drops the reply
  (`let _ = rx.await`): a failed write is answered 200 (`SendTombstone`, `RejectBatch`).
* Pruning a conversation namespace forgets its dimension while the WAL remembers it
  (`ReaperSweep`), and the line of a rejected insert stays in the WAL (`ApplyInsert`)
  where after a compaction it fixes the dimension; in both cases replay rejects
  inserts that were acknowledged. With entries of two dimensions in one namespace
  (`DimOf`), TLC finds `AckedInsertsSurvive` violated.
* An embedding with a component beyond the range of `f32` becomes infinite, is
  stored as `null` and lost on replay (`NonFinite`, `Readable`).
* A query credits the internal id it has read under an earlier lock, and a rebuild in
  between gives the id to another entry (`RecordAccess`).
* A rebuild and a restart number the entries in HashMap order (`DrainOrders`), so
  entries that tie on their times are not evicted first in, first out, as the comment on
  `evict_lru` says.
* Of two entries with one text the newer owns it and takes it along when it is
  removed (`DropEntries`); the older is then found by similarity only.
* "Even on a 404 we still fan out" (`server.rs:975`), but the handler returns 404 at
  once: a delete sent to a node without a copy removes nothing (`RemovalBegin`).
* The comment on `FullEntryResponse` has access counts travel with a repair;
  `perform_repair` lets them start again.
* `read_repair_handler` takes no deadline, so what it stores never expires
  (`PushRepair`); nothing in this repository calls it.
* `docs/security.md:183` would let token rotation "rely on the rolling restart"; until
  all nodes have the new token, calls between old and new are answered 401, which is
  not retried (`auth_middleware`, `Outcome`).
* A page loads `queries_total` before `queries_hit`, and both are relaxed, so that it can
  show more hits than queries and a hit rate above 1; nothing is claimed of counters
  against each other while calls are under way. For the histograms the comment at
  `metrics.rs:21` allows for this.

The type invariant of every module is checked: as `TypeOK` in `durability` and
`membership`, as a conjunct of `SideTablesAgree`, `RepairKeepsDeadlines`,
`NeverBornExpired`, `RestingCountersAgree` and `LinksAreMutual` in the others.

Each property of a passing run has a mutant in `PROJECT.json`: a changed
definition (`ReplayLine_AtWatermark`, `RejectBatch_Silent`, ...), kept in the
module before the definition it changes, that stands for a plausible mistake and
makes TLC find the property violated.

## Fairness

`FairSpec` assumes weak fairness of `main`, the flush task and the listener:
tokio keeps polling a task that can make progress, and none of these waits for
a resource that another task may hold for ever. `SendTombstone`, `DeleteRemove`
and `ReaperSweep` wait for the channel or the index lock, which become free and
are taken again; tokio's `Semaphore`, on which both are built, serves waiters in
FIFO order, hence strong fairness. `ReaperSweep` runs on a timer that keeps
ticking. Nothing is assumed of clients, crashes, failures or the clock:
`EveryRequestAnswered` holds although clients may stop, and `ExpiredReaped`
speaks only of deadlines that have passed.

The specification of `Membership` assumes weak fairness of the reconciler, a loop on
a timer whose locks are held only for short synchronous sections, and of `Silence`:
time passes. Nothing is assumed of gossip; the two liveness properties are about
what follows once gossip stays at one answer.

`Replication` assumes weak fairness of each coordinator and of the task that serves
its query: they wait only for calls, and no call outlives `FORWARD_TIMEOUT`. Nothing
is assumed of clients, deliveries, repairs, views and crashes. `ClusterLinks` assumes
that the operator carries the plan through, that the operator or a supervisor starts
what has stopped, and that gossip and the
reconciler, which run on timers, bring a running peer's present address;
`UniformClusterConnects` says nothing about a roll-out that is abandoned. The other
modules state no liveness.

## Proofs

`GroupCommitWalProofs` proves `TypeCorrect == Spec => []TypeOK` from
`NodeAssumption` and `NilAssumption`. `TypeOK` is not inductive by itself:
`Head(batch)` must exist where the flush task uses it, and the same for the
pending compaction and a resolved delete, so the proof carries `Shape` along
(`TypeInv == TypeOK /\ Shape`). There is one lemma per group of actions.

It also proves what `EveryRequestAnswered` rests on besides fairness:

* `RepliesMatchWaiters == Spec => []OneReplyEach`. The oneshot senders of the code are
  in three places: the channel, the batch and the pending compaction. A task waits
  exactly when one of them holds its sender, no two hold the same one, and the request
  it sits in is the one the task made. So a reply is neither lost, nor sent twice, nor
  taken for the answer to another request, also when the caller has disconnected (its
  sender is orphaned wherever it is), a write failed, or the node crashed.
* `NobodyWaitsInVainHolds == Spec => []NobodyWaitsInVain`. While anybody waits the flush
  task is up, and in `recv` its channel is not empty: it cannot be parked with a request
  forgotten in its hands.

`OneReplyEach` needs `HandsEmpty` (`ReplyInv` is their conjunction): at which points of
the loop the batch and the pending compaction are empty, that at most one compaction is
pending, and that before the task runs nothing has been asked. Without it `recv` could
overwrite a batch with the senders still in it. The lemmas `QueueAppend`, `OneGoes` and
the others about `OneEach` say what sending, receiving, answering and disconnecting do to
the three places; they are stated over constants, so that they apply to the next state
as well. These two are stated in the proof module; no run
lists them, since the runs check `EveryRequestAnswered` itself.

`DurabilityProofs` proves, for all values of the constants that satisfy
`CleanDisk`,

| theorem | statement |
|---|---|
| `DurabilityInvariant` | `Spec => [](TypeInv /\ DurabilityInv)` |
| `AckedInsertsSurviveThm` | `Spec => []AckedInsertsSurvive` |
| `AckedInsertsDurableThm` | `Spec => []AckedInsertsDurable` |
| `RecoveredMatchesDiskThm` | `Spec => []RecoveredMatchesDisk` |
| `SequencesIncreaseThm` | `Spec => []SequencesIncrease` |
| `ConfirmedInvariant` | `Spec => [](TypeInv /\ DurabilityInv /\ Confirmed)` |
| `ConfirmedRemovalsSurviveThm` | `Spec => []ConfirmedRemovalsSurvive` |
| `ImplementsDurableCacheThm` | `Spec => ImplementsDurableCache` |
| `DiskMatchesMemoryAtRestThm` | `Spec => []DiskMatchesMemoryAtRest`, with `NothingLost` |

so that with any number of clients, entries, crashes and failed writes,
snapshots and truncations, no acknowledged insert is lost and no confirmed removal
is undone.

The argument. `OnDiskAfter(n, u)` says, without replaying, what the snapshot and
the first `n` WAL lines mean for entry `u`: the last word above the watermark,
or else the snapshot. An acknowledged insert stays on disk (`AckedInsertsDurable`)
because

* lines are only ever added at the end with larger numbers (`Ordered`), so the
  watermark hides none that matters; `WriteKeeps` and `GrowthKeeps` show that
  appended lines other than a tombstone for `u` do not change the last word;
* a request is acknowledged when it is applied, and while a batch is applied
  its remaining requests are the last lines of the file (`BatchLogged`), so the
  acknowledged one is already there;
* no tombstone for `u` is queued, owed or pending among the victims while `u`
  is acknowledged (`NoTombstoneForAcked`);
* between the rename of the snapshot and the truncation of the WAL the snapshot
  alone has everything acknowledged (`Snapshotted`).

Replay keeps `Replayed`: the index is what the lines read so far mean. At its end
the index therefore holds what is on disk, hence everything acknowledged, which
gives `AckedInsertsSurvive` after a crash; `RightDimensions` says that no line is
rejected on the way. `Quiescent` says that nothing else runs before the node is up.

A removal that is durable is `Final`: the entry is not on disk, no insert of it is
queued or in the batch, and while the node is up it is not in the index. This is what
`Confirmed` says, together with two facts about the flush task (its batch is empty
outside a batch, its victims are out of the index); a new insert ends the history of
the removal in the step that queues it. `ImplementsDurableCacheThm` then goes through
the actions: `SeenRequests`, `SeenFlush` and `SeenRestart` say which step of
`DurableCache` each one is, or that a client cannot see it.

`DiskMatchesMemoryAtRest` needs `NothingLost`, no failing log write and no client that
leaves between two tombstones: the code changes memory first, and after either the
index and the log differ until the next compaction. Its invariant, `DiskFollows`, says
of every entry that what the index holds is on disk unless its tombstone is in the
batch being applied (`Logged`), and that what is on disk and not in the index has a
tombstone under way, is a victim of the eviction under way, or is about to be applied
(`Explained`).

`SemanticIndexProofs` proves, from `IndexAssumption`, for any number of entries,
namespaces, readers and probes, any metric, cap and overscan, every drain order and any
graph size up to which a search is exact,

| theorem | statement |
|---|---|
| `SideTablesAgreeHolds` | `Spec => []SideTablesAgree` |
| `ImplementsCacheIndexHolds` | `Spec => ImplementsCacheIndex` |
| `GhostsHideNoHitHolds` | `Spec => []GhostsHideNoHit` |
| `EvictionTakesOldestHolds` | `Spec => EvictionTakesOldest` |

`Sound(n)` is what `SideTablesAgree` says of one namespace. There is one lemma per
method (`InsertSound`, `DropSound`, `RenumberedSays`, `ReloadedSound`, ...): from a
sound namespace to a sound one, with the change of the UUID table and of the
dimension. All steps that remove are then instances of `Removes(gone)`, which leaves
the global table in agreement (`RemovalAgrees`) because a UUID has one namespace; the
same facts give the step of `CacheIndex`. That the reaper prunes every conversation it
leaves empty rests on arithmetic: a graph with ghosts only is above the ratio of
`needs_rebuild`. For `GhostsHideNoHit`, which is about graphs that are
searched exactly: of one node more than there are ghosts one is
an entry (`OverscanReachesEntries`), and no entry left out is nearer. For
`EvictionTakesOldest`, `FirstInOrder` shows that the elements with fewer than `k`
predecessors in a finite total order are its first `k`: the least one outside has
exactly these before it, the last one inside all the others.

`MembershipProofs` proves, from `RingAssumption` and `MembershipAssumption`, for any
number of nodes and virtual nodes and any behaviour of gossip,

| theorem | statement |
|---|---|
| `MembershipInvariant` | `Spec => []MembershipInv` |
| `AddressesCoverRingHolds` | `Spec => []AddressesCoverRing` |
| `StatusCoherentHolds` | `Spec => []StatusCoherent` |
| `HeardPeersStayHolds` | `Spec => HeardPeersStay` |
| `MembershipTyped` | `Spec => []TypeOK` |
| `RingIsWhole` | `Spec => []Whole(ring)` |
| `ReplicasNearestFirstHolds` | `Spec => ReplicasNearestFirst` |
| `OnlyOwnKeysMoveHolds` | `Spec => OnlyOwnKeysMove` |

Two lemmas about the ring come first: `AddNodesAdds` and `RemoveNodesRemoves` say
that adding and removing change the set of nodes as expected and disturb nobody
else, provided each position holds the node whose label hashes to it (`Placed`). The
invariant then says, for each position in the pass, by how much the address book may
exceed the ring (`AddrsFollowRing`), how the list of dead nodes differs from the
detector's verdicts (`DeadFollowsDetector`), and that the peers of the snapshot are
Alive from their heartbeat to the check (`HeardAreSafe`). `StatusCoherent` alone is
not inductive: that a peer newly held Dead is on the ring, and so is removed and
listed, needs `TrackedOnRing`, a tracked peer is on the ring unless it is held dead
or about to join. `CheckedOnce`, at most one transition per check, is what keeps an
Alive peer of the snapshot from being removed.

The walk. `WalkSays`: the chain of the two ranges meets every position of the ring, and
one before another exactly when it is nearer clockwise; this is where the wrap-around
and the modulus meet (`AheadSays`). `FirstSeenSays`: the loop adds each node once, at its
nearest position. `Numbering`: in a finite set ordered by distance the number of
predecessors is strictly monotonic, hence one to one into as many numbers as there are
elements, hence onto; so the `i`-th node of the result exists and is unique.
`WalkInOrder` puts these together into an enumeration of which `GetNNodes` is a prefix,
and `NearestFirst` reads the property off it, for any ring. That keys move only with
their nodes needs the invariant `Whole`: the ring has all virtual nodes of each of its
nodes and no other position, which `add_node` and `remove_node` keep. The distance at
which a node first appears then depends on its own labels only (`OwnDistance`), and so
does the order of two nodes on a full walk (`FullWalk`). That there are finitely many
nodes is not assumed: each has positions of its own on a finite ring.

`ReplicationProofs` proves, from `ReplicationAssumption`, for any number of nodes,
requests, retries and faults, any replication factor and any walk,

| theorem | statement |
|---|---|
| `AckMeansReplicatedHolds` | `Spec => []AckMeansReplicated` |
| `OneIdPerInsertHolds` | `Spec => []OneIdPerInsert` |
| `RepairKeepsDeadlinesHolds` | `Spec => []RepairKeepsDeadlines`, with `TypeOK` |
| `UndisturbedRemovalIsFinalHolds` | `Spec => []UndisturbedRemovalIsFinal` |
| `MissMeansNoReplicaHadItHolds` | `Spec => MissMeansNoReplicaHadIt` |

The first three share `InsertInv`: everything that carries an id (copies, calls on
the wire, answers of peers, repairs) carries the id its insert was given, with the
stamp of a node that has stored it, and the replicas a coordinator has behind it have
the entry or were skipped. `Respects` says what a step may do to these, so that each
action is looked at once. For removals, `Undisturbed` says what has been
removed so far, and `Gone` that nothing can bring the entry back. For queries, `Routed`
says that an undisturbed query is with the first node of the whole walk and that the
replicas it has behind it have not held the entry all the while.

`RequestsProofs` proves, from `RequestsAssumption`, for any names and TTLs,

| theorem | statement |
|---|---|
| `NeverBornExpiredHolds` | `Spec => []NeverBornExpired` |
| `NothingOverlookedHolds` | `Spec => []NothingOverlooked` |
| `NoForeignAnswerHolds` | `Spec => []NoForeignAnswer`, assuming `NamesApart` |
| `InvalidationStaysHomeHolds` | `Spec => InvalidationStaysHome`, assuming `NamesApart` |

The invariant `RequestsInv` files every entry under the key of its request
(`FiledByRequest`) and says that a lookup reaches the base namespace only where the
conversation may miss (`LevelsInOrder`), which the read lock keeps true. Requests of
equal meaning share a key whatever the names (`SameMeaningSameKey`), which is all that
`NothingOverlooked` needs. The other direction takes keys apart
(`SameKeySameMeaning`): of two equal keys the longer model begins with the shorter one
and a separator, so `ModelsApart` makes them equal (`ModelSplits`); with the model gone,
the first `conv_` at the start of what is left or behind a separator ends the scope,
since a clean scope has none (`ScopeSplits`, `ConvApart`), and the conversation is what
follows, whatever is in it.

`ClusterLinksProofs` proves, from `LinksAssumption`, `LinksAreMutualHolds` and
`RotationKeepsLinksHolds`, for every plan, environment and number of crashes and false
Dead verdicts. A
running process came through `Starts` with files of the plan (`ProcStarted`). For the
rotation, `RollOut`
says that no file in use is older than the generation before the present one, that what
a running node has on disk and not in memory is new, and that every address was
announced under settings of the plan; `OnlyRotated`, the premise of the property, then
makes every certificate in use trusted by every bundle in use.

`MetricsProofs` proves, from `MetricsAssumption` and `OpsAssumption`, for any finite set
of tasks and any number of namespaces, buckets, calls and pages,

| theorem | statement |
|---|---|
| `MetricsInvariant` | `Spec => []MetricsInv` |
| `RestingCountersAgreeHolds` | `Spec => []RestingCountersAgree`, with `TypeOK` |
| `PagesNeverGoBackHolds` | `Spec => []PagesNeverGoBack` |

What a counter is due is its value and one for each task that has its update to do
(`DueTotal`, `DueSum`, `DueCount`, `DueBucket`, over the tasks of `Pending`). `Ledger`
is `RestingCountersAgree` for what is due, and needs no order between updates: an update
that is seen moves one from the tasks to the counter and changes nothing that is due
(`DuesStay`), and a call adds the same to both sides of each equation when it begins
(`LedgerStarts`). For this a task may have each update once and at most one of a
namespace (`OneNs`), which the sets of `record_*` satisfy (`RecordFresh`), and only an
update that is still to do waits for the write lock (`Waiting`). The two ways to a
namespace's counter, read lock and write lock, add one pair to `Counted`. When all tasks
are idle nobody owes anything, which is `RestingCountersAgree`. For pages, `Shown` says
that what pages have shown is not ahead of the counters, which only grow, and that each
line the page before had is read, or in the part being read, or in a later part; a
namespace that has counters keeps them, so that `PageTakesLock` lists it whatever the
index has pruned.

Induction over numbers and finite sets is done without the library's induction theorems:
a set without the property has a least element (`LeastNumber`, `LeastDistance`,
`MinimalElement`, from the well-foundedness of strict inclusion between finite sets),
which is the smallest counterexample.

Model-checked only are the liveness properties: `EveryRequestAnswered` (of
`GroupCommitWal` and of `Replication`), `ExpiredReaped`, `RestartCompletes`,
`SettledPeerServes`, `SilentPeerLeaves`, `UniformClusterConnects`. Fairness and `ENABLED`
are outside this prover's reach.

## What is left out

* The HNSW graph and cosine similarity: a library and floating point. A search
  is any answer the interface allows.
* The Python clients: no state the server depends on.
* Logging, response bodies, the handlers that only report, and the gauges on the
  metrics page (phi, entry counts, hit rate), which are computed from state that other
  modules have.
* Settings that decide neither a constant of a module nor whether nodes reach each
  other; parsing of file and environment, a library's.
* FNV-1a and the numeric value of phi are data; delays between retries are time that
  passes.
* The gossip library, the TLS handshake and the HTTP client are external: any
  behaviour their interface allows.

## Plan

The models are complete as far as the code keeps state, and every safety property of
the passing runs, the two refinements included, is proved for all values of the
constants. What would follow:

1. The safety half of the other liveness properties, as `NobodyWaitsInVain` is for the
   flush task: that in every state in which a request of `Replication` or a peer of
   `Membership` waits, some step of what it waits for is possible, as a disjunction of
   guards.
2. `RingAssumption` without the premise that 64-bit hashes of different labels differ:
   with a collision the later `add_node` takes the position over, and `remove_node` of
   either node removes it for both, so that `Whole` no longer holds.
3. `Membership`'s address book and `Replication`'s views composed into one model of two
   nodes, instead of the set of views `Replication` takes from `Membership`.
