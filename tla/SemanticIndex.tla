---------------------------- MODULE SemanticIndex ----------------------------
(***************************************************************************)
(* The in-memory index (index.rs) and the way queries use it (server.rs):  *)
(* per namespace a table of entries under internal ids, its reverse        *)
(* tables, the ghosts that removed entries leave in the HNSW graph, and    *)
(* the rebuild that clears them and numbers the entries anew.              *)
(*                                                                         *)
(* Every action is one acquisition of the index lock.  A query takes two:  *)
(* it finds its hit under the read lock and credits it under the write     *)
(* lock, by the internal id it has read.                                   *)
(*                                                                         *)
(* A UUID stands for an entry's contents: constants give its namespace,    *)
(* embedding, text and TTL.  The HNSW library cannot remove a node; its    *)
(* search returns the nearest nodes while the graph is small enough for    *)
(* ef_search, and any nodes at all beyond that.                            *)
(***************************************************************************)
EXTENDS Integers, FiniteSets, Functions

CONSTANTS
    Uuids,            \* entry identifiers
    Namespaces,       \* keys of SemanticIndex.namespaces
    ConvNamespaces,   \* the ones that contain "::conv_"
    BaseOf,           \* BaseOf[ns]: where a query of ns falls back to
    NsOf,             \* NsOf[u]: the namespace of entry u
    DimOf,            \* DimOf[u]: the length of u's embedding
    TextOf,           \* TextOf[u]: its normalised query text; None if empty
    TtlOf,            \* TtlOf[u]: seconds to live; None if it does not expire
    Texts,            \* normalised texts
    Probes,           \* query requests
    ProbeDim,         \* ProbeDim[p]: the length of p's embedding
    ProbeText,        \* ProbeText[p]: its normalised text, or None
    Distance,         \* Distance[p][u] between their embeddings
    Radius,           \* a distance up to Radius is at or above the threshold
    Readers,          \* concurrent query handlers
    MaxEntries,       \* max_entries_per_namespace
    MaxOverscan,      \* MAX_EVICTION_OVERSCAN
    ExactUpTo,        \* the largest graph whose search is exact
    MaxTime,          \* bound on the clock
    MaxDelay,         \* bound on how long an insert is queued
    MaxNodes,         \* bound on the nodes of a graph
    None

ASSUME IndexAssumption ==
    /\ ConvNamespaces \subseteq Namespaces
    /\ BaseOf \in [Namespaces -> Namespaces]
    /\ NsOf \in [Uuids -> Namespaces]
    /\ DimOf \in [Uuids -> Nat \ {0}]
    /\ TextOf \in [Uuids -> Texts \cup {None}]
    /\ TtlOf \in [Uuids -> Nat \cup {None}]
    /\ ProbeDim \in [Probes -> Nat \ {0}]
    /\ ProbeText \in [Probes -> Texts \cup {None}]
    /\ Distance \in [Probes -> [Uuids -> Nat]]
    /\ Radius \in Nat /\ ExactUpTo \in Nat
    /\ {MaxEntries, MaxOverscan, MaxTime, MaxDelay, MaxNodes} \subseteq Nat
    /\ None \notin Nat \cup Uuids \cup Texts \cup Namespaces

VARIABLES
    index,              \* SemanticIndex.namespaces
    uuid_to_namespace,  \* UUID -> namespace
    clock,              \* now_unix_secs
    query               \* the hit each query has still to credit, or None

vars == <<index, uuid_to_namespace, clock, query>>

-----------------------------------------------------------------------------
(* NamespacedIndex. *)

Empty == [x \in {} |-> x]

Put(f, k, v) == [x \in DOMAIN f \cup {k} |-> IF x = k THEN v ELSE f[x]]

\* NamespacedIndex::new; also stands for a namespace that does not exist. graph
\* maps the nodes of the HNSW graph to the entries whose embeddings they hold.
NewNamespace ==
    [entries |-> Empty, uuid_to_internal |-> Empty, evicted_ids |-> {},
     exact_match_index |-> Empty, next_id |-> 0, dimension |-> None,
     graph |-> Empty]

CacheEntry == [uuid : Uuids, inserted_at : Nat, last_accessed_at : Nat,
               expires_at : Nat \cup {None}]

Expired(e, now) == e.expires_at # None /\ now > e.expires_at

\* Mutant: any embedding is taken.
Accepts_Any(n, u) == n.dimension # 0

Accepts(n, u) == n.dimension \in {None, DimOf[u]}

\* insert_with_uuid, once the dimension is accepted: a UUID that is already
\* there is left as it is; a text is owned by the last entry inserted with it.
InsertWithUuid(n, e) ==
    IF e.uuid \in DOMAIN n.uuid_to_internal
    THEN n
    ELSE [n EXCEPT
            !.entries = Put(@, n.next_id, e),
            !.uuid_to_internal = Put(@, e.uuid, n.next_id),
            !.exact_match_index = IF TextOf[e.uuid] = None THEN @
                                  ELSE Put(@, TextOf[e.uuid], e.uuid),
            !.next_id = @ + 1,
            !.dimension = DimOf[e.uuid],
            !.graph = Put(@, n.next_id, e.uuid)]

UuidsAt(n, ids) == {n.entries[i].uuid : i \in ids}

\* drop_entry for each of ids: the nodes stay in the graph as ghosts, and a
\* text is released only by the entry that owns it.
DropEntries(n, ids) ==
    LET gone == UuidsAt(n, ids)
    IN  [n EXCEPT
            !.entries = Restrict(@, DOMAIN @ \ ids),
            !.uuid_to_internal = Restrict(@, DOMAIN @ \ gone),
            !.evicted_ids = @ \cup ids,
            !.exact_match_index =
                Restrict(@, {t \in DOMAIN @ :
                               ~(@[t] \in gone /\ TextOf[@[t]] = t)})]

ExpiredIds(n, now) == {i \in DOMAIN n.entries : Expired(n.entries[i], now)}

\* Mutant: the time of insertion is compared first.
EvictedBefore_Fifo(n, i, j) ==
    LET e == n.entries[i]
        f == n.entries[j]
    IN  \/ e.inserted_at < f.inserted_at
        \/ e.inserted_at = f.inserted_at /\ i < j

\* The order of evict_lru: last_accessed_at, inserted_at, internal id.
EvictedBefore(n, i, j) ==
    LET e == n.entries[i]
        f == n.entries[j]
    IN  \/ e.last_accessed_at < f.last_accessed_at
        \/ /\ e.last_accessed_at = f.last_accessed_at
           /\ \/ e.inserted_at < f.inserted_at
              \/ e.inserted_at = f.inserted_at /\ i < j

\* What the loop of evict_to_cap takes from a namespace above its cap.
Victims(n) ==
    {i \in DOMAIN n.entries :
        Cardinality({j \in DOMAIN n.entries : EvictedBefore(n, j, i)})
            < Cardinality(DOMAIN n.entries) - MaxEntries}

\* needs_rebuild: more than 20% of the graph are ghosts.
NeedsRebuild(n) ==
    5 * Cardinality(n.evicted_ids)
        > Cardinality(DOMAIN n.entries) + Cardinality(n.evicted_ids)

\* Mutant: the ghosts are not forgotten with the old graph.
Renumbered_KeepsGhosts(n, f) ==
    [n EXCEPT
        !.entries = [i \in DOMAIN f |-> n.entries[f[i]]],
        !.uuid_to_internal =
            [u \in {n.entries[i].uuid : i \in DOMAIN n.entries} |->
                CHOOSE i \in DOMAIN f : n.entries[f[i]].uuid = u],
        !.next_id = Cardinality(DOMAIN n.entries),
        !.graph = [i \in DOMAIN f |-> n.entries[f[i]].uuid]]

\* rebuild, with the entries drained in the order f.
Renumbered(n, f) ==
    [n EXCEPT
        !.entries = [i \in DOMAIN f |-> n.entries[f[i]]],
        !.uuid_to_internal =
            [u \in {n.entries[i].uuid : i \in DOMAIN n.entries} |->
                CHOOSE i \in DOMAIN f : n.entries[f[i]].uuid = u],
        !.evicted_ids = {},
        !.next_id = Cardinality(DOMAIN n.entries),
        !.graph = [i \in DOMAIN f |-> n.entries[f[i]].uuid]]

\* A HashMap drains in any order.
DrainOrders(n) ==
    Bijection(0..(Cardinality(DOMAIN n.entries) - 1), DOMAIN n.entries)

Rebuilt(n) ==
    IF NeedsRebuild(n) THEN {Renumbered(n, f) : f \in DrainOrders(n)} ELSE {n}

\* prune_empty_namespaces
Pruned(n, ns) ==
    IF /\ ns \in ConvNamespaces
       /\ DOMAIN n.entries = {}
       /\ n.evicted_ids = {}
    THEN NewNamespace ELSE n

\* The namespace as main loads it from a snapshot, in the order f.
Reloaded(n, f) ==
    LET r == Renumbered(n, f)
    IN  [r EXCEPT
            !.exact_match_index =
                [t \in {TextOf[r.graph[i]] : i \in DOMAIN f} \ {None} |->
                    r.graph[CHOOSE i \in DOMAIN f :
                              /\ TextOf[r.graph[i]] = t
                              /\ \A j \in DOMAIN f :
                                   TextOf[r.graph[j]] = t => j <= i]],
            !.dimension = IF DOMAIN f = {} THEN None ELSE @]

-----------------------------------------------------------------------------
(* query_with_text. *)

\* The exact-match pre-filter: an internal id, or None.
ExactMatch(n, p, now) ==
    LET t == ProbeText[p]
    IN  IF /\ t # None
           /\ t \in DOMAIN n.exact_match_index
           /\ n.exact_match_index[t] \in DOMAIN n.uuid_to_internal
           /\ LET i == n.uuid_to_internal[n.exact_match_index[t]]
              IN  /\ i \notin n.evicted_ids
                  /\ i \in DOMAIN n.entries
                  /\ ~Expired(n.entries[i], now)
        THEN n.uuid_to_internal[n.exact_match_index[t]]
        ELSE None

\* Mutant: the nearest node only.
Want_Nearest(n) == IF n.next_id = 0 THEN 0 ELSE 1

\* How many neighbours are asked for: one, and one for each ghost up to a cap.
Want(n) ==
    1 + IF Cardinality(n.evicted_ids) < MaxOverscan
        THEN Cardinality(n.evicted_ids) ELSE MaxOverscan

\* The search of n's graph is exact.
SmallGraph(n) == Cardinality(DOMAIN n.graph) <= ExactUpTo

\* The nearest k nodes, ghosts included, or all.
Nearest(n, p, k) ==
    {S \in SUBSET DOMAIN n.graph :
        /\ Cardinality(S) = IF k < Cardinality(DOMAIN n.graph)
                            THEN k ELSE Cardinality(DOMAIN n.graph)
        /\ \A i \in S, j \in DOMAIN n.graph \ S :
             Distance[p][n.graph[i]] <= Distance[p][n.graph[j]]}

\* Hnsw::search (external), which is approximate: beyond ef_search it may
\* overlook any node.
Neighbours(n, p, k) ==
    IF SmallGraph(n) THEN Nearest(n, p, k)
    ELSE {S \in SUBSET DOMAIN n.graph : Cardinality(S) <= k}

\* The loop over the neighbours S in order of distance: the nearest one that is
\* neither a ghost nor expired, if it is within the radius.
FirstMatch(n, p, now, S) ==
    LET alive == {i \in (S \cap DOMAIN n.entries) \ n.evicted_ids :
                    ~Expired(n.entries[i], now)}
        near == {i \in alive :
                   /\ Distance[p][n.graph[i]] <= Radius
                   /\ \A j \in alive :
                        Distance[p][n.graph[i]] <= Distance[p][n.graph[j]]}
    IN  IF near = {} THEN {None} ELSE near

\* The possible results: internal ids, None for a miss; {} for an error.
Answers(n, p, now) ==
    CASE ExactMatch(n, p, now) # None -> {ExactMatch(n, p, now)}
      [] ExactMatch(n, p, now) = None /\ n.dimension = None -> {None}
      [] ExactMatch(n, p, now) = None /\ n.dimension = ProbeDim[p] ->
             UNION {FirstMatch(n, p, now, S) : S \in Neighbours(n, p, Want(n))}
      [] OTHER -> {}

-----------------------------------------------------------------------------
(* SemanticIndex: one action per acquisition of the lock. *)

Live == {u \in Uuids : u \in DOMAIN index[NsOf[u]].uuid_to_internal}

\* The entries gone leave the global table.
Forget(gone) ==
    uuid_to_namespace' = Restrict(uuid_to_namespace, DOMAIN uuid_to_namespace \ gone)

\* replay_entry for an insert that a handler stamped at time t. A rejected
\* insert changes nothing.
Insert(u, t) ==
    LET n == index[NsOf[u]]
        e == [uuid |-> u, inserted_at |-> t, last_accessed_at |-> t,
              expires_at |-> IF TtlOf[u] = None THEN None ELSE t + TtlOf[u]]
    IN  /\ t \in 0..clock
        /\ clock - t <= MaxDelay
        /\ n.next_id < MaxNodes
        /\ Accepts(n, u)
        /\ index' = [index EXCEPT ![NsOf[u]] = InsertWithUuid(n, e)]
        /\ uuid_to_namespace' = Put(uuid_to_namespace, u, NsOf[u])
        /\ UNCHANGED <<clock, query>>

\* remove_by_uuid: a delete, or a tombstone in the flush task or in replay.
RemoveByUuid(u) ==
    /\ u \in DOMAIN uuid_to_namespace
    /\ LET ns == uuid_to_namespace[u]
           n == index[ns]
           ids == {n.uuid_to_internal[v] : v \in {u} \cap DOMAIN n.uuid_to_internal}
       IN  index' = [index EXCEPT ![ns] = DropEntries(n, ids)]
    /\ Forget({u})
    /\ UNCHANGED <<clock, query>>

\* invalidate_similar: the unexpired entries of ns within the radius of p.
InvalidateSimilar(ns, p) ==
    LET n == index[ns]
        matches == {i \in DOMAIN n.entries \ n.evicted_ids :
                      /\ ~Expired(n.entries[i], clock)
                      /\ Distance[p][n.entries[i].uuid] <= Radius}
    IN  /\ ns \notin ConvNamespaces
        /\ index' = [index EXCEPT ![ns] = DropEntries(n, matches)]
        /\ Forget(UuidsAt(n, matches))
        /\ UNCHANGED <<clock, query>>

\* One way to rebuild the namespaces of f that need it.
RebuildDirty(f) ==
    {g \in [Namespaces -> UNION {Rebuilt(f[ns]) : ns \in Namespaces}] :
        \A ns \in Namespaces : g[ns] \in Rebuilt(f[ns])}

\* evict_to_cap_step: evict_to_cap, then rebuild_dirty_namespaces.
EvictToCap ==
    LET capped == [ns \in Namespaces |->
                     DropEntries(index[ns], Victims(index[ns]))]
    IN  /\ index' \in RebuildDirty(capped)
        /\ Forget(UNION {UuidsAt(index[ns], Victims(index[ns])) :
                           ns \in Namespaces})
        /\ UNCHANGED <<clock, query>>

\* A tick of the reaper: collect_expired, rebuild_dirty_namespaces,
\* prune_empty_namespaces.
Sweep ==
    LET swept == [ns \in Namespaces |->
                    DropEntries(index[ns], ExpiredIds(index[ns], clock))]
    IN  /\ \E next \in RebuildDirty(swept) :
             index' = [ns \in Namespaces |-> Pruned(next[ns], ns)]
        /\ Forget(UNION {UuidsAt(index[ns], ExpiredIds(index[ns], clock)) :
                           ns \in Namespaces})
        /\ UNCHANGED <<clock, query>>

\* process_query_locally under the read lock: a hit in ns, or in its base
\* namespace if ns is a conversation's and misses. A miss changes nothing.
QueryHit(r, p, ns) ==
    /\ query[r] = None
    /\ \E where \in {ns, BaseOf[ns]} :
         /\ where # ns => None \in Answers(index[ns], p, clock)
         /\ \E i \in Answers(index[where], p, clock) \ {None} :
              query' = [query EXCEPT ![r] =
                          [ns |-> where, internal_id |-> i,
                           id |-> index[where].entries[i].uuid]]
    /\ UNCHANGED <<index, uuid_to_namespace, clock>>

\* record_access under the write lock.
RecordAccess(r) ==
    /\ query[r] # None
    /\ LET ns == query[r].ns
           i == query[r].internal_id
       IN  index' = IF i \in DOMAIN index[ns].entries
                    THEN [index EXCEPT
                            ![ns].entries[i].last_accessed_at = clock]
                    ELSE index
    /\ query' = [query EXCEPT ![r] = None]
    /\ UNCHANGED <<uuid_to_namespace, clock>>

Tick ==
    /\ clock < MaxTime
    /\ clock' = clock + 1
    /\ UNCHANGED <<index, uuid_to_namespace, query>>

\* A restart right after a compaction: snapshot_entries, replay_snapshot_entry
\* for each in any order, and the start-up expiry pass.
Reload ==
    /\ \E f \in [Namespaces -> UNION {DrainOrders(index[ns]) :
                                        ns \in Namespaces}] :
         /\ \A ns \in Namespaces : f[ns] \in DrainOrders(index[ns])
         /\ index' = [ns \in Namespaces |->
              LET r == Reloaded(index[ns], f[ns])
              IN  DropEntries(r, ExpiredIds(r, clock))]
         /\ uuid_to_namespace' =
              [u \in UNION {DOMAIN index'[ns].uuid_to_internal :
                              ns \in Namespaces} |-> NsOf[u]]
    /\ query' = [r \in Readers |-> None]
    /\ UNCHANGED clock

Init ==
    /\ index = [ns \in Namespaces |-> NewNamespace]
    /\ uuid_to_namespace = Empty
    /\ clock = 0
    /\ query = [r \in Readers |-> None]

Next ==
    \/ \E u \in Uuids, t \in 0..MaxTime : Insert(u, t)
    \/ \E u \in Uuids : RemoveByUuid(u)
    \/ \E ns \in Namespaces, p \in Probes : InvalidateSimilar(ns, p)
    \/ EvictToCap
    \/ Sweep
    \/ \E r \in Readers, p \in Probes, ns \in Namespaces : QueryHit(r, p, ns)
    \/ \E r \in Readers : RecordAccess(r)
    \/ Tick
    \/ Reload

Spec == Init /\ [][Next]_vars

-----------------------------------------------------------------------------
(* Properties. *)

\* Every table has the type of the Rust table it stands for.
TypeOK ==
    /\ \A ns \in Namespaces :
         LET n == index[ns] IN
         /\ \A i \in DOMAIN n.entries : n.entries[i] \in CacheEntry
         /\ \A u \in DOMAIN n.uuid_to_internal :
              u \in Uuids /\ n.uuid_to_internal[u] \in Nat
         /\ \A t \in DOMAIN n.exact_match_index :
              t \in Texts /\ n.exact_match_index[t] \in Uuids
         /\ \A i \in DOMAIN n.graph : n.graph[i] \in Uuids
         /\ n.evicted_ids \subseteq Nat
         /\ n.next_id \in 0..MaxNodes
         /\ n.dimension \in Nat \cup {None}
    /\ DOMAIN uuid_to_namespace \subseteq Uuids
    /\ clock \in 0..MaxTime
    /\ \A r \in Readers :
         query[r] = None \/ query[r] \in [ns : Namespaces, internal_id : Nat,
                                          id : Uuids]

\* The nodes of the graph are the ids handed out, and each is an entry with
\* that embedding or a ghost, never both: no search can return an id that
\* query_with_text does not know, its "neighbour not in side-table" error.
NodesAccounted(n) ==
    /\ DOMAIN n.graph = 0..(n.next_id - 1)
    /\ DOMAIN n.entries \cup n.evicted_ids = DOMAIN n.graph
    /\ DOMAIN n.entries \cap n.evicted_ids = {}
    /\ \A i \in DOMAIN n.entries : n.graph[i] = n.entries[i].uuid

\* entries and uuid_to_internal are inverse to each other.
InverseTables(n) ==
    /\ \A i \in DOMAIN n.entries :
         /\ n.entries[i].uuid \in DOMAIN n.uuid_to_internal
         /\ n.uuid_to_internal[n.entries[i].uuid] = i
    /\ \A u \in DOMAIN n.uuid_to_internal :
         /\ n.uuid_to_internal[u] \in DOMAIN n.entries
         /\ n.entries[n.uuid_to_internal[u]].uuid = u

\* A text leads to a stored entry that has it.
TextsOwned(n) ==
    \A t \in DOMAIN n.exact_match_index :
        /\ n.exact_match_index[t] \in DOMAIN n.uuid_to_internal
        /\ TextOf[n.exact_match_index[t]] = t

\* An entry lies in its own namespace, with the namespace's dimension, and the
\* global table knows exactly the stored entries.
GlobalTableAgrees ==
    /\ \A ns \in Namespaces : \A u \in DOMAIN index[ns].uuid_to_internal :
         /\ NsOf[u] = ns
         /\ DimOf[u] = index[ns].dimension
         /\ u \in DOMAIN uuid_to_namespace
    /\ \A u \in DOMAIN uuid_to_namespace :
         /\ uuid_to_namespace[u] = NsOf[u]
         /\ u \in DOMAIN index[NsOf[u]].uuid_to_internal

\* The side tables of index.rs agree after any sequence of inserts, removals,
\* evictions, sweeps, rebuilds and restarts, and are of their types.
SideTablesAgree ==
    /\ TypeOK
    /\ \A ns \in Namespaces : /\ NodesAccounted(index[ns])
                              /\ InverseTables(index[ns])
                              /\ TextsOwned(index[ns])
    /\ GlobalTableAgrees

\* The comment in query_with_text, "ask for extra candidates so
\* eviction-filtering doesn't turn a hit into a miss", where the search is
\* exact, the overscan covers the ghosts and no entry waits for the reaper.
GhostsHideNoHit ==
    \A ns \in Namespaces, p \in Probes :
        LET n == index[ns] IN
        ( /\ n.dimension = ProbeDim[p]
          /\ SmallGraph(n)
          /\ Cardinality(n.evicted_ids) <= MaxOverscan
          /\ ExpiredIds(n, clock) = {}
          /\ None \in Answers(n, p, clock) )
        => \A i \in DOMAIN n.entries : Distance[p][n.entries[i].uuid] > Radius

\* The comment at the TTL check, "we move on to the next candidate so a
\* still-live neighbour can match": an entry that waits for the reaper turns no
\* hit into a miss. (The candidates are counted by the ghosts alone, so there
\* may be no next one.)
ExpiredHidesNoHit ==
    \A ns \in Namespaces, p \in Probes :
        LET n == index[ns] IN
        ( /\ n.dimension = ProbeDim[p]
          /\ SmallGraph(n)
          /\ Cardinality(n.evicted_ids) <= MaxOverscan
          /\ None \in Answers(n, p, clock) )
        => \A i \in DOMAIN n.entries \ ExpiredIds(n, clock) :
             Distance[p][n.entries[i].uuid] > Radius

\* An eviction leaves no namespace above its cap and takes no entry that was
\* used later than one it keeps; the rebuild that follows loses nothing.
EvictionTakesOldest ==
    [][EvictToCap => \A ns \in Namespaces :
         LET kept == DOMAIN index'[ns].uuid_to_internal
             was == DOMAIN index[ns].uuid_to_internal
             lastUse(u) == index[ns].entries[index[ns].uuid_to_internal[u]]
                              .last_accessed_at
         IN  /\ Cardinality(kept) = IF Cardinality(was) > MaxEntries
                                    THEN MaxEntries ELSE Cardinality(was)
             /\ \A u \in was \ kept, v \in kept : lastUse(u) <= lastUse(v)]_vars

Contract == INSTANCE CacheIndex WITH
    live <- Live,
    dimension <- [ns \in Namespaces |-> index[ns].dimension]

\* Ghosts, rebuilds, renumbering and queries cannot be seen from outside: the
\* tables implement the index that the flush task, the reaper and the handlers
\* of module GroupCommitWal assume.
ImplementsCacheIndex == Contract!Spec

=============================================================================
