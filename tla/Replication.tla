----------------------------- MODULE Replication -----------------------------
(***************************************************************************)
(* One key across the cluster (the request handlers of server.rs, the      *)
(* router of router.rs, the lookups of cluster.rs): inserts that one node  *)
(* coordinates and copies to the key's replicas, queries forwarded to the  *)
(* key's owner and repaired from its replicas, deletes and invalidations   *)
(* that fan out to all peers.                                              *)
(*                                                                         *)
(* All requests are about one embedding in one namespace.  Of a copy the   *)
(* model keeps its id and the node whose clock gave it its deadline.  An   *)
(* insert or a removal on one node is one step; GroupCommitWal has its     *)
(* parts.  A view of a peer is what Membership's tables say of it.         *)
(* Every list of replicas is in the order of the key's walk, so that the   *)
(* set of its members stands for it and First is its head.                 *)
(*                                                                         *)
(* A call is a message in wire.  The caller gets the reply in the step     *)
(* that carries it out, or gives up first: with a connect error or a 5xx   *)
(* the message is gone, after a timeout it may still be carried out.       *)
(***************************************************************************)
EXTENDS Integers, FiniteSets, Sequences

CONSTANTS
    Node,         \* node ids
    Pref,         \* the nodes in the order of the key's clockwise walk
    RF,           \* replication_factor
    MaxRetries,   \* max_replication_retries
    read_repair_enabled,            \* the setting of that name
    Inserts, Queries, Removals,     \* client requests
    Fronts,       \* bound: the nodes clients talk to
    MaxOpen,      \* bound on the client requests under way at once
    Unsteady,     \* bound: the <<n, p>> of which n's view of p may change
    StartViews,   \* bound: the views <<e, v>> of e in Unsteady to start with
    MaxFaults     \* bound on view changes, drops, late calls, crashes

\* The peer is in the ring and Alive or Suspected; in the ring and Dead; out
\* of the ring; out of the address book too; heard again, not yet in the ring.
View == {"up", "dead", "out", "gone", "back"}

ASSUME ReplicationAssumption ==
    /\ Pref \in Seq(Node) /\ Pref # <<>>
    /\ \A p \in Node : \E i \in DOMAIN Pref : Pref[i] = p
    /\ \A i, j \in DOMAIN Pref : Pref[i] = Pref[j] => i = j
    /\ RF \in Nat \ {0} /\ MaxRetries \in Nat /\ MaxFaults \in Nat
    /\ read_repair_enabled \in BOOLEAN
    /\ Fronts \subseteq Node /\ MaxOpen \in Nat
    /\ Inserts \cap Removals = {} /\ Queries \cap Removals = {}
    /\ Unsteady \subseteq {e \in Node \X Node : e[1] # e[2]}
    /\ StartViews \subseteq Unsteady \X View

VARIABLES
    peer,      \* peer[n][p]: n's view of p
    copies,    \* copies[n][id]: who stamped the deadline of n's copy
    ins,       \* the coordinators of the inserts
    qry,       \* the coordinators of the queries
    serve,     \* process_query_locally for the current attempt of a query
    repairs,   \* perform_repair tasks
    rem,       \* the coordinators of deletes and invalidations
    wire,      \* insert and removal calls not yet carried out
    faults,    \* how many there have been
    stored,    \* history: the nodes on which local_insert_inner stored it
    held,      \* history: the nodes with a live copy throughout the query
    calm       \* history: nothing disturbed the request so far

vars == <<peer, copies, ins, qry, serve, repairs, rem, wire, faults,
          stored, held, calm>>

-----------------------------------------------------------------------------
(* What a node knows of its peers.                                         *)

AllUp == [n \in Node |-> [p \in Node |-> "up"]]

InRing(n, p) == peer[n][p] \in {"up", "dead"}

\* The address book has p.
HasAddr(n, p) == peer[n][p] # "gone"

\* peer_status = Dead.
IsDead(n, p) == peer[n][p] \in {"dead", "out", "gone"}

\* The order in which reconcile_step takes a peer through its tables.
ViewSteps ==
    {<<"up", "dead">>, <<"dead", "up">>, <<"dead", "out">>, <<"out", "gone">>,
     <<"gone", "out">>, <<"out", "back">>, <<"back", "up">>}

Position(p) == CHOOSE i \in DOMAIN Pref : Pref[i] = p

\* The one of some nodes that the walk meets first.
First(ids) ==
    CHOOSE p \in ids : \A q \in ids : Position(p) <= Position(q)

\* get_n_nodes_for_embedding on n's ring: the first RF nodes of the walk.
ReplicaIds(n) ==
    LET ring == {p \in Node : InRing(n, p)}
    IN  {p \in ring :
           Cardinality({q \in ring : Position(q) < Position(p)}) < RF}

\* The second half of get_replica_addrs, under the lock of the address book.
WithAddrs(n, ids) == {p \in ids : HasAddr(n, p)}

-----------------------------------------------------------------------------
(* Copies.                                                                 *)

\* Uuid::new_v4 for insert r on node n.
Uuid == Inserts \X Node

Absent == "absent"
NoId == <<>>

IdsOn(n) == {u \in Uuid : copies[n][u] # Absent}

\* insert_with_uuid: an id that is there already is left as it is.
Stored(n, u, stamp) ==
    [copies EXCEPT ![n][u] = IF @ = Absent THEN stamp ELSE @]

Without(n, ids) ==
    [copies EXCEPT ![n] = [u \in Uuid |-> IF u \in ids THEN Absent ELSE @[u]]]

\* local_insert_inner on node n: the id it is given, the deadline from its
\* own clock.
LocalInsert(n, u) ==
    /\ copies' = Stored(n, u, n)
    /\ stored' = [stored EXCEPT ![u[1]] = @ \cup {n}]

\* One of the boundedly many faults.
Fault == faults < MaxFaults /\ faults' = faults + 1

-----------------------------------------------------------------------------
InsertState ==
    [pc : {"new", "ring", "store", "next", "call", "done"},
     node : Node, ids : SUBSET Node, todo : SUBSET Node, skipped : SUBSET Node,
     try : 0..MaxRetries, id : Uuid \cup {NoId},
     answer : {"none", "ok", "error", "bad_gateway", "lost"}]

QueryState ==
    [pc : {"new", "ring", "addr", "call", "done"},
     node : Node, target : Node, repair : BOOLEAN, try : 0..MaxRetries,
     answer : {"none", "hit", "miss", "bad_gateway", "lost"}]

ServeState ==
    [pc : {"off", "look", "ring", "addrs", "ask", "wait"},
     node : Node, repair : BOOLEAN, todo : SUBSET Node, asked : SUBSET Node,
     waiting : SUBSET Node, failed : BOOLEAN, got : [Node -> Uuid \cup {NoId}]]

RepairTask ==
    [node : Node, from : Node, id : Uuid, stamp : Node \cup {Absent}]

RemovalState ==
    [pc : {"new", "peers", "next", "call", "done"},
     node : Node, ids : SUBSET Uuid, sweep : BOOLEAN, todo : SUBSET Node,
     target : Node, missed : BOOLEAN,
     answer : {"none", "ok", "not_found", "lost"}]

Call == [req : Inserts \cup Removals, to : Node, try : 0..MaxRetries]

TypeOK ==
    /\ peer \in [Node -> [Node -> View]]
    /\ copies \in [Node -> [Uuid -> Node \cup {Absent}]]
    /\ ins \in [Inserts -> InsertState]
    /\ qry \in [Queries -> QueryState]
    /\ serve \in [Queries -> ServeState]
    /\ repairs \subseteq RepairTask
    /\ rem \in [Removals -> RemovalState]
    /\ wire \subseteq Call
    /\ faults \in 0..MaxFaults
    /\ stored \in [Inserts -> SUBSET Node]
    /\ held \in [Queries -> SUBSET Node]
    /\ calm \in [Queries \cup Removals -> BOOLEAN]

Off == [pc |-> "off", node |-> Head(Pref), repair |-> FALSE, todo |-> {},
        asked |-> {}, waiting |-> {}, failed |-> FALSE,
        got |-> [p \in Node |-> NoId]]

Init ==
    LET n == Head(Pref) IN
    /\ \/ peer = AllUp
       \/ \E s \in StartViews :
            peer = [AllUp EXCEPT ![s[1][1]][s[1][2]] = s[2]]
    /\ copies = [m \in Node |-> [u \in Uuid |-> Absent]]
    /\ ins = [r \in Inserts |->
                [pc |-> "new", node |-> n, ids |-> {}, todo |-> {},
                 skipped |-> {}, try |-> 0, id |-> NoId, answer |-> "none"]]
    /\ qry = [q \in Queries |->
                [pc |-> "new", node |-> n, target |-> n, repair |-> FALSE,
                 try |-> 0, answer |-> "none"]]
    /\ serve = [q \in Queries |-> Off]
    /\ repairs = {}
    /\ rem = [d \in Removals |->
                [pc |-> "new", node |-> n, ids |-> {}, sweep |-> FALSE,
                 todo |-> {}, target |-> n, missed |-> FALSE,
                 answer |-> "none"]]
    /\ wire = {} /\ faults = 0
    /\ stored = [r \in Inserts |-> {}]
    /\ held = [q \in Queries |-> {}]
    /\ calm = [x \in Queries \cup Removals |-> TRUE]

-----------------------------------------------------------------------------
(* insert_handler.                                                         *)

insertRest == <<peer, qry, serve, repairs, rem, faults>>

Answered(s, a) == [s EXCEPT !.pc = "done", !.todo = {}, !.try = 0,
                            !.answer = a]

\* ?local=true: process_insert_locally, under an id of the node's own.
InsertHere(r, n) ==
    /\ ins[r].pc = "new"
    /\ LET s == [ins[r] EXCEPT !.node = n, !.id = <<r, n>>] IN
       \/ /\ LocalInsert(n, <<r, n>>)
          /\ ins' = [ins EXCEPT ![r] = Answered(s, "ok")]
       \/ /\ ins' = [ins EXCEPT ![r] = Answered(s, "error")]
          /\ UNCHANGED <<copies, stored>>
    /\ UNCHANGED <<wire, insertRest>>

\* get_replica_addrs: the ring under its lock, ...
InsertBegin(r, n) ==
    /\ ins[r].pc = "new"
    /\ ins' = [ins EXCEPT ![r].pc = "ring", ![r].node = n,
                          ![r].ids = ReplicaIds(n)]
    /\ UNCHANGED <<copies, stored, wire, insertRest>>

\* ... then the addresses under theirs.  The coordinator stamps the id; with
\* no replica left it inserts locally.
InsertResolve(r) ==
    LET n == ins[r].node
        replicas == WithAddrs(n, ins[r].ids)
    IN  /\ ins[r].pc = "ring"
        /\ ins' = [ins EXCEPT
                     ![r].pc = IF replicas = {} \/ n \in replicas
                               THEN "store" ELSE "next",
                     ![r].ids = replicas, ![r].todo = replicas \ {n},
                     ![r].id = <<r, n>>]
        /\ UNCHANGED <<copies, stored, wire, insertRest>>

\* local_insert_inner on the coordinator, which answers 500 if it fails.
InsertStore(r) ==
    /\ ins[r].pc = "store"
    /\ \/ /\ LocalInsert(ins[r].node, ins[r].id)
          /\ ins' = [ins EXCEPT ![r].pc = "next"]
       \/ /\ ins' = [ins EXCEPT ![r] = Answered(@, "error")]
          /\ UNCHANGED <<copies, stored>>
    /\ UNCHANGED <<wire, insertRest>>

\* forward_insert to p, attempt t.
ForwardInsert(r, p, t) == [req |-> r, to |-> p, try |-> t]

\* The attempt the coordinator waits for.
Awaited(r) == ForwardInsert(r, First(ins[r].todo), ins[r].try)

\* Mutant: a Dead replica is waited for, not skipped.
InsertNext_Waits(r) ==
    LET s == ins[r]
        p == First(s.todo)
    IN  /\ s.pc = "next" /\ s.todo # {} /\ ~IsDead(s.node, p)
        /\ ins' = [ins EXCEPT ![r].pc = "call", ![r].try = 0]
        /\ wire' = wire \cup {ForwardInsert(r, p, 0)}
        /\ UNCHANGED <<copies, stored, insertRest>>

\* The next replica: skipped if Dead, else called.
InsertNext(r) ==
    LET s == ins[r]
        p == First(s.todo)
    IN  /\ s.pc = "next" /\ s.todo # {}
        /\ IF IsDead(s.node, p)
           THEN /\ ins' = [ins EXCEPT ![r].todo = @ \ {p},
                                      ![r].skipped = @ \cup {p}]
                /\ UNCHANGED wire
           ELSE /\ ins' = [ins EXCEPT ![r].pc = "call", ![r].try = 0]
                /\ wire' = wire \cup {ForwardInsert(r, p, 0)}
        /\ UNCHANGED <<copies, stored, insertRest>>

\* Mutant: the replica stamps an id of its own.
InsertDeliver_OwnId(m) ==
    /\ m \in wire /\ m.req \in Inserts
    /\ LocalInsert(m.to, <<m.req, m.to>>)
    /\ wire' = wire \ {m}
    /\ ins' = IF ins[m.req].pc = "call" /\ m = Awaited(m.req)
              THEN [ins EXCEPT ![m.req].pc = "next", ![m.req].try = 0,
                               ![m.req].todo = @ \ {m.to}]
              ELSE ins
    /\ UNCHANGED insertRest

\* forward_insert is carried out on the replica, with the coordinator's id;
\* the reply counts if the coordinator still waits for this attempt.
InsertDeliver(m) ==
    /\ m \in wire /\ m.req \in Inserts
    /\ LocalInsert(m.to, ins[m.req].id)
    /\ wire' = wire \ {m}
    /\ ins' = IF ins[m.req].pc = "call" /\ m = Awaited(m.req)
              THEN [ins EXCEPT ![m.req].pc = "next", ![m.req].try = 0,
                               ![m.req].todo = @ \ {m.to}]
              ELSE ins
    /\ UNCHANGED insertRest

\* forward_with_retry goes on: connect errors, timeouts and 5xx are retried
\* until the retries are used up, a 4xx ends the loop.
Retried(retryable, t) == retryable /\ t < MaxRetries

\* Mutant: a replica that cannot be reached is passed over.
InsertCallFails_PassesOver(r, retryable, lingers) ==
    LET m == Awaited(r)
        rest == IF lingers THEN wire ELSE wire \ {m}
    IN  /\ ins[r].pc = "call"
        /\ m \in wire
        /\ IF Retried(retryable, ins[r].try)
           THEN /\ ins' = [ins EXCEPT ![r].try = @ + 1]
                /\ wire' = rest \cup {[m EXCEPT !.try = @ + 1]}
           ELSE /\ ins' = [ins EXCEPT ![r].pc = "next", ![r].todo = @ \ {m.to}]
                /\ wire' = rest
        /\ IF lingers THEN Fault ELSE UNCHANGED faults
        /\ UNCHANGED <<copies, stored, peer, qry, serve, repairs, rem>>

\* An attempt fails.  A replica that cannot be reached ends the request with
\* 502 and leaves the copies made so far.
InsertCallFails(r, retryable, lingers) ==
    LET m == Awaited(r)
        rest == IF lingers THEN wire ELSE wire \ {m}
    IN  /\ ins[r].pc = "call"
        /\ m \in wire
        /\ IF Retried(retryable, ins[r].try)
           THEN /\ ins' = [ins EXCEPT ![r].try = @ + 1]
                /\ wire' = rest \cup {[m EXCEPT !.try = @ + 1]}
           ELSE /\ ins' = [ins EXCEPT ![r] = Answered(@, "bad_gateway")]
                /\ wire' = rest
        /\ IF lingers THEN Fault ELSE UNCHANGED faults
        /\ UNCHANGED <<copies, stored, peer, qry, serve, repairs, rem>>

InsertDone(r) ==
    /\ ins[r].pc = "next" /\ ins[r].todo = {}
    /\ ins' = [ins EXCEPT ![r] = Answered(@, "ok")]
    /\ UNCHANGED <<copies, stored, wire, insertRest>>

-----------------------------------------------------------------------------
(* query_handler and forward_query.                                        *)

queryRest == <<peer, copies, ins, rem, wire, faults, stored>>

\* The response; of the coordinator's locals nothing is left.
Replied(s, a) == [s EXCEPT !.pc = "done", !.answer = a, !.node = Head(Pref),
                           !.target = Head(Pref), !.try = 0, !.repair = FALSE]

Serving(n, repair) == [Off EXCEPT !.pc = "look", !.node = n, !.repair = repair]

\* Mutant: ?local=true alone decides.
TryRepair_Local(local, repair) == ~local

\* LocalParam::try_repair.
TryRepair(local, repair) == IF repair = "unset" THEN ~local ELSE repair = "true"

\* forward_query: the receiver does not route, but repairs.
ForwardQuery(n) == Serving(n, TryRepair(TRUE, "true"))

\* ?local=true from a client: no routing, and no repair by default.
QueryHere(q, n) ==
    /\ qry[q].pc = "new"
    /\ qry' = [qry EXCEPT ![q].pc = "call", ![q].node = n, ![q].target = n]
    /\ serve' = [serve EXCEPT ![q] = Serving(n, TryRepair(TRUE, "unset"))]
    /\ UNCHANGED <<repairs, queryRest>>

\* get_target_addr: the owner from the ring, ...
QueryBegin(q, n) ==
    /\ qry[q].pc = "new"
    /\ qry' = [qry EXCEPT ![q].pc = "ring", ![q].node = n,
                          ![q].target = First(ReplicaIds(n)),
                          ![q].repair = TryRepair(FALSE, "unset")]
    /\ UNCHANGED <<serve, repairs, queryRest>>

\* ... then its address; a key of the node's own, or an owner without an
\* address, is served here.
QueryResolve(q) ==
    LET s == qry[q] IN
    /\ s.pc = "ring"
    /\ IF s.target = s.node \/ ~HasAddr(s.node, s.target)
       THEN /\ qry' = [qry EXCEPT ![q].pc = "call", ![q].target = s.node]
            /\ serve' = [serve EXCEPT ![q] = Serving(s.node, s.repair)]
       ELSE /\ qry' = [qry EXCEPT ![q].pc = "addr"]
            /\ UNCHANGED serve
    /\ UNCHANGED <<repairs, queryRest>>

\* A Dead owner is a miss, any other is called with ?local=true&repair=true.
QueryForward(q) ==
    LET s == qry[q] IN
    /\ s.pc = "addr"
    /\ IF IsDead(s.node, s.target)
       THEN /\ qry' = [qry EXCEPT ![q] = Replied(@, "miss")]
            /\ UNCHANGED serve
       ELSE /\ qry' = [qry EXCEPT ![q].pc = "call", ![q].try = 0]
            /\ serve' = [serve EXCEPT ![q] = ForwardQuery(s.target)]
    /\ UNCHANGED <<repairs, queryRest>>

\* An attempt of the forward fails, as for an insert.  Its handler on the
\* owner is dropped with the connection.
QueryCallFails(q, retryable) ==
    LET s == qry[q] IN
    /\ s.pc = "call" /\ s.target # s.node
    /\ IF Retried(retryable, s.try)
       THEN /\ qry' = [qry EXCEPT ![q].try = @ + 1]
            /\ serve' = [serve EXCEPT ![q] = ForwardQuery(s.target)]
       ELSE /\ qry' = [qry EXCEPT ![q] = Replied(@, "bad_gateway")]
            /\ serve' = [serve EXCEPT ![q] = Off]
    /\ UNCHANGED <<repairs, queryRest>>

-----------------------------------------------------------------------------
(* process_query_locally, attempt_read_repair and perform_repair.          *)

\* The answer to q, which may be lost on its way to another node.
ServeEnds(q, answer) ==
    /\ serve' = [serve EXCEPT ![q] = Off]
    /\ \/ qry' = [qry EXCEPT ![q] = Replied(@, answer)]
       \/ qry[q].target # qry[q].node /\ UNCHANGED qry

\* The local lookup.  A miss is repaired only if the request asks for it, the
\* node is configured for it and there can be another copy.
ServeLook(q) ==
    LET h == serve[q] IN
    /\ h.pc = "look"
    /\ IF IdsOn(h.node) # {} THEN ServeEnds(q, "hit")
       ELSE IF h.repair /\ read_repair_enabled /\ RF > 1
            THEN /\ serve' = [serve EXCEPT ![q].pc = "ring"]
                 /\ UNCHANGED qry
            ELSE ServeEnds(q, "miss")
    /\ UNCHANGED <<repairs, queryRest>>

\* get_replica_addrs on the serving node.
ServeRing(q) ==
    LET h == serve[q] IN
    /\ h.pc = "ring"
    /\ serve' = [serve EXCEPT ![q].pc = "addrs",
                              ![q].todo = ReplicaIds(h.node)]
    /\ UNCHANGED <<qry, repairs, queryRest>>

ServeAddrs(q) ==
    LET h == serve[q] IN
    /\ h.pc = "addrs"
    /\ serve' = [serve EXCEPT
                   ![q].pc = "ask",
                   ![q].todo = WithAddrs(h.node, @) \ {h.node}]
    /\ UNCHANGED <<qry, repairs, queryRest>>

\* The filter on peer_status, one peer at a time.
ServeAsk(q) ==
    LET h == serve[q]
        p == First(h.todo)
    IN  /\ h.pc = "ask" /\ h.todo # {}
        /\ serve' = [serve EXCEPT
                       ![q].todo = @ \ {p},
                       ![q].asked = IF IsDead(h.node, p) THEN @ ELSE @ \cup {p}]
        /\ UNCHANGED <<qry, repairs, queryRest>>

\* All peers that are left are asked at once; with none the answer is a miss.
ServeFanOut(q) ==
    LET h == serve[q] IN
    /\ h.pc = "ask" /\ h.todo = {}
    /\ IF h.asked = {} THEN ServeEnds(q, "miss")
       ELSE /\ serve' = [serve EXCEPT
                 ![q].pc = "wait", ![q].waiting = h.asked]
            /\ UNCHANGED qry
    /\ UNCHANGED <<repairs, queryRest>>

\* forward_query_no_repair on one of them: its local lookup, once, or an error.
ServePeer(q, p) ==
    LET h == serve[q]
        found == IdsOn(p)
    IN  /\ h.pc = "wait" /\ p \in h.waiting
        /\ \/ \E a \in IF found = {} THEN {NoId} ELSE found :
                serve' = [serve EXCEPT ![q].waiting = @ \ {p}, ![q].got[p] = a]
           \/ serve' = [serve EXCEPT ![q].waiting = @ \ {p}, ![q].failed = TRUE]
        /\ UNCHANGED <<qry, repairs, queryRest>>

\* join_all: the first hit in the order of the replicas is the answer, and
\* its entry is fetched in the background.
ServeJoin(q) ==
    LET h == serve[q]
        hits == {p \in h.asked : h.got[p] # NoId}
    IN  /\ h.pc = "wait" /\ h.waiting = {}
        /\ IF hits = {}
           THEN ServeEnds(q, "miss") /\ UNCHANGED repairs
           ELSE /\ ServeEnds(q, "hit")
                /\ repairs' = repairs \cup
                     {[node |-> h.node, from |-> First(hits),
                       id |-> h.got[First(hits)], stamp |-> Absent]}
        /\ UNCHANGED queryRest

repairRest == <<peer, ins, qry, serve, rem, wire, faults, stored>>

\* get_entry_handler: the whole entry, deadline and all.
GetEntry(n, u) == copies[n][u]

\* forward_get_entry finds the entry on the peer.
RepairFetch(x) ==
    /\ x \in repairs /\ x.stamp = Absent
    /\ GetEntry(x.from, x.id) # Absent
    /\ repairs' = (repairs \ {x})
                    \cup {[x EXCEPT !.stamp = GetEntry(x.from, x.id)]}
    /\ UNCHANGED <<copies, repairRest>>

\* Mutant: the deadline is computed anew.
RepairStore_Restamps(x) ==
    /\ x \in repairs /\ x.stamp # Absent
    /\ copies' = Stored(x.node, x.id, x.node)
    /\ repairs' = repairs \ {x}
    /\ UNCHANGED repairRest

\* The copy goes through the WAL with the deadline it had at its source.
RepairStore(x) ==
    /\ x \in repairs /\ x.stamp # Absent
    /\ copies' = Stored(x.node, x.id, x.stamp)
    /\ repairs' = repairs \ {x}
    /\ UNCHANGED repairRest

\* A 404, a transport error or a failed write ends the task.
RepairFails(x) ==
    /\ x \in repairs
    /\ repairs' = repairs \ {x}
    /\ UNCHANGED <<copies, repairRest>>

-----------------------------------------------------------------------------
(* delete_entry_handler and invalidate_handler.                            *)

removalRest == <<peer, ins, qry, serve, repairs, stored, faults>>

\* What the request removes on node n: a delete its id, an invalidation every
\* live entry near the embedding.
Matches(s, n) == IF s.sweep THEN IdsOn(n) ELSE s.ids

Finished(s, a) == [s EXCEPT !.pc = "done", !.answer = a, !.todo = {},
                            !.node = Head(Pref), !.target = Head(Pref),
                            !.ids = IF s.sweep /\ s.missed THEN {} ELSE @]

\* Mutant: an invalidation stays on its node.
RemovalBegin_OneNode(d, n, ids, sweep, local) ==
    LET s == [rem[d] EXCEPT !.node = n, !.ids = ids, !.sweep = sweep,
                            !.target = n]
        found == sweep \/ \A u \in ids : copies[n][u] # Absent
    IN  /\ rem[d].pc = "new"
        /\ copies' = Without(n, Matches(s, n))
        /\ rem' = [rem EXCEPT ![d] =
             IF found /\ ~local /\ ~sweep THEN [s EXCEPT !.pc = "peers"]
             ELSE Finished([s EXCEPT !.missed = local],
                           IF found THEN "ok" ELSE "not_found")]
        /\ UNCHANGED <<wire, removalRest>>

\* An id the node does not have is answered 404 at once; else it is removed
\* and, unless ?local=true, the peers follow.
RemovalBegin(d, n, ids, sweep, local) ==
    LET s == [rem[d] EXCEPT !.node = n, !.ids = ids, !.sweep = sweep,
                            !.target = n]
        found == sweep \/ \A u \in ids : copies[n][u] # Absent
    IN  /\ rem[d].pc = "new"
        /\ copies' = Without(n, Matches(s, n))
        /\ rem' = [rem EXCEPT ![d] =
             IF found /\ ~local THEN [s EXCEPT !.pc = "peers"]
             ELSE Finished([s EXCEPT !.missed = local],
                           IF found THEN "ok" ELSE "not_found")]
        /\ UNCHANGED <<wire, removalRest>>

\* all_peer_addrs.
RemovalPeers(d) ==
    LET n == rem[d].node IN
    /\ rem[d].pc = "peers"
    /\ rem' = [rem EXCEPT ![d].pc = "next",
                          ![d].todo = {p \in Node \ {n} : HasAddr(n, p)}]
    /\ UNCHANGED <<copies, wire, removalRest>>

\* forward_delete_entry or forward_invalidate to p, which is never retried.
ForwardRemoval(d, p) == [req |-> d, to |-> p, try |-> 0]

\* A peer that is Dead is passed over, any other is called once.
RemovalNext(d, p) ==
    LET s == rem[d] IN
    /\ s.pc = "next" /\ p \in s.todo
    /\ IF IsDead(s.node, p)
       THEN /\ rem' = [rem EXCEPT ![d].todo = @ \ {p}, ![d].missed = TRUE]
            /\ UNCHANGED wire
       ELSE /\ rem' = [rem EXCEPT ![d].pc = "call", ![d].target = p]
            /\ wire' = wire \cup {ForwardRemoval(d, p)}
    /\ UNCHANGED <<copies, removalRest>>

\* forward_delete_entry or forward_invalidate is carried out; a peer without
\* the entry answers 404, which is as good.
RemovalDeliver(m) ==
    /\ m \in wire /\ m.req \in Removals
    /\ copies' = Without(m.to, Matches(rem[m.req], m.to))
    /\ wire' = wire \ {m}
    /\ rem' = IF rem[m.req].pc = "call" /\ rem[m.req].target = m.to
              THEN [rem EXCEPT ![m.req].pc = "next",
                               ![m.req].todo = @ \ {m.to}]
              ELSE rem
    /\ UNCHANGED removalRest

\* A failed call is logged and the next peer follows.
RemovalCallFails(d, lingers) ==
    LET m == ForwardRemoval(d, rem[d].target) IN
    /\ rem[d].pc = "call"
    /\ rem' = [rem EXCEPT ![d].pc = "next", ![d].todo = @ \ {m.to},
                          ![d].missed = TRUE]
    /\ wire' = IF lingers THEN wire ELSE wire \ {m}
    /\ IF lingers THEN Fault ELSE UNCHANGED faults
    /\ UNCHANGED <<copies, peer, ins, qry, serve, repairs, stored>>

RemovalDone(d) ==
    /\ rem[d].pc = "next" /\ rem[d].todo = {}
    /\ rem' = [rem EXCEPT ![d] = Finished(@, "ok")]
    /\ UNCHANGED <<copies, wire, removalRest>>

-----------------------------------------------------------------------------
(* The surroundings.                                                       *)

\* One step of n's reconciler (Membership).
ViewChange(n, p) ==
    /\ <<n, p>> \in Unsteady /\ Fault
    /\ \E v \in View :
         /\ <<peer[n][p], v>> \in ViewSteps
         /\ peer' = [peer EXCEPT ![n][p] = v]
    /\ UNCHANGED <<copies, ins, qry, serve, repairs, rem, wire, stored>>

\* n drops a copy on its own: expired, or over the namespace's cap.
Drop(n, u) ==
    /\ copies[n][u] # Absent /\ Fault
    /\ copies' = Without(n, {u})
    /\ UNCHANGED <<peer, ins, qry, serve, repairs, rem, wire, stored>>

\* n's process dies and comes back with the copies its disk holds: the
\* requests it coordinates, the queries it serves and its repairs are lost.
Crash(n) ==
    LET lost(f) == [r \in DOMAIN f |->
                      IF f[r].node = n /\ f[r].pc \notin {"new", "done"}
                      THEN [f[r] EXCEPT !.pc = "done", !.answer = "lost"]
                      ELSE f[r]]
    IN  /\ Fault
        /\ ins' = lost(ins) /\ qry' = lost(qry) /\ rem' = lost(rem)
        /\ serve' = [q \in Queries |->
              IF n \in {serve[q].node, qry[q].node} THEN Off ELSE serve[q]]
        /\ repairs' = {x \in repairs : x.node # n}
        /\ UNCHANGED <<peer, copies, wire, stored>>

-----------------------------------------------------------------------------
InsertStep(r) ==
    \/ InsertResolve(r) \/ InsertStore(r) \/ InsertNext(r) \/ InsertDone(r)
    \/ \E retryable \in BOOLEAN : \E lingers \in {FALSE, retryable} :
         InsertCallFails(r, retryable, lingers)

QueryStep(q) ==
    \/ QueryResolve(q) \/ QueryForward(q)
    \/ \E retryable \in BOOLEAN : QueryCallFails(q, retryable)

ServeStep(q) ==
    \/ ServeLook(q) \/ ServeRing(q) \/ ServeAddrs(q)
    \/ ServeAsk(q) \/ ServeFanOut(q) \/ ServeJoin(q)
    \/ \E p \in Node : ServePeer(q, p)

RemovalStep(d) ==
    \/ RemovalPeers(d) \/ RemovalDone(d)
    \/ \E p \in rem[d].todo : RemovalNext(d, p)
    \/ \E lingers \in BOOLEAN : RemovalCallFails(d, lingers)

Open == {r \in Inserts : ins[r].pc \notin {"new", "done"}}
          \cup {q \in Queries : qry[q].pc \notin {"new", "done"}}
          \cup {d \in Removals : rem[d].pc \notin {"new", "done"}}

\* The ids known to clients and nodes.
Issued == {ins[r].id : r \in Inserts} \ {NoId}

\* Deletes name an id, invalidations the embedding.
Requests ==
    /\ Cardinality(Open) < MaxOpen
    /\ \E n \in Fronts :
         \/ \E r \in Inserts : InsertHere(r, n) \/ InsertBegin(r, n)
         \/ \E q \in Queries : QueryHere(q, n) \/ QueryBegin(q, n)
         \/ \E d \in Removals, local \in BOOLEAN :
              \/ \E u \in Issued : RemovalBegin(d, n, {u}, FALSE, local)
              \/ RemovalBegin(d, n, Issued, TRUE, local)

Step ==
    \/ Requests
    \/ \E r \in Inserts : InsertStep(r)
    \/ \E q \in Queries : QueryStep(q) \/ ServeStep(q)
    \/ \E d \in Removals : RemovalStep(d)
    \/ \E m \in wire : InsertDeliver(m) \/ RemovalDeliver(m)
    \/ \E x \in repairs : RepairFetch(x) \/ RepairStore(x) \/ RepairFails(x)
    \/ \E n, p \in Node : ViewChange(n, p)
    \/ \E n \in Node, u \in Uuid : Drop(n, u)
    \/ \E n \in Node : Crash(n)

\* Nothing but removal d is under way.
OnlyRemoval(d) ==
    /\ \A r \in Inserts : ins[r].pc \in {"new", "done"}
    /\ \A q \in Queries : qry[q].pc \in {"new", "done"}
    /\ \A q \in Queries : serve[q].pc = "off"
    /\ \A e \in Removals \ {d} : rem[e].pc \in {"new", "done"}
    /\ repairs = {} /\ \A m \in wire : m.req = d

\* A call made for query q has failed.
QueryTroubled(q) == qry[q].try > 0 \/ serve[q].failed

Holders == {n \in Node : IdsOn(n) # {}}

\* The histories, updated from the state a step leads to.
Observe ==
    /\ held' = [q \in Queries |->
         IF qry[q].pc = "new" THEN IF qry'[q].pc = "new" THEN {} ELSE Holders'
         ELSE IF qry'[q].pc = "done" THEN {} ELSE held[q] \cap Holders']
    /\ calm' = [x \in Queries \cup Removals |->
         IF x \in Queries
         THEN \/ qry'[x].pc \in {"new", "done"}
              \/ calm[x] /\ (peer = AllUp /\ ~QueryTroubled(x))'
         ELSE \/ rem'[x].pc = "new"
              \/ calm[x] /\ (rem[x].pc = "done"
                             \/ (peer = AllUp /\ OnlyRemoval(x) /\ ~rem[x].missed)')]

Next == Step /\ Observe

\* Handlers and tasks run on while their node is up, and no call outlives
\* FORWARD_TIMEOUT; clients, membership, clock and crashes owe nothing.
Fairness ==
    /\ \A r \in Inserts : WF_vars(InsertStep(r) /\ Observe)
    /\ \A q \in Queries : WF_vars((QueryStep(q) \/ ServeStep(q)) /\ Observe)
    /\ \A d \in Removals : WF_vars(RemovalStep(d) /\ Observe)

Spec == Init /\ [][Next]_vars /\ Fairness

-----------------------------------------------------------------------------
(* Properties.                                                             *)

\* insert_handler answers 200 only once the coordinator's replicas have the
\* entry, each one it has not found Dead when its turn came: no failed,
\* retried or late call is taken for a copy.
AckMeansReplicated ==
    \A r \in Inserts :
        ins[r].answer = "ok" => ins[r].ids \ ins[r].skipped \subseteq stored[r]

\* Whatever is retried, delivered late, left behind by a 502 or repaired, all
\* copies of one insert carry the one id its coordinator stamped, so that a
\* delete of that id reaches them all.
OneIdPerInsert ==
    \A m, n \in Node : \A u, v \in Uuid :
        u[1] = v[1] /\ copies[m][u] # Absent /\ copies[n][v] # Absent => u = v

\* Read repair, where it is enabled, heals misses: a routed query that met no
\* Dead or missing peer and no failed call answers a miss only if none of the
\* key's replicas has held a live copy throughout.
MissMeansNoReplicaHadIt ==
    [][read_repair_enabled =>
         \A q \in Queries :
            qry[q].pc # "done" /\ qry'[q].answer = "miss" /\ qry[q].repair /\ calm[q]
                => held[q] \cap Holders' \cap ReplicaIds(qry[q].node) = {}]_vars

\* A delete or invalidation that reached every peer, with no other request,
\* late call or repair under way, is final: the entry is nowhere, and no
\* replica hands it back later.
UndisturbedRemovalIsFinal ==
    \A d \in Removals :
        rem[d].answer = "ok" /\ calm[d]
            => \A n \in Node : \A u \in rem[d].ids : copies[n][u] = Absent

\* A repair passes on the deadline of its source: whatever a copy has gone
\* through, it expires when local_insert_inner of some node said it would
\* (and the state is of its type).
RepairKeepsDeadlines ==
    /\ TypeOK
    /\ \A n \in Node, u \in Uuid : copies[n][u] \in stored[u[1]] \cup {Absent}

\* Every request is answered, unless its coordinator crashes: retries end,
\* fan-outs end, a Dead or silent peer holds nobody up for ever.  There are
\* finitely many requests, so that all of them end sooner or later.
EveryRequestAnswered == []<>(Open = {})

\* "replication_factor copies of every entry" (docs/production/cluster.md):
\* at least one node has stored an insert that was answered 200.
AckedInsertStored ==
    \A r \in Inserts : ins[r].answer = "ok" => stored[r] # {}

=============================================================================
