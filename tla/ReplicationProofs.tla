-------------------------- MODULE ReplicationProofs --------------------------
(***************************************************************************)
(* Proofs about Replication, for every number of nodes, requests, retries  *)
(* and faults, every replication factor and every walk of the ring.        *)
(***************************************************************************)
EXTENDS Replication, FiniteSetTheorems, TLAPS

-----------------------------------------------------------------------------
(* The order of the walk.                                                  *)

\* The least-number principle, from the well-foundedness of strict inclusion.
LEMMA LeastNumber ==
    ASSUME NEW T \in SUBSET Nat, T # {}
    PROVE  \E m \in T : \A k \in T : m <= k
<1> DEFINE below == {0..(m - 1) : m \in T}
<1>1. \A m \in T : 0..(m - 1) \in SUBSET Nat /\ IsFiniteSet(0..(m - 1))
  <2> SUFFICES ASSUME NEW m \in T
               PROVE  0..(m - 1) \in SUBSET Nat /\ IsFiniteSet(0..(m - 1))
    OBVIOUS
  <2>1. m \in Nat /\ 0 \in Int /\ m - 1 \in Int
    OBVIOUS
  <2>2. IsFiniteSet(0..(m - 1))
    BY <2>1, FS_Interval
  <2> QED
    BY <2>1, <2>2
<1>2. below \subseteq FiniteSubsetsOf(Nat) /\ below # {}
  BY <1>1 DEF FiniteSubsetsOf
<1>3. IsWellFoundedOn(StrictSubsetOrdering(Nat), FiniteSubsetsOf(Nat))
  BY FS_StrictSubsetOrderingWellFounded
<1> HIDE DEF below
<1>4. PICK s \in below : \A t \in below : ~(<<t, s>> \in StrictSubsetOrdering(Nat))
  BY <1>2, <1>3, WFMin
<1>5. PICK m \in T : s = 0..(m - 1)
  BY <1>4 DEF below
<1>6. ASSUME NEW k \in T PROVE m <= k
  <2>1. 0..(k - 1) \in below
    BY DEF below
  <2>2. ~(<<0..(k - 1), s>> \in StrictSubsetOrdering(Nat))
    BY <1>4, <2>1
  <2>3. ~(0..(k - 1) \subseteq s /\ 0..(k - 1) # s)
    BY <1>1, <1>5, <2>2 DEF StrictSubsetOrdering
  <2>4. ASSUME k < m PROVE FALSE
    <3>1. k \in Nat /\ m \in Nat /\ k \in s /\ k \notin 0..(k - 1)
      BY <1>5, <2>4
    <3>2. 0..(k - 1) \subseteq s
      BY <1>5, <2>4, <3>1
    <3> QED
      BY <2>3, <3>1, <3>2
  <2> QED
    BY <2>4
<1> QED
  BY <1>5, <1>6

LEMMA PositionType ==
    ASSUME NEW p \in Node
    PROVE  Position(p) \in Nat /\ Position(p) \in DOMAIN Pref /\ Pref[Position(p)] = p
<1>1. \E i \in DOMAIN Pref : Pref[i] = p
  BY ReplicationAssumption
<1>2. Position(p) \in DOMAIN Pref /\ Pref[Position(p)] = p
  BY <1>1 DEF Position
<1>3. Pref \in Seq(Node)
  BY ReplicationAssumption
<1>4. DOMAIN Pref \subseteq Nat
  BY <1>3
<1> QED
  BY <1>2, <1>4

\* First is a member, and no member comes before it.
LEMMA FirstIsFirst ==
    ASSUME NEW ids \in SUBSET Node, ids # {}
    PROVE  First(ids) \in ids /\ \A q \in ids : Position(First(ids)) <= Position(q)
<1> DEFINE T == {Position(p) : p \in ids}
<1>1. T \in SUBSET Nat /\ T # {}
  BY PositionType
<1>2. PICK m \in T : \A k \in T : m <= k
  BY <1>1, LeastNumber
<1>3. \E p \in ids : \A q \in ids : Position(p) <= Position(q)
  BY <1>2
<1> QED
  BY <1>3 DEF First

LEMMA DefaultNode == Head(Pref) \in Node
BY ReplicationAssumption

\* The first RF nodes of the ring, of which there is at least one.
LEMMA ReplicaIdsType ==
    ASSUME NEW n \in Node, peer[n][n] = "up"
    PROVE  /\ ReplicaIds(n) \in SUBSET Node
           /\ First(ReplicaIds(n)) \in ReplicaIds(n)
<1> DEFINE ring == {p \in Node : InRing(n, p)}
           first == First(ring)
           before == {q \in ring : Position(q) < Position(first)}
<1>1. ring \in SUBSET Node /\ n \in ring
  BY DEF InRing
<1>2. first \in ring /\ \A q \in ring : Position(first) <= Position(q)
  BY <1>1, FirstIsFirst
<1>3. before = {}
  <2>1. \A q \in ring : Position(q) \in Nat
    BY PositionType
  <2> QED
    BY <1>2, <2>1
<1> HIDE DEF before
<1>4. Cardinality(before) = 0
  BY <1>3, FS_EmptySet
<1> USE DEF before
<1> 0 < RF
  BY ReplicationAssumption
<1>5. first \in ReplicaIds(n)
  BY <1>2, <1>4 DEF ReplicaIds
<1>6. ReplicaIds(n) \in SUBSET Node
  BY DEF ReplicaIds
<1> QED
  BY <1>5, <1>6, FirstIsFirst

-----------------------------------------------------------------------------
(* Types.                                                                  *)

Copies == [Node -> [Uuid -> Node \cup {Absent}]]

\* The types of everything but the histories, and a node sees itself.
CoreType ==
    /\ peer \in [Node -> [Node -> View]]
    /\ copies \in Copies
    /\ ins \in [Inserts -> InsertState]
    /\ qry \in [Queries -> QueryState]
    /\ serve \in [Queries -> ServeState]
    /\ repairs \subseteq RepairTask
    /\ rem \in [Removals -> RemovalState]
    /\ wire \subseteq Call
    /\ faults \in 0..MaxFaults
    /\ stored \in [Inserts -> SUBSET Node]
    /\ \A n \in Node : peer[n][n] = "up"

HistoryType ==
    /\ held \in [Queries -> SUBSET Node]
    /\ calm \in [Queries \cup Removals -> BOOLEAN]

Typed == CoreType /\ HistoryType

LEMMA StoredType ==
    ASSUME copies \in Copies, NEW n \in Node, NEW u, NEW stamp \in Node \cup {Absent}
    PROVE  Stored(n, u, stamp) \in Copies
BY DEF Stored, Copies

LEMMA WithoutType ==
    ASSUME copies \in Copies, NEW n \in Node, NEW ids
    PROVE  Without(n, ids) \in Copies
<1>1. [u \in Uuid |-> IF u \in ids THEN Absent ELSE copies[n][u]]
        \in [Uuid -> Node \cup {Absent}]
  BY DEF Copies
<1> QED
  BY <1>1 DEF Without, Copies

LEMMA LocalInsertType ==
    ASSUME CoreType, NEW n \in Node, NEW u, LocalInsert(n, u)
    PROVE  copies' \in Copies /\ stored' \in [Inserts -> SUBSET Node]
<1>1. copies' \in Copies
  BY StoredType DEF LocalInsert, CoreType
<1>2. stored' \in [Inserts -> SUBSET Node]
  BY DEF LocalInsert, CoreType
<1> QED
  BY <1>1, <1>2

LEMMA FaultType ==
    ASSUME CoreType, Fault
    PROVE  faults' \in 0..MaxFaults
BY ReplicationAssumption DEF CoreType, Fault

LEMMA HistoryTyped ==
    ASSUME Typed, Observe
    PROVE  HistoryType'
<1>1. Holders' \in SUBSET Node
  BY DEF Holders
<1>2. held' \in [Queries -> SUBSET Node]
  BY <1>1 DEF Observe, Typed, HistoryType
<1>3. calm' \in [Queries \cup Removals -> BOOLEAN]
  BY DEF Observe
<1> QED
  BY <1>2, <1>3 DEF HistoryType

LEMMA OffType == Off \in ServeState
BY DefaultNode DEF Off, ServeState

LEMMA TypedInit == Init => Typed
<1> SUFFICES ASSUME Init PROVE Typed
  OBVIOUS
<1>1. /\ peer \in [Node -> [Node -> View]]
      /\ \A n \in Node : peer[n][n] = "up"
  <2>1. AllUp \in [Node -> [Node -> View]] /\ \A n \in Node : AllUp[n][n] = "up"
    BY DEF AllUp, View
  <2>2. ASSUME NEW s \in StartViews,
               peer = [AllUp EXCEPT ![s[1][1]][s[1][2]] = s[2]]
        PROVE  /\ peer \in [Node -> [Node -> View]]
               /\ \A n \in Node : peer[n][n] = "up"
    <3>1. s[1] \in Unsteady /\ s[2] \in View
      BY ReplicationAssumption
    <3>2. s[1][1] \in Node /\ s[1][2] \in Node /\ s[1][1] # s[1][2]
      BY <3>1, ReplicationAssumption
    <3> QED
      BY <2>1, <2>2, <3>1, <3>2
  <2> QED
    BY <2>1, <2>2 DEF Init
<1>2. copies \in Copies
  BY DEF Init, Copies
<1>3. ins \in [Inserts -> InsertState]
  BY DefaultNode, ReplicationAssumption DEF Init, InsertState
<1>4. qry \in [Queries -> QueryState]
  BY DefaultNode, ReplicationAssumption DEF Init, QueryState
<1>5. serve \in [Queries -> ServeState]
  BY OffType DEF Init
<1>6. rem \in [Removals -> RemovalState]
  BY DefaultNode DEF Init, RemovalState
<1>7. faults \in 0..MaxFaults
  BY ReplicationAssumption DEF Init
<1>8. HistoryType
  BY DEF Init, HistoryType
<1> QED
  BY <1>1, <1>2, <1>3, <1>4, <1>5, <1>6, <1>7, <1>8 DEF Init, Typed, CoreType

LEMMA InsertTyped ==
    ASSUME CoreType, NEW r \in Inserts,
           InsertStep(r) \/ \E n \in Node : InsertHere(r, n) \/ InsertBegin(r, n)
    PROVE  CoreType'
<1>1. ins[r] \in InsertState /\ ins \in [Inserts -> InsertState] /\ 0 \in 0..MaxRetries
  BY ReplicationAssumption DEF CoreType
<1>2. ASSUME NEW s \in InsertState, NEW a \in {"ok", "error", "bad_gateway"}
      PROVE  Answered(s, a) \in InsertState
  BY <1>1, <1>2 DEF Answered, InsertState
<1>3. ASSUME UNCHANGED insertRest, ins' \in [Inserts -> InsertState],
             copies' \in Copies, stored' \in [Inserts -> SUBSET Node],
             wire' \subseteq Call
      PROVE  CoreType'
  BY <1>3 DEF CoreType, insertRest
<1>4. ASSUME NEW n \in Node, InsertHere(r, n) PROVE CoreType'
  <2> DEFINE s == [ins[r] EXCEPT !.node = n, !.id = <<r, n>>]
  <2>1. s \in InsertState
    BY <1>1 DEF InsertState, Uuid
  <2>2. Answered(s, "ok") \in InsertState /\ Answered(s, "error") \in InsertState
    BY <1>2, <2>1
  <2> HIDE DEF s
  <2>3. ins' \in [Inserts -> InsertState]
    BY <1>1, <1>4, <2>2 DEF InsertHere, s
  <2>4. copies' \in Copies /\ stored' \in [Inserts -> SUBSET Node]
    BY <1>4, LocalInsertType DEF InsertHere, CoreType
  <2> QED
    BY <1>3, <1>4, <2>3, <2>4 DEF InsertHere, CoreType
<1>5. ASSUME NEW n \in Node, InsertBegin(r, n) PROVE CoreType'
  <2>1. ReplicaIds(n) \in SUBSET Node
    BY ReplicaIdsType DEF CoreType
  <2>2. ins' \in [Inserts -> InsertState]
    BY <1>1, <1>5, <2>1 DEF InsertBegin, InsertState
  <2> QED
    BY <1>3, <1>5, <2>2 DEF InsertBegin, CoreType
<1>6. CASE InsertResolve(r)
  <2> DEFINE n == ins[r].node
             replicas == WithAddrs(n, ins[r].ids)
             pc == IF replicas = {} \/ n \in replicas THEN "store" ELSE "next"
  <2>1. n \in Node /\ replicas \in SUBSET Node /\ <<r, n>> \in Uuid
    BY <1>1 DEF InsertState, WithAddrs, Uuid
  <2>2. pc \in {"store", "next"}
    OBVIOUS
  <2>3. ins' = [ins EXCEPT ![r].pc = pc, ![r].ids = replicas,
                           ![r].todo = replicas \ {n}, ![r].id = <<r, n>>]
    BY <1>6 DEF InsertResolve
  <2> HIDE DEF n, replicas, pc
  <2>4. ins' \in [Inserts -> InsertState]
    BY <1>1, <2>1, <2>2, <2>3 DEF InsertState
  <2> QED
    BY <1>3, <1>6, <2>4 DEF InsertResolve, CoreType
<1>7. CASE InsertStore(r)
  <2>1. ins[r].node \in Node
    BY <1>1 DEF InsertState
  <2>2. Answered(ins[r], "error") \in InsertState
    BY <1>1, <1>2
  <2>3. ins' \in [Inserts -> InsertState]
    <3>1. CASE ins' = [ins EXCEPT ![r].pc = "next"]
      BY <1>1, <3>1 DEF InsertState
    <3>2. CASE ins' = [ins EXCEPT ![r] = Answered(@, "error")]
      BY <1>1, <2>2, <3>2
    <3> QED
      BY <1>7, <3>1, <3>2 DEF InsertStore
  <2>4. copies' \in Copies /\ stored' \in [Inserts -> SUBSET Node]
    BY <1>7, <2>1, LocalInsertType DEF InsertStore, CoreType
  <2> QED
    BY <1>3, <1>7, <2>3, <2>4 DEF InsertStore, CoreType
<1>8. CASE InsertNext(r)
  <2> DEFINE p == First(ins[r].todo)
  <2>1. ins[r].todo \in SUBSET Node /\ ins[r].todo # {}
    BY <1>1, <1>8 DEF InsertState, InsertNext
  <2>2. p \in Node
    BY <2>1, FirstIsFirst
  <2> HIDE DEF p
  <2>3. ins' \in [Inserts -> InsertState]
    <3>1. CASE ins' = [ins EXCEPT ![r].todo = @ \ {p}, ![r].skipped = @ \cup {p}]
      BY <1>1, <2>2, <3>1 DEF InsertState
    <3>2. CASE ins' = [ins EXCEPT ![r].pc = "call", ![r].try = 0]
      BY <1>1, <3>2 DEF InsertState
    <3> QED
      BY <1>8, <3>1, <3>2 DEF InsertNext, p
  <2>4. ForwardInsert(r, p, 0) \in Call
    BY <1>1, <2>2 DEF ForwardInsert, Call
  <2>5. wire' \subseteq Call
    BY <1>8, <2>4 DEF InsertNext, CoreType, p
  <2> QED
    BY <1>3, <1>8, <2>3, <2>5 DEF InsertNext, CoreType
<1>9. CASE InsertDone(r)
  <2>1. ins' \in [Inserts -> InsertState]
    BY <1>1, <1>2, <1>9 DEF InsertDone
  <2> QED
    BY <1>3, <1>9, <2>1 DEF InsertDone, CoreType
<1>10. ASSUME NEW retryable \in BOOLEAN, NEW lingers \in {FALSE, retryable},
              InsertCallFails(r, retryable, lingers)
       PROVE  CoreType'
  <2> DEFINE m == Awaited(r)
  <2>1. m \in Call /\ m.try = ins[r].try
    BY <1>10 DEF InsertCallFails, CoreType, Awaited, ForwardInsert
  <2> HIDE DEF m
  <2>2. faults' \in 0..MaxFaults
    BY <1>10, FaultType DEF InsertCallFails, CoreType
  <2>3. CASE Retried(retryable, ins[r].try)
    <3>1. ins[r].try + 1 \in 0..MaxRetries
      BY <1>1, <2>3, ReplicationAssumption DEF Retried, InsertState
    <3>2. [m EXCEPT !.try = @ + 1] \in Call
      BY <2>1, <3>1 DEF Call
    <3>3. ins' = [ins EXCEPT ![r].try = @ + 1]
      BY <1>10, <2>3 DEF InsertCallFails
    <3>4. wire' \subseteq Call
      BY <1>10, <2>3, <3>2 DEF InsertCallFails, CoreType, m
    <3>5. ins' \in [Inserts -> InsertState]
      BY <1>1, <3>1, <3>3 DEF InsertState
    <3> QED
      BY <1>10, <2>2, <3>4, <3>5 DEF InsertCallFails, CoreType
  <2>4. CASE ~Retried(retryable, ins[r].try)
    <3>1. ins' \in [Inserts -> InsertState]
      BY <1>1, <1>2, <1>10, <2>4 DEF InsertCallFails
    <3>2. wire' \subseteq Call
      BY <1>10, <2>4 DEF InsertCallFails, CoreType
    <3> QED
      BY <1>10, <2>2, <3>1, <3>2 DEF InsertCallFails, CoreType
  <2> QED
    BY <2>3, <2>4
<1> QED
  BY <1>4, <1>5, <1>6, <1>7, <1>8, <1>9, <1>10 DEF InsertStep

LEMMA DeliverTyped ==
    ASSUME CoreType, NEW m \in wire, InsertDeliver(m) \/ RemovalDeliver(m)
    PROVE  CoreType'
<1>1. m \in Call /\ m.to \in Node
  BY DEF CoreType, Call
<1>2. CASE InsertDeliver(m)
  <2>1. copies' \in Copies /\ stored' \in [Inserts -> SUBSET Node]
    BY <1>1, <1>2, LocalInsertType DEF InsertDeliver
  <2>2. ins' \in [Inserts -> InsertState]
    <3>1. m.req \in Inserts /\ ins[m.req] \in InsertState /\ 0 \in 0..MaxRetries
      BY <1>2, ReplicationAssumption DEF InsertDeliver, CoreType
    <3>2. CASE ins' = [ins EXCEPT ![m.req].pc = "next", ![m.req].try = 0,
                                  ![m.req].todo = @ \ {m.to}]
      BY <3>1, <3>2 DEF CoreType, InsertState
    <3> QED
      BY <1>2, <3>2 DEF InsertDeliver, CoreType
  <2> QED
    BY <1>2, <2>1, <2>2 DEF InsertDeliver, CoreType, insertRest
<1>3. CASE RemovalDeliver(m)
  <2>1. copies' \in Copies
    BY <1>1, <1>3, WithoutType DEF RemovalDeliver, CoreType
  <2>2. rem' \in [Removals -> RemovalState]
    <3>1. m.req \in Removals /\ rem[m.req] \in RemovalState
      BY <1>3 DEF RemovalDeliver, CoreType
    <3>2. CASE rem' = [rem EXCEPT ![m.req].pc = "next", ![m.req].todo = @ \ {m.to}]
      BY <3>1, <3>2 DEF CoreType, RemovalState
    <3> QED
      BY <1>3, <3>2 DEF RemovalDeliver, CoreType
  <2> QED
    BY <1>3, <2>1, <2>2 DEF RemovalDeliver, CoreType, removalRest
<1> QED
  BY <1>2, <1>3

LEMMA ServingType ==
    ASSUME NEW n \in Node, NEW repair \in BOOLEAN
    PROVE  Serving(n, repair) \in ServeState
BY OffType DEF Serving, ServeState

LEMMA TryRepairType ==
    ASSUME NEW local \in BOOLEAN, NEW repair
    PROVE  TryRepair(local, repair) \in BOOLEAN
BY DEF TryRepair

LEMMA RepliedType ==
    ASSUME NEW s \in QueryState, NEW a \in {"hit", "miss", "bad_gateway"}
    PROVE  Replied(s, a) \in QueryState
<1>1. 0 \in 0..MaxRetries /\ Head(Pref) \in Node
  BY DefaultNode, ReplicationAssumption
<1> QED
  BY <1>1 DEF Replied, QueryState

LEMMA QueryTyped ==
    ASSUME CoreType, NEW q \in Queries,
           QueryStep(q) \/ \E n \in Node : QueryHere(q, n) \/ QueryBegin(q, n)
    PROVE  CoreType'
<1>1. /\ qry[q] \in QueryState /\ qry \in [Queries -> QueryState]
      /\ serve \in [Queries -> ServeState] /\ 0 \in 0..MaxRetries
      /\ qry[q].node \in Node /\ qry[q].target \in Node /\ qry[q].repair \in BOOLEAN
  BY ReplicationAssumption DEF CoreType, QueryState
<1>2. ASSUME UNCHANGED <<repairs, queryRest>>, qry' \in [Queries -> QueryState],
             serve' \in [Queries -> ServeState]
      PROVE  CoreType'
  BY <1>2 DEF CoreType, queryRest
<1>3. ASSUME NEW n \in Node, QueryHere(q, n) PROVE CoreType'
  <2>1. Serving(n, TryRepair(TRUE, "unset")) \in ServeState
    BY ServingType, TryRepairType
  <2>2. qry' \in [Queries -> QueryState]
    BY <1>1, <1>3 DEF QueryHere, QueryState
  <2>3. serve' \in [Queries -> ServeState]
    BY <1>1, <1>3, <2>1 DEF QueryHere
  <2> QED
    BY <1>2, <1>3, <2>2, <2>3 DEF QueryHere
<1>4. ASSUME NEW n \in Node, QueryBegin(q, n) PROVE CoreType'
  <2> DEFINE p == First(ReplicaIds(n))
             b == TryRepair(FALSE, "unset")
  <2>1. p \in Node /\ b \in BOOLEAN
    BY ReplicaIdsType, TryRepairType DEF CoreType
  <2>2. qry' = [qry EXCEPT ![q].pc = "ring", ![q].node = n, ![q].target = p,
                           ![q].repair = b]
    BY <1>4 DEF QueryBegin
  <2> HIDE DEF p, b
  <2>3. qry' \in [Queries -> QueryState]
    BY <1>1, <2>1, <2>2 DEF QueryState
  <2> QED
    BY <1>1, <1>2, <1>4, <2>3 DEF QueryBegin
<1>5. CASE QueryResolve(q)
  <2>1. Serving(qry[q].node, qry[q].repair) \in ServeState
    BY <1>1, ServingType
  <2>2. qry' \in [Queries -> QueryState]
    BY <1>1, <1>5 DEF QueryResolve, QueryState
  <2>3. serve' \in [Queries -> ServeState]
    BY <1>1, <1>5, <2>1 DEF QueryResolve
  <2> QED
    BY <1>2, <1>5, <2>2, <2>3 DEF QueryResolve
<1>6. ForwardQuery(qry[q].target) \in ServeState
  BY <1>1, ServingType, TryRepairType DEF ForwardQuery
<1>7. CASE QueryForward(q)
  <2>1. Replied(qry[q], "miss") \in QueryState
    BY <1>1, RepliedType
  <2>2. qry' \in [Queries -> QueryState]
    <3>1. CASE qry' = [qry EXCEPT ![q] = Replied(@, "miss")]
      BY <1>1, <2>1, <3>1
    <3>2. CASE qry' = [qry EXCEPT ![q].pc = "call", ![q].try = 0]
      BY <1>1, <3>2 DEF QueryState
    <3> QED
      BY <1>7, <3>1, <3>2 DEF QueryForward
  <2>3. serve' \in [Queries -> ServeState]
    BY <1>1, <1>6, <1>7 DEF QueryForward
  <2> QED
    BY <1>2, <1>7, <2>2, <2>3 DEF QueryForward
<1>8. ASSUME NEW retryable \in BOOLEAN, QueryCallFails(q, retryable) PROVE CoreType'
  <2>1. Replied(qry[q], "bad_gateway") \in QueryState
    BY <1>1, RepliedType
  <2>2. qry' \in [Queries -> QueryState]
    <3>1. CASE Retried(retryable, qry[q].try)
      <4>1. qry[q].try + 1 \in 0..MaxRetries
        BY <1>1, <3>1, ReplicationAssumption DEF Retried, QueryState
      <4>2. qry' = [qry EXCEPT ![q].try = @ + 1]
        BY <1>8, <3>1 DEF QueryCallFails
      <4> QED
        BY <1>1, <4>1, <4>2 DEF QueryState
    <3>2. CASE ~Retried(retryable, qry[q].try)
      BY <1>1, <1>8, <2>1, <3>2 DEF QueryCallFails
    <3> QED
      BY <3>1, <3>2
  <2>3. serve' \in [Queries -> ServeState]
    BY <1>1, <1>6, <1>8, OffType DEF QueryCallFails
  <2> QED
    BY <1>2, <1>8, <2>2, <2>3 DEF QueryCallFails
<1> QED
  BY <1>3, <1>4, <1>5, <1>7, <1>8 DEF QueryStep

LEMMA ServeTyped ==
    ASSUME CoreType, NEW q \in Queries, ServeStep(q)
    PROVE  CoreType'
<1>1. /\ qry[q] \in QueryState /\ qry \in [Queries -> QueryState]
      /\ serve[q] \in ServeState /\ serve \in [Queries -> ServeState]
      /\ serve[q].node \in Node
  BY DEF CoreType, ServeState
<1>2. ASSUME UNCHANGED queryRest, qry' \in [Queries -> QueryState],
             serve' \in [Queries -> ServeState], repairs' \subseteq RepairTask
      PROVE  CoreType'
  BY <1>2 DEF CoreType, queryRest
<1>3. repairs \subseteq RepairTask
  BY DEF CoreType
<1>4. ASSUME NEW a \in {"hit", "miss"}, ServeEnds(q, a)
      PROVE  qry' \in [Queries -> QueryState] /\ serve' \in [Queries -> ServeState]
  <2>1. Replied(qry[q], a) \in QueryState
    BY <1>1, RepliedType
  <2> QED
    BY <1>1, <1>4, <2>1, OffType DEF ServeEnds
<1>5. CASE ServeLook(q)
  <2>1. CASE ServeEnds(q, "hit") \/ ServeEnds(q, "miss")
    BY <1>2, <1>3, <1>4, <1>5, <2>1 DEF ServeLook
  <2>2. CASE serve' = [serve EXCEPT ![q].pc = "ring"] /\ UNCHANGED qry
    <3>1. serve' \in [Queries -> ServeState]
      BY <1>1, <2>2 DEF ServeState
    <3> QED
      BY <1>1, <1>2, <1>3, <1>5, <2>2, <3>1 DEF ServeLook
  <2> QED
    BY <1>5, <2>1, <2>2 DEF ServeLook
<1>6. CASE ServeRing(q)
  <2>1. ReplicaIds(serve[q].node) \in SUBSET Node
    BY <1>1, ReplicaIdsType DEF CoreType
  <2>2. serve' \in [Queries -> ServeState]
    BY <1>1, <1>6, <2>1 DEF ServeRing, ServeState
  <2> QED
    BY <1>1, <1>2, <1>3, <1>6, <2>2 DEF ServeRing
<1>7. CASE ServeAddrs(q)
  <2>1. WithAddrs(serve[q].node, serve[q].todo) \ {serve[q].node} \in SUBSET Node
    BY <1>1 DEF WithAddrs, ServeState
  <2>2. serve' \in [Queries -> ServeState]
    BY <1>1, <1>7, <2>1 DEF ServeAddrs, ServeState
  <2> QED
    BY <1>1, <1>2, <1>3, <1>7, <2>2 DEF ServeAddrs
<1>8. CASE ServeAsk(q)
  <2> DEFINE p == First(serve[q].todo)
             dead == IsDead(serve[q].node, p)
  <2>1. serve[q].todo \in SUBSET Node /\ serve[q].todo # {}
    BY <1>1, <1>8 DEF ServeState, ServeAsk
  <2>2. p \in Node
    BY <2>1, FirstIsFirst
  <2>3. serve' = [serve EXCEPT ![q].todo = @ \ {p},
                               ![q].asked = IF dead THEN @ ELSE @ \cup {p}]
    BY <1>8 DEF ServeAsk
  <2> HIDE DEF p, dead
  <2>4. serve' \in [Queries -> ServeState]
    BY <1>1, <2>2, <2>3 DEF ServeState
  <2> QED
    BY <1>1, <1>2, <1>3, <1>8, <2>4 DEF ServeAsk
<1>9. CASE ServeFanOut(q)
  <2>1. CASE ServeEnds(q, "miss")
    BY <1>2, <1>3, <1>4, <1>9, <2>1 DEF ServeFanOut
  <2>2. CASE /\ serve' = [serve EXCEPT ![q].pc = "wait", ![q].waiting = serve[q].asked]
             /\ UNCHANGED qry
    <3>1. serve' \in [Queries -> ServeState]
      BY <1>1, <2>2 DEF ServeState
    <3> QED
      BY <1>1, <1>2, <1>3, <1>9, <2>2, <3>1 DEF ServeFanOut
  <2> QED
    BY <1>9, <2>1, <2>2 DEF ServeFanOut
<1>10. ASSUME NEW p \in Node, ServePeer(q, p) PROVE CoreType'
  <2>1. serve' \in [Queries -> ServeState]
    <3>1. ASSUME NEW a \in IF IdsOn(p) = {} THEN {NoId} ELSE IdsOn(p),
                 serve' = [serve EXCEPT ![q].waiting = @ \ {p}, ![q].got[p] = a]
          PROVE  serve' \in [Queries -> ServeState]
      <4>1. a \in Uuid \cup {NoId}
        BY <3>1 DEF IdsOn
      <4> HIDE DEF NoId
      <4> QED
        BY <1>1, <3>1, <4>1 DEF ServeState
    <3>2. CASE serve' = [serve EXCEPT ![q].waiting = @ \ {p}, ![q].failed = TRUE]
      BY <1>1, <3>2 DEF ServeState
    <3> QED
      BY <1>10, <3>1, <3>2 DEF ServePeer
  <2> QED
    BY <1>1, <1>2, <1>3, <1>10, <2>1 DEF ServePeer
<1>11. CASE ServeJoin(q)
  <2> DEFINE hits == {p \in serve[q].asked : serve[q].got[p] # NoId}
             x == [node |-> serve[q].node, from |-> First(hits),
                   id |-> serve[q].got[First(hits)], stamp |-> Absent]
  <2>1. CASE hits = {}
    BY <1>2, <1>3, <1>4, <1>11, <2>1 DEF ServeJoin
  <2>2. CASE hits # {}
    <3>1. hits \in SUBSET Node
      BY <1>1 DEF ServeState
    <3>2. First(hits) \in hits /\ First(hits) \in Node
      BY <2>2, <3>1, FirstIsFirst
    <3>3. serve[q].got[First(hits)] \in Uuid
      BY <1>1, <3>2 DEF ServeState
    <3>4. x \in RepairTask
      BY <1>1, <3>2, <3>3 DEF RepairTask
    <3>5. ServeEnds(q, "hit") /\ repairs' = repairs \cup {x} /\ UNCHANGED queryRest
      BY <1>11, <2>2 DEF ServeJoin
    <3> HIDE DEF x
    <3>6. repairs' \subseteq RepairTask
      BY <1>3, <3>4, <3>5
    <3>7. qry' \in [Queries -> QueryState] /\ serve' \in [Queries -> ServeState]
      BY <1>4, <3>5
    <3> QED
      BY <1>2, <3>5, <3>6, <3>7
  <2> QED
    BY <2>1, <2>2
<1> QED
  BY <1>5, <1>6, <1>7, <1>8, <1>9, <1>10, <1>11 DEF ServeStep

LEMMA RepairTyped ==
    ASSUME CoreType, NEW x \in repairs,
           RepairFetch(x) \/ RepairStore(x) \/ RepairFails(x)
    PROVE  CoreType'
<1>1. x \in RepairTask /\ repairs \subseteq RepairTask /\ copies \in Copies
  BY DEF CoreType
<1>2. ASSUME UNCHANGED repairRest, copies' \in Copies, repairs' \subseteq RepairTask
      PROVE  CoreType'
  BY <1>2 DEF CoreType, repairRest
<1>3. CASE RepairFetch(x)
  <2> DEFINE y == [x EXCEPT !.stamp = GetEntry(x.from, x.id)]
  <2>1. GetEntry(x.from, x.id) \in Node \cup {Absent}
    BY <1>1 DEF GetEntry, RepairTask, Copies
  <2>2. y \in RepairTask
    BY <1>1, <2>1 DEF RepairTask
  <2> HIDE DEF y
  <2>3. repairs' \subseteq RepairTask
    BY <1>1, <1>3, <2>2 DEF RepairFetch, y
  <2> QED
    BY <1>1, <1>2, <1>3, <2>3 DEF RepairFetch
<1>4. CASE RepairStore(x)
  <2>1. copies' \in Copies
    BY <1>1, <1>4, StoredType DEF RepairStore, RepairTask
  <2> QED
    BY <1>1, <1>2, <1>4, <2>1 DEF RepairStore
<1>5. CASE RepairFails(x)
  BY <1>1, <1>2, <1>5 DEF RepairFails
<1> QED
  BY <1>3, <1>4, <1>5

LEMMA FinishedType ==
    ASSUME NEW s \in RemovalState, NEW a \in {"ok", "not_found"}
    PROVE  Finished(s, a) \in RemovalState
<1> DEFINE left == IF s.sweep /\ s.missed THEN {} ELSE s.ids
<1>1. left \in SUBSET Uuid
  BY DEF RemovalState
<1>2. Finished(s, a) = [s EXCEPT !.pc = "done", !.answer = a, !.todo = {},
                                 !.node = Head(Pref), !.target = Head(Pref),
                                 !.ids = left]
  BY DEF Finished
<1> HIDE DEF left
<1> QED
  BY <1>1, <1>2, DefaultNode DEF RemovalState

LEMMA IssuedType == CoreType => Issued \in SUBSET Uuid
BY DEF CoreType, Issued, InsertState

LEMMA RemovalTyped ==
    ASSUME CoreType, NEW d \in Removals,
           \/ RemovalStep(d)
           \/ \E n \in Node, ids \in SUBSET Uuid, sweep \in BOOLEAN, local \in BOOLEAN :
                RemovalBegin(d, n, ids, sweep, local)
    PROVE  CoreType'
<1>1. /\ rem[d] \in RemovalState /\ rem \in [Removals -> RemovalState]
      /\ copies \in Copies /\ wire \subseteq Call
      /\ rem[d].node \in Node /\ rem[d].target \in Node /\ rem[d].todo \in SUBSET Node
  BY DEF CoreType, RemovalState
<1>2. ASSUME UNCHANGED removalRest, rem' \in [Removals -> RemovalState],
             copies' \in Copies, wire' \subseteq Call
      PROVE  CoreType'
  BY <1>2 DEF CoreType, removalRest
<1>3. ASSUME NEW n \in Node, NEW ids \in SUBSET Uuid, NEW sweep \in BOOLEAN,
             NEW local \in BOOLEAN, RemovalBegin(d, n, ids, sweep, local)
      PROVE  CoreType'
  <2> DEFINE s == [rem[d] EXCEPT !.node = n, !.ids = ids, !.sweep = sweep, !.target = n]
  <2>1. s \in RemovalState
    BY <1>1 DEF RemovalState
  <2> HIDE DEF s
  <2>2. [s EXCEPT !.pc = "peers"] \in RemovalState /\ [s EXCEPT !.missed = local] \in RemovalState
    BY <2>1 DEF RemovalState
  <2>3. /\ Finished([s EXCEPT !.missed = local], "ok") \in RemovalState
        /\ Finished([s EXCEPT !.missed = local], "not_found") \in RemovalState
    BY <2>2, FinishedType
  <2>4. \E t \in RemovalState : rem' = [rem EXCEPT ![d] = t]
    BY <1>3, <2>2, <2>3 DEF RemovalBegin, s
  <2>5. copies' \in Copies
    BY <1>1, <1>3, WithoutType DEF RemovalBegin
  <2>6. rem' \in [Removals -> RemovalState]
    BY <1>1, <2>4
  <2> QED
    BY <1>1, <1>2, <1>3, <2>5, <2>6 DEF RemovalBegin
<1>4. CASE RemovalPeers(d)
  <2>1. rem' \in [Removals -> RemovalState]
    BY <1>1, <1>4 DEF RemovalPeers, RemovalState
  <2> QED
    BY <1>1, <1>2, <1>4, <2>1 DEF RemovalPeers
<1>5. ASSUME NEW p \in rem[d].todo, RemovalNext(d, p) PROVE CoreType'
  <2>1. p \in Node /\ ForwardRemoval(d, p) \in Call
    BY <1>1, ReplicationAssumption DEF ForwardRemoval, Call
  <2>2. rem' \in [Removals -> RemovalState]
    BY <1>1, <1>5, <2>1 DEF RemovalNext, RemovalState
  <2>3. wire' \subseteq Call
    BY <1>1, <1>5, <2>1 DEF RemovalNext
  <2> QED
    BY <1>1, <1>2, <1>5, <2>2, <2>3 DEF RemovalNext
<1>6. ASSUME NEW lingers \in BOOLEAN, RemovalCallFails(d, lingers) PROVE CoreType'
  <2>1. rem' \in [Removals -> RemovalState]
    BY <1>1, <1>6 DEF RemovalCallFails, RemovalState
  <2>2. faults' \in 0..MaxFaults
    BY <1>6, FaultType DEF RemovalCallFails, CoreType
  <2>3. wire' \subseteq Call
    BY <1>1, <1>6 DEF RemovalCallFails
  <2> QED
    BY <1>6, <2>1, <2>2, <2>3 DEF RemovalCallFails, CoreType
<1>7. CASE RemovalDone(d)
  <2>1. Finished(rem[d], "ok") \in RemovalState
    BY <1>1, FinishedType
  <2>2. rem' \in [Removals -> RemovalState]
    BY <1>1, <1>7, <2>1 DEF RemovalDone
  <2> QED
    BY <1>1, <1>2, <1>7, <2>2 DEF RemovalDone
<1> QED
  BY <1>3, <1>4, <1>5, <1>6, <1>7 DEF RemovalStep

LEMMA SurroundingsTyped ==
    ASSUME CoreType, NEW n \in Node,
           \/ \E p \in Node : ViewChange(n, p)
           \/ \E u \in Uuid : Drop(n, u)
           \/ Crash(n)
    PROVE  CoreType'
<1>1. ASSUME NEW p \in Node, ViewChange(n, p) PROVE CoreType'
  <2>1. n # p /\ faults' \in 0..MaxFaults
    BY <1>1, FaultType, ReplicationAssumption DEF ViewChange
  <2>2. PICK v \in View : peer' = [peer EXCEPT ![n][p] = v]
    BY <1>1 DEF ViewChange
  <2>3. peer' \in [Node -> [Node -> View]] /\ \A k \in Node : peer'[k][k] = "up"
    BY <2>1, <2>2 DEF CoreType
  <2> QED
    BY <1>1, <2>1, <2>3 DEF ViewChange, CoreType
<1>2. ASSUME NEW u \in Uuid, Drop(n, u) PROVE CoreType'
  <2>1. faults' \in 0..MaxFaults
    BY <1>2, FaultType DEF Drop
  <2>2. copies' \in Copies
    BY <1>2, WithoutType DEF Drop, CoreType
  <2> QED
    BY <1>2, <2>1, <2>2 DEF Drop, CoreType
<1>3. CASE Crash(n)
  <2>1. faults' \in 0..MaxFaults
    BY <1>3, FaultType DEF Crash
  <2>2. ins' \in [Inserts -> InsertState]
    <3>1. \A s \in InsertState : [s EXCEPT !.pc = "done", !.answer = "lost"] \in InsertState
      BY DEF InsertState
    <3> QED
      BY <1>3, <3>1 DEF Crash, CoreType
  <2>3. qry' \in [Queries -> QueryState]
    BY <1>3 DEF Crash, CoreType, QueryState
  <2>4. rem' \in [Removals -> RemovalState]
    <3>1. \A s \in RemovalState : [s EXCEPT !.pc = "done", !.answer = "lost"] \in RemovalState
      BY DEF RemovalState
    <3> QED
      BY <1>3, <3>1 DEF Crash, CoreType
  <2>5. serve' \in [Queries -> ServeState]
    BY <1>3, OffType DEF Crash, CoreType
  <2>6. repairs' \subseteq RepairTask
    BY <1>3 DEF Crash, CoreType
  <2> QED
    BY <1>3, <2>1, <2>2, <2>3, <2>4, <2>5, <2>6 DEF Crash, CoreType
<1> QED
  BY <1>1, <1>2, <1>3

\* What a client's request is the beginning of.
LEMMA RequestCases ==
    ASSUME CoreType, Requests
    PROVE  \/ \E r \in Inserts, n \in Node : InsertHere(r, n) \/ InsertBegin(r, n)
           \/ \E q \in Queries, n \in Node : QueryHere(q, n) \/ QueryBegin(q, n)
           \/ \E d \in Removals, n \in Node, ids \in SUBSET Issued, sweep \in BOOLEAN,
                 local \in BOOLEAN : RemovalBegin(d, n, ids, sweep, local)
<1>1. PICK n \in Fronts :
         \/ \E r \in Inserts : InsertHere(r, n) \/ InsertBegin(r, n)
         \/ \E q \in Queries : QueryHere(q, n) \/ QueryBegin(q, n)
         \/ \E d \in Removals, local \in BOOLEAN :
              \/ \E u \in Issued : RemovalBegin(d, n, {u}, FALSE, local)
              \/ RemovalBegin(d, n, Issued, TRUE, local)
  BY DEF Requests
<1>2. n \in Node
  BY ReplicationAssumption
<1>3. ASSUME NEW d \in Removals, NEW local \in BOOLEAN,
             \/ \E u \in Issued : RemovalBegin(d, n, {u}, FALSE, local)
             \/ RemovalBegin(d, n, Issued, TRUE, local)
      PROVE  \E ids \in SUBSET Issued, sweep \in BOOLEAN :
               RemovalBegin(d, n, ids, sweep, local)
  <2>1. ASSUME NEW u \in Issued, RemovalBegin(d, n, {u}, FALSE, local)
        PROVE  \E ids \in SUBSET Issued, sweep \in BOOLEAN :
                 RemovalBegin(d, n, ids, sweep, local)
    <3>1. {u} \in SUBSET Issued /\ FALSE \in BOOLEAN
      OBVIOUS
    <3> QED
      BY <2>1, <3>1
  <2>2. Issued \in SUBSET Issued /\ TRUE \in BOOLEAN
    OBVIOUS
  <2> QED
    BY <1>3, <2>1, <2>2
<1>4. CASE \E d \in Removals, local \in BOOLEAN :
              \/ \E u \in Issued : RemovalBegin(d, n, {u}, FALSE, local)
              \/ RemovalBegin(d, n, Issued, TRUE, local)
  <2>1. PICK d \in Removals, local \in BOOLEAN :
              \/ \E u \in Issued : RemovalBegin(d, n, {u}, FALSE, local)
              \/ RemovalBegin(d, n, Issued, TRUE, local)
    BY <1>4
  <2>2. PICK ids \in SUBSET Issued, sweep \in BOOLEAN :
          RemovalBegin(d, n, ids, sweep, local)
    BY <1>3, <2>1
  <2> QED
    BY <1>2, <2>2
<1> QED
  BY <1>1, <1>2, <1>4

LEMMA CoreTypedStep ==
    ASSUME CoreType, Step
    PROVE  CoreType'
<1>1. CASE Requests
  <2>1. \A ids \in SUBSET Issued : ids \in SUBSET Uuid
    BY IssuedType
  <2> QED
    BY <1>1, <2>1, RequestCases, InsertTyped, QueryTyped, RemovalTyped
<1>2. CASE \E r \in Inserts : InsertStep(r)
  BY <1>2, InsertTyped
<1>3. CASE \E q \in Queries : QueryStep(q) \/ ServeStep(q)
  BY <1>3, QueryTyped, ServeTyped
<1>4. CASE \E d \in Removals : RemovalStep(d)
  BY <1>4, RemovalTyped
<1>5. CASE \E m \in wire : InsertDeliver(m) \/ RemovalDeliver(m)
  BY <1>5, DeliverTyped
<1>6. CASE \E x \in repairs : RepairFetch(x) \/ RepairStore(x) \/ RepairFails(x)
  BY <1>6, RepairTyped
<1>7. CASE \/ \E n, p \in Node : ViewChange(n, p)
           \/ \E n \in Node, u \in Uuid : Drop(n, u)
           \/ \E n \in Node : Crash(n)
  BY <1>7, SurroundingsTyped
<1> QED
  BY <1>1, <1>2, <1>3, <1>4, <1>5, <1>6, <1>7 DEF Step

LEMMA TypedStep ==
    ASSUME Typed, [Next]_vars
    PROVE  Typed'
<1>1. CASE Next
  BY <1>1, CoreTypedStep, HistoryTyped DEF Next, Typed
<1>2. CASE UNCHANGED vars
  BY <1>2 DEF Typed, CoreType, HistoryType, vars
<1> QED
  BY <1>1, <1>2

LEMMA TypedAlways == Spec => []Typed
<1> QED
  BY TypedInit, TypedStep, PTL DEF Spec

-----------------------------------------------------------------------------
(* The ids and stamps of an insert, and its copies.                        *)

\* An insert has no id until its coordinator has its replicas, and then one.
InsertIds ==
    \A r \in Inserts :
        /\ ins[r].id \in {NoId, <<r, ins[r].node>>}
        /\ ins[r].pc \in {"new", "ring"} => ins[r].id = NoId
        /\ ins[r].pc \in {"store", "next", "call"} => ins[r].id # NoId

\* u is the id of its insert.
Known(u) == ins[u[1]].id = u

\* Whatever carries an id carries the id of an insert, ...
IdsKnown ==
    /\ \A n \in Node, u \in Uuid : copies[n][u] # Absent => Known(u)
    /\ \A m \in wire : m.req \in Inserts => ins[m.req].id # NoId
    /\ \A q \in Queries, p \in Node :
          serve[q].got[p] # NoId => Known(serve[q].got[p])
    /\ \A x \in repairs : Known(x.id)

\* ... and its deadline from a node that has stored it.
Stamped ==
    /\ \A n \in Node, u \in Uuid : copies[n][u] \in stored[u[1]] \cup {Absent}
    /\ \A x \in repairs : x.stamp \in stored[x.id[1]] \cup {Absent}

\* The replicas the coordinator is done with have the entry or were skipped.
Replicating ==
    \A r \in Inserts :
        LET s == ins[r] IN
        /\ s.pc = "new" => s.ids = {}
        /\ s.pc = "store" => s.ids \subseteq s.todo \cup {s.node}
        /\ s.pc \in {"next", "call"} => s.ids \subseteq stored[r] \cup s.skipped \cup s.todo
        /\ s.answer = "ok" => s.pc = "done" /\ s.ids \ s.skipped \subseteq stored[r]

InsertInv == InsertIds /\ IdsKnown /\ Stamped /\ Replicating

LEMMA UuidIsAnId ==
    \A u \in Uuid : u # NoId /\ u[1] \in Inserts /\ u[2] \in Node /\ u = <<u[1], u[2]>>
BY DEF Uuid, NoId

LEMMA StoredEffect ==
    ASSUME copies \in Copies, NEW n \in Node, NEW u \in Uuid, NEW stamp
    PROVE  \A k \in Node, v \in Uuid :
             Stored(n, u, stamp)[k][v] =
               IF k = n /\ v = u /\ copies[n][u] = Absent THEN stamp ELSE copies[k][v]
BY DEF Stored, Copies

LEMMA WithoutEffect ==
    ASSUME copies \in Copies, NEW n \in Node, NEW ids
    PROVE  \A k \in Node, v \in Uuid :
             Without(n, ids)[k][v] = IF k = n /\ v \in ids THEN Absent ELSE copies[k][v]
BY DEF Without, Copies

LEMMA InsertInvInit == Init => InsertInv
<1> SUFFICES ASSUME Init PROVE InsertInv
  OBVIOUS
<1>1. \A r \in Inserts : ins[r].pc = "new" /\ ins[r].id = NoId /\ ins[r].ids = {}
                           /\ ins[r].answer = "none"
  BY DEF Init
<1>2. \A n \in Node, u \in Uuid : copies[n][u] = Absent
  BY DEF Init
<1>3. \A q \in Queries, p \in Node : serve[q].got[p] = NoId
  BY DEF Init, Off
<1>4. wire = {} /\ repairs = {}
  BY DEF Init
<1> QED
  BY <1>1, <1>2, <1>3, <1>4 DEF InsertInv, InsertIds, IdsKnown, Stamped, Replicating

\* What a step has to respect: ids and stored copies stay; a new copy, call,
\* answer of a peer or repair has the id of its insert and a stamp of a node
\* that has stored it.
Respects ==
    /\ \A r \in Inserts : ins[r].id # NoId => ins'[r].id = ins[r].id
    /\ \A r \in Inserts : stored[r] \subseteq stored'[r]
    /\ \A n \in Node, u \in Uuid :
          \/ copies'[n][u] \in {Absent, copies[n][u]}
          \/ ins'[u[1]].id = u /\ copies'[n][u] \in stored'[u[1]]
    /\ \A m \in wire' : m \in wire \/ (m.req \in Inserts => ins'[m.req].id # NoId)
    /\ \A q \in Queries, p \in Node :
          \/ serve'[q].got[p] \in {NoId, serve[q].got[p]}
          \/ ins'[serve'[q].got[p][1]].id = serve'[q].got[p]
    /\ \A x \in repairs' :
          \/ x \in repairs
          \/ ins'[x.id[1]].id = x.id /\ x.stamp \in stored'[x.id[1]] \cup {Absent}

LEMMA InsertInvKept ==
    ASSUME CoreType, CoreType', InsertInv, Respects, InsertIds', Replicating'
    PROVE  InsertInv'
<1>1. \A u \in Uuid : Known(u) => Known(u)'
  BY UuidIsAnId DEF Known, Respects
<1>2. \A n \in Node, u \in Uuid : copies'[n][u] # Absent => Known(u)'
  BY <1>1 DEF InsertInv, IdsKnown, Respects, Known
<1>3. \A m \in wire' : m.req \in Inserts => ins'[m.req].id # NoId
  BY DEF InsertInv, IdsKnown, Respects
<1>4. \A q \in Queries, p \in Node :
         serve'[q].got[p] # NoId => Known(serve[q].got[p])'
  <2> SUFFICES ASSUME NEW q \in Queries, NEW p \in Node, serve'[q].got[p] # NoId
               PROVE  Known(serve[q].got[p])'
    OBVIOUS
  <2>1. serve'[q].got[p] \in Uuid
    BY DEF CoreType, ServeState
  <2>2. CASE serve'[q].got[p] = serve[q].got[p]
    <3>1. Known(serve[q].got[p]) /\ serve[q].got[p] \in Uuid
      BY <2>1, <2>2 DEF InsertInv, IdsKnown
    <3>2. ins'[serve[q].got[p][1]].id = serve[q].got[p]
      BY <1>1, <3>1 DEF Known
    <3> QED
      BY <2>2, <3>2 DEF Known
  <2> QED
    BY <2>2 DEF Respects, Known
<1>5. \A x \in repairs' : Known(x.id)'
  BY <1>1 DEF InsertInv, IdsKnown, Respects, Known, CoreType, RepairTask
<1>6. \A n \in Node, u \in Uuid : copies'[n][u] \in stored'[u[1]] \cup {Absent}
  BY UuidIsAnId DEF InsertInv, Stamped, Respects
<1>7. \A x \in repairs' : x.stamp \in stored'[x.id[1]] \cup {Absent}
  BY UuidIsAnId DEF InsertInv, Stamped, Respects, CoreType, RepairTask
<1> QED
  BY <1>2, <1>3, <1>4, <1>5, <1>6, <1>7 DEF InsertInv, IdsKnown, Stamped, Known

\* A step that leaves the coordinators of inserts and stored alone.
LEMMA InsertInvFrame ==
    ASSUME CoreType, CoreType', InsertInv, UNCHANGED <<ins, stored>>,
           \A n \in Node, u \in Uuid :
              \/ copies'[n][u] \in {Absent, copies[n][u]}
              \/ Known(u) /\ copies'[n][u] \in stored[u[1]],
           \A m \in wire' : m \in wire \/ m.req \notin Inserts,
           \A q \in Queries, p \in Node :
              \/ serve'[q].got[p] \in {NoId, serve[q].got[p]}
              \/ Known(serve'[q].got[p]),
           \A x \in repairs' :
              \/ x \in repairs
              \/ Known(x.id) /\ x.stamp \in stored[x.id[1]] \cup {Absent}
    PROVE  InsertInv'
<1>1. InsertIds' /\ Replicating'
  BY DEF InsertInv, InsertIds, Replicating
<1>2. Respects
  BY DEF Respects, Known
<1> QED
  BY <1>1, <1>2, InsertInvKept

\* What InsertIds and Replicating say of one insert.
InsertFine(r) ==
    LET s == ins[r] IN
    /\ s.id \in {NoId, <<r, s.node>>}
    /\ s.pc \in {"new", "ring"} => s.id = NoId
    /\ s.pc \in {"store", "next", "call"} => s.id # NoId
    /\ s.pc = "new" => s.ids = {}
    /\ s.pc = "store" => s.ids \subseteq s.todo \cup {s.node}
    /\ s.pc \in {"next", "call"} => s.ids \subseteq stored[r] \cup s.skipped \cup s.todo
    /\ s.answer = "ok" => s.pc = "done" /\ s.ids \ s.skipped \subseteq stored[r]

LEMMA InsertsFine == InsertIds /\ Replicating <=> \A r \in Inserts : InsertFine(r)
BY DEF InsertIds, Replicating, InsertFine

\* A step of the coordinator of r that stores nothing.
LEMMA InsertInvQuiet ==
    ASSUME CoreType, CoreType', InsertInv, NEW r \in Inserts,
           UNCHANGED <<copies, stored, serve, repairs>>,
           \A k \in Inserts \ {r} : ins'[k] = ins[k],
           ins[r].id # NoId => ins'[r].id = ins[r].id,
           InsertFine(r)',
           \A m \in wire' : m \in wire \/ (m.req = r /\ ins'[r].id # NoId)
    PROVE  InsertInv'
<1>1. \A k \in Inserts : InsertFine(k)
  BY InsertsFine DEF InsertInv
<1>2. \A k \in Inserts : InsertFine(k)'
  BY <1>1 DEF InsertFine
<1>3. InsertIds' /\ Replicating'
  BY <1>2 DEF InsertFine, InsertIds, Replicating
<1>4. Respects
  BY DEF Respects
<1> QED
  BY <1>3, <1>4, InsertInvKept

\* A step that stores r's entry on node n, under the id of r.
LEMMA InsertInvStores ==
    ASSUME CoreType, CoreType', InsertInv, NEW r \in Inserts, NEW n \in Node,
           LocalInsert(n, ins'[r].id), ins'[r].id \in Uuid, ins'[r].id[1] = r,
           UNCHANGED <<serve, repairs>>,
           \A k \in Inserts \ {r} : ins'[k] = ins[k],
           ins[r].id # NoId => ins'[r].id = ins[r].id,
           InsertFine(r)',
           wire' \subseteq wire
    PROVE  InsertInv'
<1> DEFINE u == ins'[r].id
<1>1. \A k \in Node, v \in Uuid :
        copies'[k][v] = IF k = n /\ v = u /\ copies[n][u] = Absent THEN n ELSE copies[k][v]
  BY StoredEffect DEF LocalInsert, CoreType
<1>2. stored' = [stored EXCEPT ![r] = @ \cup {n}] /\ stored \in [Inserts -> SUBSET Node]
  BY DEF LocalInsert, CoreType
<1>3. \A k \in Inserts : stored'[k] = IF k = r THEN stored[r] \cup {n} ELSE stored[k]
  BY <1>2
<1>4. \A k \in Inserts : InsertFine(k)
  BY InsertsFine DEF InsertInv
<1>5. \A k \in Inserts : InsertFine(k)'
  BY <1>3, <1>4 DEF InsertFine
<1>6. InsertIds' /\ Replicating'
  BY <1>5 DEF InsertFine, InsertIds, Replicating
<1>7. \A k \in Node, v \in Uuid :
          \/ copies'[k][v] \in {Absent, copies[k][v]}
          \/ ins'[v[1]].id = v /\ copies'[k][v] \in stored'[v[1]]
  BY <1>1, <1>3
<1>8. Respects
  BY <1>3, <1>7 DEF Respects
<1> QED
  BY <1>6, <1>8, InsertInvKept

LEMMA InsertInvInsert ==
    ASSUME CoreType, CoreType', InsertInv, NEW r \in Inserts,
           InsertStep(r) \/ \E n \in Node : InsertHere(r, n) \/ InsertBegin(r, n)
    PROVE  InsertInv'
<1>0. /\ InsertFine(r) /\ ins \in [Inserts -> InsertState] /\ ins[r] \in InsertState
      /\ copies \in Copies /\ stored \in [Inserts -> SUBSET Node]
  BY InsertsFine DEF InsertInv, CoreType
<1>1. \A n \in Node : <<r, n>> \in Uuid /\ <<r, n>> # NoId /\ <<r, n>>[1] = r
  BY UuidIsAnId DEF Uuid
<1>2. ASSUME NEW n \in Node, InsertHere(r, n) PROVE InsertInv'
  <2> DEFINE s == [ins[r] EXCEPT !.node = n, !.id = <<r, n>>]
  <2>1. /\ ins[r].pc = "new" /\ ins[r].id = NoId /\ ins[r].ids = {}
        /\ UNCHANGED <<wire, serve, repairs>>
    BY <1>0, <1>2 DEF InsertHere, InsertFine, insertRest
  <2>2. \A a : /\ Answered(s, a).pc = "done" /\ Answered(s, a).id = <<r, n>>
               /\ Answered(s, a).node = n /\ Answered(s, a).ids = {}
               /\ Answered(s, a).answer = a
    BY <1>0, <2>1 DEF Answered, InsertState
  <2> HIDE DEF s
  <2>3. CASE LocalInsert(n, <<r, n>>) /\ ins' = [ins EXCEPT ![r] = Answered(s, "ok")]
    <3>1. ins'[r] = Answered(s, "ok") /\ \A k \in Inserts \ {r} : ins'[k] = ins[k]
      BY <1>0, <2>3
    <3>2. InsertFine(r)'
      BY <2>2, <3>1 DEF InsertFine
    <3> QED
      BY <1>1, <2>1, <2>2, <2>3, <3>1, <3>2, InsertInvStores
  <2>4. CASE ins' = [ins EXCEPT ![r] = Answered(s, "error")] /\ UNCHANGED <<copies, stored>>
    <3>1. ins'[r] = Answered(s, "error") /\ \A k \in Inserts \ {r} : ins'[k] = ins[k]
      BY <1>0, <2>4
    <3>2. InsertFine(r)'
      BY <2>2, <3>1 DEF InsertFine
    <3> QED
      BY <2>1, <2>4, <3>1, <3>2, InsertInvQuiet
  <2> QED
    BY <1>2, <2>3, <2>4 DEF InsertHere, s
<1>3. ASSUME NEW n \in Node, InsertBegin(r, n) PROVE InsertInv'
  <2>1. /\ ins'[r].pc = "ring" /\ ins'[r].id = NoId /\ ins'[r].answer = ins[r].answer
        /\ ins[r].answer # "ok" /\ ins[r].id = NoId
    BY <1>0, <1>3 DEF InsertBegin, InsertFine, InsertState
  <2>2. InsertFine(r)'
    BY <2>1 DEF InsertFine
  <2>3. /\ UNCHANGED <<copies, stored, serve, repairs, wire>>
        /\ \A k \in Inserts \ {r} : ins'[k] = ins[k]
    BY <1>0, <1>3 DEF InsertBegin, insertRest
  <2> QED
    BY <2>1, <2>2, <2>3, InsertInvQuiet
<1>4. CASE InsertResolve(r)
  <2> DEFINE n == ins[r].node
             replicas == WithAddrs(n, ins[r].ids)
             pc == IF replicas = {} \/ n \in replicas THEN "store" ELSE "next"
  <2>1. ins' = [ins EXCEPT ![r].pc = pc, ![r].ids = replicas,
                           ![r].todo = replicas \ {n}, ![r].id = <<r, n>>]
    BY <1>4 DEF InsertResolve
  <2>2. /\ n \in Node /\ pc \in {"store", "next"}
        /\ pc = "next" => n \notin replicas
    BY <1>0 DEF InsertState
  <2> HIDE DEF replicas, pc
  <2>3. ins[r].answer # "ok" /\ ins[r].id = NoId
    BY <1>0, <1>4 DEF InsertResolve, InsertFine
  <2>4. ins'[r] = [ins[r] EXCEPT !.pc = pc, !.ids = replicas,
                                 !.todo = replicas \ {n}, !.id = <<r, n>>]
    BY <1>0, <2>1
  <2>5. /\ ins'[r].pc = pc /\ ins'[r].id = <<r, n>> /\ ins'[r].answer = ins[r].answer
        /\ ins'[r].node = n /\ ins'[r].ids = replicas /\ ins'[r].todo = replicas \ {n}
    BY <1>0, <2>4 DEF InsertState
  <2>6. InsertFine(r)'
    BY <1>1, <2>2, <2>5, <2>3 DEF InsertFine
  <2>7. /\ UNCHANGED <<copies, stored, serve, repairs, wire>>
        /\ \A k \in Inserts \ {r} : ins'[k] = ins[k]
    BY <1>0, <1>4 DEF InsertResolve, insertRest
  <2> QED
    BY <2>5, <2>6, <2>7, <2>3, InsertInvQuiet
<1>5. CASE InsertStore(r)
  <2>1. /\ ins[r].id = <<r, ins[r].node>> /\ ins[r].node \in Node /\ ins[r].answer # "ok"
        /\ ins[r].ids \subseteq ins[r].todo \cup {ins[r].node}
        /\ UNCHANGED <<wire, serve, repairs>>
    BY <1>0, <1>5 DEF InsertStore, InsertFine, InsertState, insertRest
  <2>2. CASE LocalInsert(ins[r].node, ins[r].id) /\ ins' = [ins EXCEPT ![r].pc = "next"]
    <3>1. /\ ins'[r] = [ins[r] EXCEPT !.pc = "next"]
          /\ \A k \in Inserts \ {r} : ins'[k] = ins[k]
      BY <1>0, <2>2
    <3>2. /\ ins'[r].pc = "next" /\ ins'[r].id = ins[r].id /\ ins'[r].node = ins[r].node
          /\ ins'[r].ids = ins[r].ids /\ ins'[r].todo = ins[r].todo
          /\ ins'[r].answer = ins[r].answer
      BY <1>0, <3>1 DEF InsertState
    <3>3. ins[r].node \in stored'[r]
      BY <1>0, <1>1, <2>1, <2>2 DEF LocalInsert
    <3>4. InsertFine(r)'
      BY <1>1, <2>1, <3>2, <3>3 DEF InsertFine
    <3> QED
      BY <1>1, <2>1, <2>2, <3>1, <3>2, <3>4, InsertInvStores
  <2>3. CASE ins' = [ins EXCEPT ![r] = Answered(@, "error")] /\ UNCHANGED <<copies, stored>>
    <3>1. /\ ins'[r] = Answered(ins[r], "error")
          /\ \A k \in Inserts \ {r} : ins'[k] = ins[k]
      BY <1>0, <2>3
    <3>2. /\ ins'[r].pc = "done" /\ ins'[r].id = ins[r].id /\ ins'[r].node = ins[r].node
          /\ ins'[r].answer = "error"
      BY <1>0, <3>1 DEF Answered, InsertState
    <3>3. InsertFine(r)'
      BY <2>1, <3>2 DEF InsertFine
    <3> QED
      BY <2>1, <2>3, <3>1, <3>2, <3>3, InsertInvQuiet
  <2> QED
    BY <1>5, <2>2, <2>3 DEF InsertStore
<1>6. CASE InsertNext(r)
  <2> DEFINE p == First(ins[r].todo)
  <2>1. /\ ins[r].pc = "next" /\ ins[r].id = <<r, ins[r].node>> /\ ins[r].answer # "ok"
        /\ ins[r].id # NoId
        /\ ins[r].ids \subseteq stored[r] \cup ins[r].skipped \cup ins[r].todo
        /\ UNCHANGED <<copies, stored, serve, repairs>>
    BY <1>0, <1>6 DEF InsertNext, InsertFine, insertRest
  <2>2. CASE /\ ins' = [ins EXCEPT ![r].todo = @ \ {p}, ![r].skipped = @ \cup {p}]
             /\ UNCHANGED wire
    <3>1. /\ ins'[r] = [ins[r] EXCEPT !.todo = @ \ {p}, !.skipped = @ \cup {p}]
          /\ \A k \in Inserts \ {r} : ins'[k] = ins[k]
      BY <1>0, <2>2
    <3> HIDE DEF p
    <3>2. /\ ins'[r].pc = "next" /\ ins'[r].id = ins[r].id /\ ins'[r].node = ins[r].node
          /\ ins'[r].ids = ins[r].ids /\ ins'[r].answer = ins[r].answer
          /\ ins'[r].todo = ins[r].todo \ {p} /\ ins'[r].skipped = ins[r].skipped \cup {p}
      BY <1>0, <2>1, <3>1 DEF InsertState
    <3>3. InsertFine(r)'
      BY <2>1, <3>2 DEF InsertFine
    <3> QED
      BY <2>1, <2>2, <3>1, <3>2, <3>3, InsertInvQuiet
  <2>3. CASE /\ ins' = [ins EXCEPT ![r].pc = "call", ![r].try = 0]
             /\ wire' = wire \cup {ForwardInsert(r, p, 0)}
    <3>1. /\ ins'[r] = [ins[r] EXCEPT !.pc = "call", !.try = 0]
          /\ \A k \in Inserts \ {r} : ins'[k] = ins[k]
      BY <1>0, <2>3
    <3> HIDE DEF p
    <3>2. /\ ins'[r].pc = "call" /\ ins'[r].id = ins[r].id /\ ins'[r].node = ins[r].node
          /\ ins'[r].ids = ins[r].ids /\ ins'[r].answer = ins[r].answer
          /\ ins'[r].todo = ins[r].todo /\ ins'[r].skipped = ins[r].skipped
      BY <1>0, <3>1 DEF InsertState
    <3>3. InsertFine(r)'
      BY <2>1, <3>2 DEF InsertFine
    <3>4. ForwardInsert(r, p, 0).req = r
      BY DEF ForwardInsert
    <3>5. \A m \in wire' : m \in wire \/ (m.req = r /\ ins'[r].id # NoId)
      BY <2>1, <2>3, <3>2, <3>4
    <3> QED
      BY <2>1, <3>1, <3>2, <3>3, <3>5, InsertInvQuiet
  <2> QED
    BY <1>6, <2>2, <2>3 DEF InsertNext
<1>7. CASE InsertDone(r)
  <2>1. /\ ins[r].pc = "next" /\ ins[r].todo = {} /\ ins[r].id = <<r, ins[r].node>>
        /\ ins[r].ids \subseteq stored[r] \cup ins[r].skipped
        /\ UNCHANGED <<copies, stored, serve, repairs, wire>>
    BY <1>0, <1>7 DEF InsertDone, InsertFine, insertRest
  <2>2. /\ ins'[r] = Answered(ins[r], "ok") /\ \A k \in Inserts \ {r} : ins'[k] = ins[k]
    BY <1>0, <1>7 DEF InsertDone
  <2>3. /\ ins'[r].pc = "done" /\ ins'[r].id = ins[r].id /\ ins'[r].node = ins[r].node
        /\ ins'[r].ids = ins[r].ids /\ ins'[r].skipped = ins[r].skipped
    BY <1>0, <2>2 DEF Answered, InsertState
  <2>4. InsertFine(r)'
    BY <2>1, <2>3 DEF InsertFine
  <2> QED
    BY <2>1, <2>2, <2>3, <2>4, InsertInvQuiet
<1>8. ASSUME NEW retryable \in BOOLEAN, NEW lingers \in {FALSE, retryable},
             InsertCallFails(r, retryable, lingers)
      PROVE  InsertInv'
  <2> DEFINE m == Awaited(r)
  <2>1. /\ ins[r].pc = "call" /\ ins[r].id = <<r, ins[r].node>> /\ ins[r].answer # "ok"
        /\ ins[r].id # NoId
        /\ ins[r].ids \subseteq stored[r] \cup ins[r].skipped \cup ins[r].todo
        /\ UNCHANGED <<copies, stored, serve, repairs>>
    BY <1>0, <1>8 DEF InsertCallFails, InsertFine
  <2>2. m \in wire /\ m.req = r /\ wire \subseteq Call
    BY <1>8 DEF InsertCallFails, Awaited, ForwardInsert, CoreType
  <2> HIDE DEF m
  <2>3. CASE Retried(retryable, ins[r].try)
    <3>1. /\ ins'[r] = [ins[r] EXCEPT !.try = @ + 1]
          /\ \A k \in Inserts \ {r} : ins'[k] = ins[k]
      BY <1>0, <1>8, <2>3 DEF InsertCallFails
    <3>2. /\ ins'[r].pc = "call" /\ ins'[r].id = ins[r].id /\ ins'[r].node = ins[r].node
          /\ ins'[r].ids = ins[r].ids /\ ins'[r].answer = ins[r].answer
          /\ ins'[r].todo = ins[r].todo /\ ins'[r].skipped = ins[r].skipped
      BY <1>0, <2>1, <3>1 DEF InsertState
    <3>3. InsertFine(r)'
      BY <2>1, <3>2 DEF InsertFine
    <3>4. \A c \in wire' : c \in wire \/ c = [m EXCEPT !.try = @ + 1]
      BY <1>8, <2>3 DEF InsertCallFails, m
    <3>5. [m EXCEPT !.try = @ + 1].req = r
      BY <2>2 DEF Call
    <3> QED
      BY <2>1, <3>1, <3>2, <3>3, <3>4, <3>5, InsertInvQuiet
  <2>4. CASE ~Retried(retryable, ins[r].try)
    <3>1. /\ ins'[r] = Answered(ins[r], "bad_gateway")
          /\ \A k \in Inserts \ {r} : ins'[k] = ins[k]
      BY <1>0, <1>8, <2>4 DEF InsertCallFails
    <3>2. /\ ins'[r].pc = "done" /\ ins'[r].id = ins[r].id /\ ins'[r].node = ins[r].node
          /\ ins'[r].answer = "bad_gateway"
      BY <1>0, <3>1 DEF Answered, InsertState
    <3>3. InsertFine(r)'
      BY <2>1, <3>2 DEF InsertFine
    <3>4. wire' \subseteq wire
      BY <1>8, <2>4 DEF InsertCallFails
    <3> QED
      BY <2>1, <3>1, <3>2, <3>3, <3>4, InsertInvQuiet
  <2> QED
    BY <2>3, <2>4
<1> QED
  BY <1>2, <1>3, <1>4, <1>5, <1>6, <1>7, <1>8 DEF InsertStep

LEMMA InsertInvDeliver ==
    ASSUME CoreType, CoreType', InsertInv, NEW m \in wire,
           InsertDeliver(m) \/ RemovalDeliver(m)
    PROVE  InsertInv'
<1>1. m \in Call /\ m.to \in Node
  BY DEF CoreType, Call
<1>2. CASE InsertDeliver(m)
  <2> DEFINE r == m.req
  <2>1. /\ r \in Inserts /\ ins[r] \in InsertState /\ InsertFine(r)
        /\ ins[r].id = <<r, ins[r].node>> /\ ins[r].id # NoId /\ ins[r].node \in Node
    BY <1>2, InsertsFine
       DEF InsertDeliver, CoreType, InsertInv, InsertIds, IdsKnown, InsertState
  <2>2. /\ LocalInsert(m.to, ins[r].id) /\ wire' \subseteq wire
        /\ UNCHANGED <<serve, repairs>>
    BY <1>2 DEF InsertDeliver, insertRest
  <2>3. ins[r].id \in Uuid /\ ins[r].id[1] = r
    BY <2>1 DEF Uuid
  <2>4. m.to \in stored'[r] /\ stored[r] \subseteq stored'[r]
    BY <1>1, <2>1, <2>2, <2>3 DEF LocalInsert, CoreType
  <2>5. \A k \in Inserts \ {r} : ins'[k] = ins[k]
    BY <1>2 DEF InsertDeliver, CoreType
  <2>6. /\ ins'[r].id = ins[r].id
        /\ InsertFine(r)'
    <3>1. CASE ins' = ins
      BY <2>1, <2>4, <3>1 DEF InsertFine
    <3>2. CASE /\ ins[r].pc = "call"
               /\ ins' = [ins EXCEPT ![m.req].pc = "next", ![m.req].try = 0,
                                     ![m.req].todo = @ \ {m.to}]
      <4>1. ins'[r] = [ins[r] EXCEPT !.pc = "next", !.try = 0, !.todo = @ \ {m.to}]
        BY <2>1, <3>2 DEF CoreType
      <4>2. /\ ins'[r].pc = "next" /\ ins'[r].id = ins[r].id /\ ins'[r].node = ins[r].node
            /\ ins'[r].ids = ins[r].ids /\ ins'[r].answer = ins[r].answer
            /\ ins'[r].todo = ins[r].todo \ {m.to} /\ ins'[r].skipped = ins[r].skipped
        BY <2>1, <4>1 DEF InsertState
      <4>3. InsertFine(r)'
        BY <2>1, <2>4, <3>2, <4>2 DEF InsertFine
      <4> QED
        BY <4>2, <4>3
    <3> QED
      BY <1>2, <3>1, <3>2 DEF InsertDeliver
  <2> QED
    BY <1>1, <2>1, <2>2, <2>3, <2>5, <2>6, InsertInvStores
<1>3. CASE RemovalDeliver(m)
  <2>1. \A n \in Node, u \in Uuid : copies'[n][u] \in {Absent, copies[n][u]}
    BY <1>1, <1>3, WithoutEffect DEF RemovalDeliver, CoreType
  <2>2. wire' \subseteq wire /\ UNCHANGED <<ins, stored, serve, repairs>>
    BY <1>3 DEF RemovalDeliver, removalRest
  <2> QED
    BY <2>1, <2>2, InsertInvFrame
<1> QED
  BY <1>2, <1>3

LEMMA OffGotNothing == \A p \in Node : Off.got[p] = NoId
BY DEF Off

LEMMA ServingGotNothing ==
    ASSUME NEW n, NEW repair
    PROVE  \A p \in Node : Serving(n, repair).got[p] = NoId
<1>1. Serving(n, repair).got = Off.got
  BY DEF Serving, Off
<1> QED
  BY <1>1, OffGotNothing

LEMMA InsertInvQuery ==
    ASSUME CoreType, CoreType', InsertInv, NEW q \in Queries,
           QueryStep(q) \/ \E n \in Node : QueryHere(q, n) \/ QueryBegin(q, n)
    PROVE  InsertInv'
<1>1. UNCHANGED <<repairs, queryRest>>
  BY DEF QueryStep, QueryHere, QueryBegin, QueryResolve, QueryForward, QueryCallFails
<1>2. \/ serve' = serve
      \/ serve' = [serve EXCEPT ![q] = Off]
      \/ \E n, repair : serve' = [serve EXCEPT ![q] = Serving(n, repair)]
  BY DEF QueryStep, QueryHere, QueryBegin, QueryResolve, QueryForward, QueryCallFails,
         ForwardQuery
<1>3. \A k \in Queries, p \in Node : serve'[k].got[p] \in {NoId, serve[k].got[p]}
  <2>1. serve \in [Queries -> ServeState]
    BY DEF CoreType
  <2>2. CASE serve' = [serve EXCEPT ![q] = Off]
    BY <2>1, <2>2, OffGotNothing
  <2>3. ASSUME NEW n, NEW repair, serve' = [serve EXCEPT ![q] = Serving(n, repair)]
        PROVE  \A k \in Queries, p \in Node : serve'[k].got[p] \in {NoId, serve[k].got[p]}
    <3>1. \A p \in Node : Serving(n, repair).got[p] = NoId
      BY ServingGotNothing
    <3> QED
      BY <2>1, <2>3, <3>1
  <2> QED
    BY <1>2, <2>2, <2>3
<1> QED
  BY <1>1, <1>3, InsertInvFrame DEF queryRest

LEMMA InsertInvServe ==
    ASSUME CoreType, CoreType', InsertInv, NEW q \in Queries, ServeStep(q)
    PROVE  InsertInv'
<1>1. UNCHANGED queryRest /\ serve \in [Queries -> ServeState] /\ serve[q] \in ServeState
  BY DEF ServeStep, ServeLook, ServeRing, ServeAddrs, ServeAsk, ServeFanOut, ServeJoin,
         ServePeer, CoreType
<1>2. ASSUME NEW a, ServeEnds(q, a)
      PROVE  \A k \in Queries, p \in Node : serve'[k].got[p] \in {NoId, serve[k].got[p]}
  BY <1>1, <1>2, OffGotNothing DEF ServeEnds
<1>3. ASSUME UNCHANGED repairs,
             \A p \in Node : serve'[q].got[p] = serve[q].got[p],
             \A k \in Queries \ {q} : serve'[k] = serve[k]
      PROVE  InsertInv'
  <2>1. \A k \in Queries, p \in Node : serve'[k].got[p] = serve[k].got[p]
    BY <1>3
  <2> QED
    BY <1>1, <1>3, <2>1, InsertInvFrame DEF queryRest
<1>4. ASSUME NEW a, ServeEnds(q, a), UNCHANGED repairs PROVE InsertInv'
  BY <1>1, <1>2, <1>4, InsertInvFrame DEF queryRest
<1>5. CASE ServeLook(q)
  <2>1. CASE serve' = [serve EXCEPT ![q].pc = "ring"]
    BY <1>1, <1>3, <1>5, <2>1 DEF ServeLook, ServeState
  <2> QED
    BY <1>4, <1>5, <2>1 DEF ServeLook
<1>6. CASE ServeRing(q)
  BY <1>1, <1>3, <1>6 DEF ServeRing, ServeState
<1>7. CASE ServeAddrs(q)
  BY <1>1, <1>3, <1>7 DEF ServeAddrs, ServeState
<1>8. CASE ServeAsk(q)
  BY <1>1, <1>3, <1>8 DEF ServeAsk, ServeState
<1>9. CASE ServeFanOut(q)
  <2>1. CASE serve' = [serve EXCEPT ![q].pc = "wait", ![q].waiting = serve[q].asked]
    BY <1>1, <1>3, <1>9, <2>1 DEF ServeFanOut, ServeState
  <2> QED
    BY <1>4, <1>9, <2>1 DEF ServeFanOut
<1>10. ASSUME NEW p \in Node, ServePeer(q, p) PROVE InsertInv'
  <2>1. CASE serve' = [serve EXCEPT ![q].waiting = @ \ {p}, ![q].failed = TRUE]
    BY <1>1, <1>3, <1>10, <2>1 DEF ServePeer, ServeState
  <2>2. ASSUME NEW a \in IF IdsOn(p) = {} THEN {NoId} ELSE IdsOn(p),
               serve' = [serve EXCEPT ![q].waiting = @ \ {p}, ![q].got[p] = a]
        PROVE  InsertInv'
    <3>1. a = NoId \/ Known(a)
      BY <2>2 DEF IdsOn, InsertInv, IdsKnown
    <3>2. \A k \in Queries, n \in Node :
            serve'[k].got[n] = IF k = q /\ n = p THEN a ELSE serve[k].got[n]
      BY <1>1, <2>2 DEF ServeState
    <3>3. UNCHANGED repairs
      BY <1>10 DEF ServePeer
    <3> QED
      BY <1>1, <3>1, <3>2, <3>3, InsertInvFrame DEF queryRest
  <2> QED
    BY <1>10, <2>1, <2>2 DEF ServePeer
<1>11. CASE ServeJoin(q)
  <2> DEFINE hits == {p \in serve[q].asked : serve[q].got[p] # NoId}
             f == First(hits)
             x == [node |-> serve[q].node, from |-> f, id |-> serve[q].got[f],
                   stamp |-> Absent]
  <2>1. CASE hits = {}
    BY <1>4, <1>11, <2>1 DEF ServeJoin
  <2>2. CASE hits # {}
    <3>1. hits \in SUBSET Node
      BY <1>1 DEF ServeState
    <3>2. f \in hits
      BY <2>2, <3>1, FirstIsFirst
    <3>3. ServeEnds(q, "hit") /\ repairs' = repairs \cup {x}
      BY <1>11, <2>2 DEF ServeJoin
    <3> HIDE DEF f
    <3>4. Known(x.id) /\ x.stamp = Absent
      BY <3>1, <3>2 DEF InsertInv, IdsKnown
    <3> HIDE DEF x
    <3>5. \A y \in repairs' :
            y \in repairs \/ (Known(y.id) /\ y.stamp \in stored[y.id[1]] \cup {Absent})
      BY <3>3, <3>4
    <3> QED
      BY <1>1, <1>2, <3>3, <3>5, InsertInvFrame DEF queryRest
  <2> QED
    BY <2>1, <2>2
<1> QED
  BY <1>5, <1>6, <1>7, <1>8, <1>9, <1>10, <1>11 DEF ServeStep

LEMMA InsertInvRepair ==
    ASSUME CoreType, CoreType', InsertInv, NEW x \in repairs,
           RepairFetch(x) \/ RepairStore(x) \/ RepairFails(x)
    PROVE  InsertInv'
<1>1. /\ x \in RepairTask /\ copies \in Copies /\ UNCHANGED repairRest
      /\ Known(x.id) /\ x.stamp \in stored[x.id[1]] \cup {Absent}
  BY DEF CoreType, InsertInv, IdsKnown, Stamped, RepairFetch, RepairStore, RepairFails
<1>2. CASE RepairFetch(x)
  <2> DEFINE y == [x EXCEPT !.stamp = GetEntry(x.from, x.id)]
  <2>1. GetEntry(x.from, x.id) \in stored[x.id[1]] \cup {Absent}
    BY <1>1 DEF InsertInv, Stamped, GetEntry, RepairTask
  <2>2. y.id = x.id /\ y.stamp = GetEntry(x.from, x.id)
    BY <1>1 DEF RepairTask
  <2>3. UNCHANGED copies /\ repairs' = (repairs \ {x}) \cup {y}
    BY <1>2 DEF RepairFetch
  <2> HIDE DEF y
  <2>4. \A z \in repairs' :
          z \in repairs \/ (Known(z.id) /\ z.stamp \in stored[z.id[1]] \cup {Absent})
    BY <1>1, <2>1, <2>2, <2>3
  <2> QED
    BY <1>1, <2>3, <2>4, InsertInvFrame DEF repairRest
<1>3. CASE RepairStore(x)
  <2>1. \A n \in Node, u \in Uuid :
          \/ copies'[n][u] \in {Absent, copies[n][u]}
          \/ Known(u) /\ copies'[n][u] \in stored[u[1]]
    <3>1. x.node \in Node /\ x.id \in Uuid /\ x.stamp # Absent
      BY <1>1, <1>3 DEF RepairTask, RepairStore
    <3>2. \A k \in Node, v \in Uuid :
            copies'[k][v] = IF k = x.node /\ v = x.id /\ copies[x.node][x.id] = Absent
                            THEN x.stamp ELSE copies[k][v]
      BY <1>1, <1>3, <3>1, StoredEffect DEF RepairStore
    <3> QED
      BY <1>1, <3>1, <3>2
  <2>2. repairs' \subseteq repairs
    BY <1>3 DEF RepairStore
  <2> QED
    BY <1>1, <2>1, <2>2, InsertInvFrame DEF repairRest
<1>4. CASE RepairFails(x)
  BY <1>1, <1>4, InsertInvFrame DEF RepairFails, repairRest
<1> QED
  BY <1>2, <1>3, <1>4

LEMMA InsertInvRemoval ==
    ASSUME CoreType, CoreType', InsertInv, NEW d \in Removals,
           \/ RemovalStep(d)
           \/ \E n \in Node : \E ids, sweep, local : RemovalBegin(d, n, ids, sweep, local)
    PROVE  InsertInv'
<1>1. copies \in Copies /\ d \notin Inserts
  BY ReplicationAssumption DEF CoreType
<1>2. ASSUME NEW n \in Node, NEW ids, NEW sweep, NEW local,
             RemovalBegin(d, n, ids, sweep, local)
      PROVE  InsertInv'
  <2>1. \A k \in Node, u \in Uuid : copies'[k][u] \in {Absent, copies[k][u]}
    <3>1. PICK gone : copies' = Without(n, gone)
      BY <1>2 DEF RemovalBegin
    <3> QED
      BY <1>1, <3>1, WithoutEffect
  <2>2. UNCHANGED <<ins, stored, serve, repairs, wire>>
    BY <1>2 DEF RemovalBegin, removalRest
  <2> QED
    BY <2>1, <2>2, InsertInvFrame
<1>3. CASE RemovalStep(d)
  <2>1. UNCHANGED <<ins, stored, serve, repairs, copies>>
    BY <1>3 DEF RemovalStep, RemovalPeers, RemovalDone, RemovalNext, RemovalCallFails,
                removalRest
  <2>2. \A p : ForwardRemoval(d, p).req = d
    BY DEF ForwardRemoval
  <2>3. \A m \in wire' : m \in wire \/ m.req = d
    BY <1>3, <2>2 DEF RemovalStep, RemovalPeers, RemovalDone, RemovalNext, RemovalCallFails
  <2> QED
    BY <1>1, <2>1, <2>3, InsertInvFrame
<1> QED
  BY <1>2, <1>3

LEMMA InsertInvSurroundings ==
    ASSUME CoreType, CoreType', InsertInv, NEW n \in Node,
           \/ \E p \in Node : ViewChange(n, p)
           \/ \E u \in Uuid : Drop(n, u)
           \/ Crash(n)
    PROVE  InsertInv'
<1>1. CASE \E p \in Node : ViewChange(n, p)
  BY <1>1, InsertInvFrame DEF ViewChange
<1>2. ASSUME NEW u \in Uuid, Drop(n, u) PROVE InsertInv'
  <2>1. \A k \in Node, v \in Uuid : copies'[k][v] \in {Absent, copies[k][v]}
    BY <1>2, WithoutEffect DEF Drop, CoreType
  <2> QED
    BY <1>2, <2>1, InsertInvFrame DEF Drop
<1>3. CASE Crash(n)
  <2>1. UNCHANGED <<copies, wire, stored>> /\ repairs' \subseteq repairs
    BY <1>3 DEF Crash
  <2>2. \A q \in Queries, p \in Node : serve'[q].got[p] \in {NoId, serve[q].got[p]}
    BY <1>3, OffGotNothing DEF Crash, CoreType
  <2>3. \A r \in Inserts :
          ins'[r] = IF ins[r].node = n /\ ins[r].pc \notin {"new", "done"}
                    THEN [ins[r] EXCEPT !.pc = "done", !.answer = "lost"]
                    ELSE ins[r]
    BY <1>3 DEF Crash, CoreType
  <2>4. \A r \in Inserts :
          \/ ins'[r] = ins[r]
          \/ /\ ins'[r].pc = "done" /\ ins'[r].answer = "lost"
             /\ ins'[r].id = ins[r].id /\ ins'[r].node = ins[r].node
    <3> SUFFICES ASSUME NEW r \in Inserts, ins'[r] # ins[r]
                 PROVE  /\ ins'[r].pc = "done" /\ ins'[r].answer = "lost"
                        /\ ins'[r].id = ins[r].id /\ ins'[r].node = ins[r].node
      OBVIOUS
    <3>1. ins[r] \in InsertState
      BY DEF CoreType
    <3>2. ins'[r] = [ins[r] EXCEPT !.pc = "done", !.answer = "lost"]
      BY <2>3
    <3> QED
      BY <3>1, <3>2 DEF InsertState
  <2>5. \A r \in Inserts : InsertFine(r)
    BY InsertsFine DEF InsertInv
  <2>6. \A r \in Inserts : InsertFine(r)'
    BY <2>1, <2>4, <2>5 DEF InsertFine
  <2>7. InsertIds' /\ Replicating'
    BY <2>6 DEF InsertFine, InsertIds, Replicating
  <2>8. Respects
    BY <2>1, <2>2, <2>4 DEF Respects
  <2> QED
    BY <2>7, <2>8, InsertInvKept
<1> QED
  BY <1>1, <1>2, <1>3

LEMMA InsertInvStep ==
    ASSUME Typed, InsertInv, [Next]_vars
    PROVE  InsertInv'
<1>1. CoreType /\ CoreType'
  BY TypedStep DEF Typed
<1>2. CASE Step
  <2>1. CASE Requests
    BY <1>1, <2>1, RequestCases, InsertInvInsert, InsertInvQuery, InsertInvRemoval
  <2>2. CASE \E r \in Inserts : InsertStep(r)
    BY <1>1, <2>2, InsertInvInsert
  <2>3. CASE \E q \in Queries : QueryStep(q) \/ ServeStep(q)
    BY <1>1, <2>3, InsertInvQuery, InsertInvServe
  <2>4. CASE \E d \in Removals : RemovalStep(d)
    BY <1>1, <2>4, InsertInvRemoval
  <2>5. CASE \E m \in wire : InsertDeliver(m) \/ RemovalDeliver(m)
    BY <1>1, <2>5, InsertInvDeliver
  <2>6. CASE \E x \in repairs : RepairFetch(x) \/ RepairStore(x) \/ RepairFails(x)
    BY <1>1, <2>6, InsertInvRepair
  <2>7. CASE \/ \E n, p \in Node : ViewChange(n, p)
             \/ \E n \in Node, u \in Uuid : Drop(n, u)
             \/ \E n \in Node : Crash(n)
    BY <1>1, <2>7, InsertInvSurroundings
  <2> QED
    BY <1>2, <2>1, <2>2, <2>3, <2>4, <2>5, <2>6, <2>7 DEF Step
<1>3. CASE UNCHANGED vars
  BY <1>1, <1>3, InsertInvFrame DEF vars
<1> QED
  BY <1>2, <1>3 DEF Next

LEMMA InsertInvAlways == Spec => [](Typed /\ InsertInv)
<1>1. Init => InsertInv
  BY InsertInvInit
<1>2. Typed /\ InsertInv /\ [Next]_vars => InsertInv'
  BY InsertInvStep
<1> QED
  BY <1>1, <1>2, TypedAlways, PTL DEF Spec

\* An insert answered 200 is on every replica its coordinator has not found
\* Dead, whatever failed, was retried or came late (insert_handler,
\* forward_with_retry).
THEOREM AckMeansReplicatedHolds == Spec => []AckMeansReplicated
<1>1. InsertInv => AckMeansReplicated
  BY DEF InsertInv, Replicating, AckMeansReplicated
<1> QED
  BY <1>1, InsertInvAlways, PTL

\* All copies of an insert carry one id, late calls, retries and repairs
\* included (insert_handler's client-stamped id, insert_with_uuid).
THEOREM OneIdPerInsertHolds == Spec => []OneIdPerInsert
<1>1. InsertInv => OneIdPerInsert
  <2> SUFFICES ASSUME InsertInv, NEW m \in Node, NEW n \in Node, NEW u \in Uuid,
                      NEW v \in Uuid, u[1] = v[1],
                      copies[m][u] # Absent, copies[n][v] # Absent
               PROVE  u = v
    BY DEF OneIdPerInsert
  <2>1. Known(u) /\ Known(v)
    BY DEF InsertInv, IdsKnown
  <2> QED
    BY <2>1 DEF Known
<1> QED
  BY <1>1, InsertInvAlways, PTL

\* The state is of its type, and every copy, a repaired one too, has the
\* deadline some local_insert_inner gave it (perform_repair).
THEOREM RepairKeepsDeadlinesHolds == Spec => []RepairKeepsDeadlines
<1>1. Typed /\ InsertInv => RepairKeepsDeadlines
  BY DEF Typed, CoreType, HistoryType, Copies, TypeOK, InsertInv, Stamped,
         RepairKeepsDeadlines
<1> QED
  BY <1>1, InsertInvAlways, PTL

-----------------------------------------------------------------------------
(* A removal that nothing disturbs.                                        *)

\* Insert u[1] is over: nothing under way can still store its entry, ...
Settled(u) ==
    /\ ins[u[1]].id = u /\ ins[u[1]].pc = "done"
    /\ \A m \in wire : m.req # u[1]
    /\ \A x \in repairs : x.id # u

\* ... and no copy, nor a peer's answer about one, is left.
Gone(u) ==
    /\ Settled(u)
    /\ \A n \in Node : copies[n][u] = Absent
    /\ \A q \in Queries, p \in Node : serve[q].got[p] # u

\* An answered insert does not change any more.
LEMMA DoneInsertStays ==
    ASSUME CoreType, Step, NEW r \in Inserts, ins[r].pc = "done"
    PROVE  ins'[r] = ins[r]
<1>1. ins \in [Inserts -> InsertState]
  BY DEF CoreType
<1>2. ASSUME NEW k \in Inserts,
             InsertStep(k) \/ \E n \in Node : InsertHere(k, n) \/ InsertBegin(k, n)
      PROVE  ins'[r] = ins[r]
  <2>1. k # r
    BY <1>2 DEF InsertStep, InsertHere, InsertBegin, InsertResolve, InsertStore,
                InsertNext, InsertDone, InsertCallFails
  <2>2. CASE \E n \in Node : InsertHere(k, n) \/ InsertBegin(k, n)
    BY <1>1, <2>1, <2>2 DEF InsertHere, InsertBegin
  <2>3. CASE InsertResolve(k) \/ InsertStore(k) \/ InsertDone(k)
    BY <1>1, <2>1, <2>3 DEF InsertResolve, InsertStore, InsertDone
  <2>4. CASE InsertNext(k)
    BY <1>1, <2>1, <2>4 DEF InsertNext
  <2>5. CASE \E retryable, lingers \in BOOLEAN : InsertCallFails(k, retryable, lingers)
    BY <1>1, <2>1, <2>5 DEF InsertCallFails
  <2> QED
    BY <1>2, <2>2, <2>3, <2>4, <2>5 DEF InsertStep
<1>3. CASE Requests
  <2>1. ASSUME NEW q \in Queries, NEW n \in Node, QueryHere(q, n) \/ QueryBegin(q, n)
        PROVE  ins' = ins
    BY <2>1 DEF QueryHere, QueryBegin, queryRest
  <2>2. ASSUME NEW d \in Removals, NEW n \in Node, NEW ids, NEW sweep, NEW local,
               RemovalBegin(d, n, ids, sweep, local)
        PROVE  ins' = ins
    BY <2>2 DEF RemovalBegin, removalRest
  <2> QED
    BY <1>2, <1>3, <2>1, <2>2, RequestCases
<1>4. CASE \E k \in Inserts : InsertStep(k)
  BY <1>2, <1>4
<1>5. CASE \E q \in Queries : QueryStep(q) \/ ServeStep(q)
  BY <1>5 DEF QueryStep, QueryResolve, QueryForward, QueryCallFails, ServeStep, ServeLook,
              ServeRing, ServeAddrs, ServeAsk, ServeFanOut, ServeJoin, ServePeer, queryRest
<1>6. CASE \E d \in Removals : RemovalStep(d)
  BY <1>6 DEF RemovalStep, RemovalPeers, RemovalDone, RemovalNext, RemovalCallFails,
              removalRest
<1>7. ASSUME NEW m \in wire, InsertDeliver(m) PROVE ins'[r] = ins[r]
  BY <1>1, <1>7 DEF InsertDeliver
<1>8. CASE \E m \in wire : RemovalDeliver(m)
  BY <1>8 DEF RemovalDeliver, removalRest
<1>9. CASE \E x \in repairs : RepairFetch(x) \/ RepairStore(x) \/ RepairFails(x)
  BY <1>9 DEF RepairFetch, RepairStore, RepairFails, repairRest
<1>10. CASE \/ \E n, p \in Node : ViewChange(n, p)
            \/ \E n \in Node, u \in Uuid : Drop(n, u)
  BY <1>10 DEF ViewChange, Drop
<1>11. CASE \E n \in Node : Crash(n)
  BY <1>1, <1>11 DEF Crash
<1> QED
  BY <1>3, <1>4, <1>5, <1>6, <1>7, <1>8, <1>9, <1>10, <1>11 DEF Step

\* Once insert u[1] is settled no node gets a copy of u.
LEMMA NoNewCopies ==
    ASSUME CoreType, InsertInv, Step, NEW u \in Uuid, Settled(u)
    PROVE  \A n \in Node : copies'[n][u] \in {Absent, copies[n][u]}
<1>1. copies \in Copies /\ \A r \in Inserts : InsertFine(r)
  BY InsertsFine DEF CoreType, InsertInv
<1>2. ASSUME NEW n \in Node, NEW v \in Uuid, NEW stamp, v # u, copies' = Stored(n, v, stamp)
      PROVE  \A k \in Node : copies'[k][u] = copies[k][u]
  BY <1>1, <1>2, StoredEffect
<1>3. ASSUME NEW n \in Node, NEW ids, copies' = Without(n, ids)
      PROVE  \A k \in Node : copies'[k][u] \in {Absent, copies[k][u]}
  BY <1>1, <1>3, WithoutEffect
<1>4. ASSUME NEW r \in Inserts,
             InsertStep(r) \/ \E n \in Node : InsertHere(r, n) \/ InsertBegin(r, n)
      PROVE  \A k \in Node : copies'[k][u] = copies[k][u]
  <2>1. r # u[1]
    BY <1>4 DEF Settled, InsertStep, InsertHere, InsertBegin, InsertResolve, InsertStore,
                InsertNext, InsertDone, InsertCallFails
  <2>2. \A n \in Node : <<r, n>> \in Uuid /\ <<r, n>> # u
    BY <2>1 DEF Uuid
  <2>3. ASSUME NEW n \in Node, InsertHere(r, n)
        PROVE  \A k \in Node : copies'[k][u] = copies[k][u]
    BY <1>2, <2>2, <2>3 DEF InsertHere, LocalInsert
  <2>4. CASE InsertStore(r)
    <3>1. ins[r].id = <<r, ins[r].node>> /\ ins[r].node \in Node
      BY <1>1, <2>4 DEF InsertStore, InsertFine, CoreType, InsertState
    <3> QED
      BY <1>2, <2>2, <2>4, <3>1 DEF InsertStore, LocalInsert
  <2>5. CASE \/ \E n \in Node : InsertBegin(r, n)
             \/ InsertResolve(r) \/ InsertNext(r) \/ InsertDone(r)
             \/ \E retryable \in BOOLEAN : \E lingers \in {FALSE, retryable} :
                  InsertCallFails(r, retryable, lingers)
    BY <2>5 DEF InsertBegin, InsertResolve, InsertNext, InsertDone, InsertCallFails
  <2> QED
    BY <1>4, <2>3, <2>4, <2>5 DEF InsertStep
<1>5. CASE Requests
  <2>1. ASSUME NEW q \in Queries, NEW n \in Node, QueryHere(q, n) \/ QueryBegin(q, n)
        PROVE  copies' = copies
    BY <2>1 DEF QueryHere, QueryBegin, queryRest
  <2>2. ASSUME NEW d \in Removals, NEW n \in Node, NEW ids, NEW sweep, NEW local,
               RemovalBegin(d, n, ids, sweep, local)
        PROVE  \A k \in Node : copies'[k][u] \in {Absent, copies[k][u]}
    BY <1>3, <2>2 DEF RemovalBegin
  <2> QED
    BY <1>4, <1>5, <2>1, <2>2, RequestCases
<1>6. CASE \E r \in Inserts : InsertStep(r)
  BY <1>4, <1>6
<1>7. CASE \E q \in Queries : QueryStep(q) \/ ServeStep(q)
  BY <1>7 DEF QueryStep, QueryResolve, QueryForward, QueryCallFails, ServeStep, ServeLook,
              ServeRing, ServeAddrs, ServeAsk, ServeFanOut, ServeJoin, ServePeer, queryRest
<1>8. CASE \E d \in Removals : RemovalStep(d)
  BY <1>8 DEF RemovalStep, RemovalPeers, RemovalDone, RemovalNext, RemovalCallFails
<1>9. ASSUME NEW m \in wire, InsertDeliver(m)
      PROVE  \A k \in Node : copies'[k][u] = copies[k][u]
  <2>1. m.req \in Inserts /\ m.to \in Node /\ m.req # u[1] /\ ins[m.req].id # NoId
    BY <1>9 DEF InsertDeliver, CoreType, Call, Settled, InsertInv, IdsKnown
  <2>2. ins[m.req].id = <<m.req, ins[m.req].node>> /\ ins[m.req].node \in Node
    BY <1>1, <2>1 DEF InsertFine, CoreType, InsertState
  <2>3. ins[m.req].id \in Uuid /\ ins[m.req].id # u
    BY <2>1, <2>2 DEF Uuid
  <2> QED
    BY <1>2, <1>9, <2>1, <2>3 DEF InsertDeliver, LocalInsert
<1>10. ASSUME NEW m \in wire, RemovalDeliver(m)
       PROVE  \A k \in Node : copies'[k][u] \in {Absent, copies[k][u]}
  BY <1>3, <1>10 DEF RemovalDeliver, CoreType, Call
<1>11. ASSUME NEW x \in repairs, RepairFetch(x) \/ RepairStore(x) \/ RepairFails(x)
       PROVE  \A k \in Node : copies'[k][u] = copies[k][u]
  <2>1. x.node \in Node /\ x.id \in Uuid /\ x.id # u
    BY DEF CoreType, RepairTask, Settled
  <2> QED
    BY <1>2, <1>11, <2>1 DEF RepairFetch, RepairStore, RepairFails
<1>12. CASE \/ \E n, p \in Node : ViewChange(n, p)
            \/ \E n \in Node : Crash(n)
  BY <1>12 DEF ViewChange, Crash
<1>13. ASSUME NEW n \in Node, NEW v \in Uuid, Drop(n, v)
       PROVE  \A k \in Node : copies'[k][u] \in {Absent, copies[k][u]}
  BY <1>3, <1>13 DEF Drop
<1> QED
  BY <1>5, <1>6, <1>7, <1>8, <1>9, <1>10, <1>11, <1>12, <1>13 DEF Step

LEMMA RequestFrame ==
    ASSUME CoreType, Requests
    PROVE  UNCHANGED <<peer, wire, repairs, faults>>
<1>1. ASSUME NEW r \in Inserts, NEW n \in Node, InsertHere(r, n) \/ InsertBegin(r, n)
      PROVE  UNCHANGED <<peer, wire, repairs, faults>>
  BY <1>1 DEF InsertHere, InsertBegin, insertRest
<1>2. ASSUME NEW q \in Queries, NEW n \in Node, QueryHere(q, n) \/ QueryBegin(q, n)
      PROVE  UNCHANGED <<peer, wire, repairs, faults>>
  BY <1>2 DEF QueryHere, QueryBegin, queryRest
<1>3. ASSUME NEW d \in Removals, NEW n \in Node, NEW ids, NEW sweep, NEW local,
             RemovalBegin(d, n, ids, sweep, local)
      PROVE  UNCHANGED <<peer, wire, repairs, faults>>
  BY <1>3 DEF RemovalBegin, removalRest
<1> QED
  BY <1>1, <1>2, <1>3, RequestCases

\* The calls, answers and repairs that a step adds.
LEMMA NewCalls ==
    ASSUME CoreType, Step
    PROVE  \A m \in wire' : \/ m \in wire \/ m.req \in Removals
                            \/ m.req \in Inserts /\ ins[m.req].pc \in {"next", "call"}
<1>1. ASSUME NEW r \in Inserts, InsertStep(r)
      PROVE  \A m \in wire' : m \in wire \/ (m.req = r /\ ins[r].pc \in {"next", "call"})
  <2>1. CASE InsertNext(r)
    BY <2>1 DEF InsertNext, ForwardInsert
  <2>2. ASSUME NEW retryable \in BOOLEAN, NEW lingers \in {FALSE, retryable},
               InsertCallFails(r, retryable, lingers)
        PROVE  \A m \in wire' : m \in wire \/ (m.req = r /\ ins[r].pc \in {"next", "call"})
    <3> DEFINE c == Awaited(r)
    <3>1. c.req = r /\ [c EXCEPT !.try = @ + 1].req = r
      BY DEF Awaited, ForwardInsert
    <3>2. \A m \in wire' : m \in wire \/ m = [c EXCEPT !.try = @ + 1]
      BY <2>2 DEF InsertCallFails
    <3> QED
      BY <2>2, <3>1, <3>2 DEF InsertCallFails
  <2>3. CASE InsertResolve(r) \/ InsertStore(r) \/ InsertDone(r)
    BY <2>3 DEF InsertResolve, InsertStore, InsertDone
  <2> QED
    BY <1>1, <2>1, <2>2, <2>3 DEF InsertStep
<1>2. CASE Requests
  BY <1>2, RequestFrame
<1>3. CASE \E q \in Queries : QueryStep(q) \/ ServeStep(q)
  BY <1>3 DEF QueryStep, QueryResolve, QueryForward, QueryCallFails, ServeStep, ServeLook,
              ServeRing, ServeAddrs, ServeAsk, ServeFanOut, ServeJoin, ServePeer, queryRest
<1>4. ASSUME NEW d \in Removals, RemovalStep(d)
      PROVE  \A m \in wire' : m \in wire \/ m.req = d
  <2>1. \A p : ForwardRemoval(d, p).req = d
    BY DEF ForwardRemoval
  <2> QED
    BY <1>4, <2>1 DEF RemovalStep, RemovalPeers, RemovalDone, RemovalNext, RemovalCallFails
<1>5. CASE \E m \in wire : InsertDeliver(m) \/ RemovalDeliver(m)
  BY <1>5 DEF InsertDeliver, RemovalDeliver
<1>6. CASE \E x \in repairs : RepairFetch(x) \/ RepairStore(x) \/ RepairFails(x)
  BY <1>6 DEF RepairFetch, RepairStore, RepairFails, repairRest
<1>7. CASE \/ \E n, p \in Node : ViewChange(n, p)
           \/ \E n \in Node, u \in Uuid : Drop(n, u)
           \/ \E n \in Node : Crash(n)
  BY <1>7 DEF ViewChange, Drop, Crash
<1> QED
  BY <1>1, <1>2, <1>3, <1>4, <1>5, <1>6, <1>7 DEF Step

LEMMA NewAnswers ==
    ASSUME CoreType, Step
    PROVE  /\ \A q \in Queries, p \in Node :
                 \/ serve'[q].got[p] \in {NoId, serve[q].got[p]}
                 \/ serve[q].pc = "wait" /\ copies[p][serve'[q].got[p]] # Absent
                      /\ serve'[q].got[p] \in Uuid
           /\ \A q \in Queries : serve'[q].pc = "off" => serve'[q] \in {Off, serve[q]}
<1>0. serve \in [Queries -> ServeState]
  BY DEF CoreType
<1> DEFINE Fine ==
             /\ \A q \in Queries, p \in Node :
                   \/ serve'[q].got[p] \in {NoId, serve[q].got[p]}
                   \/ serve[q].pc = "wait" /\ copies[p][serve'[q].got[p]] # Absent
                        /\ serve'[q].got[p] \in Uuid
             /\ \A q \in Queries : serve'[q].pc = "off" => serve'[q] \in {Off, serve[q]}
<1> SUFFICES Fine
  OBVIOUS
<1>1. ASSUME UNCHANGED serve PROVE Fine
  BY <1>1
<1>2. ASSUME NEW q \in Queries,
             \/ serve' = [serve EXCEPT ![q] = Off]
             \/ \E n, repair : serve' = [serve EXCEPT ![q] = Serving(n, repair)]
      PROVE  Fine
  <2>1. CASE serve' = [serve EXCEPT ![q] = Off]
    BY <1>0, <2>1, OffGotNothing
  <2>2. ASSUME NEW n, NEW repair, serve' = [serve EXCEPT ![q] = Serving(n, repair)]
        PROVE  Fine
    <3>1. \A p \in Node : Serving(n, repair).got[p] = NoId
      BY ServingGotNothing
    <3>2. Serving(n, repair).pc = "look"
      BY DEF Serving, Off
    <3> QED
      BY <1>0, <2>2, <3>1, <3>2
  <2> QED
    BY <1>2, <2>1, <2>2
<1>3. ASSUME NEW q \in Queries, QueryStep(q) \/ \E n \in Node : QueryHere(q, n) \/ QueryBegin(q, n)
      PROVE  Fine
  <2>1. \/ serve' = serve
        \/ serve' = [serve EXCEPT ![q] = Off]
        \/ \E n, repair : serve' = [serve EXCEPT ![q] = Serving(n, repair)]
    BY <1>3 DEF QueryStep, QueryHere, QueryBegin, QueryResolve, QueryForward,
                QueryCallFails, ForwardQuery
  <2> QED
    BY <1>1, <1>2, <2>1
<1>4. ASSUME NEW q \in Queries, ServeStep(q) PROVE Fine
  <2>0. serve[q] \in ServeState
    BY <1>0
  <2>1. ASSUME NEW a, ServeEnds(q, a) PROVE Fine
    BY <1>2, <2>1 DEF ServeEnds
  <2>2. ASSUME \A p \in Node : serve'[q].got[p] = serve[q].got[p],
               \A k \in Queries \ {q} : serve'[k] = serve[k],
               serve'[q].pc # "off"
        PROVE  Fine
    BY <2>2
  <2> HIDE DEF Fine
  <2>3. CASE ServeLook(q)
    <3>1. CASE serve' = [serve EXCEPT ![q].pc = "ring"]
      BY <1>0, <2>0, <2>2, <3>1 DEF ServeState
    <3> QED
      BY <2>1, <2>3, <3>1 DEF ServeLook
  <2>4. CASE ServeRing(q)
    BY <1>0, <2>0, <2>2, <2>4 DEF ServeRing, ServeState
  <2>5. CASE ServeAddrs(q)
    BY <1>0, <2>0, <2>2, <2>5 DEF ServeAddrs, ServeState
  <2>6. CASE ServeAsk(q)
    BY <1>0, <2>0, <2>2, <2>6 DEF ServeAsk, ServeState
  <2>7. CASE ServeFanOut(q)
    <3>1. CASE serve' = [serve EXCEPT ![q].pc = "wait", ![q].waiting = serve[q].asked]
      BY <1>0, <2>0, <2>2, <3>1 DEF ServeState
    <3> QED
      BY <2>1, <2>7, <3>1 DEF ServeFanOut
  <2>8. CASE ServeJoin(q)
    BY <2>1, <2>8 DEF ServeJoin
  <2>9. ASSUME NEW p \in Node, ServePeer(q, p) PROVE Fine
    <3>1. CASE serve' = [serve EXCEPT ![q].waiting = @ \ {p}, ![q].failed = TRUE]
      BY <1>0, <2>0, <2>2, <2>9, <3>1 DEF ServePeer, ServeState
    <3>2. ASSUME NEW a \in IF IdsOn(p) = {} THEN {NoId} ELSE IdsOn(p),
                 serve' = [serve EXCEPT ![q].waiting = @ \ {p}, ![q].got[p] = a]
          PROVE  Fine
      <4>1. a = NoId \/ (a \in Uuid /\ copies[p][a] # Absent)
        BY <3>2 DEF IdsOn
      <4>2. \A k \in Queries, n \in Node :
              serve'[k].got[n] = IF k = q /\ n = p THEN a ELSE serve[k].got[n]
        BY <1>0, <2>0, <3>2 DEF ServeState
      <4>3. serve[q].pc = "wait" /\ serve'[q].pc = "wait"
              /\ \A k \in Queries \ {q} : serve'[k] = serve[k]
        BY <1>0, <2>0, <2>9, <3>2 DEF ServePeer, ServeState
      <4> QED
        BY <4>1, <4>2, <4>3 DEF Fine
    <3> QED
      BY <2>9, <3>1, <3>2 DEF ServePeer
  <2> QED
    BY <1>4, <2>3, <2>4, <2>5, <2>6, <2>7, <2>8, <2>9 DEF ServeStep
<1>5. CASE Requests
  <2>1. ASSUME NEW r \in Inserts, NEW n \in Node, InsertHere(r, n) \/ InsertBegin(r, n)
        PROVE  UNCHANGED serve
    BY <2>1 DEF InsertHere, InsertBegin, insertRest
  <2>2. ASSUME NEW d \in Removals, NEW n \in Node, NEW ids, NEW sweep, NEW local,
               RemovalBegin(d, n, ids, sweep, local)
        PROVE  UNCHANGED serve
    BY <2>2 DEF RemovalBegin, removalRest
  <2> HIDE DEF Fine
  <2> QED
    BY <1>1, <1>3, <1>5, <2>1, <2>2, RequestCases
<1>6. CASE \E r \in Inserts : InsertStep(r)
  BY <1>1, <1>6 DEF InsertStep, InsertResolve, InsertStore, InsertNext, InsertDone,
                    InsertCallFails, insertRest
<1>7. CASE \E d \in Removals : RemovalStep(d)
  BY <1>1, <1>7 DEF RemovalStep, RemovalPeers, RemovalDone, RemovalNext, RemovalCallFails,
                    removalRest
<1>8. CASE \E m \in wire : InsertDeliver(m) \/ RemovalDeliver(m)
  BY <1>1, <1>8 DEF InsertDeliver, RemovalDeliver, insertRest, removalRest
<1>9. CASE \E x \in repairs : RepairFetch(x) \/ RepairStore(x) \/ RepairFails(x)
  BY <1>1, <1>9 DEF RepairFetch, RepairStore, RepairFails, repairRest
<1>10. CASE \/ \E n, p \in Node : ViewChange(n, p)
            \/ \E n \in Node, u \in Uuid : Drop(n, u)
  BY <1>1, <1>10 DEF ViewChange, Drop
<1>11. CASE \E n \in Node : Crash(n)
  BY <1>0, <1>11, OffGotNothing DEF Crash
<1> HIDE DEF Fine
<1> QED
  BY <1>3, <1>4, <1>5, <1>6, <1>7, <1>8, <1>9, <1>10, <1>11 DEF Step

LEMMA NewRepairs ==
    ASSUME CoreType, Step
    PROVE  \A x \in repairs' :
             \/ \E y \in repairs : x.id = y.id
             \/ \E q \in Queries, p \in Node : /\ serve[q].pc = "wait"
                                               /\ x.id = serve[q].got[p]
<1>1. ASSUME repairs' \subseteq repairs
      PROVE  \A x \in repairs' : \E y \in repairs : x.id = y.id
  BY <1>1
<1>2. CASE Requests
  BY <1>1, <1>2, RequestFrame
<1>3. CASE \E r \in Inserts : InsertStep(r)
  BY <1>1, <1>3 DEF InsertStep, InsertResolve, InsertStore, InsertNext, InsertDone,
                    InsertCallFails, insertRest
<1>4. CASE \E q \in Queries : QueryStep(q)
  BY <1>1, <1>4 DEF QueryStep, QueryResolve, QueryForward, QueryCallFails
<1>5. ASSUME NEW q \in Queries, ServeJoin(q)
      PROVE  \A x \in repairs' :
                x \in repairs \/ (\E p \in Node : serve[q].pc = "wait" /\ x.id = serve[q].got[p])
  <2> DEFINE hits == {p \in serve[q].asked : serve[q].got[p] # NoId}
             f == First(hits)
             y == [node |-> serve[q].node, from |-> f, id |-> serve[q].got[f],
                   stamp |-> Absent]
  <2>1. CASE hits = {}
    BY <1>5, <2>1 DEF ServeJoin
  <2>2. CASE hits # {}
    <3>1. hits \in SUBSET Node
      BY DEF CoreType, ServeState
    <3>2. f \in Node
      BY <2>2, <3>1, FirstIsFirst
    <3>3. repairs' = repairs \cup {y} /\ serve[q].pc = "wait"
      BY <1>5, <2>2 DEF ServeJoin
    <3> HIDE DEF f
    <3> QED
      BY <3>2, <3>3
  <2> QED
    BY <2>1, <2>2
<1>6. CASE \E q \in Queries : \/ ServeLook(q) \/ ServeRing(q) \/ ServeAddrs(q)
                              \/ ServeAsk(q) \/ ServeFanOut(q)
                              \/ \E p \in Node : ServePeer(q, p)
  BY <1>1, <1>6 DEF ServeLook, ServeRing, ServeAddrs, ServeAsk, ServeFanOut, ServePeer
<1>7. CASE \E d \in Removals : RemovalStep(d)
  BY <1>1, <1>7 DEF RemovalStep, RemovalPeers, RemovalDone, RemovalNext, RemovalCallFails,
                    removalRest
<1>8. CASE \E m \in wire : InsertDeliver(m) \/ RemovalDeliver(m)
  BY <1>1, <1>8 DEF InsertDeliver, RemovalDeliver, insertRest, removalRest
<1>9. ASSUME NEW x \in repairs, RepairFetch(x) \/ RepairStore(x) \/ RepairFails(x)
      PROVE  \A z \in repairs' : \E y \in repairs : z.id = y.id
  <2>1. [x EXCEPT !.stamp = GetEntry(x.from, x.id)].id = x.id
    BY DEF CoreType, RepairTask
  <2> QED
    BY <1>1, <1>9, <2>1 DEF RepairFetch, RepairStore, RepairFails
<1>10. CASE \/ \E n, p \in Node : ViewChange(n, p)
            \/ \E n \in Node, u \in Uuid : Drop(n, u)
            \/ \E n \in Node : Crash(n)
  BY <1>1, <1>10 DEF ViewChange, Drop, Crash
<1> QED
  BY <1>2, <1>3, <1>4, <1>5, <1>6, <1>7, <1>8, <1>9, <1>10 DEF Step, ServeStep

\* What is gone stays gone, whatever happens next.
LEMMA GoneStays ==
    ASSUME CoreType, InsertInv, Step, NEW u \in Uuid, Gone(u)
    PROVE  Gone(u)'
<1>1. Settled(u) /\ u[1] \in Inserts /\ u # NoId
  BY UuidIsAnId DEF Gone
<1>2. ins'[u[1]] = ins[u[1]]
  BY <1>1, DoneInsertStays DEF Settled
<1>3. \A m \in wire' : m.req # u[1]
  BY <1>1, NewCalls, ReplicationAssumption DEF Settled
<1>4. \A q \in Queries, p \in Node : serve[q].got[p] # u /\ copies[p][u] = Absent
  BY DEF Gone
<1>5. \A x \in repairs' : x.id # u
  BY <1>1, <1>4, NewRepairs DEF Settled
<1>6. \A n \in Node : copies'[n][u] = Absent
  BY <1>1, NoNewCopies DEF Gone
<1>7. \A q \in Queries, p \in Node : serve'[q].got[p] # u
  BY <1>1, <1>4, NewAnswers
<1> QED
  BY <1>1, <1>2, <1>3, <1>5, <1>6, <1>7 DEF Gone, Settled

Removing == {"peers", "next", "call"}

\* What an undisturbed removal has done so far: the entry is gone from its
\* node, and from every peer that is not on its list any more.
Undisturbed(d) ==
    LET s == rem[d] IN
    /\ peer = AllUp /\ OnlyRemoval(d) /\ ~s.missed
    /\ \A u \in s.ids : Known(u) /\ copies[s.node][u] = Absent
    /\ s.pc \in {"next", "call"} =>
         \A n \in Node \ s.todo, u \in s.ids : copies[n][u] = Absent

RemovalInv ==
    /\ \A q \in Queries : serve[q].pc = "off" => serve[q] = Off
    /\ \A d \in Removals :
         /\ rem[d].pc # "done" => rem[d].answer = "none"
         /\ calm[d] /\ rem[d].pc \in Removing => Undisturbed(d)
         /\ calm[d] /\ rem[d].answer = "ok" => \A u \in rem[d].ids : Gone(u)

LEMMA RemovalInvInit == Init => RemovalInv
<1> SUFFICES ASSUME Init PROVE RemovalInv
  OBVIOUS
<1>1. \A d \in Removals : rem[d].pc = "new" /\ rem[d].answer = "none"
  BY DEF Init
<1>2. \A q \in Queries : serve[q] = Off
  BY DEF Init
<1> QED
  BY <1>1, <1>2 DEF RemovalInv, Removing

\* The steps that change the coordinator of removal d.
LEMMA RemovalCases ==
    ASSUME CoreType, Step, NEW d \in Removals
    PROVE  \/ rem'[d] = rem[d]
           \/ \E n \in Node, ids \in SUBSET Issued, sweep \in BOOLEAN, local \in BOOLEAN :
                RemovalBegin(d, n, ids, sweep, local)
           \/ RemovalStep(d)
           \/ \E m \in wire : m.req = d /\ RemovalDeliver(m)
           \/ /\ rem[d].pc \in Removing
              /\ rem'[d].pc = "done" /\ rem'[d].answer = "lost"
<1>0. rem \in [Removals -> RemovalState]
  BY DEF CoreType
<1>1. CASE Requests
  <2>1. ASSUME NEW r \in Inserts, NEW n \in Node, InsertHere(r, n) \/ InsertBegin(r, n)
        PROVE  rem' = rem
    BY <2>1 DEF InsertHere, InsertBegin, insertRest
  <2>2. ASSUME NEW q \in Queries, NEW n \in Node, QueryHere(q, n) \/ QueryBegin(q, n)
        PROVE  rem' = rem
    BY <2>2 DEF QueryHere, QueryBegin, queryRest
  <2>3. ASSUME NEW e \in Removals, NEW n \in Node, NEW ids, NEW sweep, NEW local,
               RemovalBegin(e, n, ids, sweep, local), e # d
        PROVE  rem'[d] = rem[d]
    BY <1>0, <2>3 DEF RemovalBegin
  <2> QED
    BY <1>1, <2>1, <2>2, <2>3, RequestCases
<1>2. CASE \E r \in Inserts : InsertStep(r)
  BY <1>2 DEF InsertStep, InsertResolve, InsertStore, InsertNext, InsertDone,
              InsertCallFails, insertRest
<1>3. CASE \E q \in Queries : QueryStep(q) \/ ServeStep(q)
  BY <1>3 DEF QueryStep, QueryResolve, QueryForward, QueryCallFails, ServeStep, ServeLook,
              ServeRing, ServeAddrs, ServeAsk, ServeFanOut, ServeJoin, ServePeer, queryRest
<1>4. ASSUME NEW e \in Removals, RemovalStep(e), e # d
      PROVE  rem'[d] = rem[d]
  BY <1>0, <1>4 DEF RemovalStep, RemovalPeers, RemovalDone, RemovalNext, RemovalCallFails
<1>5. ASSUME NEW m \in wire, RemovalDeliver(m), m.req # d PROVE rem'[d] = rem[d]
  BY <1>0, <1>5 DEF RemovalDeliver
<1>6. CASE \E m \in wire : InsertDeliver(m)
  BY <1>6 DEF InsertDeliver, insertRest
<1>7. CASE \E x \in repairs : RepairFetch(x) \/ RepairStore(x) \/ RepairFails(x)
  BY <1>7 DEF RepairFetch, RepairStore, RepairFails, repairRest
<1>8. CASE \/ \E n, p \in Node : ViewChange(n, p)
           \/ \E n \in Node, u \in Uuid : Drop(n, u)
  BY <1>8 DEF ViewChange, Drop
<1>9. ASSUME NEW n \in Node, Crash(n)
      PROVE  \/ rem'[d] = rem[d]
             \/ /\ rem[d].pc \in Removing
                /\ rem'[d].pc = "done" /\ rem'[d].answer = "lost"
  <2>1. rem'[d] = IF rem[d].node = n /\ rem[d].pc \notin {"new", "done"}
                  THEN [rem[d] EXCEPT !.pc = "done", !.answer = "lost"] ELSE rem[d]
    BY <1>0, <1>9 DEF Crash
  <2>2. rem[d] \in RemovalState
    BY <1>0
  <2> QED
    BY <2>1, <2>2 DEF RemovalState, Removing
<1> QED
  BY <1>1, <1>2, <1>3, <1>4, <1>5, <1>6, <1>7, <1>8, <1>9 DEF Step

LEMMA DoneRemovalStays ==
    ASSUME CoreType, Step, NEW d \in Removals, rem[d].pc = "done"
    PROVE  rem'[d] = rem[d]
<1>1. ASSUME NEW m \in wire, m.req = d, RemovalDeliver(m) PROVE rem'[d] = rem[d]
  BY <1>1 DEF RemovalDeliver
<1>2. ~RemovalStep(d)
  BY DEF RemovalStep, RemovalPeers, RemovalDone, RemovalNext, RemovalCallFails
<1>3. \A n, ids, sweep, local : ~RemovalBegin(d, n, ids, sweep, local)
  BY DEF RemovalBegin
<1> QED
  BY <1>1, <1>2, <1>3, RemovalCases DEF Removing

\* While only the removal is under way the inserts of its ids are settled.
LEMMA UndisturbedIsSettled ==
    ASSUME CoreType, InsertInv, NEW d \in Removals, Undisturbed(d), NEW u \in rem[d].ids
    PROVE  u \in Uuid /\ Settled(u)
<1>1. u \in Uuid /\ ins[u[1]].id = u /\ u # NoId /\ u[1] \in Inserts
  BY UuidIsAnId DEF CoreType, RemovalState, Undisturbed, Known
<1>2. ins[u[1]].pc = "done"
  BY <1>1 DEF InsertInv, InsertIds, Undisturbed, OnlyRemoval
<1>3. \A m \in wire : m.req # u[1]
  BY <1>1, ReplicationAssumption DEF Undisturbed, OnlyRemoval
<1> QED
  BY <1>1, <1>2, <1>3 DEF Settled, Undisturbed, OnlyRemoval

\* One step of an undisturbed removal: what was absent is absent.
LEMMA UndisturbedKeeps ==
    ASSUME CoreType, InsertInv, Step, NEW d \in Removals, Undisturbed(d),
           NEW u \in rem[d].ids
    PROVE  /\ u \in Uuid /\ Known(u)'
           /\ \A n \in Node : copies[n][u] = Absent => copies'[n][u] = Absent
<1>1. u \in Uuid /\ Settled(u) /\ u[1] \in Inserts
  BY UndisturbedIsSettled, UuidIsAnId
<1>2. ins'[u[1]] = ins[u[1]]
  BY <1>1, DoneInsertStays DEF Settled
<1>3. \A n \in Node : copies'[n][u] \in {Absent, copies[n][u]}
  BY <1>1, NoNewCopies
<1> QED
  BY <1>1, <1>2, <1>3 DEF Known, Settled

LEMMA CalmRemoval ==
    ASSUME CoreType, Step, Observe, NEW d \in Removals, calm'[d], rem'[d].pc # "new"
    PROVE  /\ calm[d]
           /\ \/ rem[d].pc = "done"
              \/ peer' = AllUp /\ OnlyRemoval(d)' /\ ~rem'[d].missed
<1>1. d \in Queries \cup Removals /\ d \notin Queries
  BY ReplicationAssumption
<1>2. calm'[d] = (\/ rem'[d].pc = "new"
                  \/ calm[d] /\ (rem[d].pc = "done"
                                 \/ (peer = AllUp /\ OnlyRemoval(d) /\ ~rem[d].missed)'))
  BY <1>1 DEF Observe
<1>3. AllUp' = AllUp
  BY DEF AllUp
<1> QED
  BY <1>2, <1>3

LEMMA UndisturbedStep ==
    ASSUME CoreType, CoreType', InsertInv, RemovalInv, Step, Observe,
           NEW d \in Removals, calm'[d], rem'[d].pc \in Removing
    PROVE  Undisturbed(d)'
<1>1. rem[d].pc # "done"
  BY DoneRemovalStays DEF Removing
<1>2. calm[d] /\ peer' = AllUp /\ OnlyRemoval(d)' /\ ~rem'[d].missed
  BY <1>1, CalmRemoval DEF Removing
<1>3. rem \in [Removals -> RemovalState] /\ rem[d] \in RemovalState
  BY DEF CoreType
<1>4. ASSUME \A u \in rem'[d].ids : Known(u)',
             \A u \in rem'[d].ids : copies'[rem'[d].node][u] = Absent,
             rem'[d].pc \in {"next", "call"} =>
               \A n \in Node \ rem'[d].todo, u \in rem'[d].ids : copies'[n][u] = Absent
      PROVE  Undisturbed(d)'
  <2>1. AllUp' = AllUp
    BY DEF AllUp
  <2> QED
    BY <1>2, <1>4, <2>1 DEF Undisturbed
<1>5. CASE rem[d].pc \notin Removing
  <2>1. PICK n \in Node, ids \in SUBSET Issued, sweep \in BOOLEAN, local \in BOOLEAN :
          RemovalBegin(d, n, ids, sweep, local)
    <3>1. ASSUME NEW m \in wire, m.req = d, RemovalDeliver(m) PROVE rem'[d] = rem[d]
      BY <1>5, <3>1 DEF RemovalDeliver, Removing
    <3>2. ~RemovalStep(d)
      BY <1>5 DEF RemovalStep, RemovalPeers, RemovalDone, RemovalNext, RemovalCallFails,
                  Removing
    <3> QED
      BY <1>5, <3>1, <3>2, RemovalCases
  <2> DEFINE s == [rem[d] EXCEPT !.node = n, !.ids = ids, !.sweep = sweep, !.target = n]
             found == sweep \/ \A u \in ids : copies[n][u] # Absent
             t == IF found /\ ~local THEN [s EXCEPT !.pc = "peers"]
                  ELSE Finished([s EXCEPT !.missed = local],
                                IF found THEN "ok" ELSE "not_found")
  <2>2. /\ s.node = n /\ s.ids = ids /\ s.sweep = sweep /\ s \in RemovalState
    BY <1>3, IssuedType DEF RemovalState
  <2>3. rem' = [rem EXCEPT ![d] = t] /\ copies' = Without(n, Matches(s, n)) /\ ins' = ins
    BY <2>1 DEF RemovalBegin, removalRest
  <2> HIDE DEF s, found
  <2>4. rem'[d] = t
    BY <1>3, <2>3
  <2>5. rem'[d] = [s EXCEPT !.pc = "peers"]
    BY <2>4 DEF Finished, Removing, RemovalState
  <2>6. rem'[d].node = n /\ rem'[d].ids = ids /\ rem'[d].pc = "peers"
    BY <2>2, <2>5 DEF RemovalState
  <2>7. \A u \in ids : Known(u)' /\ u \in Uuid
    <3> SUFFICES ASSUME NEW u \in ids PROVE Known(u)' /\ u \in Uuid
      OBVIOUS
    <3>1. PICK r \in Inserts : u = ins[r].id
      BY DEF Issued
    <3>2. u = <<r, ins[r].node>> /\ u \in Uuid
      BY <3>1, IssuedType DEF Issued, InsertInv, InsertIds
    <3>3. u[1] = r
      BY <3>2
    <3>4. ins'[u[1]].id = u
      BY <2>3, <3>1, <3>3
    <3> QED
      BY <3>2, <3>4 DEF Known
  <2>8. \A u \in ids : copies'[n][u] = Absent
    <3> SUFFICES ASSUME NEW u \in ids PROVE copies'[n][u] = Absent
      OBVIOUS
    <3>1. copies'[n][u] = IF u \in Matches(s, n) THEN Absent ELSE copies[n][u]
      BY <2>3, <2>7, WithoutEffect DEF CoreType
    <3> QED
      BY <2>2, <2>7, <3>1 DEF Matches, IdsOn
  <2> QED
    BY <1>4, <2>6, <2>7, <2>8
<1>6. CASE rem[d].pc \in Removing
  <2>1. Undisturbed(d)
    BY <1>2, <1>6 DEF RemovalInv
  <2>2. \A u \in rem[d].ids :
          /\ u \in Uuid /\ Known(u)'
          /\ \A n \in Node : copies[n][u] = Absent => copies'[n][u] = Absent
    BY <2>1, UndisturbedKeeps
  <2>3. rem[d].node \in Node /\ \A u \in rem[d].ids : copies[rem[d].node][u] = Absent
    BY <1>3, <2>1 DEF Undisturbed, RemovalState
  <2>4. ASSUME rem'[d].ids = rem[d].ids, rem'[d].node = rem[d].node,
               rem'[d].pc \in {"next", "call"} =>
                 \A n \in Node \ rem'[d].todo, u \in rem[d].ids : copies'[n][u] = Absent
        PROVE  Undisturbed(d)'
    BY <1>4, <2>2, <2>3, <2>4
  <2>5. rem[d].pc \in {"next", "call"} =>
          \A n \in Node \ rem[d].todo, u \in rem[d].ids : copies'[n][u] = Absent
    BY <2>1, <2>2 DEF Undisturbed
  <2>6. CASE rem'[d] = rem[d]
    BY <2>4, <2>5, <2>6
  <2>7. CASE RemovalPeers(d)
    <3>1. rem'[d] = [rem[d] EXCEPT !.pc = "next",
                       !.todo = {p \in Node \ {rem[d].node} : HasAddr(rem[d].node, p)}]
      BY <1>3, <2>7 DEF RemovalPeers
    <3>2. /\ rem'[d].ids = rem[d].ids /\ rem'[d].node = rem[d].node
          /\ rem'[d].todo = {p \in Node \ {rem[d].node} : HasAddr(rem[d].node, p)}
      BY <1>3, <3>1 DEF RemovalState
    <3>3. \A p \in Node : HasAddr(rem[d].node, p)
      BY <2>1, <2>3 DEF Undisturbed, HasAddr, AllUp
    <3>4. Node \ rem'[d].todo \subseteq {rem[d].node}
      BY <3>2, <3>3
    <3> QED
      BY <2>2, <2>3, <2>4, <3>2, <3>4
  <2>8. ASSUME NEW p \in rem[d].todo, RemovalNext(d, p) PROVE Undisturbed(d)'
    <3>1. p \in Node /\ ~IsDead(rem[d].node, p)
      BY <1>3, <2>1, <2>3 DEF RemovalState, Undisturbed, IsDead, AllUp
    <3>2. rem[d].pc = "next" /\ rem'[d] = [rem[d] EXCEPT !.pc = "call", !.target = p]
      BY <1>3, <2>8, <3>1 DEF RemovalNext
    <3>3. /\ rem'[d].ids = rem[d].ids /\ rem'[d].node = rem[d].node
          /\ rem'[d].todo = rem[d].todo
      BY <1>3, <3>2 DEF RemovalState
    <3> QED
      BY <2>4, <2>5, <3>2, <3>3
  <2>9. ASSUME NEW lingers \in BOOLEAN, RemovalCallFails(d, lingers) PROVE FALSE
    <3>1. rem'[d].missed
      BY <1>3, <2>9 DEF RemovalCallFails, RemovalState
    <3> QED
      BY <1>2, <3>1
  <2>10. ~RemovalDone(d)
    <3>1. Finished(rem[d], "ok").pc = "done"
      BY <1>3 DEF Finished, RemovalState
    <3> QED
      BY <1>3, <3>1 DEF RemovalDone, Removing
  <2>11. ASSUME NEW m \in wire, m.req = d, RemovalDeliver(m) PROVE Undisturbed(d)'
    <3>1. m.to \in Node /\ copies' = Without(m.to, Matches(rem[d], m.to))
      BY <2>11 DEF RemovalDeliver, CoreType, Call
    <3>2. \A u \in rem[d].ids : copies'[m.to][u] = Absent
      <4> SUFFICES ASSUME NEW u \in rem[d].ids PROVE copies'[m.to][u] = Absent
        OBVIOUS
      <4>1. copies'[m.to][u] =
              IF u \in Matches(rem[d], m.to) THEN Absent ELSE copies[m.to][u]
        BY <2>2, <3>1, WithoutEffect DEF CoreType
      <4> QED
        BY <2>2, <4>1 DEF Matches, IdsOn
    <3>3. CASE rem[d].pc = "call" /\ rem[d].target = m.to
      <4>1. rem'[d] = [rem[d] EXCEPT !.pc = "next", !.todo = @ \ {m.to}]
        BY <1>3, <2>11, <3>3 DEF RemovalDeliver
      <4>2. /\ rem'[d].ids = rem[d].ids /\ rem'[d].node = rem[d].node
            /\ rem'[d].todo = rem[d].todo \ {m.to}
        BY <1>3, <4>1 DEF RemovalState
      <4> QED
        BY <2>4, <2>5, <3>2, <3>3, <4>2
    <3>4. CASE ~(rem[d].pc = "call" /\ rem[d].target = m.to)
      BY <2>6, <2>11, <3>4 DEF RemovalDeliver
    <3> QED
      BY <3>3, <3>4
  <2>12. \A n, ids, sweep, local : ~RemovalBegin(d, n, ids, sweep, local)
    BY <1>6 DEF RemovalBegin, Removing
  <2>13. CASE RemovalStep(d)
    BY <2>7, <2>8, <2>9, <2>10, <2>13 DEF RemovalStep
  <2> QED
    BY <2>6, <2>11, <2>12, <2>13, RemovalCases DEF Removing
<1> QED
  BY <1>5, <1>6

\* Only the last step of a removal gives it an answer (delete_entry_handler's
\* loop over the peers).
LEMMA RemovalKeepsAnswer ==
    ASSUME CoreType, NEW d \in Removals, RemovalStep(d), ~RemovalDone(d)
    PROVE  rem'[d].answer = rem[d].answer
<1>1. rem[d] \in RemovalState /\ rem \in [Removals -> RemovalState]
  BY DEF CoreType
<1>2. CASE RemovalPeers(d)
  <2>1. PICK t : rem' = [rem EXCEPT ![d] = [rem[d] EXCEPT !.pc = "next", !.todo = t]]
    BY <1>1, <1>2 DEF RemovalPeers
  <2>2. rem'[d] = [rem[d] EXCEPT !.pc = "next", !.todo = t]
    BY <1>1, <2>1
  <2> QED
    BY <1>1, <2>2 DEF RemovalState
<1>3. ASSUME NEW p \in rem[d].todo, RemovalNext(d, p)
      PROVE  rem'[d].answer = rem[d].answer
  <2>1. \/ rem'[d] = [rem[d] EXCEPT !.todo = @ \ {p}, !.missed = TRUE]
        \/ rem'[d] = [rem[d] EXCEPT !.pc = "call", !.target = p]
    BY <1>1, <1>3 DEF RemovalNext
  <2> QED
    BY <1>1, <2>1 DEF RemovalState
<1>4. ASSUME NEW lingers \in BOOLEAN, RemovalCallFails(d, lingers)
      PROVE  rem'[d].answer = rem[d].answer
  <2>1. PICK t : rem'[d] = [rem[d] EXCEPT !.pc = "next", !.todo = t, !.missed = TRUE]
    BY <1>1, <1>4 DEF RemovalCallFails
  <2> QED
    BY <1>1, <2>1 DEF RemovalState
<1> QED
  BY <1>2, <1>3, <1>4 DEF RemovalStep

LEMMA FinalStep ==
    ASSUME CoreType, CoreType', InsertInv, RemovalInv, Step, Observe,
           NEW d \in Removals, calm'[d], rem'[d].answer = "ok", NEW u \in rem'[d].ids
    PROVE  Gone(u)'
<1>1. rem[d] \in RemovalState /\ rem \in [Removals -> RemovalState]
  BY DEF CoreType
<1>2. CASE rem[d].pc = "done"
  <2>1. rem'[d] = rem[d]
    BY <1>2, DoneRemovalStays
  <2>2. rem'[d].pc # "new" /\ calm[d]
    BY <1>2, <2>1, CalmRemoval
  <2>3. u \in Uuid /\ Gone(u)
    BY <1>1, <2>1, <2>2 DEF RemovalInv, RemovalState
  <2> QED
    BY <2>3, GoneStays
<1>3. CASE rem[d].pc # "done"
  <2>1. rem[d].answer = "none"
    BY <1>3 DEF RemovalInv
  <2>2. ASSUME NEW n \in Node, NEW ids \in SUBSET Issued, NEW sweep \in BOOLEAN,
               NEW local \in BOOLEAN, RemovalBegin(d, n, ids, sweep, local)
        PROVE  FALSE
    <3> DEFINE s == [rem[d] EXCEPT !.node = n, !.ids = ids, !.sweep = sweep, !.target = n]
               found == sweep \/ \A v \in ids : copies[n][v] # Absent
               w == [s EXCEPT !.missed = local]
               t == IF found /\ ~local THEN [s EXCEPT !.pc = "peers"]
                    ELSE Finished(w, IF found THEN "ok" ELSE "not_found")
    <3>1. s \in RemovalState /\ s.answer = "none"
      BY <1>1, <2>1, IssuedType DEF RemovalState
    <3>2. rem' = [rem EXCEPT ![d] = t]
      BY <2>2 DEF RemovalBegin
    <3> HIDE DEF s, found
    <3>3. rem'[d] = t
      BY <1>1, <3>2
    <3>4. [s EXCEPT !.pc = "peers"].answer = "none" /\ w.missed = local
      BY <3>1 DEF RemovalState
    <3>5. \A a : /\ Finished(w, a).answer = a /\ Finished(w, a).pc = "done"
                 /\ Finished(w, a).missed = local
      BY <3>1 DEF Finished, RemovalState
    <3>6. local /\ rem'[d].missed /\ rem'[d].pc = "done"
      BY <3>3, <3>4, <3>5
    <3> QED
      BY <1>3, <3>6, CalmRemoval
  <2>3. CASE RemovalDone(d)
    <3>1. rem[d].pc = "next" /\ rem[d].todo = {} /\ rem'[d] = Finished(rem[d], "ok")
      BY <1>1, <2>3 DEF RemovalDone
    <3>2. rem'[d].pc = "done" /\ rem'[d].ids \subseteq rem[d].ids
      BY <1>1, <3>1 DEF Finished, RemovalState
    <3>3. calm[d] /\ Undisturbed(d)
      BY <1>3, <3>1, <3>2, CalmRemoval DEF RemovalInv, Removing
    <3>4. u \in rem[d].ids /\ u \in Uuid /\ Settled(u) /\ u # NoId
      BY <3>2, <3>3, UndisturbedIsSettled, UuidIsAnId
    <3>5. \A n \in Node : copies[n][u] = Absent
      BY <3>1, <3>3, <3>4 DEF Undisturbed
    <3>6. \A q \in Queries, p \in Node : serve[q].got[p] # u
      BY <3>3, <3>4, OffGotNothing DEF RemovalInv, Undisturbed, OnlyRemoval
    <3>7. Gone(u)
      BY <3>4, <3>5, <3>6 DEF Gone
    <3> QED
      BY <3>4, <3>7, GoneStays
  <2>4. ~RemovalDone(d) /\ RemovalStep(d) => rem'[d].answer = rem[d].answer
    BY RemovalKeepsAnswer
  <2>5. ASSUME NEW m \in wire, m.req = d, RemovalDeliver(m)
        PROVE  rem'[d].answer = rem[d].answer
    BY <1>1, <2>5 DEF RemovalDeliver, RemovalState
  <2> QED
    BY <2>1, <2>2, <2>3, <2>4, <2>5, RemovalCases
<1> QED
  BY <1>2, <1>3

LEMMA RemovalInvStep ==
    ASSUME Typed, InsertInv, RemovalInv, [Next]_vars
    PROVE  RemovalInv'
<1>1. CoreType /\ CoreType'
  BY TypedStep DEF Typed
<1>2. CASE Next
  <2>1. Step /\ Observe
    BY <1>2 DEF Next
  <2>2. \A q \in Queries : serve'[q].pc = "off" => serve'[q] = Off
    BY <1>1, <2>1, NewAnswers DEF RemovalInv
  <2>3. ASSUME NEW d \in Removals, rem'[d].pc # "done" PROVE rem'[d].answer = "none"
    <3>1. rem[d] \in RemovalState /\ rem \in [Removals -> RemovalState]
      BY <1>1 DEF CoreType
    <3>2. rem[d].pc # "done" /\ rem[d].answer = "none"
      BY <1>1, <2>1, <2>3, DoneRemovalStays DEF RemovalInv
    <3>3. \A s, a : Finished(s, a) \in RemovalState => Finished(s, a).pc = "done"
      BY DEF Finished, RemovalState
    <3>4. ~RemovalDone(d)
      BY <2>3, <3>1, <3>3, FinishedType DEF RemovalDone
    <3>5. ASSUME NEW n \in Node, NEW ids \in SUBSET Issued, NEW sweep \in BOOLEAN,
                 NEW local \in BOOLEAN, RemovalBegin(d, n, ids, sweep, local)
          PROVE  rem'[d].answer = "none"
      <4> DEFINE s == [rem[d] EXCEPT !.node = n, !.ids = ids, !.sweep = sweep, !.target = n]
                 found == sweep \/ \A v \in ids : copies[n][v] # Absent
                 w == [s EXCEPT !.missed = local]
                 a == IF found THEN "ok" ELSE "not_found"
                 t == IF found /\ ~local THEN [s EXCEPT !.pc = "peers"] ELSE Finished(w, a)
      <4>1. s \in RemovalState /\ s.answer = "none" /\ w \in RemovalState
        BY <1>1, <3>1, <3>2, IssuedType DEF RemovalState
      <4>2. rem' = [rem EXCEPT ![d] = t]
        BY <3>5 DEF RemovalBegin
      <4>3. a \in {"ok", "not_found"}
        OBVIOUS
      <4> HIDE DEF s, found, w, a
      <4>4. rem'[d] = t
        BY <3>1, <4>2
      <4>5. Finished(w, a).pc = "done"
        BY <3>3, <4>1, <4>3, FinishedType
      <4>6. [s EXCEPT !.pc = "peers"].answer = "none"
        BY <4>1 DEF RemovalState
      <4> QED
        BY <2>3, <4>4, <4>5, <4>6
    <3>6. RemovalStep(d) => rem'[d].answer = rem[d].answer
      BY <1>1, <3>4, RemovalKeepsAnswer
    <3>7. ASSUME NEW m \in wire, m.req = d, RemovalDeliver(m)
          PROVE  rem'[d].answer = rem[d].answer
      BY <3>1, <3>7 DEF RemovalDeliver, RemovalState
    <3> QED
      BY <1>1, <2>1, <2>3, <3>2, <3>5, <3>6, <3>7, RemovalCases
  <2>4. ASSUME NEW d \in Removals, calm'[d], rem'[d].pc \in Removing
        PROVE  Undisturbed(d)'
    BY <1>1, <2>1, <2>4, UndisturbedStep
  <2>5. ASSUME NEW d \in Removals, calm'[d], rem'[d].answer = "ok", NEW u \in rem'[d].ids
        PROVE  Gone(u)'
    BY <1>1, <2>1, <2>5, FinalStep
  <2> QED
    BY <2>2, <2>3, <2>4, <2>5 DEF RemovalInv
<1>3. CASE UNCHANGED vars
  <2>1. \A d \in Removals : Undisturbed(d) => Undisturbed(d)'
    BY <1>3 DEF vars, Undisturbed, OnlyRemoval, Known, AllUp
  <2>2. \A u \in Uuid : Gone(u) => Gone(u)'
    BY <1>3 DEF vars, Gone, Settled
  <2>3. \A d \in Removals : rem[d].ids \in SUBSET Uuid
    BY <1>1 DEF CoreType, RemovalState
  <2> QED
    BY <1>3, <2>1, <2>2, <2>3 DEF vars, RemovalInv
<1> QED
  BY <1>2, <1>3

\* A delete or invalidation that reached every peer undisturbed is final: no
\* replica has the entry, nor hands it back later (delete_entry_handler,
\* invalidate_handler, perform_repair).
THEOREM UndisturbedRemovalIsFinalHolds == Spec => []UndisturbedRemovalIsFinal
<1>1. RemovalInv => UndisturbedRemovalIsFinal
  BY DEF RemovalInv, UndisturbedRemovalIsFinal, Gone
<1>2. Init => RemovalInv
  BY RemovalInvInit
<1>3. Typed /\ InsertInv /\ RemovalInv /\ [Next]_vars => RemovalInv'
  BY RemovalInvStep
<1> QED
  BY <1>1, <1>2, <1>3, InsertInvAlways, PTL DEF Spec

-----------------------------------------------------------------------------
(* Read repair.                                                            *)

Asking == {"ring", "addr", "call"}

\* The first RF nodes of the whole walk: the replicas while every node is up.
Walk == {p \in Node : Cardinality({q \in Node : Position(q) < Position(p)}) < RF}

LEMMA WalkOfAll ==
    ASSUME peer = AllUp, NEW n \in Node
    PROVE  /\ ReplicaIds(n) = Walk /\ First(Walk) \in Walk /\ Walk \in SUBSET Node
           /\ \A p \in Node : HasAddr(n, p) /\ ~IsDead(n, p)
<1>1. \A p \in Node : peer[n][p] = "up"
  BY DEF AllUp
<1>2. {p \in Node : InRing(n, p)} = Node
  BY <1>1 DEF InRing
<1>3. ReplicaIds(n) = Walk
  BY <1>2 DEF ReplicaIds, Walk
<1>4. \A p \in Node : HasAddr(n, p) /\ ~IsDead(n, p)
  BY <1>1 DEF HasAddr, IsDead
<1> QED
  BY <1>1, <1>3, <1>4, ReplicaIdsType

\* With a replication factor of 1 the owner is the only replica, which is why
\* process_query_locally does not look further then.
LEMMA OwnerAlone ==
    ASSUME RF = 1, First(Walk) \in Walk
    PROVE  Walk = {First(Walk)}
<1> SUFFICES ASSUME NEW p \in Walk PROVE p = First(Walk)
  OBVIOUS
<1> DEFINE before == {q \in Node : Position(q) < Position(p)}
<1>1. p \in Node /\ First(Walk) \in Node /\ Walk \in SUBSET Node
  BY DEF Walk
<1>2. Cardinality(before) < 1
  BY DEF Walk
<1>3. IsFiniteSet(before)
  <2>1. Pref \in Seq(Node)
    BY ReplicationAssumption
  <2>2. DOMAIN Pref = 1..Len(Pref) /\ Len(Pref) \in Nat
    BY <2>1
  <2>3. IsFiniteSet(1..Len(Pref))
    BY <2>2, FS_Interval
  <2>4. Pref \in Surjection(1..Len(Pref), Node)
    BY <2>1, <2>2, ReplicationAssumption DEF Surjection
  <2>5. IsFiniteSet(Node)
    BY <2>3, <2>4, FS_Surjection
  <2> QED
    BY <2>5, FS_Subset
<1>4. before = {}
  <2> HIDE DEF before
  <2> QED
    BY <1>2, <1>3, FS_CardinalityType, FS_EmptySet
<1>5. ~(Position(First(Walk)) < Position(p))
  BY <1>1, <1>4
<1>6. Position(First(Walk)) <= Position(p)
  BY <1>1, FirstIsFirst
<1>7. Position(First(Walk)) = Position(p)
  BY <1>1, <1>5, <1>6, PositionType
<1> QED
  BY <1>1, <1>7, PositionType

\* A routed query that nothing has disturbed is with the key's owner, and the
\* replicas that it has behind it did not hold the entry all the while.
Routed(q) ==
    LET h == serve[q] IN
    /\ peer = AllUp /\ qry[q].target = First(Walk)
    /\ qry[q].pc \in {"ring", "addr"} => h.pc = "off"
    /\ h.pc # "off" => h.node = First(Walk) /\ h.repair
    /\ h.pc \notin {"off", "look"} => h.node \notin held[q]
    /\ h.pc = "addrs" => Walk \subseteq h.todo
    /\ h.pc = "ask" => Walk \subseteq h.todo \cup h.asked \cup {h.node}
    /\ h.pc = "wait" =>
         /\ Walk \subseteq h.asked \cup {h.node}
         /\ \A p \in h.asked \ h.waiting : h.got[p] = NoId => p \notin held[q]

QueryFine(q) ==
    /\ qry[q].pc # "done" => qry[q].answer = "none"
    /\ qry[q].pc = "new" => ~qry[q].repair
    /\ qry[q].pc \in {"new", "ring", "addr"} => serve[q].pc = "off"
    /\ calm[q] /\ qry[q].pc \in Asking /\ qry[q].repair => Routed(q)

QueryInv == \A q \in Queries : QueryFine(q)

LEMMA QueryCases ==
    ASSUME CoreType, Step, NEW q \in Queries
    PROVE  \/ qry'[q] = qry[q] /\ serve'[q] \in {serve[q], Off}
           \/ \E n \in Node : QueryHere(q, n) \/ QueryBegin(q, n)
           \/ QueryStep(q) \/ ServeStep(q)
           \/ qry'[q].pc = "done" /\ qry'[q].answer = "lost"
<1>0. qry \in [Queries -> QueryState] /\ serve \in [Queries -> ServeState]
  BY DEF CoreType
<1>1. CASE Requests
  <2>1. ASSUME NEW r \in Inserts, NEW n \in Node, InsertHere(r, n) \/ InsertBegin(r, n)
        PROVE  qry' = qry /\ serve' = serve
    BY <2>1 DEF InsertHere, InsertBegin, insertRest
  <2>2. ASSUME NEW k \in Queries, NEW n \in Node, QueryHere(k, n) \/ QueryBegin(k, n), k # q
        PROVE  qry'[q] = qry[q] /\ serve'[q] = serve[q]
    BY <1>0, <2>2 DEF QueryHere, QueryBegin
  <2>3. ASSUME NEW e \in Removals, NEW n \in Node, NEW ids, NEW sweep, NEW local,
               RemovalBegin(e, n, ids, sweep, local)
        PROVE  qry' = qry /\ serve' = serve
    BY <2>3 DEF RemovalBegin, removalRest
  <2> QED
    BY <1>1, <2>1, <2>2, <2>3, RequestCases
<1>2. CASE \E r \in Inserts : InsertStep(r)
  BY <1>2 DEF InsertStep, InsertResolve, InsertStore, InsertNext, InsertDone,
              InsertCallFails, insertRest
<1>3. ASSUME NEW k \in Queries, QueryStep(k), k # q
      PROVE  qry'[q] = qry[q] /\ serve'[q] = serve[q]
  BY <1>0, <1>3 DEF QueryStep, QueryResolve, QueryForward, QueryCallFails
<1>4. ASSUME NEW k \in Queries, ServeStep(k), k # q
      PROVE  qry'[q] = qry[q] /\ serve'[q] = serve[q]
  <2>1. ASSUME NEW a, ServeEnds(k, a) PROVE qry'[q] = qry[q] /\ serve'[q] = serve[q]
    BY <1>0, <1>4, <2>1 DEF ServeEnds
  <2>2. CASE ServeLook(k)
    BY <1>0, <1>4, <2>1, <2>2 DEF ServeLook
  <2>3. CASE ServeFanOut(k)
    BY <1>0, <1>4, <2>1, <2>3 DEF ServeFanOut
  <2>4. CASE ServeJoin(k)
    BY <1>0, <1>4, <2>1, <2>4 DEF ServeJoin
  <2>5. CASE ServeRing(k) \/ ServeAddrs(k) \/ ServeAsk(k)
    BY <1>0, <1>4, <2>5 DEF ServeRing, ServeAddrs, ServeAsk
  <2>6. ASSUME NEW p \in Node, ServePeer(k, p)
        PROVE  qry'[q] = qry[q] /\ serve'[q] = serve[q]
    BY <1>0, <1>4, <2>6 DEF ServePeer
  <2> QED
    BY <1>4, <2>2, <2>3, <2>4, <2>5, <2>6 DEF ServeStep
<1>5. CASE \E d \in Removals : RemovalStep(d)
  BY <1>5 DEF RemovalStep, RemovalPeers, RemovalDone, RemovalNext, RemovalCallFails,
              removalRest
<1>6. CASE \E m \in wire : InsertDeliver(m) \/ RemovalDeliver(m)
  BY <1>6 DEF InsertDeliver, RemovalDeliver, insertRest, removalRest
<1>7. CASE \E x \in repairs : RepairFetch(x) \/ RepairStore(x) \/ RepairFails(x)
  BY <1>7 DEF RepairFetch, RepairStore, RepairFails, repairRest
<1>8. CASE \/ \E n, p \in Node : ViewChange(n, p)
           \/ \E n \in Node, u \in Uuid : Drop(n, u)
  BY <1>8 DEF ViewChange, Drop
<1>9. ASSUME NEW n \in Node, Crash(n)
      PROVE  \/ qry'[q] = qry[q] /\ serve'[q] \in {serve[q], Off}
             \/ qry'[q].pc = "done" /\ qry'[q].answer = "lost"
  <2>1. qry'[q] = IF qry[q].node = n /\ qry[q].pc \notin {"new", "done"}
                  THEN [qry[q] EXCEPT !.pc = "done", !.answer = "lost"] ELSE qry[q]
    BY <1>0, <1>9 DEF Crash
  <2>2. serve'[q] \in {serve[q], Off}
    BY <1>9 DEF Crash
  <2>3. qry[q] \in QueryState
    BY <1>0
  <2> QED
    BY <2>1, <2>2, <2>3 DEF QueryState
<1> QED
  BY <1>1, <1>2, <1>3, <1>4, <1>5, <1>6, <1>7, <1>8, <1>9 DEF Step

LEMMA QueryInvInit == Init => QueryInv
<1> SUFFICES ASSUME Init, NEW q \in Queries PROVE QueryFine(q)
  BY DEF QueryInv
<1>1. qry[q].pc = "new" /\ qry[q].answer = "none" /\ ~qry[q].repair
  BY DEF Init
<1>2. serve[q].pc = "off"
  BY DEF Init, Off
<1> QED
  BY <1>1, <1>2 DEF QueryFine, Asking

\* What Observe says of a query under way.
LEMMA CalmQuery ==
    ASSUME CoreType, Observe, NEW q \in Queries, qry'[q].pc \in Asking
    PROVE  /\ calm'[q] => /\ calm[q] /\ peer' = AllUp
                          /\ ~(qry'[q].try > 0) /\ ~serve'[q].failed
           /\ qry[q].pc # "new" => held'[q] = held[q] \cap Holders'
<1>1. qry'[q].pc \notin {"new", "done"}
  BY DEF Asking
<1>2. held'[q] = IF qry[q].pc = "new" THEN IF qry'[q].pc = "new" THEN {} ELSE Holders'
                 ELSE IF qry'[q].pc = "done" THEN {} ELSE held[q] \cap Holders'
  BY DEF Observe
<1>3. calm'[q] = (\/ qry'[q].pc \in {"new", "done"}
                  \/ calm[q] /\ (peer = AllUp /\ ~QueryTroubled(q))')
  BY DEF Observe
<1>4. calm'[q] => calm[q] /\ (peer = AllUp /\ ~QueryTroubled(q))'
  BY <1>1, <1>3
<1>5. AllUp' = AllUp
  BY DEF AllUp
<1> QED
  BY <1>1, <1>2, <1>4, <1>5 DEF QueryTroubled

LEMMA RepliedFields ==
    ASSUME NEW s \in QueryState, NEW a
    PROVE  Replied(s, a).pc = "done" /\ Replied(s, a).answer = a
BY DEF Replied, QueryState

\* The coordinator's steps.
LEMMA QueryFineQuery ==
    ASSUME CoreType, CoreType', Observe, NEW q \in Queries, QueryFine(q),
           \/ \E n \in Node : QueryHere(q, n) \/ QueryBegin(q, n)
           \/ QueryStep(q)
    PROVE  /\ QueryFine(q)'
           /\ ~(qry'[q].answer = "miss" /\ qry[q].repair /\ calm[q])
<1> DEFINE Fine == /\ QueryFine(q)'
                   /\ ~(qry'[q].answer = "miss" /\ qry[q].repair /\ calm[q])
<1> SUFFICES Fine
  OBVIOUS
<1>0. /\ qry \in [Queries -> QueryState] /\ serve \in [Queries -> ServeState]
      /\ qry[q] \in QueryState /\ serve[q] \in ServeState
  BY DEF CoreType
<1>1. ASSUME qry'[q].pc = "call", qry'[q].answer = "none",
             qry'[q].repair /\ calm'[q] => Routed(q)'
      PROVE  Fine
  BY <1>1 DEF QueryFine
<1>2. ASSUME NEW n \in Node, QueryHere(q, n) PROVE Fine
  <2>1. qry'[q] = [qry[q] EXCEPT !.pc = "call", !.node = n, !.target = n]
    BY <1>0, <1>2 DEF QueryHere
  <2>2. qry'[q].pc = "call" /\ qry'[q].answer = "none" /\ ~qry'[q].repair
    BY <1>0, <1>2, <2>1 DEF QueryHere, QueryState, QueryFine
  <2> QED
    BY <1>1, <2>2
<1>3. ASSUME NEW n \in Node, QueryBegin(q, n) PROVE Fine
  <2>1. qry'[q] = [qry[q] EXCEPT !.pc = "ring", !.node = n, !.target = First(ReplicaIds(n)),
                                 !.repair = TryRepair(FALSE, "unset")]
    BY <1>0, <1>3 DEF QueryBegin
  <2>2. qry'[q].pc = "ring" /\ qry'[q].answer = "none" /\ qry'[q].target = First(ReplicaIds(n))
    BY <1>0, <1>3, <2>1 DEF QueryBegin, QueryState, QueryFine
  <2>3. serve'[q].pc = "off" /\ peer' = peer
    BY <1>3 DEF QueryBegin, QueryFine, queryRest
  <2>4. calm'[q] => Routed(q)'
    <3>1. calm'[q] => peer = AllUp /\ peer' = AllUp
      BY <2>2, <2>3, CalmQuery DEF Asking
    <3>2. calm'[q] => qry'[q].target = First(Walk)
      BY <2>2, <3>1, WalkOfAll
    <3> QED
      BY <2>2, <2>3, <3>1, <3>2 DEF Routed, AllUp, Walk, First, Position
  <2> QED
    BY <2>2, <2>3, <2>4 DEF QueryFine, Asking
<1>4. CASE QueryResolve(q)
  <2>0. qry[q].pc = "ring" /\ qry[q].answer = "none" /\ serve[q].pc = "off" /\ peer' = peer
    BY <1>4 DEF QueryResolve, QueryFine, queryRest
  <2>1. CASE qry[q].target = qry[q].node \/ ~HasAddr(qry[q].node, qry[q].target)
    <3>1. /\ qry'[q] = [qry[q] EXCEPT !.pc = "call", !.target = qry[q].node]
          /\ serve'[q] = Serving(qry[q].node, qry[q].repair)
      BY <1>0, <1>4, <2>1 DEF QueryResolve
    <3>2. /\ qry'[q].pc = "call" /\ qry'[q].answer = "none" /\ qry'[q].target = qry[q].node
          /\ qry'[q].repair = qry[q].repair
      BY <1>0, <2>0, <3>1 DEF QueryState
    <3>3. ASSUME calm'[q], qry'[q].repair PROVE Routed(q)'
      <4>1. peer' = AllUp /\ calm[q]
        BY <3>2, <3>3, CalmQuery DEF Asking
      <4>2. Routed(q)
        BY <2>0, <3>2, <3>3, <4>1 DEF QueryFine, Asking
      <4>3. qry[q].target = qry[q].node
        BY <1>0, <2>0, <2>1, <4>1, WalkOfAll DEF QueryState
      <4> QED
        <5>1. serve'[q].pc = "look" /\ serve'[q].node = First(Walk) /\ serve'[q].repair
          <6>1. serve'[q].repair = qry[q].repair /\ qry[q].repair
            BY <3>1, <3>2, <3>3 DEF Serving, Off
          <6>2. qry[q].node = First(Walk)
            BY <4>2, <4>3 DEF Routed
          <6> QED
            BY <3>1, <6>1, <6>2 DEF Serving, Off
        <5> QED
          BY <3>2, <4>1, <4>2, <4>3, <5>1 DEF Routed, AllUp, Walk, First, Position
    <3> QED
      BY <1>1, <3>2, <3>3
  <2>2. CASE ~(qry[q].target = qry[q].node \/ ~HasAddr(qry[q].node, qry[q].target))
    <3>1. qry'[q] = [qry[q] EXCEPT !.pc = "addr"] /\ serve'[q] = serve[q]
      BY <1>0, <1>4, <2>2 DEF QueryResolve
    <3>2. /\ qry'[q].pc = "addr" /\ qry'[q].answer = "none" /\ qry'[q].target = qry[q].target
          /\ qry'[q].repair = qry[q].repair
      BY <1>0, <2>0, <3>1 DEF QueryState
    <3>3. ASSUME calm'[q], qry'[q].repair PROVE Routed(q)'
      <4>1. peer' = AllUp /\ calm[q]
        BY <3>2, <3>3, CalmQuery DEF Asking
      <4>2. Routed(q)
        BY <2>0, <3>2, <3>3, <4>1 DEF QueryFine, Asking
      <4> QED
        BY <2>0, <3>1, <3>2, <4>1, <4>2 DEF Routed, AllUp, Walk, First, Position
    <3> QED
      BY <2>0, <3>1, <3>2, <3>3 DEF QueryFine
  <2> QED
    BY <2>1, <2>2
<1>5. CASE QueryForward(q)
  <2>0. qry[q].pc = "addr" /\ qry[q].answer = "none" /\ peer' = peer
    BY <1>5 DEF QueryForward, QueryFine, queryRest
  <2>1. CASE IsDead(qry[q].node, qry[q].target)
    <3>1. qry'[q] = Replied(qry[q], "miss")
      BY <1>0, <1>5, <2>1 DEF QueryForward
    <3>2. qry'[q].pc = "done"
      BY <1>0, <3>1, RepliedFields
    <3>3. ~(qry[q].repair /\ calm[q])
      <4>1. qry[q].repair /\ calm[q] => peer = AllUp
        BY <2>0 DEF QueryFine, Asking, Routed
      <4> QED
        BY <1>0, <2>1, <4>1, WalkOfAll DEF QueryState
    <3> QED
      BY <3>2, <3>3 DEF QueryFine, Asking
  <2>2. CASE ~IsDead(qry[q].node, qry[q].target)
    <3>1. /\ qry'[q] = [qry[q] EXCEPT !.pc = "call", !.try = 0]
          /\ serve'[q] = Serving(qry[q].target, TRUE)
      BY <1>0, <1>5, <2>2 DEF QueryForward, ForwardQuery, TryRepair
    <3>2. /\ qry'[q].pc = "call" /\ qry'[q].answer = "none" /\ qry'[q].target = qry[q].target
          /\ qry'[q].repair = qry[q].repair
      BY <1>0, <2>0, <3>1 DEF QueryState
    <3>3. ASSUME calm'[q], qry'[q].repair PROVE Routed(q)'
      <4>1. peer' = AllUp /\ calm[q]
        BY <3>2, <3>3, CalmQuery DEF Asking
      <4>2. Routed(q)
        BY <2>0, <3>2, <3>3, <4>1 DEF QueryFine, Asking
      <4> QED
        <5>1. serve'[q].pc = "look" /\ serve'[q].node = First(Walk) /\ serve'[q].repair
          <6>1. qry[q].target = First(Walk)
            BY <4>2 DEF Routed
          <6> QED
            BY <3>1, <6>1 DEF Serving, Off
        <5> QED
          BY <3>2, <4>1, <4>2, <5>1 DEF Routed, AllUp, Walk, First, Position
    <3> QED
      BY <1>1, <3>2, <3>3
  <2> QED
    BY <2>1, <2>2
<1>6. ASSUME NEW retryable \in BOOLEAN, QueryCallFails(q, retryable) PROVE Fine
  <2>0. qry[q].pc = "call" /\ qry[q].answer = "none"
    BY <1>6 DEF QueryCallFails, QueryFine
  <2>1. CASE Retried(retryable, qry[q].try)
    <3>1. qry'[q] = [qry[q] EXCEPT !.try = @ + 1]
      BY <1>0, <1>6, <2>1 DEF QueryCallFails
    <3>2. qry'[q].pc = "call" /\ qry'[q].answer = "none" /\ qry'[q].try = qry[q].try + 1
      BY <1>0, <2>0, <3>1 DEF QueryState
    <3>3. qry[q].try \in Nat
      BY <1>0, ReplicationAssumption DEF QueryState
    <3>4. ~calm'[q]
      BY <3>2, <3>3, CalmQuery DEF Asking
    <3> QED
      BY <1>1, <3>2, <3>4
  <2>2. CASE ~Retried(retryable, qry[q].try)
    <3>1. qry'[q] = Replied(qry[q], "bad_gateway")
      BY <1>0, <1>6, <2>2 DEF QueryCallFails
    <3>2. qry'[q].pc = "done" /\ qry'[q].answer = "bad_gateway"
      BY <1>0, <3>1, RepliedFields
    <3> QED
      BY <3>2 DEF QueryFine, Asking
  <2> QED
    BY <2>1, <2>2
<1> QED
  BY <1>2, <1>3, <1>4, <1>5, <1>6 DEF QueryStep

\* The end of process_query_locally: an undisturbed routed query that misses
\* has every replica behind it.
LEMMA QueryFineEnds ==
    ASSUME CoreType, CoreType', Observe, NEW q \in Queries, QueryFine(q), NEW a,
           ServeEnds(q, a), serve[q].pc # "off", UNCHANGED peer,
           a = "miss" /\ calm[q] /\ qry[q].pc \in Asking /\ qry[q].repair /\ Routed(q)
             => held[q] \cap Holders' \cap Walk = {}
    PROVE  /\ QueryFine(q)'
           /\ qry[q].pc # "done" /\ qry'[q].answer = "miss" /\ qry[q].repair /\ calm[q]
                => held[q] \cap Holders' \cap ReplicaIds(qry[q].node) = {}
<1>0. /\ qry \in [Queries -> QueryState] /\ serve \in [Queries -> ServeState]
      /\ qry[q] \in QueryState
  BY DEF CoreType
<1>1. serve'[q].pc = "off"
  BY <1>0 DEF ServeEnds, Off
<1>2. qry[q].pc \notin {"new", "ring", "addr"}
  BY DEF QueryFine
<1>3. CASE qry' = qry
  <2>1. calm'[q] /\ qry'[q].pc \in Asking => calm[q]
    BY CalmQuery
  <2>2. Routed(q) /\ qry[q].pc = "call" => Routed(q)'
    BY <1>1, <1>3 DEF Routed, AllUp, Walk, First, Position
  <2>3. qry[q].pc \in Asking => qry[q].pc = "call"
    BY <1>2 DEF Asking
  <2>4. QueryFine(q)'
    BY <1>1, <1>3, <2>1, <2>2, <2>3 DEF QueryFine
  <2>5. qry[q].pc # "done" => qry'[q].answer = "none"
    BY <1>3 DEF QueryFine
  <2> QED
    BY <2>4, <2>5
<1>4. CASE qry' = [qry EXCEPT ![q] = Replied(@, a)]
  <2>1. qry'[q].pc = "done" /\ qry'[q].answer = a
    BY <1>0, <1>4, RepliedFields
  <2>2. QueryFine(q)'
    BY <2>1 DEF QueryFine, Asking
  <2>3. ASSUME qry[q].pc # "done", a = "miss", qry[q].repair, calm[q]
        PROVE  held[q] \cap Holders' \cap ReplicaIds(qry[q].node) = {}
    <3>1. qry[q].pc \in Asking
      BY <1>0, <1>2, <2>3 DEF QueryState, Asking
    <3>2. Routed(q) /\ peer = AllUp
      BY <2>3, <3>1 DEF QueryFine, Routed
    <3>3. ReplicaIds(qry[q].node) = Walk
      BY <1>0, <3>2, WalkOfAll DEF QueryState
    <3> QED
      BY <2>3, <3>1, <3>2, <3>3
  <2> QED
    BY <2>1, <2>2, <2>3
<1> QED
  BY <1>3, <1>4 DEF ServeEnds

\* A step of the serving node that leaves the query open.
LEMMA QueryFineGoesOn ==
    ASSUME CoreType, Observe, NEW q \in Queries, QueryFine(q), qry' = qry, UNCHANGED peer,
           serve[q].pc # "off",
           calm[q] /\ qry[q].pc = "call" /\ qry[q].repair /\ Routed(q) /\ ~serve'[q].failed
             /\ held'[q] = held[q] \cap Holders' /\ peer = AllUp
             => Routed(q)'
    PROVE  /\ QueryFine(q)'
           /\ qry[q].pc # "done" => qry'[q].answer # "miss"
<1>1. qry[q].pc \notin {"new", "ring", "addr"}
  BY DEF QueryFine
<1>2. qry[q].pc \in Asking => qry[q].pc = "call"
  BY <1>1 DEF Asking
<1>3. ASSUME calm'[q], qry'[q].pc \in Asking, qry'[q].repair PROVE Routed(q)'
  <2>1. calm[q] /\ ~serve'[q].failed /\ held'[q] = held[q] \cap Holders'
    BY <1>1, <1>3, CalmQuery
  <2>2. Routed(q) /\ peer = AllUp
    BY <1>3, <2>1 DEF QueryFine, Routed
  <2> QED
    BY <1>2, <1>3, <2>1, <2>2
<1> QED
  BY <1>1, <1>3 DEF QueryFine

\* The steps of the serving node.
LEMMA QueryFineServe ==
    ASSUME read_repair_enabled, CoreType, CoreType', Observe,
           NEW q \in Queries, QueryFine(q), ServeStep(q)
    PROVE  /\ QueryFine(q)'
           /\ qry[q].pc # "done" /\ qry'[q].answer = "miss" /\ qry[q].repair /\ calm[q]
                => held[q] \cap Holders' \cap ReplicaIds(qry[q].node) = {}
<1> DEFINE Fine == /\ QueryFine(q)'
                   /\ qry[q].pc # "done" /\ qry'[q].answer = "miss" /\ qry[q].repair /\ calm[q]
                        => held[q] \cap Holders' \cap ReplicaIds(qry[q].node) = {}
           h == serve[q]
<1> SUFFICES Fine
  OBVIOUS
<1>0. serve \in [Queries -> ServeState] /\ h \in ServeState /\ qry[q] \in QueryState
  BY DEF CoreType
<1>1. UNCHANGED <<peer, copies>>
  BY DEF ServeStep, ServeLook, ServeRing, ServeAddrs, ServeAsk, ServeFanOut, ServeJoin,
         ServePeer, queryRest
<1>2. Holders' = Holders
  BY <1>1 DEF Holders, IdsOn
<1>3. ASSUME Routed(q) PROVE First(Walk) \in Walk /\ Walk \in SUBSET Node
  <2>1. peer = AllUp /\ qry[q].node \in Node
    BY <1>0, <1>3 DEF Routed, QueryState
  <2> QED
    BY <2>1, WalkOfAll
<1>4. ASSUME qry' = qry, h.pc # "off",
             calm[q] /\ qry[q].pc = "call" /\ qry[q].repair /\ Routed(q) /\ ~serve'[q].failed
               /\ held'[q] = held[q] \cap Holders' /\ peer = AllUp => Routed(q)'
      PROVE  Fine
  BY <1>1, <1>4, QueryFineGoesOn
<1>5. ASSUME NEW a, ServeEnds(q, a), h.pc # "off",
             a = "miss" /\ calm[q] /\ qry[q].pc \in Asking /\ qry[q].repair /\ Routed(q)
               => held[q] \cap Holders' \cap Walk = {}
      PROVE  Fine
  BY <1>1, <1>5, QueryFineEnds
<1> HIDE DEF Fine
<1>6. CASE ServeLook(q)
  <2>0. h.pc = "look"
    BY <1>6 DEF ServeLook
  <2>1. CASE IdsOn(h.node) # {}
    <3>1. ServeEnds(q, "hit")
      BY <1>6, <2>1 DEF ServeLook
    <3> QED
      BY <1>5, <2>0, <3>1
  <2>2. CASE IdsOn(h.node) = {} /\ h.repair /\ RF > 1
    <3>1. serve' = [serve EXCEPT ![q].pc = "ring"] /\ qry' = qry
      BY <1>6, <2>2 DEF ServeLook
    <3>2. serve'[q].pc = "ring" /\ serve'[q].node = h.node /\ serve'[q].repair = h.repair
      BY <1>0, <3>1 DEF ServeState
    <3>3. h.node \notin Holders'
      BY <1>2, <2>2 DEF Holders
    <3>4. ASSUME qry[q].pc = "call", Routed(q), held'[q] = held[q] \cap Holders' PROVE Routed(q)'
      BY <1>1, <2>0, <3>1, <3>2, <3>3, <3>4 DEF Routed, AllUp, Walk, First, Position
    <3> QED
      BY <1>4, <2>0, <3>1, <3>4
  <2>3. CASE IdsOn(h.node) = {} /\ ~(h.repair /\ RF > 1)
    <3>1. ServeEnds(q, "miss")
      BY <1>6, <2>3 DEF ServeLook
    <3>2. ASSUME Routed(q) PROVE held[q] \cap Holders' \cap Walk = {}
      <4>1. h.repair /\ h.node = First(Walk)
        BY <2>0, <3>2 DEF Routed
      <4>2. RF = 1
        BY <2>3, <4>1, ReplicationAssumption
      <4>3. Walk = {h.node}
        BY <1>3, <3>2, <4>1, <4>2, OwnerAlone
      <4>4. h.node \notin Holders'
        BY <1>2, <2>3 DEF Holders
      <4> QED
        BY <4>3, <4>4
    <3> QED
      BY <1>5, <2>0, <3>1, <3>2
  <2> QED
    BY <2>1, <2>2, <2>3
<1>7. CASE ServeRing(q)
  <2>1. serve'[q] = [h EXCEPT !.pc = "addrs", !.todo = ReplicaIds(h.node)]
          /\ qry' = qry /\ h.pc = "ring"
    BY <1>0, <1>7 DEF ServeRing
  <2>2. /\ serve'[q].pc = "addrs" /\ serve'[q].node = h.node /\ serve'[q].repair = h.repair
        /\ serve'[q].todo = ReplicaIds(h.node)
    BY <1>0, <2>1 DEF ServeState
  <2>3. ASSUME qry[q].pc = "call", Routed(q), held'[q] = held[q] \cap Holders', peer = AllUp
        PROVE  Routed(q)'
    <3>1. Walk \subseteq serve'[q].todo
      BY <1>0, <2>2, <2>3, WalkOfAll DEF ServeState
    <3> QED
      BY <1>1, <2>1, <2>2, <2>3, <3>1 DEF Routed, AllUp, Walk, First, Position
  <2> QED
    BY <1>4, <2>1, <2>3
<1>8. CASE ServeAddrs(q)
  <2>1. serve'[q] = [h EXCEPT !.pc = "ask", !.todo = WithAddrs(h.node, @) \ {h.node}]
          /\ qry' = qry /\ h.pc = "addrs"
    BY <1>0, <1>8 DEF ServeAddrs
  <2>2. /\ serve'[q].pc = "ask" /\ serve'[q].node = h.node /\ serve'[q].repair = h.repair
        /\ serve'[q].todo = WithAddrs(h.node, h.todo) \ {h.node}
    BY <1>0, <2>1 DEF ServeState
  <2>3. ASSUME qry[q].pc = "call", Routed(q), held'[q] = held[q] \cap Holders', peer = AllUp
        PROVE  Routed(q)'
    <3>1. WithAddrs(h.node, h.todo) = h.todo
      BY <1>0, <2>3, WalkOfAll DEF ServeState, WithAddrs
    <3>2. Walk \subseteq serve'[q].todo \cup {h.node}
      BY <2>1, <2>2, <2>3, <3>1 DEF Routed
    <3> QED
      BY <1>1, <2>1, <2>2, <2>3, <3>2 DEF Routed, AllUp, Walk, First, Position
  <2> QED
    BY <1>4, <2>1, <2>3
<1>9. CASE ServeAsk(q)
  <2> DEFINE p == First(h.todo)
  <2>1. serve'[q] = [h EXCEPT !.todo = @ \ {p},
                              !.asked = IF IsDead(h.node, p) THEN @ ELSE @ \cup {p}]
          /\ qry' = qry /\ h.pc = "ask" /\ h.todo # {}
    BY <1>0, <1>9 DEF ServeAsk
  <2>2. p \in h.todo /\ p \in Node
    BY <1>0, <2>1, FirstIsFirst DEF ServeState
  <2> HIDE DEF p
  <2>3. /\ serve'[q].pc = "ask" /\ serve'[q].node = h.node /\ serve'[q].repair = h.repair
        /\ serve'[q].todo = h.todo \ {p}
        /\ serve'[q].asked = IF IsDead(h.node, p) THEN h.asked ELSE h.asked \cup {p}
    BY <1>0, <2>1 DEF ServeState
  <2>4. ASSUME qry[q].pc = "call", Routed(q), held'[q] = held[q] \cap Holders', peer = AllUp
        PROVE  Routed(q)'
    <3>1. ~IsDead(h.node, p)
      BY <1>0, <2>2, <2>4, WalkOfAll DEF ServeState
    <3>2. Walk \subseteq serve'[q].todo \cup serve'[q].asked \cup {h.node}
      BY <2>1, <2>3, <2>4, <3>1 DEF Routed
    <3> QED
      BY <1>1, <2>1, <2>3, <2>4, <3>2 DEF Routed, AllUp, Walk, First, Position
  <2> QED
    BY <1>4, <2>1, <2>4
<1>10. CASE ServeFanOut(q)
  <2>0. h.pc = "ask" /\ h.todo = {}
    BY <1>10 DEF ServeFanOut
  <2>1. CASE h.asked = {}
    <3>1. ServeEnds(q, "miss")
      BY <1>10, <2>1 DEF ServeFanOut
    <3>2. ASSUME Routed(q) PROVE held[q] \cap Holders' \cap Walk = {}
      BY <2>0, <2>1, <3>2 DEF Routed
    <3> QED
      BY <1>5, <2>0, <3>1, <3>2
  <2>2. CASE h.asked # {}
    <3>1. serve'[q] = [h EXCEPT !.pc = "wait", !.waiting = h.asked] /\ qry' = qry
      BY <1>0, <1>10, <2>2 DEF ServeFanOut
    <3>2. /\ serve'[q].pc = "wait" /\ serve'[q].node = h.node /\ serve'[q].repair = h.repair
          /\ serve'[q].asked = h.asked /\ serve'[q].waiting = h.asked
      BY <1>0, <3>1 DEF ServeState
    <3>3. ASSUME qry[q].pc = "call", Routed(q), held'[q] = held[q] \cap Holders'
          PROVE  Routed(q)'
      BY <1>1, <2>0, <3>1, <3>2, <3>3 DEF Routed, AllUp, Walk, First, Position
    <3> QED
      BY <1>4, <2>0, <3>1, <3>3
  <2> QED
    BY <2>1, <2>2
<1>11. CASE ServeJoin(q)
  <2>0. h.pc = "wait" /\ h.waiting = {}
    BY <1>11 DEF ServeJoin
  <2>1. CASE {p \in h.asked : h.got[p] # NoId} = {}
    <3>1. ServeEnds(q, "miss")
      BY <1>11, <2>1 DEF ServeJoin
    <3>2. ASSUME Routed(q) PROVE held[q] \cap Holders' \cap Walk = {}
      <4>1. \A p \in h.asked : p \notin held[q]
        BY <2>0, <2>1, <3>2 DEF Routed
      <4>2. h.node \notin held[q] /\ Walk \subseteq h.asked \cup {h.node}
        BY <2>0, <3>2 DEF Routed
      <4> QED
        BY <4>1, <4>2
    <3> QED
      BY <1>5, <2>0, <3>1, <3>2
  <2>2. CASE {p \in h.asked : h.got[p] # NoId} # {}
    <3>1. ServeEnds(q, "hit")
      BY <1>11, <2>2 DEF ServeJoin
    <3> QED
      BY <1>5, <2>0, <3>1
  <2> QED
    BY <2>1, <2>2
<1>12. ASSUME NEW p \in Node, ServePeer(q, p) PROVE Fine
  <2>0. h.pc = "wait" /\ p \in h.waiting /\ qry' = qry
    BY <1>12 DEF ServePeer
  <2>1. ASSUME NEW a \in IF IdsOn(p) = {} THEN {NoId} ELSE IdsOn(p),
               serve' = [serve EXCEPT ![q].waiting = @ \ {p}, ![q].got[p] = a]
        PROVE  Fine
    <3>1. serve'[q] = [h EXCEPT !.waiting = @ \ {p}, !.got = [h.got EXCEPT ![p] = a]]
      BY <1>0, <2>1
    <3>2. /\ serve'[q].pc = "wait" /\ serve'[q].node = h.node /\ serve'[q].repair = h.repair
          /\ serve'[q].asked = h.asked /\ serve'[q].waiting = h.waiting \ {p}
          /\ serve'[q].got = [h.got EXCEPT ![p] = a]
      BY <1>0, <2>0, <3>1 DEF ServeState
    <3>3. \A n \in Node : serve'[q].got[n] = IF n = p THEN a ELSE h.got[n]
      BY <1>0, <3>2 DEF ServeState
    <3>4. a = NoId => p \notin Holders'
      BY <1>2, <2>1, UuidIsAnId DEF Holders, IdsOn
    <3>5. ASSUME qry[q].pc = "call", Routed(q), held'[q] = held[q] \cap Holders'
          PROVE  Routed(q)'
      <4>1. h.asked \subseteq Node
        BY <1>0 DEF ServeState
      <4>2. ASSUME NEW n \in serve'[q].asked \ serve'[q].waiting, serve'[q].got[n] = NoId
            PROVE  n \notin held'[q]
        BY <2>0, <3>2, <3>3, <3>4, <3>5, <4>1, <4>2 DEF Routed
      <4> QED
        BY <1>1, <2>0, <3>2, <3>5, <4>2 DEF Routed, AllUp, Walk, First, Position, NoId
    <3> QED
      BY <1>4, <2>0, <3>5
  <2>2. CASE serve' = [serve EXCEPT ![q].waiting = @ \ {p}, ![q].failed = TRUE]
    <3>1. serve'[q] = [h EXCEPT !.waiting = @ \ {p}, !.failed = TRUE]
      BY <1>0, <2>2
    <3>2. serve'[q].failed
      BY <1>0, <3>1 DEF ServeState
    <3> QED
      BY <1>4, <2>0, <3>2
  <2> QED
    BY <1>12, <2>1, <2>2 DEF ServePeer
<1> QED
  BY <1>6, <1>7, <1>8, <1>9, <1>10, <1>11, <1>12 DEF ServeStep

LEMMA QueryFineStep ==
    ASSUME read_repair_enabled, Typed, Typed', Next,
           NEW q \in Queries, QueryFine(q)
    PROVE  /\ QueryFine(q)'
           /\ qry[q].pc # "done" /\ qry'[q].answer = "miss" /\ qry[q].repair /\ calm[q]
                => held[q] \cap Holders' \cap ReplicaIds(qry[q].node) = {}
<1>1. CoreType /\ CoreType' /\ Step /\ Observe
  BY DEF Typed, Next
<1>2. CASE qry'[q] = qry[q] /\ serve'[q] \in {serve[q], Off}
  <2>1. serve'[q].pc = "off" \/ serve'[q] = serve[q]
    BY <1>2 DEF Off
  <2>2. qry[q].pc # "done" => qry'[q].answer # "miss"
    BY <1>2 DEF QueryFine
  <2>3. ASSUME calm'[q], qry'[q].pc \in Asking, qry'[q].repair PROVE Routed(q)'
    <3>1. calm[q] /\ peer' = AllUp /\ held'[q] = held[q] \cap Holders'
      BY <1>1, <1>2, <2>3, CalmQuery DEF Asking
    <3>2. Routed(q)
      BY <1>2, <2>3, <3>1 DEF QueryFine
    <3> QED
      BY <1>2, <2>1, <3>1, <3>2 DEF Routed, AllUp, Walk, First, Position, NoId
  <2> QED
    BY <1>2, <2>1, <2>2, <2>3 DEF QueryFine
<1>3. CASE qry'[q].pc = "done" /\ qry'[q].answer = "lost"
  BY <1>3 DEF QueryFine, Asking
<1> QED
  BY <1>1, <1>2, <1>3, QueryCases, QueryFineQuery, QueryFineServe

LEMMA QueryInvStep ==
    ASSUME read_repair_enabled, Typed, QueryInv, [Next]_vars
    PROVE  QueryInv'
<1>1. Typed'
  BY TypedStep
<1>2. CASE Next
  BY <1>1, <1>2, QueryFineStep DEF QueryInv
<1>3. CASE UNCHANGED vars
  BY <1>3 DEF vars, QueryInv, QueryFine, Routed, AllUp, Walk, First, Position, NoId
<1> QED
  BY <1>2, <1>3

\* Read repair heals misses: an undisturbed routed query misses only if no
\* replica has held the entry throughout (process_query_locally,
\* attempt_read_repair).
THEOREM MissMeansNoReplicaHadItHolds == Spec => MissMeansNoReplicaHadIt
<1> DEFINE Inv == read_repair_enabled => QueryInv
<1>1. Init => Inv
  BY QueryInvInit
<1>2. Typed /\ Inv /\ [Next]_vars => Inv'
  BY QueryInvStep
<1>3. ASSUME Typed, Inv, [Next]_vars
      PROVE  [read_repair_enabled =>
               \A q \in Queries :
                 qry[q].pc # "done" /\ qry'[q].answer = "miss" /\ qry[q].repair /\ calm[q]
                     => held[q] \cap Holders' \cap ReplicaIds(qry[q].node) = {}]_vars
  <2>1. Typed'
    BY <1>3, TypedStep
  <2> QED
    BY <1>3, <2>1, QueryFineStep DEF QueryInv
<1> QED
  BY <1>1, <1>2, <1>3, TypedAlways, PTL DEF Spec, MissMeansNoReplicaHadIt

=============================================================================
