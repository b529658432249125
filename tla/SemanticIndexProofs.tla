------------------------- MODULE SemanticIndexProofs -------------------------
(***************************************************************************)
(* Proofs about SemanticIndex, for every number of entries, namespaces,    *)
(* texts, probes and readers, every metric and every drain order.          *)
(***************************************************************************)
EXTENDS SemanticIndex, FiniteSetTheorems, TLAPS

\* In a finite set a strict order has a minimal element.
LEMMA MinimalElement ==
    ASSUME NEW S, IsFiniteSet(S), S # {}, NEW R,
           \A x, y, z \in S : <<x, y>> \in R /\ <<y, z>> \in R => <<x, z>> \in R,
           \A x \in S : <<x, x>> \notin R
    PROVE  \E x \in S : \A y \in S : <<y, x>> \notin R
<1> DEFINE below(x) == {y \in S : <<y, x>> \in R}
           cones == {below(x) : x \in S}
<1>1. cones \subseteq FiniteSubsetsOf(S) /\ cones # {}
  <2>1. ASSUME NEW x \in S PROVE below(x) \in SUBSET S /\ IsFiniteSet(below(x))
    <3>1. below(x) \in SUBSET S
      OBVIOUS
    <3> HIDE DEF below
    <3> QED
      BY <3>1, FS_Subset
  <2> HIDE DEF below
  <2> QED
    BY <2>1 DEF FiniteSubsetsOf
<1>2. PICK c \in cones : \A d \in cones : ~(<<d, c>> \in StrictSubsetOrdering(S))
  <2> HIDE DEF cones
  <2> QED
    BY <1>1, FS_StrictSubsetOrderingWellFounded, WFMin
<1>3. PICK x \in S : c = below(x)
  BY <1>2
<1>4. ASSUME NEW y \in S, <<y, x>> \in R PROVE FALSE
  <2>1. below(y) \subseteq below(x) /\ y \in below(x) /\ y \notin below(y)
    BY <1>4
  <2>2. <<below(y), c>> \in StrictSubsetOrdering(S)
    BY <1>3, <2>1 DEF StrictSubsetOrdering
  <2> QED
    BY <1>2, <2>2
<1> QED
  BY <1>4

-----------------------------------------------------------------------------
(* One namespace. *)

\* A record with the fields of NamespacedIndex.
Shaped(n) ==
    n = [entries |-> n.entries, uuid_to_internal |-> n.uuid_to_internal,
         evicted_ids |-> n.evicted_ids, exact_match_index |-> n.exact_match_index,
         next_id |-> n.next_id, dimension |-> n.dimension, graph |-> n.graph]

Typed(n) ==
    /\ \A i \in DOMAIN n.entries : n.entries[i] \in CacheEntry
    /\ \A u \in DOMAIN n.uuid_to_internal :
         u \in Uuids /\ n.uuid_to_internal[u] \in Nat
    /\ \A t \in DOMAIN n.exact_match_index :
         t \in Texts /\ n.exact_match_index[t] \in Uuids
    /\ \A i \in DOMAIN n.graph : n.graph[i] \in Uuids
    /\ n.evicted_ids \subseteq Nat
    /\ n.next_id \in 0..MaxNodes
    /\ n.dimension \in Nat \cup {None}

Sound(n) ==
    /\ Shaped(n)
    /\ Typed(n)
    /\ NodesAccounted(n)
    /\ InverseTables(n)
    /\ TextsOwned(n)

\* The ids of a namespace are finitely many natural numbers.
LEMMA IdsFinite ==
    ASSUME NEW n, Sound(n)
    PROVE  /\ IsFiniteSet(DOMAIN n.graph) /\ DOMAIN n.graph \subseteq Nat
           /\ Cardinality(DOMAIN n.graph) = n.next_id
           /\ IsFiniteSet(DOMAIN n.entries) /\ DOMAIN n.entries \subseteq Nat
           /\ Cardinality(DOMAIN n.entries) \in Nat
           /\ Cardinality(DOMAIN n.entries) <= n.next_id
           /\ IsFiniteSet(n.evicted_ids) /\ Cardinality(n.evicted_ids) \in Nat
<1>1. n.next_id \in Nat /\ n.next_id - 1 \in Int /\ 0 \in Int
  BY IndexAssumption DEF Sound, Typed
<1>2. DOMAIN n.graph = 0..(n.next_id - 1)
  BY DEF Sound, NodesAccounted
<1>3. IsFiniteSet(0..(n.next_id - 1)) /\ Cardinality(0..(n.next_id - 1)) = n.next_id
  <2>1. PICK k \in Int : k = n.next_id - 1
    BY <1>1
  <2>2. IsFiniteSet(0..k) /\ Cardinality(0..k) = IF 0 > k THEN 0 ELSE k - 0 + 1
    BY <1>1, FS_Interval
  <2> QED
    BY <1>1, <2>1, <2>2
<1>4. DOMAIN n.entries \in SUBSET DOMAIN n.graph /\ n.evicted_ids \in SUBSET DOMAIN n.graph
  BY DEF Sound, NodesAccounted
<1>5. /\ IsFiniteSet(DOMAIN n.entries) /\ IsFiniteSet(n.evicted_ids)
      /\ Cardinality(DOMAIN n.entries) <= n.next_id
  BY <1>2, <1>3, <1>4, FS_Subset
<1>6. DOMAIN n.graph \subseteq Nat
  BY <1>1, <1>2
<1> QED
  BY <1>2, <1>3, <1>4, <1>5, <1>6, FS_CardinalityType

\* A namespace with nothing in it.
LEMMA NewIsSound ==
    Sound(NewNamespace) /\ DOMAIN NewNamespace.uuid_to_internal = {}
      /\ NewNamespace.dimension = None
<1>1. /\ NewNamespace.entries = Empty /\ NewNamespace.uuid_to_internal = Empty
      /\ NewNamespace.evicted_ids = {} /\ NewNamespace.exact_match_index = Empty
      /\ NewNamespace.next_id = 0 /\ NewNamespace.dimension = None
      /\ NewNamespace.graph = Empty
  BY DEF NewNamespace
<1>2. DOMAIN Empty = {}
  BY DEF Empty
<1>3. Shaped(NewNamespace)
  BY DEF Shaped, NewNamespace
<1>4. Typed(NewNamespace)
  BY <1>1, <1>2, IndexAssumption DEF Typed
<1>5. 0..(0 - 1) = {}
  OBVIOUS
<1> QED
  BY <1>1, <1>2, <1>3, <1>4, <1>5 DEF Sound, NodesAccounted, InverseTables, TextsOwned

\* insert_with_uuid of an entry that is not there yet.
LEMMA InsertFields ==
    ASSUME NEW n, Shaped(n), NEW e, e.uuid \notin DOMAIN n.uuid_to_internal, NEW m,
           m = InsertWithUuid(n, e)
    PROVE  /\ Shaped(m)
           /\ m.entries = Put(n.entries, n.next_id, e)
           /\ m.uuid_to_internal = Put(n.uuid_to_internal, e.uuid, n.next_id)
           /\ m.evicted_ids = n.evicted_ids
           /\ m.exact_match_index = IF TextOf[e.uuid] = None THEN n.exact_match_index
                                    ELSE Put(n.exact_match_index, TextOf[e.uuid], e.uuid)
           /\ m.next_id = n.next_id + 1
           /\ m.dimension = DimOf[e.uuid]
           /\ m.graph = Put(n.graph, n.next_id, e.uuid)
BY DEF Shaped, InsertWithUuid

LEMMA InsertSound ==
    ASSUME NEW n, Sound(n), NEW e \in CacheEntry, n.next_id < MaxNodes, NEW m,
           m = InsertWithUuid(n, e), e.uuid \notin DOMAIN n.uuid_to_internal
    PROVE  /\ Sound(m) /\ m.dimension = DimOf[e.uuid]
           /\ DOMAIN m.uuid_to_internal = DOMAIN n.uuid_to_internal \cup {e.uuid}
<1> DEFINE u == e.uuid
           k == n.next_id
<1>1. /\ Shaped(n) /\ Typed(n) /\ NodesAccounted(n) /\ InverseTables(n) /\ TextsOwned(n)
  BY DEF Sound
<1>2. /\ Shaped(m)
      /\ m.entries = Put(n.entries, k, e)
      /\ m.uuid_to_internal = Put(n.uuid_to_internal, u, k)
      /\ m.evicted_ids = n.evicted_ids
      /\ m.exact_match_index = IF TextOf[u] = None THEN n.exact_match_index
                               ELSE Put(n.exact_match_index, TextOf[u], u)
      /\ m.next_id = k + 1
      /\ m.dimension = DimOf[u]
      /\ m.graph = Put(n.graph, k, u)
  BY <1>1, InsertFields
<1>3. /\ u \in Uuids /\ k \in Nat /\ k < MaxNodes /\ MaxNodes \in Nat
      /\ DimOf[u] \in Nat /\ TextOf[u] \in Texts \cup {None}
  BY <1>1, IndexAssumption DEF CacheEntry, Typed
<1> HIDE DEF u, k
<1>4. /\ DOMAIN m.entries = DOMAIN n.entries \cup {k} /\ m.entries[k] = e
      /\ \A i \in DOMAIN n.entries : i # k => m.entries[i] = n.entries[i]
      /\ DOMAIN m.uuid_to_internal = DOMAIN n.uuid_to_internal \cup {u}
      /\ m.uuid_to_internal[u] = k
      /\ \A v \in DOMAIN n.uuid_to_internal : v # u => m.uuid_to_internal[v] = n.uuid_to_internal[v]
      /\ DOMAIN m.graph = DOMAIN n.graph \cup {k} /\ m.graph[k] = u
      /\ \A i \in DOMAIN n.graph : i # k => m.graph[i] = n.graph[i]
  BY <1>2 DEF Put
<1>5. /\ \A t \in DOMAIN m.exact_match_index :
           \/ t \in DOMAIN n.exact_match_index /\ m.exact_match_index[t] = n.exact_match_index[t]
           \/ t = TextOf[u] /\ t # None /\ m.exact_match_index[t] = u
  <2>1. CASE TextOf[u] = None
    BY <1>2, <2>1
  <2>2. CASE TextOf[u] # None
    <3>1. m.exact_match_index = Put(n.exact_match_index, TextOf[u], u)
      BY <1>2, <2>2
    <3> QED
      BY <2>2, <3>1 DEF Put
  <2> QED
    BY <2>1, <2>2
<1>6. /\ k \notin DOMAIN n.graph /\ k \notin DOMAIN n.entries /\ k \notin n.evicted_ids
      /\ 0..((k + 1) - 1) = (0..(k - 1)) \cup {k}
  BY <1>1, <1>3 DEF NodesAccounted, k
<1>7. Typed(m)
  BY <1>1, <1>2, <1>3, <1>4, <1>5, <1>6 DEF Typed
<1>8. NodesAccounted(m)
  BY <1>1, <1>2, <1>4, <1>6 DEF NodesAccounted, k, u
<1>9. InverseTables(m)
  BY <1>1, <1>4, <1>6 DEF InverseTables, u
<1>10. TextsOwned(m)
  BY <1>1, <1>4, <1>5 DEF TextsOwned
<1> QED
  BY <1>2, <1>4, <1>7, <1>8, <1>9, <1>10 DEF Sound, u

\* drop_entry of entries that are there.
LEMMA DropSound ==
    ASSUME NEW n, Sound(n), NEW ids \in SUBSET DOMAIN n.entries, NEW m,
           m = DropEntries(n, ids)
    PROVE  /\ Sound(m) /\ m.dimension = n.dimension
           /\ DOMAIN m.uuid_to_internal = DOMAIN n.uuid_to_internal \ UuidsAt(n, ids)
           /\ DOMAIN m.entries = DOMAIN n.entries \ ids
<1> DEFINE gone == UuidsAt(n, ids)
           left == {t \in DOMAIN n.exact_match_index :
                      ~(n.exact_match_index[t] \in gone /\ TextOf[n.exact_match_index[t]] = t)}
<1>1. /\ Shaped(n) /\ Typed(n) /\ NodesAccounted(n) /\ InverseTables(n) /\ TextsOwned(n)
  BY DEF Sound
<1>2. /\ Shaped(m)
      /\ m.entries = Restrict(n.entries, DOMAIN n.entries \ ids)
      /\ m.uuid_to_internal = Restrict(n.uuid_to_internal, DOMAIN n.uuid_to_internal \ gone)
      /\ m.evicted_ids = n.evicted_ids \cup ids
      /\ m.exact_match_index = Restrict(n.exact_match_index, left)
      /\ m.next_id = n.next_id /\ m.dimension = n.dimension /\ m.graph = n.graph
  BY <1>1 DEF Shaped, DropEntries
<1>3. \A t \in left : t \in DOMAIN n.exact_match_index /\ n.exact_match_index[t] \notin gone
  BY <1>1 DEF TextsOwned
<1>4. \A i \in DOMAIN n.entries : n.entries[i].uuid \in gone <=> i \in ids
  BY <1>1 DEF UuidsAt, InverseTables
<1> HIDE DEF gone, left
<1>5. /\ DOMAIN m.entries = DOMAIN n.entries \ ids
      /\ \A i \in DOMAIN m.entries : m.entries[i] = n.entries[i]
      /\ DOMAIN m.uuid_to_internal = DOMAIN n.uuid_to_internal \ gone
      /\ \A u \in DOMAIN m.uuid_to_internal : m.uuid_to_internal[u] = n.uuid_to_internal[u]
      /\ DOMAIN m.exact_match_index = left
      /\ \A t \in left : m.exact_match_index[t] = n.exact_match_index[t]
  BY <1>2 DEF Restrict
<1>6. NodesAccounted(m)
  BY <1>1, <1>2, <1>5 DEF NodesAccounted
<1>7. Typed(m)
  <2>1. DOMAIN n.entries \subseteq Nat
    BY IdsFinite
  <2> QED
    BY <1>1, <1>2, <1>3, <1>5, <2>1 DEF Typed
<1>8. InverseTables(m)
  BY <1>1, <1>4, <1>5 DEF InverseTables
<1>9. TextsOwned(m)
  BY <1>1, <1>3, <1>5 DEF TextsOwned
<1> QED
  BY <1>2, <1>5, <1>6, <1>7, <1>8, <1>9 DEF Sound, gone

\* The order in which a namespace is drained numbers its entries from 0 on.
LEMMA DrainNumbers ==
    ASSUME NEW n, Sound(n), NEW f \in DrainOrders(n)
    PROVE  /\ DOMAIN f = 0..(Cardinality(DOMAIN n.entries) - 1)
           /\ \A i \in DOMAIN f : f[i] \in DOMAIN n.entries
           /\ \A i, j \in DOMAIN f : f[i] = f[j] => i = j
           /\ \A k \in DOMAIN n.entries : \E i \in DOMAIN f : f[i] = k
BY DEF DrainOrders, Bijection, Injection, Surjection, IsInjective

\* rebuild, up to the texts and the dimension, which it does not touch.
LEMMA RenumberedSays ==
    ASSUME NEW n, Sound(n), NEW f \in DrainOrders(n), NEW m, m = Renumbered(n, f)
    PROVE  /\ Shaped(m) /\ NodesAccounted(m) /\ InverseTables(m)
           /\ m.exact_match_index = n.exact_match_index /\ m.dimension = n.dimension
           /\ m.evicted_ids = {}
           /\ DOMAIN m.uuid_to_internal = DOMAIN n.uuid_to_internal
           /\ DOMAIN m.entries = DOMAIN f /\ DOMAIN m.graph = DOMAIN f
           /\ \A i \in DOMAIN f : /\ m.entries[i] \in CacheEntry /\ m.graph[i] \in Uuids
                                  /\ m.graph[i] \in DOMAIN n.uuid_to_internal
                                  /\ m.graph[i] = m.entries[i].uuid
           /\ \A u \in DOMAIN m.uuid_to_internal : m.uuid_to_internal[u] \in Nat
           /\ m.next_id \in 0..MaxNodes
<1>1. /\ Shaped(n) /\ Typed(n) /\ NodesAccounted(n) /\ InverseTables(n) /\ TextsOwned(n)
  BY DEF Sound
<1>2. /\ DOMAIN f = 0..(Cardinality(DOMAIN n.entries) - 1)
      /\ \A i \in DOMAIN f : f[i] \in DOMAIN n.entries
      /\ \A i, j \in DOMAIN f : f[i] = f[j] => i = j
      /\ \A k \in DOMAIN n.entries : \E i \in DOMAIN f : f[i] = k
  BY DrainNumbers
<1>3. /\ Shaped(m)
      /\ m.entries = [i \in DOMAIN f |-> n.entries[f[i]]]
      /\ m.uuid_to_internal = [u \in {n.entries[i].uuid : i \in DOMAIN n.entries} |->
                                 CHOOSE i \in DOMAIN f : n.entries[f[i]].uuid = u]
      /\ m.evicted_ids = {} /\ m.next_id = Cardinality(DOMAIN n.entries)
      /\ m.graph = [i \in DOMAIN f |-> n.entries[f[i]].uuid]
      /\ m.exact_match_index = n.exact_match_index /\ m.dimension = n.dimension
  BY <1>1 DEF Shaped, Renumbered
<1>4. {n.entries[i].uuid : i \in DOMAIN n.entries} = DOMAIN n.uuid_to_internal
  BY <1>1 DEF InverseTables
<1>5. ASSUME NEW u \in DOMAIN n.uuid_to_internal
      PROVE  /\ m.uuid_to_internal[u] \in DOMAIN f
             /\ n.entries[f[m.uuid_to_internal[u]]].uuid = u
  <2>1. n.uuid_to_internal[u] \in DOMAIN n.entries /\ n.entries[n.uuid_to_internal[u]].uuid = u
    BY <1>1 DEF InverseTables
  <2>2. \E i \in DOMAIN f : n.entries[f[i]].uuid = u
    BY <1>2, <2>1
  <2>3. m.uuid_to_internal[u] = CHOOSE i \in DOMAIN f : n.entries[f[i]].uuid = u
    BY <1>3, <1>4
  <2> QED
    BY <2>2, <2>3
<1>6. ASSUME NEW i \in DOMAIN f
      PROVE  /\ m.entries[i] = n.entries[f[i]] /\ m.graph[i] = n.entries[f[i]].uuid
             /\ m.entries[i] \in CacheEntry /\ m.graph[i] \in Uuids
             /\ m.graph[i] \in DOMAIN n.uuid_to_internal
             /\ n.uuid_to_internal[m.graph[i]] = f[i]
  BY <1>1, <1>2, <1>3 DEF Typed, InverseTables, CacheEntry
<1>7. /\ DOMAIN m.uuid_to_internal = DOMAIN n.uuid_to_internal
      /\ DOMAIN m.entries = DOMAIN f /\ DOMAIN m.graph = DOMAIN f
  BY <1>3, <1>4
<1>8. InverseTables(m)
  <2>1. ASSUME NEW i \in DOMAIN f
        PROVE  m.entries[i].uuid \in DOMAIN m.uuid_to_internal /\ m.uuid_to_internal[m.entries[i].uuid] = i
    <3> DEFINE u == m.entries[i].uuid
               j == m.uuid_to_internal[u]
    <3>1. u \in DOMAIN n.uuid_to_internal /\ u = n.entries[f[i]].uuid
      BY <1>6
    <3>2. j \in DOMAIN f /\ n.entries[f[j]].uuid = n.entries[f[i]].uuid
      BY <1>5, <3>1
    <3> HIDE DEF j
    <3>3. f[j] = f[i]
      <4>1. f[i] \in DOMAIN n.entries /\ f[j] \in DOMAIN n.entries
        BY <1>2, <3>2
      <4>2. \A k \in DOMAIN n.entries : n.uuid_to_internal[n.entries[k].uuid] = k
        BY <1>1 DEF InverseTables
      <4> QED
        BY <3>2, <4>1, <4>2
    <3>4. j = i
      BY <1>2, <3>2, <3>3
    <3> QED
      BY <1>7, <3>1, <3>4 DEF j
  <2>2. ASSUME NEW u \in DOMAIN m.uuid_to_internal
        PROVE  m.uuid_to_internal[u] \in DOMAIN f /\ m.entries[m.uuid_to_internal[u]].uuid = u
    BY <1>5, <1>6, <1>7
  <2> QED
    BY <1>7, <2>1, <2>2 DEF InverseTables
<1>9. NodesAccounted(m)
  BY <1>2, <1>3, <1>6, <1>7 DEF NodesAccounted
<1>10. /\ Cardinality(DOMAIN n.entries) \in Nat /\ Cardinality(DOMAIN n.entries) <= n.next_id
       /\ n.next_id \in 0..MaxNodes /\ MaxNodes \in Nat
  BY <1>1, IdsFinite, IndexAssumption DEF Typed
<1>11. m.next_id \in 0..MaxNodes /\ DOMAIN f \subseteq Nat
  BY <1>2, <1>3, <1>10
<1>12. \A u \in DOMAIN m.uuid_to_internal : m.uuid_to_internal[u] \in Nat
  BY <1>5, <1>7, <1>11
<1>13. \A i \in DOMAIN f : /\ m.entries[i] \in CacheEntry /\ m.graph[i] \in Uuids
                           /\ m.graph[i] \in DOMAIN n.uuid_to_internal
                           /\ m.graph[i] = m.entries[i].uuid
  BY <1>6
<1> QED
  BY <1>3, <1>7, <1>8, <1>9, <1>11, <1>12, <1>13

\* rebuild of a namespace, or none.
LEMMA RebuiltSound ==
    ASSUME NEW n, Sound(n), NEW m \in Rebuilt(n)
    PROVE  /\ Sound(m) /\ m.dimension = n.dimension
           /\ DOMAIN m.uuid_to_internal = DOMAIN n.uuid_to_internal
           /\ m = n \/ m.evicted_ids = {}
           /\ m.evicted_ids = {} \/ ~NeedsRebuild(n)
<1>1. CASE m = n /\ ~NeedsRebuild(n)
  BY <1>1
<1>2. CASE \E f \in DrainOrders(n) : m = Renumbered(n, f)
  <2>1. PICK f \in DrainOrders(n) : m = Renumbered(n, f)
    BY <1>2
  <2>2. /\ Shaped(m) /\ NodesAccounted(m) /\ InverseTables(m)
        /\ m.exact_match_index = n.exact_match_index /\ m.dimension = n.dimension
        /\ m.evicted_ids = {}
        /\ DOMAIN m.uuid_to_internal = DOMAIN n.uuid_to_internal
        /\ DOMAIN m.entries = DOMAIN f /\ DOMAIN m.graph = DOMAIN f
        /\ \A i \in DOMAIN f : m.entries[i] \in CacheEntry /\ m.graph[i] \in Uuids
        /\ \A u \in DOMAIN m.uuid_to_internal : m.uuid_to_internal[u] \in Nat
        /\ m.next_id \in 0..MaxNodes
    BY <2>1, RenumberedSays
  <2>3. Typed(n) /\ TextsOwned(n)
    BY DEF Sound
  <2>4. Typed(m)
    BY <2>2, <2>3 DEF Typed
  <2>5. TextsOwned(m)
    BY <2>2, <2>3 DEF TextsOwned
  <2> QED
    BY <2>2, <2>4, <2>5 DEF Sound
<1> QED
  BY <1>1, <1>2 DEF Rebuilt

LEMMA PrunedSound ==
    ASSUME NEW n, Sound(n), NEW ns, NEW m, m = Pruned(n, ns)
    PROVE  /\ Sound(m)
           /\ DOMAIN m.uuid_to_internal = DOMAIN n.uuid_to_internal
           /\ m.dimension = IF ns \in ConvNamespaces /\ DOMAIN n.entries = {} /\ n.evicted_ids = {}
                            THEN None ELSE n.dimension
<1>1. CASE ns \in ConvNamespaces /\ DOMAIN n.entries = {} /\ n.evicted_ids = {}
  <2>1. DOMAIN n.uuid_to_internal = {}
    BY <1>1 DEF Sound, InverseTables
  <2> QED
    BY <1>1, <2>1, NewIsSound DEF Pruned
<1>2. CASE ~(ns \in ConvNamespaces /\ DOMAIN n.entries = {} /\ n.evicted_ids = {})
  BY <1>2 DEF Pruned
<1> QED
  BY <1>1, <1>2

\* Of finitely many numbers one is the greatest.
LEMMA GreatestNumber ==
    ASSUME NEW S \in SUBSET Nat, IsFiniteSet(S), S # {}
    PROVE  \E i \in S : \A j \in S : j <= i
<1> DEFINE R == {p \in S \X S : p[1] > p[2]}
<1>1. \A x, y, z \in S : <<x, y>> \in R /\ <<y, z>> \in R => <<x, z>> \in R
  OBVIOUS
<1>2. \A x \in S : <<x, x>> \notin R
  OBVIOUS
<1>3. \A x, y \in S : <<x, y>> \notin R => x <= y
  OBVIOUS
<1> HIDE DEF R
<1>4. PICK i \in S : \A j \in S : <<j, i>> \notin R
  BY <1>1, <1>2, MinimalElement
<1> QED
  BY <1>3, <1>4

\* A namespace as main loads it from a snapshot.
LEMMA ReloadedSound ==
    ASSUME NEW n, Sound(n), NEW f \in DrainOrders(n), NEW m, m = Reloaded(n, f)
    PROVE  /\ Sound(m)
           /\ DOMAIN m.uuid_to_internal = DOMAIN n.uuid_to_internal
           /\ m.dimension = IF DOMAIN n.uuid_to_internal = {} THEN None ELSE n.dimension
<1>1. PICK r : r = Renumbered(n, f)
  OBVIOUS
<1>2. /\ Shaped(r) /\ NodesAccounted(r) /\ InverseTables(r)
      /\ r.exact_match_index = n.exact_match_index /\ r.dimension = n.dimension
      /\ r.evicted_ids = {}
      /\ DOMAIN r.uuid_to_internal = DOMAIN n.uuid_to_internal
      /\ DOMAIN r.entries = DOMAIN f /\ DOMAIN r.graph = DOMAIN f
      /\ \A i \in DOMAIN f : /\ r.entries[i] \in CacheEntry /\ r.graph[i] \in Uuids
                             /\ r.graph[i] \in DOMAIN n.uuid_to_internal
                             /\ r.graph[i] = r.entries[i].uuid
      /\ \A u \in DOMAIN r.uuid_to_internal : r.uuid_to_internal[u] \in Nat
      /\ r.next_id \in 0..MaxNodes
  BY <1>1, RenumberedSays
<1> DEFINE texts == {TextOf[r.graph[i]] : i \in DOMAIN f} \ {None}
           owner(t) == CHOOSE i \in DOMAIN f :
                         /\ TextOf[r.graph[i]] = t
                         /\ \A j \in DOMAIN f : TextOf[r.graph[j]] = t => j <= i
<1>3. /\ Shaped(m) /\ m.entries = r.entries /\ m.uuid_to_internal = r.uuid_to_internal
      /\ m.evicted_ids = r.evicted_ids /\ m.next_id = r.next_id /\ m.graph = r.graph
      /\ m.exact_match_index = [t \in texts |-> r.graph[owner(t)]]
      /\ m.dimension = IF DOMAIN f = {} THEN None ELSE r.dimension
  <2>1. PICK x : x = [t \in texts |-> r.graph[owner(t)]]
    OBVIOUS
  <2>2. m = [r EXCEPT !.exact_match_index = x,
                      !.dimension = IF DOMAIN f = {} THEN None ELSE r.dimension]
    BY <1>1, <2>1 DEF Reloaded
  <2> HIDE DEF texts, owner
  <2> QED
    BY <1>2, <2>1, <2>2 DEF Shaped
<1>4. DOMAIN f \subseteq Nat /\ IsFiniteSet(DOMAIN f)
  <2>1. DOMAIN f = 0..(Cardinality(DOMAIN n.entries) - 1)
    BY DrainNumbers
  <2>2. Cardinality(DOMAIN n.entries) \in Nat
    BY IdsFinite
  <2>3. PICK k \in Int : k = Cardinality(DOMAIN n.entries) - 1
    BY <2>2
  <2> QED
    BY <2>1, <2>3, FS_Interval
<1>5. ASSUME NEW t \in texts
      PROVE  owner(t) \in DOMAIN f /\ TextOf[r.graph[owner(t)]] = t
  <2> DEFINE K == {i \in DOMAIN f : TextOf[r.graph[i]] = t}
  <2>1. K \in SUBSET Nat /\ K \subseteq DOMAIN f /\ K # {}
    BY <1>4
  <2>2. IsFiniteSet(K)
    <3> HIDE DEF K
    <3> QED
      BY <1>4, <2>1, FS_Subset
  <2>3. \E i \in K : \A j \in K : j <= i
    <3> HIDE DEF K
    <3> QED
      BY <2>1, <2>2, GreatestNumber
  <2>4. \E i \in DOMAIN f : /\ TextOf[r.graph[i]] = t
                            /\ \A j \in DOMAIN f : TextOf[r.graph[j]] = t => j <= i
    BY <2>3
  <2> QED
    BY <2>4
<1>6. \A t \in texts : t \in Texts
  BY <1>2, IndexAssumption
<1> HIDE DEF texts, owner
<1>7. TextsOwned(m)
  BY <1>2, <1>3, <1>5 DEF TextsOwned
<1>8. Typed(m)
  <2>1. n.dimension \in Nat \cup {None} /\ \A u \in DOMAIN n.uuid_to_internal : u \in Uuids
    BY DEF Sound, Typed
  <2> QED
    BY <1>2, <1>3, <1>5, <1>6, <2>1 DEF Typed
<1>9. NodesAccounted(m)
  BY <1>2, <1>3 DEF NodesAccounted
<1>10. InverseTables(m)
  BY <1>2, <1>3 DEF InverseTables
<1>11. DOMAIN f = {} <=> DOMAIN n.uuid_to_internal = {}
  BY <1>2 DEF InverseTables
<1> QED
  BY <1>2, <1>3, <1>7, <1>8, <1>9, <1>10, <1>11 DEF Sound

\* A removal, the rebuild it may call for and, in the reaper, the pruning.
LEMMA RebuiltAfterDrop ==
    ASSUME NEW n, Sound(n), NEW ids \in SUBSET DOMAIN n.entries,
           NEW m \in Rebuilt(DropEntries(n, ids))
    PROVE  /\ Sound(m) /\ m.dimension = n.dimension
           /\ DOMAIN m.uuid_to_internal = DOMAIN n.uuid_to_internal \ UuidsAt(n, ids)
           /\ DOMAIN m.uuid_to_internal = {} => m.evicted_ids = {} /\ DOMAIN m.entries = {}
<1>1. PICK d : d = DropEntries(n, ids)
  OBVIOUS
<1>2. /\ Sound(d) /\ d.dimension = n.dimension
      /\ DOMAIN d.uuid_to_internal = DOMAIN n.uuid_to_internal \ UuidsAt(n, ids)
  BY <1>1, DropSound
<1>3. m \in Rebuilt(d)
  BY <1>1
<1>4. /\ Sound(m) /\ m.dimension = d.dimension
      /\ DOMAIN m.uuid_to_internal = DOMAIN d.uuid_to_internal
      /\ m.evicted_ids = {} \/ ~NeedsRebuild(d)
      /\ m = d \/ m.evicted_ids = {}
  BY <1>2, <1>3, RebuiltSound
<1>5. ASSUME DOMAIN m.uuid_to_internal = {} PROVE m.evicted_ids = {} /\ DOMAIN m.entries = {}
  <2>1. DOMAIN m.entries = {} /\ DOMAIN d.entries = {}
    BY <1>2, <1>4, <1>5 DEF Sound, InverseTables
  <2>2. ASSUME m.evicted_ids # {} PROVE FALSE
    <3>1. m = d /\ ~NeedsRebuild(d)
      BY <1>4, <2>2
    <3>2. IsFiniteSet(d.evicted_ids) /\ Cardinality(d.evicted_ids) \in Nat
      BY <1>2, IdsFinite
    <3>3. Cardinality(d.evicted_ids) > 0
      BY <2>2, <3>1, <3>2, FS_EmptySet
    <3>4. Cardinality(DOMAIN d.entries) = 0
      BY <2>1, FS_EmptySet
    <3> QED
      BY <3>1, <3>2, <3>3, <3>4 DEF NeedsRebuild
  <2> QED
    BY <2>1, <2>2
<1> QED
  BY <1>2, <1>4, <1>5


-----------------------------------------------------------------------------
(* The namespaces together. *)

\* What holds of the tables under the lock.
Books ==
    /\ index = [ns \in Namespaces |-> index[ns]]
    /\ \A ns \in Namespaces : Sound(index[ns])
    /\ DOMAIN uuid_to_namespace \subseteq Uuids
    /\ GlobalTableAgrees

\* What holds of the clock and of the hits still to be credited.
Credits ==
    /\ clock \in 0..MaxTime
    /\ query = [r \in Readers |-> query[r]]
    /\ \A r \in Readers :
         query[r] = None \/ query[r] \in [ns : Namespaces, internal_id : Nat, id : Uuids]

\* The inductive invariant.
IndexInv == Books /\ Credits

\* A step that takes the entries gone, and no other, out of all the tables.
Removes(gone) ==
    /\ index' = [ns \in Namespaces |-> index'[ns]]
    /\ \A ns \in Namespaces :
         /\ Sound(index'[ns])
         /\ DOMAIN index'[ns].uuid_to_internal = DOMAIN index[ns].uuid_to_internal \ gone
    /\ DOMAIN uuid_to_namespace' = DOMAIN uuid_to_namespace \ gone
    /\ \A u \in DOMAIN uuid_to_namespace' : uuid_to_namespace'[u] = uuid_to_namespace[u]

\* What becomes of the dimensions: they stay, or those of empty conversations
\* go, or those of all the namespaces that were empty go.
KeepsDimensions ==
    \A ns \in Namespaces : index'[ns].dimension = index[ns].dimension

PrunesDimensions ==
    \A ns \in Namespaces :
        index'[ns].dimension =
            IF ns \in ConvNamespaces /\ DOMAIN index'[ns].uuid_to_internal = {}
            THEN None ELSE index[ns].dimension

ReloadsDimensions ==
    \A ns \in Namespaces :
        index'[ns].dimension =
            IF DOMAIN index[ns].uuid_to_internal = {} THEN None ELSE index[ns].dimension

\* A removal from all the tables leaves them in agreement.
LEMMA RemovalAgrees ==
    ASSUME Books, NEW gone, Removes(gone),
           KeepsDimensions \/ PrunesDimensions \/ ReloadsDimensions
    PROVE  Books'
<1>1. \A ns \in Namespaces : \/ index'[ns].dimension = index[ns].dimension
                             \/ DOMAIN index'[ns].uuid_to_internal = {}
  BY DEF KeepsDimensions, PrunesDimensions, ReloadsDimensions, Removes
<1>2. NsOf \in [Uuids -> Namespaces]
  BY IndexAssumption
<1>3. GlobalTableAgrees'
  BY <1>1, <1>2 DEF Books, Removes, GlobalTableAgrees
<1> QED
  BY <1>3 DEF Books, Removes

\* Entries taken from the namespaces each are taken from the index: no other
\* namespace holds them.
LEMMA TakenFromAll ==
    ASSUME Books, NEW D, \A ns \in Namespaces : D[ns] \subseteq DOMAIN index[ns].uuid_to_internal
    PROVE  \A ns \in Namespaces : DOMAIN index[ns].uuid_to_internal \ D[ns]
             = DOMAIN index[ns].uuid_to_internal \ UNION {D[ms] : ms \in Namespaces}
BY DEF Books, GlobalTableAgrees

\* The entries of a namespace at ids of its table are its own.
LEMMA UuidsAtOwn ==
    ASSUME NEW n, Sound(n), NEW ids \in SUBSET DOMAIN n.entries
    PROVE  UuidsAt(n, ids) \subseteq DOMAIN n.uuid_to_internal
BY DEF Sound, InverseTables, UuidsAt

LEMMA BooksInit == Init => Books /\ Credits
<1> SUFFICES ASSUME Init PROVE Books /\ Credits
  OBVIOUS
<1>1. \A ns \in Namespaces : index[ns] = NewNamespace
  BY DEF Init
<1>2. Sound(NewNamespace) /\ DOMAIN NewNamespace.uuid_to_internal = {}
  BY NewIsSound
<1>3. DOMAIN uuid_to_namespace = {}
  BY DEF Init, Empty
<1>4. Books
  BY <1>1, <1>2, <1>3 DEF Init, Books, GlobalTableAgrees
<1>5. Credits
  BY IndexAssumption DEF Init, Credits
<1> QED
  BY <1>4, <1>5

\* replay_entry: the entry is there afterwards, whether it was before or not.
LEMMA InsertStep ==
    ASSUME IndexInv, NEW u \in Uuids, NEW t \in 0..MaxTime, Insert(u, t)
    PROVE  /\ Books'
           /\ index[NsOf[u]].dimension \in {None, DimOf[u]}
           /\ index'[NsOf[u]].dimension = DimOf[u]
           /\ DOMAIN index'[NsOf[u]].uuid_to_internal
                = DOMAIN index[NsOf[u]].uuid_to_internal \cup {u}
           /\ \A ns \in Namespaces \ {NsOf[u]} : index'[ns] = index[ns]
<1> DEFINE ms == NsOf[u]
<1>1. PICK e : e = [uuid |-> u, inserted_at |-> t, last_accessed_at |-> t,
                    expires_at |-> IF TtlOf[u] = None THEN None ELSE t + TtlOf[u]]
  OBVIOUS
<1>2. PICK n : n = index[ms]
  OBVIOUS
<1>3. /\ n.next_id < MaxNodes
      /\ n.dimension \in {None, DimOf[u]}
      /\ index' = [index EXCEPT ![ms] = InsertWithUuid(n, e)]
      /\ uuid_to_namespace' = Put(uuid_to_namespace, u, ms)
  BY <1>1, <1>2 DEF Insert, Accepts
<1>4. /\ ms \in Namespaces /\ NsOf \in [Uuids -> Namespaces] /\ DimOf \in [Uuids -> Nat \ {0}]
      /\ TtlOf[u] \in Nat \cup {None} /\ MaxTime \in Nat
  BY IndexAssumption
<1>5. e \in CacheEntry /\ e.uuid = u
  <2>1. t \in Nat /\ (IF TtlOf[u] = None THEN None ELSE t + TtlOf[u]) \in Nat \cup {None}
    BY <1>4
  <2> QED
    BY <1>1, <2>1 DEF CacheEntry
<1>6. Books /\ Sound(n)
  BY <1>2, <1>4 DEF IndexInv, Books
<1>7. PICK m : m = InsertWithUuid(n, e)
  OBVIOUS
<1>8. /\ Sound(m) /\ m.dimension = DimOf[u]
      /\ DOMAIN m.uuid_to_internal = DOMAIN n.uuid_to_internal \cup {u}
  <2>1. CASE u \notin DOMAIN n.uuid_to_internal
    BY <1>3, <1>5, <1>6, <1>7, <2>1, InsertSound
  <2>2. CASE u \in DOMAIN n.uuid_to_internal
    <3>1. m = n
      BY <1>5, <1>7, <2>2 DEF InsertWithUuid
    <3>2. n.dimension = DimOf[u]
      BY <1>2, <1>4, <1>6, <2>2 DEF Books, GlobalTableAgrees
    <3> QED
      BY <1>6, <2>2, <3>1, <3>2
  <2> QED
    BY <2>1, <2>2
<1> HIDE DEF ms
<1>9. /\ index = [ns \in Namespaces |-> index[ns]]
      /\ index' = [index EXCEPT ![ms] = m]
  BY <1>3, <1>6, <1>7 DEF Books
<1>10. /\ index' = [ns \in Namespaces |-> index'[ns]]
       /\ index'[ms] = m
       /\ \A ns \in Namespaces \ {ms} : index'[ns] = index[ns]
  BY <1>4, <1>9
<1>11. /\ DOMAIN uuid_to_namespace' = DOMAIN uuid_to_namespace \cup {u}
       /\ uuid_to_namespace'[u] = ms
       /\ \A v \in DOMAIN uuid_to_namespace \ {u} : uuid_to_namespace'[v] = uuid_to_namespace[v]
  BY <1>3 DEF Put
<1>12. \A ns \in Namespaces : Sound(index'[ns])
  BY <1>6, <1>8, <1>10 DEF Books
<1>13. GlobalTableAgrees'
  <2>1. \A v \in DOMAIN n.uuid_to_internal : NsOf[v] = ms /\ DimOf[v] = n.dimension
                                             /\ v \in DOMAIN uuid_to_namespace
    BY <1>2, <1>4, <1>6 DEF Books, GlobalTableAgrees
  <2>2. \A v \in DOMAIN n.uuid_to_internal : DimOf[v] = DimOf[u]
    <3>1. \A v \in DOMAIN n.uuid_to_internal : v \in Uuids
      BY <1>6 DEF Sound, Typed
    <3> QED
      BY <1>3, <1>4, <2>1, <3>1, IndexAssumption
  <2>3. ASSUME NEW ns \in Namespaces, NEW v \in DOMAIN index'[ns].uuid_to_internal
        PROVE  NsOf[v] = ns /\ DimOf[v] = index'[ns].dimension /\ v \in DOMAIN uuid_to_namespace'
    <3>1. CASE ns = ms
      BY <1>8, <1>10, <1>11, <2>1, <2>2, <2>3, <3>1 DEF ms
    <3>2. CASE ns # ms
      BY <1>6, <1>10, <1>11, <2>3, <3>2 DEF Books, GlobalTableAgrees
    <3> QED
      BY <3>1, <3>2
  <2>4. ASSUME NEW v \in DOMAIN uuid_to_namespace'
        PROVE  uuid_to_namespace'[v] = NsOf[v] /\ v \in DOMAIN index'[NsOf[v]].uuid_to_internal
    <3>1. CASE v = u
      BY <1>8, <1>10, <1>11, <3>1 DEF ms
    <3>2. CASE v # u
      <4>1. /\ v \in DOMAIN uuid_to_namespace /\ uuid_to_namespace'[v] = uuid_to_namespace[v]
            /\ uuid_to_namespace[v] = NsOf[v] /\ v \in DOMAIN index[NsOf[v]].uuid_to_internal
            /\ NsOf[v] \in Namespaces
        BY <1>4, <1>6, <1>11, <2>4, <3>2 DEF Books, GlobalTableAgrees
      <4> QED
        BY <1>2, <1>8, <1>10, <4>1
    <3> QED
      BY <3>1, <3>2
  <2> QED
    BY <2>3, <2>4 DEF GlobalTableAgrees
<1>14. Books'
  BY <1>6, <1>10, <1>11, <1>12, <1>13 DEF Books
<1> QED
  BY <1>2, <1>3, <1>8, <1>10, <1>14 DEF ms


\* Entries dropped from one namespace.
LEMMA DropStep ==
    ASSUME Books, NEW ms \in Namespaces, NEW ids \in SUBSET DOMAIN index[ms].entries,
           NEW gone, index' = [index EXCEPT ![ms] = DropEntries(index[ms], ids)],
           Forget(gone), UuidsAt(index[ms], ids) = gone
    PROVE  Removes(gone) /\ KeepsDimensions
<1>1. PICK m : m = DropEntries(index[ms], ids)
  OBVIOUS
<1>2. Sound(index[ms])
  BY DEF Books
<1>3. /\ Sound(m) /\ m.dimension = index[ms].dimension
      /\ DOMAIN m.uuid_to_internal = DOMAIN index[ms].uuid_to_internal \ gone
  BY <1>1, <1>2, DropSound
<1>4. /\ index' = [ns \in Namespaces |-> index'[ns]] /\ index'[ms] = m
      /\ \A ns \in Namespaces \ {ms} : index'[ns] = index[ns]
  BY <1>1 DEF Books
<1>5. gone \subseteq DOMAIN index[ms].uuid_to_internal
  BY <1>2, UuidsAtOwn
<1>6. \A ns \in Namespaces \ {ms} :
        DOMAIN index[ns].uuid_to_internal = DOMAIN index[ns].uuid_to_internal \ gone
  BY <1>5 DEF Books, GlobalTableAgrees
<1>7. /\ DOMAIN uuid_to_namespace' = DOMAIN uuid_to_namespace \ gone
      /\ \A u \in DOMAIN uuid_to_namespace' : uuid_to_namespace'[u] = uuid_to_namespace[u]
  BY DEF Forget, Restrict
<1>8. \A ns \in Namespaces : Sound(index[ns])
  BY DEF Books
<1>9. Removes(gone)
  BY <1>3, <1>4, <1>6, <1>7, <1>8 DEF Removes
<1> QED
  BY <1>3, <1>4, <1>9 DEF KeepsDimensions

LEMMA RemoveByUuidStep ==
    ASSUME Books, NEW u \in Uuids, RemoveByUuid(u)
    PROVE  Removes({u}) /\ KeepsDimensions
<1> DEFINE ms == uuid_to_namespace[u]
           n == index[ms]
           ids == {n.uuid_to_internal[v] : v \in {u} \cap DOMAIN n.uuid_to_internal}
<1>1. /\ u \in DOMAIN uuid_to_namespace
      /\ index' = [index EXCEPT ![ms] = DropEntries(n, ids)]
      /\ Forget({u})
  BY DEF RemoveByUuid
<1>2. ms \in Namespaces /\ u \in DOMAIN n.uuid_to_internal
  BY <1>1, IndexAssumption DEF Books, GlobalTableAgrees
<1>3. Sound(n)
  BY <1>2 DEF Books
<1>4. ids = {n.uuid_to_internal[u]}
  BY <1>2
<1>5. n.uuid_to_internal[u] \in DOMAIN n.entries /\ n.entries[n.uuid_to_internal[u]].uuid = u
  BY <1>2, <1>3 DEF Sound, InverseTables
<1>6. ids \in SUBSET DOMAIN n.entries /\ UuidsAt(n, ids) = {u}
  BY <1>4, <1>5 DEF UuidsAt
<1> HIDE DEF ms, ids
<1> QED
  BY <1>1, <1>2, <1>6, DropStep

LEMMA InvalidateStep ==
    ASSUME Books, NEW ns \in Namespaces, NEW p \in Probes, InvalidateSimilar(ns, p)
    PROVE  \E gone : Removes(gone) /\ KeepsDimensions
<1> DEFINE ids == {i \in DOMAIN index[ns].entries \ index[ns].evicted_ids :
                     /\ ~Expired(index[ns].entries[i], clock)
                     /\ Distance[p][index[ns].entries[i].uuid] <= Radius}
           gone == UuidsAt(index[ns], ids)
<1>1. index' = [index EXCEPT ![ns] = DropEntries(index[ns], ids)] /\ Forget(gone)
  BY DEF InvalidateSimilar
<1>2. ids \in SUBSET DOMAIN index[ns].entries
  OBVIOUS
<1> HIDE DEF ids
<1>3. Removes(gone) /\ KeepsDimensions
  BY <1>1, <1>2, DropStep
<1> QED
  BY <1>3

\* What RebuildDirty leaves of a namespace.
LEMMA RebuildDirtySays ==
    ASSUME NEW f, NEW g \in RebuildDirty(f)
    PROVE  g = [ns \in Namespaces |-> g[ns]] /\ \A ns \in Namespaces : g[ns] \in Rebuilt(f[ns])
BY DEF RebuildDirty

LEMMA EvictStep ==
    ASSUME Books, EvictToCap
    PROVE  \E gone : Removes(gone) /\ KeepsDimensions
<1> DEFINE old(ns) == Victims(index[ns])
           capped == [ns \in Namespaces |-> DropEntries(index[ns], old(ns))]
           D == [ns \in Namespaces |-> UuidsAt(index[ns], old(ns))]
           gone == UNION {UuidsAt(index[ns], old(ns)) : ns \in Namespaces}
<1>1. index' \in RebuildDirty(capped) /\ Forget(gone)
  BY DEF EvictToCap
<1>2. ASSUME NEW ns \in Namespaces
      PROVE  capped[ns] = DropEntries(index[ns], old(ns)) /\ Sound(index[ns])
             /\ old(ns) \in SUBSET DOMAIN index[ns].entries
             /\ D[ns] = UuidsAt(index[ns], old(ns))
  BY DEF Books, Victims
<1>3. gone = UNION {D[ns] : ns \in Namespaces}
  OBVIOUS
<1> HIDE DEF old, capped, D, gone
<1>4. /\ index' = [ns \in Namespaces |-> index'[ns]]
      /\ \A ns \in Namespaces : index'[ns] \in Rebuilt(capped[ns])
  BY <1>1, RebuildDirtySays
<1>5. ASSUME NEW ns \in Namespaces
      PROVE  /\ Sound(index'[ns]) /\ index'[ns].dimension = index[ns].dimension
             /\ DOMAIN index'[ns].uuid_to_internal = DOMAIN index[ns].uuid_to_internal \ D[ns]
             /\ D[ns] \subseteq DOMAIN index[ns].uuid_to_internal
  <2>1. PICK m : m = index'[ns]
    OBVIOUS
  <2>2. m \in Rebuilt(DropEntries(index[ns], old(ns)))
    BY <1>2, <1>4, <2>1
  <2>3. /\ Sound(m) /\ m.dimension = index[ns].dimension
        /\ DOMAIN m.uuid_to_internal
             = DOMAIN index[ns].uuid_to_internal \ UuidsAt(index[ns], old(ns))
    BY <1>2, <2>2, RebuiltAfterDrop
  <2>4. UuidsAt(index[ns], old(ns)) \subseteq DOMAIN index[ns].uuid_to_internal
    BY <1>2, UuidsAtOwn
  <2> QED
    BY <1>2, <2>1, <2>3, <2>4
<1>6. \A ns \in Namespaces : DOMAIN index[ns].uuid_to_internal \ D[ns]
                               = DOMAIN index[ns].uuid_to_internal \ gone
  BY <1>3, <1>5, TakenFromAll
<1>7. /\ DOMAIN uuid_to_namespace' = DOMAIN uuid_to_namespace \ gone
      /\ \A u \in DOMAIN uuid_to_namespace' : uuid_to_namespace'[u] = uuid_to_namespace[u]
  BY <1>1 DEF Forget, Restrict
<1>8. Removes(gone)
  BY <1>4, <1>5, <1>6, <1>7 DEF Removes
<1>9. KeepsDimensions
  BY <1>5 DEF KeepsDimensions
<1> QED
  BY <1>8, <1>9

LEMMA SweepStep ==
    ASSUME Books, Sweep
    PROVE  \E gone : Removes(gone) /\ PrunesDimensions
<1> DEFINE dead(ns) == ExpiredIds(index[ns], clock)
           swept == [ns \in Namespaces |-> DropEntries(index[ns], dead(ns))]
           D == [ns \in Namespaces |-> UuidsAt(index[ns], dead(ns))]
           gone == UNION {UuidsAt(index[ns], dead(ns)) : ns \in Namespaces}
<1>1. PICK next \in RebuildDirty(swept) : index' = [ns \in Namespaces |-> Pruned(next[ns], ns)]
  BY DEF Sweep
<1>2. Forget(gone)
  BY DEF Sweep
<1>3. ASSUME NEW ns \in Namespaces
      PROVE  swept[ns] = DropEntries(index[ns], dead(ns)) /\ Sound(index[ns])
             /\ dead(ns) \in SUBSET DOMAIN index[ns].entries
             /\ D[ns] = UuidsAt(index[ns], dead(ns))
  BY DEF Books, ExpiredIds
<1>4. gone = UNION {D[ns] : ns \in Namespaces}
  OBVIOUS
<1> HIDE DEF dead, swept, D, gone
<1>5. \A ns \in Namespaces : next[ns] \in Rebuilt(swept[ns])
  BY <1>1, RebuildDirtySays
<1>6. ASSUME NEW ns \in Namespaces
      PROVE  /\ Sound(index'[ns])
             /\ DOMAIN index'[ns].uuid_to_internal = DOMAIN index[ns].uuid_to_internal \ D[ns]
             /\ D[ns] \subseteq DOMAIN index[ns].uuid_to_internal
             /\ index'[ns].dimension =
                  IF ns \in ConvNamespaces /\ DOMAIN index'[ns].uuid_to_internal = {}
                  THEN None ELSE index[ns].dimension
  <2>1. next[ns] \in Rebuilt(DropEntries(index[ns], dead(ns)))
    BY <1>3, <1>5
  <2>2. /\ Sound(next[ns]) /\ next[ns].dimension = index[ns].dimension
        /\ DOMAIN next[ns].uuid_to_internal
             = DOMAIN index[ns].uuid_to_internal \ UuidsAt(index[ns], dead(ns))
        /\ DOMAIN next[ns].uuid_to_internal = {} =>
             next[ns].evicted_ids = {} /\ DOMAIN next[ns].entries = {}
    BY <1>3, <2>1, RebuiltAfterDrop
  <2>3. UuidsAt(index[ns], dead(ns)) \subseteq DOMAIN index[ns].uuid_to_internal
    BY <1>3, UuidsAtOwn
  <2>4. index'[ns] = Pruned(next[ns], ns)
    BY <1>1
  <2>5. /\ Sound(index'[ns])
        /\ DOMAIN index'[ns].uuid_to_internal = DOMAIN next[ns].uuid_to_internal
        /\ index'[ns].dimension =
             IF ns \in ConvNamespaces /\ DOMAIN next[ns].entries = {} /\ next[ns].evicted_ids = {}
             THEN None ELSE next[ns].dimension
    BY <2>2, <2>4, PrunedSound
  <2>6. DOMAIN next[ns].entries = {} => DOMAIN next[ns].uuid_to_internal = {}
    BY <2>2 DEF Sound, InverseTables
  <2> QED
    BY <1>3, <2>2, <2>3, <2>5, <2>6
<1>7. \A ns \in Namespaces : DOMAIN index[ns].uuid_to_internal \ D[ns]
                               = DOMAIN index[ns].uuid_to_internal \ gone
  BY <1>4, <1>6, TakenFromAll
<1>8. /\ DOMAIN uuid_to_namespace' = DOMAIN uuid_to_namespace \ gone
      /\ \A u \in DOMAIN uuid_to_namespace' : uuid_to_namespace'[u] = uuid_to_namespace[u]
  BY <1>2 DEF Forget, Restrict
<1>9. index' = [ns \in Namespaces |-> index'[ns]]
  BY <1>1
<1>10. Removes(gone)
  BY <1>6, <1>7, <1>8, <1>9 DEF Removes
<1>11. PrunesDimensions
  BY <1>6 DEF PrunesDimensions
<1> QED
  BY <1>10, <1>11


LEMMA ReloadStep ==
    ASSUME Books, Reload
    PROVE  \E gone : Removes(gone) /\ ReloadsDimensions
<1>1. PICK f : /\ \A ns \in Namespaces : f[ns] \in DrainOrders(index[ns])
               /\ index' = [ns \in Namespaces |->
                    LET r == Reloaded(index[ns], f[ns])
                    IN  DropEntries(r, ExpiredIds(r, clock))]
               /\ uuid_to_namespace' =
                    [u \in UNION {DOMAIN index'[ns].uuid_to_internal : ns \in Namespaces} |-> NsOf[u]]
  BY DEF Reload
<1> DEFINE back(ns) == Reloaded(index[ns], f[ns])
           dead(ns) == ExpiredIds(back(ns), clock)
           D == [ns \in Namespaces |-> DOMAIN index[ns].uuid_to_internal \cap UuidsAt(back(ns), dead(ns))]
           gone == UNION {D[ns] : ns \in Namespaces}
<1>2. ASSUME NEW ns \in Namespaces
      PROVE  /\ Sound(index'[ns])
             /\ DOMAIN index'[ns].uuid_to_internal = DOMAIN index[ns].uuid_to_internal \ D[ns]
             /\ D[ns] \subseteq DOMAIN index[ns].uuid_to_internal
             /\ index'[ns].dimension =
                  IF DOMAIN index[ns].uuid_to_internal = {} THEN None ELSE index[ns].dimension
  <2>1. PICK r : r = Reloaded(index[ns], f[ns])
    OBVIOUS
  <2>2. Sound(index[ns]) /\ f[ns] \in DrainOrders(index[ns])
    BY <1>1 DEF Books
  <2>3. /\ Sound(r) /\ DOMAIN r.uuid_to_internal = DOMAIN index[ns].uuid_to_internal
        /\ r.dimension = IF DOMAIN index[ns].uuid_to_internal = {} THEN None
                         ELSE index[ns].dimension
    BY <2>1, <2>2, ReloadedSound
  <2>4. PICK ids : ids = ExpiredIds(r, clock)
    OBVIOUS
  <2>5. ids \in SUBSET DOMAIN r.entries
    BY <2>4 DEF ExpiredIds
  <2>6. PICK m : m = index'[ns]
    OBVIOUS
  <2>7. m = DropEntries(r, ids)
    BY <1>1, <2>1, <2>4, <2>6
  <2>8. /\ Sound(m) /\ m.dimension = r.dimension
        /\ DOMAIN m.uuid_to_internal = DOMAIN r.uuid_to_internal \ UuidsAt(r, ids)
    BY <2>3, <2>5, <2>7, DropSound
  <2>9. D[ns] = DOMAIN index[ns].uuid_to_internal \cap UuidsAt(r, ids)
    BY <2>1, <2>4
  <2> HIDE DEF D
  <2> QED
    BY <2>3, <2>6, <2>8, <2>9
<1> HIDE DEF D
<1>3. PICK g : g = gone
  OBVIOUS
<1>4. \A ns \in Namespaces : DOMAIN index[ns].uuid_to_internal \ D[ns]
                               = DOMAIN index[ns].uuid_to_internal \ g
  BY <1>2, <1>3, TakenFromAll
<1>5. index' = [ns \in Namespaces |-> index'[ns]]
  BY <1>1
<1>6. \A ns \in Namespaces : DOMAIN index'[ns].uuid_to_internal = DOMAIN index[ns].uuid_to_internal \ g
  BY <1>2, <1>4
<1>7. DOMAIN uuid_to_namespace' = UNION {DOMAIN index'[ns].uuid_to_internal : ns \in Namespaces}
      /\ \A u \in DOMAIN uuid_to_namespace' : uuid_to_namespace'[u] = NsOf[u]
  BY <1>1
<1>8. DOMAIN uuid_to_namespace = UNION {DOMAIN index[ns].uuid_to_internal : ns \in Namespaces}
      /\ \A u \in DOMAIN uuid_to_namespace : uuid_to_namespace[u] = NsOf[u]
  <2>1. \A u \in DOMAIN uuid_to_namespace :
          /\ NsOf[u] \in Namespaces /\ u \in DOMAIN index[NsOf[u]].uuid_to_internal
          /\ uuid_to_namespace[u] = NsOf[u]
    BY IndexAssumption DEF Books, GlobalTableAgrees
  <2>2. \A ns \in Namespaces : \A u \in DOMAIN index[ns].uuid_to_internal :
          u \in DOMAIN uuid_to_namespace
    BY DEF Books, GlobalTableAgrees
  <2> QED
    BY <2>1, <2>2
<1>9. /\ DOMAIN uuid_to_namespace' = DOMAIN uuid_to_namespace \ g
      /\ \A u \in DOMAIN uuid_to_namespace' : uuid_to_namespace'[u] = uuid_to_namespace[u]
  BY <1>6, <1>7, <1>8
<1>10. Removes(g)
  BY <1>2, <1>5, <1>6, <1>9 DEF Removes
<1>11. ReloadsDimensions
  BY <1>2 DEF ReloadsDimensions
<1> QED
  BY <1>10, <1>11

\* A query answers with the id of a stored entry, if with any.
LEMMA AnswersAreIds ==
    ASSUME NEW n, NEW p, NEW now, NEW i \in Answers(n, p, now), i # None
    PROVE  i \in DOMAIN n.entries
<1>1. CASE ExactMatch(n, p, now) # None
  <2>1. i = ExactMatch(n, p, now)
    BY <1>1 DEF Answers
  <2> QED
    BY <1>1, <2>1 DEF ExactMatch
<1>2. CASE ExactMatch(n, p, now) = None
  <2>1. PICK S : i \in FirstMatch(n, p, now, S)
    BY <1>2 DEF Answers
  <2> QED
    BY <2>1 DEF FirstMatch
<1> QED
  BY <1>1, <1>2

LEMMA QueryHitStep ==
    ASSUME IndexInv, NEW r \in Readers, NEW p \in Probes, NEW ns \in Namespaces,
           QueryHit(r, p, ns)
    PROVE  UNCHANGED <<index, uuid_to_namespace, clock>> /\ Credits'
<1>1. PICK where \in {ns, BaseOf[ns]} : \E i \in Answers(index[where], p, clock) \ {None} :
        query' = [query EXCEPT ![r] = [ns |-> where, internal_id |-> i,
                                       id |-> index[where].entries[i].uuid]]
  BY DEF QueryHit
<1>2. PICK i \in Answers(index[where], p, clock) \ {None} :
        query' = [query EXCEPT ![r] = [ns |-> where, internal_id |-> i,
                                       id |-> index[where].entries[i].uuid]]
  BY <1>1
<1>3. where \in Namespaces
  BY IndexAssumption
<1>4. Sound(index[where])
  BY <1>3 DEF IndexInv, Books
<1>5. i \in DOMAIN index[where].entries
  BY AnswersAreIds
<1>6. i \in Nat
  BY <1>4, <1>5, IdsFinite
<1>7. index[where].entries[i].uuid \in Uuids
  BY <1>4, <1>5 DEF Sound, Typed, CacheEntry
<1>8. UNCHANGED <<index, uuid_to_namespace, clock>>
  BY DEF QueryHit
<1>9. PICK h : h = [ns |-> where, internal_id |-> i, id |-> index[where].entries[i].uuid]
  OBVIOUS
<1>10. h \in [ns : Namespaces, internal_id : Nat, id : Uuids]
  BY <1>3, <1>6, <1>7, <1>9
<1>11. Credits'
  BY <1>2, <1>8, <1>9, <1>10 DEF IndexInv, Credits
<1> QED
  BY <1>8, <1>11

\* record_access touches a time of use and nothing else, whatever entry has the
\* internal id by now.
LEMMA RecordAccessStep ==
    ASSUME IndexInv, NEW r \in Readers, RecordAccess(r)
    PROVE  Removes({}) /\ KeepsDimensions /\ Credits'
<1> DEFINE ms == query[r].ns
           i == query[r].internal_id
<1>1. Books /\ Credits
  BY DEF IndexInv
<1>2. ms \in Namespaces
  BY <1>1 DEF RecordAccess, Credits
<1>3. Credits'
  BY <1>1 DEF RecordAccess, Credits
<1>4. index' = (IF i \in DOMAIN index[ms].entries
                THEN [index EXCEPT ![ms].entries[i].last_accessed_at = clock] ELSE index)
      /\ uuid_to_namespace' = uuid_to_namespace
  BY DEF RecordAccess
<1> HIDE DEF ms, i
<1>5. CASE i \notin DOMAIN index[ms].entries
  <2>1. index' = index
    BY <1>4, <1>5
  <2> QED
    BY <1>1, <1>3, <1>4, <2>1 DEF Books, Removes, KeepsDimensions
<1>6. CASE i \in DOMAIN index[ms].entries
  <2>1. PICK n : n = index[ms]
    OBVIOUS
  <2>2. PICK e : e = n.entries[i]
    OBVIOUS
  <2>3. PICK d : d = [e EXCEPT !.last_accessed_at = clock]
    OBVIOUS
  <2>4. PICK es : es = [n.entries EXCEPT ![i] = d]
    OBVIOUS
  <2>5. PICK m : m = [n EXCEPT !.entries = es]
    OBVIOUS
  <2>6. index' = [index EXCEPT ![ms] = m]
    BY <1>4, <1>6, <2>1, <2>2, <2>3, <2>4, <2>5
  <2>7. Sound(n)
    BY <1>1, <1>2, <2>1 DEF Books
  <2>8. Shaped(n) /\ Typed(n) /\ NodesAccounted(n) /\ InverseTables(n) /\ TextsOwned(n)
    BY <2>7 DEF Sound
  <2>9. /\ Shaped(m) /\ m.entries = es /\ m.uuid_to_internal = n.uuid_to_internal
        /\ m.evicted_ids = n.evicted_ids /\ m.exact_match_index = n.exact_match_index
        /\ m.next_id = n.next_id /\ m.dimension = n.dimension /\ m.graph = n.graph
    BY <2>5, <2>8 DEF Shaped
  <2>10. e \in CacheEntry /\ clock \in Nat
    BY <1>1, <1>6, <2>1, <2>2, <2>8, IndexAssumption DEF Typed, Credits
  <2>11. d \in CacheEntry /\ d.uuid = e.uuid
    BY <2>3, <2>10 DEF CacheEntry
  <2>12. /\ DOMAIN es = DOMAIN n.entries /\ es[i] = d
         /\ \A j \in DOMAIN n.entries \ {i} : es[j] = n.entries[j]
    BY <1>6, <2>1, <2>4
  <2>13. \A j \in DOMAIN n.entries : es[j] \in CacheEntry /\ es[j].uuid = n.entries[j].uuid
    BY <2>2, <2>8, <2>11, <2>12 DEF Typed
  <2>14. Typed(m)
    BY <2>8, <2>9, <2>12, <2>13 DEF Typed
  <2>15. NodesAccounted(m)
    BY <2>8, <2>9, <2>12, <2>13 DEF NodesAccounted
  <2>16. InverseTables(m)
    BY <2>8, <2>9, <2>12, <2>13 DEF InverseTables
  <2>17. TextsOwned(m)
    BY <2>8, <2>9 DEF TextsOwned
  <2>18. Sound(m)
    BY <2>9, <2>14, <2>15, <2>16, <2>17 DEF Sound
  <2>19. /\ index' = [ns \in Namespaces |-> index'[ns]] /\ index'[ms] = m
         /\ \A ns \in Namespaces \ {ms} : index'[ns] = index[ns]
    BY <1>1, <1>2, <2>6 DEF Books
  <2>20. \A ns \in Namespaces : Sound(index[ns])
    BY <1>1 DEF Books
  <2>21. Removes({})
    BY <1>4, <2>1, <2>9, <2>18, <2>19, <2>20 DEF Removes
  <2>22. KeepsDimensions
    BY <2>1, <2>9, <2>19 DEF KeepsDimensions
  <2> QED
    BY <1>3, <2>21, <2>22
<1> QED
  BY <1>5, <1>6


LEMMA IndexNext == IndexInv /\ [Next]_vars => IndexInv'
<1> SUFFICES ASSUME IndexInv, [Next]_vars PROVE IndexInv'
  OBVIOUS
<1>1. Books /\ Credits
  BY DEF IndexInv
<1>2. ASSUME UNCHANGED <<clock, query>> PROVE Credits'
  BY <1>1, <1>2 DEF Credits
<1>3. ASSUME UNCHANGED <<index, uuid_to_namespace>> PROVE Books'
  BY <1>1, <1>3 DEF Books, GlobalTableAgrees
<1>4. ASSUME NEW u \in Uuids, NEW t \in 0..MaxTime, Insert(u, t) PROVE IndexInv'
  <2>1. Books'
    BY <1>4, InsertStep
  <2>2. UNCHANGED <<clock, query>>
    BY <1>4 DEF Insert
  <2> QED
    BY <1>2, <2>1, <2>2 DEF IndexInv
<1>5. ASSUME NEW u \in Uuids, RemoveByUuid(u) PROVE IndexInv'
  <2>1. UNCHANGED <<clock, query>>
    BY <1>5 DEF RemoveByUuid
  <2> QED
    BY <1>1, <1>2, <1>5, <2>1, RemoveByUuidStep, RemovalAgrees DEF IndexInv
<1>6. ASSUME NEW ns \in Namespaces, NEW p \in Probes, InvalidateSimilar(ns, p) PROVE IndexInv'
  <2>1. UNCHANGED <<clock, query>>
    BY <1>6 DEF InvalidateSimilar
  <2> QED
    BY <1>1, <1>2, <1>6, <2>1, InvalidateStep, RemovalAgrees DEF IndexInv
<1>7. ASSUME EvictToCap PROVE IndexInv'
  <2>1. UNCHANGED <<clock, query>>
    BY <1>7 DEF EvictToCap
  <2> QED
    BY <1>1, <1>2, <1>7, <2>1, EvictStep, RemovalAgrees DEF IndexInv
<1>8. ASSUME Sweep PROVE IndexInv'
  <2>1. UNCHANGED <<clock, query>>
    BY <1>8 DEF Sweep
  <2> QED
    BY <1>1, <1>2, <1>8, <2>1, SweepStep, RemovalAgrees DEF IndexInv
<1>9. ASSUME NEW r \in Readers, NEW p \in Probes, NEW ns \in Namespaces, QueryHit(r, p, ns)
      PROVE  IndexInv'
  BY <1>3, <1>9, QueryHitStep DEF IndexInv
<1>10. ASSUME NEW r \in Readers, RecordAccess(r) PROVE IndexInv'
  BY <1>1, <1>10, RecordAccessStep, RemovalAgrees DEF IndexInv
<1>11. ASSUME Tick PROVE IndexInv'
  <2>1. Credits'
    BY <1>1, <1>11, IndexAssumption DEF Tick, Credits
  <2>2. UNCHANGED <<index, uuid_to_namespace>>
    BY <1>11 DEF Tick
  <2> QED
    BY <1>3, <2>1, <2>2 DEF IndexInv
<1>12. ASSUME Reload PROVE IndexInv'
  <2>1. Credits'
    BY <1>1, <1>12 DEF Reload, Credits
  <2> QED
    BY <1>1, <1>12, <2>1, ReloadStep, RemovalAgrees DEF IndexInv
<1>13. ASSUME UNCHANGED vars PROVE IndexInv'
  <2>1. UNCHANGED <<clock, query>> /\ UNCHANGED <<index, uuid_to_namespace>>
    BY <1>13 DEF vars
  <2> QED
    BY <1>2, <1>3, <2>1 DEF IndexInv
<1> QED
  BY <1>4, <1>5, <1>6, <1>7, <1>8, <1>9, <1>10, <1>11, <1>12, <1>13 DEF Next

\* The tables of index.rs agree after every sequence of inserts, removals,
\* evictions, sweeps, rebuilds, credited hits and restarts.
THEOREM SideTablesAgreeHolds == Spec => []SideTablesAgree
<1>1. Init => IndexInv
  BY BooksInit DEF IndexInv
<1>2. IndexInv => SideTablesAgree
  <2> SUFFICES ASSUME IndexInv PROVE SideTablesAgree
    OBVIOUS
  <2>1. \A ns \in Namespaces : /\ Typed(index[ns]) /\ NodesAccounted(index[ns])
                               /\ InverseTables(index[ns]) /\ TextsOwned(index[ns])
    BY DEF IndexInv, Books, Sound
  <2>2. TypeOK
    BY <2>1 DEF IndexInv, Books, Credits, TypeOK, Typed
  <2> QED
    BY <2>1, <2>2 DEF IndexInv, Books, SideTablesAgree
<1> QED
  BY <1>1, <1>2, IndexNext, PTL DEF Spec


-----------------------------------------------------------------------------
(* The index as the rest of the node sees it. *)

\* The entries of a namespace are the live ones that belong there.
LEMMA LiveOf ==
    ASSUME Books
    PROVE  \A ns \in Namespaces : DOMAIN index[ns].uuid_to_internal = {u \in Live : NsOf[u] = ns}
<1>1. \A ns \in Namespaces : \A u \in DOMAIN index[ns].uuid_to_internal : u \in Uuids /\ NsOf[u] = ns
  BY DEF Books, Sound, Typed, GlobalTableAgrees
<1> QED
  BY <1>1, IndexAssumption DEF Live

\* A removal from the tables removes from the set of live entries.
LEMMA RemovesLive ==
    ASSUME Books, NEW gone, Removes(gone)
    PROVE  /\ \E S \in SUBSET Live : Live' = Live \ S
           /\ \A ns \in Namespaces :
                DOMAIN index'[ns].uuid_to_internal = {u \in Live' : NsOf[u] = ns}
<1>1. Live' = Live \ gone
  BY IndexAssumption DEF Live, Removes
<1>2. \A ns \in Namespaces : DOMAIN index[ns].uuid_to_internal = {u \in Live : NsOf[u] = ns}
  BY LiveOf
<1>3. Live \cap gone \in SUBSET Live /\ Live' = Live \ (Live \cap gone)
  BY <1>1
<1> QED
  BY <1>1, <1>2, <1>3 DEF Removes

LEMMA ImplementsNext ==
    IndexInv /\ [Next]_vars
        => [Contract!Next]_<<Live, [ns \in Namespaces |-> index[ns].dimension]>>
<1> DEFINE dims == [ns \in Namespaces |-> index[ns].dimension]
<1> SUFFICES ASSUME IndexInv, [Next]_vars
             PROVE  Contract!Next \/ (Live' = Live /\ dims' = dims)
  OBVIOUS
<1>1. Books
  BY DEF IndexInv
<1>2. ASSUME UNCHANGED index PROVE Live' = Live /\ dims' = dims
  BY <1>2 DEF Live
<1>3. ASSUME NEW gone, Removes(gone), KeepsDimensions PROVE Contract!Next
  <2>1. PICK S \in SUBSET Live : Live' = Live \ S
    BY <1>1, <1>3, RemovesLive
  <2>2. dims' = dims
    BY <1>3 DEF KeepsDimensions
  <2>3. Contract!Remove(S)
    BY <2>1, <2>2 DEF Contract!Remove
  <2> QED
    BY <2>1, <2>3 DEF Contract!Next
<1>4. ASSUME NEW gone, Removes(gone), PrunesDimensions PROVE Contract!Next
  <2>1. PICK S \in SUBSET Live : Live' = Live \ S
    BY <1>1, <1>4, RemovesLive
  <2>2. \A ns \in Namespaces : DOMAIN index'[ns].uuid_to_internal = Contract!In(ns, Live')
    BY <1>1, <1>4, RemovesLive DEF Contract!In
  <2>3. dims' = [ns \in Namespaces |->
                   IF ns \in ConvNamespaces /\ Contract!In(ns, Live') = {}
                   THEN None ELSE dims[ns]]
    BY <1>4, <2>2 DEF PrunesDimensions
  <2>4. Contract!Sweep(S)
    BY <2>1, <2>3 DEF Contract!Sweep
  <2> QED
    BY <2>1, <2>4 DEF Contract!Next
<1>5. ASSUME NEW gone, Removes(gone), ReloadsDimensions PROVE Contract!Next
  <2>1. PICK S \in SUBSET Live : Live' = Live \ S
    BY <1>1, <1>5, RemovesLive
  <2>2. \A ns \in Namespaces : DOMAIN index[ns].uuid_to_internal = Contract!In(ns, Live)
    BY <1>1, LiveOf DEF Contract!In
  <2>3. dims' = [ns \in Namespaces |->
                   IF Contract!In(ns, Live) = {} THEN None ELSE dims[ns]]
    BY <1>5, <2>2 DEF ReloadsDimensions
  <2>4. Contract!Restart(S)
    BY <2>1, <2>3 DEF Contract!Restart
  <2> QED
    BY <2>1, <2>4 DEF Contract!Next
<1>6. ASSUME NEW u \in Uuids, NEW t \in 0..MaxTime, Insert(u, t) PROVE Contract!Next
  <2>1. /\ index[NsOf[u]].dimension \in {None, DimOf[u]}
        /\ index'[NsOf[u]].dimension = DimOf[u]
        /\ DOMAIN index'[NsOf[u]].uuid_to_internal
             = DOMAIN index[NsOf[u]].uuid_to_internal \cup {u}
        /\ \A ns \in Namespaces \ {NsOf[u]} : index'[ns] = index[ns]
    BY <1>6, InsertStep
  <2>2. NsOf[u] \in Namespaces /\ NsOf \in [Uuids -> Namespaces]
    BY IndexAssumption
  <2>3. Live' = Live \cup {u}
    <3>1. ASSUME NEW v \in Uuids, v # u
          PROVE  v \in DOMAIN index'[NsOf[v]].uuid_to_internal
                   <=> v \in DOMAIN index[NsOf[v]].uuid_to_internal
      BY <2>1, <2>2, <3>1
    <3> QED
      BY <2>1, <2>2, <3>1 DEF Live
  <2>4. dims' = [dims EXCEPT ![NsOf[u]] = DimOf[u]]
    BY <2>1, <2>2
  <2>5. Contract!Insert(u)
    BY <2>1, <2>2, <2>3, <2>4 DEF Contract!Insert
  <2> QED
    BY <2>5 DEF Contract!Next
<1>7. ASSUME NEW u \in Uuids, RemoveByUuid(u) PROVE Contract!Next
  BY <1>1, <1>3, <1>7, RemoveByUuidStep
<1>8. ASSUME NEW ns \in Namespaces, NEW p \in Probes, InvalidateSimilar(ns, p) PROVE Contract!Next
  BY <1>1, <1>3, <1>8, InvalidateStep
<1>9. ASSUME EvictToCap PROVE Contract!Next
  BY <1>1, <1>3, <1>9, EvictStep
<1>10. ASSUME Sweep PROVE Contract!Next
  BY <1>1, <1>4, <1>10, SweepStep
<1>11. ASSUME NEW r \in Readers, NEW p \in Probes, NEW ns \in Namespaces, QueryHit(r, p, ns)
       PROVE  UNCHANGED index
  BY <1>11 DEF QueryHit
<1>12. ASSUME NEW r \in Readers, RecordAccess(r) PROVE Contract!Next
  BY <1>3, <1>12, RecordAccessStep
<1>13. ASSUME Tick \/ UNCHANGED vars PROVE UNCHANGED index
  BY <1>13 DEF Tick, vars
<1>14. ASSUME Reload PROVE Contract!Next
  BY <1>1, <1>5, <1>14, ReloadStep
<1> QED
  BY <1>2, <1>6, <1>7, <1>8, <1>9, <1>10, <1>11, <1>12, <1>13, <1>14 DEF Next

\* Ghosts, rebuilds, renumbering, credited hits and queries cannot be seen from
\* outside: the tables implement the set of entries with a dimension for each
\* namespace, on which the flush task, the reaper and the handlers rely.
THEOREM ImplementsCacheIndexHolds == Spec => ImplementsCacheIndex
<1>1. Init => IndexInv
  BY BooksInit DEF IndexInv
<1>2. Init => Contract!Init
  <2> SUFFICES ASSUME Init PROVE Contract!Init
    OBVIOUS
  <2>1. /\ DOMAIN NewNamespace.uuid_to_internal = {} /\ NewNamespace.dimension = None
        /\ \A ns \in Namespaces : index[ns] = NewNamespace
    BY NewIsSound DEF Init
  <2>2. Live = {}
    BY <2>1, IndexAssumption DEF Live
  <2> QED
    BY <2>1, <2>2 DEF Contract!Init
<1> QED
  BY <1>1, <1>2, IndexNext, ImplementsNext, PTL DEF Spec, ImplementsCacheIndex, Contract!Spec


-----------------------------------------------------------------------------
(* The overscan of a query. *)

\* Of finitely many entries one is nearest to a probe.
LEMMA NearestEntry ==
    ASSUME NEW S, IsFiniteSet(S), S # {}, NEW dist, \A i \in S : dist[i] \in Nat
    PROVE  \E i \in S : \A j \in S : dist[i] <= dist[j]
<1> DEFINE R == {q \in S \X S : dist[q[1]] < dist[q[2]]}
<1>1. \A x, y, z \in S : <<x, y>> \in R /\ <<y, z>> \in R => <<x, z>> \in R
  OBVIOUS
<1>2. \A x \in S : <<x, x>> \notin R
  OBVIOUS
<1>3. \A x, y \in S : <<x, y>> \notin R => dist[y] <= dist[x]
  OBVIOUS
<1> HIDE DEF R
<1>4. PICK i \in S : \A j \in S : <<j, i>> \notin R
  BY <1>1, <1>2, MinimalElement
<1> QED
  BY <1>3, <1>4

\* One neighbour more than there are ghosts: one of them is an entry, or they
\* are all the nodes there are.
LEMMA OverscanReachesEntries ==
    ASSUME NEW n, Sound(n), NEW p, NEW S \in Nearest(n, p, 1 + Cardinality(n.evicted_ids))
    PROVE  S = DOMAIN n.graph \/ \E k \in S : k \in DOMAIN n.entries \ n.evicted_ids
<1> DEFINE G == n.evicted_ids
<1>1. /\ IsFiniteSet(DOMAIN n.graph) /\ IsFiniteSet(G) /\ Cardinality(G) \in Nat
  BY IdsFinite
<1>2. /\ S \subseteq DOMAIN n.graph
      /\ Cardinality(S) = IF 1 + Cardinality(G) < Cardinality(DOMAIN n.graph)
                          THEN 1 + Cardinality(G) ELSE Cardinality(DOMAIN n.graph)
  BY DEF Nearest
<1>3. DOMAIN n.graph = DOMAIN n.entries \cup G
  BY DEF Sound, NodesAccounted
<1> HIDE DEF G
<1>4. CASE Cardinality(S) = Cardinality(DOMAIN n.graph)
  BY <1>1, <1>2, <1>4, FS_Subset
<1>5. CASE Cardinality(S) = 1 + Cardinality(G)
  <2>1. ASSUME S \subseteq G PROVE FALSE
    <3>1. Cardinality(S) <= Cardinality(G)
      BY <1>1, <2>1, FS_Subset
    <3> QED
      BY <1>1, <1>5, <3>1
  <2> QED
    BY <1>2, <1>3, <2>1 DEF G
<1> QED
  BY <1>2, <1>4, <1>5

\* A stored entry within the radius, with nothing expired and no more ghosts
\* than the overscan covers, is never hidden from the search.
LEMMA SearchFindsEntry ==
    ASSUME NEW n, Sound(n), NEW p \in Probes, NEW now, ExpiredIds(n, now) = {},
           NEW S \in Nearest(n, p, 1 + Cardinality(n.evicted_ids)),
           NEW i \in DOMAIN n.entries, Distance[p][n.entries[i].uuid] <= Radius
    PROVE  None \notin FirstMatch(n, p, now, S)
<1> DEFINE alive == {k \in (S \cap DOMAIN n.entries) \ n.evicted_ids : ~Expired(n.entries[k], now)}
           dist == [k \in DOMAIN n.graph |-> Distance[p][n.graph[k]]]
           near == {k \in alive : /\ Distance[p][n.graph[k]] <= Radius
                                  /\ \A j \in alive :
                                       Distance[p][n.graph[k]] <= Distance[p][n.graph[j]]}
<1>1. /\ IsFiniteSet(DOMAIN n.entries) /\ DOMAIN n.entries \subseteq Nat
  BY IdsFinite
<1>2. /\ DOMAIN n.graph = DOMAIN n.entries \cup n.evicted_ids
      /\ DOMAIN n.entries \cap n.evicted_ids = {}
      /\ \A k \in DOMAIN n.entries : n.graph[k] = n.entries[k].uuid
  BY DEF Sound, NodesAccounted
<1>3. \A k \in DOMAIN n.graph : dist[k] = Distance[p][n.graph[k]] /\ dist[k] \in Nat
  BY IndexAssumption DEF Sound, Typed
<1>4. \A k \in DOMAIN n.entries : ~Expired(n.entries[k], now)
  BY DEF ExpiredIds
<1>5. alive \subseteq DOMAIN n.entries /\ alive = S \cap DOMAIN n.entries
  BY <1>2, <1>4
<1>6. S \subseteq DOMAIN n.graph /\ \A x \in S, y \in DOMAIN n.graph \ S : dist[x] <= dist[y]
  BY <1>3 DEF Nearest
<1>7. dist[i] <= Radius /\ i \in DOMAIN n.graph
  BY <1>2, <1>3
<1> HIDE DEF alive, dist
<1>8. PICK k \in alive : dist[k] <= Radius
  <2>1. CASE i \in S
    BY <1>5, <1>7, <2>1
  <2>2. CASE i \notin S
    <3>1. PICK k \in S : k \in DOMAIN n.entries
      BY <1>7, <2>2, OverscanReachesEntries
    <3>2. dist[k] <= dist[i]
      BY <1>6, <1>7, <2>2, <3>1
    <3>3. dist[k] \in Nat /\ dist[i] \in Nat /\ Radius \in Nat
      BY <1>3, <1>6, <1>7, <3>1, IndexAssumption
    <3> QED
      BY <1>5, <1>7, <3>1, <3>2, <3>3
  <2> QED
    BY <2>1, <2>2
<1>9. PICK m \in alive : \A j \in alive : dist[m] <= dist[j]
  <2>1. IsFiniteSet(alive) /\ alive # {}
    BY <1>1, <1>5, <1>8, FS_Subset
  <2>2. \A j \in alive : dist[j] \in Nat
    BY <1>2, <1>3, <1>5
  <2> QED
    BY <2>1, <2>2, NearestEntry
<1>10. m \in near
  <2>1. dist[m] <= dist[k] /\ dist[m] \in Nat /\ dist[k] \in Nat /\ Radius \in Nat
    BY <1>2, <1>3, <1>5, <1>8, <1>9, IndexAssumption
  <2>2. dist[m] <= Radius
    BY <1>8, <2>1
  <2> QED
    BY <1>2, <1>3, <1>5, <1>9, <2>2
<1>11. None \notin near
  BY <1>1, <1>5, IndexAssumption
<1>12. FirstMatch(n, p, now, S) = IF near = {} THEN {None} ELSE near
  BY DEF FirstMatch, alive
<1> HIDE DEF near
<1> QED
  BY <1>10, <1>11, <1>12

\* The extra candidates that query_with_text asks for do what its comment says,
\* for every metric: where the graph is small enough for an exact search, with
\* the ghosts covered and nothing waiting for the reaper, a miss means that no
\* stored entry is within the radius.
THEOREM GhostsHideNoHitHolds == Spec => []GhostsHideNoHit
<1>1. Init => IndexInv
  BY BooksInit DEF IndexInv
<1>2. IndexInv => GhostsHideNoHit
  <2> SUFFICES ASSUME IndexInv, NEW ns \in Namespaces, NEW p \in Probes,
                      index[ns].dimension = ProbeDim[p], SmallGraph(index[ns]),
                      Cardinality(index[ns].evicted_ids) <= MaxOverscan,
                      ExpiredIds(index[ns], clock) = {},
                      None \in Answers(index[ns], p, clock),
                      NEW i \in DOMAIN index[ns].entries
               PROVE  Distance[p][index[ns].entries[i].uuid] > Radius
    BY DEF GhostsHideNoHit
  <2>1. PICK n : n = index[ns]
    OBVIOUS
  <2>2. Sound(n)
    BY <2>1 DEF IndexInv, Books
  <2>3. ProbeDim[p] \in Nat /\ ProbeDim[p] # None /\ MaxOverscan \in Nat
    BY IndexAssumption
  <2>4. ExactMatch(n, p, clock) = None
    BY <2>1 DEF Answers
  <2>5. None \in UNION {FirstMatch(n, p, clock, S) : S \in Neighbours(n, p, Want(n))}
    BY <2>1, <2>3, <2>4 DEF Answers
  <2>6. Want(n) = 1 + Cardinality(n.evicted_ids)
    <3>1. Cardinality(n.evicted_ids) \in Nat
      BY <2>2, IdsFinite
    <3> QED
      BY <2>1, <2>3, <3>1 DEF Want
  <2>7. PICK S \in Nearest(n, p, 1 + Cardinality(n.evicted_ids)) :
          None \in FirstMatch(n, p, clock, S)
    BY <2>1, <2>5, <2>6 DEF Neighbours
  <2>8. ~(Distance[p][n.entries[i].uuid] <= Radius)
    BY <2>1, <2>2, <2>7, SearchFindsEntry
  <2>9. n.entries[i].uuid \in Uuids
    BY <2>1, <2>2 DEF Sound, Typed, CacheEntry
  <2>10. Distance[p][n.entries[i].uuid] \in Nat /\ Radius \in Nat
    BY <2>9, IndexAssumption
  <2> QED
    BY <2>1, <2>8, <2>10
<1> QED
  BY <1>1, <1>2, IndexNext, PTL DEF Spec


-----------------------------------------------------------------------------
(* Eviction. *)

\* R is a strict total order on D, and B[x] is what comes before x.
TotalOrder(D, R, B) ==
    /\ \A x, y, z \in D : <<x, y>> \in R /\ <<y, z>> \in R => <<x, z>> \in R
    /\ \A x \in D : <<x, x>> \notin R
    /\ \A x, y \in D : x = y \/ <<x, y>> \in R \/ <<y, x>> \in R
    /\ \A x \in D : B[x] \subseteq D /\ \A y \in D : y \in B[x] <=> <<y, x>> \in R

\* The elements with fewer than k predecessors in a finite total order are its
\* first k.  With V these elements: a least one outside V has exactly V before
\* it, so V has at least k elements; a last one of V has the rest of V before
\* it, so V has at most k.
LEMMA FirstInOrder ==
    ASSUME NEW D, IsFiniteSet(D), NEW R, NEW B, TotalOrder(D, R, B),
           NEW k \in Int, k <= Cardinality(D), NEW V \in SUBSET D,
           \A x \in D : x \in V <=> Cardinality(B[x]) < k
    PROVE  /\ Cardinality(V) = IF k > 0 THEN k ELSE 0
           /\ \A x \in V, y \in D \ V : <<x, y>> \in R
<1> DEFINE below(x) == B[x]
           rank(x) == Cardinality(below(x))
<1> USE DEF TotalOrder
<1>1. ASSUME NEW x \in D
      PROVE  below(x) \in SUBSET D /\ IsFiniteSet(below(x)) /\ rank(x) \in Nat
  <2>1. below(x) \in SUBSET D
    OBVIOUS
  <2> HIDE DEF below
  <2> QED
    BY <2>1, FS_Subset, FS_CardinalityType
<1>2. V = {x \in D : rank(x) < k}
  OBVIOUS
<1>3. ASSUME NEW x \in D, NEW y \in D, <<x, y>> \in R
      PROVE  rank(x) <= rank(y)
  <2>1. below(x) \subseteq below(y)
    BY <1>3
  <2> HIDE DEF below
  <2> QED
    BY <1>1, <2>1, FS_Subset
<1>4. \A x \in V, y \in D \ V : <<x, y>> \in R
  <2> SUFFICES ASSUME NEW x \in V, NEW y \in D \ V PROVE <<x, y>> \in R
    OBVIOUS
  <2> HIDE DEF below
  <2>1. x \in D /\ rank(x) < k /\ ~(rank(y) < k) /\ x # y
    BY <1>2
  <2>2. ~(<<y, x>> \in R)
    BY <1>1, <1>3, <2>1
  <2> QED
    BY <2>1, <2>2
<1>5. V \in SUBSET D /\ IsFiniteSet(V) /\ Cardinality(V) \in Nat
  <2>1. V \in SUBSET D
    BY <1>2
  <2> QED
    BY <2>1, FS_Subset, FS_CardinalityType
<1>6. Cardinality(D) \in Nat
  BY FS_CardinalityType
<1>7. ASSUME V # {} PROVE Cardinality(V) <= k
  <2> DEFINE Q == {p \in V \X V : <<p[2], p[1]>> \in R}
  <2>1. \A x, y \in V : <<x, y>> \in Q <=> <<y, x>> \in R
    OBVIOUS
  <2> HIDE DEF Q
  <2>2. PICK x \in V : \A y \in V : <<y, x>> \notin Q
    <3>1. ASSUME NEW x \in V, NEW y \in V, NEW z \in V, <<x, y>> \in Q, <<y, z>> \in Q
          PROVE  <<x, z>> \in Q
      <4>1. <<y, x>> \in R /\ <<z, y>> \in R /\ x \in D /\ y \in D /\ z \in D
        BY <1>5, <2>1, <3>1
      <4>2. <<z, x>> \in R
        BY <4>1
      <4> QED
        BY <2>1, <4>2
    <3>2. ASSUME NEW x \in V PROVE <<x, x>> \notin Q
      BY <1>5, <2>1
    <3> QED
      BY <1>5, <1>7, <3>1, <3>2, MinimalElement
  <2>3. V \ {x} \subseteq below(x)
    BY <1>5, <2>1, <2>2
  <2>4. x \in D /\ rank(x) < k
    BY <1>2, <2>2
  <2> HIDE DEF below
  <2>5. Cardinality(V \ {x}) = Cardinality(V) - 1
    BY <1>5, <2>2, FS_RemoveElement
  <2>6. Cardinality(V \ {x}) <= rank(x)
    BY <1>1, <2>3, <2>4, FS_Subset
  <2> QED
    BY <1>1, <1>5, <2>4, <2>5, <2>6
<1>8. Cardinality(V) >= k
  <2>1. CASE V = D
    BY <1>5, <1>6, <2>1
  <2>2. CASE V # D
    <3>1. PICK T : T = D \ V
      OBVIOUS
    <3>2. T \in SUBSET D /\ T # {} /\ IsFiniteSet(T)
      BY <1>5, <2>2, <3>1, FS_Subset
    <3>3. PICK m \in T : \A y \in T : <<y, m>> \notin R
      BY <3>2, MinimalElement
    <3>4. below(m) \subseteq V
      BY <3>1, <3>3
    <3>5. m \in D /\ ~(rank(m) < k)
      BY <1>2, <3>1, <3>3
    <3> HIDE DEF below
    <3>6. rank(m) <= Cardinality(V)
      BY <1>5, <3>4, FS_Subset
    <3> QED
      BY <1>1, <1>5, <3>5, <3>6
  <2> QED
    BY <2>1, <2>2
<1>9. V = {} => Cardinality(V) = 0
  BY FS_EmptySet
<1>10. ASSUME ~(k > 0) PROVE V = {}
  <2> HIDE DEF below
  <2> QED
    BY <1>1, <1>2, <1>10
<1>11. Cardinality(V) = IF k > 0 THEN k ELSE 0
  <2>1. CASE k > 0
    <3>1. V # {}
      BY <1>8, <1>9, <2>1
    <3>2. Cardinality(V) <= k /\ Cardinality(V) >= k
      BY <1>7, <1>8, <3>1
    <3> QED
      BY <1>5, <2>1, <3>2
  <2>2. CASE ~(k > 0)
    BY <1>9, <1>10, <2>2
  <2> QED
    BY <2>1, <2>2
<1> QED
  BY <1>4, <1>11

\* A namespace has as many entries as uuids.
LEMMA AsManyUuids ==
    ASSUME NEW n, Sound(n)
    PROVE  Cardinality(DOMAIN n.uuid_to_internal) = Cardinality(DOMAIN n.entries)
<1> DEFINE g == [i \in DOMAIN n.entries |-> n.entries[i].uuid]
<1>1. g \in Bijection(DOMAIN n.entries, DOMAIN n.uuid_to_internal)
  BY DEF Sound, InverseTables, Bijection, Injection, Surjection, IsInjective
<1> HIDE DEF g
<1>2. ExistsBijection(DOMAIN n.entries, DOMAIN n.uuid_to_internal)
  BY <1>1 DEF ExistsBijection
<1> QED
  BY <1>2, IdsFinite, FS_Bijection

\* evict_lru orders the entries of a namespace: last use, insertion, id.  Hence
\* what the loop of evict_to_cap takes.
LEMMA VictimsSay ==
    ASSUME NEW n, Sound(n)
    PROVE  /\ Victims(n) \in SUBSET DOMAIN n.entries
           /\ Cardinality(Victims(n)) =
                IF Cardinality(DOMAIN n.entries) > MaxEntries
                THEN Cardinality(DOMAIN n.entries) - MaxEntries ELSE 0
           /\ \A i \in Victims(n), j \in DOMAIN n.entries \ Victims(n) :
                n.entries[i].last_accessed_at <= n.entries[j].last_accessed_at
<1> DEFINE D == DOMAIN n.entries
           R == {q \in D \X D : EvictedBefore(n, q[1], q[2])}
           k == Cardinality(D) - MaxEntries
<1>1. IsFiniteSet(D) /\ D \subseteq Nat /\ Cardinality(D) \in Nat /\ MaxEntries \in Nat
  BY IdsFinite, IndexAssumption
<1>2. \A i \in D : n.entries[i].last_accessed_at \in Nat /\ n.entries[i].inserted_at \in Nat
  BY DEF Sound, Typed, CacheEntry
<1>3. \A x, y \in D : <<x, y>> \in R <=> EvictedBefore(n, x, y)
  OBVIOUS
<1>4. Victims(n) = {i \in D : Cardinality({j \in D : EvictedBefore(n, j, i)}) < k}
  BY DEF Victims
<1> HIDE DEF R
<1>5. \A i \in D : {j \in D : EvictedBefore(n, j, i)} = {j \in D : <<j, i>> \in R}
  BY <1>3
<1>6. Victims(n) = {i \in D : Cardinality({j \in D : <<j, i>> \in R}) < k}
  BY <1>4, <1>5
<1> HIDE DEF D
<1>7. \A x, y, z \in D : <<x, y>> \in R /\ <<y, z>> \in R => <<x, z>> \in R
  BY <1>1, <1>2, <1>3 DEF EvictedBefore
<1>8. \A x \in D : <<x, x>> \notin R
  BY <1>1, <1>2, <1>3 DEF EvictedBefore
<1>9. ASSUME NEW x \in D, NEW y \in D PROVE x = y \/ <<x, y>> \in R \/ <<y, x>> \in R
  <2>1. /\ x \in Nat /\ y \in Nat
        /\ n.entries[x].last_accessed_at \in Nat /\ n.entries[x].inserted_at \in Nat
        /\ n.entries[y].last_accessed_at \in Nat /\ n.entries[y].inserted_at \in Nat
    BY <1>1, <1>2
  <2>2. x = y \/ EvictedBefore(n, x, y) \/ EvictedBefore(n, y, x)
    BY <2>1 DEF EvictedBefore
  <2> QED
    BY <1>3, <2>2
<1>10. k \in Int /\ k <= Cardinality(D)
  BY <1>1
<1>11. PICK V : V = Victims(n)
  OBVIOUS
<1> HIDE DEF k, R
<1>12. /\ Cardinality(V) = IF k > 0 THEN k ELSE 0
       /\ \A x \in V, y \in D \ V : <<x, y>> \in R
  <2>1. PICK r : r = R
    OBVIOUS
  <2> DEFINE b == [i \in D |-> {j \in D : <<j, i>> \in R}]
  <2>2. /\ \A i \in D : b[i] \subseteq D /\ \A j \in D : j \in b[i] <=> <<j, i>> \in r
        /\ \A i \in D : i \in V <=> Cardinality(b[i]) < k
    BY <1>6, <1>11, <2>1
  <2>3. V \in SUBSET D
    BY <1>6, <1>11
  <2> HIDE DEF b
  <2>4. \A x, y \in D : x = y \/ <<x, y>> \in r \/ <<y, x>> \in r
    BY <1>9, <2>1
  <2>5. \A x, y, z \in D : <<x, y>> \in r /\ <<y, z>> \in r => <<x, z>> \in r
    BY <1>7, <2>1
  <2>6. \A x \in D : <<x, x>> \notin r
    BY <1>8, <2>1
  <2>7. TotalOrder(D, r, b)
    BY <2>2, <2>4, <2>5, <2>6 DEF TotalOrder
  <2>8. /\ Cardinality(V) = IF k > 0 THEN k ELSE 0
        /\ \A x \in V, y \in D \ V : <<x, y>> \in r
    BY <1>1, <1>10, <2>2, <2>3, <2>7, FirstInOrder
  <2> QED
    BY <2>1, <2>8
<1>13. V \in SUBSET D
  BY <1>4, <1>11
<1>14. ASSUME NEW x \in V, NEW y \in D \ V
       PROVE  n.entries[x].last_accessed_at <= n.entries[y].last_accessed_at
  <2>1. EvictedBefore(n, x, y) /\ x \in D /\ y \in D
    BY <1>3, <1>12, <1>13
  <2> QED
    BY <1>2, <2>1 DEF EvictedBefore
<1>15. Cardinality(V) = IF Cardinality(D) > MaxEntries THEN Cardinality(D) - MaxEntries ELSE 0
  BY <1>1, <1>12 DEF k
<1> QED
  BY <1>11, <1>13, <1>14, <1>15 DEF D


\* Eviction leaves no namespace above its cap, takes the least recently used
\* entries, and its rebuild loses none: for every cap and number of entries.
THEOREM EvictionTakesOldestHolds == Spec => EvictionTakesOldest
<1> DEFINE Takes(ns) ==
      LET kept == DOMAIN index'[ns].uuid_to_internal
          was == DOMAIN index[ns].uuid_to_internal
          lastUse(u) == index[ns].entries[index[ns].uuid_to_internal[u]].last_accessed_at
      IN  /\ Cardinality(kept) = IF Cardinality(was) > MaxEntries
                                 THEN MaxEntries ELSE Cardinality(was)
          /\ \A u \in was \ kept, v \in kept : lastUse(u) <= lastUse(v)
<1>1. Init => IndexInv
  BY BooksInit DEF IndexInv
<1>2. ASSUME IndexInv, EvictToCap, NEW ns \in Namespaces PROVE Takes(ns)
  <2> DEFINE capped == [ms \in Namespaces |-> DropEntries(index[ms], Victims(index[ms]))]
  <2>1. PICK n : n = index[ns]
    OBVIOUS
  <2>2. PICK V : V = Victims(n)
    OBVIOUS
  <2>3. PICK d : d = DropEntries(n, V)
    OBVIOUS
  <2>4. PICK m : m = index'[ns]
    OBVIOUS
  <2>5. m \in Rebuilt(d)
    <3>1. index' \in RebuildDirty(capped)
      BY <1>2 DEF EvictToCap
    <3>2. capped[ns] = d
      BY <2>1, <2>2, <2>3
    <3> HIDE DEF capped
    <3>3. index'[ns] \in Rebuilt(capped[ns])
      BY <3>1, RebuildDirtySays
    <3> QED
      BY <2>4, <3>2, <3>3
  <2> HIDE DEF capped
  <2>6. Sound(n)
    BY <1>2, <2>1 DEF IndexInv, Books
  <2>7. /\ V \in SUBSET DOMAIN n.entries
        /\ Cardinality(V) = IF Cardinality(DOMAIN n.entries) > MaxEntries
                            THEN Cardinality(DOMAIN n.entries) - MaxEntries ELSE 0
        /\ \A i \in V, j \in DOMAIN n.entries \ V :
             n.entries[i].last_accessed_at <= n.entries[j].last_accessed_at
    BY <2>2, <2>6, VictimsSay
  <2>8. /\ Sound(d) /\ DOMAIN d.entries = DOMAIN n.entries \ V
        /\ DOMAIN d.uuid_to_internal = DOMAIN n.uuid_to_internal \ UuidsAt(n, V)
    BY <2>3, <2>6, <2>7, DropSound
  <2>9. DOMAIN m.uuid_to_internal = DOMAIN d.uuid_to_internal
    BY <2>5, <2>8, RebuiltSound
  <2>10. Cardinality(DOMAIN m.uuid_to_internal) =
           IF Cardinality(DOMAIN n.uuid_to_internal) > MaxEntries
           THEN MaxEntries ELSE Cardinality(DOMAIN n.uuid_to_internal)
    <3>1. /\ Cardinality(DOMAIN n.uuid_to_internal) = Cardinality(DOMAIN n.entries)
          /\ Cardinality(DOMAIN d.uuid_to_internal) = Cardinality(DOMAIN d.entries)
      BY <2>6, <2>8, AsManyUuids
    <3>2. IsFiniteSet(DOMAIN n.entries) /\ Cardinality(DOMAIN n.entries) \in Nat /\ MaxEntries \in Nat
      BY <2>6, IdsFinite, IndexAssumption
    <3>3. Cardinality(DOMAIN n.entries \ V)
            = Cardinality(DOMAIN n.entries) - Cardinality(DOMAIN n.entries \cap V)
      BY <3>2, FS_Difference
    <3>4. DOMAIN n.entries \cap V = V
      BY <2>7
    <3>5. Cardinality(DOMAIN m.uuid_to_internal) = Cardinality(DOMAIN n.entries) - Cardinality(V)
      BY <2>8, <2>9, <3>1, <3>3, <3>4
    <3> QED
      BY <2>7, <3>1, <3>2, <3>5
  <2>11. ASSUME NEW u \in DOMAIN n.uuid_to_internal \ DOMAIN m.uuid_to_internal,
                NEW v \in DOMAIN m.uuid_to_internal
         PROVE  n.entries[n.uuid_to_internal[u]].last_accessed_at
                  <= n.entries[n.uuid_to_internal[v]].last_accessed_at
    <3>1. /\ \A w \in DOMAIN n.uuid_to_internal :
               /\ n.uuid_to_internal[w] \in DOMAIN n.entries
               /\ n.entries[n.uuid_to_internal[w]].uuid = w
          /\ \A i \in DOMAIN n.entries : n.uuid_to_internal[n.entries[i].uuid] = i
      BY <2>6 DEF Sound, InverseTables
    <3>2. u \in UuidsAt(n, V) /\ v \in DOMAIN n.uuid_to_internal /\ v \notin UuidsAt(n, V)
      BY <2>8, <2>9
    <3>3. n.uuid_to_internal[u] \in V /\ n.uuid_to_internal[v] \in DOMAIN n.entries \ V
      BY <2>7, <3>1, <3>2 DEF UuidsAt
    <3> QED
      BY <2>7, <3>3
  <2> QED
    BY <2>1, <2>4, <2>10, <2>11
<1>3. IndexInv /\ [Next]_vars => [EvictToCap => \A ns \in Namespaces : Takes(ns)]_vars
  <2> HIDE DEF Takes
  <2> QED
    BY <1>2
<1> QED
  BY <1>1, <1>3, IndexNext, PTL DEF Spec, EvictionTakesOldest

=============================================================================
