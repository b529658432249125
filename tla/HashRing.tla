------------------------------- MODULE HashRing -------------------------------
(***************************************************************************)
(* The consistent-hash ring (ring.rs): a map from positions to nodes, each *)
(* node at one position per virtual node, and the clockwise walk that      *)
(* finds the owner and the replicas of a key.                              *)
(*                                                                         *)
(* FNV-1a on a virtual node's label and the key of an embedding are data:  *)
(* Vnode gives the positions, a key is any position.  The labels of two    *)
(* nodes never agree; that their 64-bit hashes do not either is assumed.   *)
(***************************************************************************)
EXTENDS Integers, Sequences, FiniteSetsExt, Functions

CONSTANTS
    Nodes,          \* node ids
    VirtualNodes,   \* virtual nodes per node
    RingSize,       \* number of positions (2^64 in the code)
    Vnode           \* Vnode[n][i]: the position of label "n-i"

Positions == 0..(RingSize - 1)
Labels == 0..(VirtualNodes - 1)

ASSUME RingAssumption ==
    /\ VirtualNodes \in Nat \ {0}
    /\ RingSize \in Nat
    /\ Vnode \in [Nodes -> [Labels -> Positions]]
    /\ \A m, n \in Nodes : \A i, j \in Labels :
         Vnode[m][i] = Vnode[n][j] => m = n

-----------------------------------------------------------------------------
EmptyRing == [p \in {} |-> p]

PositionsOf(S) == {Vnode[n][i] : n \in S, i \in Labels}

\* add_node for each node of S, in any order.
AddNodes(r, S) ==
    [p \in DOMAIN r \cup PositionsOf(S) |->
        IF p \in PositionsOf(S)
        THEN CHOOSE n \in S : \E i \in Labels : Vnode[n][i] = p
        ELSE r[p]]

\* Mutant: the loop over the labels starts at 1.
RemoveNodes_FromOne(r, S) ==
    Restrict(r, DOMAIN r \ {Vnode[n][i] : n \in S, i \in Labels \ {0}})

\* remove_node for each node of S.
RemoveNodes(r, S) == Restrict(r, DOMAIN r \ PositionsOf(S))

\* nodes, without their order.
NodesOf(r) == {r[p] : p \in DOMAIN r}

\* Mutant: the walk stops at the end of the map.
Walk_NoWrap(r, key) == <<{p \in DOMAIN r : p >= key}, {}>>

\* The two parts of the map that get_n_nodes chains: range(key..) and then
\* range(..key), each of which comes in ascending order.
Walk(r, key) == <<{p \in DOMAIN r : p >= key}, {p \in DOMAIN r : p < key}>>

\* The chain meets position p before position q.
MetBefore(walk, p, q) ==
    \/ p \in walk[1] /\ q \in walk[2]
    \/ \E part \in Range(walk) : p \in part /\ q \in part /\ p < q

\* The positions at which a node is met that is not in `seen' yet.
FirstSeen(r, key) ==
    LET walk == Walk(r, key)
    IN  {p \in UNION Range(walk) :
           \A q \in UNION Range(walk) : MetBefore(walk, q, p) => r[q] # r[p]}

\* get_n_nodes (and, for n = 1, get_node): the nodes at the first n of these
\* positions, or at all of them if they are fewer.
GetNNodes(r, key, n) ==
    LET seen == FirstSeen(r, key)
        before(p) == {q \in seen : MetBefore(Walk(r, key), q, p)}
    IN  [i \in 1..Min({n, Cardinality(seen)}) |->
           r[CHOOSE p \in seen : Cardinality(before(p)) = i - 1]]

-----------------------------------------------------------------------------
\* How far clockwise of key position p is, and where node n first appears.
Ahead(key, p) == (p - key) % RingSize

FirstAhead(r, key, n) == Min({Ahead(key, p) : p \in {q \in DOMAIN r : r[q] = n}})

\* What get_n_nodes promises: n distinct nodes if there are as many, and they
\* are the first ones clockwise of the key, nearest first.
WalkIsNearestFirst(r) ==
    \A key \in Positions : \A n \in 1..Cardinality(Nodes) :
        LET found == GetNNodes(r, key, n)
            nodes == NodesOf(r)
        IN  /\ Len(found) = Min({n, Cardinality(nodes)})
            /\ Range(found) \subseteq nodes
            /\ \A i \in DOMAIN found :
                 \A m \in nodes \ {found[j] : j \in 1..i} :
                   FirstAhead(r, key, found[i]) < FirstAhead(r, key, m)

\* A full walk from key meets node m before node n.
NodeBefore(r, key, m, n) ==
    LET found == GetNNodes(r, key, Cardinality(Nodes))
    IN  \E i, j \in DOMAIN found : i < j /\ found[i] = m /\ found[j] = n

\* Between two rings the nodes on both are met on every walk, and in the same
\* order: a node that leaves hands each of its keys to the next replica of that
\* key, and one that joins takes keys over for itself only.
OrderKept(r, s) ==
    \A key \in Positions :
        LET stay == NodesOf(r) \cap NodesOf(s)
        IN  /\ \A t \in {r, s} : stay \subseteq Range(GetNNodes(t, key, Cardinality(Nodes)))
            /\ \A m, n \in stay : NodeBefore(r, key, m, n) <=> NodeBefore(s, key, m, n)

=============================================================================
