----------------------------- MODULE CacheIndex ------------------------------
(***************************************************************************)
(* What the rest of a node relies on of the index: a set of entries, and   *)
(* for each namespace the dimension its entries must have.  GroupCommitWal *)
(* uses the index in this way; SemanticIndex is shown to implement it.     *)
(***************************************************************************)
EXTENDS Integers

CONSTANTS
    Uuids,           \* entry identifiers
    Namespaces,      \* namespace keys
    ConvNamespaces,  \* the ones of conversations
    NsOf,            \* NsOf[u]: the namespace of entry u
    DimOf,           \* DimOf[u]: the length of u's embedding
    None

VARIABLES live, dimension

In(ns, S) == {u \in S : NsOf[u] = ns}

Init == live = {} /\ dimension = [ns \in Namespaces |-> None]

\* The first entry fixes the namespace's dimension, others must agree.
Insert(u) ==
    /\ dimension[NsOf[u]] \in {None, DimOf[u]}
    /\ live' = live \cup {u}
    /\ dimension' = [dimension EXCEPT ![NsOf[u]] = DimOf[u]]

\* Deletes, invalidations and evictions keep the dimensions.
Remove(S) ==
    /\ live' = live \ S
    /\ UNCHANGED dimension

\* The reaper also forgets the dimension of every conversation it leaves empty.
Sweep(S) ==
    /\ live' = live \ S
    /\ dimension' = [ns \in Namespaces |->
                       IF ns \in ConvNamespaces /\ In(ns, live') = {}
                       THEN None ELSE dimension[ns]]

\* A restart keeps the dimensions of the entries it finds on disk, and then
\* drops the expired ones.
Restart(S) ==
    /\ live' = live \ S
    /\ dimension' = [ns \in Namespaces |->
                       IF In(ns, live) = {} THEN None ELSE dimension[ns]]

Next ==
    \/ \E u \in Uuids : Insert(u)
    \/ \E S \in SUBSET live : Remove(S) \/ Sweep(S) \/ Restart(S)

Spec == Init /\ [][Next]_<<live, dimension>>

=============================================================================
