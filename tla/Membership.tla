------------------------------ MODULE Membership ------------------------------
(***************************************************************************)
(* One node's view of the cluster (cluster.rs, failure_detector.rs): the   *)
(* gossip library reports which peers it hears and at which address, and   *)
(* every two seconds reconcile_step brings the address book, the failure   *)
(* detector, the ring and the list of dead nodes into line.                *)
(*                                                                         *)
(* Address book, ring, list and detector are under locks of their own, and *)
(* a request can read any of them between two steps, so each acquisition   *)
(* of a write lock is an action.  The detector's loops hold it per peer    *)
(* (heartbeats) or throughout (check_all); nothing reads two peers' states *)
(* at once, and each loop is one action.                                   *)
(*                                                                         *)
(* Phi grows with the silence since the last heartbeat; its value matters  *)
(* only against the threshold and its double, so it is one of three levels *)
(* that time raises and a heartbeat resets.  Of the window of intervals    *)
(* only its emptiness matters: without one, phi is 0 for ever.             *)
(***************************************************************************)
EXTENDS HashRing

CONSTANTS
    Self,             \* self_node_id
    SelfAddr,         \* self_api_addr
    Addrs,            \* addresses
    RemovalEnabled    \* dead_node_removal_enabled

Peers == Nodes \ {Self}

ASSUME MembershipAssumption ==
    /\ Self \in Nodes
    /\ SelfAddr \in Addrs
    /\ RemovalEnabled \in BOOLEAN

VARIABLES
    gossip,       \* addresses of the incarnations of each peer gossip hears
    ring,         \* ClusterState.ring
    addrs,        \* ClusterState.addrs
    dead_nodes,   \* ClusterState.dead_nodes
    detector,     \* PhiAccrualDetector.peers
    pc,           \* where the reconciler is in its pass
    snapshot,     \* the members of this pass, with their addresses; a local
    changed       \* to_add, later to_remove; a local

vars == <<gossip, ring, addrs, dead_nodes, detector, pc, snapshot, changed>>

PeerStatus == {"Alive", "Suspected", "Dead"}

\* phi below the threshold, at or above it, at or above its double.
Level == {"low", "high", "over"}

PeerState == [status : PeerStatus, sampled : BOOLEAN, phi : Level]

Book(S) == UNION {[T -> Addrs] : T \in SUBSET S}

TypeOK ==
    /\ gossip \in [Peers -> SUBSET Addrs]
    /\ DOMAIN ring \subseteq Positions /\ NodesOf(ring) \subseteq Nodes
    /\ addrs \in Book(Nodes)
    /\ dead_nodes \subseteq Peers
    /\ DOMAIN detector \subseteq Peers
    /\ \A p \in DOMAIN detector : detector[p] \in PeerState
    /\ pc \in {"idle", "addrs", "heartbeats", "join", "rejoined", "check",
               "leave", "forget", "bury"}
    /\ snapshot \in Book(Nodes)
    /\ changed \subseteq Nodes

NoSnapshot == [n \in {} |-> n]

\* ClusterState::new.
Init ==
    /\ gossip = [p \in Peers |-> {}]
    /\ ring = AddNodes(EmptyRing, {Self})
    /\ addrs = [n \in {Self} |-> SelfAddr]
    /\ dead_nodes = {}
    /\ detector = [p \in {} |-> p]
    /\ pc = "idle"
    /\ snapshot = NoSnapshot
    /\ changed = {}

-----------------------------------------------------------------------------
(* The gossip library and the passing of time. *)

\* An incarnation of a peer starts or stops being heard. Old and new ones of a
\* peer that restarts may be live together.
GossipChanges(p) ==
    /\ \E S \in SUBSET Addrs : S # gossip[p] /\ gossip' = [gossip EXCEPT ![p] = S]
    /\ UNCHANGED <<ring, addrs, dead_nodes, detector, pc, snapshot, changed>>

\* compute_phi: silence drives phi up, once an interval has been recorded.
Silence(p) ==
    /\ p \in DOMAIN detector
    /\ detector[p].sampled
    /\ detector[p].phi # "over"
    /\ detector' = [detector EXCEPT ![p].phi = IF @ = "low" THEN "high" ELSE "over"]
    /\ UNCHANGED <<gossip, ring, addrs, dead_nodes, pc, snapshot, changed>>

-----------------------------------------------------------------------------
(* One pass of the reconciler. *)

Merge(f, g) == [x \in DOMAIN f \cup DOMAIN g |-> IF x \in DOMAIN g THEN g[x] ELSE f[x]]

\* The snapshot of live members: of a peer's incarnations the last one in the
\* library's order counts; this node is always in it, at its own address.
TakeSnapshot ==
    /\ pc = "idle"
    /\ \E s \in [{p \in Peers : gossip[p] # {}} -> Addrs] :
         /\ \A p \in DOMAIN s : s[p] \in gossip[p]
         /\ snapshot' = Merge(s, [n \in {Self} |-> SelfAddr])
    /\ pc' = "addrs"
    /\ UNCHANGED <<gossip, ring, addrs, dead_nodes, detector, changed>>

\* Mutant: an address that is known is not replaced.
UpdateAddrs_Known ==
    /\ pc = "addrs"
    /\ addrs' = Merge(snapshot, addrs)
    /\ pc' = "heartbeats"
    /\ UNCHANGED <<gossip, ring, dead_nodes, detector, snapshot, changed>>

\* Step 1.
UpdateAddrs ==
    /\ pc = "addrs"
    /\ addrs' = Merge(addrs, snapshot)
    /\ pc' = "heartbeats"
    /\ UNCHANGED <<gossip, ring, dead_nodes, detector, snapshot, changed>>

\* record_heartbeat_at: the first heartbeat gives no interval, any later one
\* does, and the peer is Alive again.
Heard(p) == [status |-> "Alive", sampled |-> p \in DOMAIN detector, phi |-> "low"]

\* Mutant: this node is not left out.
RecordHeartbeats_Self ==
    /\ pc = "heartbeats"
    /\ detector' = Merge(detector, [p \in DOMAIN snapshot |-> Heard(p)])
    /\ pc' = "join"
    /\ UNCHANGED <<gossip, ring, addrs, dead_nodes, snapshot, changed>>

\* Step 2.
RecordHeartbeats ==
    /\ pc = "heartbeats"
    /\ detector' = Merge(detector, [p \in DOMAIN snapshot \ {Self} |-> Heard(p)])
    /\ pc' = "join"
    /\ UNCHANGED <<gossip, ring, addrs, dead_nodes, snapshot, changed>>

\* Step 3: the members of the snapshot that are not on the ring.
AddToRing ==
    /\ pc = "join"
    /\ changed' = DOMAIN snapshot \ NodesOf(ring)
    /\ ring' = AddNodes(ring, changed')
    /\ pc' = IF changed' = {} THEN "check" ELSE "rejoined"
    /\ UNCHANGED <<gossip, addrs, dead_nodes, detector, snapshot>>

\* Mutant: a node that joins again stays on the list.
ClearRejoined_Kept ==
    /\ pc = "rejoined"
    /\ pc' = "check"
    /\ UNCHANGED <<gossip, ring, addrs, dead_nodes, detector, snapshot, changed>>

\* ... and are off the list of dead nodes from then on.
ClearRejoined ==
    /\ pc = "rejoined"
    /\ dead_nodes' = dead_nodes \ changed
    /\ pc' = "check"
    /\ UNCHANGED <<gossip, ring, addrs, detector, snapshot, changed>>

\* Mutant: a high phi is enough for Dead.
Checked_AtOnce(s) ==
    [s EXCEPT !.status = IF s.phi = "over" THEN "Dead"
                         ELSE IF s.phi = "high" /\ @ = "Alive" THEN "Suspected" ELSE @]

\* Mutant: a peer that is Suspected stays so.
Checked_SuspectedStays(s) ==
    [s EXCEPT !.status = IF @ = "Alive" /\ s.phi # "low" THEN "Suspected" ELSE @]

\* check_all_at, for one peer: at most one transition per check.
Checked(s) ==
    [s EXCEPT !.status = CASE @ = "Alive" /\ s.phi # "low" -> "Suspected"
                           [] @ = "Suspected" /\ s.phi = "over" -> "Dead"
                           [] OTHER -> @]

\* Steps 4 and 5: the check, and from its result the members to remove.
CheckAll ==
    /\ pc = "check"
    /\ detector' = [p \in DOMAIN detector |-> Checked(detector[p])]
    /\ changed' = IF RemovalEnabled
                  THEN {p \in DOMAIN detector :
                          detector'[p].status = "Dead" /\ p \in NodesOf(ring)}
                  ELSE {}
    /\ pc' = IF changed' = {} THEN "idle" ELSE "leave"
    /\ snapshot' = IF changed' = {} THEN NoSnapshot ELSE snapshot
    /\ UNCHANGED <<gossip, ring, addrs, dead_nodes>>

\* Mutant: the addresses go first.
RemoveFromRing_AddrsFirst ==
    /\ pc = "leave"
    /\ addrs' = Restrict(addrs, DOMAIN addrs \ changed)
    /\ pc' = "forget"
    /\ UNCHANGED <<gossip, ring, dead_nodes, detector, snapshot, changed>>

RemoveFromRing ==
    /\ pc = "leave"
    /\ ring' = RemoveNodes(ring, changed)
    /\ pc' = "forget"
    /\ UNCHANGED <<gossip, addrs, dead_nodes, detector, snapshot, changed>>

RemoveAddrs ==
    /\ pc = "forget"
    /\ addrs' = Restrict(addrs, DOMAIN addrs \ changed)
    /\ pc' = "bury"
    /\ UNCHANGED <<gossip, ring, dead_nodes, detector, snapshot, changed>>

RecordDead ==
    /\ pc = "bury"
    /\ dead_nodes' = dead_nodes \cup changed
    /\ pc' = "idle"
    /\ snapshot' = NoSnapshot
    /\ changed' = {}
    /\ UNCHANGED <<gossip, ring, addrs, detector>>

Reconcile ==
    \/ TakeSnapshot
    \/ UpdateAddrs
    \/ RecordHeartbeats
    \/ AddToRing
    \/ ClearRejoined
    \/ CheckAll
    \/ RemoveFromRing
    \/ RemoveAddrs
    \/ RecordDead

Next ==
    \/ \E p \in Peers : GossipChanges(p)
    \/ \E p \in Peers : Silence(p)
    \/ Reconcile

\* The reconciler's loop never ends, and time passes.
Spec ==
    /\ Init /\ [][Next]_vars
    /\ WF_vars(Reconcile)
    /\ \A p \in Peers : WF_vars(Silence(p))

-----------------------------------------------------------------------------
(* Properties. *)

\* A request that finds a node on the ring finds its address too, between any
\* two steps of a pass, and this node never leaves its own ring
\* (get_replica_addrs drops a node without an address from the replicas).
AddressesCoverRing ==
    Self \in NodesOf(ring) /\ NodesOf(ring) \subseteq DOMAIN addrs

\* Between passes GET /cluster/status is coherent: ring and address book name
\* the same nodes, and the dead nodes are the peers the detector holds Dead
\* (none, when removal is switched off).
StatusCoherent ==
    pc = "idle" =>
        /\ DOMAIN addrs = NodesOf(ring)
        /\ dead_nodes \cap NodesOf(ring) = {}
        /\ dead_nodes = {p \in DOMAIN detector :
                           RemovalEnabled /\ detector[p].status = "Dead"}

\* On every ring a pass builds, get_n_nodes finds for every key and number of
\* replicas the distinct nodes that come first clockwise, nearest first.
ReplicasNearestFirst == [][ring' = ring \/ WalkIsNearestFirst(ring')]_vars

\* A peer that the gossip of this pass still reports is not removed, however
\* long the pass takes and whatever the detector held of the peer before.
HeardPeersStay ==
    [][(NodesOf(ring) \ NodesOf(ring')) \cap DOMAIN snapshot = {}]_vars

\* Every change of the ring moves keys from or to the nodes that leave or join
\* and no others; the keys of a node that leaves go to their next replicas.
OnlyOwnKeysMove == [][ring' = ring \/ OrderKept(ring, ring')]_vars

\* Once gossip settles on an address for a peer, the peer is on the ring for
\* good, at that address, and not listed as dead.
SettledPeerServes ==
    \A p \in Peers : \A a \in Addrs :
        <>[](gossip[p] = {a}) =>
            <>[](/\ p \in NodesOf(ring) /\ p \in DOMAIN addrs
                 /\ addrs[p] = a /\ p \notin dead_nodes)

\* A peer that was heard of in two passes and then falls silent for good leaves
\* the ring for good.
SilentPeerLeaves ==
    \A p \in Peers :
        <>[](/\ gossip[p] = {} /\ RemovalEnabled
             /\ p \in DOMAIN detector /\ detector[p].sampled) =>
            <>[](p \notin NodesOf(ring) /\ p \in dead_nodes)

=============================================================================
