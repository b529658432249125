--------------------------- MODULE MembershipProofs ---------------------------
(***************************************************************************)
(* Proofs about Membership, for every number of nodes, virtual nodes and   *)
(* addresses, and every behaviour of the gossip library.                   *)
(***************************************************************************)
EXTENDS Membership, FiniteSetTheorems, TLAPS

\* Every position of a ring holds the node whose virtual node hashes to it.
Placed(r) ==
    \A x \in DOMAIN r : r[x] \in Nodes /\ \E i \in Labels : Vnode[r[x]][i] = x

\* The peers a coherent list of dead nodes would name.
HeldDead == {p \in DOMAIN detector : RemovalEnabled /\ detector[p].status = "Dead"}

DetectorTyped ==
    /\ DOMAIN detector \subseteq Peers
    /\ detector \in [DOMAIN detector -> PeerState]

\* The address book names the nodes of the ring, and during a pass those about
\* to join or those that have just left.
AddrsFollowRing ==
    DOMAIN addrs = NodesOf(ring)
                     \cup (IF pc \in {"heartbeats", "join"} THEN DOMAIN snapshot ELSE {})
                     \cup (IF pc = "forget" THEN changed ELSE {})

\* The list of dead nodes is what the detector says, but for the peers that the
\* pass has just heard of again or just declared dead.
DeadFollowsDetector ==
    /\ pc \in {"idle", "addrs", "heartbeats", "check"} => dead_nodes = HeldDead
    /\ pc = "join" => HeldDead = dead_nodes \ DOMAIN snapshot
    /\ pc = "rejoined" => HeldDead = dead_nodes \ changed
    /\ pc \in {"leave", "forget", "bury"} => HeldDead = dead_nodes \cup changed

\* The dead are off the ring, but for those that are joining again; the ones the
\* pass removes are on it first and off it then.
DeadOffRing ==
    /\ pc # "rejoined" => dead_nodes \cap NodesOf(ring) = {}
    /\ pc = "rejoined" => dead_nodes \cap NodesOf(ring) \subseteq changed
    /\ pc = "leave" => changed \subseteq NodesOf(ring)
    /\ pc \in {"forget", "bury"} => changed \cap NodesOf(ring) = {}

\* Who was heard of in this pass is Alive until the check, and not to be removed.
HeardAreSafe ==
    /\ pc \in {"join", "rejoined", "check"} =>
         \A p \in DOMAIN snapshot \ {Self} :
            p \in DOMAIN detector /\ detector[p].status = "Alive"
    /\ pc \in {"leave", "forget", "bury"} =>
         changed \subseteq DOMAIN detector /\ changed \cap DOMAIN snapshot = {}

\* A peer the detector tracks is on the ring, or held dead, or about to join.
TrackedOnRing ==
    \A p \in DOMAIN detector \ HeldDead :
        p \in NodesOf(ring) \/ (pc = "join" /\ p \in DOMAIN snapshot)

SetsTyped ==
    /\ pc \in {"idle", "addrs", "heartbeats", "join", "rejoined", "check",
               "leave", "forget", "bury"}
    /\ DOMAIN snapshot \subseteq Nodes
    /\ changed \subseteq Nodes
    /\ dead_nodes \subseteq Peers

\* The inductive invariant.
MembershipInv ==
    /\ SetsTyped
    /\ DetectorTyped
    /\ Placed(ring)
    /\ Self \in NodesOf(ring)
    /\ AddrsFollowRing
    /\ DeadFollowsDetector
    /\ DeadOffRing
    /\ TrackedOnRing
    /\ HeardAreSafe

-----------------------------------------------------------------------------
(* The ring. *)

\* A node is on the ring after add_node, nobody else is pushed off it, and the
\* positions stay those of their nodes.
LEMMA AddNodesAdds ==
    ASSUME NEW r, Placed(r), NEW S \in SUBSET Nodes
    PROVE  Placed(AddNodes(r, S)) /\ NodesOf(AddNodes(r, S)) = NodesOf(r) \cup S
<1> DEFINE t == AddNodes(r, S)
<1>1. ASSUME NEW x \in PositionsOf(S)
      PROVE  x \in DOMAIN t /\ t[x] \in S /\ \E i \in Labels : Vnode[t[x]][i] = x
  <2>1. \E n \in S : \E i \in Labels : Vnode[n][i] = x
    BY <1>1 DEF PositionsOf
  <2>2. t[x] = CHOOSE n \in S : \E i \in Labels : Vnode[n][i] = x
    BY <1>1 DEF AddNodes
  <2> QED
    BY <1>1, <2>1, <2>2 DEF AddNodes
<1>2. ASSUME NEW x \in DOMAIN r, x \notin PositionsOf(S)
      PROVE  x \in DOMAIN t /\ t[x] = r[x]
  BY <1>2 DEF AddNodes
<1>3. DOMAIN t = DOMAIN r \cup PositionsOf(S)
  BY DEF AddNodes
<1>4. Placed(t)
  BY <1>1, <1>2, <1>3 DEF Placed
<1>5. NodesOf(t) \subseteq NodesOf(r) \cup S
  BY <1>1, <1>2, <1>3 DEF NodesOf
<1>6. ASSUME NEW n \in S PROVE n \in NodesOf(t)
  <2>1. 0 \in Labels
    BY RingAssumption DEF Labels
  <2> DEFINE x == Vnode[n][0]
  <2>2. x \in PositionsOf(S)
    BY <2>1 DEF PositionsOf
  <2>3. t[x] = n
    BY <1>1, <2>1, <2>2, RingAssumption
  <2> QED
    BY <1>1, <2>2, <2>3 DEF NodesOf
<1>7. ASSUME NEW n \in NodesOf(r) PROVE n \in NodesOf(t)
  <2>1. PICK x \in DOMAIN r : r[x] = n
    BY DEF NodesOf
  <2>2. CASE x \in PositionsOf(S)
    <3>1. PICK i \in Labels : Vnode[n][i] = x
      BY <2>1 DEF Placed
    <3>2. t[x] \in S /\ \E j \in Labels : Vnode[t[x]][j] = x
      BY <1>1, <2>2
    <3>3. t[x] = n
      BY <2>1, <3>1, <3>2, RingAssumption DEF Placed
    <3> QED
      BY <1>1, <2>2, <3>3 DEF NodesOf
  <2>3. CASE x \notin PositionsOf(S)
    BY <1>2, <2>1, <2>3 DEF NodesOf
  <2> QED
    BY <2>2, <2>3
<1> QED
  BY <1>4, <1>5, <1>6, <1>7

\* A node is off the ring after remove_node, and nobody else is.
LEMMA RemoveNodesRemoves ==
    ASSUME NEW r, Placed(r), NEW S \in SUBSET Nodes
    PROVE  Placed(RemoveNodes(r, S)) /\ NodesOf(RemoveNodes(r, S)) = NodesOf(r) \ S
<1> DEFINE t == RemoveNodes(r, S)
<1>1. /\ DOMAIN t = DOMAIN r \ PositionsOf(S)
      /\ \A x \in DOMAIN t : t[x] = r[x]
  BY DEF RemoveNodes, Restrict
<1>2. Placed(t)
  BY <1>1 DEF Placed
<1>3. ASSUME NEW x \in DOMAIN r
      PROVE  r[x] \in S <=> x \in PositionsOf(S)
  BY RingAssumption DEF Placed, PositionsOf
<1>4. NodesOf(t) = NodesOf(r) \ S
  BY <1>1, <1>3 DEF NodesOf
<1> QED
  BY <1>2, <1>4

-----------------------------------------------------------------------------
(* The invariant. *)

LEMMA InitMembership == Init => MembershipInv
<1> SUFFICES ASSUME Init PROVE MembershipInv
  OBVIOUS
<1>1. Placed(EmptyRing) /\ NodesOf(EmptyRing) = {}
  BY DEF Placed, NodesOf, EmptyRing
<1>2. Placed(ring) /\ NodesOf(ring) = {Self}
  BY <1>1, AddNodesAdds, MembershipAssumption DEF Init
<1>3. DOMAIN addrs = {Self} /\ DOMAIN snapshot = {} /\ DOMAIN detector = {}
  BY DEF Init, NoSnapshot
<1>4. SetsTyped
  BY <1>3 DEF Init, SetsTyped
<1>5. DetectorTyped
  BY <1>3 DEF Init, DetectorTyped
<1>6. AddrsFollowRing
  BY <1>2, <1>3 DEF Init, AddrsFollowRing
<1>7. DeadFollowsDetector /\ DeadOffRing /\ TrackedOnRing /\ HeardAreSafe
  BY <1>2, <1>3 DEF Init, DeadFollowsDetector, DeadOffRing, TrackedOnRing,
     HeardAreSafe, HeldDead
<1> QED
  BY <1>2, <1>4, <1>5, <1>6, <1>7 DEF MembershipInv

\* A step of the library, or of nobody, changes nothing that the invariant reads.
LEMMA GossipKeeps ==
    ASSUME MembershipInv,
           UNCHANGED <<ring, addrs, dead_nodes, detector, pc, snapshot, changed>>
    PROVE  MembershipInv'
BY DEF MembershipInv, SetsTyped, DetectorTyped, Placed, NodesOf, AddrsFollowRing,
       DeadFollowsDetector, DeadOffRing, TrackedOnRing,
     HeardAreSafe, HeldDead

\* Silence raises phi and leaves every status alone.
LEMMA SilenceKeeps ==
    ASSUME MembershipInv, NEW p \in Peers, Silence(p)
    PROVE  MembershipInv'
<1>1. /\ DOMAIN detector' = DOMAIN detector
      /\ \A o \in DOMAIN detector : detector'[o].status = detector[o].status
      /\ DetectorTyped'
  BY DEF MembershipInv, DetectorTyped, Silence, PeerState, Level
<1>2. HeldDead' = HeldDead
  BY <1>1 DEF HeldDead
<1>3. /\ Placed(ring)' /\ NodesOf(ring)' = NodesOf(ring)
      /\ UNCHANGED <<ring, addrs, dead_nodes, pc, snapshot, changed>>
  BY DEF MembershipInv, Silence, Placed, NodesOf
<1> QED
  BY <1>1, <1>2, <1>3 DEF MembershipInv, SetsTyped, AddrsFollowRing,
     DeadFollowsDetector, DeadOffRing, TrackedOnRing,
     HeardAreSafe

LEMMA TakeSnapshotKeeps ==
    ASSUME MembershipInv, TakeSnapshot
    PROVE  MembershipInv'
<1>1. DOMAIN snapshot' \subseteq Nodes
  <2>1. PICK s \in [{p \in Peers : gossip[p] # {}} -> Addrs] :
          snapshot' = Merge(s, [n \in {Self} |-> SelfAddr])
    BY DEF TakeSnapshot
  <2>2. DOMAIN snapshot' = DOMAIN s \cup {Self}
    BY <2>1 DEF Merge
  <2> QED
    BY <2>2, MembershipAssumption DEF Peers
<1>2. /\ Placed(ring)' /\ NodesOf(ring)' = NodesOf(ring) /\ HeldDead' = HeldDead
      /\ UNCHANGED <<ring, addrs, dead_nodes, detector, changed>>
      /\ pc = "idle" /\ pc' = "addrs"
  BY DEF MembershipInv, TakeSnapshot, Placed, NodesOf, HeldDead
<1> QED
  BY <1>1, <1>2 DEF MembershipInv, SetsTyped, DetectorTyped, AddrsFollowRing,
     DeadFollowsDetector, DeadOffRing, TrackedOnRing,
     HeardAreSafe

LEMMA UpdateAddrsKeeps ==
    ASSUME MembershipInv, UpdateAddrs
    PROVE  MembershipInv'
<1>1. DOMAIN addrs' = DOMAIN addrs \cup DOMAIN snapshot
  BY DEF UpdateAddrs, Merge
<1>2. /\ Placed(ring)' /\ NodesOf(ring)' = NodesOf(ring) /\ HeldDead' = HeldDead
      /\ UNCHANGED <<ring, dead_nodes, detector, snapshot, changed>>
      /\ pc = "addrs" /\ pc' = "heartbeats"
  BY DEF MembershipInv, UpdateAddrs, Placed, NodesOf, HeldDead
<1> QED
  BY <1>1, <1>2 DEF MembershipInv, SetsTyped, DetectorTyped, AddrsFollowRing,
     DeadFollowsDetector, DeadOffRing, TrackedOnRing,
     HeardAreSafe

\* After the heartbeats the peers of the snapshot are Alive and the others are
\* what they were.
LEMMA RecordHeartbeatsKeeps ==
    ASSUME MembershipInv, RecordHeartbeats
    PROVE  MembershipInv'
<1> DEFINE beats == [p \in DOMAIN snapshot \ {Self} |-> Heard(p)]
<1>1. /\ DOMAIN detector' = DOMAIN detector \cup (DOMAIN snapshot \ {Self})
      /\ \A p \in DOMAIN snapshot \ {Self} : detector'[p] = Heard(p)
      /\ \A p \in DOMAIN detector \ DOMAIN snapshot : detector'[p] = detector[p]
  <2>1. detector' = Merge(detector, beats)
    BY DEF RecordHeartbeats
  <2>2. DOMAIN beats = DOMAIN snapshot \ {Self}
    OBVIOUS
  <2>3. \A p \in DOMAIN beats : beats[p] = Heard(p)
    OBVIOUS
  <2>4. Self \notin DOMAIN detector
    BY DEF MembershipInv, DetectorTyped, Peers
  <2> HIDE DEF beats
  <2> QED
    BY <2>1, <2>2, <2>3, <2>4 DEF Merge
<1>2. \A p : Heard(p) \in PeerState /\ Heard(p).status = "Alive"
  BY DEF Heard, PeerState, PeerStatus, Level
<1>3. detector' \in [DOMAIN detector' -> PeerState]
  <2>1. detector' = [p \in DOMAIN detector' |-> detector'[p]]
    BY DEF RecordHeartbeats, Merge
  <2>2. \A p \in DOMAIN detector' : detector'[p] \in PeerState
    BY <1>1, <1>2 DEF MembershipInv, DetectorTyped, Peers
  <2> QED
    BY <2>1, <2>2
<1>4. DetectorTyped'
  BY <1>1, <1>3 DEF MembershipInv, DetectorTyped, SetsTyped, Peers
<1>5. HeldDead' = HeldDead \ DOMAIN snapshot
  BY <1>1, <1>2 DEF HeldDead, MembershipInv, DetectorTyped, Peers
<1>6. /\ Placed(ring)' /\ NodesOf(ring)' = NodesOf(ring)
      /\ UNCHANGED <<ring, addrs, dead_nodes, snapshot, changed>>
      /\ pc = "heartbeats" /\ pc' = "join"
  BY DEF MembershipInv, RecordHeartbeats, Placed, NodesOf
<1>7. HeardAreSafe'
  BY <1>1, <1>2, <1>6 DEF HeardAreSafe
<1> QED
  BY <1>1, <1>4, <1>5, <1>6, <1>7 DEF MembershipInv, SetsTyped, AddrsFollowRing,
     DeadFollowsDetector, DeadOffRing, TrackedOnRing

\* The ring gains the peers of the snapshot, which have their addresses already;
\* those that were listed as dead are exactly the ones to be taken off the list.
LEMMA AddToRingKeeps ==
    ASSUME MembershipInv, AddToRing
    PROVE  MembershipInv'
<1>1. changed' = DOMAIN snapshot \ NodesOf(ring) /\ changed' \subseteq Nodes
  BY DEF MembershipInv, SetsTyped, AddToRing
<1>2. Placed(ring') /\ NodesOf(ring') = NodesOf(ring) \cup changed'
  BY <1>1, AddNodesAdds DEF MembershipInv, AddToRing
<1>3. /\ UNCHANGED <<addrs, dead_nodes, detector, snapshot>> /\ HeldDead' = HeldDead
      /\ pc = "join" /\ pc' \in {"check", "rejoined"}
      /\ pc' = "check" <=> changed' = {}
  BY DEF AddToRing, HeldDead
<1>4. NodesOf(ring)' = NodesOf(ring') /\ Placed(ring)'
  BY <1>2 DEF NodesOf, Placed
<1>5. AddrsFollowRing'
  BY <1>1, <1>2, <1>3, <1>4 DEF MembershipInv, AddrsFollowRing
<1>6. DeadFollowsDetector' /\ DeadOffRing'
  BY <1>1, <1>2, <1>3, <1>4 DEF MembershipInv, DeadFollowsDetector, DeadOffRing
<1> QED
  BY <1>1, <1>2, <1>3, <1>4, <1>5, <1>6
     DEF MembershipInv, SetsTyped, DetectorTyped, TrackedOnRing, HeardAreSafe

LEMMA ClearRejoinedKeeps ==
    ASSUME MembershipInv, ClearRejoined
    PROVE  MembershipInv'
<1>1. /\ Placed(ring)' /\ NodesOf(ring)' = NodesOf(ring) /\ HeldDead' = HeldDead
      /\ UNCHANGED <<ring, addrs, detector, snapshot, changed>>
      /\ dead_nodes' = dead_nodes \ changed
      /\ pc = "rejoined" /\ pc' = "check"
  BY DEF MembershipInv, ClearRejoined, Placed, NodesOf, HeldDead
<1> QED
  BY <1>1 DEF MembershipInv, SetsTyped, DetectorTyped, AddrsFollowRing,
     DeadFollowsDetector, DeadOffRing, TrackedOnRing,
     HeardAreSafe

\* One check moves a status by at most one: who is Alive before it is not Dead
\* after it, and who is Dead stays Dead.
LEMMA CheckedOnce ==
    ASSUME NEW s \in PeerState
    PROVE  /\ Checked(s) \in PeerState
           /\ s.status = "Alive" => Checked(s).status # "Dead"
           /\ s.status = "Dead" => Checked(s).status = "Dead"
BY DEF Checked, PeerState, PeerStatus, Level

LEMMA CheckAllKeeps ==
    ASSUME MembershipInv, CheckAll
    PROVE  MembershipInv'
<1>1. /\ DOMAIN detector' = DOMAIN detector
      /\ \A p \in DOMAIN detector : detector'[p] = Checked(detector[p])
      /\ detector' \in [DOMAIN detector -> PeerState]
  BY CheckedOnce DEF CheckAll, MembershipInv, DetectorTyped
<1>2. changed' = HeldDead' \cap NodesOf(ring)
  BY <1>1 DEF CheckAll, HeldDead
<1>3. dead_nodes = HeldDead /\ dead_nodes \cap NodesOf(ring) = {}
  BY DEF CheckAll, MembershipInv, DeadFollowsDetector, DeadOffRing
<1>4. HeldDead \subseteq HeldDead'
  BY <1>1, CheckedOnce DEF HeldDead, MembershipInv, DetectorTyped
<1>5. HeldDead' \subseteq HeldDead \cup NodesOf(ring)
  BY <1>1 DEF HeldDead, CheckAll, MembershipInv, TrackedOnRing
<1>6. HeldDead' = dead_nodes \cup changed'
  BY <1>2, <1>3, <1>4, <1>5
<1>7. /\ Placed(ring)' /\ NodesOf(ring)' = NodesOf(ring)
      /\ UNCHANGED <<ring, addrs, dead_nodes>>
      /\ pc = "check" /\ pc' \in {"idle", "leave"}
      /\ pc' = "idle" <=> changed' = {}
      /\ snapshot' = IF changed' = {} THEN NoSnapshot ELSE snapshot
  BY DEF MembershipInv, CheckAll, Placed, NodesOf
<1>8. changed' \subseteq DOMAIN detector /\ changed' \cap DOMAIN snapshot = {}
  <2>1. ASSUME NEW p \in changed' PROVE p \notin DOMAIN snapshot
    <3>1. p \in DOMAIN detector /\ p # Self /\ Checked(detector[p]).status = "Dead"
      BY <1>1, <1>2, <2>1 DEF HeldDead, MembershipInv, DetectorTyped, Peers
    <3>2. detector[p].status # "Alive"
      BY <3>1, CheckedOnce DEF MembershipInv, DetectorTyped
    <3> QED
      BY <1>7, <3>1, <3>2 DEF MembershipInv, HeardAreSafe
  <2> QED
    BY <1>1, <1>2, <2>1 DEF HeldDead
<1>9. DOMAIN snapshot' \subseteq Nodes /\ changed' \subseteq Nodes
  BY <1>7, <1>8 DEF MembershipInv, SetsTyped, DetectorTyped, Peers, NoSnapshot
<1>10. DeadFollowsDetector' /\ DeadOffRing' /\ TrackedOnRing'
  BY <1>1, <1>2, <1>3, <1>4, <1>6, <1>7
     DEF MembershipInv, DeadFollowsDetector, DeadOffRing, TrackedOnRing
<1>11. HeardAreSafe'
  BY <1>1, <1>7, <1>8 DEF HeardAreSafe
<1>12. AddrsFollowRing'
  BY <1>7 DEF MembershipInv, AddrsFollowRing
<1> QED
  BY <1>1, <1>7, <1>9, <1>10, <1>11, <1>12 DEF MembershipInv, SetsTyped, DetectorTyped

\* The ring loses exactly the peers that are Dead; their addresses are still there.
LEMMA RemoveFromRingKeeps ==
    ASSUME MembershipInv, RemoveFromRing
    PROVE  MembershipInv' /\ NodesOf(ring') = NodesOf(ring) \ changed
<1>1. Placed(ring') /\ NodesOf(ring') = NodesOf(ring) \ changed
  BY RemoveNodesRemoves DEF MembershipInv, SetsTyped, RemoveFromRing
<1>2. /\ UNCHANGED <<addrs, dead_nodes, detector, snapshot, changed>>
      /\ HeldDead' = HeldDead /\ pc = "leave" /\ pc' = "forget"
  BY DEF RemoveFromRing, HeldDead
<1>3. NodesOf(ring)' = NodesOf(ring') /\ Placed(ring)'
  BY <1>1 DEF NodesOf, Placed
<1>4. Self \notin changed
  BY <1>2 DEF MembershipInv, HeardAreSafe, DetectorTyped, Peers
<1>5. changed \subseteq DOMAIN addrs
  BY <1>2 DEF MembershipInv, AddrsFollowRing, DeadOffRing
<1> QED
  BY <1>1, <1>2, <1>3, <1>4, <1>5 DEF MembershipInv, SetsTyped, DetectorTyped,
     AddrsFollowRing, DeadFollowsDetector, DeadOffRing, TrackedOnRing, HeardAreSafe

LEMMA RemoveAddrsKeeps ==
    ASSUME MembershipInv, RemoveAddrs
    PROVE  MembershipInv'
<1>1. DOMAIN addrs' = DOMAIN addrs \ changed
  BY DEF RemoveAddrs, Restrict
<1>2. /\ Placed(ring)' /\ NodesOf(ring)' = NodesOf(ring) /\ HeldDead' = HeldDead
      /\ UNCHANGED <<ring, dead_nodes, detector, snapshot, changed>>
      /\ pc = "forget" /\ pc' = "bury"
  BY DEF MembershipInv, RemoveAddrs, Placed, NodesOf, HeldDead
<1> QED
  BY <1>1, <1>2 DEF MembershipInv, SetsTyped, DetectorTyped, AddrsFollowRing,
     DeadFollowsDetector, DeadOffRing, TrackedOnRing, HeardAreSafe

LEMMA RecordDeadKeeps ==
    ASSUME MembershipInv, RecordDead
    PROVE  MembershipInv'
<1>1. /\ Placed(ring)' /\ NodesOf(ring)' = NodesOf(ring) /\ HeldDead' = HeldDead
      /\ UNCHANGED <<ring, addrs, detector>>
      /\ dead_nodes' = dead_nodes \cup changed /\ changed' = {}
      /\ DOMAIN snapshot' = {}
      /\ pc = "bury" /\ pc' = "idle"
  BY DEF MembershipInv, RecordDead, Placed, NodesOf, HeldDead, NoSnapshot
<1>2. changed \subseteq Peers
  BY <1>1 DEF MembershipInv, HeardAreSafe, DetectorTyped
<1> QED
  BY <1>1, <1>2 DEF MembershipInv, SetsTyped, DetectorTyped, AddrsFollowRing,
     DeadFollowsDetector, DeadOffRing, TrackedOnRing, HeardAreSafe

LEMMA NextMembership == MembershipInv /\ [Next]_vars => MembershipInv'
<1> SUFFICES ASSUME MembershipInv, [Next]_vars PROVE MembershipInv'
  OBVIOUS
<1>1. ASSUME NEW p \in Peers, GossipChanges(p) PROVE MembershipInv'
  BY <1>1, GossipKeeps DEF GossipChanges
<1>2. ASSUME NEW p \in Peers, Silence(p) PROVE MembershipInv'
  BY <1>2, SilenceKeeps
<1>3. CASE Reconcile
  BY <1>3, TakeSnapshotKeeps, UpdateAddrsKeeps, RecordHeartbeatsKeeps,
     AddToRingKeeps, ClearRejoinedKeeps, CheckAllKeeps, RemoveFromRingKeeps,
     RemoveAddrsKeeps, RecordDeadKeeps DEF Reconcile
<1>4. CASE UNCHANGED vars
  BY <1>4, GossipKeeps DEF vars
<1> QED
  BY <1>1, <1>2, <1>3, <1>4 DEF Next

-----------------------------------------------------------------------------
(* The theorems. *)

\* The inductive invariant of reconcile_step holds between any two of its steps.
THEOREM MembershipInvariant == Spec => []MembershipInv
BY InitMembership, NextMembership, PTL DEF Spec

\* get_replica_addrs finds an address for every node the ring gives it, whenever
\* it reads: reconcile_step writes the two in the right order.
THEOREM AddressesCoverRingHolds == Spec => []AddressesCoverRing
<1>1. MembershipInv => AddressesCoverRing
  BY DEF MembershipInv, AddrsFollowRing, AddressesCoverRing
<1> QED
  BY <1>1, MembershipInvariant, PTL

\* Between passes the ring, the addresses, the list of dead nodes and the
\* detector, as GET /cluster/status shows them, agree.
THEOREM StatusCoherentHolds == Spec => []StatusCoherent
<1>1. MembershipInv => StatusCoherent
  BY DEF MembershipInv, AddrsFollowRing, DeadFollowsDetector, DeadOffRing,
     HeldDead, StatusCoherent
<1> QED
  BY <1>1, MembershipInvariant, PTL

\* A peer that gossip reports in a pass survives that pass, whatever delays the
\* pass and whatever the detector held of the peer before.
THEOREM HeardPeersStayHolds == Spec => HeardPeersStay
<1> DEFINE Stay == (NodesOf(ring) \ NodesOf(ring')) \cap DOMAIN snapshot = {}
<1>1. ASSUME MembershipInv, Next PROVE Stay
  <2>1. CASE RemoveFromRing
    <3>1. changed \cap DOMAIN snapshot = {}
      BY <1>1, <2>1 DEF RemoveFromRing, MembershipInv, HeardAreSafe
    <3> QED
      BY <1>1, <2>1, <3>1, RemoveFromRingKeeps
  <2>2. CASE AddToRing
    <3>1. Placed(ring) /\ DOMAIN snapshot \ NodesOf(ring) \subseteq Nodes
      BY <1>1 DEF MembershipInv, SetsTyped
    <3>2. NodesOf(ring') = NodesOf(ring) \cup (DOMAIN snapshot \ NodesOf(ring))
      BY <2>2, <3>1, AddNodesAdds DEF AddToRing
    <3> QED
      BY <3>2
  <2>3. CASE UNCHANGED ring
    BY <2>3 DEF NodesOf
  <2>4. RemoveFromRing \/ AddToRing \/ UNCHANGED ring
    BY <1>1 DEF Next, Reconcile, GossipChanges, Silence, TakeSnapshot, UpdateAddrs,
       RecordHeartbeats, ClearRejoined, CheckAll, RemoveAddrs, RecordDead
  <2> QED
    BY <2>1, <2>2, <2>3, <2>4
<1>2. MembershipInv /\ [Next]_vars => [Stay]_vars
  BY <1>1
<1> QED
  BY <1>2, MembershipInvariant, PTL DEF Spec, HeardPeersStay

-----------------------------------------------------------------------------
(* The types. *)

\* An address book, and what it is made of.
LEMMA BookSays ==
    ASSUME NEW f
    PROVE  f \in Book(Nodes) <=> DOMAIN f \subseteq Nodes /\ f \in [DOMAIN f -> Addrs]
BY DEF Book

LEMMA BookMerge ==
    ASSUME NEW f \in Book(Nodes), NEW g \in Book(Nodes)
    PROVE  Merge(f, g) \in Book(Nodes)
<1>1. /\ DOMAIN f \subseteq Nodes /\ \A x \in DOMAIN f : f[x] \in Addrs
      /\ DOMAIN g \subseteq Nodes /\ \A x \in DOMAIN g : g[x] \in Addrs
  BY BookSays
<1>2. /\ Merge(f, g) \in [DOMAIN f \cup DOMAIN g -> Addrs]
      /\ DOMAIN f \cup DOMAIN g \in SUBSET Nodes
  BY <1>1 DEF Merge
<1> QED
  BY <1>2, BookSays

\* Heard addresses, and the address books of the node and of the pass.
BooksTyped ==
    /\ gossip \in [Peers -> SUBSET Addrs]
    /\ addrs \in Book(Nodes)
    /\ snapshot \in Book(Nodes)

LEMMA BooksInit == Init => BooksTyped
<1> SUFFICES ASSUME Init PROVE BooksTyped
  OBVIOUS
<1>1. NoSnapshot \in [{} -> Addrs] /\ [n \in {Self} |-> SelfAddr] \in [{Self} -> Addrs]
  BY MembershipAssumption DEF NoSnapshot
<1>2. NoSnapshot \in Book(Nodes) /\ [n \in {Self} |-> SelfAddr] \in Book(Nodes)
  BY <1>1, BookSays, MembershipAssumption
<1> QED
  BY <1>2 DEF Init, BooksTyped

LEMMA BooksNext == BooksTyped /\ [Next]_vars => BooksTyped'
<1> SUFFICES ASSUME BooksTyped, [Next]_vars PROVE BooksTyped'
  OBVIOUS
<1>1. NoSnapshot \in Book(Nodes)
  <2>1. NoSnapshot \in [{} -> Addrs]
    BY DEF NoSnapshot
  <2> QED
    BY <2>1, BookSays
<1>2. ASSUME NEW p \in Peers, GossipChanges(p) PROVE BooksTyped'
  BY <1>2 DEF GossipChanges, BooksTyped
<1>3. CASE TakeSnapshot
  <2>1. PICK s \in [{p \in Peers : gossip[p] # {}} -> Addrs] :
          snapshot' = Merge(s, [n \in {Self} |-> SelfAddr])
    BY <1>3 DEF TakeSnapshot
  <2>2. s \in Book(Nodes)
    BY BookSays DEF Peers
  <2>3. [n \in {Self} |-> SelfAddr] \in Book(Nodes)
    BY BookSays, MembershipAssumption
  <2> QED
    BY <1>3, <2>1, <2>2, <2>3, BookMerge DEF TakeSnapshot, BooksTyped
<1>4. CASE UpdateAddrs
  BY <1>4, BookMerge DEF UpdateAddrs, BooksTyped
<1>5. CASE RemoveAddrs
  <2>1. /\ DOMAIN addrs \subseteq Nodes /\ \A x \in DOMAIN addrs : addrs[x] \in Addrs
        /\ addrs' = Restrict(addrs, DOMAIN addrs \ changed)
    BY <1>5, BookSays DEF BooksTyped, RemoveAddrs
  <2>2. addrs' \in [DOMAIN addrs \ changed -> Addrs]
    BY <2>1 DEF Restrict
  <2> QED
    BY <1>5, <2>1, <2>2, BookSays DEF RemoveAddrs, BooksTyped
<1>6. CASE CheckAll \/ RecordDead
  BY <1>1, <1>6 DEF CheckAll, RecordDead, BooksTyped
<1>7. CASE \/ RecordHeartbeats \/ AddToRing \/ ClearRejoined \/ RemoveFromRing
           \/ (\E p \in Peers : Silence(p)) \/ UNCHANGED vars
  BY <1>7 DEF RecordHeartbeats, AddToRing, ClearRejoined, RemoveFromRing, Silence, vars,
     BooksTyped
<1> QED
  BY <1>2, <1>3, <1>4, <1>5, <1>6, <1>7 DEF Next, Reconcile

\* Ring, books, list and detector keep the types of ClusterState and
\* PhiAccrualDetector: no step ever puts a node on the ring outside its virtual
\* positions, or this node into its own detector or list of dead nodes.
THEOREM MembershipTyped == Spec => []TypeOK
<1>1. MembershipInv /\ BooksTyped => TypeOK
  <2> SUFFICES ASSUME MembershipInv, BooksTyped PROVE TypeOK
    OBVIOUS
  <2>1. DOMAIN ring \subseteq Positions /\ NodesOf(ring) \subseteq Nodes
    BY RingAssumption DEF MembershipInv, Placed, NodesOf
  <2> QED
    BY <2>1 DEF MembershipInv, SetsTyped, DetectorTyped, BooksTyped, TypeOK
<1> QED
  BY <1>1, BooksInit, BooksNext, MembershipInvariant, PTL DEF Spec

-----------------------------------------------------------------------------
(* The walk. *)

\* Clockwise of a key the positions from the key on come first, then those that
\* lie before it, and no two positions are equally far.
LEMMA AheadSays ==
    ASSUME NEW key \in Positions, NEW p \in Positions
    PROVE  /\ Ahead(key, p) \in Nat
           /\ Ahead(key, p) = IF p >= key THEN p - key ELSE p - key + RingSize
<1>1. /\ RingSize \in Nat /\ p \in Int /\ key \in Int
      /\ 0 <= p /\ p < RingSize /\ 0 <= key /\ key < RingSize
  BY RingAssumption DEF Positions
<1>2. ASSUME NEW a \in Int, NEW N \in Nat, 0 <= a, a < N PROVE a % N = a
  BY <1>2, SMT
<1>3. ASSUME NEW a \in Int, NEW N \in Nat, -N <= a, a < 0 PROVE a % N = a + N
  BY <1>3, SMT
<1> QED
  BY <1>1, <1>2, <1>3 DEF Ahead

\* The walk from a key meets every position of the ring, the nearer one first.
LEMMA WalkSays ==
    ASSUME NEW r, DOMAIN r \subseteq Positions, NEW key \in Positions
    PROVE  /\ UNION Range(Walk(r, key)) = DOMAIN r
           /\ \A p, q \in DOMAIN r :
                MetBefore(Walk(r, key), p, q) <=> Ahead(key, p) < Ahead(key, q)
<1> DEFINE from == {p \in DOMAIN r : p >= key}
           upto == {p \in DOMAIN r : p < key}
<1>1. Walk(r, key) = <<from, upto>>
  BY DEF Walk
<1>2. ASSUME NEW p \in DOMAIN r
      PROVE  /\ p \in Int /\ key \in Int /\ 0 <= p /\ p < RingSize /\ RingSize \in Int
             /\ 0 <= key /\ key < RingSize
             /\ (p \in from <=> p >= key) /\ (p \in upto <=> p < key)
             /\ Ahead(key, p) \in Nat
             /\ Ahead(key, p) = IF p >= key THEN p - key ELSE p - key + RingSize
  BY AheadSays, RingAssumption DEF Positions
<1>3. from \cup upto = DOMAIN r
  BY <1>2
<1> HIDE DEF from, upto
<1>4. Range(Walk(r, key)) = {from, upto} /\ Walk(r, key)[1] = from /\ Walk(r, key)[2] = upto
  <2>1. DOMAIN Walk(r, key) = {1, 2}
    BY <1>1
  <2> QED
    BY <1>1, <2>1 DEF Range
<1>5. UNION Range(Walk(r, key)) = DOMAIN r
  BY <1>3, <1>4
<1>6. ASSUME NEW p \in DOMAIN r, NEW q \in DOMAIN r
      PROVE  MetBefore(Walk(r, key), p, q) <=> Ahead(key, p) < Ahead(key, q)
  <2>1. MetBefore(Walk(r, key), p, q)
          <=> \/ p \in from /\ q \in upto
              \/ p \in from /\ q \in from /\ p < q
              \/ p \in upto /\ q \in upto /\ p < q
    BY <1>4 DEF MetBefore
  <2> QED
    BY <1>2, <2>1
<1> QED
  BY <1>5, <1>6

\* The numbers of the elements of a finite set by their distance: the elements
\* that are nearer than the i-th one are i - 1, and every i has its element.
\* The numbering is strictly monotonic, so it is one to one, and it cannot miss
\* a number because there are as many numbers as elements.
Numbered(F, d, B) ==
    /\ d \in [F -> Nat]
    /\ \A p, q \in F : d[p] = d[q] => p = q
    /\ B = [p \in F |-> {q \in F : d[q] < d[p]}]

LEMMA Numbering ==
    ASSUME NEW F, IsFiniteSet(F), NEW d, NEW B, Numbered(F, d, B)
    PROVE  /\ \A p \in F : Cardinality(B[p]) \in 0..(Cardinality(F) - 1)
           /\ \A p, q \in F : d[p] < d[q] <=> Cardinality(B[p]) < Cardinality(B[q])
           /\ \A i \in 0..(Cardinality(F) - 1) : \E p \in F : Cardinality(B[p]) = i
<1> DEFINE rank == [p \in F |-> Cardinality(B[p])]
           last == Cardinality(F) - 1
<1>1. Cardinality(F) \in Nat
  BY FS_CardinalityType
<1>2. ASSUME NEW p \in F
      PROVE  B[p] \in SUBSET F /\ IsFiniteSet(B[p]) /\ Cardinality(B[p]) \in 0..last
  <2>1. B[p] \in SUBSET (F \ {p})
    BY DEF Numbered
  <2>2. IsFiniteSet(F \ {p}) /\ Cardinality(F \ {p}) = last
    BY FS_RemoveElement
  <2>3. IsFiniteSet(B[p]) /\ Cardinality(B[p]) <= last
    BY <2>1, <2>2, FS_Subset
  <2>4. Cardinality(B[p]) \in Nat
    BY <2>3, FS_CardinalityType
  <2> QED
    BY <1>1, <2>1, <2>3, <2>4
<1>3. ASSUME NEW p \in F, NEW q \in F, d[p] < d[q]
      PROVE  Cardinality(B[p]) < Cardinality(B[q])
  <2>1. B[p] \cup {p} \in SUBSET B[q] /\ p \notin B[p]
    BY <1>3 DEF Numbered
  <2>2. Cardinality(B[p] \cup {p}) = Cardinality(B[p]) + 1
    BY <1>2, <2>1, FS_AddElement
  <2>3. Cardinality(B[p] \cup {p}) <= Cardinality(B[q])
    BY <1>2, <2>1, FS_Subset
  <2>4. Cardinality(B[p]) \in Int /\ Cardinality(B[q]) \in Int
    BY <1>1, <1>2
  <2> QED
    BY <2>2, <2>3, <2>4
<1>4. ASSUME NEW p \in F, NEW q \in F
      PROVE  d[p] < d[q] <=> Cardinality(B[p]) < Cardinality(B[q])
  <2>1. d[p] \in Nat /\ d[q] \in Nat /\ (d[p] = d[q] => p = q)
    BY DEF Numbered
  <2>2. Cardinality(B[p]) \in Int /\ Cardinality(B[q]) \in Int
    BY <1>1, <1>2
  <2> QED
    BY <1>3, <2>1, <2>2
<1>5. ASSUME NEW i \in 0..last PROVE \E p \in F : Cardinality(B[p]) = i
  <2>1. rank \in [F -> 0..last]
    BY <1>2
  <2>2. ASSUME NEW p \in F, NEW q \in F, rank[p] = rank[q] PROVE p = q
    <3>1. d[p] \in Nat /\ d[q] \in Nat /\ (d[p] = d[q] => p = q)
      BY DEF Numbered
    <3>2. Cardinality(B[p]) = Cardinality(B[q]) /\ Cardinality(B[p]) \in Int
      BY <1>1, <1>2, <2>2
    <3>3. ~(d[p] < d[q]) /\ ~(d[q] < d[p])
      BY <1>3, <3>2
    <3> QED
      BY <3>1, <3>3
  <2> HIDE DEF rank
  <2>3. rank \in Injection(F, 0..last)
    BY <2>1, <2>2 DEF Injection, IsInjective
  <2>4. IsFiniteSet(0..last) /\ Cardinality(0..last) = Cardinality(F)
    BY <1>1, FS_Interval
  <2>5. rank \in Surjection(F, 0..last)
    BY <2>3, <2>4, FS_Injection
  <2>6. PICK p \in F : rank[p] = i
    BY <2>5 DEF Surjection
  <2> QED
    BY <2>6 DEF rank
<1> QED
  BY <1>2, <1>4, <1>5

\* A nonempty set of numbers has a least one.
LEMMA LeastDistance ==
    ASSUME NEW T \in SUBSET Nat, T # {}
    PROVE  \E m \in T : \A k \in T : m <= k
<1> DEFINE upto == {0..m : m \in T}
<1>1. ASSUME NEW m \in T PROVE 0..m \in SUBSET Nat /\ IsFiniteSet(0..m)
  BY FS_Interval
<1>2. upto \subseteq FiniteSubsetsOf(Nat) /\ upto # {}
  BY <1>1 DEF FiniteSubsetsOf
<1> HIDE DEF upto
<1>3. PICK s \in upto : \A t \in upto : ~(<<t, s>> \in StrictSubsetOrdering(Nat))
  BY <1>2, FS_StrictSubsetOrderingWellFounded, WFMin
<1>4. PICK m \in T : s = 0..m
  BY <1>3 DEF upto
<1>5. ASSUME NEW k \in T, k < m PROVE FALSE
  <2>1. 0..k \in upto /\ 0..k \in SUBSET Nat /\ 0..m \in SUBSET Nat
    BY DEF upto
  <2>2. 0..k \subseteq 0..m /\ m \in 0..m /\ m \notin 0..k
    BY <1>5
  <2>3. <<0..k, 0..m>> \in StrictSubsetOrdering(Nat)
    BY <2>1, <2>2 DEF StrictSubsetOrdering
  <2> QED
    BY <1>3, <1>4, <2>1, <2>3
<1> QED
  BY <1>5

\* Where get_n_nodes first meets each node.
LEMMA FirstSeenSays ==
    ASSUME NEW r, DOMAIN r \subseteq Positions, NEW key \in Positions
    PROVE  /\ FirstSeen(r, key) \in SUBSET DOMAIN r /\ IsFiniteSet(FirstSeen(r, key))
           /\ \A p, q \in FirstSeen(r, key) : r[p] = r[q] => p = q
           /\ \A p \in FirstSeen(r, key) : \A q \in DOMAIN r :
                r[q] = r[p] => Ahead(key, p) <= Ahead(key, q)
           /\ \A m \in NodesOf(r) : \E p \in FirstSeen(r, key) : r[p] = m
           /\ Cardinality(FirstSeen(r, key)) = Cardinality(NodesOf(r))
<1> DEFINE F == FirstSeen(r, key)
<1>1. ASSUME NEW p
      PROVE  p \in F <=> /\ p \in DOMAIN r
                         /\ \A q \in DOMAIN r : Ahead(key, q) < Ahead(key, p) => r[q] # r[p]
  BY WalkSays DEF FirstSeen
<1> HIDE DEF F
<1>2. F \in SUBSET DOMAIN r
  BY <1>1
<1>3. IsFiniteSet(F)
  <2>1. IsFiniteSet(Positions)
    BY RingAssumption, FS_Interval DEF Positions
  <2> QED
    BY <1>2, <2>1, FS_Subset
<1>4. ASSUME NEW p \in DOMAIN r, NEW q \in DOMAIN r
      PROVE  /\ Ahead(key, p) \in Nat /\ Ahead(key, q) \in Nat
             /\ Ahead(key, p) = Ahead(key, q) => p = q
  <2>1. /\ p \in Int /\ q \in Int /\ key \in Int /\ RingSize \in Int
        /\ 0 <= p /\ p < RingSize /\ 0 <= q /\ q < RingSize
    BY RingAssumption DEF Positions
  <2> QED
    BY <2>1, AheadSays
<1>5. ASSUME NEW p \in F, NEW q \in DOMAIN r, r[q] = r[p]
      PROVE  Ahead(key, p) <= Ahead(key, q)
  BY <1>1, <1>4, <1>5
<1>6. ASSUME NEW p \in F, NEW q \in F, r[p] = r[q] PROVE p = q
  BY <1>2, <1>4, <1>5, <1>6
<1>7. ASSUME NEW m \in NodesOf(r) PROVE \E p \in F : r[p] = m
  <2> DEFINE own == {q \in DOMAIN r : r[q] = m}
             T == {Ahead(key, q) : q \in own}
  <2>1. T \in SUBSET Nat /\ T # {}
    BY <1>4 DEF NodesOf
  <2> HIDE DEF T
  <2>2. PICK a \in T : \A k \in T : a <= k
    BY <2>1, LeastDistance
  <2>3. PICK p \in own : a = Ahead(key, p)
    BY <2>2 DEF T
  <2>4. ASSUME NEW q \in DOMAIN r, r[q] = m PROVE ~(Ahead(key, q) < Ahead(key, p))
    <3>1. Ahead(key, q) \in T
      BY <2>4 DEF T
    <3> QED
      BY <1>4, <2>2, <2>3, <3>1
  <2> QED
    BY <1>1, <2>3, <2>4
<1>8. Cardinality(F) = Cardinality(NodesOf(r))
  <2> DEFINE f == [p \in F |-> r[p]]
  <2>1. f \in [F -> NodesOf(r)]
    BY <1>2 DEF NodesOf
  <2>2. \A p, q \in F : f[p] = f[q] => p = q
    BY <1>6
  <2>3. \A m \in NodesOf(r) : \E p \in F : f[p] = m
    BY <1>7
  <2> HIDE DEF f
  <2>4. f \in Bijection(F, NodesOf(r))
    BY <2>1, <2>2, <2>3 DEF Bijection, Injection, Surjection, IsInjective
  <2>5. ExistsBijection(F, NodesOf(r))
    BY <2>4 DEF ExistsBijection
  <2> QED
    BY <1>3, <2>5, FS_Bijection
<1> QED
  BY <1>2, <1>3, <1>5, <1>6, <1>7, <1>8 DEF F

\* at[i] is the position at which the walk from key meets its i-th new node.
InOrder(r, key, at) ==
    LET num == 1..Cardinality(NodesOf(r))
    IN  /\ at \in [num -> DOMAIN r]
        /\ \A i, j \in num : i < j <=> Ahead(key, at[i]) < Ahead(key, at[j])
        /\ \A i \in num : FirstAhead(r, key, r[at[i]]) = Ahead(key, at[i])
        /\ \A m \in NodesOf(r) : \E i \in num : r[at[i]] = m
        /\ \A n \in Nat : GetNNodes(r, key, n)
                            = [i \in 1..Min({n, Cardinality(NodesOf(r))}) |-> r[at[i]]]

\* The smaller of two numbers.
LEMMA MinOfTwo ==
    ASSUME NEW a \in Nat, NEW b \in Nat
    PROVE  Min({a, b}) = IF a <= b THEN a ELSE b
<1> DEFINE c == IF a <= b THEN a ELSE b
<1>1. c \in {a, b} /\ \A y \in {a, b} : c <= y
  OBVIOUS
<1>2. Min({a, b}) \in {a, b} /\ \A y \in {a, b} : Min({a, b}) <= y
  BY <1>1 DEF Min
<1>3. ASSUME NEW x \in {a, b}, \A y \in {a, b} : x <= y PROVE x = c
  BY <1>3
<1> QED
  BY <1>2, <1>3

\* Every walk has such an enumeration, and get_n_nodes takes its first n.
LEMMA WalkInOrder ==
    ASSUME NEW r, DOMAIN r \subseteq Positions, NEW key \in Positions
    PROVE  \E at : InOrder(r, key, at)
<1>1. PICK F : F = FirstSeen(r, key)
  OBVIOUS
<1>2. /\ F \in SUBSET DOMAIN r /\ IsFiniteSet(F)
      /\ \A p, q \in F : r[p] = r[q] => p = q
      /\ \A p \in F : \A q \in DOMAIN r : r[q] = r[p] => Ahead(key, p) <= Ahead(key, q)
      /\ \A m \in NodesOf(r) : \E p \in F : r[p] = m
      /\ Cardinality(F) = Cardinality(NodesOf(r))
  BY <1>1, FirstSeenSays
<1>3. Cardinality(F) \in Nat
  BY <1>2, FS_CardinalityType
<1>4. ASSUME NEW p \in DOMAIN r, NEW q \in DOMAIN r
      PROVE  /\ Ahead(key, p) \in Nat /\ Ahead(key, q) \in Nat
             /\ Ahead(key, p) = Ahead(key, q) => p = q
             /\ MetBefore(Walk(r, key), p, q) <=> Ahead(key, p) < Ahead(key, q)
  <2>1. /\ p \in Int /\ q \in Int /\ key \in Int /\ RingSize \in Int
        /\ 0 <= p /\ p < RingSize /\ 0 <= q /\ q < RingSize
    BY RingAssumption DEF Positions
  <2>2. MetBefore(Walk(r, key), p, q) <=> Ahead(key, p) < Ahead(key, q)
    BY WalkSays
  <2> QED
    BY <2>1, <2>2, AheadSays
<1>5. PICK d : d = [p \in F |-> Ahead(key, p)]
  OBVIOUS
<1>6. PICK B : B = [p \in F |-> {q \in F : d[q] < d[p]}]
  OBVIOUS
<1>7. Numbered(F, d, B)
  BY <1>2, <1>4, <1>5, <1>6 DEF Numbered
<1>8. /\ \A p \in F : Cardinality(B[p]) \in 0..(Cardinality(F) - 1)
      /\ \A p, q \in F : d[p] < d[q] <=> Cardinality(B[p]) < Cardinality(B[q])
      /\ \A i \in 0..(Cardinality(F) - 1) : \E p \in F : Cardinality(B[p]) = i
  BY <1>2, <1>7, Numbering
<1> DEFINE num == 1..Cardinality(F)
<1>9. PICK at : at = [i \in num |-> CHOOSE p \in F : Cardinality(B[p]) = i - 1]
  OBVIOUS
<1>10. ASSUME NEW i \in num PROVE at[i] \in F /\ Cardinality(B[at[i]]) = i - 1
  <2>1. i - 1 \in 0..(Cardinality(F) - 1)
    BY <1>3
  <2>2. \E p \in F : Cardinality(B[p]) = i - 1
    BY <1>8, <2>1
  <2> QED
    BY <1>9, <2>2
<1>11. at \in [num -> DOMAIN r]
  BY <1>2, <1>9, <1>10
<1>12. ASSUME NEW i \in num, NEW j \in num
       PROVE  i < j <=> Ahead(key, at[i]) < Ahead(key, at[j])
  <2>1. d[at[i]] = Ahead(key, at[i]) /\ d[at[j]] = Ahead(key, at[j])
    BY <1>5, <1>10
  <2>2. d[at[i]] < d[at[j]] <=> i - 1 < j - 1
    BY <1>8, <1>10
  <2> QED
    BY <1>3, <2>1, <2>2
<1>13. ASSUME NEW i \in num PROVE FirstAhead(r, key, r[at[i]]) = Ahead(key, at[i])
  <2>1. PICK p : p = at[i]
    OBVIOUS
  <2>2. p \in F /\ p \in DOMAIN r
    BY <1>2, <1>10, <2>1
  <2> DEFINE T == {Ahead(key, x) : x \in {q \in DOMAIN r : r[q] = r[p]}}
  <2>3. Ahead(key, p) \in T /\ \A y \in T : Ahead(key, p) <= y /\ y \in Nat
    BY <1>2, <1>4, <2>2
  <2> HIDE DEF T
  <2>4. Min(T) \in T /\ \A y \in T : Min(T) <= y
    BY <2>3 DEF Min
  <2>5. Min(T) = Ahead(key, p)
    BY <2>3, <2>4
  <2> QED
    BY <2>1, <2>5 DEF FirstAhead, T
<1>14. ASSUME NEW m \in NodesOf(r) PROVE \E i \in num : r[at[i]] = m
  <2>1. PICK p \in F : r[p] = m
    BY <1>2
  <2>2. Cardinality(B[p]) \in 0..(Cardinality(F) - 1)
    BY <1>8
  <2>3. PICK i \in num : i - 1 = Cardinality(B[p])
    <3>1. Cardinality(B[p]) + 1 \in num /\ (Cardinality(B[p]) + 1) - 1 = Cardinality(B[p])
      BY <1>3, <2>2
    <3> QED
      BY <3>1
  <2>4. ~(d[p] < d[at[i]]) /\ ~(d[at[i]] < d[p])
    BY <1>8, <1>10, <2>2, <2>3
  <2>5. at[i] = p
    <3>1. d[p] = Ahead(key, p) /\ d[at[i]] = Ahead(key, at[i])
      BY <1>5, <1>10
    <3>2. p \in DOMAIN r /\ at[i] \in DOMAIN r
      BY <1>2, <1>10
    <3> QED
      BY <1>4, <2>4, <3>1, <3>2
  <2> QED
    BY <2>1, <2>5
<1>15. ASSUME NEW n \in Nat
       PROVE  GetNNodes(r, key, n) = [i \in 1..Min({n, Cardinality(F)}) |-> r[at[i]]]
  <2> DEFINE before(p) == {q \in F : MetBefore(Walk(r, key), q, p)}
             upto == 1..Min({n, Cardinality(F)})
  <2>1. GetNNodes(r, key, n)
          = [i \in upto |-> r[CHOOSE p \in F : Cardinality(before(p)) = i - 1]]
    BY <1>1 DEF GetNNodes
  <2>2. ASSUME NEW p \in F PROVE before(p) = B[p]
    BY <1>2, <1>4, <1>5, <1>6
  <2>3. ASSUME NEW i \in upto
        PROVE  (CHOOSE p \in F : Cardinality(before(p)) = i - 1) = at[i]
    <3>1. i \in num
      BY <1>3, MinOfTwo
    <3>2. \A p \in F : Cardinality(before(p)) = i - 1 <=> Cardinality(B[p]) = i - 1
      BY <2>2
    <3> HIDE DEF before
    <3>3. (CHOOSE p \in F : Cardinality(before(p)) = i - 1)
            = CHOOSE p \in F : Cardinality(B[p]) = i - 1
      BY <3>2, Zenon
    <3> QED
      BY <1>9, <3>1, <3>3
  <2> HIDE DEF before, upto
  <2>4. GetNNodes(r, key, n) = [i \in upto |-> r[at[i]]]
    BY <2>1, <2>3
  <2> QED
    BY <2>4 DEF upto
<1>16. InOrder(r, key, at)
  BY <1>2, <1>11, <1>12, <1>13, <1>14, <1>15 DEF InOrder
<1> QED
  BY <1>16

\* What get_n_nodes promises holds on every ring, whoever is on it.
LEMMA NearestFirst ==
    ASSUME NEW r, DOMAIN r \subseteq Positions
    PROVE  WalkIsNearestFirst(r)
<1> SUFFICES ASSUME NEW key \in Positions, NEW n \in 1..Cardinality(Nodes)
             PROVE  LET found == GetNNodes(r, key, n)
                        nodes == NodesOf(r)
                    IN  /\ Len(found) = Min({n, Cardinality(nodes)})
                        /\ Range(found) \subseteq nodes
                        /\ \A i \in DOMAIN found :
                             \A m \in nodes \ {found[j] : j \in 1..i} :
                               FirstAhead(r, key, found[i]) < FirstAhead(r, key, m)
  BY DEF WalkIsNearestFirst
<1>1. n \in Nat
  OBVIOUS
<1>2. PICK at : InOrder(r, key, at)
  BY WalkInOrder
<1>3. PICK c : c = Cardinality(NodesOf(r))
  OBVIOUS
<1>4. c \in Nat
  <2>1. IsFiniteSet(FirstSeen(r, key)) /\ Cardinality(FirstSeen(r, key)) = c
    BY <1>3, FirstSeenSays
  <2> QED
    BY <2>1, FS_CardinalityType
<1>5. PICK k : k = Min({n, c})
  OBVIOUS
<1>6. k \in Nat /\ k <= c
  BY <1>1, <1>4, <1>5, MinOfTwo
<1>7. PICK found : found = GetNNodes(r, key, n)
  OBVIOUS
<1>8. found = [i \in 1..k |-> r[at[i]]]
  BY <1>1, <1>2, <1>3, <1>5, <1>7 DEF InOrder
<1>9. /\ at \in [1..c -> DOMAIN r]
      /\ \A i, j \in 1..c : i < j <=> Ahead(key, at[i]) < Ahead(key, at[j])
      /\ \A i \in 1..c : FirstAhead(r, key, r[at[i]]) = Ahead(key, at[i])
      /\ \A m \in NodesOf(r) : \E i \in 1..c : r[at[i]] = m
  BY <1>2, <1>3 DEF InOrder
<1>10. ASSUME NEW i \in 1..k PROVE i \in 1..c /\ found[i] = r[at[i]] /\ found[i] \in NodesOf(r)
  <2>1. i \in 1..c
    BY <1>4, <1>6
  <2> QED
    BY <1>8, <1>9, <2>1 DEF NodesOf
<1>11. Len(found) = k
  BY <1>6, <1>8
<1>12. Range(found) \subseteq NodesOf(r)
  BY <1>8, <1>10 DEF Range
<1>13. ASSUME NEW i \in 1..k, NEW m \in NodesOf(r) \ {found[j] : j \in 1..i}
       PROVE  FirstAhead(r, key, found[i]) < FirstAhead(r, key, m)
  <2>1. PICK j \in 1..c : r[at[j]] = m
    BY <1>9
  <2>2. i < j
    <3>1. ASSUME j <= i PROVE FALSE
      <4>1. j \in 1..i /\ j \in 1..k
        BY <1>4, <1>6, <3>1
      <4>2. found[j] = m
        BY <1>10, <2>1, <4>1
      <4> QED
        BY <4>1, <4>2
    <3> QED
      BY <1>4, <1>6, <3>1
  <2>3. i \in 1..c /\ found[i] = r[at[i]]
    BY <1>10
  <2>4. Ahead(key, at[i]) < Ahead(key, at[j])
    BY <1>9, <2>2, <2>3
  <2>5. FirstAhead(r, key, r[at[i]]) = Ahead(key, at[i])
        /\ FirstAhead(r, key, r[at[j]]) = Ahead(key, at[j])
    BY <1>9, <2>3
  <2> QED
    BY <2>1, <2>3, <2>4, <2>5
<1>14. DOMAIN found = 1..k
  BY <1>8
<1> QED
  BY <1>3, <1>5, <1>7, <1>11, <1>12, <1>13, <1>14

-----------------------------------------------------------------------------
(* Who moves. *)

\* A ring holds every virtual node of each of its nodes, and nothing else: what
\* add_node puts there and remove_node takes away again.
Whole(r) ==
    /\ Placed(r)
    /\ \A n \in NodesOf(r) : \A i \in Labels :
         Vnode[n][i] \in DOMAIN r /\ r[Vnode[n][i]] = n

LEMMA AddNodesWhole ==
    ASSUME NEW r, Whole(r), NEW S \in SUBSET Nodes
    PROVE  Whole(AddNodes(r, S))
<1>1. PICK t : t = AddNodes(r, S)
  OBVIOUS
<1>2. Placed(t) /\ NodesOf(t) = NodesOf(r) \cup S
  BY <1>1, AddNodesAdds DEF Whole
<1>3. DOMAIN t = DOMAIN r \cup PositionsOf(S)
  BY <1>1 DEF AddNodes
<1>4. ASSUME NEW n \in NodesOf(t), NEW i \in Labels
      PROVE  Vnode[n][i] \in DOMAIN t /\ t[Vnode[n][i]] = n
  <2>1. n \in Nodes
    BY <1>2 DEF Whole, Placed, NodesOf
  <2>2. Vnode[n][i] \in DOMAIN t
    BY <1>2, <1>3 DEF Whole, PositionsOf
  <2> QED
    BY <1>2, <2>1, <2>2, RingAssumption DEF Placed
<1> QED
  BY <1>1, <1>2, <1>4 DEF Whole

LEMMA RemoveNodesWhole ==
    ASSUME NEW r, Whole(r), NEW S \in SUBSET Nodes
    PROVE  Whole(RemoveNodes(r, S))
<1>1. PICK t : t = RemoveNodes(r, S)
  OBVIOUS
<1>2. Placed(t) /\ NodesOf(t) = NodesOf(r) \ S
  BY <1>1, RemoveNodesRemoves DEF Whole
<1>3. DOMAIN t = DOMAIN r \ PositionsOf(S) /\ \A x \in DOMAIN t : t[x] = r[x]
  BY <1>1 DEF RemoveNodes, Restrict
<1>4. ASSUME NEW n \in NodesOf(t), NEW i \in Labels
      PROVE  Vnode[n][i] \in DOMAIN t /\ t[Vnode[n][i]] = n
  <2>1. n \in NodesOf(r) /\ n \notin S /\ n \in Nodes
    BY <1>2 DEF Whole, Placed, NodesOf
  <2>2. Vnode[n][i] \in DOMAIN r /\ r[Vnode[n][i]] = n
    BY <2>1 DEF Whole
  <2>3. Vnode[n][i] \notin PositionsOf(S)
    BY <2>1, RingAssumption DEF PositionsOf
  <2> QED
    BY <1>3, <2>2, <2>3
<1> QED
  BY <1>1, <1>2, <1>4 DEF Whole

LEMMA WholeInit == Init => Whole(ring)
<1> SUFFICES ASSUME Init PROVE Whole(ring)
  OBVIOUS
<1>1. Whole(EmptyRing)
  BY DEF Whole, Placed, NodesOf, EmptyRing
<1> QED
  BY <1>1, AddNodesWhole, MembershipAssumption DEF Init

\* Only two steps of a pass write the ring.
LEMMA RingWriters ==
    Next => AddToRing \/ RemoveFromRing \/ ring' = ring
BY DEF Next, Reconcile, GossipChanges, Silence, TakeSnapshot, UpdateAddrs,
   RecordHeartbeats, ClearRejoined, CheckAll, RemoveAddrs, RecordDead

LEMMA WholeNext == MembershipInv /\ Whole(ring) /\ [Next]_vars => Whole(ring')
<1> SUFFICES ASSUME MembershipInv, Whole(ring), [Next]_vars PROVE Whole(ring')
  OBVIOUS
<1>1. CASE AddToRing
  <2>1. DOMAIN snapshot \ NodesOf(ring) \in SUBSET Nodes
    BY DEF MembershipInv, SetsTyped
  <2> QED
    BY <1>1, <2>1, AddNodesWhole DEF AddToRing
<1>2. CASE RemoveFromRing
  BY <1>2, RemoveNodesWhole DEF RemoveFromRing, MembershipInv, SetsTyped
<1>3. CASE ring' = ring
  BY <1>3
<1> QED
  BY <1>1, <1>2, <1>3, RingWriters DEF vars

\* Every virtual node of every node of the ring is on the ring, and nothing else.
THEOREM RingIsWhole == Spec => []Whole(ring)
<1>1. (MembershipInv /\ Whole(ring)) /\ [Next]_vars => Whole(ring)'
  <2>1. Whole(ring') => Whole(ring)'
    BY DEF Whole, Placed, NodesOf
  <2> QED
    BY <2>1, WholeNext
<1> QED
  BY <1>1, WholeInit, MembershipInvariant, PTL DEF Spec

\* There are finitely many nodes, as each has positions of its own.
LEMMA NodesFinite == IsFiniteSet(Nodes)
<1> DEFINE f == [n \in Nodes |-> Vnode[n][0]]
<1>1. 0 \in Labels
  BY RingAssumption DEF Labels
<1>2. f \in [Nodes -> Positions] /\ \A m, n \in Nodes : f[m] = f[n] => m = n
  BY <1>1, RingAssumption
<1> HIDE DEF f
<1>3. f \in Injection(Nodes, Positions)
  BY <1>2 DEF Injection, IsInjective
<1>4. IsFiniteSet(Positions)
  BY RingAssumption, FS_Interval DEF Positions
<1> QED
  BY <1>3, <1>4, FS_Injection

\* Where a node first appears depends on its own virtual nodes only.
LEMMA OwnDistance ==
    ASSUME NEW r, Whole(r), NEW m \in NodesOf(r), NEW key \in Positions
    PROVE  FirstAhead(r, key, m) = Min({Ahead(key, Vnode[m][i]) : i \in Labels})
<1>1. {q \in DOMAIN r : r[q] = m} = {Vnode[m][i] : i \in Labels}
  <2>1. ASSUME NEW q \in DOMAIN r, r[q] = m PROVE \E i \in Labels : q = Vnode[m][i]
    BY <2>1 DEF Whole, Placed
  <2>2. ASSUME NEW i \in Labels PROVE Vnode[m][i] \in DOMAIN r /\ r[Vnode[m][i]] = m
    BY DEF Whole
  <2> QED
    BY <2>1, <2>2
<1>2. {Ahead(key, p) : p \in {Vnode[m][i] : i \in Labels}}
        = {Ahead(key, Vnode[m][i]) : i \in Labels}
  OBVIOUS
<1> QED
  BY <1>1, <1>2 DEF FirstAhead

\* A full walk meets every node of the ring, in the order of these distances.
LEMMA FullWalk ==
    ASSUME NEW r, Whole(r), NEW key \in Positions
    PROVE  /\ NodesOf(r) \subseteq Range(GetNNodes(r, key, Cardinality(Nodes)))
           /\ \A m, n \in NodesOf(r) :
                NodeBefore(r, key, m, n) <=> FirstAhead(r, key, m) < FirstAhead(r, key, n)
<1>1. DOMAIN r \subseteq Positions /\ NodesOf(r) \in SUBSET Nodes
  BY RingAssumption DEF Whole, Placed, NodesOf
<1>2. PICK c : c = Cardinality(NodesOf(r))
  OBVIOUS
<1>3. /\ c \in Nat /\ Cardinality(Nodes) \in Nat /\ c <= Cardinality(Nodes)
  BY <1>1, <1>2, NodesFinite, FS_Subset, FS_CardinalityType
<1>4. Min({Cardinality(Nodes), c}) = c
  BY <1>3, MinOfTwo
<1>5. PICK at : InOrder(r, key, at)
  BY <1>1, WalkInOrder
<1>6. PICK found : found = GetNNodes(r, key, Cardinality(Nodes))
  OBVIOUS
<1>7. found = [i \in 1..c |-> r[at[i]]]
  BY <1>2, <1>3, <1>4, <1>5, <1>6 DEF InOrder
<1>8. /\ at \in [1..c -> DOMAIN r]
      /\ \A i, j \in 1..c : i < j <=> Ahead(key, at[i]) < Ahead(key, at[j])
      /\ \A i \in 1..c : FirstAhead(r, key, r[at[i]]) = Ahead(key, at[i])
      /\ \A m \in NodesOf(r) : \E i \in 1..c : r[at[i]] = m
  BY <1>2, <1>5 DEF InOrder
<1>9. DOMAIN found = 1..c /\ \A i \in 1..c : found[i] = r[at[i]]
  BY <1>7
<1>10. NodesOf(r) \subseteq Range(found)
  BY <1>8, <1>9 DEF Range
<1>11. ASSUME NEW m \in NodesOf(r), NEW n \in NodesOf(r)
       PROVE  NodeBefore(r, key, m, n) <=> FirstAhead(r, key, m) < FirstAhead(r, key, n)
  <2>1. NodeBefore(r, key, m, n)
          <=> \E i, j \in 1..c : i < j /\ found[i] = m /\ found[j] = n
    BY <1>6, <1>9 DEF NodeBefore
  <2>2. ASSUME NEW i \in 1..c, NEW j \in 1..c, found[i] = m, found[j] = n
        PROVE  i < j <=> FirstAhead(r, key, m) < FirstAhead(r, key, n)
    <3>1. /\ FirstAhead(r, key, m) = Ahead(key, at[i])
          /\ FirstAhead(r, key, n) = Ahead(key, at[j])
      BY <1>8, <1>9, <2>2
    <3> QED
      BY <1>8, <3>1
  <2>3. PICK i \in 1..c : found[i] = m
    BY <1>8, <1>9
  <2>4. PICK j \in 1..c : found[j] = n
    BY <1>8, <1>9
  <2> QED
    BY <2>1, <2>2, <2>3, <2>4
<1> QED
  BY <1>6, <1>10, <1>11

\* So the nodes that two rings share come in the same order on both.
LEMMA OrderOfShared ==
    ASSUME NEW r, NEW s, Whole(r), Whole(s)
    PROVE  OrderKept(r, s)
<1> SUFFICES ASSUME NEW key \in Positions
             PROVE  LET stay == NodesOf(r) \cap NodesOf(s)
                    IN  /\ \A t \in {r, s} :
                             stay \subseteq Range(GetNNodes(t, key, Cardinality(Nodes)))
                        /\ \A m, n \in stay :
                             NodeBefore(r, key, m, n) <=> NodeBefore(s, key, m, n)
  BY DEF OrderKept
<1> DEFINE stay == NodesOf(r) \cap NodesOf(s)
<1>1. \A t \in {r, s} : stay \subseteq Range(GetNNodes(t, key, Cardinality(Nodes)))
  BY FullWalk
<1>2. ASSUME NEW m \in stay, NEW n \in stay
      PROVE  NodeBefore(r, key, m, n) <=> NodeBefore(s, key, m, n)
  <2>1. /\ FirstAhead(r, key, m) = FirstAhead(s, key, m)
        /\ FirstAhead(r, key, n) = FirstAhead(s, key, n)
    BY OwnDistance
  <2> QED
    BY <2>1, FullWalk
<1> QED
  BY <1>1, <1>2

\* Whatever nodes have joined and left, get_n_nodes on the ring of the next pass
\* gives every key its nearest distinct nodes clockwise, in that order.
THEOREM ReplicasNearestFirstHolds == Spec => ReplicasNearestFirst
<1> DEFINE Nearest == ring' = ring \/ WalkIsNearestFirst(ring')
<1>1. ASSUME MembershipInv, Whole(ring), [Next]_vars PROVE [Nearest]_vars
  <2>1. Placed(ring')
    BY <1>1, WholeNext DEF Whole
  <2>2. DOMAIN ring' \subseteq Positions
    BY <2>1, RingAssumption DEF Placed
  <2> QED
    BY <2>2, NearestFirst
<1> QED
  BY <1>1, MembershipInvariant, RingIsWhole, PTL DEF Spec, ReplicasNearestFirst

\* reconcile_step moves keys only to the nodes it adds and from those it removes.
THEOREM OnlyOwnKeysMoveHolds == Spec => OnlyOwnKeysMove
<1> DEFINE Kept == ring' = ring \/ OrderKept(ring, ring')
<1>1. ASSUME MembershipInv, Whole(ring), [Next]_vars PROVE [Kept]_vars
  BY <1>1, WholeNext, OrderOfShared
<1> QED
  BY <1>1, MembershipInvariant, RingIsWhole, PTL DEF Spec, OnlyOwnKeysMove

=============================================================================
