\* Two peers that come, go and come back, at one of two addresses.
SPECIFICATION Spec
CONSTANTS
    n1 = n1  n2 = n2  n3 = n3
    addr1 = addr1  addr2 = addr2
    Nodes = {n1, n2, n3}
    VirtualNodes = 2
    RingSize = 7
    Vnode <- SpreadVnodes
    Self = n1
    SelfAddr = addr1
    Addrs = {addr1, addr2}
    RemovalEnabled = TRUE
INVARIANTS
    TypeOK
    AddressesCoverRing
    StatusCoherent
PROPERTIES
    ReplicasNearestFirst
    HeardPeersStay
    OnlyOwnKeysMove
    SettledPeerServes
    SilentPeerLeaves
