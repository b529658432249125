\* One crash or false verdict at any point of the roll-out.
SPECIFICATION Spec
CONSTANTS
    n1 = n1  n2 = n2  n3 = n3
    CaA = CaA  CaB = CaB
    k1 = k1  k2 = k2
    Node = {n1, n2, n3}
    Plan <- EightGenerations
    Env <- Environments
    MaxPort = 65535
    MaxFaults = 1
INVARIANTS
    RotationKeepsLinks
    LinksAreMutual
PROPERTIES
    UniformClusterConnects
