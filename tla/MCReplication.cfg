CONSTANTS
    n1 = n1
    n2 = n2
    n3 = n3
    Node = {n1, n2, n3}
    Pref <- Walk
    RF = 2
    MaxRetries = 1
    read_repair_enabled = TRUE
    Fronts = {n3}
    MaxOpen = 2
    Unsteady <- Unsteady3
    StartViews <- StartViews3
    MaxFaults = 1
    Inserts = {i1}
    Queries = {q1}
    Removals = {d1}
SPECIFICATION Spec
CHECK_DEADLOCK FALSE
INVARIANTS
    AckMeansReplicated
    OneIdPerInsert
    UndisturbedRemovalIsFinal
    RepairKeepsDeadlines
PROPERTIES
    MissMeansNoReplicaHadIt
    EveryRequestAnswered
