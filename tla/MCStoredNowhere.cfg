CONSTANTS
    n1 = n1
    n2 = n2
    n3 = n3
    Node = {n1, n2, n3}
    Pref <- Walk
    RF = 2
    MaxRetries = 1
    read_repair_enabled = TRUE
    Fronts = {n3}
    MaxOpen = 1
    Unsteady <- Unsteady2
    StartViews <- StartViews2
    MaxFaults = 1
    Inserts = {i1}
    Queries = {}
    Removals = {}
SPECIFICATION Spec
CHECK_DEADLOCK FALSE
INVARIANT
    AckedInsertStored
