CONSTANTS
    Task = {t1, t2}
    Namespace = {a, b}
    Buckets = 1
    Ops = {"hit", "insert", "exact", "compact"}
    Watched <- WatchedLine
    MaxEvents = 2
    MaxPages = 2
SPECIFICATION Spec
SYMMETRY Symmetry
CHECK_DEADLOCK FALSE
INVARIANTS
    RestingCountersAgree
    PagesNeverGoBack
