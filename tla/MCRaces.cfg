\* Two clients, the reaper and the flush task race; no failures.
SPECIFICATION Spec
SYMMETRY HandlerSymmetry
CONSTANTS
    a = a  b = b  base = base  conv = conv  h1 = h1  h2 = h2
    Janitor = Janitor  Nil = Nil
    Uuids = {a, b}
    Namespaces = {base}
    ConvNamespaces = {}
    NsOf <- OneNamespace
    DimOf <- OneDimension
    TtlUuids = {b}
    NonFinite = {}
    Matching = {a, b}
    Handlers = {h1, h2}
    BatchSize = 2
    ChannelCapacity = 2
    CompactInterval = 2
    MaxEntries = 1
    MaxSequence = 4
    MaxCrashes = 0
    MaxFaults = 0
    FaultKinds = {}
INVARIANTS
    DiskMatchesMemoryAtRest
