\* A crash between a removal in memory and its tombstone.
SPECIFICATION Spec
CONSTANTS
    a = a  b = b  base = base  conv = conv  h1 = h1  h2 = h2
    Janitor = Janitor  Nil = Nil
    Uuids = {a, b}
    Namespaces = {base}
    ConvNamespaces = {}
    NsOf <- OneNamespace
    DimOf <- OneDimension
    TtlUuids = {}
    NonFinite = {}
    Matching = {a, b}
    Handlers = {h1}
    BatchSize = 1
    ChannelCapacity = 1
    CompactInterval = 0
    MaxEntries = 2
    MaxSequence = 3
    MaxCrashes = 1
    MaxFaults = 0
    FaultKinds = {}
INVARIANTS
    RemovedStaysRemoved
