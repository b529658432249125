\* A crash in the middle of a line, then a second one.
SPECIFICATION Spec
CONSTANTS
    a = a  b = b  base = base  conv = conv  h1 = h1  h2 = h2
    Janitor = Janitor  Nil = Nil
    Uuids = {a, b}
    Namespaces = {base}
    ConvNamespaces = {}
    NsOf <- OneNamespace
    DimOf <- OneDimension
    TtlUuids = {}
    NonFinite = {}
    Matching = {a, b}
    Handlers = {h1}
    BatchSize = 1
    ChannelCapacity = 1
    CompactInterval = 0
    MaxEntries = 2
    MaxSequence = 3
    MaxCrashes = 2
    MaxFaults = 0
    FaultKinds = {"torn"}
INVARIANTS
    AckedInsertsSurvive
