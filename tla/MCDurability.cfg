\* One client, a crash and an I/O failure: what was promised survives.
SPECIFICATION Spec
CONSTANTS
    a = a  b = b  base = base  conv = conv  h1 = h1  h2 = h2
    Janitor = Janitor  Nil = Nil
    Uuids = {a, b}
    Namespaces = {base}
    ConvNamespaces = {}
    NsOf <- OneNamespace
    DimOf <- OneDimension
    TtlUuids = {b}
    NonFinite = {}
    Matching = {a, b}
    Handlers = {h1}
    BatchSize = 2
    ChannelCapacity = 2
    CompactInterval = 2
    MaxEntries = 1
    MaxSequence = 3
    MaxCrashes = 1
    MaxFaults = 1
    FaultKinds = {"write", "snapshot", "truncate", "disconnect"}
INVARIANTS
    TypeOK
    AckedInsertsSurvive
    AckedInsertsDurable
    ConfirmedRemovalsSurvive
    RecoveredMatchesDisk
    SequencesIncrease
    DurabilityInv
PROPERTIES
    ImplementsDurableCache
