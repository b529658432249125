\* Liveness, with every kind of failure allowed.
SPECIFICATION FairSpec
CONSTANTS
    a = a  b = b  base = base  conv = conv  h1 = h1  h2 = h2
    Janitor = Janitor  Nil = Nil
    Uuids = {b}
    Namespaces = {conv}
    ConvNamespaces = {conv}
    NsOf <- OneConversation
    DimOf <- OneDimension
    TtlUuids = {b}
    NonFinite = {}
    Matching = {b}
    Handlers = {h1}
    BatchSize = 2
    ChannelCapacity = 2
    CompactInterval = 1
    MaxEntries = 1
    MaxSequence = 2
    MaxCrashes = 1
    MaxFaults = 1
    FaultKinds = {"write", "torn", "torn_char", "snapshot", "truncate", "read_snapshot", "disconnect"}
PROPERTIES
    EveryRequestAnswered
    ExpiredReaped
    RestartCompletes
