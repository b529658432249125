\* A crash in the middle of a character: no start gets past the replay.
SPECIFICATION FairSpec
CONSTANTS
    a = a  b = b  base = base  conv = conv  h1 = h1  h2 = h2
    Janitor = Janitor  Nil = Nil
    Uuids = {a}
    Namespaces = {base}
    ConvNamespaces = {}
    NsOf <- OneNamespace
    DimOf <- OneDimension
    TtlUuids = {}
    NonFinite = {}
    Matching = {a}
    Handlers = {h1}
    BatchSize = 1
    ChannelCapacity = 1
    CompactInterval = 0
    MaxEntries = 2
    MaxSequence = 3
    MaxCrashes = 1
    MaxFaults = 0
    FaultKinds = {"torn_char"}
PROPERTIES
    EveryStartServes
