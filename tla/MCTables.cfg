\* Two entries with one text, and a conversation that expires.
SPECIFICATION Spec
CONSTANTS
    a = a  b = b  c = c  d = d  base = base  conv = conv
    text = text  withText = withText  noText = noText
    None = None
    Texts = {text}
    NsOf <- HomeOf
    DimOf <- Dimensions
    ProbeDim <- ProbeDimension
    ProbeText <- ProbeTexts
    Distance <- Near
    BaseOf <- BaseNamespace
    TextOf <- SharedText
    Radius = 3
    Uuids = {a, b, c, d}
    Namespaces = {base, conv}
    ConvNamespaces = {conv}
    TtlOf <- CTtl
    Probes = {withText, noText}
    Readers = {1}
    MaxEntries = 1
    MaxOverscan = 2
    ExactUpTo = 3
    MaxTime = 1
    MaxDelay = 1
    MaxNodes = 4
INVARIANTS
    SideTablesAgree
    GhostsHideNoHit
PROPERTIES
    EvictionTakesOldest
    ImplementsCacheIndex
