\* The nearest entry has expired and waits for the reaper, the next is live.
SPECIFICATION Spec
CONSTANTS
    a = a  b = b  c = c  d = d  base = base  conv = conv
    text = text  withText = withText  noText = noText
    None = None
    Texts = {text}
    NsOf <- HomeOf
    DimOf <- Dimensions
    ProbeDim <- ProbeDimension
    ProbeText <- ProbeTexts
    Distance <- Near
    BaseOf <- BaseNamespace
    TextOf <- SharedText
    Radius = 3
    Uuids = {a, b}
    Namespaces = {base}
    ConvNamespaces = {}
    TtlOf <- ATtl
    Probes = {noText}
    Readers = {1}
    MaxEntries = 2
    MaxOverscan = 2
    ExactUpTo = 3
    MaxTime = 1
    MaxDelay = 1
    MaxNodes = 2
INVARIANTS
    ExpiredHidesNoHit
