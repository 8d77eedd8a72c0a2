SPECIFICATION Spec
CONSTANTS
    N = 3
    Capabilities = {c1, c2}
    IdBytes <- MCIdBytes
    Words = {}
    SummaryBytes <- MCSummaryBytes
    MaxRefs = 2
INVARIANTS
    TypeOK
    AtMostOnce
    TruthfulReport
    FallbackRescues
PROPERTIES
    NoCallAfterStop
    ImplementsContract
CHECK_DEADLOCK FALSE
