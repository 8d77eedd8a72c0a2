SPECIFICATION PipelineSpec
CONSTANTS
    N = 2
    Capabilities = {c1, c2}
    IdBytes <- MCIdBytes
    Words = {"failed"}
    SummaryBytes <- MCSummaryBytes
    MaxRefs = 1
    MaxAdditional = 1
INVARIANTS
    DeliveryIsAdmitted
    EvidenceIsComplete
    EvidenceIsTruthful
    ExitCodeTellsDelivery
CHECK_DEADLOCK FALSE
