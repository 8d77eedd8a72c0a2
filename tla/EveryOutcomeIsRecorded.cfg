SPECIFICATION PipelineSpec
CONSTANTS
    N = 2
    Capabilities = {c1, c2}
    IdBytes <- MCIdBytes
    Words = {"failed"}
    SummaryBytes <- MCSummaryBytes
    MaxRefs = 1
    MaxAdditional = 1
INVARIANT
    EveryOutcomeIsRecorded
CHECK_DEADLOCK FALSE
