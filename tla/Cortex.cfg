SPECIFICATION CortexSpec
CONSTANTS
    WorkerTypes = {"markdown_syntax", "pdf_text_syntax"}
    AUTHORIZED_WORKER_TYPES = {"markdown_syntax"}
    Versions = {"v1"}
    ShardIds = {"a", "b"}
    Envelopes <- MCEnvelopes
    CapabilityStates <- MCCapabilityStates
    PipeCapacity = 2
    MaxOutput = 3
INVARIANTS
    RunsOnlyWhatIsAdmitted
    TrailIsTheRun
    ZeroMeansComplete
    ReceiptIsWhole
    DeadlineKillsGroup
    KillIsSafe
    NothingLeftBehind
PROPERTIES
    DeadlineBounds
CHECK_DEADLOCK FALSE
