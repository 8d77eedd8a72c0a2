SPECIFICATION Spec
CONSTANTS
    Decisions <- MCDecisions
    Plans <- MCPlans
    LoadedStatuses <- MCLoadedStatuses
    Contexts <- MCContexts
    OptionLists <- MCOptionLists
    MaxCoordinations = 1
    MaxCalls = 4
INVARIANTS
    LawfulCallsSucceed
    HandoffIsOneRequest
    AcknowledgedIsStored
    FrictionCanBeTold
CHECK_DEADLOCK FALSE
