SPECIFICATION Spec
CONSTANTS
    Texts <- MCTexts
    IdBytes = {0, 36, 200, 201}
INVARIANTS
    ClaimsAreBacked
    EveryOutcomeCanBeTold
    ZeroMeansDoneAndTold
PROPERTIES
    Ends
CHECK_DEADLOCK FALSE
