SPECIFICATION Spec
CONSTANTS
    Capabilities = {"c1"}
    KeyMaps <- MCKeyMaps
    Requests <- MCRequests
    MaxWrites = 2
    MaxHangups = 2
    MaxRequests = 2
    MaxErrors = 1
INVARIANTS
    AnswersAreWhole
    StrangersLearnNothing
PROPERTIES
    HangupTakesEffect
    EveryRequestIsAnswered
CHECK_DEADLOCK FALSE
