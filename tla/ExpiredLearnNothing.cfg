SPECIFICATION Spec
CONSTANTS
    Capabilities = {"c1"}
    KeyMaps <- MCKeyMaps
    Requests <- MCRequests
    MaxWrites = 0
    MaxHangups = 0
    MaxRequests = 1
    MaxErrors = 0
INVARIANT
    ExpiredLearnNothing
CHECK_DEADLOCK FALSE
