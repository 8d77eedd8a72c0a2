SPECIFICATION Spec
CONSTANTS
    Requests <- MCRequests
    Envelopes <- MCEnvelopes
    Policies <- MCPolicies
    Records <- MCRecords
INVARIANT
    FailureFoldsIntoDenial
CHECK_DEADLOCK FALSE
