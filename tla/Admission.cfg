SPECIFICATION AdmissionSpec
CONSTANTS
    Requests <- MCRequests
    Envelopes <- MCEnvelopes
    Policies <- MCPolicies
    Records <- MCRecords
    StepIds = {"a", "b", "c", "x"}
    CapabilityIds = {"k1", "k2"}
    Effects = {"none", "local_file_write"}
    U64Max = 5
    Submissions <- MCSubmissions
INVARIANTS
    AdmissionIsEarned
    DenialIsExplained
    RulesAreThere
    VerdictIsExact
    HashPinsDelivery
CHECK_DEADLOCK FALSE
