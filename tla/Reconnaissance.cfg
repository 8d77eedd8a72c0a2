SPECIFICATION Spec
CONSTANTS
    Paths = {1, 2, 3, 4, 5}
    ForbiddenPaths = {5}
    Corpora <- MCCorpora
    Contents <- MCContents
    Calls <- MCCalls
    MaxTotalBytes = 6
    MaxMemberBytes = 2
    MaxMemberCount = 4
    MaxRewrites = 2
INVARIANTS
    OnlySealedIsAnalyzed
    ResultIsSound
CHECK_DEADLOCK FALSE
