CONSTANTS
    Keys <- MCKeys
    Hash <- MCHash
    FeedOffset = 1
    InsertOffset = 2
    Runs <- MCRuns
    MaxSessions = 2
    MaxInFlight = 1
SPECIFICATION Spec
INVARIANT TypeOK
INVARIANT SetupRestores
INVARIANT SetupNotRefused
INVARIANT KeysUnique
INVARIANT Reproducible
INVARIANT LeavesNothing
CHECK_DEADLOCK FALSE
