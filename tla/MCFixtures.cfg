CONSTANTS
    Last = 2
    Selections <- MCSelections
    Scripts <- MCScripts
    ArchiveOrder <- MCArchiveOrder
    MaxSessions = 3
SPECIFICATION FairSpec
INVARIANT TypeOK
INVARIANT UninterruptedIsWhole
INVARIANT OverwriteRepairs
PROPERTY CompleteIsKept
PROPERTY BuildsItself
CHECK_DEADLOCK FALSE
