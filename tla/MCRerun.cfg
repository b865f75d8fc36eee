CONSTANTS
    Last = 2
    Selections <- MCSelections
    Scripts <- MCScripts
    ArchiveOrder <- MCArchiveOrder
    MaxSessions = 3
SPECIFICATION FairSpec
INVARIANT RerunCompletes
CHECK_DEADLOCK FALSE
