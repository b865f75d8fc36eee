CONSTANTS
    Children = {kid}
    MaxRss = 1
    MaxStragglers = 1
    Queues <- MCQueues
    Texts <- MCTexts
    RowCounts = {3, 1000}
    HealthDeadline = 120
    CallTimeout = 10
    ProbeTimeout = 30
    PgrepTimeout = 5
    VersionTimeout = 5
SPECIFICATION Spec
INVARIANT RowsReported
CHECK_DEADLOCK FALSE
