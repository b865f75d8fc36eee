CONSTANTS
    NumWorkloads = 3
    Steps <- MCSteps
    ColdRuns <- MCColdRuns
    WarmRuns <- MCWarmRuns
    Engines = {"df", "duckdb", "spark"}
    StepIds <- MCStepIds
    Kinds <- MCKinds
    Queries = {"q01"}
    Outcomes <- MCOutcomes
    MaxRecords = 5
SPECIFICATION Spec
INVARIANT EveryRecordCounted
INVARIANT HashesCompared
INVARIANT ReadersAgree
INVARIANT TailsBracketed
CHECK_DEADLOCK FALSE
