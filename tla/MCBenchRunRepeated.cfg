CONSTANTS
  df = df
  spark = spark
  duckdb = duckdb
  NumWorkloads = 2
  Steps <- MCSteps
  ColdRuns <- MCColdRuns
  WarmRuns <- MCWarmRuns
  Engines = {spark}
  EngineOrder <- MCRepeatedOrder
  Applicable <- MCApplicable
  Purging = TRUE
  KillsLive = {spark}
  TimedEngines = {}
SPECIFICATION Spec
INVARIANT InOrder
INVARIANT GapFree
CHECK_DEADLOCK FALSE
