CONSTANTS
  df = df
  spark = spark
  duckdb = duckdb
  NumWorkloads = 2
  Steps <- MCSmallSteps
  ColdRuns <- MCColdRuns
  WarmRuns <- MCWarmRuns
  Engines = {df, duckdb}
  EngineOrder <- MCDistinctOrder
  Applicable <- MCApplicable
  Purging = TRUE
  KillsLive = {df}
  TimedEngines = {df}
SPECIFICATION Spec
PROPERTY PurgeSparesLiveEngine
CHECK_DEADLOCK FALSE
