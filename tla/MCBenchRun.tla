----------------------------- MODULE MCBenchRun -----------------------------
(* BenchRun on a small schedule: two workloads, the first with two steps   *)
(* and one of them, the second with a warm run only.  The second engine of *)
(* an order is applicable to the second workload alone.                    *)
EXTENDS BenchRun

CONSTANTS df, spark, duckdb

MCSteps == <<2, 1>>
MCSmallSteps == <<1, 1>>
MCColdRuns == <<1, 0>>
MCWarmRuns == <<1, 1>>
MCApplicable == [e \in Engines |-> IF e = duckdb THEN {2} ELSE {1, 2}]
MCDistinctOrder == <<df, duckdb>>
MCRepeatedOrder == <<spark, spark>>
=============================================================================
