----------------------------- MODULE MCReports -----------------------------
(* TPC-H and TPC-DS, which both have a q01, and a workload that writes and *)
(* then compacts what it wrote.                                            *)
EXTENDS Reports

MCSteps    == <<1, 1, 2>>
MCColdRuns == <<1, 1, 0>>
MCWarmRuns == <<1, 2, 4>>
MCStepIds  == <<<<"q01">>, <<"q01">>, <<"write_fact", "optimize">>>>
MCKinds    == <<<<"sql_query">>, <<"sql_query">>, <<"sql_dml", "maintenance">>>>
Outcome(ok, wall, ems, sha) == [ok |-> ok, wall |-> wall, ems |-> ems, sha |-> sha]
Failed == Outcome(FALSE, 1, NoTime, NoHash)
MCOutcomes ==
    [df     |-> {Failed, Outcome(TRUE, 4, 2, NoHash), Outcome(TRUE, 5, 0, NoHash)},
     duckdb |-> {Failed, Outcome(TRUE, 3, NoTime, "h1"), Outcome(TRUE, 5, NoTime, "h2")},
     spark  |-> {Failed, Outcome(TRUE, 4, 3, "h1")}]
=============================================================================
