------------------------------ MODULE Reports ------------------------------
(***************************************************************************)
(* What reports/ makes of the raw logs of one run.  Six programs read the  *)
(* same lines, each with a filter of its own: generate_report.py groups    *)
(* them by workload, engine and step, build_published.py, _headline.py,    *)
(* summarize_run.py and summarize_write.py by engine and step.  The logs   *)
(* grow here as RunLog lets them grow, and the reports are operators on    *)
(* them: a report may be made of a run that is over or of one that was cut *)
(* short anywhere.                                                         *)
(*                                                                         *)
(* The adapters set error exactly when exit_code is not 0: one flag, ok.   *)
(* Times are small numbers, NoTime where the engine told none.             *)
(***************************************************************************)
EXTENDS Schedule, Curve, FiniteSetsExt

CONSTANTS
    Engines,
    StepIds,     \* StepIds[w][n]: the id of step n of workload w
    Kinds,       \* Kinds[w][n]: the step_kind of step n of workload w
    Queries,     \* the ids that start with "q"
    Outcomes,    \* Outcomes[e]: what a step on e may end with
    MaxRecords   \* bound: records in all logs together

NoTime == -1
NoHash == "none"

\* Only queries take their ids from the q*.sql files.
ASSUME ReportsAssumption ==
    /\ MaxRecords \in Nat
    /\ IsFiniteSet(Engines)
    /\ \A w \in Workloads : DOMAIN StepIds[w] = 1 .. Steps[w]
    /\ \A w \in Workloads : \A n \in 1 .. Steps[w] :
          StepIds[w][n] \in Queries => Kinds[w][n] = "sql_query"
    /\ \A e \in Engines : \A o \in Outcomes[e] :
          o.wall \in Nat /\ o.ems \in Nat \cup {NoTime} /\ (o.sha # NoHash => o.ok)

VARIABLE logs   \* logs[e]: the records of raw/<e>.jsonl

Ids        == UNION {Range(StepIds[w]) : w \in Workloads}
Id(r)      == StepIds[r.cell.wl][r.cell.step]
KindOf(r)  == Kinds[r.cell.wl][r.cell.step]
Cold(r)    == IsCold(r.cell)
\* engine_reported_ms, or wall_ms where there is none.
Time(r)    == IF r.ems # NoTime THEN r.ems ELSE r.wall

Init == logs = [e \in Engines |-> <<>>]

\* The runner appends a record, or gives a workload up and begins a later one.
Measure(e, c, o) ==
    /\ MapThenSumSet(LAMBDA f : Len(logs[f]), Engines) < MaxRecords
    /\ CanFollow(logs[e], c)
    /\ logs' = [logs EXCEPT ![e] = Append(@, [cell |-> c, ok |-> o.ok, wall |-> o.wall,
                                              ems |-> o.ems, sha |-> o.sha])]

Next == \E e \in Engines : \E c \in Cell, o \in Outcomes[e] : Measure(e, c, o)

Spec == Init /\ [][Next]_logs

-----------------------------------------------------------------------------
(***************************************************************************)
(* generate_report.py.  Samples are functions on the numbers of the lines  *)
(* they were read from.                                                    *)
(***************************************************************************)

\* Variant of Counts: an exit code is not asked for.
CountsAny(r) == TRUE

Counts(r) == r.ok

Group(e, w, id) == {n \in DOMAIN logs[e] : logs[e][n].cell.wl = w /\ Id(logs[e][n]) = id}

\* cellize: the cold and the warm wall times, the failures, and the hash of
\* the first success that has one.
CellStats(e, w, id) ==
    LET log    == logs[e]
        recs   == Group(e, w, id)
        hashed == {n \in recs : log[n].sha # NoHash /\ log[n].ok}
    IN [cold     |-> [n \in {m \in recs : Cold(log[m]) /\ Counts(log[m])} |-> log[n].wall],
        warm     |-> [n \in {m \in recs : ~Cold(log[m]) /\ Counts(log[m])} |-> log[n].wall],
        failures |-> {n \in recs : ~log[n].ok},
        sha      |-> IF hashed = {} THEN NoHash ELSE log[Min(hashed)].sha]

\* Variant of EngineHashes: hashes are collected by step id alone.
EngineHashesById(w, id) ==
    {CellStats(e, v, id).sha : e \in Engines, v \in Workloads} \ {NoHash}

EngineHashes(w, id) == {CellStats(e, w, id).sha : e \in Engines} \ {NoHash}

\* correctness_check: the steps report.md lists as disagreements.
Issues == {step \in Workloads \X Ids : Cardinality(EngineHashes(step[1], step[2])) > 1}

-----------------------------------------------------------------------------
(***************************************************************************)
(* The other readers                                                       *)
(***************************************************************************)

WarmSuccess(r) == r.ok /\ ~Cold(r)

\* Variant of PublishedWarm: a parse error's round trip is taken for a run.
PublishedWarmAll(e, id) ==
    [n \in {m \in DOMAIN logs[e] : id \in Queries /\ Id(logs[e][m]) = id /\ ~Cold(logs[e][m])}
        |-> Time(logs[e][n])]

\* build_published.load_engine_records: warm times of a query, whatever the
\* workload; lines without a time or with an error count as failures.
PublishedWarm(e, id) ==
    [n \in {m \in DOMAIN logs[e] : id \in Queries /\ Id(logs[e][m]) = id /\ WarmSuccess(logs[e][m])}
        |-> Time(logs[e][n])]

\* render_bench_md: a row for every query some engine completed warm; what
\* the first table says, completed / rows.
PageQueries  == {id \in Ids : \E e \in Engines : DOMAIN PublishedWarm(e, id) # {}}
Completed(e) == {id \in PageQueries : DOMAIN PublishedWarm(e, id) # {}}

\* summarize_run._load and compare_df.load: by the kind of the step.
SummaryWarm(e, id) ==
    [n \in {m \in DOMAIN logs[e] : /\ KindOf(logs[e][m]) = "sql_query"
                                   /\ Id(logs[e][m]) = id /\ WarmSuccess(logs[e][m])}
        |-> Time(logs[e][n])]

\* _headline.warm_med_per_engine: engine_reported_ms or wall_ms, so that an
\* engine time of 0 counts as none; queries and write_ steps.
HeadlineTime(r) == IF r.ems \notin {NoTime, 0} THEN r.ems ELSE r.wall
HeadlineWarm(e, id) ==
    [n \in {m \in DOMAIN logs[e] : Id(logs[e][m]) = id /\ WarmSuccess(logs[e][m])}
        |-> HeadlineTime(logs[e][n])]

\* render_write_md: every step of the run but setup and cleanup;
\* summarize_write: statements that define or write, no query, no maintenance.
WrittenWarm(e) == [n \in {m \in DOMAIN logs[e] : WarmSuccess(logs[e][m])} |-> logs[e][n].wall]
SummarizedWarm(e) ==
    [n \in {m \in DOMAIN logs[e] : /\ KindOf(logs[e][m]) \in {"sql_ddl", "sql_dml"}
                                   /\ WarmSuccess(logs[e][m])}
        |-> logs[e][n].wall]

\* Both write summaries take an entry of the sorted list, by index from 0.
Entry(f, index) == 100 * OrderStat(f, index + 1)
AtLeastZero(n)  == IF n < 0 THEN 0 ELSE n
Size(f)         == Cardinality(DOMAIN f)

\* Variant of WriteP95: one too low.
WriteP95Lower(f) == Entry(f, AtLeastZero((95 * Size(f)) \div 100 - 2))

WriteP95(f)   == Entry(f, AtLeastZero((95 * Size(f)) \div 100 - 1))
SummaryP90(f) == IF Size(f) > 1 THEN Entry(f, (90 * Size(f)) \div 100 - 1)
                 ELSE Entry(f, 0)

-----------------------------------------------------------------------------
(***************************************************************************)
(* Properties                                                              *)
(***************************************************************************)

\* Line n of an engine's log is taken for this by a cell.
Takes(e, w, id, use, n) ==
    LET c == CellStats(e, w, id)
    IN \/ use = "cold" /\ n \in DOMAIN c.cold
       \/ use = "warm" /\ n \in DOMAIN c.warm
       \/ use = "failure" /\ n \in c.failures

Uses(e, n) == {u \in Workloads \X Ids \X {"cold", "warm", "failure"} :
                  Takes(e, u[1], u[2], u[3], n)}

\* report.md accounts for every line of the logs once: as a cold sample, as a
\* warm sample or as a failure of the one cell it belongs to.
EveryRecordCounted ==
    \A e \in Engines : \A n \in DOMAIN logs[e] : Cardinality(Uses(e, n)) = 1

\* The hashes an engine returned for a step, over all of its repetitions.
Shas(e, w, id) == {logs[e][n].sha : n \in Group(e, w, id)} \ {NoHash}

\* Where every engine agrees with itself over its repetitions, a step is
\* reported as a disagreement exactly if two engines returned different rows
\* for it; steps of other workloads with the same id do not matter.  (Only the
\* first hash of an engine is looked at: the condition is needed.)
HashesCompared ==
    \A w \in Workloads, id \in Ids :
        (\A e \in Engines : Cardinality(Shas(e, w, id)) <= 1) =>
            (<<w, id>> \in Issues <=>
                \E e, f \in Engines : \E a \in Shas(e, w, id), b \in Shas(f, w, id) : a # b)

\* The published page, the summary and the headline are made of the same warm
\* runs, though each has its own idea of what a query and a failure is; and if
\* one workload ran, which is how the page is meant to be made, those are the
\* warm runs of the report.
ReadersAgree ==
    \A e \in Engines, id \in Queries \cap Ids :
        /\ PublishedWarm(e, id) = SummaryWarm(e, id)
        /\ DOMAIN PublishedWarm(e, id) = DOMAIN HeadlineWarm(e, id)
        /\ \A w \in Workloads :
              (\A f \in Engines : \A n \in DOMAIN logs[f] : logs[f][n].cell.wl = w) =>
                  /\ DOMAIN PublishedWarm(e, id) = DOMAIN CellStats(e, w, id).warm
                  /\ id \in Completed(e) <=> DOMAIN CellStats(e, w, id).warm # {}

\* From three warm runs on, the tail figures of the write pages are not below
\* the median, and never above the interpolated percentile of the report.
TailsBracketed ==
    \A e \in Engines : \A f \in {WrittenWarm(e), SummarizedWarm(e)} :
        DOMAIN f # {} =>
            /\ WriteP95(f) <= Percentile(f, 95)
            /\ SummaryP90(f) <= Percentile(f, 90)
            /\ Size(f) # 2 => /\ Percentile(f, 50) <= WriteP95(f)
                              /\ Percentile(f, 50) <= SummaryP90(f)
=============================================================================
