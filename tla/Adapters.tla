------------------------------ MODULE Adapters ------------------------------
(***************************************************************************)
(* The engine adapters of engines/, driven by one process of the runner:   *)
(* start, run_step and stop of df, duckdb, spark-default and spark-tuned,  *)
(* with the Spark session that the two Spark adapters share through a      *)
(* module variable, and with the metric sampler of every step.  The runner *)
(* gives a child process one engine; --out-dir by hand may name several.   *)
(*                                                                         *)
(* A script is a sequence of tokens: a word stands for a statement's text, *)
(* "--" is a comment line, ";" ends a line and "; " is a semicolon inside  *)
(* a line.  What the engine does with a statement is external: all of it,  *)
(* or an error (for df also a timeout) after any part of it.  An error of  *)
(* df may go unseen, for its CLI prints it and exits 0 (bench:325-326).    *)
(***************************************************************************)
EXTENDS Sampler

CONSTANTS
    Queues,          \* the engines one process may be asked to run, in order
    Texts,           \* the scripts of the steps
    RowCounts,       \* how many rows a query may really return
    HealthDeadline, CallTimeout, ProbeTimeout,  \* seconds: 120, 10 and 30
    PgrepTimeout, VersionTimeout                \* 5 and 5

Engines == {"df", "duckdb", "spark-default", "spark-tuned"}
Spark   == {"spark-default", "spark-tuned"}
Kinds   == {"script", "query", "cypher"}
Breaks  == {";", "; "}

AdaptersAssumption ==
    /\ Queues \subseteq Seq(Engines)
    /\ Texts \subseteq Seq(STRING)
    /\ RowCounts \subseteq Nat
    /\ HealthDeadline \in Nat /\ CallTimeout \in Nat /\ ProbeTimeout \in Nat \ {0}
    /\ PgrepTimeout \in Nat /\ VersionTimeout \in Nat

ASSUME AdaptersAssumption

VARIABLES
    queue, phase,  \* engines left, the first one is current; where it stands
    jvm, cached,   \* the Spark session of the process; _session refers to it
    tunedFailed,   \* history: a start of spark-tuned raised
    clock,         \* seconds of a start() of df, until its first step
    step,          \* the step that runs: kind and text
    calls, ran,    \* what is left to send; how often each word was executed
    lost,          \* history: words of statements that failed, and nobody saw
    timed, ms,     \* statements that told a time; engine_reported_ms
    rows, real,    \* rows_returned; how many rows the engine told of
    sha, exit,     \* there is a result_sha256; exit_code
    result         \* the StepResult that was returned last

session == <<jvm, cached, tunedFailed>>
outcome == <<step, calls, ran, lost, timed, ms, rows, real, sha, exit>>
vars    == <<sampler, queue, phase, session, clock, outcome, result>>

engine   == IF queue = <<>> THEN "none" ELSE Head(queue)
NoResult == [exit |-> None, peak |-> None, counted |-> None, excused |-> TRUE]
InStep   == phase \in {"step", "ended", "joining", "reading"}

-----------------------------------------------------------------------------
(***************************************************************************)
(* Scripts                                                                 *)
(***************************************************************************)

\* A call is the set of the positions of its words in the script.
IsWord(token) == token \notin Breaks \cup {"--"}
Words(text)   == {n \in DOMAIN text : IsWord(text[n])}

\* _split_sql_statements: cut at the separators, drop what is only comment.
CutsBefore(text, separators, n) == {m \in 1..n : text[m] \in separators}
Statement(text, separators, n) ==
    {m \in Words(text) : CutsBefore(text, separators, m) = CutsBefore(text, separators, n)}
Split(text, separators) == {Statement(text, separators, n) : n \in Words(text)}

\* What is sent, in this order of its calls.  df sends a query with its
\* preamble at once.
Calls(e, kind, text) ==
    CASE e = "duckdb"                    -> {Words(text)}
      [] kind = "script" /\ e = "df"     -> Split(text, {";"})
      [] kind = "script" /\ e \in Spark  -> Split(text, Breaks)
      [] OTHER                           -> {Words(text)} \ {{}}

NextCall == CHOOSE c \in calls : \A d \in calls \ {c} : \A m \in c, n \in d : m < n

-----------------------------------------------------------------------------
(***************************************************************************)
(* start and stop                                                          *)
(***************************************************************************)

Init ==
    /\ SamplerInit
    /\ queue \in Queues
    /\ phase = "between"
    /\ jvm = "none" /\ cached = FALSE /\ tunedFailed = FALSE
    /\ clock = 0
    /\ step = [kind |-> "script", text |-> <<>>]
    /\ calls = {} /\ ran = <<>> /\ lost = {} /\ timed = 0 /\ ms = None
    /\ rows = None /\ real = None /\ sha = FALSE /\ exit = 0
    /\ result = NoResult

\* start() raises: the runner goes to the next engine without calling stop().
FailStart ==
    /\ phase' = "between"
    /\ queue' = Tail(queue)
    /\ clock' = 0
    /\ tunedFailed' = (tunedFailed \/ engine = "spark-tuned")
    /\ UNCHANGED <<sampler, outcome, result>>

Reach(p) ==
    /\ phase' = p
    /\ UNCHANGED <<sampler, queue, tunedFailed, outcome, result>>

Starting(e) == phase = "between" /\ engine = e

\* Variant of Build: the tuned session is not put into _spark_session.
BuildUncached(config, before) ==
    \/ /\ jvm' = IF before \in Spark THEN before ELSE config
       /\ cached' = (config # "spark-tuned")
       /\ Reach("probe") /\ UNCHANGED clock
    \/ jvm' = before /\ cached' = FALSE /\ FailStart

\* getOrCreate hands out a session that lives, whatever the builder says.
Build(config, before) ==
    \/ /\ jvm' = IF before \in Spark THEN before ELSE config
       /\ cached' = TRUE
       /\ Reach("probe") /\ UNCHANGED clock
    \/ jvm' = before /\ cached' = FALSE /\ FailStart

\* get_spark: what isStopped() answers is not looked at, only that it answers.
StartDefault ==
    /\ Starting("spark-default")
    /\ \/ cached /\ Reach("probe") /\ UNCHANGED <<jvm, cached, clock>>
       \/ (~cached \/ jvm = "dead") /\ Build("spark-default", jvm)

\* stop_spark, then a session of its own.
StartTuned ==
    /\ Starting("spark-tuned")
    /\ Build("spark-tuned", IF cached THEN "none" ELSE jvm)

\* SELECT 1; the pid to sample is the process itself.
ProbeSpark ==
    /\ phase = "probe" /\ engine \in Spark
    /\ \/ /\ jvm # "dead"
          /\ phase' = "up" /\ root' = "alive"
          /\ UNCHANGED <<thread, stop, sampled, counted, peak, late, stragglers,
                         queue, tunedFailed, clock, outcome, result>>
       \/ FailStart
    /\ UNCHANGED <<jvm, cached>>

\* Out of memory, or a crash: the context stops under its session.
SparkDies ==
    /\ jvm \in Spark /\ phase # "exit"
    /\ jvm' = "dead"
    /\ UNCHANGED <<sampler, queue, phase, cached, tunedFailed, clock, outcome, result>>

StartDuckdb ==
    /\ Starting("duckdb")
    /\ \/ /\ phase' = "up" /\ root' = "alive"
          /\ UNCHANGED <<thread, stop, sampled, counted, peak, late, stragglers,
                         queue, tunedFailed, clock, outcome, result>>
       \/ FailStart
    /\ UNCHANGED <<jvm, cached>>

\* Without a password start() raises at once.
StartDf ==
    /\ Starting("df")
    /\ \/ Reach("health") /\ clock' = 0
       \/ FailStart
    /\ UNCHANGED <<jvm, cached>>

\* Variant of Health: every call that fails is given the whole time again.
HealthRenewed ==
    /\ phase = "health"
    /\ \E d \in 0..CallTimeout :
          \/ Reach("probe") /\ clock' = clock + d
          \/ Reach("health") /\ clock' = clock + d + 1
    /\ UNCHANGED <<jvm, cached>>

\* Ask, sleep, ask again, until the deadline is over.
Health ==
    /\ phase = "health"
    /\ \/ clock >= HealthDeadline /\ FailStart
       \/ /\ clock < HealthDeadline
          /\ \E d \in 0..CallTimeout :
                \/ Reach("probe") /\ clock' = clock + d
                \/ Reach("health") /\ clock' = clock + d + 1
    /\ UNCHANGED <<jvm, cached>>

\* SELECT 1 through the CLI.
ProbeDf ==
    /\ phase = "probe" /\ engine = "df"
    /\ \/ \E d \in {0, ProbeTimeout} : Reach("probed") /\ clock' = clock + d
       \/ FailStart
    /\ UNCHANGED <<jvm, cached>>

\* pgrep: a pid, of which nobody hears when it ends, or none, also when it is
\* not done in time.
LocateWorker ==
    /\ phase = "probed"
    /\ phase' = "located"
    /\ \E d \in {0, PgrepTimeout} : clock' = clock + d
    /\ root' \in {"alive", "unknown"}
    /\ UNCHANGED <<thread, stop, sampled, counted, peak, late, stragglers,
                   queue, session, outcome, result>>

\* --version of the CLI, whose failure is no failure.
AskVersion ==
    /\ phase = "located"
    /\ \E d \in {0, VersionTimeout} : Reach("up") /\ clock' = clock + d
    /\ UNCHANGED <<jvm, cached>>

\* stop(): the session of the process for Spark, the pid for everyone.
Stop ==
    /\ phase = "up"
    /\ phase' = "between" /\ queue' = Tail(queue)
    /\ root' = "unknown" /\ clock' = 0
    /\ IF engine \in Spark
       THEN cached' = FALSE /\ jvm' = IF cached THEN "none" ELSE jvm
       ELSE UNCHANGED <<cached, jvm>>
    /\ UNCHANGED <<thread, stop, sampled, counted, peak, late, stragglers,
                   tunedFailed, outcome, result>>

Exit ==
    /\ phase = "between" /\ queue = <<>>
    /\ phase' = "exit"
    /\ UNCHANGED <<sampler, queue, session, clock, outcome, result>>

WorkerGone == engine = "df" /\ RootGone /\
    UNCHANGED <<queue, phase, session, clock, outcome, result>>

-----------------------------------------------------------------------------
(***************************************************************************)
(* run_step                                                                *)
(***************************************************************************)

Begin(kind, text) ==
    /\ phase = "up"
    /\ kind = "cypher" => engine = "df"
    /\ phase' = "step"
    /\ step' = [kind |-> kind, text |-> text]
    /\ calls' = Calls(engine, kind, text)
    /\ ran' = [n \in DOMAIN text |-> 0] /\ lost' = {} /\ timed' = 0 /\ ms' = None
    /\ rows' = None /\ real' = None /\ sha' = FALSE
    /\ exit' = IF Calls(engine, kind, text) = {} THEN 1 ELSE 0
    /\ IF root = "unknown" THEN UNCHANGED sampler ELSE StartSampler
    /\ result' = NoResult /\ clock' = 0
    /\ UNCHANGED <<queue, session>>

Sending == phase = "step" /\ calls # {} /\ exit = 0
InScript == UNCHANGED <<sampler, queue, session, clock, step, result>>

Run(words) == ran' = [n \in DOMAIN ran |-> IF n \in words THEN ran[n] + 1 ELSE ran[n]]

\* The engine does some of a call, and the call does not return well.
FailedPart ==
    /\ \E n \in 0..Len(step.text) : Run({m \in NextCall : m <= n})
    /\ UNCHANGED <<lost, timed, rows, real, sha>>

\* Variant of CallFails: an exception is passed over.
CallFailsUnseen ==
    /\ Sending /\ FailedPart
    /\ calls' = calls \ {NextCall}
    /\ UNCHANGED <<phase, exit, ms>> /\ InScript

\* An exception, a non-zero exit code of the CLI, or its timeout: nothing of
\* what is left is sent.
CallFails ==
    /\ Sending /\ FailedPart
    /\ exit' = 1 /\ phase' = "ended"
    /\ UNCHANGED <<calls, ms>> /\ InScript

\* The call returns well, and this part of it was executed.
Returned(part) ==
    /\ Run(part) /\ lost' = lost \cup (NextCall \ part)
    /\ calls' = calls \ {NextCall}

Executed ==
    /\ Returned(NextCall)
    /\ jvm = "dead" => engine \notin Spark

\* The CLI of df prints the error of a statement and exits 0.
LooksWell ==
    /\ engine = "df"
    /\ \E n \in 0..Len(step.text) : Returned({m \in NextCall : m <= n})

\* One statement of a script; DuckDB takes the script whole and tells no time.
StatementDone ==
    /\ Sending /\ step.kind = "script" /\ (Executed \/ LooksWell)
    /\ timed' \in IF engine = "duckdb" THEN {0} ELSE {timed, timed + 1}
    /\ UNCHANGED <<phase, ms, rows, real, sha, exit>> /\ InScript

\* The script is through, or it had no statement at all.
ScriptDone ==
    /\ phase = "step" /\ (calls = {} \/ exit # 0)
    /\ phase' = "ended"
    /\ ms' = IF step.kind = "script" /\ timed > 0 THEN timed ELSE ms
    /\ UNCHANGED <<calls, ran, lost, timed, rows, real, sha, exit>> /\ InScript

\* collect() or fetchall(): the rows are here to be counted and hashed.
RowsFetched ==
    /\ Sending /\ step.kind = "query" /\ engine # "df" /\ Executed
    /\ real' \in RowCounts
    /\ rows' = real'
    /\ sha' \in BOOLEAN
    /\ ms' \in IF engine = "duckdb" THEN {None} ELSE {None, 1}
    /\ UNCHANGED <<phase, timed, exit>> /\ InScript

\* float() of a cell with thousands separators raises, and that is passed over.
PlainNumber(n)  == IF n < 1000 THEN n ELSE 0
\* _stats_num takes the separators out.
StrippedNumber(n) == n

\* SHOW STATS ACTUAL: no rows, only a table of cells, each of which may lack.
StatsShown ==
    /\ Sending /\ step.kind \in {"query", "cypher"} /\ engine = "df"
    /\ \/ Executed /\ real' \in RowCounts \cup {None}
       \/ LooksWell /\ real' = None
    /\ \/ exit' = 1 /\ UNCHANGED <<rows, ms>>         \* not JSON
       \/ /\ ms' \in {None, 1}
          /\ rows' = IF real' = None THEN 0
                     ELSE IF step.kind = "cypher" THEN StrippedNumber(real')
                     ELSE PlainNumber(real')
          /\ exit' = IF step.kind = "cypher" /\ ms' = None THEN 1 ELSE 0
    /\ UNCHANGED <<phase, timed, sha>> /\ InScript

KeepOutcome == UNCHANGED <<queue, session, clock, outcome>>
DropOutcome ==
    /\ step' = [kind |-> "script", text |-> <<>>]
    /\ calls' = {} /\ ran' = <<>> /\ lost' = {} /\ timed' = 0 /\ ms' = None
    /\ rows' = None /\ real' = None /\ sha' = FALSE /\ exit' = 0

\* sampler.stop(), if there is a sampler ...
StopSampler ==
    /\ phase = "ended"
    /\ IF root = "unknown" THEN phase' = "reading" /\ UNCHANGED sampler
                           ELSE phase' = "joining" /\ SetStop
    /\ UNCHANGED result /\ KeepOutcome

JoinSampler ==
    /\ phase = "joining"
    /\ Join
    /\ phase' = "reading"
    /\ UNCHANGED result /\ KeepOutcome

\* ... and the StepResult, with the peak as it is by now.  The locals are gone.
Return ==
    /\ phase = "reading"
    /\ phase' = "up"
    /\ result' = IF root = "unknown" THEN [NoResult EXCEPT !.exit = exit]
                 ELSE [exit |-> exit, peak |-> peak, counted |-> counted,
                       excused |-> late \/ thread.pc = "left"]
    /\ DropOutcome /\ DropSampler
    /\ UNCHANGED <<queue, session, clock>>

StepMoves == CallFails \/ StatementDone \/ ScriptDone \/ RowsFetched \/ StatsShown
                \/ StopSampler \/ JoinSampler \/ Return

SamplerMoves == ThreadStep /\ UNCHANGED <<queue, phase, session, clock, outcome, result>>
StragglerMoves == StragglerEnds /\
    UNCHANGED <<queue, phase, session, clock, outcome, result>>

Next ==
    \/ StartDefault \/ StartTuned \/ ProbeSpark \/ SparkDies \/ StartDuckdb
    \/ StartDf \/ Health \/ ProbeDf \/ LocateWorker \/ AskVersion \/ WorkerGone
    \/ Stop \/ Exit
    \/ \E kind \in Kinds, text \in Texts : Begin(kind, text)
    \/ StepMoves \/ SamplerMoves \/ StragglerMoves

\* The CLI's calls have timeouts, the statements of Spark and DuckDB have not:
\* only df's steps are sure to go on.  A sampler thread is never blocked.
Spec ==
    /\ Init /\ [][Next]_vars
    /\ WF_vars(engine = "df" /\ StepMoves)
    /\ WF_vars(SamplerMoves) /\ WF_vars(StragglerMoves)

-----------------------------------------------------------------------------
(***************************************************************************)
(* Properties                                                              *)
(***************************************************************************)

\* Values stay in their ranges: a sample's total is of one pass over the tree.
TypeOK ==
    /\ SamplerTypeOK
    /\ phase \in {"between", "health", "probe", "probed", "located", "up", "step", "ended",
                  "joining", "reading", "exit"}
    /\ jvm \in {"none", "dead"} \cup Spark
    /\ cached \in BOOLEAN /\ tunedFailed \in BOOLEAN
    /\ clock \in Nat
    /\ step.kind \in Kinds
    /\ timed \in Nat
    /\ exit \in {0, 1} /\ sha \in BOOLEAN
    /\ {rows, real, ms} \subseteq Int

\* A df start ends: "not reachable within 120s" can take 130, for the last call
\* may begin before the deadline and be waited for, and a start that succeeds may
\* take the times of the probe, of pgrep and of --version on top.
StartBounded ==
    clock < HealthDeadline + CallTimeout + ProbeTimeout + PgrepTimeout + VersionTimeout

\* A Spark engine is measured under its own configuration.  The one exception:
\* spark-default behind a spark-tuned whose start raised in the same process,
\* for the runner does not stop an engine that did not start.
OwnConfig ==
    phase = "up" \/ InStep =>
        /\ engine = "spark-tuned" => jvm \in {"spark-tuned", "dead"}
        /\ engine = "spark-default" /\ ~tunedFailed => jvm \in {"spark-default", "dead"}

\* run_step sends every statement once and in order (base.py, "Running the SQL
\* exactly once"): at any time what was executed, but for what was lost in calls
\* that failed unseen, is a beginning of the script, none of it twice, and all of
\* it when the exit code is 0, whichever way the adapter splits the script.  Only
\* a script of df loses anything.  No more statements told a time than were sent.
Ran == {n \in DOMAIN ran : ran[n] > 0}
Accounted == Ran \cup lost

OnceInOrder ==
    /\ Accounted \subseteq Words(step.text) /\ Ran \cap lost = {} /\ \A n \in Ran : ran[n] = 1
    /\ \A n \in Accounted, m \in Words(step.text) : m < n => m \in Accounted
    /\ phase \in {"ended", "joining", "reading"} /\ exit = 0 =>
            Accounted = Words(step.text)
    /\ lost # {} => engine = "df"
    /\ timed <= Cardinality(Accounted)

\* The peak of a step covers every sample its average is made of, though it is
\* read from a thread that may still run.  There is none only where the process
\* was gone before the first sample, or the thread not done in the two seconds.
PeakCovers ==
    IF result.peak = None THEN result.excused ELSE result.counted <= result.peak

\* Every step of df returns to the runner; the thread of any step ends once its
\* event is set, whether or not other steps follow.
StepsEnd ==
    /\ (engine = "df" /\ InStep) ~> (phase = "up")
    /\ stop ~> (Ended \/ ~stop)

\* df_engine.py:462-464 of a df query, whose rows nobody hashes: "the bench
\* framework still records row count, which catches the gross-mismatch case".
RowsReported ==
    phase \in {"ended", "joining", "reading"} /\ exit = 0 /\ real # None =>
        rows = real
=============================================================================
