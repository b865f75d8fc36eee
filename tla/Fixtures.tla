------------------------------ MODULE Fixtures ------------------------------
(***************************************************************************)
(* The fixture generators of data_gen/ and the two programs that call them:*)
(* bench_runner.py, which builds what a read workload lacks, and           *)
(* scripts/prepare_sf100.sh, which stages everything.  All of them decide  *)
(* from the existence of files what is done already, and any of them may   *)
(* be killed, or fail to write, while a file is half there.                *)
(*                                                                         *)
(* A table is a number; what a file holds is reduced to whether it is      *)
(*   "absent"  not there,                                                  *)
(*   "cut"     there, but a reader raises (no footer, no commit),          *)
(*   "short"   readable with rows missing (a CSV that was cut), or         *)
(*   "whole".                                                              *)
(***************************************************************************)
EXTENDS Naturals, Sequences, FiniteSets

CONSTANTS
    Last,          \* tables are 1..Last; the last one is JOB's title
    Selections,    \* the --workloads lists a run is started with
    Scripts,       \* the generator sequences started by hand or by a script
    ArchiveOrder,  \* the order of the CSV files in JOB's tarball
    MaxSessions    \* bound: programs started one after the other

Tables     == 1..Last
Families   == {"tpch", "tpcds", "ssb", "job"}
Generators == Families \cup {"tpch_parquet"}

\* The runner selects among the families; the tarball has every file once.
FixturesAssumption ==
    /\ Last \in Nat \ {0}
    /\ MaxSessions \in Nat
    /\ Selections \subseteq Seq(Families)
    /\ Scripts \subseteq Seq(Generators)
    /\ ArchiveOrder \in [Tables -> Tables]
    /\ \A t \in Tables : \E n \in Tables : ArchiveOrder[n] = t
    /\ \A m, n \in Tables : ArchiveOrder[m] = ArchiveOrder[n] => m = n

ASSUME FixturesAssumption

Contents   == {"absent", "cut", "short", "whole"}

\* What each generator's main goes through.
Stages == [tpch_parquet |-> <<"parquet">>,
           tpch         |-> <<"sources", "delta">>,
           tpcds        |-> <<"parquet", "delta", "queries">>,
           ssb          |-> <<"sources", "delta", "stamp">>,
           job          |-> <<"download", "extract", "parquet", "delta">>]

VARIABLES
    parquet, delta, \* family -> table -> content
    stamp,          \* SSB's _marker.parquet exists
    archive,        \* imdb.tgz; "short" is below the 100 MB that count
    csv,            \* table -> content of JOB's CSV files
    queries,        \* the query files of TPC-DS; "short" is fewer than 99
    session,        \* the program that runs: kind, arguments, what is left
    gen, stage, i,  \* current generator, index in Stages[gen], table
    busy,           \* table i is being written
    verdict,        \* how the last session ended
    sessions,       \* how many were started
    stopped         \* history: one of them was killed or failed to write

files   == <<parquet, delta, stamp, archive, csv, queries>>
control == <<session, gen, stage, i, busy>>
vars    == <<files, control, verdict, sessions, stopped>>

Idle    == session.kind = "idle"
Nobody  == [kind |-> "idle", args |-> <<>>, queue |-> <<>>, overwrite |-> FALSE]
Job(name, when) == [name |-> name, when |-> when]

Init ==
    /\ parquet = [f \in Families |-> [t \in Tables |-> "absent"]]
    /\ delta   = [f \in Families |-> [t \in Tables |-> "absent"]]
    /\ stamp = FALSE
    /\ archive = "absent"
    /\ csv = [t \in Tables |-> "absent"]
    /\ queries \in {"absent", "whole"}
    /\ session = Nobody
    /\ gen = "none" /\ stage = 0 /\ i = 1 /\ busy = FALSE
    /\ verdict = "none"
    /\ sessions = 0
    /\ stopped = FALSE

SomeOf(content) == \E t \in Tables : content[t] # "absent"
AllOf(content)  == \A t \in Tables : content[t] # "absent"
FilesIn(content) == {t \in Tables : content[t] # "absent"}

Family == IF gen = "tpch_parquet" THEN "tpch" ELSE gen
Stage  == IF gen \in Generators /\ stage <= Len(Stages[gen])
          THEN Stages[gen][stage] ELSE "none"

-----------------------------------------------------------------------------
(***************************************************************************)
(* Sessions                                                                *)
(***************************************************************************)

Start(kind, args, queue, overwrite) ==
    /\ Idle
    /\ sessions < MaxSessions
    /\ sessions' = sessions + 1
    /\ session' = [kind |-> kind, args |-> args, queue |-> queue,
                   overwrite |-> overwrite]
    /\ verdict' = "none"
    /\ UNCHANGED <<files, gen, stage, i, busy, stopped>>

\* bench_runner.py: every selected workload is looked at in turn.
StartRun(sel) ==
    Start("run", sel, [n \in DOMAIN sel |-> Job(sel[n], "workload")], FALSE)

\* A generator by hand, or all of them by prepare_sf100.sh (set -e).
StartScript(script, overwrite) ==
    Start("script", script, [n \in DOMAIN script |-> Job(script[n], "cli")],
          overwrite)

End(how) ==
    /\ session' = [session EXCEPT !.kind = "idle", !.queue = <<>>]
    /\ gen' = "none" /\ stage' = 0 /\ i' = 1 /\ busy' = FALSE
    /\ verdict' = how
    /\ UNCHANGED sessions

\* A generator returns non-zero or raises: check=True, or set -e, passes it on.
Fail == End("failed") /\ UNCHANGED <<files, stopped>>

Working == ~Idle /\ gen # "none"
Between == ~Idle /\ gen = "none"

\* Variant of Expand: SSB is generated without making sure of TPC-H first.
ExpandAlone(name) ==
    IF name = "tpch" THEN <<Job("tpch_parquet", "missing"), Job("tpch", "missing")>>
    ELSE <<Job(name, "always")>>

\* What bench_runner.py puts in place of a workload without Delta tables.
Expand(name) ==
    LET parquetFiles == Job("tpch_parquet", "missing")
        tpch         == Job("tpch", "missing")
    IN CASE name = "tpch" -> <<parquetFiles, tpch>>
         [] name = "ssb"  -> <<parquetFiles, tpch, Job("ssb", "always")>>
         [] OTHER         -> <<Job(name, "always")>>

\* Whether a job at the head of the queue has nothing to do.
Skipped(job) ==
    CASE job.when = "workload" -> SomeOf(delta[job.name])
      [] job.when = "missing"  -> IF job.name = "tpch_parquet"
                                  THEN SomeOf(parquet["tpch"])
                                  ELSE SomeOf(delta[job.name])
      [] job.when = "cli"      -> /\ job.name = "tpch_parquet"
                                  /\ ~session.overwrite
                                  /\ Cardinality(FilesIn(parquet["tpch"])) >= Last
      [] OTHER                 -> FALSE

NextJob ==
    /\ Between
    /\ session.queue # <<>>
    /\ LET job  == Head(session.queue)
           rest == Tail(session.queue)
       IN \/ /\ Skipped(job)
             /\ session' = [session EXCEPT !.queue = rest]
             /\ UNCHANGED <<gen, stage>>
          \/ /\ ~Skipped(job)
             /\ job.when = "workload"
             /\ session' = [session EXCEPT !.queue = Expand(job.name) \o rest]
             /\ UNCHANGED <<gen, stage>>
          \/ /\ ~Skipped(job)
             /\ job.when # "workload"
             /\ session' = [session EXCEPT !.queue = rest]
             /\ gen' = job.name
             /\ stage' = 1
    /\ UNCHANGED <<files, i, busy, verdict, sessions, stopped>>

\* The final check of bench_runner.py looks for Parquet files only.
Staged(name) == IF name = "ssb" THEN stamp ELSE SomeOf(parquet[name])

EndSession ==
    /\ Between
    /\ session.queue = <<>>
    /\ End(IF session.kind = "script" THEN "done"
           ELSE IF \A n \in DOMAIN session.args : Staged(session.args[n])
                THEN "ready" ELSE "refused")
    /\ UNCHANGED <<files, stopped>>

\* Killed, or a write failed, at any point: whatever is on disk stays as it is.
Stop ==
    /\ ~Idle
    /\ End("failed")
    /\ stopped' = TRUE
    /\ UNCHANGED files

-----------------------------------------------------------------------------
(***************************************************************************)
(* Stages of a generator                                                   *)
(***************************************************************************)

NextStage ==
    /\ stage' = stage + 1
    /\ i' = 1
    /\ busy' = FALSE
    /\ UNCHANGED <<session, gen, verdict, sessions, stopped>>

\* Variants of NextTable: the loop has no end, or ends one table early.
NextTablePastEnd ==
    /\ i' = i + 1
    /\ busy' = FALSE
    /\ UNCHANGED <<session, gen, stage, verdict, sessions, stopped>>
NextTableEarly ==
    IF i + 1 >= Last THEN NextStage
    ELSE /\ i' = i + 1
         /\ busy' = FALSE
         /\ UNCHANGED <<session, gen, stage, verdict, sessions, stopped>>

\* The end of a loop body: the next table, or the next stage after the last.
NextTable == IF i = Last THEN NextStage
             ELSE /\ i' = i + 1
                  /\ busy' = FALSE
                  /\ UNCHANGED <<session, gen, stage, verdict, sessions, stopped>>

StayAt(b) ==
    /\ busy' = b
    /\ UNCHANGED <<session, gen, stage, i, verdict, sessions, stopped>>

GeneratorReturns ==
    /\ Working
    /\ Stage = "none"
    /\ gen' = "none" /\ stage' = 0 /\ i' = 1 /\ busy' = FALSE
    /\ UNCHANGED <<files, session, verdict, sessions, stopped>>

\* tpch looks for its Parquet files; ssb for the Delta tables of TPC-H, of
\* which it makes views, so that one without a commit raises here.
SourcesFound ==
    IF gen = "tpch" THEN AllOf(parquet["tpch"])
    ELSE \A t \in Tables : delta["tpch"][t] \notin {"absent", "cut"}

CheckSources ==
    /\ Working
    /\ Stage = "sources"
    /\ IF SourcesFound THEN NextStage /\ UNCHANGED files ELSE Fail

\* Skipped when all files are there and no rewrite was asked for.
NeedsGen ==
    \/ gen = "tpch_parquet"
    \/ session.overwrite
    \/ ~AllOf(parquet[Family])

SkipParquet ==
    /\ Working
    /\ Stage = "parquet"
    /\ ~busy
    /\ \/ i = 1 /\ ~NeedsGen /\ NextStage
       \/ /\ NeedsGen
          /\ parquet[Family][i] # "absent"
          /\ gen # "tpch_parquet" /\ ~session.overwrite
          /\ NextTable
    /\ UNCHANGED files

\* DuckDB writes over a file in place or beside it, so a kill leaves either.
StartParquet ==
    /\ Working
    /\ Stage = "parquet"
    /\ ~busy
    /\ NeedsGen
    /\ \/ gen = "tpch_parquet"
       \/ session.overwrite
       \/ parquet[Family][i] = "absent"
    /\ gen = "job" => csv[i] # "absent"
    /\ \E c \in {"cut", parquet[Family][i]} :
          parquet' = [parquet EXCEPT ![Family][i] = c]
    /\ StayAt(TRUE)
    /\ UNCHANGED <<delta, stamp, archive, csv, queries>>

FinishParquet ==
    /\ Working
    /\ Stage = "parquet"
    /\ busy
    /\ parquet' = [parquet EXCEPT ![Family][i] =
                      IF gen = "job" THEN csv[i] ELSE "whole"]
    /\ NextTable
    /\ UNCHANGED <<delta, stamp, archive, csv, queries>>

\* A CSV that is not there ends JOB's generator; one that is cut inside a line
\* is loaded without its end or refused, as the cut falls.
CsvRefused ==
    /\ Working
    /\ gen = "job" /\ Stage = "parquet"
    /\ IF busy THEN csv[i] = "short"
       ELSE csv[i] = "absent" /\ NeedsGen
            /\ (session.overwrite \/ parquet["job"][i] = "absent")
    /\ Fail

Download ==
    /\ Working
    /\ Stage = "download"
    /\ \/ archive \in {"cut", "whole"} /\ NextStage /\ UNCHANGED files
       \/ /\ archive \in {"absent", "short"}
          /\ \/ archive' = "whole" /\ NextStage
             \/ /\ archive' \in {archive, "short", "cut"}
                /\ End("failed")
                /\ stopped' = TRUE
          /\ UNCHANGED <<parquet, delta, stamp, csv, queries>>

\* tar: from the i-th member on, each cut first.  title.csv over 1 MB says all
\* are there.
Extract ==
    /\ Working
    /\ Stage = "extract"
    /\ LET m == ArchiveOrder[i]
       IN \/ /\ i = 1 /\ ~busy /\ csv[Last] # "absent"
             /\ NextStage
             /\ UNCHANGED csv
          \/ /\ i = 1 => busy \/ csv[Last] = "absent"
             /\ ~busy
             /\ csv' = [csv EXCEPT ![m] = "short"]
             /\ StayAt(TRUE)
          \/ /\ busy
             /\ archive = "whole"
             /\ csv' = [csv EXCEPT ![m] = "whole"]
             /\ NextTable
          \/ /\ busy
             /\ archive = "cut"
             /\ \/ i < Last /\ csv' = [csv EXCEPT ![m] = "whole"] /\ NextTable
                \/ csv' = csv /\ End("failed") /\ stopped' = stopped
    /\ UNCHANGED <<parquet, delta, stamp, archive, queries>>

-----------------------------------------------------------------------------
(***************************************************************************)
(* Delta tables: the loop all four generators share                        *)
(***************************************************************************)

AtDelta == Working /\ Stage = "delta" /\ ~busy

Source == IF gen = "ssb"
          THEN IF \A t \in Tables : delta["tpch"][t] = "whole" THEN "whole"
               ELSE "short"
          ELSE parquet[gen][i]

\* Variant: what exists is skipped even when it is to be overwritten.
SkipTableAlways ==
    /\ AtDelta
    /\ delta[gen][i] # "absent"
    /\ NextTable
    /\ UNCHANGED files

SkipTable ==
    /\ AtDelta
    /\ delta[gen][i] # "absent"
    /\ ~session.overwrite
    /\ NextTable
    /\ UNCHANGED files

\* Variant: what exists is removed whether or not it is to be overwritten.
RemoveTableAlways ==
    /\ AtDelta
    /\ delta[gen][i] # "absent"
    /\ delta' = [delta EXCEPT ![gen][i] = "absent"]
    /\ StayAt(FALSE)
    /\ UNCHANGED <<parquet, stamp, archive, csv, queries>>

\* rmtree, which may raise in its middle.
RemoveTable ==
    /\ AtDelta
    /\ delta[gen][i] # "absent"
    /\ session.overwrite
    /\ \/ delta' = [delta EXCEPT ![gen][i] = "absent"] /\ StayAt(FALSE)
       \/ /\ delta' = [delta EXCEPT ![gen][i] = "cut"]
          /\ End("failed")
          /\ stopped' = TRUE
    /\ UNCHANGED <<parquet, stamp, archive, csv, queries>>

SourceRaises ==
    /\ AtDelta
    /\ delta[gen][i] = "absent"
    /\ Source \in {"absent", "cut"}
    /\ Fail

\* CREATE OR REPLACE TABLE ... AS SELECT: the directory is there before the
\* commit that makes it a table.
StartTable ==
    /\ AtDelta
    /\ delta[gen][i] = "absent"
    /\ Source \notin {"absent", "cut"}
    /\ delta' = [delta EXCEPT ![gen][i] = "cut"]
    /\ StayAt(TRUE)
    /\ UNCHANGED <<parquet, stamp, archive, csv, queries>>

CommitTable ==
    /\ Working
    /\ Stage = "delta"
    /\ busy
    /\ delta' = [delta EXCEPT ![gen][i] = Source]
    /\ NextTable
    /\ UNCHANGED <<parquet, stamp, archive, csv, queries>>

\* SSB has no Parquet of its own; the check of the runner wants some.
Stamp ==
    /\ Working
    /\ Stage = "stamp"
    /\ stamp' = TRUE
    /\ NextStage
    /\ UNCHANGED <<parquet, delta, archive, csv, queries>>

\* TPC-DS's generator ends with the files of its queries.  Any one of them says
\* that all are there, and --overwrite is not asked.
ExtractQueries ==
    /\ Working
    /\ Stage = "queries"
    /\ \/ ~busy /\ queries # "absent" /\ NextStage /\ UNCHANGED queries
       \/ ~busy /\ queries = "absent" /\ queries' = "short" /\ StayAt(TRUE)
       \/ busy /\ queries' = "whole" /\ NextStage
    /\ UNCHANGED <<parquet, delta, stamp, archive, csv>>

-----------------------------------------------------------------------------
Generate ==
    \/ CheckSources \/ SkipParquet \/ StartParquet \/ FinishParquet \/ CsvRefused
    \/ Download \/ Extract
    \/ SkipTable \/ RemoveTable \/ SourceRaises \/ StartTable \/ CommitTable
    \/ Stamp \/ ExtractQueries \/ GeneratorReturns

Step == NextJob \/ EndSession \/ Generate

Next ==
    \/ \E sel \in Selections : StartRun(sel)
    \/ \E script \in Scripts, overwrite \in BOOLEAN :
          StartScript(script, overwrite)
    \/ Step
    \/ Stop

Spec     == Init /\ [][Next]_vars
FairSpec == Spec /\ WF_vars(Step)

-----------------------------------------------------------------------------
(***************************************************************************)
(* Properties                                                              *)
(***************************************************************************)

TypeOK ==
    /\ parquet \in [Families -> [Tables -> Contents]]
    /\ delta \in [Families -> [Tables -> Contents]]
    /\ stamp \in BOOLEAN
    /\ archive \in Contents
    /\ csv \in [Tables -> Contents \ {"cut"}]
    /\ queries \in Contents \ {"cut"}
    /\ session.kind \in {"idle", "run", "script"}
    /\ gen \in Generators \cup {"none"}
    /\ gen # "none" => stage \in 1..(Len(Stages[gen]) + 1)
    /\ i \in Tables
    /\ busy \in BOOLEAN
    /\ verdict \in {"none", "ready", "refused", "done", "failed"}
    /\ sessions \in 0..MaxSessions
    /\ stopped \in BOOLEAN

TablesWhole(f) == \A t \in Tables : delta[f][t] = "whole"

\* As long as nothing was interrupted, every run that begins to measure finds
\* all the tables of its workloads complete, in whatever order runs and
\* generators, overwriting or not, came before (bench_runner.py:604-631).
UninterruptedIsWhole ==
    ~stopped /\ verdict = "ready" =>
        \A n \in DOMAIN session.args : TablesWhole(session.args[n])

\* A generator that was told to overwrite and returns zero has repaired
\* whatever interruptions had left of its tables: none is skipped, cut or made
\* from half a source.  (JOB is the exception: its CSV files are kept.)
OverwriteRepairs ==
    verdict = "done" /\ session.overwrite =>
        \A n \in DOMAIN session.args :
            session.args[n] \in Families \ {"job"} => TablesWhole(session.args[n])

\* Without --overwrite no step touches a table that is complete, though every
\* generator writes with CREATE OR REPLACE and may be started again at any time.
CompleteIsKept ==
    [][\A f \in Families, t \in Tables :
          delta[f][t] = "whole" /\ ~session.overwrite => delta'[f][t] = "whole"]_vars

\* A run that nothing has interrupted, nor anything before it, builds what it
\* lacks, prerequisites of prerequisites included, and begins to measure.
BuildsItself ==
    (session.kind = "run" /\ ~stopped) ~> (verdict = "ready" \/ stopped)

\* What prepare_sf100.sh:13-14 says: "Each generator is idempotent: a finished
\* output is skipped. Re-run after a partial failure and only the missing stages
\* execute."  A re-run that returns zero would then leave every table whole.
RerunCompletes ==
    verdict = "done" =>
        \A n \in DOMAIN session.args :
            session.args[n] \in Families => TablesWhole(session.args[n])
=============================================================================
