# Verification of the DeltaForge benchmark harness

TLA+ modules, TLC configurations and TLAPS proofs for the programs in this
repository that run benchmarks and keep their results. The queries, the data and
the layout of reports are inputs here; what is modelled is the control: which
process does what in which order, what is on disk at any moment, and what is left
when something dies.

## The system

| Component | Source | State it keeps | Operations | Status |
|---|---|---|---|---|
| Runner, parent | `bench_runner.py` (`cmd_run`) | position in `--engines`, `manifest.json` | refuse or accept the run, spawn one child per engine, wait, merge fragments, start the report | modelled |
| Runner, child | `bench_runner.py` (`cmd_run` under `--out-dir`, `run_workload`) | loop variables, `raw/<engine>.jsonl`, `raw/<engine>.manifest.json` | start engine, truncate log, register catalog, per workload: setup, (purge, step, append)*, cleanup; stop; write fragment | modelled |
| Cold purge | `engines/_purge.py` | none | pkill, clear `/tmp`, drop caches | its outcome |
| Engine adapters | `engines/*_engine.py`, `_spark_session.py` | session or CLI connection, Spark's in a module variable | start, run_step, stop | modelled, but for STEP_PYTHON and catalog registration |
| Metric sampler | `engines/_metrics.py` | samples, stop event, peak | thread loop, start, stop and join | modelled |
| Run report | `reports/generate_report.py` | none | load records, group into cells, correctness verdict | modelled, without layout |
| Published results | `reports/build_published.py`, `_headline.py`, `summarize_*.py`, `compare_df.py` | none | pick records, medians, tail figures | which records and which figures |
| Scale-out | `scale_out/orchestrate.sh`, `aggregate.py` | streams, matrix of N, curve files | validate, warm up, launch N streams, wait, aggregate, clean | modelled, but for `prereqs.sh` |
| Fixture generators | `data_gen/generate_*.py`, `scripts/prepare_sf100.sh`, the runner's check | Parquet files, Delta directories, stamp, archive | skip, overwrite, write, stamp | modelled |
| Write workloads | `workloads/crud.py`, `merge_cdc.py`, `update_delete.py`, `optimize.py`, `synthetic_write_delta.py`, `_fixtures.py` | engine tables | setup, repeated destructive steps, cleanup | modelled for df and Spark |
| Read workloads, query rewriter | `workloads/*_read_delta.py`, `_df_catalog.py` | none | `df_qualify` over the query texts | not modelled |
| Graph workload and report | `workloads/graph_gpu_vs_cpu.py`, `reports/build_graph_gpu_report.py` | none | two arms of one query set, their pairing | not modelled |
| Launcher | `bench` | PIDs of platform and Xvfb, deadlines | ports, virtual display, boot, health and probe loops, run, trap | modelled |
| Driver benchmark | `driver-bench/` | ADBC/ODBC handles | acquire, execute, stream, release; medians | not modelled |
| Host facts, install, container | `engines/host_facts.py`, `install.sh`, `docker/` | none | probes and provisioning | not modelled |

Interaction. The parent knows its children only by `subprocess.run`: it waits for
one to be gone before it starts the next, ignores what the return code says beyond
printing it, and learns what a child did from two files. The child appends each
measurement to its log before it goes on, and writes the fragment last; so the
fragment is the only word on whether a session reached its end. The purge is called
by the child between the engine's start and each cold step. The report reads the
files of all engines when the parent is done.

What is hard here: any process may be killed between any two steps (Spark's JVM has
an out-of-memory handler that kills it, the scale-out streams run under a memory
limit); the disk may fill up; the engine may die under a living child; a purge meant
for another process may hit the one that is measured; an engine may be named twice;
and nothing above a child has a timeout. A step's sampler is a thread that may outlive
it. Scripts of several statements stop in their middle, setup is what must make up for
it, and generators tell finished output from unfinished by the existence of a
directory. Five programs read the logs with five ideas of what a measurement is. The
launcher keeps processes in the background and may be signalled between any two commands;
a second one may look for the same ports at the same time.

What makes each part correct: the runner loses at most the measurement in hand, and one
more behind a line that was cut short, and vouches only for what is complete; the adapters
send every statement once, under the configuration they are named for; the sampler's peak
covers its samples; workloads find their tables as set up and leave the same rows on every
engine, whatever failed earlier; generators never pass off an unfinished table unless they
were interrupted; the reports lose no record and compare like with like; the scale-out
streams are isolated, but for engine processes that outlive their parent, and the curve
counts the streams of each size; the launcher leaves no platform and no X server behind, and
no PostgreSQL it has not told to terminate, and harms no DeltaForge that was up before it.
The properties below say this precisely.

## Modules

| Module | Models |
|---|---|
| `Schedule` | the schedule of one engine: cells (workload, step, repetition), their order, what may follow what in a log |
| `RunLog` | the abstract specification: what a run promises to the reports, without processes |
| `BenchRun` | the runner: parent and child processes, their files, purge, failures |
| `MCBenchRun` | constants for TLC |
| `Curve` | the arithmetic of `aggregate.py`: percentiles, ratio, flatness, a row of the curve |
| `ScaleOut` (extends `Curve`) | the orchestrator, its concurrent streams and the aggregation |
| `MCScaleOut` | constants for TLC |
| `Sampler` | the sampling thread and the calls the adapters make of it; actions only |
| `Adapters` (extends `Sampler`) | the four adapters in one process, their sessions, scripts and results |
| `Fixtures` | the generators, the runner's check for them, `prepare_sf100.sh` |
| `Writes` | the scripts of the writing workloads against tables that are bags of rows; failures nobody sees, late statements |
| `Reports` (extends `Schedule`, `Curve`) | the readers of the logs as operators on them |
| `Launcher` | `bench`: copies of the script, their platforms, databases and X servers |
| `MCAdapters`, `MCFixtures`, `MCWrites`, `MCReports`, `MCLauncher` | constants for TLC |
| `BenchRunProofs`, `ScaleOutProofs`, `AdaptersProofs`, `FixturesProofs`, `WritesProofs`, `LauncherProofs`, `ReportsProofs` | theorems about the module each is named for; `BenchRunProofs` also about `Schedule` and `RunLog` |
| `CurveProofs` | lemmas about percentiles, used by `ScaleOutProofs` and `ReportsProofs` |

### BenchRun against the code

`ppc` and `cpc` are the places of the parent and of the child in `cmd_run` and
`run_workload`; `wl`, `step`, `run` are the child's three loop variables; `jsonl` holds
the lines of each engine's log, `torn` whether it ends in the beginning of a line, and a
record's `whole` whether it was written behind such a beginning and so does not parse;
`CellsOf` are the cells of the lines that do. `frag` and `manifest` are the files of these
names; the manifest is reduced to the engines it has `engine_versions` and `cold_starts`
entries for (its `engines` field is the argument list and says nothing about what ran).
`alive` is whether the engine's backend answers. The history variables `startRaised`,
`finished`, `abandoned` and `residue` record what happened; no guard reads them.

An action is one step of a process as seen from the others: a file operation, a call
to the engine, or the purge. `subprocess.run` is two actions, `Spawn` and `Reap`,
so that everything the child does lies between them. The exceptions the code catches
are actions of their own (`SpawnFails`, `StartRaises`, `AppendFails`,
`WorkloadRaises`), and each goes where its handler goes: the one around a workload
gives up the rest of it including its cleanup steps, which is `Abandon`. An
exception no handler catches ends the process; it is the same step as a kill
(`ChildKilled`, `ParentKilled`).

Abstracted: SQL, timings and result hashes; the wording of what is printed; the menu,
host facts, fixture check and preflight, which appear as one verdict (`Plan`); the
setup and the cleanup steps of a workload, each one action with every outcome; the
catalog registration, whose failures are only printed. Not modelled: `--dry-run`,
which runs nothing, and `--out-dir` given by hand with several engines.

### ScaleOut against the code

`pc` is the place in `orchestrate.sh`, `phase` 0 in the warmup and then the position in
`N_VALUES`, `next` the index of the launch loop and then of the wait loop. `streams`
keeps the engine process of every stream of every phase, so that one that outlives its
batch shows; `orphaned` are those whose parent process died before them (`ParentDies`).
`logs[p][i]` is the `df.jsonl` in the run directory of stream `i` of phase `p`: batches of
one size share their stream directories, but each run in them has a directory of its own.
`Latest` is `discover_jsonl`, which takes the newest, and `read` what `aggregate.py` loaded.
`failed` is `STREAMS_FAILED`, `summary` `MATRIX_FAIL_SUMMARY`, `curve` the rows of the three
curve files, `rawKept` whether `RESULTS_ROOT` is there with all the run directories in it.

A stream is one run of `bench_runner.py` with one engine, one workload and one warm
run of each query: a parent process, on which `wait` waits, and its engine process, which
measures. What `BenchRun` says about its log is reduced here to the outcome of each query
and to whether the last line is incomplete; the queries come in the stream's own order
(`Order`, the shuffle by `DF_BENCH_STREAM_SEED`). `Cease` is the early end of the engine
process: the runner refuses, the engine does not start, a record cannot be appended, the
scope runs out of memory. The parent then returns 0, or another code if it is a victim too;
both are possible. `ParentDies` is the death of the parent alone: the wait loop counts a
failed stream and goes on, and the engine process keeps measuring. A later batch of the same
size gets no scope for that stream while the orphan is in the one of that name
(`ScopeTaken`).

Abstracted: `prereqs.sh`; the warmup stream's queries (nobody reads them, and if its
parent dies the script ends), so that it is one step; the writing of the three curve files
is one step; wall times are integers and percentiles exact in hundredths, so
floating-point error is left out, but `round(ratio, 3)` is modelled because a table is
selected by it. `N_VALUES` names positive numbers and is not empty (`${N_VALUES:-...}`
replaces an empty one).

### Sampler and Adapters against the code

`thread` holds the locals of `_run` and the place it is at, `sampled` the highest entry
of `_cpu_samples` with its memory, `counted` what of them `stop` averages, `peak`
`peak_rss_mb`; `late` says that `join(timeout=2.0)` returned with the thread alive. An
action is one call of psutil or one access to what the two threads share. A thread whose
step has returned is a straggler: it still runs, on an object nobody reads.

`queue` holds the engines one process is asked for. The runner's child gets one; only
`--out-dir` by hand gives several, and then `_spark_session._session` (`cached`, the
session itself is `jvm`) is what one adapter hands to the next. `clock` counts seconds
of `DeltaForgeEngine.start`: of the health loop, the probe, `pgrep` (`LocateWorker`) and
`--version` (`AskVersion`). A script is a sequence of tokens and `Split` cuts it as the
two `_split_sql_statements` do: Spark's at every semicolon, DeltaForge's only where the
line ends, though `spark_default_engine.py:216` says it mirrors the other. A call is the
set of the positions of its words, and the calls are sent in the order of the script
(`NextCall`). `ran` counts how often the engine executed the word at each position, so
that what is sent, what is executed and what the exit code says can be compared. A failed
call may have executed any part of itself. A df call that fails may look as if it had not
(`LooksWell`): the CLI prints errors and exits 0 (`bench:325-326`, `334-335`), and for the
statements of a script the adapter looks at the return code only. `lost` are the words of
such calls that were not executed.

Abstracted: SQL (words and separators), times (`ms` is whether one was told), row
counts (two of them, one with a thousands separator), CPU figures. Left out: STEP_PYTHON,
which no workload uses; the refusals of an engine that was not started, which the runner
cannot reach; `_size_shuffle`; `version_info`; `register_catalog`. A `getOrCreate` on a
session that died makes a new one. `get_spark` asks the old one whether it is stopped and
ignores the answer; the probe of `start` finds out.

### Fixtures against the code

`parquet` and `delta` say of every table of every family whether it is absent, cut (a
reader raises), short (rows are missing, its source was cut) or whole; `stamp`, `archive`
and `csv` are `_marker.parquet`, the IMDB tarball and the extracted files. A table is
started (its directory appears) and finished in two actions, and anything may be stopped
in between. `queries` are the query files of TPC-DS, which its generator extracts behind
the tables (`ExtractQueries`), unless any one file is there and `--overwrite` or not. They
decide what a run measures only when the workload is imported, before any generator runs:
a run that starts without them has no steps of TPC-DS. `Skipped` counts the files of a
table's family as `generate_tpch.py` does. `session` is either a run of `bench_runner.py`
with its chain of prerequisites or `prepare_sf100.sh` with its list of generators. Two
tables stand for each family.

### Writes against the code

Each step of each workload is the sequence of its statements, for DeltaForge as the
adapter splits them, for Spark one; `step`, `rep`, `stmt` are the loops of `run_workload`
and of the adapter. A table is a bag of rows with a key and one value column, and INSERT,
UPDATE, DELETE, MERGE and the change feeds compute what the SQL does with buckets of
`HASH`. That `HASH` is one function on all engines is an assumption of the scripts; the
mutant of `Reproducible` shows that it is needed. `lineitem` stands for the eight TPC-H
tables that `make_delta_load_steps` and `make_drop_steps` load and drop for `merge_cdc`,
`update_delete` and `optimize`: the statements of the others are the same, and nothing
measured touches them. A statement may be executed, refused (because a table is or is not
there), or fail with or without its effect. On DeltaForge a failure may go unseen, for the
CLI exits 0, and the workload goes on to its next statement (`FailsUnseen`); and a
statement whose client was killed or timed out may still be on its way (`inflight`) and be
executed by the platform later, among the statements of another session (`Land`, external,
at most `MaxInFlight` at a time). `disturbed` records that the running workload met one of
the two: no code is there that could notice it or make up for it within the same workload,
so that the properties are about workloads that were not disturbed themselves, whatever
disturbed the ones before. `clean` is stronger: every statement was executed. DuckDB's
variants and the files below the tables are left out. `merge_cdc`, `update_delete` and
`optimize` have no df variant: their unqualified names fail there, and the run shows what
that leaves. `parquet_view` and `csv_to_delta` are helpers of `_fixtures.py` no workload
uses at present.

### Reports against the code

The logs grow as `CanFollow` allows, so every log that `RunLog` allows is read, and one
cut short as well. A record is its cell with the outcome: error and exit code (one flag,
the adapters set both), wall time, engine time and hash. Each reader's filter is an
operator: by exit code or error, by kind of step or first letter of its id, by engine time
or wall time. The samples a reader takes are a function on the numbers of the lines they
are from, so that it can be said which lines two readers take. `Percentile` comes from
`Curve`: `generate_report.percentile` and `aggregate.percentile` interpolate alike. The
catalogue of pages, ratios between engines and layout are left out.

### Launcher against the code

`shell` has the variables of each copy of the script and `pc`, its place in it; `ret` is
where the handler returns to. `plat`, `xvfb` and `pgs` are the processes in the background
(platform, latest X server, PostgreSQL), `told` those that were sent SIGTERM, `holder` and
`sock` who has a port or the socket of a display. `$!` is assigned in a step of its own,
so that a signal can come between. `start` and `check` lie before the `trap` line, where a
signal is fatal. Behind it a signal runs `stop_platform` and then, since the handler does
not exit, what comes next; only a `sleep` or the harness that it ended too make the script
leave. `fail` and `exit` are `Exit`: the EXIT trap runs the same handler. A signal in one
of its waits starts it again. A child in the foreground that hangs holds the handler back
as well: bash runs a trap when it returns.

A loop's deadline is a number of rounds. The call of the CLI is answered by whoever has
the port, which need not be the script's own platform. The platform, its PostgreSQL and
Xvfb are external: they start, bind, fail for a taken port or data directory, and die at
any time. `stop_platform` sends SIGTERM to the PostgreSQL and does not wait
(`SweepPostgres` only adds it to `told`); when it ends is its own affair (`PostgresDies`,
without fairness). The `delta-forge-compute` a platform may start by itself
(`bench:127-131`) is not modelled: the script has no PID of it and leaves it to the
platform. The checks before the ports are one verdict; the order in which the probe's text
is matched (not activated before licence) and the messages are left out, and so are
SIGKILL and SIGHUP, which nothing here handles.

## Runs

### BenchRun

Bounds: two engines, two workloads, the first with a cold and a warm run of one step
(of two steps in `bench_repeated`), the second with one warm run. That is enough for
every kind of transition of the loops (next repetition, next step, next workload,
end), for a workload that is skipped, for a failure in one workload followed by
another, and for a session after a crashed one. There is no bound on failures: every
process may die and every write fail whenever it can. `CHECK_DEADLOCK` is off
because a run ends.

| Run | Checks | Shows |
|---|---|---|
| `bench_run` | `TypeOK`, `AtMostLastLost`, `ManifestedIsComplete`, `RunLogSpec`, `FinishesUnlessEngineHangs` | two different engines, one with timeouts and one without, under every crash: durability, the manifest, the refinement, and that the run ends |
| `bench_repeated` | `InOrder`, `GapFree` | `--engines spark-default,spark-default`: the second session starts afresh |
| `cold_verified`, `purge_spares` | one property each | disagreements with the documentation, below |

What the properties say:

* `AtMostLastLost`: the docstring of `run_workload` promises that what finished
  before a crash is on disk. Exactly: what a reader does not find (`Lost`) is the last
  measurement a workload finished, or it is the first of a later workload and `Glued`
  to the one lost just before it: `open(log_path, "a")` writes behind what a failed write
  left, and neither parses. So a write that fails costs its own measurement and the next
  one. It relates what the engine did to what can be read over all failures.
* `ManifestedIsComplete`: an engine with a version in the manifest has every cell of
  its schedule on disk in a line that parses, except workloads given up on the way and
  glued first cells, with which no report is made. For engines named
  once: of an engine named twice, the second session may crash after the first one's
  fragment was written, and the merge then vouches for the first.
* `RunLogSpec`: the run implements `RunLog`, hence one engine at a time (design
  invariant 2 of `docs/design.md`), logs that grow in schedule order, a fragment only
  at the end of a session, and nothing written once the manifest is.
* `InOrder`, `GapFree`: consequences a reader of a log relies on, since a record does not
  say which session wrote it: no measurement twice, none missing before another of its
  workload; that is, every measurement before a recorded one of its workload is in a line
  that parses, unless it is the workload's first.
* `FinishesUnlessEngineHangs`: the run ends, or was refused or killed, or an engine
  whose adapter has no timeout never answers.

Fairness. A process that is not killed goes on, so the parent's steps and the
child's own steps are weakly fair. A call to an engine returns for certain only where
the adapter puts a timeout on each (`df_engine.py`: 10 s, 30 s, 120 s and 3600 s);
the Spark and DuckDB adapters have none, and `subprocess.run(child_cmd)` has none
either. So fairness of the engine's steps is assumed for `TimedEngines` only. No
failure is fair. Weak fairness suffices: a step of a process stays enabled until that
process takes it or dies.

### ScaleOut

Bounds (`MCScaleOut`): four processors, two for each worker, `N_MAX` three; matrices
`1 2`, `2` (no baseline), `1 1` (a value twice) and `1 3` (too large for the host); one
query. Two streams suffice for concurrency within a batch, two batches for what one leaves
to the next, two samples for interpolation; of the wall times 2751 and 2752 lie beyond 1.10
times 2500, the first by so little that its rounded ratio does not, the second by less than
a thousandth. That the streams run several queries in orders of their own matters to no
property but by which are missing, and one query that some streams lack shows that. Any
engine process and any parent may die at any point, and the script may be killed while
streams run.

| Run | Checks | Shows |
|---|---|---|
| `scale_out` | `TypeOK`, `Isolated`, `SummaryIsExact`, `NothingLost`, `PercentilesBalanced`, `VerdictsAgree`, `EndsQuietly` | the matrix under every way a stream can end, its curve, and that it ends |

* `Isolated`: each stream that runs has processors of the host of its own, and a batch
  starts when the one before is gone. It needs the validation before the matrix, the block
  arithmetic and the wait loop together: dropping any of them breaks it. The exception it
  states is real: the engine process of a stream whose parent was killed (the scope's
  out-of-memory killer may take either) shares its processors with the stream of its number
  in the next batch, and the figures of both are spoilt without a trace but the failure
  count of the first.
* `SummaryIsExact`: the summary after the matrix counts the failed streams of each
  batch, although one counter serves them all.
* `NothingLost`: with `CLEAN_STREAMS=1` the raw results go only when the curve counts
  every wall time of the latest batch of each size; an aggregation that refuses (no
  baseline, an incomplete line, no sample) leaves them. Lost are the logs of an earlier
  batch of the same size, which the aggregation never looks at and the `rm -rf` removes with
  the rest, and what an orphan records behind the aggregation.
* `PercentilesBalanced`: the median of the curve against the definition of a median.
* `VerdictsAgree`: the list of offenders goes by the rounded ratio, the column `flat` by
  the ratio. They contradict each other by no more than half a thousandth, which 2751
  reaches.
* `EndsQuietly`: `wait` has no timeout, so this rests on the streams. Fairness: the
  script's own steps and each stream's steps are weakly fair; a stream always takes
  another step because every call of the DeltaForge client has a timeout, and one that gets no scope or cannot
  write its log ends. Other failures are not required to happen.

### Adapters

Bounds (`MCAdapters`): processes asked for one engine or for two, among them both orders
of the Spark adapters; scripts with a comment, an empty statement and both kinds of
semicolon; one child process below the sampled one, which may come and go, memory 0 or 1
each, one straggler. That is enough for two samples that differ, a process that ends
between two reads, a thread that outlives its step, and a session handed on. The engine
and the platform may die whenever they can.

| Run | Checks | Shows |
|---|---|---|
| `adapters` | `TypeOK`, `StartBounded`, `OwnConfig`, `OnceInOrder`, `PeakCovers`, `StepsEnd` | starts, steps and stops of all four adapters with their sampler |
| `row_counts` | `RowsReported` | a disagreement, below |

* `OnceInOrder`: what was executed is a beginning of the script at any time, but for what
  was lost in df calls that failed unseen; no word of it twice, and all of it if the exit
  code is 0, however the adapter cuts the script into calls; and no more statements told a
  time than were sent. For Spark and DuckDB nothing is excepted.
* `OwnConfig`: a Spark engine is measured under its own configuration. The exception it
  states is real: `spark-default` behind a `spark-tuned` whose probe failed, in one
  process, gets the tuned session, since the runner stops only what it started.
* `StartBounded`: a start of DeltaForge is over after 170 seconds, not the 120 of its
  message: the last health call may begin just before the deadline and take 10, the probe
  30, `pgrep` and `--version` 5 each.
* `PeakCovers`: average and peak are of the same samples or the peak is
  missing, and that only if the process was gone or the join timed out.
* `StepsEnd`: fairness is that of a thread that is never blocked, and of
  DeltaForge's steps, whose every call has a timeout. Nothing is assumed of Spark and
  DuckDB.

### Fixtures

Bounds (`MCFixtures`): two tables in each family, up to three sessions, runs of four
selections of workloads and four lists for the script, with and without overwriting, any
of them stopped anywhere; the query files are there in the beginning or not. Two tables suffice for one that is done and one that is not;
three sessions for an interruption, what is built upon it, and a repair.

| Run | Checks | Shows |
|---|---|---|
| `fixtures` | `TypeOK`, `UninterruptedIsWhole`, `OverwriteRepairs`, `CompleteIsKept`, `BuildsItself` | the generators under interruptions |
| `rerun` | `RerunCompletes` | a disagreement, below |

* `UninterruptedIsWhole`: without interruptions, measuring begins on whole tables,
  whatever sessions came before and whatever they skipped.
* `OverwriteRepairs`: and after interruptions, overwriting gets there, through all
  stages. JOB is the exception: its extracted files are trusted.
* `CompleteIsKept`: a whole table stays whole, though generators use CREATE OR REPLACE
  and take each other's directories for input.
* `BuildsItself`: a run on an empty machine builds what it needs and is not refused by
  the runner's own final check, which looks elsewhere than the first. Fairness: a
  generator that is not stopped goes on.

### Writes

Bounds (`MCWrites`): six rows, at least one in every bucket of the scripts, offsets 1
and 2 for which keys of INSERT and of the feed meet; a step
that is repeated on what it made runs twice in `crud`, three times in `merge_cdc`; two workloads one after the other, of seven on either engine; one
statement in flight.

| Run | Checks | Shows |
|---|---|---|
| `writes` | `TypeOK`, `SetupRestores`, `SetupNotRefused`, `KeysUnique`, `Reproducible`, `LeavesNothing` | sessions in which any statement fails, seen or not, is the last, or is executed late |

* `SetupRestores`, `SetupNotRefused`: whatever a session leaves, the next finds its
  tables as the source file has them and no CREATE in its way, unless a statement of this
  setup fails unseen or one of an earlier session lands in it: then measuring begins on
  whatever is there. So a setup that fails, after which the runner skips the cleanup, does no
  harm to workloads with a setup of their own. Carved out are `merge_cdc` and `optimize` on
  DeltaForge, whose unqualified names it does not find. `merge_cdc.py:16-19` and
  `optimize.py:8-11` promise an error in the report rather than a silent skip; the refusal of a
  setup statement is printed, and the workload leaves no record (`bench_runner.py:272-274`),
  or, with exit code 0, goes on to measure statements that fail.
* `KeysUnique`: across repetitions of INSERT, the feed and MERGE in any combination,
  with statements missing.
* `Reproducible`: both engines, and every session, end with the same table.
* `LeavesNothing`: a session that went through leaves no table.

### Reports

Bounds (`MCReports`): three engines; two read workloads with the same step id (as TPC-H
and TPC-DS have), one that writes with four repetitions; five records in all, of which any
may be failures. The workload that writes has a step of kind `sql_dml` and one of kind
`maintenance`, of which `summarize_write.py` takes the first only. DeltaForge tells engine
times, also 0, and no hash, DuckDB hashes only, Spark both.

| Run | Checks | Shows |
|---|---|---|
| `reports` | `EveryRecordCounted`, `HashesCompared`, `ReadersAgree`, `TailsBracketed` | the readers on every log, whole or cut short |

* `EveryRecordCounted`: every line is a cold sample, a warm sample or a failure of one
  cell, and of no other: it is counted once.
* `HashesCompared`: a disagreement is listed exactly if two engines returned different
  rows for a step, provided that each agrees with itself: only its first hash is looked
  at.
* `ReadersAgree`: page, summary and headline are made of the same warm runs; in a run of
  one workload these are the report's. With several they are not, since the page pools
  steps of the same id.
* `TailsBracketed`: p95 and p90 of the write pages lie between the median and the
  interpolated percentile, but for two warm runs, where they are the minimum.

### Launcher

Bounds (`MCLauncher`): two launchers, from one checkout or from two with different ports, of
which one may be in use by the user's own DeltaForge; two ports for PostgreSQL, two display
numbers of which one is taken, one launcher with Xvfb and one without; one round in each
loop and one signal. Two launchers suffice for one that was there before and one that comes
to it; one round for a poll that succeeds, one that does not, and a deadline that is over.
Platforms may die whenever they can.

| Run | Checks | Shows |
|---|---|---|
| `launcher` | `TypeOK`, `NothingLeft`, `NewcomerHarmless`, `LauncherEnds` | boot, polling, run and trap of two launchers, signalled and failing anywhere |

* `NothingLeft`: a launcher that has ended left no platform and no X server of its own,
  and no PostgreSQL that it has not told to terminate; that one may be running still when
  the script is gone, though `bench:9` says the launcher tears the platform down on exit.
  It rests on the order in the handler: PostgreSQL may be started until the platform is
  gone, so it is looked for after the `wait`; and on the second run of the handler at
  EXIT, for a signal before `PLATFORM_PID` is assigned finds nothing to kill.
* `NewcomerHarmless`: a launcher tells no PostgreSQL to terminate of the user's and none
  of a platform that was up when it looked at its port. The condition is needed: two
  launchers of one checkout that look before either platform listens both go on, and the
  one whose platform then fails stops the PostgreSQL of the other, for they share
  `.engine/xdg`.
* `LauncherEnds`: every launcher ends or is in a call of the CLI (`bench:312`, `344`) or
  of `bench_runner.py` (`bench:386`) for good, for none has a timeout in the script: no
  fairness is assumed of them (`Calls`). Fairness is that some script goes on at its other
  places while one can, and that a platform or X server ends that was sent SIGTERM.

### Disagreements between code and documentation

* `ColdSamplesVerified` (run `cold_verified`): `cellize` does not look at
  `purge_verified`; `bench_runner.py` and `docs/design.md` say that unverified cold
  runs are excluded.
* `PurgeSparesLiveEngine` (`purge_spares`): `_purge.py` says the patterns are those of
  the engine that just finished; they are those of the running one. The container's
  entry point knows and passes `--no-purge`.
* `RerunCompletes` (`rerun`): `prepare_sf100.sh` says that a re-run after a partial
  failure executes the missing stages; a directory that was begun counts as finished.
* `RowsReported` (`row_counts`): a df query of a thousand rows or more is recorded with
  no rows, for `float("1,000")` raises; `df_engine.py` relies on the row count for
  comparing engines. The branch for Cypher strips the separators.

Read in the code while modelling, and not given a run:

* `bench_runner.py:754-755` says that what completed before a crash is still scored; one
  line that a crash left incomplete makes `load_records` raise and ends the report for all
  engines (`Unreadable` and `EmitReport` of `BenchRun`).
* `orchestrate.sh:6-8` and `71-76` promise each stream processors of its own; an engine
  process whose parent was killed keeps running into the next batch (`Isolated`).
* `aggregate.py:57-58` says that there is always exactly one run directory for a stream. A
  size named twice in `N_VALUES` leaves two; the later counts, and `CLEAN_STREAMS` removes
  the earlier with it (`NothingLost`).
* `engines/base.py:124-125` says that `exit_code` is 0 on success and not otherwise. A
  statement of a df script that the CLI reports as an error and exits 0 (`bench:325-326`)
  is recorded as a success, and the next one is sent (`OnceInOrder`, `SetupRestores`).
* `merge_cdc.py:87-89` says that the MERGE accumulates state and that its warm runs
  measure realistic repeated-merge cost rather than a near-no-op; `crud.py:11-12` says
  that UPDATE and DELETE take 1% of the rows, and `:15-16` that warm runs show
  steady-state cost. From the second execution on, UPDATE, DELETE and MERGE change no row
  (theorem `WarmRunsChangeNothing`), and warm runs are all from the second on when a cold
  run goes before: what they measure finds nothing left to change.
* `generate_tpcds_delta.py` extracts no queries if any `q*.sql` is there, under
  `--overwrite` too: an extraction that was cut short is never resumed (`ExtractQueries`).
* `bench:346-348` says that only a NOT_ACTIVATED that survives the whole deadline is a
  real failure; `saw_not_activated` is never reset, so that an activation that landed and
  a compute node that did not come up are reported as a licence that did not activate.
* `bench:247` calls the virtual display private. `start_virtual_display` accepts a socket
  whoever made it: of two launchers that pass the test for it together, one may use the
  other's X server, which ends with the other (`XvfbReady`).
* A SIGTERM before the platform is started, or between the last probe and the harness,
  does not stop the script: the handler returns, and the next command is run.
* `engines/base.py:171-173` says a failed start leaves a record in the manifest; `start`
  raises instead and the child writes no fragment.
* `workloads/__init__.py:12-13` says that cleanup lets the next workload start from a
  known state; a workload that is given up skips it (`Writes` shows that setup makes up
  for it).
* `workloads/update_delete.py:63-65` says that setup is run again between cells; it is run
  once for a workload.
* `aggregate.py:128-131` says that no query is silently dropped; one that failed in every
  stream at every N has no row, and curve.md's claim that every query stayed within the
  threshold includes queries without a baseline.
* `published/scale_out.md:29` says that each query runs on its own worker. The scopes pin
  clients; all of them send their queries to the one platform at `DF_CONTROL_URL`.
* `build_published.py:14-15` wants one call for each workload of a run, but pools the
  steps of all of them by id. A query that failed throughout has no row there, although
  `:64` reserves None for it.
* `spec.py:112-114` says hashes are equal if and only if the multisets of rows are; NULL
  and the string "NULL" hash alike.

## Proofs

`BenchRunProofs` begins with the schedule: cells are ordered transitively, `FirstCell`,
`NextCell` and `IsLastCell` are what the loops need them to be (nothing of a workload
lies between a cell and the next), and a log extended by `CanFollow` stays in
order and without gaps (`ExtendedLog`). So the abstract specification `RunLog` has the
theorems `RunLogInOrder` and `RunLogGapFree` (by its invariant that its logs are legal).

For the runner it works from one inductive invariant and three additions to it, for
every schedule, every sequence of engines and any number of failures:

* `Inv`: types, `Scope` (which process may be running when) and `Position` (where the
  loops are agrees with where the log ends). `Position` is what makes it inductive: that
  an appended record `CanFollow` the log depends on the loop variables agreeing with the
  last record through abandoned and skipped workloads. Theorems `TypeCorrect` and
  `RunImplementsRunLog`.
* `LogsLegal`: every log is ordered and without gaps. That is not proved of the runner
  again: it is what `RunImplementsRunLog` and the theorems of `RunLog` say together.
  Theorems `LogsInOrder` and `LogsGapFree`.
* `Losses`: what the session has finished lies before its loop variables. With
  `LogsLegal`, which also says (`SpoiledFirst`) that a line that does not parse is a
  workload's first, this shows that everything earlier in the workload is on disk. Theorem
  `Durability`.
* `Spoiled`: every line that does not parse is glued to the cell lost before it
  (`AllGlued`), for while a log ends in a torn line the last thing finished is what was
  lost with it.
* `Coverage`, `Fragments` and `Reported` (there is no report over a log with a line that
  does not parse): workloads below the current one are on disk or abandoned, and an engine
  named once has a fragment only after its session. Theorem `ManifestVouches`.

`ScaleOutProofs` has four invariants, for every matrix, cap, host and worker size and
any set of wall times:

* `IInv`: positions of the loops, `Validated` (the loops run only when every N fits),
  `OnlyThisBatch` (a live stream is one of the current batch or an orphan) and `WaitedFor`
  (those the wait loop has passed are gone or orphans). The last is what makes it
  inductive: a batch starts only when the loop has passed all of the one before. With the
  block arithmetic (`FewerWorkers`, `DisjointBlocks`, `BlockOnHost`) it gives
  `StreamsIsolated`.
* `Settled`: once the curve is made no stream is alive but orphans, so that what was read
  of the others is what their latest logs hold. Theorem `CleaningLosesNothing`.
* `LogInv`: a log's wall times and failures are of different queries, for a stream runs
  each query of its order once. It is what types need: theorem `TypeCorrect`.
* `TallyInv`: the counter holds the failures among the streams the wait loop has passed,
  and the summary those of the batches behind. Theorem `SummaryComplete`.

`PercentilesInOrder` and `VerdictsConsistent` are about the arithmetic of the curve, with
the lemmas of `CurveProofs`.
`Percentile` takes the k-th of the sorted samples; that there is one, and how many samples
lie on either side, would be an induction on the number of samples. It is shown instead
with least elements (`WFMin`, well-foundedness of Nat): the least value at or below which
lie k samples.

`LauncherProofs`, for any number of launchers, checkouts, ports, displays, polls and
signals: `Tracked` says that what a script has started it knows the PID of, but for the
one moment before `$!` is assigned, also where the handler will return to that moment, and
that the handler looks for a PostgreSQL only when its platform is gone. Theorem
`LeavesNothing` (of `NothingLeft`) follows, since a script ends behind a handler that ran
with the PIDs assigned. `UpHasPort` (a platform that is up has its port) and
`MetElsewhere` (whatever was up when a launcher looked at the port is of another checkout)
give `SweepsOnlyItsOwn` (`NewcomerHarmless`).

`FixturesProofs`, for any number of tables, any selections, scripts and sessions: what the
tables can hold at each stage of each generator. `ArchiveClean`, `CsvClean`, `ParquetClean`,
`DeltaClean` say that without interruptions a family is there as a whole or not at all,
but for the one in hand, which is whole up to the table the loop is at; `Overwritten` that
under `--overwrite` the tables behind the loop are new; `Covered` that what a session was
asked for is still owed or complete. Theorems `ReadyIsComplete`
(`UninterruptedIsWhole`), `OverwritingRepairs` (`OverwriteRepairs`) and, from `WritingOK` (the
table in hand was absent or is overwritten), `CompleteStays` (`CompleteIsKept`).

`AdaptersProofs`, for any queue, scripts and deadlines and any finite number of child
processes: `PassBounded` and `TopCovers` (a pass reads each process once; the top of the
thread is at least its samples), `StepsOwn` and `Joined` (when the thread has handed over
its peak) give `PeakIsAbove` (`PeakCovers`); `ClockInv`, a bound for each place of
`start`, gives `StartsInTime` (`StartBounded`); `SessionInv` (a session that lives is the
cached one, spark-tuned's outlives its engine only if that did not start) gives
`MeasuredAsConfigured` (`OwnConfig`).

Theorem `ScriptsRunOnce` (`OnceInOrder`) has an invariant of its own, `ScriptInv`, for
scripts of any length. `SplitIs` and `CallsAre` say that each adapter's calls are the words
of the script, cut so that of any two calls one lies before the other (`Apart`); hence there is
a next one (`NextCallIs`, a least element again). `Going` makes it inductive: while the
script goes on, what was executed or lost and what is left to send are the words of the
script, the former before the latter. That a word is executed at most once follows from
the calls being apart. `Told` needs that only DuckDB is sent a call without words: every
statement that told a time has a word of its own.

`ReportsProofs`, for any engines, schedule and records and logs of any length, needs of the
logs only that their lines are ones the adapters cause (`LogsTyped`, theorem
`LogsWellFormed`); it is inductive by itself. The properties follow from what the operators
compute. `UsesIs`: the one use of a line, by its workload, step and outcome
(`LinesCountedOnce`, of `EveryRecordCounted`). `CellSha`: the hash of a cell is one its
engine returned, and there is one if it returned any (`DisagreementsListed`, of
`HashesCompared`). `QueriesAreRead`: a line with a query's id is one of a query
(`ReadersTakeTheSame`, of `ReadersAgree`). `IndicesAreLow` and `IndicesAreHigh` compare the
indices of the write pages with the ranks of the percentile they stand for and with those
of the median, for any number of runs but two; `EntryBelow` and `EntryAbove` carry that
over to the entries (`TailsInPlace`, of `TailsBracketed`).

`WritesProofs`, for any rows, keys, values, hash function, offsets, engines and number of
sessions and repetitions: the invariant says of a database that it is `Good` whatever
failed before. Every table is of a zone that is there, staging holds the source, `orders`
has each key at most once (`Keyed`), and a change feed has at most one row for a key,
inserts above the keys of the source (`Fed`). Each statement of each workload keeps that
(`KeysStayUnique`, `TypeCorrect`). For the setups, `Before` says for every statement of
the script which tables it finds if all before it were executed, from whatever Good
database the workload began with. That is what makes `SetupRestores` and `SetupNotRefused`
inductive (theorems `Restores`, `NotRefused`): a CREATE is legal because the script itself
dropped what could be in its way, not because the last session did. Both hold until the
workload is `disturbed`; what is in flight keeps a database `Good` whenever it lands (each
statement of each script does), which is why `Good` does not mention who sent it.
`LaterInv` and `CleanInv` follow the tables the setup made until the cleanup has dropped
them (theorem `NothingLeft`, of `LeavesNothing`).

What the tables hold while a workload measures is a second invariant, `JInv`, inductive
given the first. `MeasuredTo` is what one measured statement makes of the target, `Reached`
that a table is the one which the repetitions of the steps so far make of the source, each
of the one before (`Path`). `MeasureInv` says that this is so as long as every statement was
executed, and that from the second repetition of an UPDATE, a DELETE or a MERGE on the
table is one that the statement leaves (`TwiceIsOnce`, from `UpdateTwice`, `DeleteTwice`,
`MergeTwice` and `CdcTwice`: rows that were updated have the value, the buckets to delete
are empty, what was inserted is now matched and has no row to update it). Theorem
`WarmRunsChangeNothing` (of `RepeatsChangeNothing`, which is a theorem only: it describes the
scripts and contradicts a comment, see above) is that second part. `FinalInv` says what
was recorded of a session that went through, and `ReachedOnce` that there is only one such
table: two paths would part at a first place, and the one before it decides. From both
follows `SameEverywhere` (`Reproducible`).

The assumptions are those of the modules, as conditions on their constants. They are
types, and: the runner refuses a workload without repetitions, and a workload has a
measured step (`ScheduleAssumption`); a stream's order names every query, and `N_VALUES`
positive numbers (`ScaleOutAssumption`); the process tree is finite and does not contain
the root twice (`SamplerAssumption`); scripts are sequences (`AdaptersAssumption`); there
are finitely many engines, only queries take their step ids from the `q*.sql` files, and a
hash comes with a success only (`ReportsAssumption`); selections, lists and the tarball
name families, generators and tables there are (`FixturesAssumption`); the engines'
workloads are those of the repository, and the feed's keys lie between the source's and
those INSERT makes, as in `crud.py` (`WritesAssumption`). TLC evaluates them all.

Only model-checked:

* Liveness (`FinishesUnlessEngineHangs`, `EndsQuietly`, `BuildsItself`, `StepsEnd`,
  `LauncherEnds`), which is out of the prover's reach.
* The disagreements, which are counterexamples.

## Not modelled

* Read workloads and `df_qualify`: query texts are data, and the rewriter is a function
  on characters without state.
* The graph workload and its report: query texts and layout over the same runner and
  adapters.
* The driver benchmark: a sequential client of vendored C libraries that shares no state
  with the harness.
* Host facts: probes of the machine that only add input to the manifest.
* `install.sh`, `docker/`, `prereqs.sh`: provisioning, one external command after another.
* `timing_diff.py`, `scripts/` other than `prepare_sf100.sh`, `gen_csv_input.py`: helpers
  for one person's comparison, without state.

## What is left

Every safety invariant and action property of the passing runs is a theorem. What would
extend the project: DuckDB's variants of the writing workloads, the files below the tables,
and the pairing of the two arms of the graph benchmark.
