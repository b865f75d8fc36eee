------------------------------ MODULE ScaleOut ------------------------------
(***************************************************************************)
(* The scale-out benchmark.  orchestrate.sh runs a warmup stream and then, *)
(* for each N of N_VALUES, N concurrent streams; it waits for a batch      *)
(* before it launches the next and hands the logs to aggregate.py.  A      *)
(* stream is one bench_runner.py with the DeltaForge engine, one workload  *)
(* and a single warm run of each query, in an order of its own; what       *)
(* BenchRun says of its log is here reduced to the outcome of each query.  *)
(***************************************************************************)
EXTENDS Curve, Sequences

CONSTANTS
  Queries,         \* the queries of tpcds_read_delta
  Order,           \* Order[i]: their order in stream i, by its seed
  Walls,           \* Walls[q]: the wall times query q may take
  Requests,        \* the values N_VALUES may have
  NMax,            \* N_MAX
  CoresPerWorker,  \* CORES_PER_WORKER
  HostCpus         \* nproc

ASSUME ScaleOutAssumption ==
  /\ Walls \in [Queries -> SUBSET (Nat \ {0})]
  /\ Requests \subseteq Seq(Nat \ {0}) \ {<<>>}
  /\ NMax \in Nat \ {0}
  /\ CoresPerWorker \in Nat \ {0}
  /\ HostCpus \in Nat \ {0}
  /\ IsFiniteSet(Queries)
  /\ Order \in [1 .. NMax -> [1 .. Cardinality(Queries) -> Queries]]
  /\ \A i \in 1 .. NMax : \A q \in Queries : \E k \in DOMAIN Order[i] : Order[i][k] = q

VARIABLES
  pc,        \* where orchestrate.sh is
  request,   \* N_VALUES
  phase,     \* 0 in the warmup, then the position in request
  next,      \* the stream the launch or the wait loop is at
  failed,    \* STREAMS_FAILED
  summary,   \* MATRIX_FAIL_SUMMARY
  streams,   \* streams[p][i]: the engine process of stream i of phase p
  orphaned,  \* the streams <<p, i>> whose parent process died before it
  logs,      \* logs[p][i]: the df.jsonl in that stream's own run directory
  rawKept,   \* RESULTS_ROOT is there
  read,      \* read[n][i]: what aggregate.py loaded for stream i at n
  curve      \* the rows of curve.{csv,json,md}, {} before they are written

control == <<pc, request, phase, next>>
tally   == <<failed, summary>>
batches == <<streams, orphaned>>
results == <<rawKept, read, curve>>
vars == <<control, tally, batches, logs, results>>

StreamIds == 1 .. NMax
Live   == {"launched", "idle", "asking"}
Exited == {"zero", "nonzero"}

Phases == 0 .. Len(request)
N(p) == IF p = 0 THEN 1 ELSE request[p]
NValues == {request[k] : k \in DOMAIN request}

(* AllowedCPUs of stream i.                                                *)
AllowedCpus(i) == (i - 1) * CoresPerWorker .. i * CoresPerWorker - 1

(* A log: whether it is there, the wall times of the queries that          *)
(* succeeded, the queries with a failed record, and whether its last line  *)
(* is incomplete.                                                          *)
NoLog == [opened |-> FALSE, ok |-> <<>>, failures |-> {}, torn |-> FALSE]
NewLog == [NoLog EXCEPT !.opened = TRUE]
Recorded(log) == DOMAIN log.ok \union log.failures

(* What wait gets of a stream is the end of bench_runner's parent process, *)
(* which waits for its engine process unless it is killed before it.       *)
Gone(p, i)   == streams[p][i] \in Exited \/ <<p, i>> \in orphaned
Failed(p, i) == streams[p][i] = "nonzero" \/ <<p, i>> \in orphaned

Init ==
  /\ pc = "validate"
  /\ request \in Requests
  /\ phase \in {0, 1}
  /\ next = 1
  /\ failed = 0
  /\ summary = <<>>
  /\ streams = [p \in Phases |-> [i \in StreamIds |-> "none"]]
  /\ orphaned = {}
  /\ logs = [p \in Phases |-> [i \in StreamIds |-> NoLog]]
  /\ rawKept = TRUE
  /\ read = [n \in StreamIds |-> [i \in StreamIds |-> NoLog]]
  /\ curve = {}

-----------------------------------------------------------------------------
(* orchestrate.sh.                                                         *)

(* Mutant: only the cap is checked, not the processors of the host.        *)
FitsCap(n) == n <= NMax

Fits(n) == n <= NMax /\ n * CoresPerWorker <= HostCpus

Validate ==
  /\ pc = "validate"
  /\ pc' = IF \A n \in NValues : Fits(n) THEN "launch" ELSE "exited"
  /\ UNCHANGED <<request, phase, next, tally, batches, logs, results>>

Launch ==
  /\ pc = "launch" /\ next <= N(phase)
  /\ streams' = [streams EXCEPT ![phase][next] = "launched"]
  /\ next' = next + 1
  /\ UNCHANGED <<pc, request, phase, tally, orphaned, logs, results>>

(* Mutant: the count of failed streams is carried over.                    *)
AllLaunchedCarrying ==
  /\ pc = "launch" /\ next > N(phase)
  /\ pc' = "wait"
  /\ next' = 1
  /\ UNCHANGED <<request, phase, tally, batches, logs, results>>

(* wait_streams starts its count afresh.                                   *)
AllLaunched ==
  /\ pc = "launch" /\ next > N(phase)
  /\ pc' = "wait"
  /\ next' = 1
  /\ failed' = 0
  /\ UNCHANGED <<request, phase, summary, batches, logs, results>>

(* Mutant: only a stream that succeeds is waited for.                      *)
WaitSuccess ==
  /\ pc = "wait" /\ next <= N(phase)
  /\ streams[phase][next] = "zero" /\ <<phase, next>> \notin orphaned
  /\ next' = next + 1
  /\ UNCHANGED <<pc, request, phase, tally, batches, logs, results>>

WaitStream ==
  /\ pc = "wait" /\ next <= N(phase)
  /\ Gone(phase, next)
  /\ failed' = failed + IF Failed(phase, next) THEN 1 ELSE 0
  /\ next' = next + 1
  /\ UNCHANGED <<pc, request, phase, summary, batches, logs, results>>

WarmupDone ==
  /\ pc = "wait" /\ phase = 0 /\ next > N(phase)
  /\ IF failed > 0
     THEN pc' = "exited" /\ UNCHANGED <<phase, next>>
     ELSE pc' = "launch" /\ phase' = 1 /\ next' = 1
  /\ streams' = [streams EXCEPT ![0][1] = "none"]  \* reset_streams
  /\ UNCHANGED <<request, tally, orphaned, logs, results>>

(* Mutant: the matrix goes on past its last value.                         *)
BatchDonePastTheEnd ==
  /\ pc = "wait" /\ phase > 0 /\ next > N(phase)
  /\ summary' = IF failed = 0 THEN summary
                ELSE Append(summary, [n |-> N(phase), failed |-> failed])
  /\ IF phase <= Len(request)
     THEN pc' = "launch" /\ phase' = phase + 1 /\ next' = 1
     ELSE pc' = "aggregate" /\ UNCHANGED <<phase, next>>
  /\ UNCHANGED <<request, failed, batches, logs, results>>

BatchDone ==
  /\ pc = "wait" /\ phase > 0 /\ next > N(phase)
  /\ summary' = IF failed = 0 THEN summary
                ELSE Append(summary, [n |-> N(phase), failed |-> failed])
  /\ IF phase < Len(request)
     THEN pc' = "launch" /\ phase' = phase + 1 /\ next' = 1
     ELSE pc' = "aggregate" /\ UNCHANGED <<phase, next>>
  /\ UNCHANGED <<request, failed, batches, logs, results>>

-----------------------------------------------------------------------------
(* aggregate.py.                                                           *)

(* The batches of n streams share their stream directories, in which each  *)
(* has a run directory of its own; of several logs the latest is taken.    *)
OpenedAt(n, i) == {p \in Phases \ {0} : N(p) = n /\ logs[p][i].opened}
LastOf(S) == CHOOSE p \in S : \A r \in S : r <= p
Latest(n, i) == IF OpenedAt(n, i) = {} THEN NoLog ELSE logs[LastOf(OpenedAt(n, i))][i]

Loaded == [n \in StreamIds |-> [i \in StreamIds |-> Latest(n, i)]]

Samples(l, q, n) ==
  [i \in {j \in 1 .. n : q \in DOMAIN l[n][j].ok} |-> l[n][i].ok[q]]

(* all_query_ids: the queries of which some stream has a sample.           *)
QueriesSeen(l) ==
  UNION {DOMAIN l[n][i].ok : n \in NValues, i \in StreamIds}

Rows(l) == {[query |-> q, row |-> Row(n, Samples(l, q, n), Samples(l, q, 1))] :
              q \in QueriesSeen(l), n \in NValues}

(* json.loads raises on an incomplete line, whichever stream left it.      *)
Aggregable(l) ==
  /\ 1 \in NValues
  /\ \A n \in NValues : \A i \in 1 .. n : ~l[n][i].torn
  /\ QueriesSeen(l) # {}

Aggregate ==
  /\ pc = "aggregate" /\ Aggregable(Loaded)
  /\ read' = Loaded
  /\ curve' = Rows(Loaded)
  /\ pc' = "clean"
  /\ UNCHANGED <<request, phase, next, tally, batches, logs, rawKept>>

(* Mutant: the failure is tolerated like that of a stream.                 *)
AggregateTolerated ==
  /\ pc = "aggregate" /\ ~Aggregable(Loaded)
  /\ pc' = "clean"
  /\ UNCHANGED <<request, phase, next, tally, batches, logs, results>>

(* set -e: an aggregation that fails ends the script.                      *)
AggregateFails ==
  /\ pc = "aggregate" /\ ~Aggregable(Loaded)
  /\ pc' = "exited"
  /\ UNCHANGED <<request, phase, next, tally, batches, logs, results>>

(* CLEAN_STREAMS=1 removes RESULTS_ROOT with every run directory in it;    *)
(* logs stays what was recorded.                                           *)
Clean ==
  /\ pc = "clean"
  /\ rawKept' \in BOOLEAN
  /\ pc' = "exited"
  /\ UNCHANGED <<request, phase, next, tally, batches, logs, read, curve>>

(* The script is killed, or a command of its own fails under set -e; the   *)
(* streams are in scopes of their own and go on.                           *)
OrchestratorStops ==
  /\ pc \in {"launch", "wait"}
  /\ pc' = "exited"
  /\ UNCHANGED <<request, phase, next, tally, batches, logs, results>>

-----------------------------------------------------------------------------
(* A stream.                                                               *)

SetStream(p, i, s) == streams' = [streams EXCEPT ![p][i] = s] /\ UNCHANGED orphaned

(* Nobody takes the status of an orphan: its parent's counts.              *)
End(p, i, s) == SetStream(p, i, IF <<p, i>> \in orphaned THEN "nonzero" ELSE s)

LogOf(p, i) == logs[p][i]
NextQuery(p, i) == Order[i][Cardinality(Recorded(LogOf(p, i))) + 1]
WithTime(ok, q, w) == [x \in DOMAIN ok \union {q} |-> IF x = q THEN w ELSE ok[x]]
SetLog(p, i, log) == logs' = [logs EXCEPT ![p][i] = log]

(* The warmup stream in one step: what it records is never aggregated, and *)
(* if its parent dies the script ends.                                     *)
WarmUp ==
  /\ streams[0][1] = "launched"
  /\ \E s \in Exited : SetStream(0, 1, s)
  /\ UNCHANGED <<control, tally, logs, results>>

(* Batches of the same size name their scopes alike, and systemd-run has   *)
(* no second scope of a name while a process is left in the first.         *)
ScopeTaken(p, i) ==
  \E r \in Phases \ {0, p} : /\ N(r) = N(p)
                             /\ <<r, i>> \in orphaned
                             /\ streams[r][i] \in Live

(* The engine answers the health probe and a new log is opened.            *)
Open(p, i) ==
  /\ streams[p][i] = "launched" /\ rawKept
  /\ ~ScopeTaken(p, i)
  /\ SetStream(p, i, "idle")
  /\ SetLog(p, i, NewLog)
  /\ UNCHANGED <<control, tally, results>>

(* The next query of the stream's order is sent to DF_CONTROL_URL.         *)
Ask(p, i) ==
  /\ streams[p][i] = "idle"
  /\ Recorded(LogOf(p, i)) # Queries
  /\ SetStream(p, i, "asking")
  /\ UNCHANGED <<control, tally, logs, results>>

(* A record can be appended while the run directory is there.              *)
Succeed(p, i) ==
  /\ streams[p][i] = "asking" /\ rawKept
  /\ SetStream(p, i, "idle")
  /\ \E w \in Walls[NextQuery(p, i)] :
       SetLog(p, i, [LogOf(p, i) EXCEPT !.ok = WithTime(@, NextQuery(p, i), w)])
  /\ UNCHANGED <<control, tally, results>>

(* The query fails or is given up after the client's timeout.              *)
Fail(p, i) ==
  /\ streams[p][i] = "asking" /\ rawKept
  /\ SetStream(p, i, "idle")
  /\ SetLog(p, i, [LogOf(p, i) EXCEPT !.failures = @ \union {NextQuery(p, i)}])
  /\ UNCHANGED <<control, tally, results>>

(* Every query has its record.                                             *)
Finish(p, i) ==
  /\ streams[p][i] = "idle"
  /\ Recorded(LogOf(p, i)) = Queries
  /\ End(p, i, "zero")
  /\ UNCHANGED <<control, tally, logs, results>>

(* The runner refuses to start, its engine does, a record cannot be        *)
(* appended, or memory or disk run out at any time: the engine process     *)
(* ends.  Its parent returns 0 all the same, unless it is a victim too,    *)
(* and a record that was being written may be left incomplete.             *)
Cease(p, i) ==
  /\ streams[p][i] \in Live
  /\ \E s \in Exited : End(p, i, s)
  /\ \E torn \in BOOLEAN :
       /\ torn => streams[p][i] = "asking" /\ rawKept
       /\ IF torn THEN SetLog(p, i, [LogOf(p, i) EXCEPT !.torn = TRUE])
                  ELSE UNCHANGED logs
  /\ UNCHANGED <<control, tally, results>>

(* The parent alone is killed: its engine process goes on as an orphan.    *)
ParentDies(p, i) ==
  /\ streams[p][i] \in Live /\ <<p, i>> \notin orphaned
  /\ orphaned' = orphaned \union {<<p, i>>}
  /\ UNCHANGED <<control, tally, streams, logs, results>>

-----------------------------------------------------------------------------
Orchestrate == \/ Validate \/ Launch \/ AllLaunched \/ WaitStream
               \/ WarmupDone \/ BatchDone
               \/ Aggregate \/ AggregateFails \/ Clean

StreamStep(p, i) == \/ Open(p, i) \/ Ask(p, i) \/ Succeed(p, i)
                    \/ Fail(p, i) \/ Finish(p, i) \/ Cease(p, i)

Stream(i) == \E p \in Phases \ {0} : StreamStep(p, i)

Next == \/ Orchestrate
        \/ OrchestratorStops
        \/ WarmUp
        \/ \E i \in StreamIds : Stream(i)
        \/ \E p \in Phases \ {0}, i \in StreamIds : ParentDies(p, i)

Spec == Init /\ [][Next]_vars

(* Processes are scheduled, and the DeltaForge client limits every call.   *)
Fairness ==
  /\ WF_vars(Orchestrate)
  /\ WF_vars(WarmUp)
  /\ \A i \in StreamIds : WF_vars(Stream(i))

FairSpec == Spec /\ Fairness

-----------------------------------------------------------------------------
TypeOK ==
  /\ pc \in {"validate", "launch", "wait", "aggregate", "clean", "exited"}
  /\ request \in Requests
  /\ phase \in Phases
  /\ next \in 1 .. NMax + 1
  /\ failed \in 0 .. NMax
  /\ summary \in Seq([n : StreamIds, failed : StreamIds])
  /\ streams \in [Phases -> [StreamIds -> {"none"} \union Live \union Exited]]
  /\ orphaned \subseteq (Phases \ {0}) \X StreamIds
  /\ \A p \in Phases, i \in StreamIds :
       /\ DOMAIN logs[p][i].ok \subseteq Queries
       /\ \A q \in DOMAIN logs[p][i].ok : logs[p][i].ok[q] \in Walls[q]
       /\ logs[p][i].failures \subseteq Queries \ DOMAIN logs[p][i].ok
       /\ {logs[p][i].opened, logs[p][i].torn} \subseteq BOOLEAN
  /\ rawKept \in BOOLEAN
  /\ \A r \in curve : r.query \in Queries

(* A stream that runs has a block of processors of the host to itself, and *)
(* a measured batch starts after the batch before is gone, except for the  *)
(* engine process of a stream whose parent was killed: that one may run    *)
(* on, on the processors of the stream of its number in a later batch      *)
(* (orchestrate.sh:6-8, 71-76, 146-164).                                   *)
Isolated ==
  \A p \in Phases, i \in StreamIds : streams[p][i] \in Live =>
    /\ p = phase \/ <<p, i>> \in orphaned
    /\ AllowedCpus(i) \subseteq 0 .. HostCpus - 1
    /\ \A r \in Phases, j \in StreamIds :
         /\ streams[r][j] \in Live
         /\ AllowedCpus(i) \intersect AllowedCpus(j) # {}
         => /\ i = j
            /\ p = r \/ {<<p, i>>, <<r, j>>} \intersect orphaned # {}

FailedStreams(p) == Cardinality({i \in StreamIds : Failed(p, i)})

SummaryNames(last) ==
  \E batch \in [1 .. Len(summary) -> 1 .. last] :
    /\ \A j, k \in DOMAIN batch : j < k => batch[j] < batch[k]
    /\ {batch[k] : k \in DOMAIN batch} = {p \in 1 .. last : FailedStreams(p) > 0}
    /\ \A k \in DOMAIN batch :
         summary[k] = [n |-> N(batch[k]), failed |-> FailedStreams(batch[k])]

(* After the matrix the summary names every batch in which streams failed, *)
(* and no other, in order, with their number (orchestrate.sh:140-163,      *)
(* 212-215).                                                               *)
SummaryIsExact ==
  pc \in {"aggregate", "clean"} => SummaryNames(Len(request))

(* The raw results are removed only when the curve counts every wall time  *)
(* recorded by the streams of the latest batch of each size.  Not promised *)
(* are the logs of an earlier batch of that size, and those of a stream    *)
(* whose engine process was orphaned, which may record after the           *)
(* aggregation (orchestrate.sh:24-28, 246-249, aggregate.py:53-68).        *)
OrphansAt(n) == {i \in 1 .. n : \E p \in Phases \ {0} : N(p) = n /\ <<p, i>> \in orphaned}
NothingLost ==
  ~rawKept =>
    \A n \in NValues : \A q \in Queries :
      LET times == {i \in 1 .. n \ OrphansAt(n) : q \in DOMAIN Latest(n, i).ok}
          least == Cardinality(times)
      IN  times # {} =>
            \E r \in curve :
              /\ r.query = q /\ r.row.n = n
              /\ r.row.samples \in least .. least + Cardinality(OrphansAt(n))

(* In the curve as many samples lie below the median as above it, unless   *)
(* some are equal, and the 95th percentile lies between the median and the *)
(* greatest sample (aggregate.py:105-118).                                 *)
PercentilesBalanced ==
  \A r \in curve : r.row.samples > 0 =>
    LET f == Samples(read, r.query, r.row.n)
        below == {i \in DOMAIN f : 100 * f[i] < r.row.p50}
        above == {i \in DOMAIN f : 100 * f[i] > r.row.p50}
        distinct == \A i, j \in DOMAIN f : f[i] = f[j] => i = j
    IN  /\ distinct => Cardinality(below) = Cardinality(above)
        /\ r.row.p50 <= r.row.p95
        /\ \E i \in DOMAIN f : r.row.p95 <= 100 * f[i]

(* The script comes to its end and no stream outlives it for ever: wait    *)
(* has no timeout, but every stream has (orchestrate.sh:146-164).          *)
EndsQuietly ==
  <>[](pc = "exited" /\ \A p \in Phases, i \in StreamIds : streams[p][i] \notin Live)

(* The two verdicts of a row agree up to the rounding of the ratio: what    *)
(* curve.md lists as an offender is flat nowhere, and a row that is not    *)
(* flat and not listed is within half a thousandth of the threshold        *)
(* (aggregate.py:167-175, 340-346).                                        *)
VerdictsAgree ==
  \A r \in curve : r.row.n > 1 =>
    LET listed == r.row \in Offenders({s.row : s \in curve})
    IN  /\ listed => r.row.flat = "no"
        /\ r.row.flat = "no" /\ ~listed => 2000 * r.row.p50 < 2201 * r.row.base
=============================================================================
