------------------------------ MODULE BenchRun ------------------------------
(***************************************************************************)
(* One invocation of bench_runner.py: the parent process spawns one child  *)
(* process per engine, in order, and each child drives its engine through  *)
(* the schedule, appending every measurement to raw/<engine>.jsonl before  *)
(* it goes on.  Any process may be killed between any two steps, the disk  *)
(* may fill up, and the engine's own backend may die under a live child.   *)
(***************************************************************************)
EXTENDS Schedule, FiniteSets

CONSTANTS
  Engines,      \* the engine names
  EngineOrder,  \* --engines: the sequence the parent spawns children for
  Applicable,   \* Applicable[e]: the workloads that are scheduled on e
  Purging,      \* FALSE with --no-purge
  KillsLive,    \* engines whose purge patterns match their running backend
  TimedEngines  \* engines whose run_step returns within a timeout

ASSUME BenchAssumption ==
  /\ EngineOrder \in Seq(Engines)
  /\ Applicable \in [Engines -> SUBSET Workloads]
  /\ Purging \in BOOLEAN
  /\ KillsLive \subseteq Engines
  /\ TimedEngines \subseteq Engines

VARIABLES
  ppc,        \* where the parent is
  idx,        \* the position in EngineOrder it has reached
  cpc,        \* where the child is, if there is one
  wl, step, run,  \* the child's loop variables
  alive,      \* the child's engine has a backend that answers
  verified,   \* purge_verified of the measurement in progress
  ok,         \* exit_code = 0 of the measurement in hand
  jsonl,      \* raw/<engine>.jsonl: the lines with their newline
  torn,       \* after them it holds the beginning of a line
  frag,       \* raw/<engine>.manifest.json
  manifest,   \* manifest.json: whether written, the engines whose
              \* version and cold start it has
  report,     \* the outcome of reports/generate_report.py
  startRaised,  \* history: engines whose start() raised
  finished,   \* history: cells the engine has finished, this session
  abandoned,  \* history: workloads given up, this session
  residue     \* history: workloads whose tables exist, this session

parentVars  == <<ppc, idx, manifest, report>>
loopVars    == <<wl, step, run>>
historyVars == <<startRaised, finished, abandoned, residue>>
diskVars    == <<jsonl, torn, frag>>
vars == <<parentVars, cpc, loopVars, alive, verified, ok, diskVars, historyVars>>

ParentPcs  == {"plan", "spawn", "wait", "report", "done", "aborted", "dead"}
SessionPcs == {"catalog", "setup", "measure", "run", "append", "cleanup",
               "stop", "fragment"}
RunningPcs == {"boot", "started"} \union SessionPcs
ChildPcs   == {"none", "exited", "killed"} \union RunningPcs

(* The engine of the child in existence: the parent advances idx only      *)
(* after that child is gone.                                               *)
Engine == EngineOrder[idx]

Current == [wl |-> wl, step |-> step, run |-> run]

Init ==
  /\ ppc = "plan" /\ idx = 1 /\ cpc = "none"
  /\ wl = 1 /\ step = 1 /\ run = 0
  /\ alive = FALSE /\ verified = FALSE /\ ok = FALSE
  /\ jsonl = [e \in Engines |-> <<>>]
  /\ torn = [e \in Engines |-> FALSE]
  /\ frag = [e \in Engines |-> "none"]
  /\ manifest = [written |-> FALSE, versions |-> {}]
  /\ report = "none"
  /\ startRaised = {}
  /\ finished = [e \in Engines |-> {}]
  /\ abandoned = [e \in Engines |-> {}]
  /\ residue = {}

-----------------------------------------------------------------------------
(* The parent process.                                                     *)

(* Argument checks, fixtures and preflight, which may refuse the run.      *)
Plan ==
  /\ ppc = "plan"
  /\ ppc' \in {"spawn", "aborted"}
  /\ UNCHANGED <<idx, manifest, report, cpc, loopVars, alive, verified, ok,
                 diskVars, historyVars>>

Spawn ==
  /\ ppc = "spawn" /\ idx <= Len(EngineOrder)
  /\ ppc' = "wait"
  /\ cpc' = "boot"
  /\ UNCHANGED <<idx, manifest, report, loopVars, alive, verified, ok,
                 diskVars, historyVars>>

(* subprocess.run raised: reported as rc = -1, the next engine goes on.    *)
SpawnFails ==
  /\ ppc = "spawn" /\ idx <= Len(EngineOrder)
  /\ idx' = idx + 1
  /\ UNCHANGED <<ppc, manifest, report, cpc, loopVars, alive, verified, ok,
                 diskVars, historyVars>>

(* Mutant: a child that was killed is not noticed.                         *)
ReapExited ==
  /\ ppc = "wait" /\ cpc = "exited"
  /\ ppc' = "spawn"
  /\ idx' = idx + 1
  /\ cpc' = "none"
  /\ UNCHANGED <<manifest, report, loopVars, alive, verified, ok, diskVars,
                 historyVars>>

(* The child is gone; its return code is printed and otherwise ignored.    *)
Reap ==
  /\ ppc = "wait" /\ cpc \in {"exited", "killed"}
  /\ ppc' = "spawn"
  /\ idx' = idx + 1
  /\ cpc' = "none"
  /\ UNCHANGED <<manifest, report, loopVars, alive, verified, ok, diskVars,
                 historyVars>>

(* Mutant: the manifest is written after every child.                      *)
MergeAfterEach ==
  /\ ppc = "spawn"
  /\ manifest' = [written |-> TRUE,
                  versions |-> { e \in Engines : frag[e] = "whole" }]
  /\ ppc' = IF idx > Len(EngineOrder) THEN "report" ELSE "spawn"
  /\ UNCHANGED <<idx, report, cpc, loopVars, alive, verified, ok, diskVars,
                 historyVars>>

(* The fragments that exist and parse go into manifest.json; only children *)
(* of this run have written any.                                           *)
Merge ==
  /\ ppc = "spawn" /\ idx > Len(EngineOrder)
  /\ manifest' = [written |-> TRUE,
                  versions |-> { e \in Engines : frag[e] = "whole" }]
  /\ ppc' = "report"
  /\ UNCHANGED <<idx, report, cpc, loopVars, alive, verified, ok, diskVars,
                 historyVars>>

(* The log holds a line that does not parse.                               *)
Unreadable(e) == torn[e] \/ \E i \in DOMAIN jsonl[e] : ~ jsonl[e][i].whole

(* generate_report reads every line of every jsonl file: a line that does  *)
(* not parse, or no line at all, ends it without a report.                 *)
EmitReport ==
  /\ ppc = "report"
  /\ report' = IF \/ \E e \in Engines : Unreadable(e)
                  \/ \A e \in Engines : jsonl[e] = <<>>
                 THEN "failed" ELSE "made"
  /\ ppc' = "done"
  /\ UNCHANGED <<idx, manifest, cpc, loopVars, alive, verified, ok, diskVars,
                 historyVars>>

(* The parent alone is killed, or cannot write the manifest; its child, if *)
(* any, goes on.                                                           *)
ParentKilled ==
  /\ ppc \in {"plan", "spawn", "wait", "report"}
  /\ ppc' = "dead"
  /\ UNCHANGED <<idx, manifest, report, cpc, loopVars, alive, verified, ok,
                 diskVars, historyVars>>

-----------------------------------------------------------------------------
(* The child process: one engine session.                                  *)

(* Refused by the checks the child repeats, or the engine does not import: *)
(* nothing is written, and the child exits.                                *)
Refuse ==
  /\ cpc = "boot"
  /\ cpc' = "exited"
  /\ UNCHANGED <<parentVars, loopVars, alive, verified, ok, diskVars, historyVars>>

StartRaises ==
  /\ cpc = "boot"
  /\ cpc' = "exited"
  /\ startRaised' = startRaised \union {Engine}
  /\ UNCHANGED <<parentVars, loopVars, alive, verified, ok, diskVars, finished,
                 abandoned, residue>>

StartEngine ==
  /\ cpc = "boot"
  /\ cpc' = "started"
  /\ alive' = TRUE
  /\ UNCHANGED <<parentVars, loopVars, verified, ok, diskVars, historyVars>>

(* Mutant: the log is opened for appending only.                           *)
OpenLogKeeping ==
  /\ cpc = "started"
  /\ cpc' = "catalog"
  /\ finished' = [finished EXCEPT ![Engine] = {}]
  /\ abandoned' = [abandoned EXCEPT ![Engine] = {}]
  /\ residue' = {}
  /\ UNCHANGED <<parentVars, loopVars, alive, verified, ok, diskVars, startRaised>>

(* The log is truncated once per session, after a successful start.        *)
OpenLog ==
  /\ cpc = "started"
  /\ cpc' = "catalog"
  /\ jsonl' = [jsonl EXCEPT ![Engine] = <<>>]
  /\ torn' = [torn EXCEPT ![Engine] = FALSE]
  /\ finished' = [finished EXCEPT ![Engine] = {}]
  /\ abandoned' = [abandoned EXCEPT ![Engine] = {}]
  /\ residue' = {}
  /\ UNCHANGED <<parentVars, loopVars, alive, verified, ok, frag, startRaised>>

(* Registering tables: a failure is printed and nothing else.              *)
RegisterCatalog ==
  /\ cpc = "catalog"
  /\ cpc' = "setup"
  /\ wl' = 1
  /\ UNCHANGED <<parentVars, step, run, alive, verified, ok, diskVars, historyVars>>

(* Mutant: the loop does not end after the last workload.                  *)
SkipPastTheEnd ==
  /\ cpc = "setup" /\ wl \notin Applicable[Engine]
  /\ wl' = wl + 1
  /\ UNCHANGED <<parentVars, cpc, step, run, alive, verified, ok, diskVars,
                 historyVars>>

SkipWorkload ==
  /\ cpc = "setup" /\ wl \in Workloads \ Applicable[Engine]
  /\ wl' = wl + 1
  /\ UNCHANGED <<parentVars, cpc, step, run, alive, verified, ok, diskVars,
                 historyVars>>

(* Every setup step succeeds; those with nothing for this engine are       *)
(* skipped, so that there may be no table after them.                      *)
Setup ==
  /\ cpc = "setup" /\ wl \in Applicable[Engine]
  /\ cpc' = "measure"
  /\ step' = 1 /\ run' = 0
  /\ residue' \in {residue, residue \union {wl}}
  /\ UNCHANGED <<parentVars, wl, alive, verified, ok, diskVars, startRaised,
                 finished, abandoned>>

(* run_workload is left early: the rest of the workload is given up and    *)
(* its cleanup steps do not run.                                           *)
Abandon ==
  /\ cpc' = "setup"
  /\ wl' = wl + 1
  /\ abandoned' = [abandoned EXCEPT ![Engine] = @ \union {wl}]
  /\ UNCHANGED <<parentVars, step, run, alive, verified, ok, frag, startRaised,
                 finished>>

(* A setup step fails, after none or some of them created their tables.    *)
SetupFails ==
  /\ cpc = "setup" /\ wl \in Applicable[Engine]
  /\ residue' \in {residue, residue \union {wl}}
  /\ UNCHANGED <<jsonl, torn>>
  /\ Abandon

(* The purge of a cold run.  It may raise, be incomplete, or succeed; its  *)
(* pkill takes the patterns of the engine being measured.                  *)
Purge ==
  /\ cpc = "measure" /\ Purging /\ IsCold(Current)
  /\ cpc' = "run"
  /\ verified' \in BOOLEAN
  /\ alive' \in IF Engine \in KillsLive THEN {FALSE, alive} ELSE {alive}
  /\ UNCHANGED <<parentVars, loopVars, ok, diskVars, historyVars>>

NoPurge ==
  /\ cpc = "measure" /\ ~ (Purging /\ IsCold(Current))
  /\ cpc' = "run"
  /\ verified' = FALSE
  /\ UNCHANGED <<parentVars, loopVars, alive, ok, diskVars, historyVars>>

(* engine.run_step: a result in every case, a failure if the backend died. *)
RunStep ==
  /\ cpc = "run"
  /\ cpc' = "append"
  /\ ok' \in {FALSE, alive}
  /\ finished' = [finished EXCEPT ![Engine] = @ \union {Current}]
  /\ UNCHANGED <<parentVars, loopVars, alive, verified, diskVars, startRaised,
                 abandoned, residue>>

Advance ==
  IF IsLastCell(Current)
    THEN cpc' = "cleanup" /\ UNCHANGED <<step, run>>
    ELSE cpc' = "measure" /\ step' = NextCell(Current).step
                          /\ run' = NextCell(Current).run

(* Mutant: only a measurement that succeeded is written.                   *)
AppendSuccess ==
  /\ cpc = "append"
  /\ jsonl' = IF ok
       THEN [jsonl EXCEPT ![Engine] =
              Append(@, [cell |-> Current, cold |-> IsCold(Current),
                         verified |-> verified, ok |-> ok,
                         whole |-> ~ torn[Engine]])]
       ELSE jsonl
  /\ torn' = [torn EXCEPT ![Engine] = @ /\ ~ ok]
  /\ Advance
  /\ UNCHANGED <<parentVars, wl, alive, verified, ok, frag, historyVars>>

(* _append_record: the line reaches the file before the loop goes on,      *)
(* glued to what an earlier failed write left of one.                      *)
AppendRecord ==
  /\ cpc = "append"
  /\ jsonl' = [jsonl EXCEPT ![Engine] =
                 Append(@, [cell |-> Current, cold |-> IsCold(Current),
                            verified |-> verified, ok |-> ok,
                            whole |-> ~ torn[Engine]])]
  /\ torn' = [torn EXCEPT ![Engine] = FALSE]
  /\ Advance
  /\ UNCHANGED <<parentVars, wl, alive, verified, ok, frag, historyVars>>

(* Mutant: a failed write is swallowed and the loop goes on.               *)
AppendSwallowed ==
  /\ cpc = "append"
  /\ torn' \in {torn, [torn EXCEPT ![Engine] = TRUE]}
  /\ Advance
  /\ UNCHANGED <<parentVars, wl, alive, verified, ok, jsonl, frag, historyVars>>

(* The disk is full: the write raises after none or part of the line.      *)
AppendFails ==
  /\ cpc = "append"
  /\ torn' \in {torn, [torn EXCEPT ![Engine] = TRUE]}
  /\ UNCHANGED <<jsonl, residue>>
  /\ Abandon

(* Mutant: the exception leaves the loop over the workloads.               *)
RaiseLeavesLoop ==
  /\ \/ cpc \in {"measure", "run", "cleanup"}
     \/ cpc = "setup" /\ wl \in Applicable[Engine]
  /\ cpc' = "stop"
  /\ abandoned' = [abandoned EXCEPT ![Engine] = @ \union {wl}]
  /\ UNCHANGED <<parentVars, loopVars, alive, verified, ok, diskVars, startRaised,
                 finished, residue>>

(* Any other exception on the way; the caller catches it per workload.     *)
WorkloadRaises ==
  /\ \/ cpc \in {"measure", "run", "cleanup"}
     \/ cpc = "setup" /\ wl \in Applicable[Engine]
  /\ UNCHANGED <<jsonl, torn, residue>>
  /\ Abandon

(* Cleanup steps; their exit codes are ignored.                            *)
Cleanup ==
  /\ cpc = "cleanup"
  /\ cpc' = "setup"
  /\ wl' = wl + 1
  /\ residue' \in {residue} \union (IF alive THEN {residue \ {wl}} ELSE {})
  /\ UNCHANGED <<parentVars, step, run, alive, verified, ok, diskVars, startRaised,
                 finished, abandoned>>

LeaveLoop ==
  /\ cpc = "setup" /\ wl = NumWorkloads + 1
  /\ cpc' = "stop"
  /\ UNCHANGED <<parentVars, loopVars, alive, verified, ok, diskVars, historyVars>>

StopEngine ==
  /\ cpc = "stop"
  /\ cpc' = "fragment"
  /\ alive' = FALSE
  /\ UNCHANGED <<parentVars, loopVars, verified, ok, diskVars, historyVars>>

(* write_text: whole, or raised with the file truncated.                   *)
WriteFragment ==
  /\ cpc = "fragment"
  /\ cpc' = "exited"
  /\ frag' \in { [frag EXCEPT ![Engine] = f] : f \in {"whole", "torn"} }
  /\ UNCHANGED <<parentVars, loopVars, alive, verified, ok, jsonl, torn,
                 historyVars>>

(* The child is killed, by the kernel's OOM killer for one, or ends by an  *)
(* exception outside its handlers.  A line or a fragment being written may *)
(* be left incomplete.                                                     *)
ChildKilled ==
  /\ cpc \in RunningPcs
  /\ cpc' = "killed"
  /\ alive' = FALSE
  /\ torn' \in {torn} \union
        (IF cpc = "append" THEN {[torn EXCEPT ![Engine] = TRUE]} ELSE {})
  /\ frag' \in {frag} \union
        (IF cpc = "fragment" THEN {[frag EXCEPT ![Engine] = "torn"]} ELSE {})
  /\ UNCHANGED <<parentVars, loopVars, verified, ok, jsonl, historyVars>>

(* The backend dies under the child, a Spark JVM out of memory for one.    *)
EngineDies ==
  /\ cpc \in RunningPcs /\ alive
  /\ alive' = FALSE
  /\ UNCHANGED <<parentVars, cpc, loopVars, verified, ok, diskVars, historyVars>>

-----------------------------------------------------------------------------
ParentStep == Plan \/ Spawn \/ SpawnFails \/ Reap \/ Merge \/ EmitReport

(* The child's steps that wait for the engine's answer, and the others.    *)
EngineStep ==
  \/ StartRaises \/ StartEngine \/ RegisterCatalog \/ Setup \/ SetupFails
  \/ RunStep \/ Cleanup \/ StopEngine

HarnessStep ==
  \/ Refuse \/ OpenLog \/ SkipWorkload \/ Purge \/ NoPurge \/ AppendRecord
  \/ AppendFails \/ LeaveLoop \/ WriteFragment

Failure == WorkloadRaises \/ ParentKilled \/ ChildKilled \/ EngineDies

Next == ParentStep \/ EngineStep \/ HarnessStep \/ Failure

(* Processes that are not killed go on.  An engine answers for certain     *)
(* only where its adapter sets a timeout on every call.                    *)
Fairness ==
  /\ WF_vars(ParentStep)
  /\ WF_vars(OpenLog \/ SkipWorkload \/ Purge \/ NoPurge \/ AppendRecord
              \/ LeaveLoop \/ WriteFragment)
  /\ WF_vars(EngineStep /\ Engine \in TimedEngines)

Spec == Init /\ [][Next]_vars

FairSpec == Spec /\ Fairness

-----------------------------------------------------------------------------
TypeOK ==
  /\ ppc \in ParentPcs /\ idx \in 1 .. Len(EngineOrder) + 1
  /\ cpc \in ChildPcs
  /\ wl \in 1 .. NumWorkloads + 1 /\ step \in Nat /\ run \in Nat
  /\ alive \in BOOLEAN /\ verified \in BOOLEAN /\ ok \in BOOLEAN
  /\ jsonl \in [Engines -> Seq(Record)]
  /\ torn \in [Engines -> BOOLEAN]
  /\ frag \in [Engines -> {"none", "torn", "whole"}]
  /\ manifest \in [written : BOOLEAN, versions : SUBSET Engines]
  /\ report \in {"none", "made", "failed"}
  /\ startRaised \subseteq Engines
  /\ finished \in [Engines -> SUBSET Cell]
  /\ abandoned \in [Engines -> SUBSET Workloads]
  /\ residue \subseteq Workloads

(* A run implements RunLog: its logs grow in schedule order, one engine at *)
(* a time, and what the manifest publishes does not change any more.       *)
RL == INSTANCE RunLog WITH
        log <- jsonl,
        open <- IF cpc \in SessionPcs THEN {Engine} ELSE {},
        vouched <- { e \in Engines : frag[e] = "whole" },
        published <- manifest.written,
        listed <- manifest.versions

RunLogSpec == RL!Spec
InOrder == RL!InOrder
GapFree == RL!GapFree

(* What the session has finished and no reader finds in the log.           *)
Lost(e) == finished[e] \ CellsOf(jsonl[e])

(* The first measurement of a workload, written behind what a failed write *)
(* left of the one finished just before it, which is lost as well.         *)
Glued(e, c) ==
  /\ c \in finished[e] /\ c = FirstCell(c.wl)
  /\ \E d \in Lost(e) :
       /\ d.wl < c.wl
       /\ \A x \in finished[e] : Precedes(x, c) => x = d \/ Precedes(x, d)

(* run_workload's durability: whatever is killed and whenever the disk is  *)
(* full, a finished measurement that no reader finds is the last one its   *)
(* workload finished, or it is glued to the one that was lost before it:   *)
(* a write that fails costs its own measurement and the next.              *)
AtMostLastLost ==
  \A e \in Engines : \A c \in Lost(e) :
    \/ \A d \in finished[e] : d.wl = c.wl => d = c \/ Precedes(d, c)
    \/ Glued(e, c)

(* An engine the manifest has a version of has its whole schedule on disk, *)
(* except for what its session abandoned, and in lines that parse, except  *)
(* for glued ones, with which there is no report: the merge never vouches  *)
(* for a crashed child (each engine being asked for once).                 *)
Distinct == \A i, j \in DOMAIN EngineOrder :
              EngineOrder[i] = EngineOrder[j] => i = j

Complete(e) ==
  \A w \in Applicable[e] \ abandoned[e] : \A c \in Cell : c.wl = w =>
    c \in CellsOf(jsonl[e]) \/ (report # "made" /\ Glued(e, c))

ManifestedIsComplete ==
  Distinct => \A e \in manifest.versions : Complete(e)

(* Whatever crashes, the run comes to its end (or its parent was killed,   *)
(* or refused it), unless an engine without timeouts never answers.        *)
FinishesUnlessEngineHangs ==
  \/ <>(ppc \in {"done", "aborted", "dead"})
  \/ <>[](cpc \in RunningPcs /\ Engine \notin TimedEngines)

-----------------------------------------------------------------------------
(* What the documents say of the program and a run shows not to be so.     *)

(* bench_runner.py and docs/design.md: runs whose purge could not be       *)
(* verified are excluded from the cold figures of the report.              *)
ColdSample(e, i) == jsonl[e][i].cold /\ jsonl[e][i].ok

ColdSamplesVerified ==
  report = "made" =>
    \A e \in Engines : \A i \in DOMAIN jsonl[e] :
      ColdSample(e, i) => jsonl[e][i].verified

(* engines/_purge.py: the purge kills only the engine that just finished.  *)
PurgeSparesLiveEngine ==
  [][cpc = "measure" /\ cpc' = "run" => alive' = alive]_vars
=============================================================================
