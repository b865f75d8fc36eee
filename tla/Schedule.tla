------------------------------ MODULE Schedule ------------------------------
(***************************************************************************)
(* What the runner schedules on one engine: the workloads in the order     *)
(* they were asked for, each with its measured steps, each step repeated   *)
(* cold and then warm (bench_runner.run_workload, workloads.spec).  A cell *)
(* names one execution of one measured step.                               *)
(***************************************************************************)
EXTENDS Integers, Sequences

CONSTANTS
  NumWorkloads,   \* how many workloads the run was asked for
  Steps,          \* Steps[w]: the number of measured steps of workload w
  ColdRuns,       \* ColdRuns[w]: cold repetitions of each of them
  WarmRuns        \* WarmRuns[w]: warm repetitions of each of them

Workloads == 1 .. NumWorkloads

ASSUME ScheduleAssumption ==
  /\ NumWorkloads \in Nat
  /\ Steps \in [Workloads -> Nat \ {0}]
  /\ ColdRuns \in [Workloads -> Nat]
  /\ WarmRuns \in [Workloads -> Nat]
  /\ \A w \in Workloads : ColdRuns[w] + WarmRuns[w] > 0

Runs(w) == ColdRuns[w] + WarmRuns[w]

Cell == UNION { [wl : {w}, step : 1 .. Steps[w], run : 0 .. Runs(w) - 1] :
                w \in Workloads }

FirstCell(w) == [wl |-> w, step |-> 1, run |-> 0]

IsCold(c) == c.run < ColdRuns[c.wl]

IsLastCell(c) == c.step = Steps[c.wl] /\ c.run + 1 = Runs(c.wl)

(* The two nested loops: the next repetition, or the next step's first.    *)
NextCell(c) ==
  IF c.run + 1 < Runs(c.wl)
    THEN [c EXCEPT !.run = @ + 1]
    ELSE [c EXCEPT !.step = @ + 1, !.run = 0]

(* The order of execution within one engine session.                       *)
Precedes(c, d) ==
  \/ c.wl < d.wl
  \/ c.wl = d.wl /\ c.step < d.step
  \/ c.wl = d.wl /\ c.step = d.step /\ c.run < d.run

(* A measurement as it is written to raw/<engine>.jsonl; whole, unless it  *)
(* was written behind the beginning of a line and so does not parse.       *)
Record == [cell : Cell, cold : BOOLEAN, verified : BOOLEAN, ok : BOOLEAN,
           whole : BOOLEAN]

(* The cells a reader gets out of a log: those of the lines that parse.     *)
CellsOf(log) == { log[i].cell : i \in {j \in DOMAIN log : log[j].whole} }

(* The cells that may be recorded next after a log: the successor of its   *)
(* last one, or the first of a later workload (the rest of the current     *)
(* one having been abandoned).                                             *)
CanFollow(log, c) ==
  \/ /\ c = FirstCell(c.wl)
     /\ log # <<>> => log[Len(log)].cell.wl < c.wl
  \/ /\ log # <<>>
     /\ ~ IsLastCell(log[Len(log)].cell)
     /\ c = NextCell(log[Len(log)].cell)
=============================================================================
