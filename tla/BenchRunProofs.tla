--------------------------- MODULE BenchRunProofs ---------------------------
(***************************************************************************)
(* BenchRun for every set of engines, every schedule and any number of     *)
(* failures: type correctness, the implementation of RunLog, durability,   *)
(* and what the manifest vouches for.                                      *)
(***************************************************************************)
EXTENDS BenchRun, TLAPS

-----------------------------------------------------------------------------
(* Facts about the cells of a schedule, the order they run in, and logs    *)
(* that grow by CanFollow steps.                                           *)

(* A cell is a workload, one of its steps and one of its repetitions.      *)
LEMMA CellFields ==
  ASSUME NEW c
  PROVE  c \in Cell <=> /\ c = [wl |-> c.wl, step |-> c.step, run |-> c.run]
                        /\ c.wl \in Workloads
                        /\ c.step \in 1 .. Steps[c.wl]
                        /\ c.run \in 0 .. Runs(c.wl) - 1
<1>1. ASSUME c \in Cell
      PROVE  /\ c = [wl |-> c.wl, step |-> c.step, run |-> c.run]
             /\ c.wl \in Workloads
             /\ c.step \in 1 .. Steps[c.wl]
             /\ c.run \in 0 .. Runs(c.wl) - 1
  <2>1. PICK w \in Workloads :
          c \in [wl : {w}, step : 1 .. Steps[w], run : 0 .. Runs(w) - 1]
    BY <1>1 DEF Cell
  <2> QED BY <2>1
<1>2. ASSUME c = [wl |-> c.wl, step |-> c.step, run |-> c.run],
             c.wl \in Workloads,
             c.step \in 1 .. Steps[c.wl],
             c.run \in 0 .. Runs(c.wl) - 1
      PROVE  c \in Cell
  <2>1. c \in [wl : {c.wl}, step : 1 .. Steps[c.wl],
               run : 0 .. Runs(c.wl) - 1]
    BY <1>2
  <2> QED BY <2>1, <1>2 DEF Cell
<1> QED BY <1>1, <1>2

(* The number of steps of a workload is positive, and so is the number of  *)
(* repetitions.                                                            *)
LEMMA RunsPositive ==
  ASSUME NEW w \in Workloads
  PROVE  Steps[w] \in Nat \ {0} /\ Runs(w) \in Nat \ {0}
BY ScheduleAssumption DEF Runs

LEMMA FirstCellIsFirst ==
  ASSUME NEW w \in Workloads
  PROVE  /\ FirstCell(w) \in Cell
         /\ \A d \in Cell : d.wl = w => ~ Precedes(d, FirstCell(w))
<1>1. FirstCell(w) \in Cell
  BY RunsPositive, CellFields DEF FirstCell
<1>2. ASSUME NEW d \in Cell, d.wl = w PROVE ~ Precedes(d, FirstCell(w))
  <2>1. d.wl \in Int /\ d.step \in 1 .. Steps[w] /\ d.run \in 0 .. Runs(w) - 1
    BY <1>2, CellFields, RunsPositive DEF Workloads
  <2> QED BY <2>1, <1>2, RunsPositive DEF Precedes, FirstCell
<1> QED BY <1>1, <1>2

(* The loops go to the immediate successor: nothing of the workload lies   *)
(* between a cell and the next.                                            *)
LEMMA NextCellIsNext ==
  ASSUME NEW c \in Cell, ~ IsLastCell(c)
  PROVE  /\ NextCell(c) \in Cell
         /\ NextCell(c).wl = c.wl
         /\ Precedes(c, NextCell(c))
         /\ \A d \in Cell : d.wl = c.wl /\ Precedes(d, NextCell(c))
                              => d = c \/ Precedes(d, c)
<1> DEFINE n == NextCell(c)
<1>1. /\ c = [wl |-> c.wl, step |-> c.step, run |-> c.run]
      /\ c.wl \in Workloads /\ c.wl \in Int
      /\ c.step \in 1 .. Steps[c.wl] /\ c.run \in 0 .. Runs(c.wl) - 1
  BY CellFields DEF Workloads
<1>2. Steps[c.wl] \in Nat \ {0} /\ Runs(c.wl) \in Nat \ {0}
  BY <1>1, RunsPositive
<1>3. /\ n = [wl |-> n.wl, step |-> n.step, run |-> n.run]
      /\ n.wl = c.wl
      /\ \/ n.step = c.step /\ n.run = c.run + 1 /\ c.run + 1 < Runs(c.wl)
         \/ n.step = c.step + 1 /\ n.run = 0 /\ ~(c.run + 1 < Runs(c.wl))
  BY <1>1 DEF NextCell
<1>4. n.step \in 1 .. Steps[c.wl] /\ n.run \in 0 .. Runs(c.wl) - 1
  BY <1>1, <1>2, <1>3 DEF IsLastCell
<1>5. n \in Cell
  BY <1>1, <1>3, <1>4, CellFields
<1>6. Precedes(c, n)
  BY <1>1, <1>3 DEF Precedes
<1>7. ASSUME NEW d \in Cell, d.wl = c.wl, Precedes(d, n)
      PROVE  d = c \/ Precedes(d, c)
  <2>1. /\ d = [wl |-> d.wl, step |-> d.step, run |-> d.run]
        /\ d.step \in 1 .. Steps[c.wl] /\ d.run \in 0 .. Runs(c.wl) - 1
    BY <1>7, CellFields
  <2>2. \/ d.step < c.step
        \/ d.step = c.step /\ d.run < c.run
        \/ d.step = c.step /\ d.run = c.run
    BY <1>7, <1>1, <1>2, <1>3, <2>1 DEF Precedes
  <2> QED BY <2>1, <2>2, <1>1, <1>7 DEF Precedes
<1> QED BY <1>3, <1>5, <1>6, <1>7

(* After the last cell of a workload there is no other.                    *)
LEMMA LastCellIsLast ==
  ASSUME NEW c \in Cell, IsLastCell(c), NEW d \in Cell, d.wl = c.wl
  PROVE  d = c \/ Precedes(d, c)
<1>1. /\ c = [wl |-> c.wl, step |-> c.step, run |-> c.run]
      /\ c.wl \in Workloads
      /\ c.step \in 1 .. Steps[c.wl] /\ c.run \in 0 .. Runs(c.wl) - 1
      /\ d = [wl |-> d.wl, step |-> d.step, run |-> d.run]
      /\ d.step \in 1 .. Steps[c.wl] /\ d.run \in 0 .. Runs(c.wl) - 1
  BY CellFields
<1>2. Steps[c.wl] \in Nat \ {0} /\ Runs(c.wl) \in Nat \ {0}
  BY <1>1, RunsPositive
<1> QED BY <1>1, <1>2 DEF Precedes, IsLastCell

LEMMA PrecedesTransitive ==
  ASSUME NEW c \in Cell, NEW d \in Cell, NEW f \in Cell,
         Precedes(c, d), Precedes(d, f)
  PROVE  Precedes(c, f)
<1>1. /\ c.wl \in Int /\ c.step \in Int /\ c.run \in Int
      /\ d.wl \in Int /\ d.step \in Int /\ d.run \in Int
      /\ f.wl \in Int /\ f.step \in Int /\ f.run \in Int
  BY CellFields, RunsPositive DEF Workloads
<1> QED BY <1>1 DEF Precedes

-----------------------------------------------------------------------------
(* One log, as a property of the sequence alone.                           *)
OrderedLog(l) == \A i, j \in DOMAIN l : i < j => Precedes(l[i].cell, l[j].cell)

GapFreeLog(l) ==
  \A i \in DOMAIN l : \A c \in Cell :
    c.wl = l[i].cell.wl /\ Precedes(c, l[i].cell)
      => \E j \in DOMAIN l : l[j].cell = c

(* Only the first line of a workload is ever spoiled.                      *)
SpoiledFirst(l) ==
  \A i \in DOMAIN l : l[i].whole \/ l[i].cell = FirstCell(l[i].cell.wl)

(* The cells of all lines, whether they parse or not.                      *)
Written(l) == { l[i].cell : i \in DOMAIN l }

LEMMA LastIsMaximal ==
  ASSUME NEW l \in Seq(Record), OrderedLog(l), NEW i \in DOMAIN l
  PROVE  /\ l[i].cell \in Cell /\ l[Len(l)].cell \in Cell
         /\ l[i].cell = l[Len(l)].cell \/ Precedes(l[i].cell, l[Len(l)].cell)
<1>1. Len(l) \in DOMAIN l /\ i \in Int /\ Len(l) \in Int
      /\ (i = Len(l) \/ i < Len(l))
  OBVIOUS
<1>2. l[i] \in Record /\ l[Len(l)] \in Record
  BY <1>1
<1> QED BY <1>1, <1>2 DEF OrderedLog, Record

(* The cell a log is extended by comes after all of its cells, and the     *)
(* earlier cells of its workload are already there.                        *)
LEMMA FollowingCell ==
  ASSUME NEW l \in Seq(Record), OrderedLog(l), GapFreeLog(l),
         NEW c \in Cell, CanFollow(l, c)
  PROVE  /\ \A i \in DOMAIN l : Precedes(l[i].cell, c)
         /\ \A d \in Cell : d.wl = c.wl /\ Precedes(d, c) =>
              \E j \in DOMAIN l : l[j].cell = d
<1> DEFINE last == l[Len(l)].cell
<1>1. CASE c = FirstCell(c.wl) /\ (l # <<>> => last.wl < c.wl)
  <2>1. ASSUME NEW i \in DOMAIN l PROVE Precedes(l[i].cell, c)
    <3>1. l # <<>>
      OBVIOUS
    <3>2. last.wl < c.wl
      BY <1>1, <3>1
    <3>3. l[i].cell = last \/ Precedes(l[i].cell, last)
      BY LastIsMaximal
    <3>4. l[i].cell.wl \in Int /\ last.wl \in Int /\ c.wl \in Int
      BY LastIsMaximal, CellFields DEF Workloads
    <3> QED BY <3>2, <3>3, <3>4 DEF Precedes
  <2>2. ASSUME NEW d \in Cell, d.wl = c.wl, Precedes(d, c) PROVE FALSE
    <3>1. c.wl \in Workloads
      BY CellFields
    <3> QED BY <1>1, <2>2, <3>1, FirstCellIsFirst
  <2> QED BY <2>1, <2>2
<1>2. CASE l # <<>> /\ ~ IsLastCell(last) /\ c = NextCell(last)
  <2>1. Len(l) \in DOMAIN l /\ last \in Cell
    <3>1. Len(l) \in DOMAIN l
      BY <1>2
    <3> QED BY <3>1, LastIsMaximal
  <2>2. /\ c.wl = last.wl /\ Precedes(last, c)
        /\ \A d \in Cell : d.wl = last.wl /\ Precedes(d, c)
                             => d = last \/ Precedes(d, last)
    BY <1>2, <2>1, NextCellIsNext
  <2>3. ASSUME NEW i \in DOMAIN l PROVE Precedes(l[i].cell, c)
    <3>1. /\ l[i].cell \in Cell
          /\ l[i].cell = last \/ Precedes(l[i].cell, last)
      BY LastIsMaximal
    <3> QED BY <3>1, <2>1, <2>2, PrecedesTransitive
  <2>4. ASSUME NEW d \in Cell, d.wl = c.wl, Precedes(d, c)
        PROVE  \E j \in DOMAIN l : l[j].cell = d
    <3>1. d = last \/ Precedes(d, last)
      BY <2>2, <2>4
    <3>2. CASE d = last
      BY <3>2, <2>1
    <3>3. CASE Precedes(d, last)
      BY <3>3, <2>1, <2>2, <2>4 DEF GapFreeLog
    <3> QED BY <3>1, <3>2, <3>3
  <2> QED BY <2>3, <2>4
<1> QED BY <1>1, <1>2 DEF CanFollow

LEMMA ExtendedLog ==
  ASSUME NEW l \in Seq(Record), OrderedLog(l), GapFreeLog(l),
         NEW rec \in Record, CanFollow(l, rec.cell)
  PROVE  OrderedLog(Append(l, rec)) /\ GapFreeLog(Append(l, rec))
<1> DEFINE m == Append(l, rec)
           c == rec.cell
<1>1. c \in Cell
  BY DEF Record
<1>2. /\ \A i \in DOMAIN l : Precedes(l[i].cell, c)
      /\ \A d \in Cell : d.wl = c.wl /\ Precedes(d, c) =>
           \E j \in DOMAIN l : l[j].cell = d
  BY <1>1, FollowingCell
<1>3. /\ Len(l) \in Nat
      /\ DOMAIN l = 1 .. Len(l) /\ DOMAIN m = 1 .. Len(l) + 1
      /\ \A i \in DOMAIN l : m[i] = l[i]
      /\ m[Len(l) + 1] = rec
  OBVIOUS
<1>4. ASSUME NEW i \in DOMAIN m, NEW j \in DOMAIN m, i < j
      PROVE  Precedes(m[i].cell, m[j].cell)
  <2>1. i \in DOMAIN l
    BY <1>3, <1>4
  <2>2. CASE j \in DOMAIN l
    BY <2>1, <2>2, <1>3, <1>4 DEF OrderedLog
  <2>3. CASE j = Len(l) + 1
    BY <2>1, <2>3, <1>2, <1>3
  <2> QED BY <1>3, <2>2, <2>3
<1>5. ASSUME NEW i \in DOMAIN m, NEW d \in Cell,
             d.wl = m[i].cell.wl, Precedes(d, m[i].cell)
      PROVE  \E j \in DOMAIN m : m[j].cell = d
  <2>1. \E j \in DOMAIN l : l[j].cell = d
    <3>1. CASE i \in DOMAIN l
      BY <3>1, <1>3, <1>5 DEF GapFreeLog
    <3>2. CASE i = Len(l) + 1
      BY <3>2, <1>2, <1>3, <1>5
    <3> QED BY <1>3, <3>1, <3>2
  <2> QED BY <2>1, <1>3
<1>6. OrderedLog(m)
  BY <1>4 DEF OrderedLog
<1>7. GapFreeLog(m)
  BY <1>5 DEF GapFreeLog
<1> QED BY <1>6, <1>7

-----------------------------------------------------------------------------
(* Which process may be running when.                                      *)
Scope ==
  /\ ppc \in {"plan", "spawn", "report", "done", "aborted"} => cpc = "none"
  /\ cpc # "none" => idx \in 1 .. Len(EngineOrder)
  /\ cpc # "none" \/ ppc \in {"plan", "spawn", "wait"} => ~ manifest.written

(* The log of the session in progress ends before workload n.              *)
EndsBefore(n) ==
  jsonl[Engine] # <<>> => jsonl[Engine][Len(jsonl[Engine])].cell.wl < n

(* Where the loops are agrees with where the log ends.                     *)
Position ==
  /\ cpc = "catalog" => jsonl[Engine] = <<>>
  /\ cpc = "setup" => EndsBefore(wl)
  /\ cpc \in {"measure", "run", "append"} =>
       /\ wl \in Applicable[Engine]
       /\ Current \in Cell
       /\ CanFollow(jsonl[Engine], Current)
       /\ torn[Engine] => Current = FirstCell(wl)
  /\ cpc = "cleanup" => wl \in Workloads /\ EndsBefore(wl + 1)

Inv == TypeOK /\ Scope /\ Position

(* The engine of a child that exists is one of Engines.                    *)
LEMMA EngineType ==
  ASSUME Inv, cpc # "none"
  PROVE  /\ Engine \in Engines
         /\ jsonl[Engine] \in Seq(Record)
         /\ Applicable[Engine] \subseteq Workloads
<1>1. EngineOrder \in Seq(Engines) /\ idx \in 1 .. Len(EngineOrder)
  BY BenchAssumption DEF Inv, Scope
<1>2. Engine \in Engines
  BY <1>1 DEF Engine
<1> QED BY <1>2, BenchAssumption DEF Inv, TypeOK

LEMMA LastRecord ==
  ASSUME NEW l \in Seq(Record), l # <<>>
  PROVE  /\ Len(l) \in DOMAIN l
         /\ l[Len(l)].cell \in Cell
         /\ l[Len(l)].cell.wl \in Workloads
<1>1. Len(l) \in DOMAIN l /\ l[Len(l)] \in Record
  OBVIOUS
<1>2. l[Len(l)].cell \in Cell
  BY <1>1 DEF Record
<1> QED BY <1>1, <1>2, CellFields

(* Abandoning or finishing a workload leaves the log before the next one.  *)
LEMMA FollowedWorkload ==
  ASSUME NEW l \in Seq(Record), NEW c \in Cell, CanFollow(l, c), l # <<>>
  PROVE  l[Len(l)].cell.wl < c.wl + 1
<1> DEFINE last == l[Len(l)].cell
<1>1. last \in Cell /\ last.wl \in Int /\ c.wl \in Int
  BY LastRecord, CellFields DEF Workloads
<1>2. CASE c = FirstCell(c.wl) /\ (l # <<>> => last.wl < c.wl)
  BY <1>1, <1>2
<1>3. CASE c = NextCell(last) /\ ~ IsLastCell(last)
  <2>1. last.wl = c.wl
    BY <1>1, <1>3, NextCellIsNext
  <2> QED BY <1>1, <2>1
<1> QED BY <1>2, <1>3 DEF CanFollow

(* What the loops do after a record was written.                           *)
LEMMA AfterRecord ==
  ASSUME NEW l \in Seq(Record), NEW rec \in Record
  PROVE  LET m == Append(l, rec)
         IN  /\ m \in Seq(Record) /\ m # <<>>
             /\ m[Len(m)] = rec
             /\ ~ IsLastCell(rec.cell) => CanFollow(m, NextCell(rec.cell))
<1> DEFINE m == Append(l, rec)
<1>1. m \in Seq(Record) /\ Len(m) = Len(l) + 1 /\ m[Len(l) + 1] = rec
  OBVIOUS
<1>2. m # <<>> /\ m[Len(m)] = rec
  BY <1>1
<1>3. ~ IsLastCell(rec.cell) => CanFollow(m, NextCell(rec.cell))
  BY <1>2 DEF CanFollow
<1> QED BY <1>1, <1>2, <1>3

LEMMA CurrentFields ==
  ASSUME TypeOK
  PROVE  Current.wl = wl /\ Current.step = step /\ Current.run = run /\ wl \in Int
BY ScheduleAssumption DEF Current, TypeOK

-----------------------------------------------------------------------------
LEMMA InitInv == Init => Inv
<1>1. 1 \in 1 .. Len(EngineOrder) + 1 /\ 1 \in 1 .. NumWorkloads + 1
  BY BenchAssumption, ScheduleAssumption
<1>2. Init => TypeOK
  <2> SUFFICES ASSUME Init PROVE TypeOK
    OBVIOUS
  <2>1. jsonl \in [Engines -> Seq(Record)] /\ finished \in [Engines -> SUBSET Cell]
        /\ abandoned \in [Engines -> SUBSET Workloads]
    BY DEF Init
  <2>2. manifest \in [written : BOOLEAN, versions : SUBSET Engines]
    BY DEF Init
  <2> QED BY <1>1, <2>1, <2>2 DEF Init, TypeOK, ParentPcs, ChildPcs
<1>3. Init => Scope /\ Position
  BY DEF Init, Scope, Position
<1> QED BY <1>2, <1>3 DEF Inv

(* The parent's steps touch neither the loops nor the logs.                *)
LEMMA ParentKeepsInv ==
  ASSUME Inv, ParentStep \/ ParentKilled
  PROVE  Inv'
<1> USE DEF Inv, TypeOK, Scope, Position, EndsBefore, Engine, Current,
            ParentPcs, ChildPcs, RunningPcs, SessionPcs,
            loopVars, diskVars, historyVars
<1>0. Len(EngineOrder) \in Nat
  BY BenchAssumption
<1>1. CASE Plan
  BY <1>1 DEF Plan
<1>2. CASE Spawn
  BY <1>0, <1>2 DEF Spawn
<1>3. CASE SpawnFails
  BY <1>0, <1>3 DEF SpawnFails
<1>4. CASE Reap
  BY <1>0, <1>4 DEF Reap
<1>5. CASE Merge
  BY <1>5 DEF Merge
<1>6. CASE EmitReport
  BY <1>6 DEF EmitReport
<1>7. CASE ParentKilled
  BY <1>7 DEF ParentKilled
<1> QED BY <1>1, <1>2, <1>3, <1>4, <1>5, <1>6, <1>7 DEF ParentStep

(* Leaving a workload early: the log ends before the next one.             *)
LEMMA AbandonKeepsInv ==
  ASSUME Inv, Abandon, UNCHANGED jsonl, torn' \in [Engines -> BOOLEAN],
         residue' \subseteq Workloads,
         \/ cpc \in {"measure", "run", "append", "cleanup"}
         \/ cpc = "setup" /\ wl \in Applicable[Engine]
  PROVE  Inv'
<1>1. /\ Engine \in Engines /\ jsonl[Engine] \in Seq(Record)
      /\ Applicable[Engine] \subseteq Workloads
  BY EngineType
<1>2. wl \in Workloads /\ wl \in Int /\ NumWorkloads \in Nat
  BY <1>1, ScheduleAssumption DEF Inv, Position, Workloads
<1>3. EndsBefore(wl + 1)
  <2>1. CASE cpc \in {"measure", "run", "append"}
    BY <1>1, <2>1, FollowedWorkload, CurrentFields DEF Inv, Position, EndsBefore
  <2>2. CASE cpc = "setup"
    <3>1. jsonl[Engine] # <<>> => jsonl[Engine][Len(jsonl[Engine])].cell.wl \in Int
      BY <1>1, LastRecord DEF Workloads
    <3> QED BY <1>2, <2>2, <3>1 DEF Inv, Position, EndsBefore
  <2>3. CASE cpc = "cleanup"
    BY <2>3 DEF Inv, Position
  <2> QED BY <2>1, <2>2, <2>3
<1>4. Engine' = Engine
  BY DEF Abandon, parentVars, Engine
<1>5. TypeOK'
  <2>1. abandoned' \in [Engines -> SUBSET Workloads]
    BY <1>1, <1>2 DEF Abandon, Inv, TypeOK
  <2>2. wl' \in 1 .. NumWorkloads + 1
    BY <1>2 DEF Abandon, Workloads
  <2> QED BY <2>1, <2>2 DEF Abandon, Inv, TypeOK, ChildPcs, RunningPcs,
                            SessionPcs, parentVars
<1>6. Scope'
  BY DEF Abandon, Inv, Scope, parentVars
<1>7. Position'
  BY <1>3, <1>4 DEF Abandon, Position, EndsBefore
<1> QED BY <1>5, <1>6, <1>7 DEF Inv

(* The steps before the first log entry and after the last.                *)
LEMMA QuietStepKeepsInv ==
  ASSUME Inv,
         \/ Refuse \/ StartRaises \/ StartEngine \/ LeaveLoop \/ StopEngine
         \/ WriteFragment \/ ChildKilled \/ EngineDies
  PROVE  Inv'
<1>1. cpc # "none" /\ Engine \in Engines
  <2>1. cpc # "none"
    BY DEF Refuse, StartRaises, StartEngine, LeaveLoop, StopEngine,
           WriteFragment, ChildKilled, EngineDies, RunningPcs, SessionPcs
  <2> QED BY <2>1, EngineType
<1> USE <1>1 DEF Inv, TypeOK, Scope, Position, EndsBefore, Engine, Current,
                 ChildPcs, RunningPcs, SessionPcs,
                 parentVars, loopVars, diskVars, historyVars
<1>2. CASE Refuse
  BY <1>2 DEF Refuse
<1>3. CASE StartRaises
  BY <1>3 DEF StartRaises
<1>4. CASE StartEngine
  BY <1>4 DEF StartEngine
<1>5. CASE LeaveLoop
  BY <1>5 DEF LeaveLoop
<1>6. CASE StopEngine
  BY <1>6 DEF StopEngine
<1>7. CASE WriteFragment
  BY <1>7 DEF WriteFragment
<1>8. CASE ChildKilled
  BY <1>8 DEF ChildKilled
<1>9. CASE EngineDies
  BY <1>9 DEF EngineDies
<1> QED BY <1>2, <1>3, <1>4, <1>5, <1>6, <1>7, <1>8, <1>9

(* The steps up to the first measurement of a workload, and its cleanup.   *)
LEMMA OutsideMeasuringKeepsInv ==
  ASSUME Inv,
         \/ OpenLog \/ RegisterCatalog \/ SkipWorkload \/ Setup \/ Cleanup
  PROVE  Inv'
<1>1. cpc # "none"
  BY DEF OpenLog, RegisterCatalog, SkipWorkload, Setup, Cleanup
<1>2. /\ Engine \in Engines /\ jsonl[Engine] \in Seq(Record)
      /\ Applicable[Engine] \subseteq Workloads
  BY <1>1, EngineType
<1>3. NumWorkloads \in Nat /\ 1 \in 1 .. NumWorkloads + 1
  BY ScheduleAssumption
<1>4. jsonl[Engine] # <<>> => jsonl[Engine][Len(jsonl[Engine])].cell.wl \in Int
  BY <1>2, LastRecord DEF Workloads
<1> USE DEF Inv, Scope, ChildPcs, RunningPcs, SessionPcs,
            parentVars, loopVars, diskVars, historyVars
<1>5. CASE OpenLog
  <2>1. Engine' = Engine
    BY <1>5 DEF OpenLog, Engine
  <2>2. TypeOK'
    BY <1>2, <1>5 DEF OpenLog, TypeOK
  <2>3. Position' /\ Scope'
    BY <1>2, <1>5, <2>1 DEF OpenLog, Position, TypeOK
  <2> QED BY <2>2, <2>3
<1>6. CASE RegisterCatalog
  <2>1. Engine' = Engine
    BY <1>6 DEF RegisterCatalog, Engine
  <2>2. TypeOK'
    BY <1>3, <1>6 DEF RegisterCatalog, TypeOK
  <2>3. Position' /\ Scope'
    BY <1>6, <2>1 DEF RegisterCatalog, Position, EndsBefore
  <2> QED BY <2>2, <2>3
<1>7. CASE SkipWorkload
  <2>1. Engine' = Engine
    BY <1>7 DEF SkipWorkload, Engine
  <2>2. TypeOK'
    BY <1>3, <1>7 DEF SkipWorkload, TypeOK, Workloads
  <2>3. Position' /\ Scope'
    BY <1>4, <1>7, <2>1 DEF SkipWorkload, Position, EndsBefore, Workloads
  <2> QED BY <2>2, <2>3
<1>8. CASE Setup
  <2>1. Engine' = Engine /\ wl \in Workloads
    BY <1>2, <1>8 DEF Setup, Engine
  <2>2. TypeOK'
    BY <1>8, <2>1 DEF Setup, TypeOK
  <2>3. Current' = FirstCell(wl)
    BY <1>8 DEF Setup, Current, FirstCell
  <2>4. FirstCell(wl) \in Cell /\ FirstCell(wl).wl = wl
    BY <2>1, FirstCellIsFirst DEF FirstCell
  <2>5. CanFollow(jsonl[Engine], FirstCell(wl))
    BY <1>8, <2>4 DEF Setup, CanFollow, Position, EndsBefore
  <2>6. Position' /\ Scope'
    BY <1>8, <2>1, <2>3, <2>4, <2>5 DEF Setup, Position
  <2> QED BY <2>2, <2>6
<1>9. CASE Cleanup
  <2>1. Engine' = Engine
    BY <1>9 DEF Cleanup, Engine
  <2>2. wl \in Workloads
    BY <1>9 DEF Cleanup, Position
  <2>3. TypeOK'
    BY <1>3, <1>9, <2>2 DEF Cleanup, TypeOK, Workloads
  <2>4. Position' /\ Scope'
    BY <1>9, <2>1 DEF Cleanup, Position, EndsBefore
  <2> QED BY <2>3, <2>4
<1> QED BY <1>5, <1>6, <1>7, <1>8, <1>9

(* Measuring: the purge and the step leave the loops where they are.       *)
LEMMA MeasuringKeepsInv ==
  ASSUME Inv, Purge \/ NoPurge \/ RunStep
  PROVE  Inv'
<1>1. cpc \in {"measure", "run"} /\ Engine \in Engines
  <2>1. cpc \in {"measure", "run"}
    BY DEF Purge, NoPurge, RunStep
  <2> QED BY <2>1, EngineType
<1>2. Engine' = Engine /\ Current' = Current /\ UNCHANGED <<jsonl, torn, wl>>
      /\ cpc' \in {"run", "append"}
  BY DEF Purge, NoPurge, RunStep, Engine, Current, parentVars, loopVars, diskVars
<1>3. Position'
  BY <1>1, <1>2 DEF Inv, Position
<1>4. Scope'
  BY <1>1, <1>2 DEF Purge, NoPurge, RunStep, Inv, Scope, parentVars
<1>5. TypeOK'
  <2>1. CASE Purge \/ NoPurge
    BY <2>1 DEF Purge, NoPurge, Inv, TypeOK, ChildPcs, RunningPcs, SessionPcs,
                parentVars, loopVars, diskVars, historyVars
  <2>2. CASE RunStep
    <3>1. Current \in Cell
      BY <2>2 DEF RunStep, Inv, Position
    <3>2. finished' \in [Engines -> SUBSET Cell]
      BY <1>1, <2>2, <3>1 DEF RunStep, Inv, TypeOK
    <3> QED BY <2>2, <3>2 DEF RunStep, Inv, TypeOK, ChildPcs, RunningPcs,
                              SessionPcs, parentVars, loopVars, diskVars
  <2> QED BY <2>1, <2>2
<1> QED BY <1>3, <1>4, <1>5 DEF Inv

(* The record that is appended.                                            *)
Line == [cell |-> Current, cold |-> IsCold(Current), verified |-> verified,
         ok |-> ok, whole |-> ~ torn[Engine]]

LEMMA AppendKeepsInv ==
  ASSUME Inv, AppendRecord
  PROVE  Inv'
<1>1. cpc = "append" /\ Current \in Cell /\ wl \in Applicable[Engine]
  BY DEF AppendRecord, Inv, Position
<1>2. /\ Engine \in Engines /\ jsonl[Engine] \in Seq(Record)
      /\ Applicable[Engine] \subseteq Workloads
      /\ jsonl \in [Engines -> Seq(Record)]
  BY <1>1, EngineType DEF Inv, TypeOK
<1>3. Line \in Record /\ Line.cell = Current
  BY <1>1 DEF Line, Record, IsCold, Inv, TypeOK
<1>4. Engine' = Engine /\ wl' = wl
      /\ jsonl' = [jsonl EXCEPT ![Engine] = Append(@, Line)]
  BY DEF AppendRecord, Engine, Line, parentVars
<1>5. /\ jsonl'[Engine] \in Seq(Record)
      /\ jsonl'[Engine] # <<>>
      /\ jsonl'[Engine][Len(jsonl'[Engine])] = Line
      /\ ~ IsLastCell(Current) => CanFollow(jsonl'[Engine], NextCell(Current))
  BY <1>2, <1>3, <1>4, AfterRecord
<1>6. wl \in Workloads /\ wl \in Int /\ Current.wl = wl
  BY <1>1, <1>2, CurrentFields DEF Inv, Workloads
<1>7. CASE IsLastCell(Current)
  <2>1. cpc' = "cleanup" /\ step' = step /\ run' = run
    BY <1>7 DEF AppendRecord, Advance
  <2>2. Position'
    BY <1>3, <1>4, <1>5, <1>6, <2>1 DEF Position, EndsBefore
  <2>3. TypeOK' /\ Scope'
    BY <1>1, <1>2, <1>4, <1>5, <2>1 DEF AppendRecord, Inv, TypeOK, Scope, ChildPcs,
       RunningPcs, SessionPcs, parentVars, historyVars
  <2> QED BY <2>2, <2>3 DEF Inv
<1>8. CASE ~ IsLastCell(Current)
  <2>1. /\ cpc' = "measure"
        /\ step' = NextCell(Current).step /\ run' = NextCell(Current).run
    BY <1>8 DEF AppendRecord, Advance
  <2>2. NextCell(Current) \in Cell /\ NextCell(Current).wl = wl
    BY <1>1, <1>6, <1>8, NextCellIsNext
  <2>3. Current' = NextCell(Current)
    BY <1>4, <2>1, <2>2, CellFields DEF Current
  <2>4. step' \in Nat /\ run' \in Nat
    BY <1>6, <2>1, <2>2, CellFields, RunsPositive
  <2>5. Position'
    <3>1. ~ torn'[Engine]
      BY <1>2 DEF AppendRecord, Inv, TypeOK
    <3> QED BY <1>1, <1>4, <1>5, <1>8, <2>1, <2>2, <2>3, <3>1 DEF Position
  <2>6. TypeOK' /\ Scope'
    BY <1>1, <1>2, <1>4, <1>5, <2>1, <2>4 DEF AppendRecord, Inv, TypeOK, Scope,
       ChildPcs, RunningPcs, SessionPcs, parentVars, historyVars
  <2> QED BY <2>5, <2>6 DEF Inv
<1> QED BY <1>7, <1>8

LEMMA NextKeepsInv ==
  ASSUME Inv, [Next]_vars
  PROVE  Inv'
<1>1. CASE ParentStep \/ ParentKilled
  BY <1>1, ParentKeepsInv
<1>2. CASE \/ Refuse \/ StartRaises \/ StartEngine \/ LeaveLoop \/ StopEngine
           \/ WriteFragment \/ ChildKilled \/ EngineDies
  BY <1>2, QuietStepKeepsInv
<1>3. CASE OpenLog \/ RegisterCatalog \/ SkipWorkload \/ Setup \/ Cleanup
  BY <1>3, OutsideMeasuringKeepsInv
<1>4. CASE Purge \/ NoPurge \/ RunStep
  BY <1>4, MeasuringKeepsInv
<1>5. CASE AppendRecord
  BY <1>5, AppendKeepsInv
<1>6. CASE SetupFails \/ AppendFails \/ WorkloadRaises
  <2>1. /\ Abandon /\ UNCHANGED jsonl
        /\ \/ cpc \in {"measure", "run", "append", "cleanup"}
           \/ cpc = "setup" /\ wl \in Applicable[Engine]
    BY <1>6 DEF SetupFails, AppendFails, WorkloadRaises
  <2>2. Engine \in Engines /\ Applicable[Engine] \subseteq Workloads
    BY <2>1, EngineType
  <2>3. torn' \in [Engines -> BOOLEAN]
    BY <1>6, <2>2 DEF SetupFails, AppendFails, WorkloadRaises, Inv, TypeOK
  <2>4. residue' \subseteq Workloads
    BY <1>6, <2>2 DEF SetupFails, AppendFails, WorkloadRaises, Inv, TypeOK
  <2> QED BY <2>1, <2>3, <2>4, AbandonKeepsInv
<1>7. CASE UNCHANGED vars
  BY <1>7 DEF vars, parentVars, loopVars, diskVars, historyVars, Inv, TypeOK,
              Scope, Position, EndsBefore, Engine, Current
<1> QED BY <1>1, <1>2, <1>3, <1>4, <1>5, <1>6, <1>7
        DEF Next, EngineStep, HarnessStep, Failure

LEMMA InvHolds == Spec => []Inv
<1> QED BY InitInv, NextKeepsInv, PTL DEF Spec

(* The variables of every run keep their types.                            *)
THEOREM TypeCorrect == Spec => []TypeOK
<1>1. Inv => TypeOK
  BY DEF Inv
<1> QED BY <1>1, InvHolds, PTL

-----------------------------------------------------------------------------
(* The abstract state.                                                     *)
Open == IF cpc \in SessionPcs THEN {Engine} ELSE {}

Vouched == { e \in Engines : frag[e] = "whole" }

(* RunLog's operators on cells are those of this module.                   *)
LEMMA SameSchedule ==
  /\ RL!Record = Record
  /\ \A l, c : RL!CanFollow(l, c) <=> CanFollow(l, c)
<1>1. RL!Record = Record
  BY DEF RL!Record, Record, RL!Cell, Cell, RL!Workloads, Workloads, RL!Runs, Runs
<1>2. \A c : RL!FirstCell(c) = FirstCell(c)
  BY DEF RL!FirstCell, FirstCell
<1>3. \A c : RL!IsLastCell(c) <=> IsLastCell(c)
  BY DEF RL!IsLastCell, IsLastCell, RL!Runs, Runs
<1>4. \A c : RL!NextCell(c) = NextCell(c)
  BY DEF RL!NextCell, NextCell, RL!Runs, Runs
<1>5. \A l, c : RL!CanFollow(l, c) <=> CanFollow(l, c)
  BY <1>2, <1>3, <1>4 DEF RL!CanFollow, CanFollow
<1> QED BY <1>1, <1>5

LEMMA InitImplements == Init => RL!Init
BY DEF Init, RL!Init, SessionPcs

(* Steps that are invisible to the abstract log.                           *)
LEMMA StutterImplements ==
  ASSUME UNCHANGED <<jsonl, frag, manifest>>, Open' = Open
  PROVE  UNCHANGED RL!logVars
BY DEF RL!logVars, Open

LEMMA ParentImplements ==
  ASSUME Inv, ParentStep \/ ParentKilled
  PROVE  [RL!Next]_(RL!logVars)
<1>1. CASE Merge
  <2>1. cpc = "none" /\ ~ manifest.written
    BY <1>1 DEF Merge, Inv, Scope
  <2>2. RL!Publish
    BY <1>1, <2>1 DEF Merge, RL!Publish, SessionPcs, RunningPcs, diskVars
  <2> QED BY <2>2 DEF RL!Next
<1>2. CASE ~ Merge
  <2>1. UNCHANGED <<jsonl, frag, manifest>>
    BY <1>2 DEF ParentStep, Plan, Spawn, SpawnFails, Reap, EmitReport,
                ParentKilled, diskVars
  <2>2. Open' = Open
    <3>1. CASE Spawn \/ SpawnFails \/ Reap
      BY <3>1 DEF Spawn, SpawnFails, Reap, Open, SessionPcs, Inv, Scope
    <3>2. CASE Plan \/ EmitReport \/ ParentKilled
      BY <3>2 DEF Plan, EmitReport, ParentKilled, Open, Engine
    <3> QED BY <1>2, <3>1, <3>2 DEF ParentStep
  <2> QED BY <2>1, <2>2, StutterImplements
<1> QED BY <1>1, <1>2

LEMMA SessionEndImplements ==
  ASSUME Inv, cpc \in SessionPcs, cpc' \in {"exited", "killed"},
         UNCHANGED <<jsonl, manifest>>,
         \/ frag' = frag
         \/ \E f \in {"whole", "torn"} : frag' = [frag EXCEPT ![Engine] = f]
  PROVE  RL!Next
<1>1. Engine \in Engines /\ frag \in [Engines -> {"none", "torn", "whole"}]
  BY EngineType DEF SessionPcs, Inv, TypeOK
<1>2. Vouched' \in {Vouched, Vouched \union {Engine}, Vouched \ {Engine}}
  <2>1. CASE frag' = frag
    BY <2>1 DEF Vouched
  <2>2. CASE frag' = [frag EXCEPT ![Engine] = "whole"]
    <3>1. Vouched' = Vouched \union {Engine}
      BY <1>1, <2>2 DEF Vouched
    <3> QED BY <3>1
  <2>3. CASE frag' = [frag EXCEPT ![Engine] = "torn"]
    <3>1. Vouched' = Vouched \ {Engine}
      BY <1>1, <2>3 DEF Vouched
    <3> QED BY <3>1
  <2> QED BY <2>1, <2>2, <2>3
<1>3. PICK e \in Engines : e = Engine
  BY <1>1
<1>4. RL!End(e)
  BY <1>2, <1>3 DEF RL!End, SessionPcs, Vouched
<1> QED BY <1>4 DEF RL!Next

LEMMA ChildImplements ==
  ASSUME Inv, EngineStep \/ HarnessStep \/ WorkloadRaises \/ ChildKilled \/ EngineDies
  PROVE  [RL!Next]_(RL!logVars)
<1>1. CASE OpenLog
  <2>1. Engine \in Engines /\ ~ manifest.written /\ Engine' = Engine
    BY <1>1, EngineType DEF OpenLog, Inv, Scope, Engine, parentVars
  <2>2. RL!Begin(Engine)
    BY <1>1, <2>1 DEF OpenLog, RL!Begin, SessionPcs, parentVars
  <2> QED BY <2>1, <2>2 DEF RL!Next
<1>2. CASE AppendRecord
  <2>1. /\ cpc = "append" /\ Engine \in Engines /\ Engine' = Engine
        /\ CanFollow(jsonl[Engine], Current) /\ Current \in Cell
    BY <1>2, EngineType DEF AppendRecord, Inv, Position, Engine, parentVars
  <2>2. Line \in Record /\ Line.cell = Current
    BY <2>1 DEF Line, Record, IsCold, Inv, TypeOK
  <2>3. cpc' \in SessionPcs /\ cpc \in SessionPcs
    BY <1>2, <2>1 DEF AppendRecord, Advance, SessionPcs
  <2>4. RL!CanFollow(jsonl[Engine], Line.cell) /\ Line \in RL!Record
    BY <2>1, <2>2, SameSchedule
  <2>8. Line.whole \/ Line.cell = RL!FirstCell(Line.cell.wl)
    <3>1. torn[Engine] => Current = FirstCell(wl)
      BY <2>1 DEF Inv, Position
    <3>2. Current.wl = wl /\ RL!FirstCell(wl) = FirstCell(wl) /\ torn[Engine] \in BOOLEAN
      BY <2>1, CurrentFields DEF Inv, TypeOK, RL!FirstCell, FirstCell
    <3>3. Line.whole = ~ torn[Engine] /\ Line.cell = Current
      BY DEF Line
    <3> QED BY <3>1, <3>2, <3>3
  <2>5. /\ jsonl' = [jsonl EXCEPT ![Engine] = Append(@, Line)]
        /\ UNCHANGED <<frag, manifest>>
    BY <1>2 DEF AppendRecord, Line, parentVars
  <2>6. RL!Measure(Engine, Line)
    BY <2>1, <2>3, <2>4, <2>5, <2>8 DEF RL!Measure
  <2>7. \E e \in Engines, rec \in RL!Record : RL!Measure(e, rec)
    BY <2>1, <2>4, <2>6
  <2> QED BY <2>7 DEF RL!Next
<1>3. CASE WriteFragment
  BY <1>3, SessionEndImplements DEF WriteFragment, SessionPcs, parentVars
<1>4. CASE ChildKilled
  <2>1. CASE cpc \in SessionPcs
    BY <1>4, <2>1, SessionEndImplements DEF ChildKilled, parentVars
  <2>2. CASE cpc \notin SessionPcs
    BY <1>4, <2>2, StutterImplements DEF ChildKilled, Open, SessionPcs, parentVars
  <2> QED BY <2>1, <2>2
<1>5. CASE Refuse \/ StartRaises \/ StartEngine
  BY <1>5, StutterImplements DEF Refuse, StartRaises, StartEngine, Open,
     SessionPcs, parentVars, diskVars
<1>6. CASE \/ RegisterCatalog \/ SkipWorkload \/ Setup \/ Cleanup \/ LeaveLoop
           \/ StopEngine \/ Purge \/ NoPurge \/ RunStep
  <2>1. /\ UNCHANGED <<jsonl, frag, manifest>> /\ Engine' = Engine
        /\ cpc \in SessionPcs /\ cpc' \in SessionPcs
    BY <1>6 DEF RegisterCatalog, SkipWorkload, Setup, Cleanup, LeaveLoop, StopEngine,
       Purge, NoPurge, RunStep, Engine, SessionPcs, parentVars, diskVars
  <2> QED BY <2>1, StutterImplements DEF Open
<1>7. CASE SetupFails \/ AppendFails \/ WorkloadRaises
  <2>1. /\ UNCHANGED <<jsonl, frag, manifest>> /\ Engine' = Engine
        /\ cpc \in SessionPcs /\ cpc' \in SessionPcs
    BY <1>7 DEF SetupFails, AppendFails, WorkloadRaises, Abandon, Engine,
       SessionPcs, parentVars
  <2> QED BY <2>1, StutterImplements DEF Open
<1>8. CASE EngineDies
  BY <1>8, StutterImplements DEF EngineDies, Open, Engine, parentVars, diskVars
<1> QED BY <1>1, <1>2, <1>3, <1>4, <1>5, <1>6, <1>7, <1>8
        DEF EngineStep, HarnessStep

LEMMA NextImplements ==
  ASSUME Inv, [Next]_vars
  PROVE  [RL!Next]_(RL!logVars)
<1>1. CASE UNCHANGED vars
  BY <1>1, StutterImplements DEF vars, parentVars, diskVars, Open, Engine
<1>2. CASE Next
  BY <1>2, ParentImplements, ChildImplements DEF Next, Failure
<1> QED BY <1>1, <1>2

(* A run implements RunLog: whatever crashes, its logs grow in schedule    *)
(* order, one engine at a time, and do not change once they are published. *)
THEOREM RunImplementsRunLog == Spec => RunLogSpec
<1>1. Init => RL!Init
  BY InitImplements
<1>2. Inv /\ [Next]_vars => [RL!Next]_(RL!logVars)
  BY NextImplements
<1> QED BY <1>1, <1>2, InvHolds, PTL DEF Spec, RunLogSpec, RL!Spec

-----------------------------------------------------------------------------
LogsLegal == /\ jsonl \in [Engines -> Seq(Record)]
             /\ \A e \in Engines : /\ OrderedLog(jsonl[e]) /\ GapFreeLog(jsonl[e])
                                  /\ SpoiledFirst(jsonl[e])

(* What the abstract log may do to the logs: nothing, start one afresh, or *)
(* append a cell that can follow.                                          *)
LEMMA AbstractStepKeepsLogsLegal ==
  ASSUME LogsLegal, [RL!Next]_(RL!logVars)
  PROVE  LogsLegal'
<1>1. ASSUME NEW e \in Engines, RL!Begin(e) PROVE LogsLegal'
  <2>1. jsonl' = [jsonl EXCEPT ![e] = <<>>]
    BY <1>1 DEF RL!Begin
  <2>2. OrderedLog(<<>>) /\ GapFreeLog(<<>>) /\ SpoiledFirst(<<>>)
    BY DEF OrderedLog, GapFreeLog, SpoiledFirst
  <2> QED BY <2>1, <2>2 DEF LogsLegal
<1>2. ASSUME NEW e \in Engines, NEW rec \in RL!Record, RL!Measure(e, rec)
      PROVE  LogsLegal'
  <2>1. /\ rec \in Record /\ CanFollow(jsonl[e], rec.cell)
        /\ rec.whole \/ rec.cell = FirstCell(rec.cell.wl)
        /\ jsonl' = [jsonl EXCEPT ![e] = Append(@, rec)]
    BY <1>2, SameSchedule DEF RL!Measure, RL!FirstCell, FirstCell
  <2>2. /\ jsonl[e] \in Seq(Record) /\ OrderedLog(jsonl[e]) /\ GapFreeLog(jsonl[e])
        /\ SpoiledFirst(jsonl[e])
    BY DEF LogsLegal
  <2>3. OrderedLog(Append(jsonl[e], rec)) /\ GapFreeLog(Append(jsonl[e], rec))
    BY <2>1, <2>2, ExtendedLog
  <2>4. Append(jsonl[e], rec) \in Seq(Record)
    BY <2>1, <2>2
  <2>5. SpoiledFirst(Append(jsonl[e], rec))
    BY <2>1, <2>2 DEF SpoiledFirst
  <2> QED BY <2>1, <2>3, <2>4, <2>5 DEF LogsLegal
<1>3. CASE UNCHANGED jsonl
  BY <1>3 DEF LogsLegal
<1> QED BY <1>1, <1>2, <1>3 DEF RL!Next, RL!End, RL!Publish, RL!logVars

LEMMA AbstractLogsStayLegal == RL!Spec => []LogsLegal
<1>1. RL!Init => LogsLegal
  BY DEF RL!Init, LogsLegal, OrderedLog, GapFreeLog, SpoiledFirst
<1>2. LogsLegal /\ [RL!Next]_(RL!logVars) => LogsLegal'
  BY AbstractStepKeepsLogsLegal
<1> QED BY <1>1, <1>2, PTL DEF RL!Spec

LEMMA LegalIsInOrder == LogsLegal => InOrder /\ GapFree
<1>1. LogsLegal => InOrder
  BY DEF LogsLegal, OrderedLog, InOrder, RL!InOrder, Precedes, RL!Precedes
<1>2. RL!Cell = Cell
  BY DEF RL!Cell, Cell, RL!Workloads, Workloads, RL!Runs, Runs
<1>3. ASSUME LogsLegal, NEW e \in Engines, NEW i \in DOMAIN jsonl[e], NEW c \in Cell,
             c.wl = jsonl[e][i].cell.wl, Precedes(c, jsonl[e][i].cell)
      PROVE  \E j \in DOMAIN jsonl[e] :
               /\ jsonl[e][j].cell = c
               /\ jsonl[e][j].whole \/ c = FirstCell(c.wl)
  <2>1. PICK j \in DOMAIN jsonl[e] : jsonl[e][j].cell = c
    BY <1>3 DEF LogsLegal, GapFreeLog
  <2> QED BY <1>3, <2>1 DEF LogsLegal, SpoiledFirst
<1>4. LogsLegal => GapFree
  BY <1>2, <1>3 DEF GapFree, RL!GapFree, Precedes, RL!Precedes, FirstCell, RL!FirstCell
<1> QED BY <1>1, <1>4

(* Every behaviour of the abstract log keeps each log in schedule order.   *)
THEOREM RunLogInOrder == RunLogSpec => []InOrder
<1> QED BY AbstractLogsStayLegal, LegalIsInOrder, PTL DEF RunLogSpec

(* Every behaviour of the abstract log keeps each log free of gaps.        *)
THEOREM RunLogGapFree == RunLogSpec => []GapFree
<1> QED BY AbstractLogsStayLegal, LegalIsInOrder, PTL DEF RunLogSpec

(* What holds of the abstract log holds of the run that implements it.     *)
LEMMA LogsStayLegal == Spec => [](Inv /\ LogsLegal)
<1> QED BY RunImplementsRunLog, AbstractLogsStayLegal, InvHolds, PTL DEF RunLogSpec

(* No log holds a measurement twice or out of order.                       *)
THEOREM LogsInOrder == Spec => []InOrder
<1> QED BY RunImplementsRunLog, RunLogInOrder, PTL

(* No log skips a measurement within a workload.                           *)
THEOREM LogsGapFree == Spec => []GapFree
<1> QED BY RunImplementsRunLog, RunLogGapFree, PTL

-----------------------------------------------------------------------------
(* What the session has finished lies before where its loops are, so that  *)
(* only the measurement in hand can be missing from a log that is still    *)
(* being written.                                                          *)
FinishedBelow(n) == \A c \in finished[Engine] : c.wl < n

(* A finished measurement without a line is the last its workload finished. *)
LastOrUnwritten ==
  \A e \in Engines : \A c \in finished[e] \ Written(jsonl[e]) :
    \A d \in finished[e] : d.wl = c.wl => d = c \/ Precedes(d, c)

Losses ==
  /\ LastOrUnwritten
  /\ cpc = "catalog" => finished[Engine] = {}
  /\ cpc = "setup" => FinishedBelow(wl)
  /\ cpc \in {"measure", "run"} =>
       \A c \in finished[Engine] : Precedes(c, Current)
  /\ cpc = "append" =>
       \A c \in finished[Engine] : c = Current \/ Precedes(c, Current)
  /\ cpc = "cleanup" => FinishedBelow(wl + 1)

(* While a workload is measured, nothing of a later one is finished.       *)
LEMMA FinishedSoFar ==
  ASSUME Inv, Losses, cpc \in {"setup", "measure", "run", "append", "cleanup"}
  PROVE  /\ finished[Engine] \subseteq Cell
         /\ \A c \in finished[Engine] : c.wl \in Int
         /\ FinishedBelow(wl + 1)
<1>1. Engine \in Engines
  BY EngineType
<1>2. finished[Engine] \subseteq Cell
  BY <1>1 DEF Inv, TypeOK
<1>3. wl \in Int /\ Current.wl = wl
  BY CurrentFields DEF Inv
<1>4. \A c \in finished[Engine] : c.wl \in Int
  BY <1>2, CellFields DEF Workloads
<1>5. FinishedBelow(wl + 1)
  BY <1>3, <1>4 DEF Losses, FinishedBelow, Precedes
<1> QED BY <1>2, <1>4, <1>5

(* The steps that neither finish nor write a measurement.                  *)
LEMMA QuietStepKeepsLosses ==
  ASSUME Inv, Losses, [Next]_vars, ~ OpenLog, ~ RunStep, ~ AppendRecord
  PROVE  Losses'
<1>1. jsonl' = jsonl /\ finished' = finished
  BY DEF Next, ParentStep, EngineStep, HarnessStep, Failure, Plan, Spawn,
     SpawnFails, Reap, Merge, EmitReport, ParentKilled, Refuse, StartRaises,
     StartEngine, RegisterCatalog, SkipWorkload, Setup, SetupFails, Purge, NoPurge,
     AppendFails, WorkloadRaises, Cleanup, LeaveLoop, StopEngine, Abandon,
     WriteFragment, ChildKilled, EngineDies, vars, diskVars, historyVars
<1>2. LastOrUnwritten'
  BY <1>1 DEF Losses, LastOrUnwritten, Written
<1>3. CASE ParentStep \/ ParentKilled
  <2>1. CASE ParentKilled
    BY <1>1, <1>2, <2>1 DEF ParentKilled, Losses, FinishedBelow, Engine, Current, loopVars
  <2>2. CASE ParentStep
    <3>1. cpc' \in {"none", "boot"}
      BY <2>2 DEF ParentStep, Plan, Spawn, SpawnFails, Reap, Merge, EmitReport, Inv, Scope
    <3> QED BY <1>2, <3>1 DEF Losses
  <2> QED BY <1>3, <2>1, <2>2
<1>4. CASE \/ Refuse \/ StartRaises \/ StartEngine \/ LeaveLoop \/ StopEngine
           \/ WriteFragment \/ ChildKilled
  <2>1. cpc' \in {"exited", "started", "stop", "fragment", "killed"}
    BY <1>4 DEF Refuse, StartRaises, StartEngine, LeaveLoop, StopEngine,
       WriteFragment, ChildKilled
  <2> QED BY <1>2, <2>1 DEF Losses
<1>5. CASE RegisterCatalog
  <2>1. cpc' = "setup" /\ Engine' = Engine /\ finished[Engine] = {}
    BY <1>5 DEF RegisterCatalog, Losses, Engine, parentVars
  <2> QED BY <1>1, <1>2, <2>1 DEF Losses, FinishedBelow
<1>6. CASE SkipWorkload \/ Cleanup \/ SetupFails \/ AppendFails \/ WorkloadRaises
  <2>1. /\ cpc' = "setup" /\ wl' = wl + 1 /\ Engine' = Engine
        /\ cpc \in {"setup", "measure", "run", "append", "cleanup"}
    BY <1>6 DEF SkipWorkload, Cleanup, SetupFails, AppendFails, WorkloadRaises,
       Abandon, Engine, parentVars
  <2>2. FinishedBelow(wl + 1)
    BY <2>1, FinishedSoFar
  <2> QED BY <1>1, <1>2, <2>1, <2>2 DEF Losses, FinishedBelow
<1>7. CASE Setup
  <2>1. /\ cpc' = "measure" /\ Engine' = Engine /\ wl' = wl
        /\ \A c \in finished[Engine] : c.wl < wl
    BY <1>7 DEF Setup, Losses, FinishedBelow, Engine, parentVars
  <2>2. Current'.wl = wl
    BY <2>1 DEF Current
  <2> QED BY <1>1, <1>2, <2>1, <2>2 DEF Losses, Precedes
<1>8. CASE Purge \/ NoPurge
  BY <1>1, <1>2, <1>8 DEF Purge, NoPurge, Losses, Engine, Current, parentVars, loopVars
<1>9. CASE EngineDies \/ UNCHANGED vars
  BY <1>1, <1>2, <1>9 DEF EngineDies, vars, Losses, FinishedBelow, Engine, Current,
     parentVars, loopVars
<1> QED BY <1>3, <1>4, <1>5, <1>6, <1>7, <1>8, <1>9
        DEF Next, EngineStep, HarnessStep, Failure

LEMMA OpenLogKeepsLosses ==
  ASSUME Inv, Losses, OpenLog
  PROVE  Losses'
<1>1. Engine \in Engines /\ Engine' = Engine /\ cpc' = "catalog"
  BY EngineType DEF OpenLog, Engine, parentVars
<1>2. /\ jsonl' = [jsonl EXCEPT ![Engine] = <<>>]
      /\ finished' = [finished EXCEPT ![Engine] = {}]
      /\ jsonl \in [Engines -> Seq(Record)] /\ finished \in [Engines -> SUBSET Cell]
  BY DEF OpenLog, Inv, TypeOK
<1>3. finished'[Engine] = {}
      /\ \A e \in Engines \ {Engine} : finished'[e] = finished[e] /\ jsonl'[e] = jsonl[e]
  BY <1>1, <1>2
<1>4. LastOrUnwritten'
  BY <1>3 DEF Losses, LastOrUnwritten, Written
<1> QED BY <1>1, <1>3, <1>4 DEF Losses

LEMMA RunStepKeepsLosses ==
  ASSUME Inv, LogsLegal, Losses, RunStep
  PROVE  Losses'
<1>1. /\ cpc = "run" /\ cpc' = "append" /\ Engine' = Engine /\ Current' = Current
      /\ jsonl' = jsonl
  BY DEF RunStep, Engine, Current, parentVars, loopVars, diskVars
<1>2. /\ Engine \in Engines /\ Current \in Cell
      /\ jsonl[Engine] \in Seq(Record) /\ CanFollow(jsonl[Engine], Current)
  BY <1>1, EngineType DEF Inv, Position
<1>3. /\ finished'[Engine] = finished[Engine] \union {Current}
      /\ \A e \in Engines \ {Engine} : finished'[e] = finished[e]
  BY <1>2 DEF RunStep, Inv, TypeOK
<1>4. /\ \A c \in finished[Engine] : Precedes(c, Current)
      /\ finished[Engine] \subseteq Cell
  BY <1>1, FinishedSoFar DEF Losses
<1>5. ASSUME NEW c \in finished'[Engine] \ Written(jsonl[Engine]),
             NEW d \in finished'[Engine], d.wl = c.wl
      PROVE  d = c \/ Precedes(d, c)
  <2>1. CASE c = Current
    BY <1>3, <1>4, <2>1
  <2>2. CASE c # Current
    <3>1. c \in finished[Engine] /\ c \in Cell /\ Precedes(c, Current)
      BY <1>3, <1>4, <2>2
    <3>2. c.wl # Current.wl
      <4>1. ASSUME c.wl = Current.wl PROVE FALSE
        <5>1. \E j \in DOMAIN jsonl[Engine] : jsonl[Engine][j].cell = c
          BY <1>2, <3>1, <4>1, FollowingCell DEF LogsLegal
        <5> QED BY <5>1, <1>5 DEF Written
      <4> QED BY <4>1
    <3>3. d \in finished[Engine]
      BY <1>3, <1>5, <3>2
    <3> QED BY <1>2, <1>5, <3>1, <3>3 DEF Losses, LastOrUnwritten
  <2> QED BY <2>1, <2>2
<1>6. LastOrUnwritten'
  BY <1>1, <1>3, <1>5 DEF Losses, LastOrUnwritten, Written
<1> QED BY <1>1, <1>3, <1>4, <1>6 DEF Losses

(* Writing a record keeps what was recorded.                               *)
LEMMA AppendGrows ==
  ASSUME Inv, AppendRecord
  PROVE  /\ Engine \in Engines /\ Engine' = Engine /\ finished' = finished
         /\ Written(jsonl'[Engine]) = Written(jsonl[Engine]) \union {Current}
         /\ \A e \in Engines \ {Engine} : jsonl'[e] = jsonl[e]
<1>1. /\ Engine \in Engines /\ Engine' = Engine /\ finished' = finished
      /\ jsonl \in [Engines -> Seq(Record)]
      /\ jsonl' = [jsonl EXCEPT ![Engine] = Append(@, Line)]
      /\ Current \in Cell
  BY EngineType DEF AppendRecord, Engine, Line, Inv, TypeOK, Position,
     parentVars, historyVars
<1>2. Line \in Record /\ Line.cell = Current
  BY <1>1 DEF Line, Record, IsCold, Inv, TypeOK
<1> DEFINE l == jsonl[Engine]
           m == Append(l, Line)
<1>3. jsonl'[Engine] = m /\ l \in Seq(Record)
      /\ \A e \in Engines \ {Engine} : jsonl'[e] = jsonl[e]
  BY <1>1
<1>4. /\ DOMAIN l = 1 .. Len(l) /\ DOMAIN m = 1 .. Len(l) + 1 /\ Len(l) \in Nat
      /\ \A i \in DOMAIN l : m[i] = l[i]
      /\ m[Len(l) + 1] = Line
  BY <1>2, <1>3
<1>5. Written(m) = Written(l) \union {Current}
  <2>1. ASSUME NEW c \in Written(m) PROVE c \in Written(l) \union {Current}
    <3>1. PICK i \in DOMAIN m : m[i].cell = c
      BY DEF Written
    <3> QED BY <1>2, <1>4, <3>1 DEF Written
  <2>2. ASSUME NEW c \in Written(l) PROVE c \in Written(m)
    <3>1. PICK i \in DOMAIN l : l[i].cell = c
      BY DEF Written
    <3>2. i \in DOMAIN m /\ m[i].cell = c
      BY <1>4, <3>1
    <3> QED BY <3>2 DEF Written
  <2>3. Current \in Written(m)
    <3>1. Len(l) + 1 \in DOMAIN m /\ m[Len(l) + 1].cell = Current
      BY <1>2, <1>4
    <3> QED BY <3>1 DEF Written
  <2> QED BY <2>1, <2>2, <2>3
<1> QED BY <1>1, <1>3, <1>5

LEMMA AppendKeepsLosses ==
  ASSUME Inv, Losses, AppendRecord
  PROVE  Losses'
<1>1. LastOrUnwritten'
  BY AppendGrows DEF Losses, LastOrUnwritten
<1>2. /\ cpc = "append" /\ wl' = wl /\ Current \in Cell
      /\ \A c \in finished[Engine] : c = Current \/ Precedes(c, Current)
  BY DEF AppendRecord, Inv, Position, Losses
<1>3. CASE IsLastCell(Current)
  <2>1. cpc' = "cleanup"
    BY <1>3 DEF AppendRecord, Advance
  <2>2. FinishedBelow(wl + 1)
    BY <1>2, FinishedSoFar
  <2> QED BY <1>1, <1>2, <2>1, <2>2, AppendGrows DEF Losses, FinishedBelow
<1>4. CASE ~ IsLastCell(Current)
  <2>1. /\ NextCell(Current) \in Cell /\ NextCell(Current).wl = Current.wl
        /\ Precedes(Current, NextCell(Current))
    BY <1>2, <1>4, NextCellIsNext
  <2>2. cpc' = "measure" /\ Current' = NextCell(Current)
    BY <1>2, <1>4, <2>1, CellFields, CurrentFields
       DEF AppendRecord, Advance, Current, Inv
  <2>3. \A c \in finished[Engine] : Precedes(c, NextCell(Current))
    BY <1>2, <2>1, FinishedSoFar, PrecedesTransitive
  <2> QED BY <1>1, <2>2, <2>3, AppendGrows DEF Losses
<1> QED BY <1>3, <1>4

LEMMA NextKeepsLosses ==
  ASSUME Inv, LogsLegal, Losses, [Next]_vars
  PROVE  Losses'
BY QuietStepKeepsLosses, OpenLogKeepsLosses, RunStepKeepsLosses, AppendKeepsLosses

-----------------------------------------------------------------------------
(* Where the lines are that do not parse, and what was lost before them.   *)
LEMMA PrecedesAsymmetric ==
  ASSUME NEW c \in Cell, NEW d \in Cell, Precedes(c, d)
  PROVE  c # d /\ ~ Precedes(d, c) /\ c.wl \in Int /\ d.wl \in Int /\ c.wl <= d.wl
<1>1. /\ c.wl \in Int /\ c.step \in Int /\ c.run \in Int
      /\ d.wl \in Int /\ d.step \in Int /\ d.run \in Int
  BY CellFields, RunsPositive DEF Workloads
<1> QED BY <1>1 DEF Precedes

LEMMA ReadableIsWritten ==
  ASSUME NEW l
  PROVE  /\ CellsOf(l) \subseteq Written(l)
         /\ \A i \in DOMAIN l : l[i].whole => l[i].cell \in CellsOf(l)
BY DEF CellsOf, Written

(* What was finished last in this session is without a line, and of an     *)
(* earlier workload than the one at hand.                                  *)
LostLast ==
  \E d \in finished[Engine] \ Written(jsonl[Engine]) :
    /\ d.wl < wl
    /\ \A x \in finished[Engine] :
         x = d \/ Precedes(x, d) \/ (cpc = "append" /\ x = Current)

(* The cells of the lines that do not parse.                               *)
Unread(l) == { l[i].cell : i \in {j \in DOMAIN l : ~ l[j].whole} }

AllGlued == \A e \in Engines : \A c \in Unread(jsonl[e]) : Glued(e, c)

Spoiled ==
  /\ AllGlued
  /\ cpc \in {"catalog", "cleanup"} => ~ torn[Engine]
  /\ cpc \in {"setup", "measure", "run", "append"} /\ torn[Engine] => LostLast
  /\ cpc = "append" => Current \in finished[Engine]

LEMMA QuietStepKeepsSpoiled ==
  ASSUME Inv, Spoiled, [Next]_vars, ~ OpenLog, ~ RunStep, ~ AppendRecord, ~ AppendFails
  PROVE  Spoiled'
<1>1. jsonl' = jsonl /\ finished' = finished
  BY DEF Next, ParentStep, EngineStep, HarnessStep, Failure, Plan, Spawn,
     SpawnFails, Reap, Merge, EmitReport, ParentKilled, Refuse, StartRaises,
     StartEngine, RegisterCatalog, SkipWorkload, Setup, SetupFails, Purge, NoPurge,
     WorkloadRaises, Cleanup, LeaveLoop, StopEngine, Abandon,
     WriteFragment, ChildKilled, EngineDies, vars, diskVars, historyVars
<1>2. AllGlued'
  BY <1>1 DEF Spoiled, AllGlued, Glued, Lost
<1>3. CASE ParentStep
  <2>1. cpc' \in {"none", "boot"}
    BY <1>3 DEF ParentStep, Plan, Spawn, SpawnFails, Reap, Merge, EmitReport, Inv, Scope
  <2> QED BY <1>2, <2>1 DEF Spoiled
<1>4. CASE \/ Refuse \/ StartRaises \/ StartEngine \/ LeaveLoop \/ StopEngine
           \/ WriteFragment \/ ChildKilled
  <2>1. cpc' \in {"exited", "started", "stop", "fragment", "killed"}
    BY <1>4 DEF Refuse, StartRaises, StartEngine, LeaveLoop, StopEngine,
       WriteFragment, ChildKilled
  <2> QED BY <1>2, <2>1 DEF Spoiled
<1>5. CASE RegisterCatalog
  <2>1. cpc' = "setup" /\ ~ torn'[Engine']
    BY <1>5 DEF RegisterCatalog, Spoiled, Engine, parentVars, diskVars
  <2> QED BY <1>2, <2>1 DEF Spoiled
<1>6. CASE \/ SkipWorkload \/ Setup \/ SetupFails \/ Purge \/ NoPurge
           \/ WorkloadRaises \/ Cleanup
  <2>1. /\ cpc \in {"setup", "measure", "run", "cleanup"}
        /\ cpc' \in {"setup", "measure", "run"}
        /\ Engine' = Engine /\ torn' = torn /\ wl' \in {wl, wl + 1}
    BY <1>6 DEF SkipWorkload, Setup, SetupFails, Purge, NoPurge, WorkloadRaises,
       Cleanup, Abandon, Engine, parentVars, loopVars, diskVars
  <2>2. ASSUME torn'[Engine'] PROVE LostLast'
    <3>1. LostLast
      BY <2>1, <2>2 DEF Spoiled
    <3>2. PICK d \in finished[Engine] \ Written(jsonl[Engine]) :
            /\ d.wl < wl
            /\ \A x \in finished[Engine] : x = d \/ Precedes(x, d)
      BY <2>1, <3>1 DEF LostLast
    <3>3. d.wl \in Int /\ wl \in Int
      <4>1. Engine \in Engines
        BY <2>1, EngineType
      <4>2. d \in Cell
        BY <4>1 DEF Inv, TypeOK
      <4> QED BY <4>2, CellFields, CurrentFields DEF Workloads, Inv
    <3>4. d.wl < wl'
      BY <2>1, <3>2, <3>3
    <3> QED BY <1>1, <2>1, <3>2, <3>4 DEF LostLast
  <2> QED BY <1>2, <2>1, <2>2 DEF Spoiled
<1>7. CASE ParentKilled \/ EngineDies \/ UNCHANGED vars
  <2>1. /\ Engine' = Engine /\ torn' = torn /\ wl' = wl /\ cpc' = cpc
        /\ Current' = Current
    BY <1>7 DEF ParentKilled, EngineDies, vars, Engine, Current, parentVars, loopVars,
       diskVars
  <2>2. LostLast => LostLast'
    BY <1>1, <2>1 DEF LostLast
  <2> QED BY <1>1, <1>2, <2>1, <2>2 DEF Spoiled
<1> QED BY <1>3, <1>4, <1>5, <1>6, <1>7 DEF Next, EngineStep, HarnessStep, Failure

LEMMA OpenLogKeepsSpoiled ==
  ASSUME Inv, Spoiled, OpenLog
  PROVE  Spoiled'
<1>1. Engine \in Engines /\ Engine' = Engine /\ cpc' = "catalog"
  BY EngineType DEF OpenLog, Engine, parentVars
<1>2. /\ jsonl' = [jsonl EXCEPT ![Engine] = <<>>]
      /\ torn' = [torn EXCEPT ![Engine] = FALSE]
      /\ finished' = [finished EXCEPT ![Engine] = {}]
      /\ jsonl \in [Engines -> Seq(Record)] /\ finished \in [Engines -> SUBSET Cell]
      /\ torn \in [Engines -> BOOLEAN]
  BY DEF OpenLog, Inv, TypeOK
<1>3. /\ jsonl'[Engine] = <<>> /\ ~ torn'[Engine]
      /\ \A e \in Engines \ {Engine} : finished'[e] = finished[e] /\ jsonl'[e] = jsonl[e]
  BY <1>1, <1>2
<1>4. ASSUME NEW e \in Engines, NEW c \in Unread(jsonl'[e])
      PROVE  Glued(e, c)'
  <2>1. e # Engine
    BY <1>3, <1>4 DEF Unread
  <2>2. jsonl'[e] = jsonl[e] /\ finished'[e] = finished[e]
    BY <1>3, <2>1
  <2> QED BY <1>4, <2>2 DEF Spoiled, AllGlued, Glued, Lost
<1>5. AllGlued'
  BY <1>4 DEF AllGlued
<1> QED BY <1>1, <1>3, <1>5 DEF Spoiled

(* The cells of the log come before the current one.                       *)
LEMMA LogBeforeCurrent ==
  ASSUME Inv, LogsLegal, cpc \in {"measure", "run", "append"}
  PROVE  /\ Engine \in Engines /\ Current \in Cell /\ jsonl[Engine] \in Seq(Record)
         /\ \A i \in DOMAIN jsonl[Engine] :
              /\ jsonl[Engine][i].cell \in Cell
              /\ Precedes(jsonl[Engine][i].cell, Current)
         /\ Current \notin Written(jsonl[Engine])
<1>1. /\ Engine \in Engines /\ Current \in Cell /\ jsonl[Engine] \in Seq(Record)
      /\ CanFollow(jsonl[Engine], Current)
  BY EngineType DEF Inv, Position
<1>2. OrderedLog(jsonl[Engine]) /\ GapFreeLog(jsonl[Engine])
  BY <1>1 DEF LogsLegal
<1>3. ASSUME NEW i \in DOMAIN jsonl[Engine]
      PROVE  /\ jsonl[Engine][i].cell \in Cell
             /\ Precedes(jsonl[Engine][i].cell, Current)
  <2>1. jsonl[Engine][i] \in Record
    BY <1>1
  <2>2. jsonl[Engine][i].cell \in Cell
    BY <2>1 DEF Record
  <2> QED BY <1>1, <1>2, <2>2, FollowingCell
<1>4. Current \notin Written(jsonl[Engine])
  BY <1>1, <1>3, PrecedesAsymmetric DEF Written
<1> QED BY <1>1, <1>3, <1>4

LEMMA RunStepKeepsSpoiled ==
  ASSUME Inv, LogsLegal, Spoiled, RunStep
  PROVE  Spoiled'
<1>1. /\ cpc = "run" /\ cpc' = "append" /\ Engine' = Engine /\ Current' = Current
      /\ jsonl' = jsonl /\ torn' = torn /\ wl' = wl
  BY DEF RunStep, Engine, Current, parentVars, loopVars, diskVars
<1>2. Engine \in Engines /\ Current \in Cell
  BY <1>1, LogBeforeCurrent
<1>3. /\ finished'[Engine] = finished[Engine] \union {Current}
      /\ \A e \in Engines \ {Engine} : finished'[e] = finished[e]
  BY <1>2 DEF RunStep, Inv, TypeOK
<1>4. ASSUME NEW e \in Engines, NEW c \in Unread(jsonl[e])
      PROVE  Glued(e, c)'
  <2>1. Glued(e, c)
    BY <1>4 DEF Spoiled, AllGlued
  <2>2. CASE e # Engine
    BY <1>1, <1>3, <2>1, <2>2 DEF Glued, Lost
  <2>3. CASE e = Engine
    <3>1. c \in Cell /\ Precedes(c, Current)
      BY <1>1, <1>4, <2>3, LogBeforeCurrent DEF Unread
    <3>2. ~ Precedes(Current, c)
      BY <1>2, <3>1, PrecedesAsymmetric
    <3>3. Lost(e) \subseteq Lost(e)'
      BY <1>1, <1>3, <2>3 DEF Lost
    <3> QED BY <1>3, <2>1, <2>3, <3>2, <3>3 DEF Glued
  <2> QED BY <2>2, <2>3
<1>6. AllGlued'
  BY <1>1, <1>4 DEF AllGlued
<1>5. torn[Engine] => LostLast'
  <2> SUFFICES ASSUME torn[Engine] PROVE LostLast'
    OBVIOUS
  <2>1. PICK d \in finished[Engine] \ Written(jsonl[Engine]) :
          d.wl < wl /\ \A x \in finished[Engine] : x = d \/ Precedes(x, d)
    BY <1>1 DEF Spoiled, LostLast
  <2> QED BY <1>1, <1>3, <2>1 DEF LostLast
<1> QED BY <1>1, <1>2, <1>3, <1>5, <1>6 DEF Spoiled

LEMMA AppendFailsKeepsSpoiled ==
  ASSUME Inv, LogsLegal, Losses, Spoiled, AppendFails
  PROVE  Spoiled'
<1>1. /\ cpc = "append" /\ cpc' = "setup" /\ wl' = wl + 1 /\ Engine' = Engine
      /\ jsonl' = jsonl /\ finished' = finished
  BY DEF AppendFails, Abandon, Engine, parentVars
<1>2. AllGlued'
  BY <1>1 DEF Spoiled, AllGlued, Glued, Lost
<1>3. /\ Current \in finished[Engine] \ Written(jsonl[Engine])
      /\ \A x \in finished[Engine] : x = Current \/ Precedes(x, Current)
  BY <1>1, LogBeforeCurrent DEF Spoiled, Losses
<1>4. Current.wl < wl'
  BY <1>1, CurrentFields DEF Inv
<1>5. PICK d : d = Current
  OBVIOUS
<1>6. LostLast'
  BY <1>1, <1>3, <1>4, <1>5 DEF LostLast
<1> QED BY <1>1, <1>2, <1>6 DEF Spoiled

LEMMA AppendKeepsSpoiled ==
  ASSUME Inv, LogsLegal, Spoiled, AppendRecord
  PROVE  Spoiled'
<1>1. /\ cpc = "append" /\ cpc' \in {"cleanup", "measure"}
      /\ Engine' = Engine /\ Engine \in Engines /\ finished' = finished
      /\ Current \in Cell /\ jsonl[Engine] \in Seq(Record)
      /\ torn[Engine] => Current = FirstCell(wl)
      /\ jsonl' = [jsonl EXCEPT ![Engine] = Append(@, Line)]
      /\ torn' = [torn EXCEPT ![Engine] = FALSE]
  BY LogBeforeCurrent DEF AppendRecord, Advance, Engine, Line, Inv, Position,
     parentVars, historyVars
<1>2. ~ torn'[Engine] /\ Current.wl = wl /\ wl \in Int
  BY <1>1, CurrentFields DEF Inv, TypeOK
<1> DEFINE l == jsonl[Engine]
           m == Append(l, Line)
<1>3. /\ jsonl'[Engine] = m
      /\ \A e \in Engines \ {Engine} : jsonl'[e] = jsonl[e]
      /\ DOMAIN l = 1 .. Len(l) /\ DOMAIN m = 1 .. Len(l) + 1 /\ Len(l) \in Nat
      /\ \A i \in DOMAIN l : m[i] = l[i]
      /\ m[Len(l) + 1] = Line
      /\ Line.cell = Current /\ Line.whole = ~ torn[Engine]
  BY <1>1 DEF Inv, TypeOK, Line
<1>4. /\ CellsOf(m) \subseteq CellsOf(l) \union {Current}
      /\ Written(m) = Written(l) \union {Current}
  <2>1. CellsOf(m) \subseteq CellsOf(l) \union {Current}
    BY <1>3 DEF CellsOf
  <2>2. Written(m) = Written(l) \union {Current}
    BY AppendGrows, <1>3
  <2> QED BY <2>1, <2>2
<1>5. ASSUME NEW d \in Lost(Engine), d # Current PROVE d \in Lost(Engine)'
  BY <1>1, <1>3, <1>4, <1>5 DEF Lost
<1>6. ASSUME NEW c \in Unread(m) PROVE c \in Unread(l) \/ (torn[Engine] /\ c = Current)
  <2>1. PICK i \in DOMAIN m : m[i].cell = c /\ ~ m[i].whole
    BY <1>6 DEF Unread
  <2>2. CASE i \in DOMAIN l
    BY <1>3, <2>1, <2>2 DEF Unread
  <2>3. CASE i = Len(l) + 1
    BY <1>3, <2>1, <2>3
  <2> QED BY <1>3, <2>1, <2>2, <2>3
<1>7. ASSUME NEW c \in Unread(l) PROVE Glued(Engine, c)'
  <2>1. Glued(Engine, c)
    BY <1>1, <1>7 DEF Spoiled, AllGlued
  <2>2. c \in Cell /\ Precedes(c, Current)
    BY <1>1, <1>7, LogBeforeCurrent DEF Unread
  <2>3. PICK d \in Lost(Engine) :
          /\ d.wl < c.wl
          /\ \A x \in finished[Engine] : Precedes(x, c) => x = d \/ Precedes(x, d)
    BY <2>1 DEF Glued
  <2>4. d # Current
    BY <1>1, <1>2, <2>2, <2>3, PrecedesAsymmetric
  <2>5. d \in Lost(Engine)'
    BY <1>5, <2>4
  <2> QED BY <1>1, <2>1, <2>3, <2>5 DEF Glued
<1>8. ASSUME torn[Engine], NEW c, c = Current PROVE Glued(Engine, c)'
  <2>1. LostLast
    BY <1>1, <1>8 DEF Spoiled
  <2>2. PICK d \in finished[Engine] \ Written(l) :
          /\ d.wl < wl
          /\ \A x \in finished[Engine] : x = d \/ Precedes(x, d) \/ x = Current
    BY <2>1 DEF LostLast
  <2>3. c = Current
    BY <1>8
  <2>4. d # c
    BY <1>2, <2>2, <2>3
  <2>5. d \in Lost(Engine)'
    BY <1>1, <1>3, <1>4, <2>2, <2>3, <2>4, ReadableIsWritten DEF Lost
  <2>6. c = FirstCell(c.wl) /\ c \in finished[Engine]
    BY <1>1, <1>2, <1>8, <2>3 DEF Spoiled
  <2>7. \A x \in finished[Engine] : Precedes(x, c) => x = d \/ Precedes(x, d)
    BY <1>1, <2>2, <2>3, PrecedesAsymmetric
  <2>8. d.wl < c.wl
    BY <1>2, <2>2, <2>3
  <2> QED BY <1>1, <2>5, <2>6, <2>7, <2>8 DEF Glued
<1>9. ASSUME NEW e \in Engines, NEW c \in Unread(jsonl'[e]) PROVE Glued(e, c)'
  <2>1. CASE e # Engine
    <3>1. jsonl'[e] = jsonl[e]
      BY <1>3, <2>1
    <3> QED BY <1>1, <1>9, <3>1 DEF Spoiled, AllGlued, Glued, Lost
  <2>2. CASE e = Engine
    <3>1. c \in Unread(l) \/ (torn[Engine] /\ c = Current)
      BY <1>3, <1>6, <1>9, <2>2
    <3>2. Glued(Engine, c)'
      BY <1>7, <1>8, <3>1
    <3> QED BY <1>1, <2>2, <3>2
  <2> QED BY <2>1, <2>2
<1>10. AllGlued'
  BY <1>9 DEF AllGlued
<1> QED BY <1>1, <1>2, <1>10 DEF Spoiled

LEMMA SpoiledHolds == Spec => [](Inv /\ LogsLegal /\ LastOrUnwritten /\ Spoiled)
<1>1. Init => Losses /\ Spoiled
  BY DEF Init, Losses, LastOrUnwritten, Spoiled, AllGlued, Unread
<1>2. Inv /\ LogsLegal /\ Losses /\ Spoiled /\ [Next]_vars => Losses' /\ Spoiled'
  BY NextKeepsLosses, QuietStepKeepsSpoiled, OpenLogKeepsSpoiled, RunStepKeepsSpoiled,
     AppendFailsKeepsSpoiled, AppendKeepsSpoiled
<1>3. Losses => LastOrUnwritten
  BY DEF Losses
<1> QED BY <1>1, <1>2, <1>3, LogsStayLegal, PTL DEF Spec

(* A line there is either parses or is glued.                              *)
LEMMA WrittenIsReadOrGlued ==
  ASSUME Spoiled, NEW e \in Engines, NEW c \in Written(jsonl[e]), c \notin CellsOf(jsonl[e])
  PROVE  Glued(e, c) /\ \E i \in DOMAIN jsonl[e] : ~ jsonl[e][i].whole
<1>1. PICK i \in DOMAIN jsonl[e] : jsonl[e][i].cell = c
  BY DEF Written
<1>2. ~ jsonl[e][i].whole
  BY <1>1, ReadableIsWritten
<1> QED BY <1>1, <1>2 DEF Spoiled, AllGlued, Unread

(* A finished measurement that no reader finds is the last one its         *)
(* workload finished, or glued to one that was lost just before it,        *)
(* whatever crashes or fails.                                              *)
THEOREM Durability == Spec => []AtMostLastLost
<1>1. ASSUME LastOrUnwritten, Spoiled, NEW e \in Engines, NEW c \in Lost(e)
      PROVE  \/ \A d \in finished[e] : d.wl = c.wl => d = c \/ Precedes(d, c)
             \/ Glued(e, c)
  <2>1. CASE c \in Written(jsonl[e])
    BY <1>1, <2>1, WrittenIsReadOrGlued DEF Lost
  <2>2. CASE c \notin Written(jsonl[e])
    BY <1>1, <2>2 DEF LastOrUnwritten, Lost
  <2> QED BY <2>1, <2>2
<1>2. LastOrUnwritten /\ Spoiled => AtMostLastLost
  BY <1>1 DEF AtMostLastLost
<1> QED BY <1>2, SpoiledHolds, PTL

-----------------------------------------------------------------------------
(* A line for every cell of the workloads that were not abandoned.         *)
AllWritten(e) ==
  \A w \in Applicable[e] \ abandoned[e] :
    \A c \in Cell : c.wl = w => c \in Written(jsonl[e])

(* The workloads below n are on disk, but for those abandoned.             *)
CoveredBelow(n) ==
  \A w \in Applicable[Engine] \ abandoned[Engine] :
    w < n => \A c \in Cell : c.wl = w => c \in Written(jsonl[Engine])

Coverage ==
  /\ cpc \in {"setup", "measure", "run", "append"} => CoveredBelow(wl)
  /\ cpc = "cleanup" => CoveredBelow(wl + 1)
  /\ cpc \in {"stop", "fragment"} => AllWritten(Engine)

(* An engine asked for once has a fragment only after its session.         *)
Fragments ==
  Distinct =>
    /\ \A e \in Engines : frag[e] = "whole" => AllWritten(e)
    /\ \A e \in Engines : frag[e] # "none" =>
         \/ \E i \in 1 .. idx - 1 : EngineOrder[i] = e
         \/ cpc \in {"exited", "killed"} /\ e = Engine
    /\ manifest.versions \subseteq { e \in Engines : frag[e] = "whole" }

LEMMA ApplicableBelow ==
  ASSUME Inv, cpc # "none"
  PROVE  /\ Engine \in Engines /\ NumWorkloads \in Nat
         /\ \A w \in Applicable[Engine] : w \in Int /\ w >= 1 /\ w <= NumWorkloads
         /\ wl \in Int
<1>1. Engine \in Engines /\ Applicable[Engine] \subseteq Workloads
  BY EngineType
<1> QED BY <1>1, ScheduleAssumption DEF Workloads, Inv, TypeOK

(* The steps that leave what is covered as it is.                          *)
LEMMA UncoveringStepKeepsCoverage ==
  ASSUME Inv, Coverage, [Next]_vars, ~ OpenLog, ~ AppendRecord,
         ~ (SetupFails \/ AppendFails \/ WorkloadRaises)
  PROVE  Coverage'
<1>1. jsonl' = jsonl /\ abandoned' = abandoned
  BY DEF Next, ParentStep, EngineStep, HarnessStep, Failure, Plan, Spawn,
     SpawnFails, Reap, Merge, EmitReport, ParentKilled, Refuse, StartRaises,
     StartEngine, RegisterCatalog, SkipWorkload, Setup, Purge, NoPurge, RunStep,
     Cleanup, LeaveLoop, StopEngine, WriteFragment, ChildKilled, EngineDies,
     vars, diskVars, historyVars
<1>2. CASE ParentStep \/ ParentKilled
  <2>1. CASE ParentKilled
    BY <1>1, <2>1 DEF ParentKilled, Coverage, CoveredBelow, AllWritten, Engine, loopVars
  <2>2. CASE ParentStep
    <3>1. cpc' \in {"none", "boot"}
      BY <2>2 DEF ParentStep, Plan, Spawn, SpawnFails, Reap, Merge, EmitReport, Inv, Scope
    <3> QED BY <3>1 DEF Coverage
  <2> QED BY <1>2, <2>1, <2>2
<1>3. CASE Refuse \/ StartRaises \/ StartEngine \/ WriteFragment \/ ChildKilled
  <2>1. cpc' \in {"exited", "started", "killed"}
    BY <1>3 DEF Refuse, StartRaises, StartEngine, WriteFragment, ChildKilled
  <2> QED BY <2>1 DEF Coverage
<1>4. CASE RegisterCatalog
  <2>1. cpc' = "setup" /\ wl' = 1 /\ Engine' = Engine /\ cpc # "none"
    BY <1>4 DEF RegisterCatalog, Engine, parentVars
  <2>2. \A w \in Applicable[Engine] : ~ w < 1
    BY <2>1, ApplicableBelow
  <2> QED BY <1>1, <2>1, <2>2 DEF Coverage, CoveredBelow
<1>5. CASE SkipWorkload
  <2>1. /\ cpc = "setup" /\ cpc' = "setup" /\ wl' = wl + 1 /\ Engine' = Engine
        /\ wl \notin Applicable[Engine]
    BY <1>5 DEF SkipWorkload, Engine, parentVars
  <2>2. \A w \in Applicable[Engine] : w < wl + 1 => w < wl
    BY <2>1, ApplicableBelow
  <2> QED BY <1>1, <2>1, <2>2 DEF Coverage, CoveredBelow
<1>6. CASE Setup \/ Purge \/ NoPurge \/ RunStep
  <2>1. /\ cpc \in {"setup", "measure", "run"} /\ cpc' \in {"measure", "run", "append"}
        /\ wl' = wl /\ Engine' = Engine
    BY <1>6 DEF Setup, Purge, NoPurge, RunStep, Engine, parentVars, loopVars
  <2> QED BY <1>1, <2>1 DEF Coverage, CoveredBelow
<1>7. CASE Cleanup
  <2>1. cpc = "cleanup" /\ cpc' = "setup" /\ wl' = wl + 1 /\ Engine' = Engine
    BY <1>7 DEF Cleanup, Engine, parentVars
  <2> QED BY <1>1, <2>1 DEF Coverage, CoveredBelow
<1>8. CASE LeaveLoop
  <2>1. /\ cpc = "setup" /\ cpc' = "stop" /\ wl = NumWorkloads + 1
        /\ Engine' = Engine
    BY <1>8 DEF LeaveLoop, Engine, parentVars
  <2>2. \A w \in Applicable[Engine] : w < wl
    BY <2>1, ApplicableBelow
  <2>3. AllWritten(Engine)
    BY <2>1, <2>2 DEF Coverage, CoveredBelow, AllWritten
  <2> QED BY <1>1, <2>1, <2>3 DEF Coverage, AllWritten
<1>9. CASE StopEngine \/ EngineDies \/ UNCHANGED vars
  BY <1>1, <1>9 DEF StopEngine, EngineDies, vars, Coverage, CoveredBelow, AllWritten,
     Engine, parentVars, loopVars
<1> QED BY <1>2, <1>3, <1>4, <1>5, <1>6, <1>7, <1>8, <1>9
        DEF Next, EngineStep, HarnessStep, Failure

LEMMA AbandonKeepsCoverage ==
  ASSUME Inv, Coverage, SetupFails \/ AppendFails \/ WorkloadRaises
  PROVE  Coverage'
<1>1. /\ cpc' = "setup" /\ wl' = wl + 1 /\ Engine' = Engine /\ jsonl' = jsonl
      /\ abandoned' = [abandoned EXCEPT ![Engine] = @ \union {wl}]
      /\ cpc \in {"setup", "measure", "run", "append", "cleanup"}
  BY DEF SetupFails, AppendFails, WorkloadRaises, Abandon, Engine, parentVars
<1>2. /\ Engine \in Engines /\ wl \in Int
      /\ \A w \in Applicable[Engine] : w \in Int
  BY <1>1, ApplicableBelow
<1>3. abandoned'[Engine] = abandoned[Engine] \union {wl}
  BY <1>1, <1>2 DEF Inv, TypeOK
<1>4. ASSUME NEW w \in Applicable[Engine] \ abandoned'[Engine], w < wl + 1,
             NEW c \in Cell, c.wl = w
      PROVE  c \in Written(jsonl[Engine])
  <2>1. w \in Applicable[Engine] \ abandoned[Engine] /\ w < wl
    BY <1>2, <1>3, <1>4
  <2>2. CASE cpc = "cleanup"
    BY <1>4, <2>1, <2>2 DEF Coverage, CoveredBelow
  <2>3. CASE cpc # "cleanup"
    BY <1>1, <1>4, <2>1, <2>3 DEF Coverage, CoveredBelow
  <2> QED BY <2>2, <2>3
<1> QED BY <1>1, <1>4 DEF Coverage, CoveredBelow

LEMMA AppendKeepsCoverage ==
  ASSUME Inv, LogsLegal, Coverage, AppendRecord
  PROVE  Coverage'
<1>1. /\ cpc = "append" /\ wl' = wl /\ abandoned' = abandoned
      /\ CoveredBelow(wl)
      /\ Current \in Cell /\ CanFollow(jsonl[Engine], Current)
  BY DEF AppendRecord, Inv, Position, Coverage, historyVars
<1>2. /\ Engine \in Engines /\ jsonl[Engine] \in Seq(Record)
      /\ wl \in Int /\ Current.wl = wl
      /\ \A w \in Applicable[Engine] : w \in Int
  BY <1>1, EngineType, ApplicableBelow, CurrentFields DEF Inv
<1>3. CoveredBelow(wl)'
  BY <1>1, AppendGrows DEF CoveredBelow
<1>4. CASE IsLastCell(Current)
  <2>1. cpc' = "cleanup"
    BY <1>4 DEF AppendRecord, Advance
  <2>2. ASSUME NEW c \in Cell, c.wl = wl PROVE c \in Written(jsonl'[Engine])
    <3>1. c = Current \/ Precedes(c, Current)
      BY <1>1, <1>2, <1>4, <2>2, LastCellIsLast
    <3>2. CASE c = Current
      BY <3>2, AppendGrows
    <3>3. CASE Precedes(c, Current)
      <4>1. \E j \in DOMAIN jsonl[Engine] : jsonl[Engine][j].cell = c
        BY <1>1, <1>2, <2>2, <3>3, FollowingCell DEF LogsLegal
      <4>2. c \in Written(jsonl[Engine])
        BY <4>1 DEF Written
      <4> QED BY <4>2, AppendGrows
    <3> QED BY <3>1, <3>2, <3>3
  <2>3. CoveredBelow(wl + 1)'
    <3>1. \A w \in Applicable[Engine] : w < wl + 1 => w < wl \/ w = wl
      BY <1>2
    <3> QED BY <1>1, <1>3, <2>2, <3>1, AppendGrows DEF CoveredBelow
  <2> QED BY <2>1, <2>3 DEF Coverage
<1>5. CASE ~ IsLastCell(Current)
  <2>1. cpc' = "measure"
    BY <1>5 DEF AppendRecord, Advance
  <2> QED BY <1>3, <2>1 DEF Coverage
<1> QED BY <1>4, <1>5

LEMMA NextKeepsCoverage ==
  ASSUME Inv, LogsLegal, Coverage, [Next]_vars
  PROVE  Coverage'
<1>1. CASE OpenLog
  BY <1>1 DEF OpenLog, Coverage
<1> QED BY <1>1, UncoveringStepKeepsCoverage, AbandonKeepsCoverage, AppendKeepsCoverage

(* While a session runs there is no fragment of its engine yet.            *)
LEMMA NoFragmentYet ==
  ASSUME Inv, Fragments, Distinct, cpc \in RunningPcs
  PROVE  Engine \in Engines /\ frag[Engine] = "none"
<1>1. /\ Engine \in Engines /\ idx \in 1 .. Len(EngineOrder)
      /\ DOMAIN EngineOrder = 1 .. Len(EngineOrder) /\ Len(EngineOrder) \in Nat
  BY EngineType, BenchAssumption DEF RunningPcs, SessionPcs, Inv, Scope
<1>2. \A i \in 1 .. idx - 1 : EngineOrder[i] # Engine
  BY <1>1 DEF Distinct, Engine
<1> QED BY <1>1, <1>2 DEF Fragments, RunningPcs, SessionPcs

(* A session changes no log but its own engine's.                          *)
LEMMA OnlyOwnLog ==
  ASSUME Inv, [Next]_vars, NEW e \in Engines, e # Engine \/ cpc \notin RunningPcs
  PROVE  jsonl'[e] = jsonl[e] /\ abandoned'[e] = abandoned[e]
<1>1. CASE OpenLog \/ AppendRecord \/ SetupFails \/ AppendFails \/ WorkloadRaises
  <2>1. e # Engine
    BY <1>1 DEF OpenLog, AppendRecord, SetupFails, AppendFails, WorkloadRaises,
       RunningPcs, SessionPcs
  <2> QED BY <1>1, <2>1 DEF OpenLog, AppendRecord, SetupFails, AppendFails,
             WorkloadRaises, Abandon, Inv, TypeOK, historyVars
<1>2. CASE ~ (OpenLog \/ AppendRecord \/ SetupFails \/ AppendFails \/ WorkloadRaises)
  BY <1>2 DEF Next, ParentStep, EngineStep, HarnessStep, Failure, Plan, Spawn,
     SpawnFails, Reap, Merge, EmitReport, ParentKilled, Refuse, StartRaises,
     StartEngine, RegisterCatalog, SkipWorkload, Setup, Purge, NoPurge, RunStep,
     Cleanup, LeaveLoop, StopEngine, WriteFragment, ChildKilled, EngineDies,
     vars, diskVars, historyVars
<1> QED BY <1>1, <1>2

(* Only the end of a session changes a fragment.                           *)
LEMMA OtherStepKeepsFragments ==
  ASSUME Inv, Fragments, [Next]_vars, ~ WriteFragment, ~ ChildKilled
  PROVE  Fragments'
<1> SUFFICES ASSUME Distinct PROVE Fragments'
  BY DEF Fragments, Distinct
<1>1. frag' = frag
  BY DEF Next, ParentStep, EngineStep, HarnessStep, Failure, Plan, Spawn,
     SpawnFails, Reap, Merge, EmitReport, ParentKilled, Refuse, StartRaises,
     StartEngine, OpenLog, RegisterCatalog, SkipWorkload, Setup, SetupFails, Purge,
     NoPurge, RunStep, AppendRecord, AppendFails, WorkloadRaises, Abandon, Cleanup,
     LeaveLoop, StopEngine, EngineDies, vars, diskVars
<1>2. ASSUME NEW e \in Engines, frag'[e] = "whole" PROVE AllWritten(e)'
  <2>1. AllWritten(e)
    BY <1>1, <1>2 DEF Fragments
  <2>2. e # Engine \/ cpc \notin RunningPcs
    BY <1>1, <1>2, NoFragmentYet
  <2> QED BY <2>1, <2>2, OnlyOwnLog DEF AllWritten
<1>3. ASSUME NEW e \in Engines, frag'[e] # "none"
      PROVE  \/ \E i \in 1 .. idx' - 1 : EngineOrder[i] = e
             \/ cpc' \in {"exited", "killed"} /\ e = Engine'
  <2>0. idx \in Int
    BY BenchAssumption DEF Inv, TypeOK
  <2>1. \/ \E i \in 1 .. idx - 1 : EngineOrder[i] = e
        \/ cpc \in {"exited", "killed"} /\ e = Engine
    BY <1>1, <1>3 DEF Fragments
  <2>2. idx' \in {idx, idx + 1}
    BY DEF Next, ParentStep, EngineStep, HarnessStep, Failure, Plan, Spawn,
       SpawnFails, Reap, Merge, EmitReport, ParentKilled, Refuse, StartRaises,
       StartEngine, OpenLog, RegisterCatalog, SkipWorkload, Setup, SetupFails, Purge,
       NoPurge, RunStep, AppendRecord, AppendFails, WorkloadRaises, Abandon, Cleanup,
       LeaveLoop, StopEngine, EngineDies, vars, parentVars
  <2>3. CASE \E i \in 1 .. idx - 1 : EngineOrder[i] = e
    <3>1. PICK i \in 1 .. idx - 1 : EngineOrder[i] = e
      BY <2>3
    <3>2. CASE idx' = idx
      BY <3>1, <3>2
    <3>3. CASE idx' = idx + 1
      <4>1. i \in 1 .. (idx + 1) - 1
        BY <2>0, <3>1
      <4> QED BY <3>1, <3>3, <4>1
    <3> QED BY <2>2, <3>2, <3>3
  <2>4. CASE cpc \in {"exited", "killed"} /\ e = Engine
    <3>1. idx \in 1 .. Len(EngineOrder) /\ e = EngineOrder[idx]
      BY <2>4 DEF Inv, Scope, Engine
    <3>2. CASE Reap
      BY <2>0, <3>1, <3>2 DEF Reap
    <3>3. CASE ~ Reap
      <4>1. cpc' = cpc /\ idx' = idx
        BY <2>4, <3>3 DEF Next, ParentStep, EngineStep, HarnessStep, Failure, Plan,
           Spawn, SpawnFails, Merge, EmitReport, ParentKilled, Refuse, StartRaises,
           StartEngine, OpenLog, RegisterCatalog, SkipWorkload, Setup, SetupFails,
           Purge, NoPurge, RunStep, AppendRecord, AppendFails, WorkloadRaises,
           Cleanup, LeaveLoop, StopEngine, EngineDies, RunningPcs, SessionPcs,
           vars, parentVars, Inv, Scope
      <4> QED BY <2>4, <4>1 DEF Engine
    <3> QED BY <3>2, <3>3
  <2> QED BY <2>1, <2>3, <2>4
<1>4. manifest'.versions \subseteq { e \in Engines : frag'[e] = "whole" }
  <2>1. CASE Merge
    BY <1>1, <2>1 DEF Merge
  <2>2. CASE ~ Merge
    <3>1. manifest' = manifest
      BY <2>2 DEF Next, ParentStep, EngineStep, HarnessStep, Failure, Plan, Spawn,
         SpawnFails, Reap, EmitReport, ParentKilled, Refuse, StartRaises,
         StartEngine, OpenLog, RegisterCatalog, SkipWorkload, Setup, SetupFails,
         Purge, NoPurge, RunStep, AppendRecord, AppendFails, WorkloadRaises,
         Abandon, Cleanup, LeaveLoop, StopEngine, EngineDies, vars, parentVars
    <3> QED BY <1>1, <3>1 DEF Fragments
  <2> QED BY <2>1, <2>2
<1> QED BY <1>2, <1>3, <1>4 DEF Fragments

LEMMA SessionEndKeepsFragments ==
  ASSUME Inv, Coverage, Fragments, WriteFragment \/ ChildKilled
  PROVE  Fragments'
<1> SUFFICES ASSUME Distinct PROVE Fragments'
  BY DEF Fragments, Distinct
<1>1. /\ cpc \in RunningPcs /\ cpc' \in {"exited", "killed"}
      /\ idx' = idx /\ Engine' = Engine
      /\ UNCHANGED <<jsonl, abandoned, manifest>>
  BY DEF WriteFragment, ChildKilled, RunningPcs, SessionPcs, Engine, parentVars,
     historyVars
<1>2. Engine \in Engines /\ frag[Engine] = "none"
      /\ frag \in [Engines -> {"none", "torn", "whole"}]
  BY <1>1, NoFragmentYet DEF Inv, TypeOK
<1>3. \A e \in Engines \ {Engine} : frag'[e] = frag[e]
  BY <1>2 DEF WriteFragment, ChildKilled
<1>4. frag'[Engine] = "whole" => AllWritten(Engine)
  BY <1>2 DEF WriteFragment, ChildKilled, Coverage
<1>5. \A e \in Engines : frag'[e] = "whole" => AllWritten(e)'
  BY <1>1, <1>3, <1>4 DEF Fragments, AllWritten
<1>6. \A e \in Engines : frag'[e] # "none" =>
        \/ \E i \in 1 .. idx' - 1 : EngineOrder[i] = e
        \/ cpc' \in {"exited", "killed"} /\ e = Engine'
  BY <1>1, <1>3 DEF Fragments
<1>7. manifest'.versions \subseteq { e \in Engines : frag'[e] = "whole" }
  <2>1. manifest.versions \subseteq Engines /\ Engine \notin manifest.versions
    BY <1>2 DEF Fragments, Inv, TypeOK
  <2> QED BY <1>1, <1>3, <2>1 DEF Fragments
<1> QED BY <1>5, <1>6, <1>7 DEF Fragments

(* A report is made of logs of which every line parses, and none is        *)
(* written afterwards.                                                     *)
Reported ==
  report = "made" => /\ ppc = "done"
                     /\ \A e \in Engines : ~ Unreadable(e)

LEMMA NextKeepsReported ==
  ASSUME Inv, Reported, [Next]_vars
  PROVE  Reported'
<1>1. CASE EmitReport
  BY <1>1 DEF EmitReport, Reported, Unreadable, diskVars
<1>2. CASE report = "made"
  <2>1. ppc = "done" /\ cpc = "none"
    BY <1>2 DEF Reported, Inv, Scope
  <2>2. UNCHANGED vars
    BY <2>1 DEF Next, ParentStep, EngineStep, HarnessStep, Failure, Plan, Spawn,
       SpawnFails, Reap, Merge, EmitReport, ParentKilled, Refuse, StartRaises,
       StartEngine, OpenLog, RegisterCatalog, SkipWorkload, Setup, SetupFails, Purge,
       NoPurge, RunStep, AppendRecord, AppendFails, WorkloadRaises, Cleanup,
       LeaveLoop, StopEngine, WriteFragment, ChildKilled, EngineDies, RunningPcs,
       SessionPcs
  <2> QED BY <2>2 DEF Reported, Unreadable, vars, parentVars, diskVars
<1>3. CASE ~ EmitReport /\ report # "made"
  <2>1. report' = report
    BY <1>3 DEF Next, ParentStep, EngineStep, HarnessStep, Failure, Plan, Spawn,
       SpawnFails, Reap, Merge, ParentKilled, Refuse, StartRaises,
       StartEngine, OpenLog, RegisterCatalog, SkipWorkload, Setup, SetupFails, Purge,
       NoPurge, RunStep, AppendRecord, AppendFails, WorkloadRaises, Abandon, Cleanup,
       LeaveLoop, StopEngine, WriteFragment, ChildKilled, EngineDies, vars, parentVars
  <2> QED BY <1>3, <2>1 DEF Reported
<1> QED BY <1>1, <1>2, <1>3

(* The manifest lists an engine only when its whole schedule is on disk,   *)
(* except for the workloads its session abandoned, and in lines that parse *)
(* if there is a report.                                                   *)
THEOREM ManifestVouches == Spec => []ManifestedIsComplete
<1>1. Init => Coverage /\ Fragments /\ Reported
  BY DEF Init, Coverage, Fragments, Reported
<1>2. Inv /\ LogsLegal /\ Coverage /\ Fragments /\ Reported /\ [Next]_vars
        => Coverage' /\ Fragments' /\ Reported'
  BY NextKeepsCoverage, OtherStepKeepsFragments, SessionEndKeepsFragments,
     NextKeepsReported
<1>3. ASSUME Fragments, Spoiled, Reported, Distinct, NEW e \in manifest.versions
      PROVE  Complete(e)
  <2>1. e \in Engines /\ AllWritten(e)
    BY <1>3 DEF Fragments
  <2>2. ASSUME NEW c \in Written(jsonl[e]), c \notin CellsOf(jsonl[e])
        PROVE  report # "made" /\ Glued(e, c)
    BY <1>3, <2>1, <2>2, WrittenIsReadOrGlued DEF Reported, Unreadable
  <2> QED BY <2>1, <2>2 DEF AllWritten, Complete
<1>4. Fragments /\ Spoiled /\ Reported => ManifestedIsComplete
  BY <1>3 DEF ManifestedIsComplete
<1> QED BY <1>1, <1>2, <1>4, LogsStayLegal, SpoiledHolds, PTL DEF Spec
=============================================================================
