--------------------------- MODULE AdaptersProofs ---------------------------
(***************************************************************************)
(* Proofs about the adapters and their metric sampler, for any queue of    *)
(* engines, any scripts, any deadlines, and a process tree of any finite   *)
(* size: a start of df is bounded, a Spark engine is measured under its    *)
(* own configuration, a peak covers the samples it stands for, and a       *)
(* script is executed once and in order.                                   *)
(***************************************************************************)
EXTENDS Adapters, FiniteSetTheorems, WellFoundedInduction, TLAPS

\* The most that one pass over the process tree can add up to.
MostRss == MaxRss * (1 + Cardinality(Children))

\* What a pass has seen, and what it may still see, is of distinct processes.
PassBounded ==
    thread.pc = "read" => thread.total + MaxRss * Cardinality(thread.todo) <= MostRss

\* The thread keeps the highest of its samples, and hands that one over.
TopCovers ==
    /\ sampled <= thread.top /\ counted <= sampled
    /\ peak # None => thread.pc = "ended" /\ peak = thread.top

\* The same types, one by one, and with a name for the bound.
Threads == [pc : {"open", "check", "list", "read", "ended", "left"},
            todo : SUBSET ({"root"} \cup Children), total : 0..MostRss, top : 0..MostRss]
Sums    == {None} \cup 0..MostRss
SamplerForm ==
    /\ root \in {"alive", "gone", "unknown"} /\ thread \in Threads
    /\ stop \in BOOLEAN /\ late \in BOOLEAN /\ stragglers \in 0..MaxStragglers
    /\ sampled \in Sums /\ counted \in Sums /\ peak \in Sums

SamplerInv == SamplerForm /\ PassBounded /\ TopCovers

\* During a step the sampler is the step's own; behind the join it has ended
\* unless the two seconds were over.
StepsOwn ==
    InStep /\ root # "unknown" /\ thread.pc = "ended" => peak # None
Joined ==
    phase = "reading" /\ root # "unknown" => late \/ Ended

\* Where the current engine can be.
Control ==
    /\ queue \in Seq(Engines)
    /\ phase \notin {"between", "exit"} => queue # <<>>
    /\ phase \in {"health", "probed", "located"} => engine = "df"
    /\ phase = "probe" => engine \in Spark \cup {"df"}

\* The seconds of a df start; no other engine counts any.
ClockInv ==
    /\ phase \notin {"health", "probe", "probed", "located", "up"} => clock = 0
    /\ phase = "health" => clock <= HealthDeadline + CallTimeout
    /\ phase = "probe"  => IF engine = "df" THEN clock < HealthDeadline + CallTimeout
                           ELSE clock = 0
    /\ phase = "probed" => clock < HealthDeadline + CallTimeout + ProbeTimeout
    /\ phase = "located" => clock < HealthDeadline + CallTimeout + ProbeTimeout + PgrepTimeout
    /\ phase = "up" => clock < HealthDeadline + CallTimeout + ProbeTimeout + PgrepTimeout
                                + VersionTimeout

\* A session that lives is the cached one; spark-tuned's outlives its engine only
\* when the engine did not start, for then it is not stopped.
Running == phase \in {"probe", "up"} \/ InStep
SessionInv ==
    /\ jvm \in Spark => cached
    /\ cached => jvm # "none"
    /\ jvm = "spark-tuned" => tunedFailed \/ (Running /\ engine = "spark-tuned")
    /\ Running /\ engine = "spark-tuned" => jvm \in {"spark-tuned", "dead"}
    /\ Running /\ engine = "spark-default" /\ ~tunedFailed => jvm \in {"spark-default", "dead"}

IInv ==
    /\ TypeOK /\ PassBounded /\ TopCovers
    /\ StepsOwn /\ Joined /\ Control /\ ClockInv /\ SessionInv
    /\ PeakCovers

(* What the assumptions say of the process tree, and that its bound is a   *)
(* number.                                                                 *)
LEMMA MostIsNat ==
    /\ IsFiniteSet(Children) /\ "root" \notin Children
    /\ MaxRss \in Nat /\ MaxStragglers \in Nat
    /\ Cardinality(Children) \in Nat /\ MostRss \in Nat
  <1>1. IsFiniteSet(Children) /\ "root" \notin Children /\ MaxRss \in Nat /\ MaxStragglers \in Nat
    BY SamplerAssumption DEF SamplerAssumption
  <1>2. Cardinality(Children) \in Nat
    BY <1>1, FS_CardinalityType
  <1>3. \A m, n \in Nat : m * (1 + n) \in Nat
    OBVIOUS
  <1> QED
    BY <1>1, <1>2, <1>3 DEF MostRss

(* What a pass has still to read can be counted.                           *)
LEMMA Processes ==
    ASSUME NEW todo \in SUBSET ({"root"} \cup Children)
    PROVE  IsFiniteSet(todo) /\ Cardinality(todo) \in Nat
  <1>1. IsFiniteSet({"root"} \cup Children)
    BY MostIsNat, FS_AddElement, FS_Singleton, FS_Union
  <1> QED
    BY <1>1, FS_Subset, FS_CardinalityType

(* A new pass has nothing yet and no more processes before it than there   *)
(* are.                                                                    *)
LEMMA PassBegins ==
    ASSUME NEW found \in SUBSET Children
    PROVE  0 + MaxRss * Cardinality({"root"} \cup found) <= MostRss
  <1>1. IsFiniteSet(found) /\ Cardinality(found) <= Cardinality(Children) /\ Cardinality(found) \in Nat
    BY MostIsNat, FS_Subset, FS_CardinalityType
  <1>2. Cardinality({"root"} \cup found) = Cardinality(found) + 1
    <2>1. "root" \notin found /\ {"root"} \cup found = found \cup {"root"}
      BY MostIsNat
    <2> QED
      BY <1>1, <2>1, FS_AddElement
  <1>3. \A m, a, b \in Nat : a <= b => m * (a + 1) <= m * (1 + b)
    OBVIOUS
  <1> QED
    BY <1>1, <1>2, <1>3, MostIsNat DEF MostRss

(* Reading one process takes it off the list, and its memory is at most    *)
(* what the list was worth for it.                                         *)
LEMMA PassGoesOn ==
    ASSUME NEW todo \in SUBSET ({"root"} \cup Children), NEW p \in todo, NEW total \in Nat,
           NEW rss \in 0..MaxRss, total + MaxRss * Cardinality(todo) <= MostRss
    PROVE  /\ (total + rss) + MaxRss * Cardinality(todo \ {p}) <= MostRss
           /\ total + rss \in 0..MostRss
  <1>1. Cardinality(todo \ {p}) = Cardinality(todo) - 1 /\ Cardinality(todo \ {p}) \in Nat
    BY Processes, FS_RemoveElement
  <1> DEFINE c == Cardinality(todo \ {p})
  <1>2. Cardinality(todo) = c + 1 /\ c \in Nat
    BY <1>1, Processes
  <1>3. \A m, n \in Nat : m * (n + 1) = m * n + m /\ m * n \in Nat
    OBVIOUS
  <1>4. MaxRss * Cardinality(todo) = MaxRss * c + MaxRss /\ MaxRss * c \in Nat
    BY <1>2, <1>3, MostIsNat
  <1> HIDE DEF c
  <1>5. total + rss + MaxRss * c <= MostRss
    BY <1>4, MostIsNat
  <1> QED
    BY <1>4, <1>5, MostIsNat DEF c

(* The sampler's type invariant is the same with the bounds named.         *)
LEMMA TypeForm == SamplerTypeOK <=> SamplerForm
  BY DEF SamplerTypeOK, SamplerForm, Threads, Sums, MostRss

(* The thread's own steps: it opens the process and begins, or leaves.     *)
LEMMA OpenKept == SamplerInv /\ Open => SamplerInv'
  BY MostIsNat DEF SamplerInv, SamplerForm, PassBounded, TopCovers, Threads, Open

(* The loop ends: the peak becomes the highest of the samples.             *)
LEMMA LeaveKept ==
    ASSUME SamplerInv, Leave, UNCHANGED <<root, stop, sampled, late, stragglers, counted>>
    PROVE  SamplerInv'
  BY MostIsNat DEF SamplerInv, SamplerForm, PassBounded, TopCovers, Threads, Leave, Sums, None

(* The event is looked at before each sample.                              *)
LEMMA CheckStopKept == SamplerInv /\ CheckStop => SamplerInv'
  <1> SUFFICES ASSUME SamplerInv, CheckStop PROVE SamplerInv'
    OBVIOUS
  <1>1. CASE Leave
    BY <1>1, LeaveKept DEF CheckStop
  <1>2. CASE ~Leave
    BY <1>2, MostIsNat DEF SamplerInv, SamplerForm, PassBounded, TopCovers, Threads, CheckStop
  <1> QED
    BY <1>1, <1>2

(* The tree is listed and a new pass begins, with nothing added yet.       *)
LEMMA ListKept == SamplerInv /\ List => SamplerInv'
  <1> SUFFICES ASSUME SamplerInv, List PROVE SamplerInv'
    OBVIOUS
  <1>1. CASE Leave
    BY <1>1, LeaveKept DEF List
  <1>2. CASE ~Leave
    <2>1. PICK found \in SUBSET Children :
              thread' = [thread EXCEPT !.pc = "read", !.total = 0, !.todo = {"root"} \cup found]
      BY <1>2 DEF List
    <2>2. UNCHANGED <<root, stop, sampled, peak, late, stragglers, counted>> /\ thread.pc = "list"
      BY <1>2 DEF List
    <2>3. /\ thread' \in Threads /\ thread'.pc = "read"
          /\ thread'.top = thread.top /\ thread'.total = 0 /\ thread'.todo = {"root"} \cup found
      <3>1. thread \in Threads /\ 0 \in 0..MostRss /\ {"root"} \cup found \in SUBSET ({"root"} \cup Children)
        BY MostIsNat DEF SamplerInv, SamplerForm
      <3>2. thread' \in Threads
        BY <2>1, <3>1 DEF Threads
      <3>3. /\ thread'.pc = "read" /\ thread'.top = thread.top
            /\ thread'.total = 0 /\ thread'.todo = {"root"} \cup found
        BY <2>1, <3>1 DEF Threads
      <3> QED
        BY <3>2, <3>3
    <2>4. PassBounded'
      BY <2>3, PassBegins DEF PassBounded
    <2>5. SamplerForm' /\ TopCovers'
      BY <2>2, <2>3 DEF SamplerInv, SamplerForm, TopCovers
    <2> QED
      BY <2>4, <2>5 DEF SamplerInv
  <1> QED
    BY <1>1, <1>2

(* One process is read.                                                    *)
LEMMA ReadKept == SamplerInv /\ ReadProcess => SamplerInv'
  <1> SUFFICES ASSUME SamplerInv, ReadProcess PROVE SamplerInv'
    OBVIOUS
  <1>1. PICK p \in thread.todo, rss \in 0..MaxRss :
            thread' = [thread EXCEPT !.todo = @ \ {p}, !.total = @ + rss]
    BY DEF ReadProcess
  <1>2. /\ thread.todo \in SUBSET ({"root"} \cup Children) /\ thread.total \in Nat
        /\ thread.pc = "read"
        /\ thread.total + MaxRss * Cardinality(thread.todo) <= MostRss
    BY MostIsNat DEF SamplerInv, SamplerForm, PassBounded, ReadProcess, Threads
  <1>3. /\ (thread.total + rss) + MaxRss * Cardinality(thread.todo \ {p}) <= MostRss
        /\ thread.total + rss \in 0..MostRss
    BY <1>1, <1>2, PassGoesOn
  <1>4. /\ thread'.todo = thread.todo \ {p} /\ thread'.total = thread.total + rss
        /\ thread'.top = thread.top /\ thread'.pc = "read"
    BY <1>1, <1>2 DEF SamplerInv, SamplerForm, Threads
  <1>5. thread' \in Threads
    BY <1>1, <1>2, <1>3 DEF SamplerInv, SamplerForm, Threads
  <1> QED
    BY <1>2, <1>3, <1>4, <1>5 DEF SamplerInv, SamplerForm, PassBounded, TopCovers, Threads, ReadProcess

(* The pass is complete: a sample, and perhaps a new highest one.          *)
LEMMA AppendKept == SamplerInv /\ AppendSample => SamplerInv'
  <1> SUFFICES ASSUME SamplerInv, AppendSample PROVE SamplerInv'
    OBVIOUS
  <1>1. /\ thread' = [thread EXCEPT !.pc = "check", !.top = Higher(thread.top, thread.total)]
        /\ sampled' = Higher(sampled, thread.total)
        /\ UNCHANGED <<root, stop, peak, late, stragglers, counted>> /\ thread.pc = "read"
    BY DEF AppendSample
  <1>2. thread.top \in 0..MostRss /\ thread.total \in 0..MostRss /\ sampled \in Sums
          /\ counted \in Sums /\ peak = None /\ sampled <= thread.top /\ counted <= sampled
    BY <1>1 DEF SamplerInv, SamplerForm, TopCovers, Threads
  <1>3. thread' \in Threads /\ thread'.top = Higher(thread.top, thread.total) /\ thread'.pc = "check"
    BY <1>1, <1>2 DEF SamplerInv, SamplerForm, Threads, Higher
  <1>4. sampled' \in Sums /\ sampled' <= thread'.top /\ counted <= sampled'
    BY <1>1, <1>2, <1>3, MostIsNat DEF Higher, Sums, None
  <1> QED
    BY <1>1, <1>2, <1>3, <1>4 DEF SamplerInv, SamplerForm, PassBounded, TopCovers

(* No step of a thread, the step's own or a straggler, harms the sampler.  *)
LEMMA ThreadKept == SamplerInv /\ (ThreadStep \/ StragglerEnds) => SamplerInv'
  <1>1. SamplerInv /\ StragglerEnds => SamplerInv'
    BY MostIsNat DEF SamplerInv, SamplerForm, PassBounded, TopCovers, Threads, StragglerEnds
  <1> QED
    BY <1>1, OpenKept, CheckStopKept, ListKept, ReadKept, AppendKept DEF ThreadStep

(* The adapter's calls: a new sampler has seen nothing.                    *)
LEMMA StartKept == SamplerInv /\ StartSampler => SamplerInv'
  <1> SUFFICES ASSUME SamplerInv, StartSampler PROVE SamplerInv'
    OBVIOUS
  <1>1. thread' = [pc |-> "open", todo |-> {}, total |-> 0, top |-> 0]
    BY DEF StartSampler, NoThread
  <1>2. thread' \in Threads /\ thread'.top = 0 /\ thread'.pc = "open"
    BY <1>1, MostIsNat DEF Threads
  <1>3. stragglers' \in 0..MaxStragglers
    BY MostIsNat DEF StartSampler, SamplerInv, SamplerForm
  <1>4. /\ root' = root /\ stop' = FALSE /\ late' = FALSE
        /\ sampled' = None /\ counted' = None /\ peak' = None
    BY DEF StartSampler
  <1>5. None \in Sums /\ None <= 0 /\ None <= None
    BY DEF Sums, None
  <1> QED
    BY <1>2, <1>3, <1>4, <1>5 DEF SamplerInv, SamplerForm, PassBounded, TopCovers

(* The event is set, the join comes back, the sampler is given up.         *)
LEMMA CallsKept ==
    SamplerInv /\ (SetStop \/ Join \/ DropSampler \/ UNCHANGED sampler) => SamplerInv'
  <1> SUFFICES ASSUME SamplerInv, SetStop \/ Join \/ DropSampler \/ UNCHANGED sampler
               PROVE  SamplerInv'
    OBVIOUS
  <1>1. CASE SetStop
    BY <1>1 DEF SamplerInv, SamplerForm, PassBounded, TopCovers, Threads, SetStop
  <1>2. CASE Join
    <2>1. sampled \in Int /\ late' \in BOOLEAN
      BY <1>2, MostIsNat DEF SamplerInv, SamplerForm, Join, Sums, None, Ended
    <2> QED
      BY <1>2, <2>1 DEF SamplerInv, SamplerForm, PassBounded, TopCovers, Join
  <1>3. CASE DropSampler /\ Ended
    <2>1. thread' = [pc |-> "ended", todo |-> {}, total |-> 0, top |-> 0]
      BY <1>3 DEF DropSampler, NoThread
    <2>2. thread' \in Threads /\ thread'.top = 0 /\ thread'.pc = "ended"
      BY <2>1, MostIsNat DEF Threads
    <2>3. /\ UNCHANGED <<root, stragglers>> /\ stop' = FALSE /\ late' = FALSE
          /\ sampled' = None /\ counted' = None /\ peak' = None
      BY <1>3 DEF DropSampler
    <2>4. None \in Sums /\ None <= 0 /\ None <= None
      BY DEF Sums, None
    <2> QED
      BY <2>2, <2>3, <2>4 DEF SamplerInv, SamplerForm, PassBounded, TopCovers
  <1>4. CASE UNCHANGED sampler
    BY <1>4 DEF SamplerInv, SamplerForm, PassBounded, TopCovers, Threads, sampler
  <1> QED
    BY <1>1, <1>2, <1>3, <1>4 DEF DropSampler

(* What becomes of the sampled process is not the sampler's affair.        *)
LEMMA RootKept ==
    ASSUME SamplerInv, root' \in {"alive", "gone", "unknown"},
           UNCHANGED <<thread, stop, sampled, counted, peak, late, stragglers>>
    PROVE  SamplerInv'
  BY DEF SamplerInv, SamplerForm, PassBounded, TopCovers, Threads

-----------------------------------------------------------------------------
(* What the adapter's steps do to the sampler.                             *)
RootMoves ==
    /\ root' \in {"alive", "gone", "unknown"}
    /\ UNCHANGED <<thread, stop, sampled, counted, peak, late, stragglers>>

(* Whatever the program does, the sampler sees one of these.               *)
LEMMA SamplerKinds ==
    ASSUME [Next]_vars
    PROVE  \/ UNCHANGED sampler \/ RootMoves \/ StartSampler
           \/ SetStop \/ Join \/ DropSampler \/ ThreadStep \/ StragglerEnds
  <1>1. CASE StartDefault \/ StartTuned \/ StartDf
    BY <1>1 DEF StartDefault, StartTuned, StartDf, Build, Reach, FailStart
  <1>2. CASE ProbeSpark
    BY <1>2 DEF ProbeSpark, FailStart, RootMoves
  <1>3. CASE SparkDies \/ Exit
    BY <1>3 DEF SparkDies, Exit
  <1>4. CASE StartDuckdb
    BY <1>4 DEF StartDuckdb, FailStart, RootMoves
  <1>5. CASE Health \/ ProbeDf
    BY <1>5 DEF Health, ProbeDf, Reach, FailStart
  <1>6. CASE LocateWorker \/ Stop
    BY <1>6 DEF LocateWorker, Stop, RootMoves
  <1>v. CASE AskVersion
    BY <1>v DEF AskVersion, Reach
  <1>7. CASE WorkerGone
    BY <1>7 DEF WorkerGone, RootGone, RootMoves
  <1>8. CASE \E kind \in Kinds, text \in Texts : Begin(kind, text)
    BY <1>8 DEF Begin
  <1>9. CASE CallFails \/ StatementDone \/ ScriptDone \/ RowsFetched \/ StatsShown
    BY <1>9 DEF CallFails, StatementDone, ScriptDone, RowsFetched, StatsShown, InScript
  <1>10. CASE StopSampler \/ JoinSampler \/ Return
    BY <1>10 DEF StopSampler, JoinSampler, Return
  <1>11. CASE SamplerMoves \/ StragglerMoves
    BY <1>11 DEF SamplerMoves, StragglerMoves
  <1>12. CASE UNCHANGED vars
    BY <1>12 DEF vars
  <1> QED
    BY <1>1, <1>2, <1>3, <1>4, <1>5, <1>6, <1>7, <1>8, <1>9, <1>10, <1>11, <1>12, <1>v
    DEF Next, StepMoves

(* No step of the program harms the sampler.                               *)
LEMMA SamplerKept == SamplerInv /\ [Next]_vars => SamplerInv'
  BY SamplerKinds, RootKept, StartKept, CallsKept, ThreadKept DEF RootMoves

(* An engine taken off the queue leaves a queue of engines.                *)
LEMMA QueueTail ==
    ASSUME Control, queue # <<>>
    PROVE  Tail(queue) \in Seq(Engines) /\ engine \in Engines
  BY DEF Control, engine

(* Steps that leave the engine where it is.                                *)
LEMMA SamePlace ==
    UNCHANGED <<queue, phase, clock>> /\ Control /\ ClockInv => Control' /\ ClockInv'
  BY DEF Control, ClockInv, engine

(* The assumptions, as the leaves below cite them.                         *)
LEMMA Deadlines ==
    /\ HealthDeadline \in Nat /\ CallTimeout \in Nat /\ ProbeTimeout \in Nat \ {0}
    /\ PgrepTimeout \in Nat /\ VersionTimeout \in Nat
  BY AdaptersAssumption DEF AdaptersAssumption

(* A start that raises leaves the engine, and the clock stands at nothing. *)
LEMMA Failed ==
    ASSUME Control, FailStart, queue # <<>>
    PROVE  Control' /\ ClockInv'
  BY QueueTail DEF FailStart, Control, ClockInv

(* Every step keeps the engine in its place and the clock in its bounds: a *)
(* call to the health endpoint begins before the deadline, the probe       *)
(* behind the last one.                                                    *)
LEMMA PlacesKept ==
    ASSUME Control, ClockInv, clock \in Nat, [Next]_vars
    PROVE  Control' /\ ClockInv' /\ clock' \in Nat
  <1>e. queue' = queue => engine' = engine
    BY DEF engine
  <1>n. engine # "none" => queue # <<>>
    BY DEF engine
  <1>f. FailStart => clock' = 0
    BY DEF FailStart
  <1> USE DEF Spark
  <1>1. CASE StartDefault \/ StartTuned
    <2>1. queue # <<>> /\ phase = "between" /\ engine \in Spark
      BY <1>1, <1>n DEF StartDefault, StartTuned, Starting
    <2>2. CASE FailStart
      BY <1>f, <2>1, <2>2, Failed
    <2>3. CASE Reach("probe") /\ clock' = clock
      BY <1>e, <2>1, <2>3 DEF Reach, Control, ClockInv
    <2> QED
      BY <1>1, <2>2, <2>3 DEF StartDefault, StartTuned, Build
  <1>2. CASE ProbeSpark
    <2>1. queue # <<>> /\ phase = "probe" /\ engine \in Spark
      BY <1>2, <1>n DEF ProbeSpark
    <2>2. CASE FailStart
      BY <1>f, <2>1, <2>2, Failed
    <2>3. CASE phase' = "up" /\ UNCHANGED <<queue, clock>>
      BY <1>e, <2>1, <2>3, Deadlines DEF Control, ClockInv
    <2> QED
      BY <1>2, <2>2, <2>3 DEF ProbeSpark
  <1>3. CASE StartDuckdb
    <2>1. queue # <<>> /\ phase = "between"
      BY <1>3, <1>n DEF StartDuckdb, Starting
    <2>2. CASE FailStart
      BY <1>f, <2>1, <2>2, Failed
    <2>3. CASE phase' = "up" /\ UNCHANGED <<queue, clock>>
      BY <1>e, <2>1, <2>3, Deadlines DEF Control, ClockInv
    <2> QED
      BY <1>3, <2>2, <2>3 DEF StartDuckdb
  <1>4. CASE StartDf
    <2>1. queue # <<>> /\ engine = "df"
      BY <1>4, <1>n DEF StartDf, Starting
    <2>2. CASE FailStart
      BY <1>f, <2>1, <2>2, Failed
    <2>3. CASE Reach("health") /\ clock' = 0
      BY <1>e, <2>1, <2>3, Deadlines DEF Reach, Control, ClockInv
    <2> QED
      BY <1>4, <2>2, <2>3 DEF StartDf
  <1>5. CASE Health
    <2>1. queue # <<>> /\ engine = "df"
      BY <1>5 DEF Health, Control
    <2>2. CASE FailStart
      BY <1>f, <2>1, <2>2, Failed
    <2>3. CASE clock < HealthDeadline /\ \E d \in 0..CallTimeout : Reach("probe") /\ clock' = clock + d
      <3>1. clock' < HealthDeadline + CallTimeout /\ clock' \in Nat
        BY <2>3, Deadlines
      <3> QED
        BY <1>e, <2>1, <2>3, <3>1 DEF Reach, Control, ClockInv
    <2>4. CASE clock < HealthDeadline /\ \E d \in 0..CallTimeout : Reach("health") /\ clock' = clock + d + 1
      <3>1. clock' <= HealthDeadline + CallTimeout /\ clock' \in Nat
        BY <2>4, Deadlines
      <3> QED
        BY <1>e, <2>1, <2>4, <3>1 DEF Reach, Control, ClockInv
    <2> QED
      BY <1>5, <2>2, <2>3, <2>4 DEF Health
  <1>6. CASE ProbeDf
    <2>1. queue # <<>> /\ engine = "df" /\ clock < HealthDeadline + CallTimeout
      BY <1>6, <1>n DEF ProbeDf, ClockInv
    <2>2. CASE FailStart
      BY <1>f, <2>1, <2>2, Failed
    <2>3. CASE \E d \in {0, ProbeTimeout} : Reach("probed") /\ clock' = clock + d
      <3>1. clock' < HealthDeadline + CallTimeout + ProbeTimeout /\ clock' \in Nat
        BY <2>1, <2>3, Deadlines
      <3> QED
        BY <1>e, <2>1, <2>3, <3>1 DEF Reach, Control, ClockInv
    <2> QED
      BY <1>6, <2>2, <2>3 DEF ProbeDf
  <1>7. CASE LocateWorker
    <2>1. phase = "probed" /\ phase' = "located" /\ queue' = queue /\ engine = "df"
      BY <1>7 DEF LocateWorker, Control
    <2>2. PICK d \in {0, PgrepTimeout} : clock' = clock + d
      BY <1>7 DEF LocateWorker
    <2>3. clock' < HealthDeadline + CallTimeout + ProbeTimeout + PgrepTimeout /\ clock' \in Nat
      BY <2>1, <2>2, Deadlines DEF ClockInv
    <2> QED
      BY <1>e, <2>1, <2>3 DEF Control, ClockInv
  <1>v. CASE AskVersion
    <2>1. phase = "located" /\ phase' = "up" /\ queue' = queue /\ queue # <<>>
      BY <1>v DEF AskVersion, Reach, Control
    <2>2. PICK d \in {0, VersionTimeout} : clock' = clock + d
      BY <1>v DEF AskVersion
    <2>3. /\ clock' < HealthDeadline + CallTimeout + ProbeTimeout + PgrepTimeout + VersionTimeout
          /\ clock' \in Nat
      BY <2>1, <2>2, Deadlines DEF ClockInv
    <2> QED
      BY <1>e, <2>1, <2>3 DEF Control, ClockInv
  <1>8. CASE Stop
    <2>1. queue # <<>>
      BY <1>8 DEF Stop, Control
    <2> QED
      BY <1>8, <2>1, QueueTail DEF Stop, Control, ClockInv
  <1>9. CASE Exit
    BY <1>9 DEF Exit, Control, ClockInv
  <1>10. CASE SparkDies \/ WorkerGone \/ SamplerMoves \/ StragglerMoves \/ UNCHANGED vars
    BY <1>10, SamePlace DEF SparkDies, WorkerGone, SamplerMoves, StragglerMoves, vars
  <1>11. CASE \E kind \in Kinds, text \in Texts : Begin(kind, text)
    <2>1. queue' = queue /\ clock' = 0 /\ phase = "up" /\ phase' = "step"
      BY <1>11 DEF Begin
    <2> QED
      BY <2>1, <1>e DEF Control, ClockInv
  <1>12. CASE StepMoves
    <2>1. /\ UNCHANGED <<queue, clock>> /\ phase \in {"step", "ended", "joining", "reading"}
          /\ phase' \in {"up", "step", "ended", "joining", "reading"}
      BY <1>12 DEF StepMoves, CallFails, StatementDone, ScriptDone, RowsFetched, StatsShown,
               Sending, InScript, StopSampler, JoinSampler, Return, KeepOutcome
    <2> QED
      BY <2>1, <1>e, Deadlines DEF Control, ClockInv
  <1> QED
    BY <1>1, <1>2, <1>3, <1>4, <1>5, <1>6, <1>7, <1>8, <1>9, <1>10, <1>11, <1>12, <1>v DEF Next

-----------------------------------------------------------------------------
(* The Spark session.                                                      *)
SessionForm == jvm \in {"none", "dead"} \cup Spark /\ cached \in BOOLEAN /\ tunedFailed \in BOOLEAN

(* Steps that leave the session alone, and do not put a Spark engine to    *)
(* work.                                                                   *)
LEMMA SameSession ==
    ASSUME SessionForm, SessionInv, UNCHANGED <<session, queue>>, Running' => Running \/ engine \notin Spark,
           Running /\ engine = "spark-tuned" => Running' \/ tunedFailed
    PROVE  SessionForm' /\ SessionInv'
  <1>1. engine' = engine /\ UNCHANGED <<jvm, cached, tunedFailed>>
    BY DEF engine, session
  <1> HIDE DEF engine
  <1> QED
    BY <1>1 DEF SessionForm, SessionInv, Spark

(* A start that raises and leaves the session as it was.                   *)
LEMMA NotRunning ==
    ASSUME SessionForm, SessionInv, phase' = "between", FailStart, UNCHANGED <<jvm, cached>>
    PROVE  SessionForm' /\ SessionInv'
  <1>1. ~Running' /\ tunedFailed' = (tunedFailed \/ engine = "spark-tuned")
    BY DEF FailStart, Running, InStep
  <1> QED
    BY <1>1 DEF SessionForm, SessionInv

(* A session is built where none lives: it is the one asked for, and       *)
(* cached, or the start raises with nothing alive.                         *)
LEMMA Built ==
    ASSUME SessionForm, SessionInv, NEW before, before \notin Spark,
           before \in {"none", "dead"}, Starting("spark-default") \/ Starting("spark-tuned"),
           NEW config, config = engine, Build(config, before)
    PROVE  SessionForm' /\ SessionInv'
  <1>1. config \in Spark
    BY DEF Starting, Spark
  <1>2. CASE jvm' = before /\ cached' = FALSE /\ FailStart
    <2>1. ~Running' /\ tunedFailed' \in BOOLEAN
      BY <1>2 DEF FailStart, Running, InStep, SessionForm
    <2> QED
      BY <1>2, <2>1 DEF SessionForm, SessionInv, Spark
  <1>3. CASE jvm' = config /\ cached' = TRUE /\ Reach("probe")
    <2>1. Running' /\ engine' = engine /\ tunedFailed' = tunedFailed
      BY <1>3 DEF Reach, Running, engine
    <2> HIDE DEF engine
    <2> QED
      BY <1>1, <1>3, <2>1 DEF SessionForm, SessionInv, Spark
  <1> QED
    BY <1>2, <1>3 DEF Build

(* Every step keeps the session cached while it lives, and of the engine   *)
(* that runs: stop_spark comes before a session of spark-tuned, and stop   *)
(* behind either.                                                          *)
LEMMA SessionKept ==
    ASSUME SessionForm, SessionInv, Control, [Next]_vars
    PROVE  SessionForm' /\ SessionInv'
  <1>e. queue' = queue => engine' = engine
    BY DEF engine
  <1>n. ~cached \/ jvm = "dead" => jvm \in {"none", "dead"}
    BY DEF SessionForm, SessionInv
  <1>1. CASE StartDefault
    <2>1. phase = "between" /\ engine = "spark-default"
      BY <1>1 DEF StartDefault, Starting
    <2>2. CASE cached /\ Reach("probe") /\ UNCHANGED <<jvm, cached, clock>>
      <3>1. jvm # "none" /\ (~tunedFailed => jvm # "spark-tuned")
        BY <2>1, <2>2 DEF SessionInv, Running, InStep
      <3>2. engine' = engine /\ tunedFailed' = tunedFailed
        BY <1>e, <2>2 DEF Reach
      <3> QED
        BY <2>1, <2>2, <3>1, <3>2 DEF SessionForm, SessionInv, Spark, Running, InStep
    <2>3. CASE (~cached \/ jvm = "dead") /\ Build("spark-default", jvm)
      <3>1. jvm \in {"none", "dead"} /\ jvm \notin Spark
        BY <1>n, <2>3 DEF Spark
      <3> QED
        BY <1>1, <2>1, <2>3, <3>1, Built DEF StartDefault
    <2> QED
      BY <1>1, <2>2, <2>3 DEF StartDefault
  <1>2. CASE StartTuned
    <2> DEFINE before == IF cached THEN "none" ELSE jvm
    <2>1. before \in {"none", "dead"} /\ before \notin Spark
      BY <1>n DEF Spark
    <2>2. Starting("spark-tuned") /\ engine = "spark-tuned" /\ Build("spark-tuned", before)
      BY <1>2 DEF StartTuned, Starting
    <2> HIDE DEF before
    <2> QED
      BY <2>1, <2>2, Built
  <1>3. CASE ProbeSpark
    <2>1. CASE FailStart
      BY <1>3, <2>1, NotRunning DEF ProbeSpark, FailStart
    <2>2. CASE phase' = "up" /\ UNCHANGED <<queue, tunedFailed>>
      BY <1>3, <2>2, SameSession DEF ProbeSpark, Running, session
    <2> QED
      BY <1>3, <2>1, <2>2 DEF ProbeSpark
  <1>4. CASE SparkDies
    <2>1. UNCHANGED <<queue, phase, cached, tunedFailed>> /\ jvm' = "dead" /\ (Running' <=> Running)
      BY <1>4 DEF SparkDies, Running, InStep
    <2> QED
      BY <1>e, <2>1 DEF SessionForm, SessionInv, Spark
  <1>5. CASE StartDuckdb \/ StartDf \/ Health \/ ProbeDf
    <2>1. engine \notin Spark /\ UNCHANGED <<jvm, cached>>
      BY <1>5 DEF StartDuckdb, StartDf, Health, ProbeDf, Starting, Spark, Control
    <2>2. CASE FailStart
      BY <2>1, <2>2, NotRunning DEF FailStart
    <2>3. CASE UNCHANGED <<queue, tunedFailed>>
      BY <2>1, <2>3, SameSession DEF session, Spark
    <2> QED
      BY <1>5, <2>2, <2>3 DEF StartDuckdb, StartDf, Health, ProbeDf, Reach
  <1>6. CASE LocateWorker \/ AskVersion
    <2>1. engine \notin Spark
      BY <1>6 DEF LocateWorker, AskVersion, Spark, Control
    <2> QED
      BY <1>6, <2>1, SameSession DEF LocateWorker, AskVersion, Reach, session, Spark
  <1>7. CASE Stop
    <2>1. ~Running' /\ tunedFailed' = tunedFailed /\ Running
      BY <1>7 DEF Stop, Running, InStep
    <2>2. CASE engine \in Spark
      <3>1. cached' = FALSE /\ jvm' \in {"none", "dead"}
        BY <1>7, <1>n, <2>2 DEF Stop
      <3> QED
        BY <2>1, <3>1 DEF SessionForm, SessionInv, Spark
    <2>3. CASE engine \notin Spark
      <3>1. UNCHANGED <<cached, jvm>>
        BY <1>7, <2>3 DEF Stop
      <3> QED
        BY <2>1, <2>3, <3>1 DEF SessionForm, SessionInv, Spark
    <2> QED
      BY <2>2, <2>3
  <1>8. CASE Exit
    BY <1>8, SameSession DEF Exit, Running, InStep
  <1>9. CASE WorkerGone \/ SamplerMoves \/ StragglerMoves \/ UNCHANGED vars
    <2>1. UNCHANGED <<session, queue, phase>>
      BY <1>9 DEF WorkerGone, SamplerMoves, StragglerMoves, vars
    <2> QED
      BY <2>1, SameSession DEF Running, InStep
  <1>10. CASE (\E kind \in Kinds, text \in Texts : Begin(kind, text)) \/ StepMoves
    <2>1. /\ UNCHANGED <<session, queue>> /\ phase \in {"up", "step", "ended", "joining", "reading"}
          /\ phase' \in {"up", "step", "ended", "joining", "reading"}
      BY <1>10 DEF Begin, StepMoves, CallFails, StatementDone, ScriptDone, RowsFetched, StatsShown,
               Sending, InScript, StopSampler, JoinSampler, Return, KeepOutcome
    <2> QED
      BY <2>1, SameSession DEF Running, InStep
  <1> QED
    BY <1>1, <1>2, <1>3, <1>4, <1>5, <1>6, <1>7, <1>8, <1>9, <1>10 DEF Next

-----------------------------------------------------------------------------
(* A step, its sampler and its result.                                     *)
StepInv == StepsOwn /\ Joined /\ PeakCovers

(* Outside a step there is nothing to say of its sampler.                  *)
LEMMA Outside ==
    ASSUME StepInv, ~InStep', result' = result
    PROVE  StepInv'
  BY DEF StepInv, StepsOwn, Joined, PeakCovers, InStep

(* Within a step, while the sampler does not move and is not read.         *)
LEMMA SamplerSame ==
    ASSUME StepInv, UNCHANGED <<sampler, result>>, phase' # "reading",
           InStep' => InStep \/ root = "unknown"
    PROVE  StepInv'
  BY DEF StepInv, StepsOwn, Joined, PeakCovers, sampler, Ended

(* A thread that ends within a step leaves a peak, or left before it       *)
(* began.                                                                  *)
LEMMA ThreadsOwn ==
    ASSUME SamplerForm, StepInv, ThreadStep, UNCHANGED <<phase, result>>
    PROVE  StepInv'
  <1>1. thread \in Threads /\ ~Ended /\ UNCHANGED <<root, late>>
    BY DEF SamplerForm, ThreadStep, Open, CheckStop, List, ReadProcess, AppendSample, Ended
  <1>2. Leave => peak' # None
    <2>1. thread.top \in Nat
      BY <1>1, MostIsNat DEF Threads
    <2> QED
      BY <2>1 DEF Leave, None
  <1>3. ~Leave => thread'.pc # "ended"
    <2> SUFFICES ASSUME ~Leave PROVE thread'.pc # "ended"
      OBVIOUS
    <2>1. Open \/ CheckStop => thread'.pc # "ended"
      BY <1>1 DEF Open, CheckStop, Threads
    <2>2. List => thread'.pc # "ended"
      BY <1>1 DEF List, Threads
    <2>3. ReadProcess \/ AppendSample => thread'.pc # "ended"
      BY <1>1 DEF ReadProcess, AppendSample, Threads
    <2> QED
      BY <2>1, <2>2, <2>3 DEF ThreadStep
  <1>4. StepsOwn'
    BY <1>2, <1>3 DEF StepsOwn
  <1>5. Joined'
    BY <1>1 DEF StepInv, Joined
  <1> QED
    BY <1>4, <1>5 DEF StepInv, PeakCovers

(* The result is made: a peak is the highest of the samples, and the       *)
(* average was made of no others; without one, the thread is late or has   *)
(* left.                                                                   *)
LEMMA ReturnCovers ==
    ASSUME SamplerInv, StepInv, Return
    PROVE  StepInv'
  <1>1. ~InStep' /\ InStep /\ phase = "reading"
    BY DEF Return, InStep
  <1>2. CASE root = "unknown"
    <2>1. result'.peak = None /\ result'.excused = TRUE
      BY <1>2 DEF Return, NoResult
    <2> QED
      BY <1>1, <2>1 DEF StepInv, StepsOwn, Joined, PeakCovers, InStep
  <1>3. CASE root # "unknown"
    <2>1. /\ result'.peak = peak /\ result'.counted = counted
          /\ result'.excused = (late \/ thread.pc = "left")
      BY <1>3 DEF Return
    <2>2. CASE peak = None
      <3>1. late \/ thread.pc = "left"
        BY <1>1, <1>3, <2>2 DEF StepInv, StepsOwn, Joined, Ended
      <3> QED
        BY <1>1, <2>1, <2>2, <3>1 DEF StepInv, StepsOwn, Joined, PeakCovers, InStep
    <2>3. CASE peak # None
      <3>1. counted <= peak
        <4>1. counted \in Int /\ sampled \in Int /\ peak \in Int
          BY MostIsNat DEF SamplerInv, SamplerForm, Sums, None
        <4> QED
          BY <2>3, <4>1 DEF SamplerInv, TopCovers
      <3> QED
        BY <1>1, <2>1, <2>3, <3>1 DEF StepInv, StepsOwn, Joined, PeakCovers, InStep
    <2> QED
      BY <2>2, <2>3
  <1> QED
    BY <1>2, <1>3

(* Every step keeps a step's sampler its own and the last result covered.  *)
LEMMA StepKept ==
    ASSUME SamplerInv, StepInv, [Next]_vars
    PROVE  StepInv'
  <1>1. CASE StartDefault \/ StartTuned \/ StartDf \/ Health
    BY <1>1, Outside DEF StartDefault, StartTuned, StartDf, Health, Build, Reach, FailStart, InStep
  <1>2. CASE ProbeSpark \/ StartDuckdb \/ ProbeDf
    BY <1>2, Outside DEF ProbeSpark, StartDuckdb, ProbeDf, Reach, FailStart, InStep
  <1>3. CASE LocateWorker \/ AskVersion \/ Stop \/ Exit
    BY <1>3, Outside DEF LocateWorker, AskVersion, Reach, Stop, Exit, InStep
  <1>4. CASE SparkDies \/ UNCHANGED vars
    BY <1>4 DEF SparkDies, vars, sampler, StepInv, StepsOwn, Joined, PeakCovers, InStep, Ended
  <1>5. CASE WorkerGone
    <2>1. root = "alive" /\ UNCHANGED <<thread, peak, late, phase, result>>
      BY <1>5 DEF WorkerGone, RootGone
    <2> QED
      BY <2>1 DEF StepInv, StepsOwn, Joined, PeakCovers, InStep, Ended
  <1>6. CASE \E kind \in Kinds, text \in Texts : Begin(kind, text)
    <2>1. phase' = "step" /\ result' = NoResult
      BY <1>6 DEF Begin
    <2>2. root' = "unknown" \/ thread'.pc = "open"
      BY <1>6 DEF Begin, sampler, StartSampler, NoThread
    <2> QED
      BY <2>1, <2>2 DEF StepInv, StepsOwn, Joined, PeakCovers, NoResult
  <1>7. CASE CallFails \/ StatementDone \/ ScriptDone \/ RowsFetched \/ StatsShown
    <2>1. phase = "step" /\ phase' # "reading" /\ UNCHANGED <<sampler, result>>
      BY <1>7 DEF CallFails, StatementDone, ScriptDone, RowsFetched, StatsShown, Sending, InScript
    <2> QED
      BY <2>1, SamplerSame DEF InStep
  <1>8. CASE StopSampler
    <2>1. phase = "ended" /\ UNCHANGED <<root, thread, peak, late, result>>
      BY <1>8 DEF StopSampler, sampler, SetStop
    <2>2. root # "unknown" => phase' = "joining"
      BY <1>8 DEF StopSampler
    <2> QED
      BY <2>1, <2>2 DEF StepInv, StepsOwn, Joined, PeakCovers, InStep
  <1>9. CASE JoinSampler
    <2>1. UNCHANGED <<root, thread, peak, result>> /\ late' = ~Ended /\ phase = "joining"
      BY <1>9 DEF JoinSampler, Join
    <2> QED
      BY <2>1 DEF StepInv, StepsOwn, Joined, PeakCovers, InStep, Ended
  <1>10. CASE Return
    BY <1>10, ReturnCovers
  <1>11. CASE SamplerMoves
    BY <1>11, ThreadsOwn DEF SamplerMoves, SamplerInv
  <1>12. CASE StragglerMoves
    <2>1. UNCHANGED <<root, thread, peak, late, phase, result>>
      BY <1>12 DEF StragglerMoves, StragglerEnds
    <2> QED
      BY <2>1 DEF StepInv, StepsOwn, Joined, PeakCovers, InStep, Ended
  <1> QED
    BY <1>1, <1>2, <1>3, <1>4, <1>5, <1>6, <1>7, <1>8, <1>9, <1>10, <1>11, <1>12
    DEF Next, StepMoves

(* What a step tells.                                                      *)
ValueForm ==
    /\ phase \in {"between", "health", "probe", "probed", "located", "up", "step", "ended",
                  "joining", "reading", "exit"}
    /\ step.kind \in Kinds /\ timed \in Nat /\ exit \in {0, 1} /\ sha \in BOOLEAN
    /\ rows \in Int /\ real \in Int /\ ms \in Int

(* Row counts, and None, are integers.                                     *)
LEMMA Counts == RowCounts \subseteq Int /\ None \in Int
  BY AdaptersAssumption DEF AdaptersAssumption, None

(* Every step keeps what a step tells in its ranges.                       *)
LEMMA ValuesKept ==
    ASSUME ValueForm, [Next]_vars
    PROVE  ValueForm'
  <1>1. CASE StartDefault \/ StartTuned \/ StartDf \/ Health
    BY <1>1 DEF StartDefault, StartTuned, StartDf, Health, Build, Reach, FailStart, ValueForm, outcome
  <1>2. CASE ProbeSpark \/ StartDuckdb \/ ProbeDf
    BY <1>2 DEF ProbeSpark, StartDuckdb, ProbeDf, Reach, FailStart, ValueForm, outcome
  <1>3. CASE LocateWorker \/ AskVersion \/ Stop \/ Exit \/ SparkDies
    BY <1>3 DEF LocateWorker, AskVersion, Reach, Stop, Exit, SparkDies, ValueForm, outcome
  <1>4. CASE UNCHANGED vars \/ WorkerGone \/ SamplerMoves \/ StragglerMoves
    BY <1>4 DEF vars, WorkerGone, SamplerMoves, StragglerMoves, ValueForm, outcome
  <1>5. CASE \E kind \in Kinds, text \in Texts : Begin(kind, text)
    <2>1. PICK kind \in Kinds, text \in Texts : Begin(kind, text)
      BY <1>5
    <2>2. step'.kind = kind /\ phase' = "step" /\ timed' = 0 /\ ms' = None
      BY <2>1 DEF Begin
    <2>3. rows' = None /\ real' = None /\ sha' = FALSE /\ exit' \in {0, 1}
      BY <2>1 DEF Begin
    <2> QED
      BY <2>2, <2>3, Counts DEF ValueForm
  <1>6. CASE CallFails \/ StatementDone \/ ScriptDone
    BY <1>6 DEF CallFails, FailedPart, StatementDone, ScriptDone, Sending, InScript, ValueForm
  <1>7. CASE RowsFetched
    BY <1>7, Counts DEF RowsFetched, Executed, Sending, InScript, ValueForm
  <1>8. CASE StatsShown
    <2>1. real' \in Int /\ UNCHANGED <<phase, timed, sha, step>>
      BY <1>8, Counts DEF StatsShown, InScript
    <2>2. exit' \in {0, 1} /\ rows' \in Int /\ ms' \in Int
      BY <1>8, <2>1, Counts DEF StatsShown, ValueForm, PlainNumber, StrippedNumber
    <2> QED
      BY <2>1, <2>2 DEF ValueForm
  <1>9. CASE StopSampler \/ JoinSampler
    BY <1>9 DEF StopSampler, JoinSampler, KeepOutcome, ValueForm, outcome
  <1>10. CASE Return
    BY <1>10, Counts DEF Return, DropOutcome, ValueForm, Kinds
  <1> QED
    BY <1>1, <1>2, <1>3, <1>4, <1>5, <1>6, <1>7, <1>8, <1>9, <1>10 DEF Next, StepMoves

-----------------------------------------------------------------------------
(* The invariant, in the parts that are kept one by one.                   *)
LEMMA Parts ==
    IInv <=> /\ SamplerInv /\ StepInv
             /\ SessionForm /\ SessionInv
             /\ Control /\ ClockInv /\ clock \in Nat
             /\ ValueForm
  BY TypeForm DEF IInv, TypeOK, SamplerInv, StepInv, SessionForm, ValueForm

(* The invariant holds before the first engine is started.                 *)
LEMMA InitIInv == Init => IInv
  <1> SUFFICES ASSUME Init PROVE IInv
    OBVIOUS
  <1>1. SamplerInv
    <2>1. thread = [pc |-> "ended", todo |-> {}, total |-> 0, top |-> 0]
      BY DEF Init, SamplerInit, NoThread
    <2>2. thread \in Threads /\ thread.top = 0 /\ thread.pc = "ended"
      BY <2>1, MostIsNat DEF Threads
    <2>3. None \in Sums /\ None <= 0 /\ None <= None
      BY DEF Sums, None
    <2>4. root = "unknown" /\ stop = FALSE /\ late = FALSE /\ stragglers \in 0..MaxStragglers
      BY MostIsNat DEF Init, SamplerInit
    <2>5. sampled = None /\ counted = None /\ peak = None
      BY DEF Init, SamplerInit
    <2>6. SamplerForm
      BY <2>2, <2>3, <2>4, <2>5 DEF SamplerForm
    <2> QED
      BY <2>2, <2>3, <2>5, <2>6 DEF SamplerInv, PassBounded, TopCovers
  <1>2. phase = "between" /\ clock = 0
    BY DEF Init
  <1>3. StepInv
    BY <1>2 DEF Init, StepInv, StepsOwn, Joined, PeakCovers, InStep, NoResult
  <1>4. SessionForm /\ SessionInv
    BY <1>2 DEF Init, SessionForm, SessionInv, Spark, Running, InStep
  <1>5. Control /\ ClockInv /\ clock \in Nat
    BY <1>2, AdaptersAssumption DEF Init, AdaptersAssumption, Control, ClockInv
  <1>6. ValueForm
    BY <1>2, Counts DEF Init, ValueForm, Kinds
  <1> QED
    BY <1>1, <1>3, <1>4, <1>5, <1>6, Parts

(* Every step keeps it.                                                    *)
LEMMA NextIInv == IInv /\ [Next]_vars => IInv'
  <1> SUFFICES ASSUME IInv, [Next]_vars PROVE IInv'
    OBVIOUS
  <1>1. SamplerInv /\ StepInv /\ SessionForm /\ SessionInv /\ Control /\ ClockInv /\ clock \in Nat /\ ValueForm
    BY Parts
  <1>2. SamplerInv' /\ StepInv'
    BY <1>1, SamplerKept, StepKept
  <1>3. SessionForm' /\ SessionInv'
    BY <1>1, SessionKept
  <1>4. Control' /\ ClockInv' /\ clock' \in Nat
    BY <1>1, PlacesKept
  <1>5. ValueForm'
    BY <1>1, ValuesKept
  <1>6. IInv' <=> /\ SamplerInv' /\ StepInv'
                  /\ SessionForm' /\ SessionInv'
                  /\ Control' /\ ClockInv' /\ (clock \in Nat)'
                  /\ ValueForm'
    BY Parts, PTL
  <1> QED
    BY <1>2, <1>3, <1>4, <1>5, <1>6

-----------------------------------------------------------------------------
(* The invariant holds in every state: in whatever order the adapter, its  *)
(* sampler threads, the sampled process and the Spark context take their   *)
(* steps.                                                                  *)
THEOREM Invariant == Spec => []IInv
  BY InitIInv, NextIInv, PTL DEF Spec

(* Values stay in their ranges.  The one that is not a declaration: a pass *)
(* over the process tree never adds up more than every process at its      *)
(* highest, for it takes each one once and starts at nothing.              *)
THEOREM TypeCorrect == Spec => []TypeOK
  <1>1. IInv => TypeOK
    BY DEF IInv
  <1> QED
    BY Invariant, <1>1, PTL

(* A start of df is over, one way or the other, before its deadline, one   *)
(* call that began in time, the probe, pgrep and --version have passed.    *)
THEOREM StartsInTime == Spec => []StartBounded
  <1>1. IInv => StartBounded
    <2> SUFFICES ASSUME ClockInv, clock \in Nat PROVE StartBounded
      BY DEF IInv, TypeOK
    <2>1. CASE phase \in {"health", "probe", "probed", "located", "up"}
      BY <2>1, Deadlines DEF ClockInv, StartBounded
    <2>2. CASE phase \notin {"health", "probe", "probed", "located", "up"}
      BY <2>2, Deadlines DEF ClockInv, StartBounded
    <2> QED
      BY <2>1, <2>2
  <1> QED
    BY Invariant, <1>1, PTL

(* A Spark engine runs its steps in a session of its own configuration, or *)
(* in a dead one; spark-default behind a spark-tuned that failed to start  *)
(* is the exception, for nothing stopped what the other had built.         *)
THEOREM MeasuredAsConfigured == Spec => []OwnConfig
  <1>1. IInv => OwnConfig
    BY DEF IInv, SessionInv, Running, OwnConfig
  <1> QED
    BY Invariant, <1>1, PTL

(* The peak of a step is at least every sample its average is made of, and *)
(* it lacks only where the process was gone or the thread not done.        *)
THEOREM PeakIsAbove == Spec => []PeakCovers
  <1>1. IInv => PeakCovers
    BY DEF IInv
  <1> QED
    BY Invariant, <1>1, PTL

-----------------------------------------------------------------------------
(* A set of natural numbers has a least element.                           *)
LEMMA Least ==
    ASSUME NEW S, S \subseteq Nat, S # {}
    PROVE  \E x \in S : \A y \in S : x <= y
  <1> DEFINE R == OpToRel(<, Nat)
  <1>1. IsWellFoundedOn(R, Nat)
    BY NatLessThanWellFounded
  <1>2. \A x, y \in Nat : <<x, y>> \in R <=> x < y
    BY DEF OpToRel
  <1> HIDE DEF R
  <1>3. PICK x \in S : \A y \in S : <<y, x>> \notin R
    BY <1>1, WFMin
  <1>4. \A y \in S : ~(y < x)
    BY <1>2, <1>3
  <1> QED
    BY <1>4

\* Calls do not overlap: of any two, one is before the other.
Before(c, d) == \A m \in c, n \in d : m < n
Apart(cs)    == \A c, d \in cs : c # d => Before(c, d) \/ Before(d, c)
Todo         == UNION calls

ScriptForm ==
    /\ step.text \in Seq(STRING)
    /\ ran \in [DOMAIN step.text -> {0, 1}]
    /\ calls \subseteq SUBSET Words(step.text) /\ Apart(calls)
    /\ lost \subseteq Words(step.text) /\ Ran \cap lost = {}

\* As long as the script goes on, its words are accounted for or still to be sent,
\* the former before the latter.  Only DuckDB is sent a script without words.
Going ==
    phase = "step" =>
        /\ Accounted = Words(step.text) \ Todo /\ Before(Accounted, Todo)
        /\ {} \in calls => engine = "duckdb"

Beginning(S, text) == S \subseteq Words(text) /\ \A n \in S, m \in Words(text) : m < n => m \in S

\* Behind it, a beginning of it is accounted for.
Over ==
    phase \in {"ended", "joining", "reading"} =>
        /\ Beginning(Accounted, step.text)
        /\ exit = 0 => Accounted = Words(step.text)

Idle == ~InStep => step.text = <<>> /\ calls = {} /\ lost = {} /\ timed = 0

\* Every statement that told a time is of words of its own.
Told ==
    /\ timed <= Cardinality(Accounted)
    /\ InStep /\ engine = "duckdb" => timed = 0
    /\ InStep /\ lost # {} => engine = "df"

ScriptInv == ScriptForm /\ Going /\ Over /\ Idle /\ Told

(* The positions of a script, and finitely many executed words among them. *)
LEMMA Positions ==
    ASSUME NEW text \in Seq(STRING)
    PROVE  /\ DOMAIN text = 1..Len(text) /\ Len(text) \in Nat
           /\ DOMAIN text \subseteq Nat /\ IsFiniteSet(DOMAIN text)
           /\ Words(text) \subseteq DOMAIN text
  <1>1. DOMAIN text = 1..Len(text) /\ Len(text) \in Nat
    OBVIOUS
  <1>2. IsFiniteSet(DOMAIN text)
    BY <1>1, FS_Interval
  <1> QED
    BY <1>1, <1>2 DEF Words

LEMMA RanIsFinite ==
    ASSUME ScriptForm
    PROVE  /\ Ran \subseteq DOMAIN step.text /\ Accounted \subseteq DOMAIN step.text
           /\ IsFiniteSet(Accounted) /\ Cardinality(Accounted) \in Nat
  <1>1. Ran \subseteq DOMAIN step.text /\ Accounted \subseteq DOMAIN step.text
    BY Positions DEF Ran, Accounted, ScriptForm
  <1>2. IsFiniteSet(DOMAIN step.text)
    BY Positions DEF ScriptForm
  <1> QED
    BY <1>1, <1>2, FS_Subset, FS_CardinalityType

(* The calls a script is split into are its words, cut where the           *)
(* separators are, and none of them overlaps with another.                 *)
LEMMA SplitIs ==
    ASSUME NEW text \in Seq(STRING), NEW separators
    PROVE  /\ Split(text, separators) \subseteq SUBSET Words(text)
           /\ UNION Split(text, separators) = Words(text)
           /\ {} \notin Split(text, separators)
           /\ Apart(Split(text, separators))
  <1> DEFINE W == Words(text)
             Cuts(n) == CutsBefore(text, separators, n)
             St(n) == Statement(text, separators, n)
  <1>1. \A n \in W : St(n) \subseteq W /\ n \in St(n)
    BY DEF Statement
  <1>2. \A m, n \in W : m \in St(n) <=> Cuts(m) = Cuts(n)
    BY DEF Statement
  <1>3. W \subseteq Nat
    BY Positions
  <1>4. \A m, n \in Nat : m <= n => Cuts(m) \subseteq Cuts(n)
    BY DEF CutsBefore
  <1>5. Split(text, separators) = {St(n) : n \in W}
    BY DEF Split
  <1> HIDE DEF W, Cuts, St
  <1>6. ASSUME NEW a \in W, NEW b \in W, a < b, Cuts(a) # Cuts(b)
        PROVE  Before(St(a), St(b))
    <2> SUFFICES ASSUME NEW m \in St(a), NEW n \in St(b), ~(m < n) PROVE FALSE
      BY DEF Before
    <2>1. Cuts(m) = Cuts(a) /\ Cuts(n) = Cuts(b) /\ m \in Nat /\ n \in Nat
      BY <1>1, <1>2, <1>3
    <2>2. Cuts(a) \subseteq Cuts(b) /\ Cuts(n) \subseteq Cuts(m)
      BY <1>3, <1>4, <1>6, <2>1
    <2> QED
      BY <1>6, <2>1, <2>2
  <1>7. ASSUME NEW a \in W, NEW b \in W, St(a) # St(b)
        PROVE  Before(St(a), St(b)) \/ Before(St(b), St(a))
    <2>1. Cuts(a) # Cuts(b)
      <3> SUFFICES ASSUME Cuts(a) = Cuts(b) PROVE St(a) = St(b)
        BY <1>7
      <3> QED
        BY <1>1, <1>2
    <2>2. a # b /\ a \in Nat /\ b \in Nat
      BY <1>3, <2>1
    <2> QED
      BY <1>6, <2>1, <2>2
  <1> QED
    BY <1>1, <1>5, <1>7 DEF Apart, W

(* Whatever an adapter sends, it is the words of the script.               *)
LEMMA CallsAre ==
    ASSUME NEW e \in Engines, NEW kind \in Kinds, NEW text \in Seq(STRING)
    PROVE  LET cs == Calls(e, kind, text)
           IN  /\ cs \subseteq SUBSET Words(text) /\ UNION cs = Words(text)
               /\ {} \in cs => e = "duckdb"
               /\ Apart(cs)
  <1> DEFINE W == Words(text)
             Good(cs) == /\ cs \subseteq SUBSET W /\ UNION cs = W
                         /\ {} \in cs => e = "duckdb"
                         /\ Apart(cs)
  <1>1. CASE e = "duckdb"
    <2>1. Calls(e, kind, text) = {W}
      BY <1>1 DEF Calls, Spark
    <2>2. Good({W})
      BY <1>1 DEF Apart
    <2> QED
      BY <2>1, <2>2
  <1>2. CASE e = "df" /\ kind = "script"
    <2>1. Calls(e, kind, text) = Split(text, {";"})
      BY <1>2 DEF Calls, Spark
    <2>2. Good(Split(text, {";"}))
      BY SplitIs
    <2> QED
      BY <2>1, <2>2
  <1>3. CASE e \in Spark /\ kind = "script"
    <2>1. Calls(e, kind, text) = Split(text, Breaks)
      BY <1>3 DEF Calls, Spark
    <2>2. Good(Split(text, Breaks))
      BY SplitIs
    <2> QED
      BY <2>1, <2>2
  <1>4. CASE e # "duckdb" /\ kind # "script"
    <2>1. Calls(e, kind, text) = {W} \ {{}}
      BY <1>4 DEF Calls
    <2>2. {W} \ {{}} \subseteq SUBSET W /\ UNION ({W} \ {{}}) = W
      OBVIOUS
    <2>3. {} \notin {W} \ {{}} /\ Apart({W} \ {{}})
      BY DEF Apart
    <2>4. Good({W} \ {{}})
      BY <2>2, <2>3
    <2> QED
      BY <2>1, <2>4
  <1> QED
    BY <1>1, <1>2, <1>3, <1>4 DEF Engines, Spark

(* There is a next call as long as calls are left, and it is before all    *)
(* the others.                                                             *)
LEMMA NextCallIs ==
    ASSUME ScriptForm, calls # {}
    PROVE  NextCall \in calls /\ \A d \in calls \ {NextCall} : Before(NextCall, d)
  <1>1. \E c \in calls : \A d \in calls \ {c} : Before(c, d)
    <2>1. CASE {} \in calls
      BY <2>1 DEF Before
    <2>2. CASE {} \notin calls
      <3>1. Todo \subseteq Nat /\ Todo # {}
        <4>1. Words(step.text) \subseteq Nat
          BY Positions DEF ScriptForm
        <4>2. Todo \subseteq Words(step.text)
          BY DEF Todo, ScriptForm
        <4>3. PICK c \in calls : c # {}
          BY <2>2
        <4> QED
          BY <4>1, <4>2, <4>3 DEF Todo
      <3>2. PICK n \in Todo : \A m \in Todo : n <= m
        BY <3>1, Least
      <3>3. PICK c \in calls : n \in c
        BY <3>2 DEF Todo
      <3>4. ASSUME NEW d \in calls \ {c} PROVE Before(c, d)
        <4> SUFFICES ASSUME Before(d, c) PROVE FALSE
          BY <3>3 DEF ScriptForm, Apart
        <4>1. PICK m \in d : TRUE
          BY <2>2
        <4>2. m \in Todo /\ m < n
          BY <3>3 DEF Todo, Before
        <4> QED
          BY <3>1, <3>2, <4>2
      <3> QED
        BY <3>3, <3>4
    <2> QED
      BY <2>1, <2>2
  <1>2. NextCall = CHOOSE c \in calls : \A d \in calls \ {c} : Before(c, d)
    BY DEF NextCall, Before
  <1> QED
    BY <1>1, <1>2

(* Executing words for the first time, and losing others, adds both to      *)
(* those accounted for.                                                    *)
LEMMA RunAdds ==
    ASSUME ScriptForm, NEW part \in SUBSET Words(step.text), NEW gap \in SUBSET Words(step.text),
           (part \cup gap) \cap Accounted = {}, part \cap gap = {},
           Run(part), lost' = lost \cup gap, step' = step
    PROVE  /\ ran' \in [DOMAIN step.text -> {0, 1}] /\ Ran' \cap lost' = {}
           /\ Accounted' = Accounted \cup (part \cup gap)
           /\ Cardinality(Accounted) <= Cardinality(Accounted')
           /\ part \cup gap # {} => Cardinality(Accounted) + 1 <= Cardinality(Accounted')
           /\ Cardinality(Accounted') \in Nat
  <1>1. part \subseteq DOMAIN step.text /\ gap \subseteq DOMAIN step.text
    BY Positions DEF ScriptForm
  <1>2. /\ DOMAIN ran' = DOMAIN step.text
        /\ \A n \in DOMAIN step.text : ran'[n] = IF n \in part THEN ran[n] + 1 ELSE ran[n]
    BY DEF Run, ScriptForm
  <1>3. \A n \in DOMAIN step.text : ran[n] \in {0, 1} /\ (n \in Ran <=> ran[n] = 1)
    BY DEF ScriptForm, Ran
  <1>d. part \cap Ran = {} /\ gap \cap Ran = {} /\ part \cap lost = {}
    BY DEF Accounted
  <1>4. \A n \in DOMAIN step.text : ran'[n] = IF n \in part \cup Ran THEN 1 ELSE 0
    BY <1>2, <1>3, <1>d
  <1>5. ran' = [n \in DOMAIN step.text |-> ran'[n]]
    BY DEF Run, ScriptForm
  <1>6. ran' \in [DOMAIN step.text -> {0, 1}]
    BY <1>4, <1>5
  <1>7. Ran' = Ran \cup part
    <2>1. Ran' = {n \in DOMAIN ran' : ran'[n] > 0}
      BY DEF Ran
    <2> QED
      BY <1>1, <1>2, <1>4, <2>1, RanIsFinite
  <1>8. Accounted' = Accounted \cup (part \cup gap) /\ Ran' \cap lost' = {}
    BY <1>7, <1>d DEF Accounted, ScriptForm
  <1>9. IsFiniteSet(Accounted')
    BY <1>1, <1>8, Positions, RanIsFinite, FS_Subset DEF ScriptForm
  <1>10. /\ Cardinality(Accounted) \in Nat /\ Cardinality(Accounted') \in Nat
         /\ Cardinality(Accounted) <= Cardinality(Accounted')
    BY <1>8, <1>9, RanIsFinite, FS_Subset, FS_CardinalityType
  <1>11. ASSUME NEW n \in part \cup gap
         PROVE  Cardinality(Accounted) + 1 <= Cardinality(Accounted')
    <2>1. Cardinality(Accounted \cup {n}) = Cardinality(Accounted) + 1
      BY RanIsFinite, FS_AddElement
    <2>2. Accounted \cup {n} \subseteq Accounted'
      BY <1>8
    <2> QED
      BY <1>9, <2>1, <2>2, FS_Subset
  <1> QED
    BY <1>6, <1>8, <1>10, <1>11

(* One more call is executed, or fails unseen: its words are the next ones, *)
(* and the script goes on behind them.                                     *)
LEMMA NextIsExecuted ==
    ASSUME ScriptForm, Going, Sending, NEW part \in SUBSET NextCall, Returned(part),
           UNCHANGED <<phase, step, queue>>
    PROVE  /\ ScriptForm' /\ Going'
           /\ Cardinality(Accounted) \in Nat /\ Cardinality(Accounted') \in Nat
           /\ Cardinality(Accounted) <= Cardinality(Accounted')
           /\ engine # "duckdb" => Cardinality(Accounted) + 1 <= Cardinality(Accounted')
  <1> DEFINE c == NextCall
             W == Words(step.text)
  <1>1. /\ phase = "step" /\ Accounted = W \ Todo /\ Before(Accounted, Todo)
        /\ {} \in calls => engine = "duckdb"
    BY DEF Sending, Going
  <1>2. c \in calls /\ \A d \in calls \ {c} : Before(c, d)
    BY NextCallIs DEF Sending
  <1>3. c \in SUBSET W /\ c \cap Accounted = {} /\ c \subseteq Todo
    BY <1>1, <1>2 DEF ScriptForm, Todo
  <1>4. W \subseteq Nat
    BY Positions DEF ScriptForm
  <1>5. /\ calls' = calls \ {c} /\ Run(part) /\ lost' = lost \cup (c \ part)
        /\ step' = step /\ engine' = engine
    BY DEF Returned, engine
  <1>p. part \cup (c \ part) = c
    OBVIOUS
  <1>6. /\ ran' \in [DOMAIN step.text -> {0, 1}] /\ Ran' \cap lost' = {}
        /\ Accounted' = Accounted \cup c
        /\ Cardinality(Accounted) <= Cardinality(Accounted') /\ Cardinality(Accounted') \in Nat
        /\ c # {} => Cardinality(Accounted) + 1 <= Cardinality(Accounted')
    <2> DEFINE gap == c \ part
    <2>1. gap \in SUBSET W /\ part \in SUBSET W /\ part \cap gap = {} /\ part \cup gap = c
      BY <1>3
    <2> HIDE DEF gap
    <2>2. lost' = lost \cup gap /\ (part \cup gap) \cap Accounted = {}
      BY <1>3, <1>5, <2>1 DEF gap
    <2> QED
      BY <1>5, <2>1, <2>2, RunAdds
  <1>7. Todo' = Todo \ c
    <2>1. Todo' = UNION (calls \ {c})
      BY <1>5 DEF Todo
    <2>2. \A d \in calls \ {c} : d \cap c = {}
      BY <1>2, <1>3, <1>4 DEF Before
    <2> QED
      BY <2>1, <2>2, <1>2 DEF Todo
  <1>8. Before(Accounted \cup c, Todo \ c)
    BY <1>1, <1>2 DEF Before, Todo
  <1>9. ScriptForm'
    BY <1>3, <1>5, <1>6 DEF ScriptForm, Apart
  <1>10. Going'
    <2>1. Accounted' = Words(step'.text) \ Todo'
      BY <1>1, <1>3, <1>5, <1>6, <1>7
    <2>2. Before(Accounted', Todo')
      BY <1>6, <1>7, <1>8
    <2>3. {} \in calls' => engine' = "duckdb"
      BY <1>1, <1>5
    <2> QED
      BY <2>1, <2>2, <2>3 DEF Going
  <1> HIDE DEF c, W
  <1> QED
    BY <1>1, <1>2, <1>6, <1>9, <1>10, RanIsFinite

(* The invariant speaks of these variables, and of the engine.             *)
LEMMA ScriptSame ==
    ASSUME ScriptInv, UNCHANGED <<outcome, queue, phase>>
    PROVE  ScriptInv'
  <1>1. UNCHANGED <<step, calls, ran, lost, timed, exit, phase, engine>>
    BY DEF outcome, engine
  <1>2. UNCHANGED <<Ran, Accounted, Todo>>
    BY <1>1 DEF Accounted, Ran, Todo
  <1>3. ScriptForm' /\ Going'
    BY <1>1, <1>2 DEF ScriptInv, ScriptForm, Going, Apart
  <1>4. Over' /\ Idle' /\ Told'
    BY <1>1, <1>2 DEF ScriptInv, Over, Idle, Told, InStep, Beginning
  <1> QED
    BY <1>3, <1>4 DEF ScriptInv

(* Between the steps nothing is left of one.                               *)
LEMMA ScriptIdle ==
    ASSUME ScriptInv, UNCHANGED outcome, ~InStep, ~InStep'
    PROVE  ScriptInv'
  <1>1. UNCHANGED <<step, calls, ran, lost, timed, exit>>
    BY DEF outcome
  <1>2. UNCHANGED <<Ran, Accounted, Todo>>
    BY <1>1 DEF Accounted, Ran, Todo
  <1>3. ScriptForm' /\ Going' /\ Over'
    BY <1>1, <1>2 DEF ScriptInv, ScriptForm, Going, Over, Apart, InStep
  <1>4. Idle' /\ Told'
    BY <1>1, <1>2 DEF ScriptInv, Idle, Told, InStep
  <1> QED
    BY <1>3, <1>4 DEF ScriptInv

(* Behind the script the sampler is stopped, and the result made; what was *)
(* executed stays.                                                         *)
LEMMA ScriptOver ==
    ASSUME ScriptInv, UNCHANGED <<outcome, queue>>,
           phase \in {"ended", "joining", "reading"}, phase' \in {"ended", "joining", "reading"}
    PROVE  ScriptInv'
  <1>1. UNCHANGED <<step, calls, ran, lost, timed, exit, engine>>
    BY DEF outcome, engine
  <1>2. UNCHANGED <<Ran, Accounted, Todo>>
    BY <1>1 DEF Accounted, Ran, Todo
  <1>3. ScriptForm' /\ Going'
    BY <1>1, <1>2 DEF ScriptInv, ScriptForm, Going, Apart
  <1>4. Over' /\ Idle' /\ Told'
    BY <1>1, <1>2 DEF ScriptInv, Over, Idle, Told, InStep, Beginning
  <1> QED
    BY <1>3, <1>4 DEF ScriptInv

\* No step runs, and nothing of one is kept.
Nothing == /\ step = [kind |-> "script", text |-> <<>>]
           /\ calls = {} /\ ran = <<>> /\ lost = {} /\ timed = 0 /\ ~InStep

(* Then there is nothing to account for.                                   *)
LEMMA NothingRuns == Nothing => ScriptInv
  <1> SUFFICES ASSUME Nothing PROVE ScriptInv
    OBVIOUS
  <1>1. step.text = <<>> /\ step.text \in Seq(STRING) /\ DOMAIN step.text = {}
    BY DEF Nothing
  <1>2. ran \in [DOMAIN step.text -> {0, 1}] /\ Accounted = {} /\ lost = {}
    BY <1>1 DEF Accounted, Ran, Nothing
  <1>3. ScriptForm
    BY <1>1, <1>2 DEF ScriptForm, Apart, Nothing
  <1>4. Cardinality(Accounted) = 0
    BY <1>2, FS_EmptySet
  <1> QED
    BY <1>1, <1>3, <1>4 DEF Nothing, ScriptInv, Going, Over, Idle, Told, InStep

(* A step begins: nothing of its script was executed, all of it is to be   *)
(* sent.                                                                   *)
LEMMA ScriptBegins ==
    ASSUME ScriptInv, Control, NEW kind \in Kinds, NEW text \in Texts, Begin(kind, text)
    PROVE  ScriptInv'
  <1>1. text \in Seq(STRING)
    BY AdaptersAssumption DEF AdaptersAssumption
  <1>2. engine \in Engines /\ engine' = engine /\ phase' = "step"
    BY QueueTail DEF Begin, Control, engine
  <1>3. /\ step'.text = text /\ calls' = Calls(engine, kind, text)
        /\ ran' = [n \in DOMAIN text |-> 0] /\ timed' = 0 /\ lost' = {}
    BY DEF Begin
  <1>4. /\ calls' \subseteq SUBSET Words(text) /\ UNION calls' = Words(text)
        /\ {} \in calls' => engine = "duckdb"
        /\ Apart(calls')
    BY <1>1, <1>2, <1>3, CallsAre
  <1>5. Accounted' = {} /\ Todo' = Words(text)
    BY <1>3, <1>4 DEF Accounted, Ran, Todo
  <1>6. ScriptForm'
    <2>1. ran' \in [DOMAIN text -> {0, 1}]
      BY <1>3
    <2> QED
      BY <1>1, <1>3, <1>4, <2>1 DEF ScriptForm, Apart
  <1>7. Going'
    BY <1>2, <1>3, <1>4, <1>5 DEF Going, Before
  <1>8. Cardinality(Accounted') = 0
    BY <1>5, FS_EmptySet
  <1>9. Over' /\ Idle' /\ Told'
    BY <1>2, <1>3, <1>8 DEF Over, Idle, Told, InStep
  <1> QED
    BY <1>6, <1>7, <1>9 DEF ScriptInv

(* A call fails: a beginning of it was executed, behind all the calls      *)
(* before it.                                                              *)
LEMMA ScriptFails ==
    ASSUME ScriptInv, timed \in Nat, CallFails
    PROVE  ScriptInv'
  <1> DEFINE c == NextCall
             W == Words(step.text)
  <1>1. /\ phase = "step" /\ calls # {} /\ phase' = "ended" /\ exit' = 1
        /\ UNCHANGED <<calls, lost, timed, step, queue>> /\ engine' = engine
    BY DEF CallFails, Sending, FailedPart, InScript, engine
  <1>2. PICK k \in 0..Len(step.text) : Run({m \in c : m <= k})
    BY DEF CallFails, FailedPart
  <1> DEFINE part == {m \in c : m <= k}
  <1>3. Accounted = W \ Todo /\ Before(Accounted, Todo)
    BY <1>1 DEF ScriptInv, Going
  <1>4. c \in calls /\ \A d \in calls \ {c} : Before(c, d)
    BY <1>1, NextCallIs DEF ScriptInv
  <1>5. part \in SUBSET W /\ part \cap Accounted = {} /\ part \subseteq Todo
    BY <1>3, <1>4 DEF ScriptInv, ScriptForm, Todo
  <1>6. W \subseteq Nat
    BY Positions DEF ScriptInv, ScriptForm
  <1>7. /\ ran' \in [DOMAIN step.text -> {0, 1}] /\ Ran' \cap lost' = {}
        /\ Accounted' = Accounted \cup part
        /\ Cardinality(Accounted) <= Cardinality(Accounted') /\ Cardinality(Accounted') \in Nat
    <2>1. {} \in SUBSET W /\ lost' = lost \cup {} /\ part \cup {} = part /\ part \cap {} = {}
      BY <1>1
    <2> HIDE DEF part
    <2> QED
      BY <1>1, <1>2, <1>5, <2>1, RunAdds DEF ScriptInv, part
  <1>8. ScriptForm'
    BY <1>1, <1>7 DEF ScriptInv, ScriptForm, Apart
  <1>9. Beginning(Accounted', step'.text)
    <2> SUFFICES ASSUME NEW n \in Accounted \cup part, NEW m \in W, m < n
                 PROVE  m \in Accounted \cup part
      BY <1>1, <1>3, <1>5, <1>7 DEF Beginning
    <2>1. SUFFICES ASSUME m \in Todo PROVE m \in part
      BY <1>3
    <2>2. n \notin Accounted /\ n \in part /\ n \in c /\ n <= k
      <3>1. n \notin Accounted
        BY <1>3, <1>6, <2>1 DEF Before
      <3> QED
        BY <3>1
    <2>3. PICK d \in calls : m \in d
      BY <2>1 DEF Todo
    <2>4. d = c
      <3> SUFFICES ASSUME d # c PROVE FALSE
        OBVIOUS
      <3>1. n < m
        BY <1>4, <2>2, <2>3 DEF Before
      <3>2. n \in Nat /\ m \in Nat
        BY <1>5, <1>6, <2>2
      <3> QED
        BY <3>1, <3>2
    <2>5. m \in Nat /\ n \in Nat /\ k \in Nat
      BY <1>5, <1>6, <2>2
    <2> QED
      BY <2>2, <2>3, <2>4, <2>5
  <1>10. Over' /\ Going' /\ Idle'
    BY <1>1, <1>9 DEF Over, Going, Idle, InStep
  <1>11. Told'
    <2>1. timed <= Cardinality(Accounted) /\ Cardinality(Accounted) \in Nat /\ timed' = timed
      BY <1>1, RanIsFinite DEF ScriptInv, Told
    <2>2. (engine' = "duckdb" => timed' = 0) /\ (lost' # {} => engine' = "df")
      BY <1>1 DEF ScriptInv, Told, InStep
    <2> QED
      BY <1>7, <2>1, <2>2 DEF Told
  <1> QED
    BY <1>8, <1>10, <1>11 DEF ScriptInv

(* A call is executed whole: a statement tells one time at most, of words  *)
(* of its own, and DuckDB tells none.                                      *)
LEMMA ScriptGoesOn ==
    ASSUME ScriptInv, timed \in Nat, StatementDone \/ RowsFetched \/ StatsShown
    PROVE  ScriptInv'
  <1>1. /\ Sending /\ UNCHANGED <<phase, step, queue>>
        /\ engine' = engine /\ phase = "step"
    BY DEF StatementDone, RowsFetched, StatsShown, Sending, InScript, engine
  <1>p. \E part \in SUBSET NextCall :
           Returned(part) /\ (part # NextCall => engine = "df")
    BY DEF StatementDone, RowsFetched, StatsShown, Executed, LooksWell
  <1>q. PICK part \in SUBSET NextCall : Returned(part) /\ (part # NextCall => engine = "df")
    BY <1>p
  <1>l. InStep' /\ lost' # {} => engine' = "df"
    BY <1>1, <1>q DEF Returned, ScriptInv, Told, InStep
  <1>2. /\ ScriptForm' /\ Going'
        /\ Cardinality(Accounted) \in Nat /\ Cardinality(Accounted') \in Nat
        /\ Cardinality(Accounted) <= Cardinality(Accounted')
        /\ engine # "duckdb" => Cardinality(Accounted) + 1 <= Cardinality(Accounted')
    BY <1>1, <1>q, NextIsExecuted DEF ScriptInv
  <1>3. IF engine = "duckdb" THEN timed' = 0 ELSE timed' \in {timed, timed + 1}
    <2>1. CASE StatementDone
      BY <2>1 DEF StatementDone
    <2>2. CASE RowsFetched \/ StatsShown
      BY <1>1, <2>2 DEF RowsFetched, StatsShown, ScriptInv, Told, InStep
    <2> QED
      BY <2>1, <2>2
  <1>4. timed <= Cardinality(Accounted)
    BY DEF ScriptInv, Told
  <1>5. timed' <= Cardinality(Accounted')
    BY <1>2, <1>3, <1>4
  <1>6. Over' /\ Idle' /\ Told'
    BY <1>1, <1>3, <1>5, <1>l DEF Over, Idle, Told, InStep
  <1> QED
    BY <1>2, <1>6 DEF ScriptInv

(* The script is through, or a query failed behind its execution.          *)
LEMMA ScriptEnds ==
    ASSUME ScriptInv, ScriptDone
    PROVE  ScriptInv'
  <1>1. /\ phase = "step" /\ phase' = "ended" /\ (calls = {} \/ exit # 0)
        /\ UNCHANGED <<calls, ran, lost, timed, exit, step, queue>> /\ engine' = engine
    BY DEF ScriptDone, InScript, engine
  <1>2. Accounted' = Accounted /\ Ran' = Ran
    BY <1>1 DEF Accounted, Ran
  <1>3. Accounted = Words(step.text) \ Todo /\ Before(Accounted, Todo)
    BY <1>1 DEF ScriptInv, Going
  <1>4. ScriptForm'
    BY <1>1, <1>2 DEF ScriptInv, ScriptForm, Apart
  <1>5. Beginning(Accounted, step.text)
    <2>1. Words(step.text) \subseteq Nat
      BY Positions DEF ScriptInv, ScriptForm
    <2> QED
      BY <1>3, <2>1 DEF Beginning, Before
  <1>6. exit = 0 => Accounted = Words(step.text)
    BY <1>1, <1>3 DEF Todo
  <1>7. Over' /\ Going' /\ Idle' /\ Told'
    BY <1>1, <1>2, <1>5, <1>6 DEF ScriptInv, Over, Going, Idle, Told, InStep
  <1> QED
    BY <1>4, <1>7 DEF ScriptInv

(* Every step of the program keeps the account of the script.              *)
LEMMA ScriptKept ==
    ASSUME ScriptInv, Control, timed \in Nat, [Next]_vars
    PROVE  ScriptInv'
  <1>1. CASE StartDefault \/ StartTuned \/ StartDf \/ Health
    <2>1. UNCHANGED outcome /\ ~InStep /\ ~InStep'
      BY <1>1 DEF StartDefault, StartTuned, StartDf, Health, Starting, Build, Reach, FailStart, InStep
    <2> QED
      BY <2>1, ScriptIdle
  <1>2. CASE ProbeSpark \/ StartDuckdb \/ ProbeDf
    <2>1. UNCHANGED outcome /\ ~InStep /\ ~InStep'
      BY <1>2 DEF ProbeSpark, StartDuckdb, ProbeDf, Starting, Reach, FailStart, InStep
    <2> QED
      BY <2>1, ScriptIdle
  <1>3. CASE LocateWorker \/ AskVersion \/ Stop \/ Exit
    <2>1. UNCHANGED outcome /\ ~InStep /\ ~InStep'
      BY <1>3 DEF LocateWorker, AskVersion, Reach, Stop, Exit, InStep
    <2> QED
      BY <2>1, ScriptIdle
  <1>4. CASE SparkDies \/ WorkerGone \/ SamplerMoves \/ StragglerMoves \/ UNCHANGED vars
    <2>1. UNCHANGED <<outcome, queue, phase>>
      BY <1>4 DEF SparkDies, WorkerGone, SamplerMoves, StragglerMoves, vars
    <2> QED
      BY <2>1, ScriptSame
  <1>5. CASE \E kind \in Kinds, text \in Texts : Begin(kind, text)
    BY <1>5, ScriptBegins
  <1>6. CASE CallFails
    BY <1>6, ScriptFails
  <1>7. CASE StatementDone \/ RowsFetched \/ StatsShown
    BY <1>7, ScriptGoesOn
  <1>8. CASE ScriptDone
    BY <1>8, ScriptEnds
  <1>9. CASE StopSampler \/ JoinSampler
    <2>1. /\ UNCHANGED <<outcome, queue>> /\ phase \in {"ended", "joining"}
          /\ phase' \in {"joining", "reading"}
      BY <1>9 DEF StopSampler, JoinSampler, KeepOutcome
    <2> QED
      BY <2>1, ScriptOver
  <1>10. CASE Return
    <2>1. Nothing'
      BY <1>10 DEF Return, DropOutcome, InStep, Nothing
    <2>2. Nothing' => ScriptInv'
      BY NothingRuns, PTL
    <2> QED
      BY <2>1, <2>2
  <1> QED
    BY <1>1, <1>2, <1>3, <1>4, <1>5, <1>6, <1>7, <1>8, <1>9, <1>10 DEF Next, StepMoves

(* The script is sent once and in order: at any time a beginning of it was *)
(* executed but for what df lost in calls whose failure was not seen, no   *)
(* word twice, and all of it behind an exit code of 0; whatever the        *)
(* script, wherever the adapter cuts it, whichever calls fail and however  *)
(* much of them the engine had done.                                       *)
THEOREM ScriptsRunOnce == Spec => []OnceInOrder
  <1>1. Init => ScriptInv
    BY NothingRuns DEF Init, InStep, Nothing
  <1>2. IInv /\ ScriptInv /\ [Next]_vars => ScriptInv'
    BY ScriptKept DEF IInv, TypeOK
  <1>3. ScriptInv => OnceInOrder
    <2> SUFFICES ASSUME ScriptInv PROVE OnceInOrder
      OBVIOUS
    <2>1. Accounted \subseteq Words(step.text) /\ \A n \in Accounted, m \in Words(step.text) : m < n => m \in Accounted
      <3>1. CASE phase = "step"
        <4>1. Words(step.text) \subseteq Nat
          BY Positions DEF ScriptInv, ScriptForm
        <4> QED
          BY <3>1, <4>1 DEF ScriptInv, Going, Before
      <3>2. CASE phase \in {"ended", "joining", "reading"}
        BY <3>2 DEF ScriptInv, Over, Beginning
      <3>3. CASE ~InStep
        <4>1. DOMAIN step.text = {}
          BY <3>3 DEF ScriptInv, Idle
        <4> QED
          BY <4>1, RanIsFinite DEF ScriptInv
      <3> QED
        BY <3>1, <3>2, <3>3 DEF InStep
    <2>2. (\A n \in Ran : ran[n] = 1) /\ Ran \cap lost = {}
      BY DEF ScriptInv, ScriptForm, Ran
    <2>3. lost # {} => engine = "df"
      BY DEF ScriptInv, Idle, Told
    <2> QED
      BY <2>1, <2>2, <2>3 DEF OnceInOrder, ScriptInv, Over, Told
  <1> QED
    BY <1>1, <1>2, <1>3, Invariant, PTL DEF Spec
=============================================================================
