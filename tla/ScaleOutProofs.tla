--------------------------- MODULE ScaleOutProofs ---------------------------
(***************************************************************************)
(* Proofs about the scale-out benchmark, for every matrix, cap, host and   *)
(* size of a worker: its streams share a processor only with an orphan,    *)
(* its cleaning loses no wall time of the latest batches but an orphan's,  *)
(* its summary names the failed batches and no other, and the percentiles  *)
(* and verdicts of its curve are in order.                                 *)
(***************************************************************************)
EXTENDS ScaleOut, CurveProofs

(* The positions of the loops and the processes.                           *)
ControlOK ==
  /\ pc \in {"validate", "launch", "wait", "aggregate", "clean", "exited"}
  /\ request \in Requests
  /\ phase \in Phases
  /\ next \in Nat \ {0}
  /\ streams \in [Phases -> [StreamIds -> {"none"} \union Live \union Exited]]
  /\ orphaned \subseteq (Phases \ {0}) \X StreamIds

(* Nothing is launched before every value of the matrix is known to fit.   *)
Validated == pc \in {"launch", "wait"} => \A n \in NValues : Fits(n)

(* A stream with a parent process to wait for.                             *)
Running(p, i) == streams[p][i] \in Live /\ <<p, i>> \notin orphaned

(* A live stream is one of its batch, and of the current one unless it is  *)
(* an orphan.                                                              *)
OnlyThisBatch ==
  \A p \in Phases, i \in StreamIds :
    /\ streams[p][i] \in Live =>
         /\ i <= N(p)
         /\ \A n \in NValues : Fits(n)
         /\ Running(p, i) => p = phase
    /\ <<p, i>> \in orphaned => i <= N(p)

(* The streams the wait loop has passed are gone, or orphans.              *)
WaitedFor ==
  /\ pc = "wait" =>
       \A i \in StreamIds : i < next => ~Running(phase, i)
  /\ pc \in {"validate", "aggregate", "clean"} =>
       \A p \in Phases, i \in StreamIds : ~Running(p, i)

(* The invariant of the loops and the processes.                           *)
IInv == ControlOK /\ Validated /\ OnlyThisBatch /\ WaitedFor

-----------------------------------------------------------------------------
(* A smaller number of workers needs no more processors.                   *)
LEMMA FewerWorkers ==
  ASSUME NEW i \in Nat, NEW n \in Nat, NEW k \in Nat, i <= n
  PROVE  i * k <= n * k
  <1> DEFINE d == n - i
  <1>1. d \in Nat /\ n = i + d
    OBVIOUS
  <1>2. d * k \in Nat
    BY <1>1
  <1>3. n * k = i * k + d * k
    BY <1>1
  <1>4. i * k \in Nat /\ n * k \in Nat
    OBVIOUS
  <1> QED
    BY <1>2, <1>3, <1>4

(* Different streams have different processors.                            *)
LEMMA DisjointBlocks ==
  ASSUME NEW i \in StreamIds, NEW j \in StreamIds, i # j
  PROVE  AllowedCpus(i) \intersect AllowedCpus(j) = {}
  <1>1. i \in Nat /\ j \in Nat /\ i - 1 \in Nat /\ j - 1 \in Nat /\ CoresPerWorker \in Nat
    BY ScaleOutAssumption DEF StreamIds
  <1> DEFINE first(x) == (x - 1) * CoresPerWorker
             end(x) == x * CoresPerWorker
  <1>2. first(i) \in Int /\ first(j) \in Int /\ end(i) \in Int /\ end(j) \in Int
    BY <1>1
  <1>3. end(i) <= first(j) \/ end(j) <= first(i)
    <2>1. CASE i <= j - 1
      BY <1>1, <2>1, FewerWorkers
    <2>2. CASE j <= i - 1
      BY <1>1, <2>2, FewerWorkers
    <2> QED
      BY <1>1, <2>1, <2>2
  <1>4. AllowedCpus(i) = first(i) .. end(i) - 1 /\ AllowedCpus(j) = first(j) .. end(j) - 1
    BY DEF AllowedCpus
  <1> HIDE DEF first, end
  <1> QED
    BY <1>2, <1>3, <1>4

(* The block of a stream of a batch that fits lies within the host.        *)
LEMMA BlockOnHost ==
  ASSUME NEW i \in StreamIds, NEW n \in Nat \ {0}, i <= n, Fits(n)
  PROVE  AllowedCpus(i) \subseteq 0 .. HostCpus - 1
  <1> USE ScaleOutAssumption
  <1>1. i \in Nat /\ i - 1 \in Nat /\ n \in Nat
    BY DEF StreamIds
  <1>2. i * CoresPerWorker <= n * CoresPerWorker
    BY <1>1, FewerWorkers
  <1>3. 0 * CoresPerWorker <= (i - 1) * CoresPerWorker
    BY <1>1, FewerWorkers
  <1>4. n * CoresPerWorker <= HostCpus
    BY DEF Fits
  <1> DEFINE first == (i - 1) * CoresPerWorker
             end == i * CoresPerWorker
  <1>5. 0 <= first /\ first \in Int /\ end \in Int /\ end <= HostCpus
    <2>1. n * CoresPerWorker \in Int /\ end \in Int /\ first \in Int
      BY <1>1
    <2>2. 0 * CoresPerWorker = 0
      BY <1>1
    <2>3. 0 <= first
      BY <1>3, <2>2
    <2>4. end <= HostCpus
      <3> HIDE DEF first
      <3> QED
        BY <1>2, <1>4, <2>1
    <2> QED
      BY <2>1, <2>3, <2>4
  <1>6. AllowedCpus(i) = first .. end - 1
    BY DEF AllowedCpus
  <1> HIDE DEF first, end
  <1> QED
    BY <1>5, <1>6

(* What the matrix names is a positive number; the warmup is one stream.   *)
LEMMA BatchSize ==
  ASSUME ControlOK, NEW p \in Phases
  PROVE  /\ N(p) \in Nat \ {0}
         /\ p # 0 => N(p) \in NValues
  BY ScaleOutAssumption DEF ControlOK, N, NValues, Phases

(* If every value of the matrix fits, so does the batch of every phase.    *)
LEMMA BatchFits ==
  ASSUME ControlOK, NEW p \in Phases, \A n \in NValues : Fits(n)
  PROVE  Fits(N(p))
  <1>1. CASE p # 0
    BY <1>1, BatchSize
  <1>2. CASE p = 0
    <2>1. PICK n \in NValues : n \in Nat \ {0} /\ Fits(n)
      <3>1. 1 \in DOMAIN request /\ request[1] \in Nat \ {0}
        BY ScaleOutAssumption DEF ControlOK
      <3> QED
        BY <3>1 DEF NValues
    <2>2. 1 * CoresPerWorker <= n * CoresPerWorker
      BY <2>1, FewerWorkers, ScaleOutAssumption
    <2>3. N(p) = 1
      BY <1>2 DEF N
    <2>4. n * CoresPerWorker \in Nat /\ 1 * CoresPerWorker \in Nat
      BY <2>1, ScaleOutAssumption
    <2>5. 1 <= NMax /\ n * CoresPerWorker <= HostCpus
      BY <2>1, ScaleOutAssumption DEF Fits
    <2>6. 1 * CoresPerWorker <= HostCpus
      BY <2>2, <2>4, <2>5, ScaleOutAssumption
    <2> QED
      BY <2>3, <2>5, <2>6 DEF Fits
  <1> QED
    BY <1>1, <1>2

-----------------------------------------------------------------------------
(* It holds before anything is launched.                                   *)
LEMMA InitIInv == Init => IInv
  BY DEF Init, IInv, ControlOK, Validated, OnlyThisBatch, WaitedFor, Phases,
         Live, Exited, Running

(* A live process that moves keeps the invariant, whether it goes on or    *)
(* exits: it is the only thing that changes.                               *)
LEMMA StreamMoves ==
  ASSUME IInv, NEW p \in Phases, NEW i \in StreamIds,
         streams[p][i] \in Live,
         NEW s \in Live \union Exited, SetStream(p, i, s),
         UNCHANGED control
  PROVE  IInv'
  <1> USE DEF IInv, ControlOK, control
  <1>1. streams' = [streams EXCEPT ![p] = [@ EXCEPT ![i] = s]]
    BY DEF SetStream
  <1>2. Phases' = Phases /\ NValues' = NValues /\ orphaned' = orphaned
    BY DEF Phases, NValues, SetStream
  <1>3. \A x \in Phases, j \in StreamIds :
          /\ streams'[x][j] \in Live => streams[x][j] \in Live
          /\ Running(x, j)' => Running(x, j)
    BY <1>1, <1>2 DEF Running
  <1>4. ControlOK'
    BY <1>1, <1>2
  <1>5. Validated'
    BY <1>2 DEF Validated, Fits
  <1>6. OnlyThisBatch'
    BY <1>2, <1>3 DEF OnlyThisBatch, N, Fits
  <1>7. WaitedFor'
    BY <1>2, <1>3 DEF WaitedFor
  <1> QED
    BY <1>4, <1>5, <1>6, <1>7

(* A step that leaves the processes alone and keeps the phase.             *)
LEMMA ScriptMoves ==
  ASSUME IInv, UNCHANGED <<request, phase, batches>>,
         pc' \in {"validate", "launch", "wait", "aggregate", "clean", "exited"},
         next' \in Nat \ {0},
         Validated', WaitedFor'
  PROVE  IInv'
  BY DEF IInv, ControlOK, OnlyThisBatch, Phases, NValues, N, Fits, Running, batches

(* The death of a parent leaves fewer streams that run under theirs.       *)
LEMMA ParentMoves ==
  ASSUME IInv, NEW p \in Phases \ {0}, NEW i \in StreamIds, ParentDies(p, i)
  PROVE  IInv'
  <1>1. /\ UNCHANGED <<pc, request, phase, next, streams>>
        /\ orphaned' = orphaned \union {<<p, i>>}
    BY DEF ParentDies, control
  <1>2. Phases' = Phases /\ NValues' = NValues /\ \A r : N(r)' = N(r)
    BY <1>1 DEF Phases, NValues, N
  <1>3. \A r \in Phases, j \in StreamIds : Running(r, j)' => Running(r, j)
    BY <1>1 DEF Running
  <1>4. ControlOK'
    BY <1>1, <1>2 DEF IInv, ControlOK
  <1>5. Validated' /\ WaitedFor'
    BY <1>1, <1>2, <1>3 DEF IInv, ControlOK, Validated, WaitedFor, Fits
  <1>6. ASSUME NEW r \in Phases, NEW j \in StreamIds, <<r, j>> \in orphaned'
        PROVE  j <= N(r)
    <2>1. <<r, j>> \in orphaned \/ (r = p /\ j = i)
      BY <1>1, <1>6
    <2> QED
      BY <2>1 DEF IInv, OnlyThisBatch, ParentDies
  <1>7. ASSUME NEW r \in Phases, NEW j \in StreamIds, streams'[r][j] \in Live
        PROVE  j <= N(r) /\ (\A n \in NValues : Fits(n)) /\ (Running(r, j)' => r = phase)
    BY <1>1, <1>3, <1>7 DEF IInv, OnlyThisBatch
  <1>8. OnlyThisBatch'
    BY <1>1, <1>2, <1>6, <1>7 DEF OnlyThisBatch, Fits
  <1> QED
    BY <1>4, <1>5, <1>8 DEF IInv

(* Every step of the script and of a process keeps the invariant.          *)
LEMMA NextIInv == IInv /\ [Next]_vars => IInv'
  <1> SUFFICES ASSUME IInv, [Next]_vars PROVE IInv'
    OBVIOUS
  <1> USE DEF IInv, ControlOK
  <1>1. CASE Validate
    BY <1>1, ScriptMoves DEF Validate, Validated, WaitedFor, Phases, NValues, Fits,
                             Running, batches
  <1>2. CASE Launch
    <2>1. N(phase) \in Nat \ {0} /\ Fits(N(phase))
      BY <1>2, BatchSize, BatchFits DEF Launch, Validated
    <2>2. next \in StreamIds
      BY <1>2, <2>1, ScaleOutAssumption DEF Launch, StreamIds, Fits
    <2>3. /\ Phases' = Phases /\ NValues' = NValues /\ N(phase)' = N(phase)
          /\ \A r : N(r)' = N(r)
      BY <1>2 DEF Launch, Phases, NValues, N
    <2>4. streams' = [streams EXCEPT ![phase] = [@ EXCEPT ![next] = "launched"]]
      BY <1>2 DEF Launch
    <2>5. ControlOK'
      BY <1>2, <2>2, <2>3, <2>4 DEF Launch, Live
    <2>6. OnlyThisBatch'
      <3>1. UNCHANGED <<phase, orphaned>> /\ next <= N(phase) /\ \A n \in NValues : Fits(n)
        BY <1>2 DEF Launch, Validated
      <3>2. \A r \in Phases, j \in StreamIds :
              streams'[r][j] \in Live => streams[r][j] \in Live \/ (r = phase /\ j = next)
        BY <2>2, <2>4
      <3> QED
        BY <2>3, <3>1, <3>2 DEF OnlyThisBatch, Running, Fits
    <2>7. Validated' /\ WaitedFor'
      BY <1>2, <2>3 DEF Launch, Validated, WaitedFor, Fits
    <2> QED
      BY <2>5, <2>6, <2>7
  <1>3. CASE AllLaunched
    BY <1>3, ScriptMoves DEF AllLaunched, Validated, WaitedFor, NValues, Fits,
                             StreamIds, batches
  <1>4. CASE WaitStream
    <2>1. ~Running(phase, next) /\ \A p, i : Running(p, i)' = Running(p, i)
      BY <1>4 DEF WaitStream, Live, Exited, Running, Gone, batches
    <2>2. WaitedFor'
      BY <1>4, <2>1 DEF WaitStream, WaitedFor, StreamIds
    <2> QED
      BY <1>4, <2>2, ScriptMoves DEF WaitStream, Validated, NValues, Fits
  <1>5. ASSUME pc = "wait", next > N(phase)
        PROVE  \A p \in Phases, i \in StreamIds : ~Running(p, i)
    <2> SUFFICES ASSUME NEW p \in Phases, NEW i \in StreamIds, Running(p, i) PROVE FALSE
      OBVIOUS
    <2>1. p = phase /\ i <= N(phase) /\ ~(i < next)
      BY <1>5 DEF OnlyThisBatch, WaitedFor, Running
    <2>2. N(phase) \in Nat /\ i \in Nat /\ next \in Nat
      BY BatchSize DEF StreamIds
    <2> QED
      BY <1>5, <2>1, <2>2
  <1>6. CASE WarmupDone
    <2>1. streams' = [streams EXCEPT ![0] = [@ EXCEPT ![1] = "none"]]
      BY <1>6 DEF WarmupDone
    <2>2. Phases' = Phases /\ NValues' = NValues
      BY <1>6 DEF WarmupDone, Phases, NValues
    <2>3. 1 \in Phases /\ 0 \in Phases /\ 1 \in StreamIds
      BY ScaleOutAssumption DEF Phases, StreamIds
    <2>4. ControlOK'
      BY <1>6, <2>1, <2>2, <2>3 DEF WarmupDone
    <2>5. /\ \A p \in Phases, i \in StreamIds : ~Running(p, i)'
          /\ \A p \in Phases, i \in StreamIds : streams'[p][i] \in Live => streams[p][i] \in Live
      BY <1>5, <1>6, <2>1, <2>3 DEF WarmupDone, Live, Running
    <2>6. Validated'
      BY <1>6, <2>2 DEF WarmupDone, Validated, Fits
    <2> QED
      BY <1>6, <2>2, <2>4, <2>5, <2>6 DEF WarmupDone, OnlyThisBatch, WaitedFor, N, Fits
  <1>7. CASE BatchDone
    <2>1. Phases' = Phases /\ NValues' = NValues /\ streams' = streams /\ orphaned' = orphaned
      BY <1>7 DEF BatchDone, Phases, NValues, batches
    <2>2. \A p \in Phases, i \in StreamIds : ~Running(p, i)'
      BY <1>5, <1>7, <2>1 DEF BatchDone, Running
    <2>3. ControlOK'
      BY <1>7, <2>1, ScaleOutAssumption DEF BatchDone, Phases
    <2>4. Validated'
      BY <1>7, <2>1 DEF BatchDone, Validated, Fits
    <2> QED
      BY <1>7, <2>1, <2>2, <2>3, <2>4 DEF BatchDone, OnlyThisBatch, WaitedFor, N, Fits
  <1>8. CASE Aggregate \/ AggregateFails \/ Clean \/ OrchestratorStops
    BY <1>8, ScriptMoves DEF Aggregate, AggregateFails, Clean,
         OrchestratorStops, Validated, WaitedFor, Phases, Running, batches
  <1>9. CASE WarmUp
    <2>1. PICK s \in Exited : SetStream(0, 1, s)
      BY <1>9 DEF WarmUp
    <2>2. 0 \in Phases /\ 1 \in StreamIds
      BY ScaleOutAssumption DEF Phases, StreamIds
    <2> QED
      BY <1>9, <2>1, <2>2, StreamMoves DEF WarmUp, Live
  <1>10. ASSUME NEW i \in StreamIds, Stream(i)
         PROVE  IInv'
    <2>1. PICK p \in Phases \ {0} : StreamStep(p, i)
      BY <1>10 DEF Stream
    <2>2. /\ streams[p][i] \in Live
          /\ UNCHANGED control
          /\ \E s \in Live \union Exited : SetStream(p, i, s)
      BY <2>1 DEF StreamStep, Open, Ask, Succeed, Fail, Finish, Cease, End, Live,
                  Exited
    <2> QED
      BY <2>1, <2>2, StreamMoves
  <1>11. CASE UNCHANGED vars
    BY <1>11, ScriptMoves DEF vars, control, Validated, WaitedFor, Phases,
         NValues, Fits, Running, batches
  <1> QED
    BY <1>1, <1>2, <1>3, <1>4, <1>6, <1>7, <1>8, <1>9, <1>10, <1>11,
       ParentMoves
    DEF Next, Orchestrate

(* Live streams are of one batch, but for orphans, and the blocks of two   *)
(* numbers do not overlap.                                                 *)
LEMMA IInvIsolated == IInv => Isolated
  <1> SUFFICES ASSUME IInv,
                      NEW p \in Phases, NEW i \in StreamIds,
                      streams[p][i] \in Live
               PROVE  /\ p = phase \/ <<p, i>> \in orphaned
                      /\ AllowedCpus(i) \subseteq 0 .. HostCpus - 1
                      /\ \A r \in Phases, j \in StreamIds :
                           /\ streams[r][j] \in Live
                           /\ AllowedCpus(i) \intersect AllowedCpus(j) # {}
                           => /\ i = j
                              /\ p = r \/ {<<p, i>>, <<r, j>>} \intersect orphaned # {}
    BY DEF Isolated
  <1>1. i <= N(p) /\ \A n \in NValues : Fits(n)
    BY DEF IInv, OnlyThisBatch
  <1>2. N(p) \in Nat \ {0} /\ Fits(N(p))
    BY <1>1, BatchSize, BatchFits DEF IInv
  <1>3. \A r \in Phases, j \in StreamIds :
          streams[r][j] \in Live => r = phase \/ <<r, j>> \in orphaned
    BY DEF IInv, OnlyThisBatch, Running
  <1> QED
    BY <1>1, <1>2, <1>3, BlockOnHost, DisjointBlocks

(* Whatever the matrix and however its streams and their parents end: the  *)
(* streams that run are those of one batch, each with a block of the       *)
(* host's processors to itself, but for the engine processes whose parent  *)
(* was killed (orchestrate.sh:64-77, 83-89, 146-164, 201-218).             *)
THEOREM StreamsIsolated == Spec => []Isolated
  <1>1. Init => IInv
    BY InitIInv
  <1>2. IInv /\ [Next]_vars => IInv'
    BY NextIInv
  <1>3. IInv => Isolated
    BY IInvIsolated
  <1> QED
    BY <1>1, <1>2, <1>3, PTL DEF Spec

-----------------------------------------------------------------------------
(* What a log holds: the wall times and the failures of the first queries  *)
(* of the stream's order, each of them once.                               *)
Timings == UNION {[Q -> Nat \ {0}] : Q \in SUBSET Queries}
Logs    == [opened : BOOLEAN, ok : Timings, failures : SUBSET Queries, torn : BOOLEAN]

(* The first c queries of the order of a stream.                           *)
First(i, c) == {Order[i][k] : k \in 1 .. c}

(* A log holds times of its queries, and the first queries of the order.   *)
InTurn(log, i) ==
  /\ \A q \in DOMAIN log.ok : log.ok[q] \in Walls[q]
  /\ DOMAIN log.ok \intersect log.failures = {}
  /\ Recorded(log) = First(i, Cardinality(Recorded(log)))

(* Every log is in turn.                                                   *)
LogsOK ==
  /\ logs \in [Phases -> [StreamIds -> Logs]]
  /\ \A p \in Phases, i \in StreamIds : InTurn(logs[p][i], i)

(* A query is asked only while one is left.                                *)
Asked ==
  \A p \in Phases, i \in StreamIds :
    streams[p][i] = "asking" => Recorded(LogOf(p, i)) # Queries

(* How many queries the workload has.                                      *)
Total == Cardinality(Queries)

(* An order names every query once: it has as many places as queries.      *)
LEMMA OrderIsInjective ==
  ASSUME NEW i \in StreamIds
  PROVE  /\ Total \in Nat /\ Order[i] \in [1 .. Total -> Queries]
         /\ \A k, l \in 1 .. Total : Order[i][k] = Order[i][l] => k = l
  <1>1. IsFiniteSet(Queries) /\ Total \in Nat
    BY ScaleOutAssumption, FS_CardinalityType DEF Total
  <1>2. Order[i] \in [1 .. Total -> Queries]
    BY ScaleOutAssumption DEF StreamIds, Total
  <1>3. \A q \in Queries : \E k \in 1 .. Total : Order[i][k] = q
    BY <1>2, ScaleOutAssumption DEF StreamIds
  <1>4. Order[i] \in Surjection(1 .. Total, Queries)
    BY <1>2, <1>3, Fun_IsSurj
  <1>5. IsFiniteSet(1 .. Total) /\ Cardinality(1 .. Total) = Total
    BY <1>1, FS_Interval
  <1>6. Order[i] \in Injection(1 .. Total, Queries)
    BY <1>4, <1>5, FS_SurjSameCardinalityImpliesInj DEF Total
  <1> QED
    BY <1>1, <1>2, <1>6, Fun_InjectionProperties

(* The query after those of a log is a new one.                            *)
LEMMA NextIsNew ==
  ASSUME NEW i \in StreamIds, NEW log \in Logs, InTurn(log, i), Recorded(log) # Queries,
         NEW q, q = Order[i][Cardinality(Recorded(log)) + 1]
  PROVE  /\ q \in Queries /\ q \notin Recorded(log)
         /\ Recorded(log) \union {q} = First(i, Cardinality(Recorded(log) \union {q}))
  <1> DEFINE R == Recorded(log)
             c == Cardinality(R)
  <1>1. Total \in Nat /\ IsFiniteSet(Queries)
    BY OrderIsInjective, ScaleOutAssumption
  <1>2. R \in SUBSET Queries
    BY DEF Logs, Timings, Recorded
  <1>3. IsFiniteSet(R) /\ c \in Nat /\ c <= Total /\ c # Total
    BY <1>1, <1>2, FS_Subset, FS_CardinalityType DEF Total
  <1>4. R = First(i, c)
    BY DEF InTurn
  <1>5. q = Order[i][c + 1]
    OBVIOUS
  <1> HIDE DEF R, c
  <1>6. c + 1 \in 1 .. Total /\ 1 .. c + 1 = (1 .. c) \union {c + 1} /\ c + 1 \notin 1 .. c /\ 1 .. c \subseteq 1 .. Total
    BY <1>1, <1>3
  <1>7. q \in Queries
    BY <1>5, <1>6, OrderIsInjective
  <1>8. q \notin R
    BY <1>4, <1>5, <1>6, OrderIsInjective DEF First
  <1>9. R \union {q} = First(i, c + 1)
    BY <1>4, <1>5, <1>6 DEF First
  <1>10. Cardinality(R \union {q}) = c + 1
    BY <1>3, <1>8, FS_AddElement DEF c
  <1> QED
    BY <1>7, <1>8, <1>9, <1>10 DEF R

(* A log with one more record.                                             *)
LEMMA Recording ==
  ASSUME NEW i \in StreamIds, NEW log \in Logs, InTurn(log, i), Recorded(log) # Queries,
         NEW q, q = Order[i][Cardinality(Recorded(log)) + 1]
  PROVE  /\ [log EXCEPT !.failures = @ \union {q}] \in Logs
         /\ InTurn([log EXCEPT !.failures = @ \union {q}], i)
         /\ \A w \in Walls[q] :
              /\ [log EXCEPT !.ok = WithTime(@, q, w)] \in Logs
              /\ InTurn([log EXCEPT !.ok = WithTime(@, q, w)], i)
  <1>1. /\ q \in Queries /\ q \notin Recorded(log)
        /\ Recorded(log) \union {q} = First(i, Cardinality(Recorded(log) \union {q}))
    BY NextIsNew
  <1>2. /\ log.ok \in Timings /\ log.failures \in SUBSET Queries /\ log.torn \in BOOLEAN
        /\ DOMAIN log.ok \in SUBSET Queries
    BY DEF Logs, Timings
  <1>3. /\ [log EXCEPT !.failures = @ \union {q}] \in Logs
        /\ InTurn([log EXCEPT !.failures = @ \union {q}], i)
    <2> DEFINE new == [log EXCEPT !.failures = @ \union {q}]
    <2>1. new.ok = log.ok /\ new.failures = log.failures \union {q} /\ new \in Logs
      BY <1>1, <1>2 DEF Logs
    <2> HIDE DEF new
    <2>2. Recorded(new) = Recorded(log) \union {q} /\ DOMAIN new.ok \intersect new.failures = {}
      BY <1>1, <2>1 DEF Recorded, InTurn
    <2>3. InTurn(new, i)
      BY <1>1, <2>1, <2>2 DEF InTurn
    <2> QED
      BY <2>1, <2>3 DEF new
  <1>4. ASSUME NEW w \in Walls[q]
        PROVE  /\ [log EXCEPT !.ok = WithTime(@, q, w)] \in Logs
               /\ InTurn([log EXCEPT !.ok = WithTime(@, q, w)], i)
    <2> DEFINE new == [log EXCEPT !.ok = WithTime(@, q, w)]
               ok == WithTime(log.ok, q, w)
    <2>1. w \in Nat \ {0}
      BY <1>1, ScaleOutAssumption
    <2>2. ok \in [DOMAIN log.ok \union {q} -> Nat \ {0}]
      BY <1>2, <2>1 DEF WithTime, Timings
    <2>3. ok \in Timings
      BY <1>1, <1>2, <2>2 DEF Timings
    <2>4. /\ DOMAIN ok = DOMAIN log.ok \union {q} /\ ok[q] = w
          /\ \A x \in DOMAIN log.ok : x # q => ok[x] = log.ok[x]
      BY DEF WithTime
    <2> HIDE DEF ok
    <2>5. new.ok = ok /\ new.failures = log.failures /\ new \in Logs
      BY <1>2, <2>3 DEF Logs, ok
    <2> HIDE DEF new
    <2>6. Recorded(new) = Recorded(log) \union {q} /\ DOMAIN new.ok \intersect new.failures = {}
      BY <1>1, <2>4, <2>5 DEF Recorded, InTurn
    <2>7. \A x \in DOMAIN new.ok : new.ok[x] \in Walls[x]
      BY <2>4, <2>5 DEF InTurn
    <2>8. InTurn(new, i)
      BY <1>1, <2>6, <2>7 DEF InTurn
    <2> QED
      BY <2>5, <2>8 DEF new
  <1> QED
    BY <1>3, <1>4

(* A log that is not there, an empty one, and one whose last line is cut   *)
(* short.                                                                  *)
LEMMA OtherLogs ==
  ASSUME NEW i \in StreamIds
  PROVE  /\ NoLog \in Logs /\ InTurn(NoLog, i)
         /\ NewLog \in Logs /\ InTurn(NewLog, i)
         /\ \A log \in Logs : InTurn(log, i) =>
              [log EXCEPT !.torn = TRUE] \in Logs /\ InTurn([log EXCEPT !.torn = TRUE], i)
  <1>1. ASSUME NEW log, log \in {NoLog, NewLog}
        PROVE  log \in Logs /\ InTurn(log, i)
    <2>1. log.ok = <<>> /\ log.failures = {} /\ log.torn = FALSE /\ DOMAIN <<>> = {}
      BY <1>1 DEF NoLog, NewLog
    <2>2. <<>> \in [{} -> Nat \ {0}]
      OBVIOUS
    <2>3. <<>> \in Timings
      BY <2>2 DEF Timings
    <2>4. log \in Logs
      <3>1. NoLog \in Logs
        BY <2>3 DEF NoLog, Logs
      <3>2. NewLog \in Logs
        BY <3>1 DEF NewLog, Logs
      <3> QED
        BY <1>1, <3>1, <3>2
    <2>5. Recorded(log) = {}
      BY <2>1 DEF Recorded
    <2>6. First(i, 0) = {} /\ Cardinality({}) = 0
      BY FS_EmptySet DEF First
    <2> QED
      BY <2>1, <2>4, <2>5, <2>6 DEF InTurn
  <1>2. ASSUME NEW log \in Logs, InTurn(log, i)
        PROVE  [log EXCEPT !.torn = TRUE] \in Logs /\ InTurn([log EXCEPT !.torn = TRUE], i)
    <2> DEFINE new == [log EXCEPT !.torn = TRUE]
    <2>1. new \in Logs /\ new.ok = log.ok /\ new.failures = log.failures
      BY DEF Logs
    <2> HIDE DEF new
    <2>2. Recorded(new) = Recorded(log)
      BY <2>1 DEF Recorded
    <2>3. InTurn(new, i)
      BY <1>2, <2>1, <2>2 DEF InTurn
    <2> QED
      BY <2>1, <2>3 DEF new
  <1> QED
    BY <1>1, <1>2

(* A log written in turn is a log in turn; the others are untouched.       *)
LEMMA LogWritten ==
  ASSUME LogsOK, UNCHANGED request, NEW p \in Phases, NEW i \in StreamIds,
         NEW log, SetLog(p, i, log)
  PROVE  /\ \A r \in Phases, j \in StreamIds : ~(r = p /\ j = i) => logs'[r][j] = logs[r][j]
         /\ logs'[p][i] = log
         /\ log \in Logs /\ InTurn(log, i) => LogsOK'
  <1>1. logs' = [logs EXCEPT ![p] = [@ EXCEPT ![i] = log]] /\ Phases' = Phases
    BY DEF SetLog, Phases
  <1>2. /\ \A r \in Phases, j \in StreamIds : ~(r = p /\ j = i) => logs'[r][j] = logs[r][j]
        /\ logs'[p][i] = log
    BY <1>1 DEF LogsOK
  <1>3. ASSUME log \in Logs, InTurn(log, i)
        PROVE  LogsOK'
    <2>1. logs' \in [Phases -> [StreamIds -> Logs]]
      BY <1>1, <1>3 DEF LogsOK
    <2>2. \A r \in Phases, j \in StreamIds : InTurn(logs'[r][j], j)
      BY <1>2, <1>3 DEF LogsOK
    <2> QED
      BY <1>1, <2>1, <2>2 DEF LogsOK
  <1> QED
    BY <1>2, <1>3

(* No other process is asking for anything in this log.                    *)
LEMMA AskedKept ==
  ASSUME ControlOK, Asked, UNCHANGED request, NEW p \in Phases, NEW i \in StreamIds,
         NEW s, SetStream(p, i, s), s = "asking" => Recorded(LogOf(p, i))' # Queries,
         \A r \in Phases, j \in StreamIds : ~(r = p /\ j = i) => logs'[r][j] = logs[r][j]
  PROVE  Asked'
  <1>1. streams' = [streams EXCEPT ![p] = [@ EXCEPT ![i] = s]]
    BY DEF SetStream
  <1>2. Phases' = Phases
    BY DEF Phases
  <1>3. ASSUME NEW r \in Phases, NEW j \in StreamIds, streams'[r][j] = "asking"
        PROVE  Recorded(LogOf(r, j))' # Queries
    <2>1. CASE r = p /\ j = i
      <3>1. s = "asking"
        BY <1>1, <1>3, <2>1 DEF ControlOK
      <3> QED
        BY <2>1, <3>1
    <2>2. CASE ~(r = p /\ j = i)
      <3>1. streams[r][j] = "asking"
        BY <1>1, <1>3, <2>2 DEF ControlOK
      <3>2. logs'[r][j] = logs[r][j] /\ Recorded(LogOf(r, j)) # Queries
        BY <2>2, <3>1 DEF Asked
      <3> QED
        BY <3>2 DEF LogOf, Recorded
    <2> QED
      BY <2>1, <2>2
  <1> QED
    BY <1>2, <1>3 DEF Asked

(* What aggregate.py has read are logs in turn.                            *)
ReadOK ==
  /\ read \in [StreamIds -> [StreamIds -> Logs]]
  /\ \A n, i \in StreamIds : InTurn(read[n][i], i)

(* The invariant of the logs.                                              *)
LogInv == LogsOK /\ Asked

(* The logs are empty in the beginning.                                    *)
LEMMA InitLogs == Init => LogInv
  <1> SUFFICES ASSUME Init PROVE LogInv
    OBVIOUS
  <1>1. logs = [p \in Phases |-> [i \in StreamIds |-> NoLog]]
    BY DEF Init
  <1>2. LogsOK
    BY <1>1, OtherLogs DEF LogsOK
  <1>3. Asked
    BY DEF Init, Asked
  <1> QED
    BY <1>2, <1>3 DEF LogInv

(* Steps of the script, and the warmup's, leave the logs alone.            *)
LEMMA NothingAsked ==
  ASSUME LogInv, UNCHANGED <<request, logs>>,
         \A p \in Phases, i \in StreamIds : streams'[p][i] = "asking" => streams[p][i] = "asking"
  PROVE  LogInv'
  <1>1. LogsOK'
    BY DEF LogInv, LogsOK, Phases
  <1>2. Phases' = Phases /\ \A p \in Phases, i \in StreamIds : LogOf(p, i)' = LogOf(p, i)
    BY DEF Phases, LogOf
  <1>3. Asked'
    BY <1>2 DEF LogInv, Asked, Recorded
  <1> QED
    BY <1>1, <1>3 DEF LogInv

(* A stream appends to its own log, the query next in its order.           *)
LEMMA StreamLogs ==
  ASSUME IInv, LogInv, NEW p \in Phases \ {0}, NEW i \in StreamIds, StreamStep(p, i)
  PROVE  LogInv'
  <1>0. UNCHANGED request /\ LogsOK /\ Asked /\ ControlOK /\ p \in Phases
    BY DEF StreamStep, Open, Ask, Succeed, Fail, Finish, Cease, control, LogInv, IInv
  <1>2. LogOf(p, i) \in Logs /\ InTurn(LogOf(p, i), i)
    BY <1>0 DEF LogsOK, LogOf
  <1>3. UNCHANGED logs =>
          /\ LogsOK' /\ Recorded(LogOf(p, i))' = Recorded(LogOf(p, i))
          /\ \A r \in Phases, j \in StreamIds : logs'[r][j] = logs[r][j]
    BY <1>0 DEF LogsOK, InTurn, Recorded, LogOf, Phases
  <1>4. ASSUME NEW s, End(p, i, s), s # "asking"
        PROVE  \E t : t # "asking" /\ SetStream(p, i, t)
    BY <1>4 DEF End
  <1>5. CASE Open(p, i)
    BY <1>0, <1>5, OtherLogs, LogWritten, AskedKept DEF Open, LogInv
  <1>6. CASE Ask(p, i)
    BY <1>0, <1>3, <1>6, AskedKept DEF Ask, LogInv
  <1>7. CASE Succeed(p, i)
    <2>1. Recorded(LogOf(p, i)) # Queries /\ SetStream(p, i, "idle")
      BY <1>0, <1>7 DEF Succeed, Asked
    <2>2. PICK w \in Walls[NextQuery(p, i)] :
            SetLog(p, i, [LogOf(p, i) EXCEPT !.ok = WithTime(@, NextQuery(p, i), w)])
      BY <1>7 DEF Succeed
    <2> DEFINE log == [LogOf(p, i) EXCEPT !.ok = WithTime(@, NextQuery(p, i), w)]
    <2>3. log \in Logs /\ InTurn(log, i)
      BY <1>2, <2>1, Recording DEF NextQuery
    <2>4. SetLog(p, i, log)
      BY <2>2
    <2> HIDE DEF log
    <2>5. LogsOK' /\ Asked'
      BY <1>0, <2>1, <2>3, <2>4, LogWritten, AskedKept
    <2> QED
      BY <2>5 DEF LogInv
  <1>8. CASE Fail(p, i)
    <2>1. Recorded(LogOf(p, i)) # Queries /\ SetStream(p, i, "idle")
      BY <1>0, <1>8 DEF Fail, Asked
    <2> DEFINE log == [LogOf(p, i) EXCEPT !.failures = @ \union {NextQuery(p, i)}]
    <2>2. log \in Logs /\ InTurn(log, i)
      BY <1>2, <2>1, Recording DEF NextQuery
    <2>3. SetLog(p, i, log)
      BY <1>8 DEF Fail
    <2> HIDE DEF log
    <2>4. LogsOK' /\ Asked'
      BY <1>0, <2>1, <2>2, <2>3, LogWritten, AskedKept
    <2> QED
      BY <2>4 DEF LogInv
  <1>9. CASE Finish(p, i)
    <2>1. PICK t : t # "asking" /\ SetStream(p, i, t)
      BY <1>4, <1>9 DEF Finish
    <2> QED
      BY <1>0, <1>3, <1>9, <2>1, AskedKept DEF Finish, LogInv
  <1>10. CASE Cease(p, i)
    <2>1. PICK t : t # "asking" /\ SetStream(p, i, t)
      BY <1>4, <1>10 DEF Cease, Exited
    <2>2. CASE UNCHANGED logs
      BY <1>0, <1>3, <2>1, <2>2, AskedKept DEF LogInv
    <2>3. CASE SetLog(p, i, [LogOf(p, i) EXCEPT !.torn = TRUE])
      BY <1>0, <1>2, <2>1, <2>3, OtherLogs, LogWritten, AskedKept DEF LogInv
    <2> QED
      BY <1>10, <2>2, <2>3 DEF Cease
  <1> QED
    BY <1>5, <1>6, <1>7, <1>8, <1>9, <1>10 DEF StreamStep

(* Every step keeps the logs in turn.                                      *)
LEMMA NextLogs == IInv /\ LogInv /\ [Next]_vars => LogInv'
  <1> SUFFICES ASSUME IInv, LogInv, [Next]_vars PROVE LogInv'
    OBVIOUS
  <1>1. CASE Validate \/ AllLaunched \/ WaitStream \/ BatchDone \/ Aggregate \/ AggregateFails \/ Clean \/ OrchestratorStops
    BY <1>1, NothingAsked DEF Validate, AllLaunched, WaitStream, BatchDone, Aggregate, AggregateFails,
         Clean, OrchestratorStops, batches
  <1>2. CASE Launch
    BY <1>2, NothingAsked DEF Launch, IInv, ControlOK
  <1>3. CASE WarmupDone
    BY <1>3, NothingAsked DEF WarmupDone, IInv, ControlOK
  <1>4. CASE WarmUp
    BY <1>4, NothingAsked DEF WarmUp, SetStream, Exited, control, IInv, ControlOK
  <1>5. ASSUME NEW i \in StreamIds, Stream(i) PROVE LogInv'
    BY <1>5, StreamLogs DEF Stream
  <1>6. ASSUME NEW p \in Phases \ {0}, NEW i \in StreamIds, ParentDies(p, i) PROVE LogInv'
    BY <1>6, NothingAsked DEF ParentDies, control
  <1>7. CASE UNCHANGED vars
    BY <1>7, NothingAsked DEF vars, control, batches
  <1> QED
    BY <1>1, <1>2, <1>3, <1>4, <1>5, <1>6, <1>7 DEF Next, Orchestrate

-----------------------------------------------------------------------------
(* Once aggregate.py has read the logs only orphans write, each to its own *)
(* log.                                                                    *)
Final ==
  /\ \A p \in Phases, i \in StreamIds : ~Running(p, i)
  /\ curve = Rows(read)
  /\ \A n \in NValues : \A i \in 1 .. n \ OrphansAt(n) : read[n][i] = Latest(n, i)

(* There is a curve, or what it was made from is gone.                     *)
Aggregated == pc = "clean" \/ ~rawKept \/ curve # {}

(* What is wiped has been aggregated, and is read no more.                 *)
Settled ==
  /\ rawKept \in BOOLEAN
  /\ ~rawKept => pc = "exited"
  /\ curve # {} => pc \in {"clean", "exited"}
  /\ pc = "aggregate" \/ Aggregated => \A n \in NValues : Fits(n)
  /\ Aggregated => Final

(* Nothing is wiped or tabulated in the beginning.                         *)
LEMMA InitSettled == Init => Settled
  BY DEF Init, Settled, Aggregated

(* A value of the matrix is the number of a stream when it fits.           *)
LEMMA FittingSize ==
  ASSUME ControlOK, NEW n \in NValues, Fits(n)
  PROVE  n \in StreamIds /\ 1 .. n \subseteq StreamIds
  BY ScaleOutAssumption DEF ControlOK, NValues, Fits, StreamIds

(* Of several batches there is a last.                                     *)
LEMMA LastIs ==
  ASSUME ControlOK, NEW S \in SUBSET Phases, S # {}
  PROVE  LastOf(S) \in S
  <1> DEFINE f == [p \in S |-> p]
  <1>1. Len(request) \in Nat /\ Phases \subseteq Nat
    BY ScaleOutAssumption DEF ControlOK, Phases
  <1>2. IsFiniteSet(S)
    <2>1. IsFiniteSet(Phases)
      BY <1>1, FS_Interval DEF Phases
    <2> QED
      BY <2>1, FS_Subset
  <1>3. DOMAIN f = S /\ \A p \in S : f[p] = p /\ p \in Nat
    BY <1>1
  <1> HIDE DEF f
  <1>4. PICK p \in S : \A r \in S : f[r] <= f[p]
    BY <1>2, <1>3, Greatest
  <1>5. \E x \in S : \A r \in S : r <= x
    BY <1>3, <1>4
  <1> QED
    BY <1>5 DEF LastOf

(* A step that leaves the logs and the processes alone.                    *)
LEMMA FinalKept ==
  ASSUME Final, UNCHANGED <<request, batches, logs, read, curve>>
  PROVE  Final'
  <1>1. Phases' = Phases /\ NValues' = NValues /\ \A p : N(p)' = N(p)
    BY DEF Phases, NValues, N
  <1>2. Rows(read)' = Rows(read)
    BY <1>1 DEF Rows, QueriesSeen, Samples
  <1>3. \A n : OrphansAt(n)' = OrphansAt(n)
    BY <1>1 DEF OrphansAt, batches
  <1>4. \A n, i : Latest(n, i)' = Latest(n, i)
    BY <1>1 DEF Latest, OpenedAt
  <1> QED
    BY <1>1, <1>2, <1>3, <1>4 DEF Final, Running, batches

(* An orphan writes to a log that is not promised.                         *)
LEMMA FinalOrphan ==
  ASSUME IInv, LogInv, Final, NEW p \in Phases \ {0}, NEW i \in StreamIds, streams[p][i] \in Live,
         NEW s \in Live \union Exited, SetStream(p, i, s),
         (UNCHANGED logs) \/ (\E log : SetLog(p, i, log)),
         UNCHANGED <<request, read, curve>>
  PROVE  Final'
  <1>1. /\ Phases' = Phases /\ NValues' = NValues /\ \A r : N(r)' = N(r)
        /\ orphaned' = orphaned
    BY DEF Phases, NValues, N, SetStream
  <1>2. Rows(read)' = Rows(read)
    BY <1>1 DEF Rows, QueriesSeen, Samples
  <1>3. \A n : OrphansAt(n)' = OrphansAt(n)
    BY <1>1 DEF OrphansAt
  <1>4. <<p, i>> \in orphaned /\ i \in 1 .. N(p)
    <2>1. ~Running(p, i) /\ i <= N(p) /\ N(p) \in Nat
      BY BatchSize DEF Final, IInv, OnlyThisBatch
    <2> QED
      BY <2>1 DEF Running, StreamIds
  <1>5. i \in OrphansAt(N(p))
    BY <1>1, <1>4 DEF OrphansAt
  <1>6. \A r \in Phases, j \in StreamIds : ~(r = p /\ j = i) => logs'[r][j] = logs[r][j]
    BY LogWritten DEF LogInv
  <1>7. ASSUME NEW n \in NValues, NEW j \in 1 .. n \ OrphansAt(n)
        PROVE  Latest(n, j)' = Latest(n, j)
    <2>0. j \in StreamIds
      BY FittingSize DEF IInv, OnlyThisBatch
    <2>1. \A r \in Phases \ {0} : N(r) = n => logs'[r][j] = logs[r][j]
      BY <1>5, <1>6, <2>0
    <2>2. OpenedAt(n, j)' = OpenedAt(n, j)
      BY <1>1, <2>1 DEF OpenedAt
    <2>3. CASE OpenedAt(n, j) = {}
      BY <2>2, <2>3 DEF Latest
    <2>4. CASE OpenedAt(n, j) # {}
      <3> DEFINE last == LastOf(OpenedAt(n, j))
      <3>1. last \in OpenedAt(n, j)
        BY <2>4, LastIs DEF OpenedAt, IInv
      <3>2. logs'[last][j] = logs[last][j]
        BY <2>1, <3>1 DEF OpenedAt
      <3> QED
        BY <2>2, <2>4, <3>2 DEF Latest
    <2> QED
      BY <2>3, <2>4
  <1>8. \A r \in Phases, j \in StreamIds : Running(r, j)' => Running(r, j)
    BY DEF Running, SetStream, IInv, ControlOK
  <1> QED
    BY <1>1, <1>2, <1>3, <1>7, <1>8 DEF Final

(* What a step of a stream does to its process and its log.                *)
LEMMA StepOf ==
  ASSUME NEW p \in Phases \ {0}, NEW i \in StreamIds, StreamStep(p, i)
  PROVE  /\ streams[p][i] \in Live /\ UNCHANGED <<control, tally, results>>
         /\ \E s \in Live \union Exited : SetStream(p, i, s)
         /\ (UNCHANGED logs) \/ (\E log : SetLog(p, i, log))
  <1>1. streams[p][i] \in Live /\ UNCHANGED <<control, tally, results>>
    BY DEF StreamStep, Open, Ask, Succeed, Fail, Finish, Cease, Live
  <1>2. \E s \in Live \union Exited : SetStream(p, i, s)
    BY DEF StreamStep, Open, Ask, Succeed, Fail, Finish, Cease, End, Live, Exited
  <1>3. (UNCHANGED logs) \/ (\E log : SetLog(p, i, log))
    BY DEF StreamStep, Open, Ask, Succeed, Fail, Finish, Cease
  <1> QED
    BY <1>1, <1>2, <1>3

(* The curve is made of the final logs, and only then are they wiped.      *)
LEMMA NextSettled == IInv /\ LogInv /\ Settled /\ [Next]_vars => Settled'
  <1> SUFFICES ASSUME IInv, LogInv, Settled, [Next]_vars PROVE Settled'
    OBVIOUS
  <1> USE DEF Settled, Aggregated
  <1>1. CASE Validate \/ Launch \/ AllLaunched \/ WaitStream
    BY <1>1 DEF Validate, Launch, AllLaunched, WaitStream, results
  <1>2. CASE WarmupDone
    BY <1>2 DEF WarmupDone, results
  <1>3. CASE BatchDone
    <2>1. \A n \in NValues : Fits(n)
      BY <1>3 DEF BatchDone, IInv, Validated
    <2> QED
      BY <1>3, <2>1 DEF BatchDone, results, NValues, Fits
  <1>4. CASE Aggregate
    <2>1. \A p \in Phases, i \in StreamIds : ~Running(p, i)
      BY <1>4 DEF Aggregate, IInv, WaitedFor
    <2>2. UNCHANGED <<request, batches, logs, rawKept>> /\ read' = Loaded /\ curve' = Rows(Loaded) /\ pc' = "clean"
      BY <1>4 DEF Aggregate
    <2>3. Phases' = Phases /\ NValues' = NValues /\ \A p : N(p)' = N(p)
      BY <2>2 DEF Phases, NValues, N
    <2>4. curve' = Rows(read)'
      BY <2>2, <2>3 DEF Rows, QueriesSeen, Samples
    <2>5. \A n \in NValues : Fits(n)
      BY <1>4 DEF Aggregate
    <2>6. \A n \in NValues : \A i \in 1 .. n : read'[n][i] = Latest(n, i)
      BY <2>2, <2>5, FittingSize DEF Loaded, IInv
    <2>7. \A n, i : Latest(n, i)' = Latest(n, i)
      BY <2>2, <2>3 DEF Latest, OpenedAt
    <2>8. Final'
      BY <2>1, <2>2, <2>3, <2>4, <2>6, <2>7 DEF Final, Running, batches
    <2> QED
      BY <1>4, <2>2, <2>3, <2>5, <2>8 DEF Aggregate, Fits
  <1>5. CASE AggregateFails \/ OrchestratorStops
    BY <1>5 DEF AggregateFails, OrchestratorStops, results
  <1>6. CASE Clean
    <2>1. Final'
      BY <1>6, FinalKept DEF Clean
    <2> QED
      BY <1>6, <2>1 DEF Clean, NValues, Fits
  <1>7. ASSUME UNCHANGED <<control, results>>, Aggregated => Final'
        PROVE  Settled'
    BY <1>7 DEF control, results, NValues, Fits
  <1>8. CASE WarmUp
    <2>1. 0 \in Phases /\ 1 \in StreamIds /\ streams[0][1] \in Live
      BY <1>8, ScaleOutAssumption DEF WarmUp, IInv, ControlOK, Phases,
         StreamIds, Live
    <2>2. Running(0, 1)
      BY <2>1 DEF Running, IInv, ControlOK
    <2> QED
      BY <1>7, <1>8, <2>1, <2>2 DEF WarmUp, Final
  <1>9. ASSUME NEW i \in StreamIds, Stream(i)
        PROVE  Settled'
    <2>1. PICK p \in Phases \ {0} : StreamStep(p, i)
      BY <1>9 DEF Stream
    <2>2. /\ streams[p][i] \in Live /\ UNCHANGED <<control, results>>
          /\ \E s \in Live \union Exited : SetStream(p, i, s)
          /\ (UNCHANGED logs) \/ (\E log : SetLog(p, i, log))
      BY <2>1, StepOf
    <2>3. UNCHANGED <<request, read, curve>>
      BY <2>2 DEF control, results
    <2>4. Aggregated => Final'
      BY <2>2, <2>3, FinalOrphan
    <2> QED
      BY <1>7, <2>2, <2>4
  <1>10. ASSUME NEW p \in Phases \ {0}, NEW i \in StreamIds, ParentDies(p, i)
         PROVE  Settled'
    <2>1. Running(p, i)
      BY <1>10 DEF ParentDies, Running
    <2> QED
      BY <1>7, <1>10, <2>1 DEF ParentDies, Final
  <1>11. CASE UNCHANGED vars
    <2>1. UNCHANGED <<request, batches, logs, read, curve>> /\ UNCHANGED <<control, results>>
      BY <1>11 DEF vars, control, results
    <2> QED
      BY <1>7, <2>1, FinalKept
  <1> QED
    BY <1>1, <1>2, <1>3, <1>4, <1>5, <1>6, <1>8, <1>9, <1>10, <1>11
    DEF Next, Orchestrate

(* What the wiped logs held is in the rows of the curve.                   *)
LEMMA SettledLosesNothing == IInv /\ Settled => NothingLost
  <1> SUFFICES ASSUME IInv, Settled, ~rawKept,
                      NEW n \in NValues, NEW q \in Queries
               PROVE  LET times == {i \in 1 .. n \ OrphansAt(n) : q \in DOMAIN Latest(n, i).ok}
                          least == Cardinality(times)
                      IN  times # {} =>
                            \E r \in curve :
                              /\ r.query = q /\ r.row.n = n
                              /\ r.row.samples \in least .. least + Cardinality(OrphansAt(n))
    BY DEF NothingLost
  <1> DEFINE times == {i \in 1 .. n \ OrphansAt(n) : q \in DOMAIN Latest(n, i).ok}
             taken == {i \in 1 .. n : q \in DOMAIN read[n][i].ok}
             row == Row(n, Samples(read, q, n), Samples(read, q, 1))
             r == [query |-> q, row |-> row]
  <1>1. n \in StreamIds /\ 1 .. n \subseteq StreamIds /\ n \in Nat
    BY FittingSize DEF IInv, Settled, Aggregated, StreamIds
  <1>2. Final
    BY DEF Settled, Aggregated
  <1>3. times \subseteq taken /\ taken \subseteq times \union OrphansAt(n) /\ OrphansAt(n) \subseteq 1 .. n
    BY <1>2 DEF Final, OrphansAt
  <1>4. IsFiniteSet(1 .. n)
    BY <1>1, FS_Interval
  <1>5. IsFiniteSet(taken) /\ IsFiniteSet(times) /\ IsFiniteSet(OrphansAt(n))
    BY <1>3, <1>4, FS_Subset
  <1>6. row.n = n /\ row.samples = Cardinality(taken)
    <2>1. DOMAIN Samples(read, q, n) = taken
      BY DEF Samples
    <2> QED
      BY <2>1 DEF Row
  <1>7. times # {} => r \in curve
    <2> SUFFICES ASSUME times # {} PROVE r \in curve
      OBVIOUS
    <2>1. PICK i \in 1 .. n : q \in DOMAIN read[n][i].ok
      BY <1>3
    <2>2. q \in QueriesSeen(read)
      BY <1>1, <2>1 DEF QueriesSeen
    <2> QED
      BY <1>2, <2>2 DEF Final, Rows
  <1> HIDE DEF times, taken, row
  <1>8. Cardinality(taken) \in Cardinality(times) .. Cardinality(times) + Cardinality(OrphansAt(n))
    <2>1. IsFiniteSet(times \union OrphansAt(n))
      BY <1>5, FS_Union
    <2>2. /\ Cardinality(times) <= Cardinality(taken)
          /\ Cardinality(taken) <= Cardinality(times \union OrphansAt(n))
      BY <1>3, <1>5, <2>1, FS_Subset
    <2>3. Cardinality(times \union OrphansAt(n)) <= Cardinality(times) + Cardinality(OrphansAt(n))
      <3>1. Cardinality(times \union OrphansAt(n))
              = Cardinality(times) + Cardinality(OrphansAt(n)) - Cardinality(times \intersect OrphansAt(n))
        BY <1>5, FS_Union
      <3>2. IsFiniteSet(times \intersect OrphansAt(n))
        BY <1>5, FS_Subset
      <3> QED
        BY <1>5, <3>1, <3>2, FS_CardinalityType
    <2>4. /\ Cardinality(times) \in Nat /\ Cardinality(taken) \in Nat /\ Cardinality(OrphansAt(n)) \in Nat
          /\ Cardinality(times \union OrphansAt(n)) \in Nat
      BY <1>5, <2>1, FS_CardinalityType
    <2> QED
      BY <2>2, <2>3, <2>4
  <1> QED
    BY <1>6, <1>7, <1>8 DEF times

(* However the batches went, the raw results are removed only behind a     *)
(* curve that counts every wall time of the latest batch of each size, but *)
(* for those of an orphan (orchestrate.sh:232-251, aggregate.py:53-68,     *)
(* 399-452).                                                               *)
THEOREM CleaningLosesNothing == Spec => []NothingLost
  <1>1. Init => IInv /\ LogInv /\ Settled
    BY InitIInv, InitLogs, InitSettled
  <1>2. IInv /\ LogInv /\ Settled /\ [Next]_vars => IInv' /\ LogInv' /\ Settled'
    BY NextIInv, NextLogs, NextSettled
  <1>3. IInv /\ Settled => NothingLost
    BY SettledLosesNothing
  <1> QED
    BY <1>1, <1>2, <1>3, PTL DEF Spec

-----------------------------------------------------------------------------
(* The count of failed streams, and the summary.                           *)
Nonzero(p) == {i \in StreamIds : Failed(p, i)}

(* Only streams of a batch run, and the failures counted are those waited for.*)
CountInv ==
  /\ next <= NMax + 1
  /\ failed \in 0 .. NMax
  /\ pc \in {"validate", "launch", "wait"} => next <= N(phase) + 1
  /\ \A p \in Phases, i \in StreamIds : streams[p][i] # "none" => i <= N(p)
  /\ pc = "wait" => failed = Cardinality({i \in Nonzero(phase) : i < next})

(* What the batches that are through have put into the summary.            *)
Through == IF pc \in {"aggregate", "clean"} THEN Len(request)
           ELSE IF phase = 0 THEN 0 ELSE phase - 1

(* The summary names the batches that are through.                         *)
SummaryInv ==
  /\ summary \in Seq([n : StreamIds, failed : StreamIds])
  /\ pc # "exited" => \A last \in Nat : last = Through => SummaryNames(last)

(* Streams are finitely many.                                              *)
LEMMA Countable ==
  /\ IsFiniteSet(StreamIds) /\ Cardinality(StreamIds) = NMax /\ NMax \in Nat \ {0}
  /\ \A S \in SUBSET StreamIds : IsFiniteSet(S) /\ Cardinality(S) \in 0 .. NMax
  <1>1. IsFiniteSet(StreamIds) /\ Cardinality(StreamIds) = NMax /\ NMax \in Nat \ {0}
    BY ScaleOutAssumption, FS_Interval DEF StreamIds
  <1>2. ASSUME NEW S \in SUBSET StreamIds
        PROVE  IsFiniteSet(S) /\ Cardinality(S) \in 0 .. NMax
    <2>1. IsFiniteSet(S) /\ Cardinality(S) <= NMax /\ Cardinality(S) \in Nat
      BY <1>1, FS_Subset, FS_CardinalityType
    <2> QED
      BY <1>1, <2>1
  <1> QED
    BY <1>1, <1>2

(* FailedStreams counts the streams that exited with a failure.            *)
LEMMA FailedIs == \A p : FailedStreams(p) = Cardinality(Nonzero(p)) /\ FailedStreams(p) \in 0 .. NMax
  <1>1. \A p : Nonzero(p) \in SUBSET StreamIds
    BY DEF Nonzero
  <1> QED
    BY <1>1, Countable DEF FailedStreams, Nonzero

(* A batch of a matrix that fits has at most NMax streams.                 *)
LEMMA CurrentBatch ==
  ASSUME IInv, pc \in {"launch", "wait"}
  PROVE  N(phase) \in StreamIds /\ N(phase) <= NMax
  <1>1. N(phase) \in Nat \ {0} /\ Fits(N(phase))
    BY BatchSize, BatchFits DEF IInv, ControlOK, Validated
  <1> QED
    BY <1>1, ScaleOutAssumption DEF StreamIds, Fits

(* The count goes on when the streams it has counted stay as they are.     *)
LEMMA CountStays ==
  ASSUME IInv, CountInv, UNCHANGED <<request, phase, next, failed, pc>>,
         \A i \in StreamIds : i < next =>
            (Failed(phase, i)' <=> Failed(phase, i)) \/ pc # "wait",
         \A p \in Phases, i \in StreamIds : streams'[p][i] # "none" => streams[p][i] # "none"
  PROVE  CountInv'
  <1>1. Phases' = Phases /\ (\A p : N(p)' = N(p))
    BY DEF Phases, N
  <1>2. pc = "wait" => {i \in Nonzero(phase) : i < next}' = {i \in Nonzero(phase) : i < next}
    BY DEF Nonzero
  <1> QED
    BY <1>1, <1>2 DEF CountInv

(* The summary is right as long as the exits of its batches stay.          *)
LEMMA SummaryStays ==
  ASSUME NEW last, UNCHANGED <<request, summary>>, SummaryNames(last),
         \A p \in 1 .. last, i \in StreamIds :
            Failed(p, i)' <=> Failed(p, i)
  PROVE  SummaryNames(last)'
  <1>1. \A p : N(p)' = N(p)
    BY DEF N
  <1>2. ASSUME NEW p \in 1 .. last PROVE FailedStreams(p)' = FailedStreams(p)
    <2>1. {i \in StreamIds : Failed(p, i)}' = {i \in StreamIds : Failed(p, i)}
      OBVIOUS
    <2> QED
      BY <2>1 DEF FailedStreams
  <1>3. PICK batch \in [1 .. Len(summary) -> 1 .. last] :
          /\ \A j, k \in DOMAIN batch : j < k => batch[j] < batch[k]
          /\ {batch[k] : k \in DOMAIN batch} = {p \in 1 .. last : FailedStreams(p) > 0}
          /\ \A k \in DOMAIN batch :
               summary[k] = [n |-> N(batch[k]), failed |-> FailedStreams(batch[k])]
    BY DEF SummaryNames
  <1>4. {p \in 1 .. last : FailedStreams(p) > 0}' = {p \in 1 .. last : FailedStreams(p) > 0}
    BY <1>2
  <1>5. batch \in [1 .. Len(summary)' -> 1 .. last] /\ \A k \in DOMAIN batch : batch[k] \in 1 .. last
    BY <1>3
  <1>6. \A k \in DOMAIN batch : summary'[k] = [n |-> N(batch[k])', failed |-> FailedStreams(batch[k])']
    BY <1>1, <1>2, <1>3, <1>5
  <1> QED
    BY <1>3, <1>4, <1>5, <1>6 DEF SummaryNames

(* So a step that settles no batch keeps it.                               *)
LEMMA SummaryKept ==
  ASSUME ControlOK, SummaryInv, UNCHANGED <<request, summary>>,
         pc' # "exited" => pc # "exited" /\ Through' = Through,
         \A p \in 1 .. Through, i \in StreamIds :
            pc # "exited" => (Failed(p, i)' <=> Failed(p, i))
  PROVE  SummaryInv'
  <1>1. ASSUME NEW last \in Nat, last = Through', pc' # "exited"
        PROVE  SummaryNames(last)'
    BY <1>1, SummaryStays DEF SummaryInv
  <1> QED
    BY <1>1 DEF SummaryInv

(* Nothing is counted or named in the beginning.                           *)
LEMMA InitTally == Init => CountInv /\ SummaryInv
  <1> SUFFICES ASSUME Init PROVE CountInv /\ SummaryInv
    OBVIOUS
  <1>1. ControlOK
    BY InitIInv DEF IInv
  <1>2. N(phase) \in Nat \ {0} /\ NMax \in Nat \ {0} /\ next = 1 /\ failed = 0 /\ pc = "validate"
    BY <1>1, BatchSize, Countable DEF Init, ControlOK
  <1>3. \A p \in Phases, i \in StreamIds : streams[p][i] = "none"
    BY DEF Init
  <1>4. CountInv
    BY <1>2, <1>3 DEF CountInv
  <1>5. Through = 0 /\ summary = <<>>
    BY <1>2 DEF Through, Init
  <1>6. SummaryNames(0)
    <2>1. <<>> \in [1 .. 0 -> 1 .. 0] /\ DOMAIN <<>> = {}
      OBVIOUS
    <2>2. 1 .. Len(summary) = {} /\ 1 .. 0 = {}
      BY <1>5
    <2>3. PICK batch : batch = [k \in {} |-> 0]
      OBVIOUS
    <2>4. batch \in [1 .. Len(summary) -> 1 .. 0] /\ DOMAIN batch = {}
      BY <2>2, <2>3
    <2> QED
      BY <2>2, <2>4 DEF SummaryNames
  <1> QED
    BY <1>4, <1>5, <1>6 DEF SummaryInv

(* A stream that is passed in the wait loop is counted if it failed.       *)
LEMMA OneMore ==
  ASSUME IInv, CountInv, WaitStream
  PROVE  CountInv'
  <1>1. /\ next \in StreamIds /\ next <= N(phase) /\ N(phase) <= NMax /\ next \in Nat /\ N(phase) \in Nat
        /\ UNCHANGED <<request, phase, streams>> /\ next' = next + 1
        /\ NMax \in Nat
    BY CurrentBatch, Countable DEF WaitStream, IInv, ControlOK, StreamIds, batches
  <1> DEFINE S == {i \in Nonzero(phase) : i < next}
             T == {i \in Nonzero(phase) : i < next + 1}
  <1>0. \A p, i : Failed(p, i)' = Failed(p, i)
    BY DEF WaitStream, batches, Failed
  <1>2. failed = Cardinality(S)
    BY DEF WaitStream, CountInv
  <1>3. T = IF Failed(phase, next) THEN S \union {next} ELSE S
    BY <1>1 DEF Nonzero, StreamIds
  <1>4. next \notin S /\ S \in SUBSET StreamIds /\ T \in SUBSET StreamIds
    BY <1>1 DEF Nonzero
  <1>5. {i \in Nonzero(phase) : i < next}' = T
    BY <1>0, <1>1 DEF Nonzero
  <1> HIDE DEF S, T
  <1>6. IsFiniteSet(S) /\ Cardinality(S) \in 0 .. NMax /\ Cardinality(T) \in 0 .. NMax
    BY <1>4, Countable
  <1>7. Cardinality(T) = Cardinality(S) + IF Failed(phase, next) THEN 1 ELSE 0
    BY <1>3, <1>4, <1>6, FS_AddElement
  <1>8. failed' = Cardinality(T)
    BY <1>2, <1>7 DEF WaitStream
  <1>9. Phases' = Phases /\ (\A p : N(p)' = N(p))
    BY <1>1 DEF Phases, N
  <1>10. next' <= NMax + 1 /\ next' <= N(phase)' + 1 /\ failed' \in 0 .. NMax
    BY <1>1, <1>6, <1>8, <1>9
  <1>11. pc' = "wait" => failed' = Cardinality({i \in Nonzero(phase) : i < next}')
    BY <1>5, <1>8
  <1>12. \A p \in Phases', i \in StreamIds : streams'[p][i] # "none" => i <= N(p)'
    BY <1>1, <1>9 DEF CountInv
  <1> QED
    BY <1>10, <1>11, <1>12 DEF CountInv

(* A batch is through: all its failed streams are counted, and named.      *)
LEMMA BatchCounted ==
  ASSUME IInv, CountInv, pc = "wait", next > N(phase)
  PROVE  failed = FailedStreams(phase)
  <1>1. {i \in Nonzero(phase) : i < next} = Nonzero(phase)
    <2>1. \A i \in Nonzero(phase) : i <= N(phase) /\ i \in Nat
      BY DEF CountInv, Nonzero, StreamIds, IInv, ControlOK, Failed, OnlyThisBatch
    <2>2. N(phase) \in Nat /\ next \in Nat
      BY BatchSize DEF IInv, ControlOK
    <2> QED
      BY <2>1, <2>2
  <1> QED
    BY <1>1, FailedIs DEF CountInv

(* A sequence of batches with a later one behind it.                       *)
LEMMA OneNameMore ==
  ASSUME NEW ph \in Nat \ {0}, NEW len \in Nat, NEW batch \in [1 .. len -> 1 .. ph - 1],
         \A j, k \in 1 .. len : j < k => batch[j] < batch[k]
  PROVE  \E new \in [1 .. len + 1 -> 1 .. ph] :
           /\ new[len + 1] = ph /\ \A k \in 1 .. len : new[k] = batch[k]
           /\ \A j, k \in 1 .. len + 1 : j < k => new[j] < new[k]
           /\ {new[k] : k \in 1 .. len + 1} = {batch[k] : k \in 1 .. len} \union {ph}
  <1> DEFINE new == [k \in 1 .. len + 1 |-> IF k = len + 1 THEN ph ELSE batch[k]]
  <1>1. /\ 1 .. len + 1 = (1 .. len) \union {len + 1} /\ len + 1 \notin 1 .. len
        /\ \A k \in 1 .. len : batch[k] \in 1 .. ph - 1 /\ batch[k] \in 1 .. ph
    OBVIOUS
  <1>2. /\ new \in [1 .. len + 1 -> 1 .. ph]
        /\ new[len + 1] = ph /\ \A k \in 1 .. len : new[k] = batch[k]
    BY <1>1
  <1> HIDE DEF new
  <1>3. \A j, k \in 1 .. len + 1 : j < k => new[j] < new[k]
    <2> SUFFICES ASSUME NEW j \in 1 .. len + 1, NEW k \in 1 .. len + 1, j < k PROVE new[j] < new[k]
      OBVIOUS
    <2>1. j \in 1 .. len
      OBVIOUS
    <2>2. CASE k = len + 1
      <3>1. new[j] = batch[j] /\ batch[j] \in 1 .. ph - 1 /\ new[k] = ph
        BY <1>1, <1>2, <2>1, <2>2
      <3> QED
        BY <3>1
    <2>3. CASE k \in 1 .. len
      BY <1>2, <2>1, <2>3
    <2> QED
      BY <1>1, <2>2, <2>3
  <1>4. {new[k] : k \in 1 .. len + 1} = {batch[k] : k \in 1 .. len} \union {ph}
    BY <1>1, <1>2
  <1> QED
    BY <1>2, <1>3, <1>4

(* A batch that is over is named exactly if a stream of it failed.         *)
LEMMA BatchNamed ==
  ASSUME IInv, CountInv, SummaryInv, BatchDone
  PROVE  SummaryInv'
  <1>0. PICK ph, len : ph = phase /\ len = Len(summary)
    OBVIOUS
  <1>1. /\ pc = "wait" /\ ph \in Nat \ {0} /\ ph \in Phases /\ Through = ph - 1 /\ ph - 1 \in Nat
        /\ UNCHANGED <<request, streams, orphaned>> /\ next > N(phase)
    BY <1>0, ScaleOutAssumption DEF BatchDone, IInv, ControlOK, Phases, Through, batches
  <1>2. failed = FailedStreams(ph) /\ failed \in 0 .. NMax /\ N(ph) \in StreamIds
    BY <1>0, <1>1, BatchCounted, CurrentBatch DEF CountInv
  <1>3. Through' = ph
    <2>1. CASE ph < Len(request)
      BY <1>0, <1>1, <2>1 DEF BatchDone, Through
    <2>2. CASE ~(ph < Len(request))
      <3>1. Len(request) \in Nat /\ ph = Len(request)
        BY <1>1, <2>2, ScaleOutAssumption DEF Phases, IInv, ControlOK
      <3> QED
        BY <1>0, <1>1, <2>2, <3>1 DEF BatchDone, Through
    <2> QED
      BY <2>1, <2>2
  <1> DEFINE Reports == [n : StreamIds, failed : StreamIds]
             b == [n |-> N(ph), failed |-> failed]
  <1>4. summary \in Seq(Reports) /\ len \in Nat
    BY <1>0 DEF SummaryInv
  <1>5. summary' = IF failed = 0 THEN summary ELSE Append(summary, b)
    BY <1>0 DEF BatchDone
  <1>6. failed # 0 => b \in Reports
    BY <1>2, Countable DEF StreamIds
  <1> HIDE DEF Reports, b
  <1>7. summary' \in Seq(Reports)
    <2>1. CASE failed = 0
      BY <1>4, <1>5, <2>1
    <2>2. CASE failed # 0
      BY <1>4, <1>5, <1>6, <2>2
    <2> QED
      BY <2>1, <2>2
  <1>8. SummaryNames(ph - 1)
    BY <1>1 DEF SummaryInv
  <1>9. PICK batch \in [1 .. len -> 1 .. ph - 1] :
          /\ \A j, k \in 1 .. len : j < k => batch[j] < batch[k]
          /\ {batch[k] : k \in 1 .. len} = {p \in 1 .. ph - 1 : FailedStreams(p) > 0}
          /\ \A k \in 1 .. len :
               summary[k] = [n |-> N(batch[k]), failed |-> FailedStreams(batch[k])]
    BY <1>0, <1>8 DEF SummaryNames
  <1>10. /\ \A p : N(p)' = N(p)
         /\ \A p : FailedStreams(p)' = FailedStreams(p)
    BY <1>1 DEF N, FailedStreams, Failed
  <1>11. 1 .. ph = (1 .. ph - 1) \union {ph}
    BY <1>1
  <1>12. SummaryNames(ph)'
    <2>1. CASE failed = 0
      <3>1. ~(FailedStreams(ph) > 0)
        BY <1>2, <2>1
      <3>2. {p \in 1 .. ph : FailedStreams(p)' > 0} = {batch[k] : k \in 1 .. len}
        BY <1>9, <1>10, <1>11, <3>1
      <3>3. batch \in [1 .. Len(summary') -> 1 .. ph] /\ DOMAIN batch = 1 .. len
        BY <1>0, <1>5, <1>9, <1>11, <2>1
      <3>4. \A k \in DOMAIN batch : summary'[k] = [n |-> N(batch[k])', failed |-> FailedStreams(batch[k])']
        BY <1>5, <1>9, <1>10, <2>1, <3>3
      <3> QED
        BY <1>9, <3>2, <3>3, <3>4 DEF SummaryNames
    <2>2. CASE failed # 0
      <3>1. PICK new \in [1 .. len + 1 -> 1 .. ph] :
              /\ new[len + 1] = ph /\ \A k \in 1 .. len : new[k] = batch[k]
              /\ \A j, k \in 1 .. len + 1 : j < k => new[j] < new[k]
              /\ {new[k] : k \in 1 .. len + 1} = {batch[k] : k \in 1 .. len} \union {ph}
        <4>1. ph \in Nat \ {0} /\ len \in Nat /\ batch \in [1 .. len -> 1 .. ph - 1]
          BY <1>1, <1>4, <1>9
        <4>2. \A j, k \in 1 .. len : j < k => batch[j] < batch[k]
          BY <1>9
        <4> QED
          BY ONLY <4>1, <4>2, OneNameMore
      <3>2. FailedStreams(ph) > 0
        BY <1>2, <2>2, Countable
      <3>3. {p \in 1 .. ph : FailedStreams(p)' > 0} = {new[k] : k \in 1 .. len + 1}
        BY <1>9, <1>10, <1>11, <3>1, <3>2
      <3>4. /\ Len(summary') = len + 1 /\ summary'[len + 1] = b
            /\ \A k \in 1 .. len : summary'[k] = summary[k]
        BY <1>0, <1>4, <1>5, <1>6, <2>2
      <3>5. ASSUME NEW k \in 1 .. len + 1
            PROVE  summary'[k] = [n |-> N(new[k])', failed |-> FailedStreams(new[k])']
        <4>1. CASE k = len + 1
          BY <1>2, <1>10, <3>1, <3>4, <4>1 DEF b
        <4>2. CASE k \in 1 .. len
          BY <1>9, <1>10, <3>1, <3>4, <4>2
        <4> QED
          BY <1>4, <4>1, <4>2
      <3>6. new \in [1 .. Len(summary') -> 1 .. ph] /\ DOMAIN new = 1 .. len + 1
        BY <3>1, <3>4
      <3> QED
        BY <3>1, <3>3, <3>5, <3>6 DEF SummaryNames
    <2> QED
      BY <2>1, <2>2
  <1> QED
    BY <1>3, <1>7, <1>12 DEF SummaryInv, Reports

(* The invariant of the counts and the summary.                            *)
TallyInv == CountInv /\ SummaryInv

(* A stream that runs is neither counted nor named yet.                    *)
LEMMA TallyKept ==
  ASSUME IInv, TallyInv, UNCHANGED <<pc, request, phase, next, failed, summary>>,
         NEW p \in Phases, NEW i \in StreamIds,
         \A r \in Phases, j \in StreamIds :
           \/ Failed(r, j)' <=> Failed(r, j)
           \/ r = p /\ j = i /\ Running(p, i),
         \A r \in Phases, j \in StreamIds : streams'[r][j] # "none" => streams[r][j] # "none"
  PROVE  TallyInv'
  <1>1. phase \in Phases /\ (Running(p, i) => p = phase /\ (pc = "wait" => ~(i < next)))
    BY DEF IInv, OnlyThisBatch, WaitedFor, ControlOK, Running
  <1>2. CountInv'
    <2>1. \A j \in StreamIds : j < next => (Failed(phase, j)' <=> Failed(phase, j)) \/ pc # "wait"
      BY <1>1
    <2> QED
      BY <2>1, CountStays DEF TallyInv
  <1>3. SummaryInv'
    <2>1. Through' = Through
      BY DEF Through
    <2>2. ASSUME pc # "exited", NEW r \in 1 .. Through
          PROVE  r \in Phases /\ (Running(p, i) => r # p)
      <3>1. Running(p, i) => pc \in {"launch", "wait"}
        BY <2>2 DEF IInv, WaitedFor, ControlOK
      <3>2. phase \in Nat /\ Len(request) \in Nat /\ phase <= Len(request)
        BY <1>1, ScaleOutAssumption DEF Phases, IInv, ControlOK
      <3>3. r \in Phases
        BY <2>2, <3>2 DEF Through, Phases
      <3>4. Running(p, i) => r # p
        BY <2>2, <3>1, <3>2, <1>1 DEF Through
      <3> QED
        BY <3>3, <3>4
    <2> QED
      BY <2>1, <2>2, SummaryKept DEF TallyInv, IInv
  <1> QED
    BY <1>2, <1>3 DEF TallyInv

(* A process that moves does not change what is counted or named.          *)
LEMMA ProcessesTally ==
  ASSUME IInv, TallyInv, NEW p \in Phases, NEW i \in StreamIds, streams[p][i] \in Live,
         NEW s, SetStream(p, i, s), UNCHANGED <<control, tally>>
  PROVE  TallyInv'
  <1>1. /\ streams' = [streams EXCEPT ![p] = [@ EXCEPT ![i] = s]]
        /\ streams \in [Phases -> [StreamIds -> {"none"} \union Live \union Exited]]
        /\ UNCHANGED <<pc, request, phase, next, failed, summary, orphaned>> /\ phase \in Phases
    BY DEF SetStream, IInv, ControlOK, control, tally
  <1>2. streams[p][i] # "none" /\ streams[p][i] # "nonzero"
    BY DEF Live
  <1>3. \A r \in Phases, j \in StreamIds : ~(r = p /\ j = i) => streams'[r][j] = streams[r][j]
    BY <1>1
  <1>4. \A r \in Phases, j \in StreamIds :
          \/ Failed(r, j)' <=> Failed(r, j)
          \/ r = p /\ j = i /\ Running(p, i)
    BY <1>1, <1>3 DEF Failed, Running
  <1> QED
    BY <1>1, <1>2, <1>3, <1>4, TallyKept

(* Every step keeps the tally and the summary.                             *)
LEMMA NextTally == IInv /\ TallyInv /\ [Next]_vars => TallyInv'
  <1> SUFFICES ASSUME IInv, TallyInv, [Next]_vars PROVE TallyInv'
    OBVIOUS
  <1>0. /\ ControlOK /\ CountInv /\ SummaryInv /\ phase \in Nat /\ Len(request) \in Nat /\ phase <= Len(request)
        /\ phase \in Phases
    BY ScaleOutAssumption DEF IInv, ControlOK, TallyInv, Phases
  <1>1. CASE Validate
    <2>1. CountInv'
      BY <1>0, <1>1 DEF Validate, CountInv, Phases, N, tally, batches
    <2>2. SummaryInv'
      BY <1>0, <1>1, SummaryKept DEF Validate, Through, tally, batches, Failed
    <2> QED
      BY <2>1, <2>2 DEF TallyInv
  <1>2. CASE Launch
    <2>1. /\ N(phase) \in StreamIds /\ N(phase) <= NMax /\ next <= N(phase) /\ next \in Nat \ {0} /\ NMax \in Nat
          /\ next \in StreamIds /\ pc = "launch" /\ N(phase) \in Nat
      BY <1>0, <1>2, CurrentBatch, Countable DEF Launch, StreamIds, ControlOK
    <2>2. /\ streams' = [streams EXCEPT ![phase] = [@ EXCEPT ![next] = "launched"]]
          /\ streams \in [Phases -> [StreamIds -> {"none"} \union Live \union Exited]]
          /\ UNCHANGED <<pc, request, phase, failed, summary, orphaned>> /\ next' = next + 1
      BY <1>0, <1>2 DEF Launch, tally, ControlOK
    <2>3. \A r \in Phases, j \in StreamIds : ~(r = phase /\ j = next) => streams'[r][j] = streams[r][j]
      BY <2>2
    <2>4. Phases' = Phases /\ \A r : N(r)' = N(r)
      BY <2>2 DEF Phases, N
    <2>5. CountInv'
      <3>1. \A r \in Phases, j \in StreamIds : streams'[r][j] # "none" => j <= N(r)
        BY <1>0, <2>1, <2>3 DEF CountInv
      <3> QED
        BY <1>0, <2>1, <2>2, <2>4, <3>1 DEF CountInv
    <2>6. SummaryInv'
      <3>1. Through' = Through
        BY <2>2 DEF Through
      <3>2. \A r \in 1 .. Through : r \in Phases /\ r # phase
        BY <1>0, <2>1 DEF Through, Phases
      <3> QED
        BY <1>0, <2>2, <2>3, <3>1, <3>2, SummaryKept DEF Failed
    <2> QED
      BY <2>5, <2>6 DEF TallyInv
  <1>3. CASE AllLaunched
    <2>1. CountInv'
      <3>1. {i \in Nonzero(phase) : i < next}' = {}
        BY <1>3 DEF AllLaunched, StreamIds, Nonzero
      <3>2. N(phase) \in Nat /\ NMax \in Nat
        BY <1>0, BatchSize, Countable
      <3>3. failed' = 0 /\ next' = 1 /\ pc' = "wait" /\ UNCHANGED <<streams, request, phase>>
        BY <1>3 DEF AllLaunched, batches
      <3>4. Phases' = Phases /\ \A r : N(r)' = N(r)
        BY <3>3 DEF Phases, N
      <3>5. failed' = Cardinality({i \in Nonzero(phase) : i < next}')
        BY <3>1, <3>3, FS_EmptySet
      <3>6. next' <= NMax + 1 /\ next' <= N(phase)' + 1 /\ failed' \in 0 .. NMax
        BY <3>2, <3>3, <3>4
      <3>7. \A p \in Phases', i \in StreamIds : streams'[p][i] # "none" => i <= N(p)'
        BY <1>0, <3>3, <3>4 DEF CountInv
      <3> QED
        BY <3>5, <3>6, <3>7 DEF CountInv
    <2>2. SummaryInv'
      BY <1>0, <1>3, SummaryKept DEF AllLaunched, Through, batches, Failed
    <2> QED
      BY <2>1, <2>2 DEF TallyInv
  <1>4. CASE WaitStream
    <2>1. SummaryInv'
      BY <1>0, <1>4, SummaryKept DEF WaitStream, Through, batches, Failed
    <2> QED
      BY <1>0, <1>4, <2>1, OneMore DEF TallyInv
  <1>5. CASE WarmupDone
    <2>1. /\ streams' = [streams EXCEPT ![0] = [@ EXCEPT ![1] = "none"]]
          /\ streams \in [Phases -> [StreamIds -> {"none"} \union Live \union Exited]]
          /\ UNCHANGED <<request, failed, summary>> /\ phase = 0 /\ pc = "wait"
          /\ (pc' = "exited" /\ UNCHANGED <<phase, next>>) \/ (pc' = "launch" /\ phase' = 1 /\ next' = 1)
      BY <1>0, <1>5 DEF WarmupDone, tally, ControlOK
    <2>2. Phases' = Phases /\ \A r : N(r)' = N(r)
      BY <2>1 DEF Phases, N
    <2>3. 0 \in Phases /\ 1 \in Phases /\ 1 \in StreamIds
      BY <1>0, ScaleOutAssumption DEF Phases, StreamIds, ControlOK
    <2>4. N(1) \in Nat \ {0} /\ NMax \in Nat
      BY <1>0, <2>3, BatchSize, Countable
    <2>5. CountInv'
      <3>1. \A r \in Phases, j \in StreamIds : streams'[r][j] # "none" => streams[r][j] # "none"
        BY <2>1, <2>3
      <3>2. next' <= NMax + 1 /\ failed' \in 0 .. NMax
        BY <1>0, <2>1, <2>4 DEF CountInv
      <3>3. \A p \in Phases', i \in StreamIds : streams'[p][i] # "none" => i <= N(p)'
        BY <1>0, <2>2, <3>1 DEF CountInv
      <3>4. pc' = "launch" => next' <= N(phase)' + 1
        <4> SUFFICES ASSUME pc' = "launch" PROVE next' <= N(phase)' + 1
          OBVIOUS
        <4>1. next' = 1 /\ N(phase)' = N(1)
          BY <2>1 DEF N
        <4> QED
          BY <2>4, <4>1
      <3> QED
        BY <2>1, <3>2, <3>3, <3>4 DEF CountInv
    <2>6. SummaryInv'
      <3>1. Through = 0 /\ (pc' # "exited" => Through' = 0)
        BY <2>1 DEF Through
      <3> QED
        BY <1>0, <2>1, <3>1, SummaryKept
    <2> QED
      BY <2>5, <2>6 DEF TallyInv
  <1>6. CASE BatchDone
    <2>1. /\ UNCHANGED <<request, failed, streams, orphaned>> /\ phase # 0
          /\ (pc' = "launch" /\ next' = 1 /\ phase' = phase + 1 /\ phase < Len(request))
               \/ (pc' = "aggregate" /\ UNCHANGED <<phase, next>>)
      BY <1>6 DEF BatchDone, batches
    <2>2. Phases' = Phases /\ \A r : N(r)' = N(r)
      BY <2>1 DEF Phases, N
    <2>3. phase < Len(request) => N(phase + 1) \in Nat \ {0}
      BY <1>0, BatchSize DEF Phases
    <2>4. NMax \in Nat
      BY Countable
    <2>5. pc' = "launch" => next' <= N(phase)' + 1
      <3> SUFFICES ASSUME pc' = "launch" PROVE next' <= N(phase)' + 1
        OBVIOUS
      <3>1. next' = 1 /\ N(phase)' = N(phase + 1) /\ phase < Len(request)
        BY <2>1 DEF N
      <3> QED
        BY <2>3, <3>1
    <2>6. next' <= NMax + 1
      BY <1>0, <2>1, <2>4 DEF CountInv
    <2>7. CountInv'
      BY <1>0, <2>1, <2>2, <2>5, <2>6 DEF CountInv
    <2> QED
      BY <1>0, <1>6, <2>7, BatchNamed DEF TallyInv
  <1>7. CASE Aggregate \/ AggregateFails \/ Clean \/ OrchestratorStops
    <2>1. UNCHANGED <<request, phase, next, failed, summary, streams, orphaned>> /\ pc' \in {"clean", "exited"}
          /\ (pc' = "clean" => pc = "aggregate")
      BY <1>7 DEF Aggregate, AggregateFails, Clean, OrchestratorStops, tally, batches
    <2>2. CountInv'
      <3>1. Phases' = Phases /\ \A r : N(r)' = N(r)
        BY <2>1 DEF Phases, N
      <3> QED
        BY <1>0, <2>1, <3>1 DEF CountInv
    <2>3. SummaryInv'
      BY <1>0, <2>1, SummaryKept DEF Through, Failed
    <2> QED
      BY <2>2, <2>3 DEF TallyInv
  <1>8. CASE WarmUp
    <2>1. 0 \in Phases /\ 1 \in StreamIds /\ streams[0][1] \in Live
      BY <1>0, <1>8, ScaleOutAssumption DEF WarmUp, Phases, StreamIds, Live
    <2> QED
      BY <1>8, <2>1, ProcessesTally DEF WarmUp
  <1>9. ASSUME NEW i \in StreamIds, Stream(i) PROVE TallyInv'
    <2>1. PICK p \in Phases \ {0} : StreamStep(p, i)
      BY <1>9 DEF Stream
    <2>2. streams[p][i] \in Live /\ UNCHANGED <<control, tally>> /\ \E s : SetStream(p, i, s)
      BY <2>1, StepOf
    <2> QED
      BY <2>1, <2>2, ProcessesTally
  <1>10. CASE UNCHANGED vars
    <2>1. UNCHANGED <<pc, request, phase, next, failed, summary, streams, orphaned>>
      BY <1>10 DEF vars, control, tally, batches
    <2>2. CountInv'
      BY <1>0, <2>1, CountStays DEF Failed
    <2>3. SummaryInv'
      BY <1>0, <2>1, SummaryKept DEF Through, Failed
    <2> QED
      BY <2>2, <2>3 DEF TallyInv
  <1>11. ASSUME NEW p \in Phases \ {0}, NEW i \in StreamIds, ParentDies(p, i) PROVE TallyInv'
    <2>1. /\ UNCHANGED <<pc, request, phase, next, failed, summary, streams>>
          /\ orphaned' = orphaned \union {<<p, i>>} /\ Running(p, i) /\ p \in Phases
      BY <1>11 DEF ParentDies, control, tally, Running
    <2>2. \A r \in Phases, j \in StreamIds :
            \/ Failed(r, j)' <=> Failed(r, j)
            \/ r = p /\ j = i /\ Running(p, i)
      BY <2>1 DEF Failed
    <2> QED
      BY <2>1, <2>2, TallyKept
  <1> QED
    BY <1>1, <1>2, <1>3, <1>4, <1>5, <1>6, <1>7, <1>8, <1>9, <1>10, <1>11 DEF Next, Orchestrate

-----------------------------------------------------------------------------
(* What is read is a log in turn, or none.                                 *)
LEMMA LatestIs ==
  ASSUME ControlOK, LogsOK, NEW n \in StreamIds, NEW i \in StreamIds
  PROVE  Latest(n, i) \in Logs /\ InTurn(Latest(n, i), i)
  <1>1. CASE OpenedAt(n, i) = {}
    BY <1>1, OtherLogs DEF Latest
  <1>2. CASE OpenedAt(n, i) # {}
    <2>1. PICK p : p = LastOf(OpenedAt(n, i))
      OBVIOUS
    <2>2. p \in Phases
      BY <1>2, <2>1, LastIs DEF OpenedAt
    <2>3. Latest(n, i) = logs[p][i]
      BY <1>2, <2>1 DEF Latest
    <2> QED
      BY <2>2, <2>3 DEF LogsOK
  <1> QED
    BY <1>1, <1>2

(* Nothing is read in the beginning.                                       *)
LEMMA InitRead == Init => ReadOK
  BY OtherLogs DEF Init, ReadOK

(* It is read once.                                                        *)
LEMMA NextRead == IInv /\ LogInv /\ ReadOK /\ [Next]_vars => ReadOK'
  <1> SUFFICES ASSUME IInv, LogInv, ReadOK, [Next]_vars PROVE ReadOK'
    OBVIOUS
  <1>1. CASE Aggregate
    <2>1. \A n, i \in StreamIds : Latest(n, i) \in Logs /\ InTurn(Latest(n, i), i)
      BY LatestIs DEF IInv, LogInv
    <2>2. read' = [n \in StreamIds |-> [i \in StreamIds |-> Latest(n, i)]]
      BY <1>1 DEF Aggregate, Loaded
    <2> QED
      BY <2>1, <2>2 DEF ReadOK
  <1>2. CASE UNCHANGED read
    BY <1>2 DEF ReadOK
  <1>3. CASE Orchestrate \/ OrchestratorStops \/ WarmUp
    BY <1>1, <1>2, <1>3 DEF Orchestrate, OrchestratorStops, WarmUp, Validate, Launch, AllLaunched,
       WaitStream, WarmupDone, BatchDone, AggregateFails, Clean, results
  <1>4. ASSUME NEW i \in StreamIds, Stream(i) PROVE ReadOK'
    BY <1>2, <1>4, StepOf DEF Stream, results
  <1>5. ASSUME NEW p, NEW i, ParentDies(p, i) PROVE ReadOK'
    BY <1>2, <1>5 DEF ParentDies, results
  <1>6. CASE UNCHANGED vars
    BY <1>2, <1>6 DEF vars, results
  <1> QED
    BY <1>3, <1>4, <1>5, <1>6 DEF Next

(* All of it holds in every state.                                         *)
THEOREM Invariant == Spec => [](IInv /\ Settled /\ LogInv /\ ReadOK /\ TallyInv)
  <1>1. Init => IInv /\ Settled /\ LogInv /\ ReadOK /\ TallyInv
    BY InitIInv, InitSettled, InitLogs, InitRead, InitTally DEF TallyInv
  <1>2. /\ IInv /\ Settled /\ LogInv /\ ReadOK /\ TallyInv /\ [Next]_vars
        => IInv' /\ Settled' /\ LogInv' /\ ReadOK' /\ TallyInv'
    BY NextIInv, NextSettled, NextLogs, NextRead, NextTally
  <1> QED
    BY <1>1, <1>2, PTL DEF Spec

(* What a row of the curve is made of.                                     *)
LEMMA SamplesAre ==
  ASSUME ReadOK, NEW q \in Queries, NEW n \in StreamIds
  PROVE  /\ IsFiniteSet(DOMAIN Samples(read, q, n))
         /\ \A i \in DOMAIN Samples(read, q, n) : Samples(read, q, n)[i] \in Nat \ {0}
  <1>1. DOMAIN Samples(read, q, n) \in SUBSET (1 .. n) /\ 1 .. n \subseteq StreamIds
    <2>1. 1 .. n \subseteq StreamIds
      BY ScaleOutAssumption DEF StreamIds
    <2>2. DOMAIN Samples(read, q, n) = {j \in 1 .. n : q \in DOMAIN read[n][j].ok}
      BY DEF Samples
    <2> QED
      BY <2>1, <2>2
  <1>2. IsFiniteSet(DOMAIN Samples(read, q, n))
    BY <1>1, Countable
  <1>3. ASSUME NEW i \in DOMAIN Samples(read, q, n)
        PROVE  Samples(read, q, n)[i] \in Nat \ {0}
    <2>1. i \in StreamIds /\ q \in DOMAIN read[n][i].ok /\ Samples(read, q, n)[i] = read[n][i].ok[q]
      BY <1>1 DEF Samples
    <2>2. read[n][i].ok[q] \in Walls[q]
      BY <2>1 DEF ReadOK, InTurn
    <2> QED
      BY <2>1, <2>2, ScaleOutAssumption
  <1> QED
    BY <1>2, <1>3

(* Every row of the curve is the row of a query and a size.                *)
LEMMA RowsAre ==
  ASSUME IInv, Settled, ReadOK, NEW r \in curve
  PROVE  \E q \in Queries, n \in StreamIds :
           /\ r.query = q
           /\ r.row = Row(n, Samples(read, q, n), Samples(read, q, 1))
  <1>1. curve = Rows(read) /\ \A n \in NValues : Fits(n)
    BY DEF Settled, Aggregated, Final
  <1>2. PICK q \in QueriesSeen(read), n \in NValues :
          r = [query |-> q, row |-> Row(n, Samples(read, q, n), Samples(read, q, 1))]
    BY <1>1 DEF Rows
  <1>3. \A m \in NValues : m \in StreamIds
    BY <1>1, ScaleOutAssumption DEF IInv, ControlOK, NValues, Fits, StreamIds
  <1>4. q \in Queries
    <2>1. PICK m \in NValues, i \in StreamIds : q \in DOMAIN read[m][i].ok
      BY DEF QueriesSeen
    <2>2. read[m][i] \in Logs
      BY <1>3, <2>1 DEF ReadOK
    <2> QED
      BY <2>1, <2>2 DEF Logs, Timings
  <1> QED
    BY <1>2, <1>3, <1>4

(* A median is a number, and 0 only where there are no samples.            *)
LEMMA MedianIs ==
  ASSUME NEW f, IsFiniteSet(DOMAIN f), \A i \in DOMAIN f : f[i] \in Nat
  PROVE  Percentile(f, 50) \in Nat
  <1>1. CASE DOMAIN f = {}
    <2>1. Cardinality(DOMAIN f) = 0
      BY <1>1, FS_EmptySet
    <2> QED
      BY <2>1 DEF Percentile, NoValue
  <1>2. CASE DOMAIN f # {}
    BY <1>2, PercentileBounds
  <1> QED
    BY <1>1, <1>2

(* Every variable keeps its range; the ones that are not declarations: no  *)
(* more failures are counted than NMax, and no query has a wall time and a *)
(* failure in one log (orchestrate.sh:146-164, bench_runner.py:277-315).   *)
THEOREM TypeCorrect == Spec => []TypeOK
  <1>1. IInv /\ Settled /\ LogInv /\ ReadOK /\ TallyInv => TypeOK
    <2> SUFFICES ASSUME IInv, Settled, LogInv, ReadOK, TallyInv PROVE TypeOK
      OBVIOUS
    <2>1. next \in 1 .. NMax + 1
      BY Countable DEF IInv, ControlOK, TallyInv, CountInv
    <2>2. ASSUME NEW p \in Phases, NEW i \in StreamIds
          PROVE  /\ DOMAIN logs[p][i].ok \subseteq Queries
                 /\ \A q \in DOMAIN logs[p][i].ok : logs[p][i].ok[q] \in Walls[q]
                 /\ logs[p][i].failures \subseteq Queries \ DOMAIN logs[p][i].ok
                 /\ {logs[p][i].opened, logs[p][i].torn} \subseteq BOOLEAN
      <3>1. logs[p][i] \in Logs /\ InTurn(logs[p][i], i)
        BY DEF LogInv, LogsOK
      <3> DEFINE log == logs[p][i]
      <3>2. log.ok \in Timings /\ log.failures \in SUBSET Queries /\ {log.opened, log.torn} \subseteq BOOLEAN
        BY <3>1 DEF Logs
      <3>3. DOMAIN log.ok \subseteq Queries
        BY <3>2 DEF Timings
      <3> QED
        BY <3>1, <3>2, <3>3 DEF InTurn
    <2>3. \A r \in curve : r.query \in Queries
      BY RowsAre
    <2> QED
      BY <2>1, <2>2, <2>3 DEF TypeOK, IInv, ControlOK, TallyInv, CountInv, SummaryInv, Settled
  <1> QED
    BY Invariant, <1>1, PTL

(* The summary tells of every batch in which streams failed, and of no     *)
(* other, however many batches the matrix has and however their streams    *)
(* end (orchestrate.sh:140-163, 201-228).                                  *)
THEOREM SummaryComplete == Spec => []SummaryIsExact
  <1>1. IInv /\ TallyInv => SummaryIsExact
    <2> SUFFICES ASSUME IInv, TallyInv, pc \in {"aggregate", "clean"} PROVE SummaryNames(Len(request))
      BY DEF SummaryIsExact
    <2>1. Len(request) \in Nat /\ Through = Len(request) /\ pc # "exited"
      BY ScaleOutAssumption DEF IInv, ControlOK, Through
    <2> QED
      BY <2>1 DEF TallyInv, SummaryInv
  <1> QED
    BY Invariant, <1>1, PTL

(* For any number of streams and any wall times: different samples lie in  *)
(* equal numbers on both sides of the median, and the 95th percentile lies *)
(* between the median and the greatest (aggregate.py:105-118).             *)
THEOREM PercentilesInOrder == Spec => []PercentilesBalanced
  <1>1. IInv /\ Settled /\ ReadOK => PercentilesBalanced
    <2> SUFFICES ASSUME IInv, Settled, ReadOK, NEW r \in curve, r.row.samples > 0
                 PROVE  LET f == Samples(read, r.query, r.row.n)
                            below == {i \in DOMAIN f : 100 * f[i] < r.row.p50}
                            above == {i \in DOMAIN f : 100 * f[i] > r.row.p50}
                            distinct == \A i, j \in DOMAIN f : f[i] = f[j] => i = j
                        IN  /\ distinct => Cardinality(below) = Cardinality(above)
                            /\ r.row.p50 <= r.row.p95
                            /\ \E i \in DOMAIN f : r.row.p95 <= 100 * f[i]
      BY DEF PercentilesBalanced
    <2>1. PICK q \in Queries, n \in StreamIds :
            r.query = q /\ r.row = Row(n, Samples(read, q, n), Samples(read, q, 1))
      BY RowsAre
    <2> DEFINE f == Samples(read, q, n)
    <2>2. IsFiniteSet(DOMAIN f) /\ \A i \in DOMAIN f : f[i] \in Nat
      BY SamplesAre
    <2>3. /\ r.row.n = n /\ r.row.p50 = Percentile(f, 50) /\ r.row.p95 = Percentile(f, 95)
          /\ r.row.samples = Cardinality(DOMAIN f)
      BY <2>1 DEF Row
    <2>4. f = Samples(read, r.query, r.row.n)
      BY <2>1, <2>3
    <2> HIDE DEF f
    <2>5. DOMAIN f # {}
      BY <2>3, FS_EmptySet
    <2>6. /\ Percentile(f, 50) <= Percentile(f, 95)
          /\ \E i \in DOMAIN f : Percentile(f, 95) <= 100 * f[i]
      BY <2>2, <2>5, TailAboveMedian
    <2>7. (\A i, j \in DOMAIN f : f[i] = f[j] => i = j) =>
            Cardinality({i \in DOMAIN f : 100 * f[i] < Percentile(f, 50)})
              = Cardinality({i \in DOMAIN f : 100 * f[i] > Percentile(f, 50)})
      BY <2>2, <2>5, MedianInTheMiddle
    <2> QED
      BY <2>3, <2>4, <2>6, <2>7
  <1> QED
    BY Invariant, <1>1, PTL

(* Whatever the wall times: the list of offenders and the verdict on a row *)
(* say the same but for the rounding of the ratio (aggregate.py:167-175,   *)
(* 340-346).                                                               *)
THEOREM VerdictsConsistent == Spec => []VerdictsAgree
  <1>1. IInv /\ Settled /\ ReadOK => VerdictsAgree
    <2> SUFFICES ASSUME IInv, Settled, ReadOK, NEW r \in curve, r.row.n > 1
                 PROVE  LET listed == r.row \in Offenders({s.row : s \in curve})
                        IN  /\ listed => r.row.flat = "no"
                            /\ r.row.flat = "no" /\ ~listed => 2000 * r.row.p50 < 2201 * r.row.base
      BY DEF VerdictsAgree
    <2>1. PICK q \in Queries, n \in StreamIds :
            r.query = q /\ r.row = Row(n, Samples(read, q, n), Samples(read, q, 1))
      BY RowsAre
    <2> DEFINE p50 == Percentile(Samples(read, q, n), 50)
               base == Percentile(Samples(read, q, 1), 50)
               rated == DOMAIN Samples(read, q, n) # {} /\ base > 0
    <2>2. p50 \in Nat /\ base \in Nat
      <3>1. 1 \in StreamIds
        BY ScaleOutAssumption DEF StreamIds
      <3> QED
        BY <3>1, SamplesAre, MedianIs
    <2>3. /\ r.row.p50 = p50 /\ r.row.base = base
          /\ r.row.ratio = (IF rated THEN RoundedRatio(p50, base) ELSE NoValue)
          /\ r.row.flat = (IF ~rated THEN "n/a" ELSE IF WithinThreshold(p50, base) THEN "yes" ELSE "no")
      BY <2>1 DEF Row
    <2>4. r.row \in Offenders({s.row : s \in curve}) <=> r.row.ratio > FlatnessThreshold
      BY DEF Offenders
    <2> HIDE DEF p50, base
    <2>5. CASE rated
      <3>1. base \in Nat \ {0}
        BY <2>2, <2>5
      <3> QED
        BY <2>2, <2>3, <2>4, <2>5, <3>1, Verdicts
    <2>6. CASE ~rated
      <3>1. ~(r.row.ratio > FlatnessThreshold) /\ r.row.flat = "n/a"
        BY <2>3, <2>6 DEF NoValue, FlatnessThreshold
      <3> QED
        BY <2>4, <3>1
    <2> QED
      BY <2>5, <2>6
  <1> QED
    BY Invariant, <1>1, PTL

=============================================================================
