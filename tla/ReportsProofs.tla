---------------------------- MODULE ReportsProofs ----------------------------
(***************************************************************************)
(* What the reports make of the logs, for every set of engines, every      *)
(* schedule and logs of any length: report.md counts each line once and    *)
(* lists the disagreements and no other, the readers take the same runs,   *)
(* and the tail figures of the write pages lie where they should.          *)
(***************************************************************************)
EXTENDS Reports, CurveProofs

(* The lines an engine's adapter can cause.                                *)
Lines(e) == {[cell |-> c, ok |-> o.ok, wall |-> o.wall, ems |-> o.ems, sha |-> o.sha] :
               c \in Cell, o \in Outcomes[e]}

(* The inductive invariant: all that the reports need to know of the way   *)
(* the logs came about.                                                    *)
LogsTyped ==
  /\ DOMAIN logs = Engines
  /\ \A e \in Engines : logs[e] \in Seq(Lines(e))

(* A log holds nothing but lines its engine's adapter can cause, whatever  *)
(* workloads were given up and wherever the run was cut short.             *)
THEOREM LogsWellFormed == Spec => []LogsTyped
<1>1. Init => LogsTyped
  BY DEF Init, LogsTyped
<1>2. LogsTyped /\ [Next]_logs => LogsTyped'
  <2> SUFFICES ASSUME LogsTyped, [Next]_logs PROVE LogsTyped'
    OBVIOUS
  <2>1. CASE UNCHANGED logs
    BY <2>1 DEF LogsTyped
  <2>2. ASSUME NEW e \in Engines, NEW c \in Cell, NEW o \in Outcomes[e], Measure(e, c, o)
        PROVE  LogsTyped'
    <3> DEFINE line == [cell |-> c, ok |-> o.ok, wall |-> o.wall, ems |-> o.ems, sha |-> o.sha]
    <3>1. logs' = [logs EXCEPT ![e] = Append(@, line)]
      BY <2>2 DEF Measure
    <3>2. line \in Lines(e)
      BY DEF Lines
    <3> HIDE DEF line
    <3>3. logs[e] \in Seq(Lines(e))
      BY DEF LogsTyped
    <3>4. Append(logs[e], line) \in Seq(Lines(e))
      BY <3>2, <3>3
    <3> QED
      BY <3>1, <3>4 DEF LogsTyped
  <2> QED
    BY <2>1, <2>2 DEF Next
<1> QED
  BY <1>1, <1>2, PTL DEF Spec

(* A line belongs to one step of one workload, and a hash comes with a     *)
(* success only.                                                           *)
LEMMA LineIs ==
  ASSUME LogsTyped, NEW e \in Engines, NEW n \in DOMAIN logs[e]
  PROVE  LET r == logs[e][n]
         IN  /\ r.cell.wl \in Workloads
             /\ r.cell.step \in DOMAIN StepIds[r.cell.wl]
             /\ Id(r) \in Ids
             /\ r.wall \in Nat
             /\ r.sha # NoHash => r.ok
  <1>1. logs[e][n] \in Lines(e)
    BY DEF LogsTyped
  <1>2. PICK c \in Cell, o \in Outcomes[e] :
          logs[e][n] = [cell |-> c, ok |-> o.ok, wall |-> o.wall, ems |-> o.ems, sha |-> o.sha]
    BY <1>1 DEF Lines
  <1>3. PICK w \in Workloads : c \in [wl : {w}, step : 1 .. Steps[w], run : 0 .. Runs(w) - 1]
    BY DEF Cell
  <1>4. c.wl \in Workloads /\ c.step \in DOMAIN StepIds[c.wl]
    BY <1>3, ReportsAssumption
  <1>5. StepIds[c.wl][c.step] \in Ids
    BY <1>4 DEF Ids, Range
  <1>6. o.wall \in Nat /\ (o.sha # NoHash => o.ok)
    BY ReportsAssumption
  <1> QED
    BY <1>2, <1>4, <1>5, <1>6 DEF Id

LEMMA LinesAreFinite ==
  ASSUME LogsTyped, NEW e \in Engines
  PROVE  /\ DOMAIN logs[e] \subseteq Nat /\ IsFiniteSet(DOMAIN logs[e])
         /\ \A S \in SUBSET DOMAIN logs[e] : IsFiniteSet(S)
  <1>1. logs[e] \in Seq(Lines(e))
    BY DEF LogsTyped
  <1>2. DOMAIN logs[e] = 1 .. Len(logs[e]) /\ Len(logs[e]) \in Nat
    BY <1>1
  <1>3. IsFiniteSet(DOMAIN logs[e])
    BY <1>2, FS_Interval
  <1> QED
    BY <1>2, <1>3, FS_Subset

-----------------------------------------------------------------------------
(* The cell a line belongs to, and what it is taken for there.             *)
UseOf(r) == IF ~r.ok THEN "failure" ELSE IF Cold(r) THEN "cold" ELSE "warm"

LEMMA UsesIs ==
  ASSUME LogsTyped, NEW e \in Engines, NEW n \in DOMAIN logs[e]
  PROVE  LET r == logs[e][n] IN Uses(e, n) = {<<r.cell.wl, Id(r), UseOf(r)>>}
  <1> DEFINE r == logs[e][n]
             T == Workloads \X Ids \X {"cold", "warm", "failure"}
             In(w, id, use) ==
               /\ r.cell.wl = w /\ Id(r) = id
               /\ \/ use = "cold" /\ Cold(r) /\ r.ok
                  \/ use = "warm" /\ ~Cold(r) /\ r.ok
                  \/ use = "failure" /\ ~r.ok
  <1>1. r.cell.wl \in Workloads /\ Id(r) \in Ids
    BY LineIs
  <1>2. ASSUME NEW w, NEW id, NEW use
        PROVE  Takes(e, w, id, use, n) <=> In(w, id, use)
    <2>1. n \in Group(e, w, id) <=> r.cell.wl = w /\ Id(r) = id
      BY DEF Group
    <2> QED
      BY <2>1 DEF Takes, CellStats, Counts
  <1> HIDE DEF In
  <1>3. Uses(e, n) = {u \in T : In(u[1], u[2], u[3])}
    BY <1>2 DEF Uses
  <1>4. ASSUME NEW w, NEW id, NEW use
        PROVE  /\ In(w, id, use) => w = r.cell.wl /\ id = Id(r) /\ use = UseOf(r)
               /\ In(r.cell.wl, Id(r), UseOf(r))
    BY DEF In, UseOf
  <1>5. UseOf(r) \in {"cold", "warm", "failure"}
    BY DEF UseOf
  <1> HIDE DEF r
  <1>6. \A t \in T : t = <<t[1], t[2], t[3]>>
    OBVIOUS
  <1>7. {u \in T : In(u[1], u[2], u[3])} = {<<r.cell.wl, Id(r), UseOf(r)>>}
    BY <1>1, <1>4, <1>5, <1>6
  <1> QED
    BY <1>3, <1>7 DEF r

(* report.md accounts for every line of the logs exactly once.             *)
THEOREM LinesCountedOnce == Spec => []EveryRecordCounted
<1>1. ASSUME LogsTyped, NEW e \in Engines, NEW n \in DOMAIN logs[e]
      PROVE  Cardinality(Uses(e, n)) = 1
  <2>1. PICK u : Uses(e, n) = {u}
    BY <1>1, UsesIs
  <2> QED
    BY <2>1, FS_Singleton
<1>2. LogsTyped => EveryRecordCounted
  BY <1>1 DEF EveryRecordCounted
<1> QED
  BY <1>2, LogsWellFormed, PTL

-----------------------------------------------------------------------------
(* A finite set has more than one element if two of them differ.           *)
LEMMA MoreThanOne ==
  ASSUME NEW S, IsFiniteSet(S)
  PROVE  Cardinality(S) > 1 <=> \E a, b \in S : a # b
  <1>1. ASSUME NEW a \in S, NEW b \in S, a # b PROVE Cardinality(S) > 1
    <2>1. IsFiniteSet(S \ {a}) /\ Cardinality(S \ {a}) = Cardinality(S) - 1
      BY FS_RemoveElement
    <2>2. S \ {a} # {} /\ Cardinality(S \ {a}) \in Nat /\ Cardinality(S) \in Nat
      BY <1>1, <2>1, FS_CardinalityType
    <2>3. Cardinality(S \ {a}) # 0
      BY <2>1, <2>2, FS_EmptySet
    <2> QED
      BY <2>1, <2>2, <2>3
  <1>2. ASSUME \A a, b \in S : a = b PROVE ~(Cardinality(S) > 1)
    <2>1. CASE S = {}
      BY <2>1, FS_EmptySet
    <2>2. CASE S # {}
      <3>1. PICK a \in S : TRUE
        BY <2>2
      <3>2. S = {a}
        BY <1>2, <3>1
      <3> QED
        BY <3>2, FS_Singleton
    <2> QED
      BY <2>1, <2>2
  <1> QED
    BY <1>1, <1>2

(* An image of a finite set is finite.                                     *)
LEMMA ImageIsFinite ==
  ASSUME NEW f, IsFiniteSet(DOMAIN f)
  PROVE  IsFiniteSet({f[x] : x \in DOMAIN f})
  <1> DEFINE T == {f[x] : x \in DOMAIN f}
             g == [x \in DOMAIN f |-> f[x]]
  <1>1. g \in Surjection(DOMAIN f, T)
    BY DEF Surjection
  <1> QED
    BY <1>1, FS_Surjection

LEMMA ShasAreFinite ==
  ASSUME LogsTyped, NEW e \in Engines, NEW w, NEW id
  PROVE  IsFiniteSet(Shas(e, w, id))
  <1> DEFINE f == [n \in Group(e, w, id) |-> logs[e][n].sha]
  <1>1. IsFiniteSet(DOMAIN f)
    BY LinesAreFinite DEF Group
  <1>2. IsFiniteSet({f[n] : n \in DOMAIN f})
    BY <1>1, ImageIsFinite
  <1>3. Shas(e, w, id) \subseteq {f[n] : n \in DOMAIN f}
    BY DEF Shas
  <1> HIDE DEF f
  <1> QED
    BY <1>2, <1>3, FS_Subset

(* The hash a cell shows is one its engine returned, and it shows one if   *)
(* there is any.                                                           *)
LEMMA CellSha ==
  ASSUME LogsTyped, NEW e \in Engines, NEW w, NEW id
  PROVE  LET sha == CellStats(e, w, id).sha
         IN  /\ sha # NoHash <=> Shas(e, w, id) # {}
             /\ sha # NoHash => sha \in Shas(e, w, id)
  <1> DEFINE hashed == {n \in Group(e, w, id) : logs[e][n].sha # NoHash /\ logs[e][n].ok}
             sha == CellStats(e, w, id).sha
  <1>1. sha = IF hashed = {} THEN NoHash ELSE logs[e][Min(hashed)].sha
    BY DEF CellStats
  <1>2. \A n \in Group(e, w, id) : n \in hashed <=> logs[e][n].sha # NoHash
    BY LineIs DEF Group
  <1>3. hashed \subseteq Nat
    BY LinesAreFinite DEF Group
  <1>4. hashed \subseteq Group(e, w, id)
    OBVIOUS
  <1> HIDE DEF hashed, sha
  <1>5. hashed # {} => Min(hashed) \in hashed
    <2> SUFFICES ASSUME hashed # {} PROVE Min(hashed) \in hashed
      OBVIOUS
    <2>1. \E x \in hashed : \A y \in hashed : x <= y
      BY <1>3, Least
    <2> QED
      BY <2>1 DEF Min
  <1>6. sha # NoHash => sha \in Shas(e, w, id)
    BY <1>1, <1>2, <1>4, <1>5 DEF Shas
  <1>7. Shas(e, w, id) # {} => sha # NoHash
    BY <1>1, <1>2, <1>4, <1>5 DEF Shas
  <1> QED
    BY <1>6, <1>7 DEF sha

(* A step is listed as a disagreement exactly if two engines that agree    *)
(* with themselves returned different rows for it.                         *)
THEOREM DisagreementsListed == Spec => []HashesCompared
<1>1. ASSUME LogsTyped, NEW w \in Workloads, NEW id \in Ids,
             \A e \in Engines : Cardinality(Shas(e, w, id)) <= 1
      PROVE  <<w, id>> \in Issues <=>
               \E e, f \in Engines : \E a \in Shas(e, w, id), b \in Shas(f, w, id) : a # b
  <2> DEFINE sha(e) == CellStats(e, w, id).sha
             S(e) == Shas(e, w, id)
  <2>1. \A e \in Engines : /\ sha(e) # NoHash => sha(e) \in S(e)
                           /\ S(e) # {} => sha(e) # NoHash
    BY <1>1, CellSha
  <2>2. \A e \in Engines : \A a, b \in S(e) : a = b
    <3> SUFFICES ASSUME NEW e \in Engines, NEW a \in S(e), NEW b \in S(e), a # b
                 PROVE  FALSE
      OBVIOUS
    <3>1. IsFiniteSet(S(e)) /\ Cardinality(S(e)) <= 1
      BY <1>1, ShasAreFinite
    <3>2. Cardinality(S(e)) \in Nat
      BY <3>1, FS_CardinalityType
    <3> HIDE DEF S
    <3> QED
      BY <3>1, <3>2, MoreThanOne
  <2>3. IsFiniteSet(EngineHashes(w, id))
    <3> DEFINE f == [e \in Engines |-> sha(e)]
    <3>1. IsFiniteSet({f[e] : e \in DOMAIN f})
      BY ReportsAssumption, ImageIsFinite
    <3>2. EngineHashes(w, id) \subseteq {f[e] : e \in DOMAIN f}
      BY DEF EngineHashes
    <3> HIDE DEF f
    <3> QED
      BY <3>1, <3>2, FS_Subset
  <2>4. <<w, id>> \in Issues <=> \E a, b \in EngineHashes(w, id) : a # b
    <3>1. <<w, id>> \in Issues <=> Cardinality(EngineHashes(w, id)) > 1
      BY DEF Issues
    <3> QED
      BY <2>3, <3>1, MoreThanOne
  <2>5. EngineHashes(w, id) = {sha(e) : e \in Engines} \ {NoHash}
    BY DEF EngineHashes
  <2>6. NoHash \notin UNION {S(e) : e \in Engines}
    BY DEF Shas
  <2> HIDE DEF sha, S
  <2>7. (\E a, b \in EngineHashes(w, id) : a # b) <=>
          \E e, f \in Engines : \E a \in S(e), b \in S(f) : a # b
    BY <2>1, <2>2, <2>5, <2>6
  <2> QED
    BY <2>4, <2>7 DEF S
<1>2. LogsTyped => HashesCompared
  BY <1>1 DEF HashesCompared
<1> QED
  BY <1>2, LogsWellFormed, PTL

-----------------------------------------------------------------------------
(* A line with the id of a query is of that kind.                          *)
LEMMA QueriesAreRead ==
  ASSUME LogsTyped, NEW e \in Engines, NEW n \in DOMAIN logs[e], Id(logs[e][n]) \in Queries
  PROVE  KindOf(logs[e][n]) = "sql_query"
  <1> DEFINE c == logs[e][n].cell
  <1>1. c.wl \in Workloads /\ c.step \in DOMAIN StepIds[c.wl]
    BY LineIs
  <1>2. c.step \in 1 .. Steps[c.wl] /\ StepIds[c.wl][c.step] \in Queries
    BY <1>1, ReportsAssumption DEF Id
  <1> QED
    BY <1>1, <1>2, ReportsAssumption DEF KindOf

(* The published page, the summary, the headline and the report take the   *)
(* same lines for the warm runs of a query.                                *)
THEOREM ReadersTakeTheSame == Spec => []ReadersAgree
<1>1. ASSUME LogsTyped, NEW e \in Engines, NEW id \in Queries \cap Ids
      PROVE  /\ PublishedWarm(e, id) = SummaryWarm(e, id)
             /\ DOMAIN PublishedWarm(e, id) = DOMAIN HeadlineWarm(e, id)
  <2> DEFINE P == {n \in DOMAIN logs[e] : id \in Queries /\ Id(logs[e][n]) = id /\ WarmSuccess(logs[e][n])}
             S == {n \in DOMAIN logs[e] : /\ KindOf(logs[e][n]) = "sql_query"
                                         /\ Id(logs[e][n]) = id /\ WarmSuccess(logs[e][n])}
             H == {n \in DOMAIN logs[e] : Id(logs[e][n]) = id /\ WarmSuccess(logs[e][n])}
  <2>1. P = H /\ P = S
    BY <1>1, QueriesAreRead
  <2> QED
    BY <2>1 DEF PublishedWarm, SummaryWarm, HeadlineWarm
<1>2. ASSUME LogsTyped, NEW e \in Engines, NEW id \in Queries \cap Ids, NEW w \in Workloads,
             \A f \in Engines : \A n \in DOMAIN logs[f] : logs[f][n].cell.wl = w
      PROVE  /\ DOMAIN PublishedWarm(e, id) = DOMAIN CellStats(e, w, id).warm
             /\ id \in Completed(e) <=> DOMAIN CellStats(e, w, id).warm # {}
  <2>1. DOMAIN PublishedWarm(e, id)
          = {n \in DOMAIN logs[e] : Id(logs[e][n]) = id /\ WarmSuccess(logs[e][n])}
    BY DEF PublishedWarm
  <2>2. DOMAIN CellStats(e, w, id).warm
          = {n \in Group(e, w, id) : ~Cold(logs[e][n]) /\ logs[e][n].ok}
    BY DEF CellStats, Counts
  <2>3. DOMAIN PublishedWarm(e, id) = DOMAIN CellStats(e, w, id).warm
    BY <1>2, <2>1, <2>2 DEF Group, WarmSuccess
  <2>4. id \in Completed(e) <=> DOMAIN PublishedWarm(e, id) # {}
    BY DEF Completed, PageQueries
  <2> QED
    BY <2>3, <2>4
<1>3. LogsTyped => ReadersAgree
  BY <1>1, <1>2 DEF ReadersAgree
<1> QED
  BY <1>3, LogsWellFormed, PTL

-----------------------------------------------------------------------------
(* Where the entries of the write pages lie among m samples.               *)
Index95(m) == AtLeastZero((95 * m) \div 100 - 1)
Index90(m) == IF m > 1 THEN (90 * m) \div 100 - 1 ELSE 0

(* Neither lies above the lower of the ranks its percentile lies between.  *)
LEMMA IndicesAreLow ==
  ASSUME NEW m \in Nat \ {0}
  PROVE  /\ Index95(m) \in 0 .. m - 1 /\ Index95(m) <= Lower(m, 95)
         /\ Index90(m) \in 0 .. m - 1 /\ Index90(m) <= Lower(m, 90)
  <1>1. Index95(m) \in 0 .. m - 1 /\ Index95(m) <= Lower(m, 95)
    BY DEF Index95, AtLeastZero, Lower
  <1>2. CASE m > 1
    BY <1>1, <1>2 DEF Index90, Lower
  <1>3. CASE m = 1
    BY <1>1, <1>3 DEF Index90, Lower
  <1> QED
    BY <1>1, <1>2, <1>3

(* But for two samples, neither lies below the ranks of the median: the    *)
(* middle one of an odd number, the two in the middle of an even one.      *)
LEMMA IndicesAreHigh ==
  ASSUME NEW m \in Nat \ {0}, m # 2
  PROVE  LET top == IF Between(m, 50) = 0 THEN Lower(m, 50) ELSE Upper(m, 50)
         IN  top <= Index95(m) /\ top <= Index90(m)
  <1>1. CASE m = 1
    BY <1>1 DEF Index95, Index90, AtLeastZero, Lower, Upper, Between
  <1>2. CASE m = 3
    BY <1>2 DEF Index95, Index90, AtLeastZero, Lower, Upper, Between
  <1>3. CASE m > 3
    <2> DEFINE p == (95 * m) \div 100
               q == (90 * m) \div 100
               u == IF Between(m, 50) = 0 THEN Lower(m, 50) ELSE Upper(m, 50)
    <2>1. p \in Int /\ q \in Int /\ 95 * m < 100 * p + 100 /\ 90 * m < 100 * q + 100
      OBVIOUS
    <2>2. /\ Lower(m, 50) \in Int /\ Between(m, 50) \in 0 .. 99
          /\ (m - 1) * 50 = 100 * Lower(m, 50) + Between(m, 50)
          /\ Upper(m, 50) \in Int /\ Upper(m, 50) <= Lower(m, 50) + 1
      BY Ranks, RanksExact
    <2>3. u \in Int /\ 2 * u <= m
      BY <2>2
    <2>4. Index95(m) = IF p - 1 < 0 THEN 0 ELSE p - 1
      BY DEF Index95, AtLeastZero
    <2>5. Index90(m) = q - 1
      BY <1>3 DEF Index90
    <2> HIDE DEF p, q, u
    <2>6. u <= p - 1 /\ u <= q - 1
      BY <1>3, <2>1, <2>3
    <2> QED
      BY <2>1, <2>3, <2>4, <2>5, <2>6 DEF u
  <1> QED
    BY <1>1, <1>2, <1>3

(* An entry is one of the samples; a percentile is not below an entry of   *)
(* at most its lower rank, and the median not above an entry of at least   *)
(* its upper one.                                                          *)
LEMMA EntryBelow ==
  ASSUME NEW f, DOMAIN f # {}, IsFiniteSet(DOMAIN f), \A i \in DOMAIN f : f[i] \in Nat,
         NEW pct \in {50, 90, 95}, NEW k \in 0 .. Size(f) - 1, k <= Lower(Size(f), pct)
  PROVE  Entry(f, k) <= Percentile(f, pct)
  <1> DEFINE m == Size(f)
             lo == Lower(m, pct)
             x == OrderStat(f, lo + 1)
             p == Percentile(f, pct)
  <1>1. m \in Nat \ {0} /\ m = Cardinality(DOMAIN f)
    BY FS_CardinalityType, FS_EmptySet DEF Size
  <1>2. lo \in 0 .. m - 1
    BY <1>1, Ranks
  <1>3. x \in Nat /\ p \in Nat /\ 100 * x <= p
    BY <1>1, PercentileBounds
  <1>4. k + 1 \in 1 .. Cardinality(DOMAIN f) /\ lo + 1 \in 1 .. Cardinality(DOMAIN f) /\ k + 1 <= lo + 1
    <2> HIDE DEF m, lo
    <2> QED
      BY <1>1, <1>2 DEF m, lo
  <1>5. OrderStat(f, k + 1) \in Nat /\ OrderStat(f, k + 1) <= x
    BY <1>4, OrderStatIs, OrderStatGrows
  <1> HIDE DEF x, p
  <1>6. 100 * OrderStat(f, k + 1) <= p
    BY <1>3, <1>5
  <1> QED
    BY <1>6 DEF Entry, p

LEMMA EntryAbove ==
  ASSUME NEW f, DOMAIN f # {}, IsFiniteSet(DOMAIN f), \A i \in DOMAIN f : f[i] \in Nat,
         NEW k \in 0 .. Size(f) - 1,
         (IF Between(Size(f), 50) = 0 THEN Lower(Size(f), 50) ELSE Upper(Size(f), 50)) <= k
  PROVE  Percentile(f, 50) <= Entry(f, k)
  <1> DEFINE m == Size(f)
             lo == Lower(m, 50)
             hi == Upper(m, 50)
             w == Between(m, 50)
             x == OrderStat(f, lo + 1)
             y == OrderStat(f, hi + 1)
             z == OrderStat(f, k + 1)
             p == Percentile(f, 50)
  <1>1. m \in Nat \ {0} /\ m = Cardinality(DOMAIN f)
    BY FS_CardinalityType, FS_EmptySet DEF Size
  <1>2. lo \in 0 .. m - 1 /\ hi \in 0 .. m - 1
    BY <1>1, Ranks
  <1>3. x \in Nat /\ y \in Nat /\ p = Mean(x, y, w) /\ p \in Nat /\ p <= 100 * y
    BY <1>1, PercentileBounds
  <1>4. k + 1 \in 1 .. m /\ lo + 1 \in 1 .. m /\ hi + 1 \in 1 .. m
    <2> HIDE DEF m, lo, hi
    <2> QED
      BY <1>1, <1>2 DEF m
  <1>5. z \in Nat
    BY <1>1, <1>4, OrderStatIs
  <1>6. CASE w = 0
    <2>1. lo + 1 <= k + 1
      <3>1. lo <= k
        BY <1>6
      <3> HIDE DEF m, lo
      <3> QED
        BY <1>1, <1>2, <1>4, <3>1
    <2>2. x <= z
      BY <1>1, <1>4, <2>1, OrderStatGrows
    <2>3. p = x * (100 - 0) + y * 0
      BY <1>3, <1>6 DEF Mean
    <2> HIDE DEF x, y, z, p
    <2>4. p <= 100 * z
      BY <1>3, <1>5, <2>2, <2>3
    <2> QED
      BY <2>4 DEF Entry, p, z
  <1>7. CASE w # 0
    <2>1. hi + 1 <= k + 1
      <3>1. hi <= k
        BY <1>7
      <3> HIDE DEF m, hi
      <3> QED
        BY <1>1, <1>2, <1>4, <3>1
    <2>2. y <= z
      BY <1>1, <1>4, <2>1, OrderStatGrows
    <2> HIDE DEF x, y, z, p
    <2>3. p <= 100 * z
      BY <1>3, <1>5, <2>2
    <2> QED
      BY <2>3 DEF Entry, p, z
  <1> QED
    BY <1>6, <1>7

LEMMA Bracketed ==
  ASSUME NEW f, DOMAIN f # {}, IsFiniteSet(DOMAIN f), \A i \in DOMAIN f : f[i] \in Nat
  PROVE  /\ WriteP95(f) <= Percentile(f, 95)
         /\ SummaryP90(f) <= Percentile(f, 90)
         /\ Size(f) # 2 => /\ Percentile(f, 50) <= WriteP95(f)
                           /\ Percentile(f, 50) <= SummaryP90(f)
  <1>1. Size(f) \in Nat \ {0}
    BY FS_CardinalityType, FS_EmptySet DEF Size
  <1>2. WriteP95(f) = Entry(f, Index95(Size(f))) /\ SummaryP90(f) = Entry(f, Index90(Size(f)))
    BY DEF WriteP95, SummaryP90, Index95, Index90
  <1>3. /\ Index95(Size(f)) \in 0 .. Size(f) - 1 /\ Index95(Size(f)) <= Lower(Size(f), 95)
        /\ Index90(Size(f)) \in 0 .. Size(f) - 1 /\ Index90(Size(f)) <= Lower(Size(f), 90)
    BY <1>1, IndicesAreLow
  <1>4. WriteP95(f) <= Percentile(f, 95) /\ SummaryP90(f) <= Percentile(f, 90)
    BY <1>2, <1>3, EntryBelow
  <1>5. ASSUME Size(f) # 2
        PROVE  Percentile(f, 50) <= WriteP95(f) /\ Percentile(f, 50) <= SummaryP90(f)
    BY <1>1, <1>2, <1>3, <1>5, IndicesAreHigh, EntryAbove
  <1> QED
    BY <1>4, <1>5

(* However many warm runs there are, the tail figures are not above the    *)
(* percentile of the report, nor, but for two runs, below the median.      *)
THEOREM TailsInPlace == Spec => []TailsBracketed
<1>1. ASSUME LogsTyped, NEW e \in Engines, NEW f \in {WrittenWarm(e), SummarizedWarm(e)}
      PROVE  IsFiniteSet(DOMAIN f) /\ \A n \in DOMAIN f : f[n] \in Nat
  <2>1. DOMAIN f \subseteq DOMAIN logs[e] /\ \A n \in DOMAIN f : f[n] = logs[e][n].wall
    BY DEF WrittenWarm, SummarizedWarm
  <2> QED
    BY <1>1, <2>1, LinesAreFinite, LineIs
<1>2. LogsTyped => TailsBracketed
  BY <1>1, Bracketed DEF TailsBracketed
<1> QED
  BY <1>2, LogsWellFormed, PTL
=============================================================================
