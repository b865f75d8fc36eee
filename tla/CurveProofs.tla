----------------------------- MODULE CurveProofs -----------------------------
(***************************************************************************)
(* The arithmetic of samples, for any number of them: order statistics     *)
(* exist and grow with their rank, percentiles lie between two of them,    *)
(* and the two verdicts on a ratio differ by no more than its rounding.    *)
(***************************************************************************)
EXTENDS Curve, FiniteSetTheorems, FunctionTheorems, WellFoundedInduction, TLAPS

(* A set of natural numbers has a least element: the way to prove without  *)
(* an induction rule what holds of finitely many samples.                  *)
LEMMA Least ==
  ASSUME NEW S, S \subseteq Nat, S # {}
  PROVE  \E x \in S : \A y \in S : x <= y
  <1> DEFINE R == OpToRel(<, Nat)
  <1>1. IsWellFoundedOn(R, Nat)
    BY NatLessThanWellFounded
  <1>2. \A x, y \in Nat : <<x, y>> \in R <=> x < y
    BY DEF OpToRel
  <1> HIDE DEF R
  <1>3. \E x \in S : \A y \in S : <<y, x>> \notin R
    BY <1>1, WFMin
  <1>4. PICK x \in S : \A y \in S : <<y, x>> \notin R
    BY <1>3
  <1>5. \A y \in S : ~(y < x)
    BY <1>2, <1>4
  <1>6. \A y \in S : x <= y
    BY <1>5
  <1> QED
    BY <1>6

(* The positions of the values up to v, and of those below it.             *)
UpTo(f, v)  == {i \in DOMAIN f : f[i] <= v}
Below(f, v) == {i \in DOMAIN f : f[i] < v}

(* A non-empty part of finitely many samples has a greatest value: the one *)
(* with the fewest of them not up to it.                                   *)
LEMMA Greatest ==
  ASSUME NEW f, IsFiniteSet(DOMAIN f), \A i \in DOMAIN f : f[i] \in Nat,
         NEW E \in SUBSET DOMAIN f, E # {}
  PROVE  \E i \in E : \A j \in E : f[j] <= f[i]
  <1> DEFINE Over(i) == {j \in E : f[j] > f[i]}
             S == {Cardinality(Over(i)) : i \in E}
  <1>1. IsFiniteSet(E)
    BY FS_Subset
  <1>2. \A i \in E : IsFiniteSet(Over(i)) /\ Cardinality(Over(i)) \in Nat
    BY <1>1, FS_Subset, FS_CardinalityType
  <1>3. PICK i \in E : \A k \in E : Cardinality(Over(i)) <= Cardinality(Over(k))
    <2>1. S \subseteq Nat /\ S # {}
      BY <1>2
    <2>2. PICK x \in S : \A y \in S : x <= y
      BY <2>1, Least
    <2> QED
      BY <2>2
  <1>4. ASSUME NEW j \in E, ~(f[j] <= f[i])
        PROVE  FALSE
    <2>1. f[i] < f[j] /\ \A k \in E : f[k] \in Nat
      BY <1>4
    <2>2. Over(j) \subseteq Over(i) /\ j \in Over(i) /\ j \notin Over(j)
      BY <2>1
    <2>3. Cardinality(Over(j)) < Cardinality(Over(i))
      <3> HIDE DEF Over
      <3>1. Cardinality(Over(j)) <= Cardinality(Over(i)) /\ Over(j) # Over(i)
        BY <1>2, <2>2, FS_Subset
      <3>2. Cardinality(Over(j)) # Cardinality(Over(i))
        BY <1>2, <2>2, <3>1, FS_Subset
      <3> QED
        BY <1>2, <3>1, <3>2
    <2> HIDE DEF Over
    <2> QED
      BY <1>2, <1>3, <2>3
  <1> QED
    BY <1>4

(* Counting positions: more of them up to a greater value.                 *)
LEMMA Counted ==
  ASSUME NEW f, IsFiniteSet(DOMAIN f), NEW A \in SUBSET DOMAIN f, NEW B \in SUBSET A
  PROVE  /\ IsFiniteSet(A) /\ Cardinality(A) \in Nat
         /\ Cardinality(B) \in Nat /\ Cardinality(B) <= Cardinality(A)
         /\ Cardinality(A) = Cardinality(B) => A = B
  <1>1. IsFiniteSet(A)
    BY FS_Subset
  <1> QED
    BY <1>1, FS_Subset, FS_CardinalityType

(* The k-th smallest value exists, for any number of samples.              *)
LEMMA OrderStatIs ==
  ASSUME NEW f, IsFiniteSet(DOMAIN f), \A i \in DOMAIN f : f[i] \in Nat,
         NEW k \in 1 .. Cardinality(DOMAIN f)
  PROVE  /\ OrderStat(f, k) \in Nat
         /\ \E i \in DOMAIN f : OrderStat(f, k) = f[i]
         /\ Cardinality(Below(f, OrderStat(f, k))) < k
         /\ k <= Cardinality(UpTo(f, OrderStat(f, k)))
  <1> DEFINE V == {f[i] : i \in DOMAIN f}
             S == {v \in V : k <= Cardinality(UpTo(f, v))}
  <1>0. \A v : UpTo(f, v) \in SUBSET DOMAIN f /\ Below(f, v) \in SUBSET DOMAIN f
    BY DEF UpTo, Below
  <1>1. S # {}
    <2>1. Cardinality(DOMAIN f) \in Nat /\ DOMAIN f # {}
      BY FS_CardinalityType, FS_EmptySet
    <2>2. PICK i \in DOMAIN f : \A j \in DOMAIN f : f[j] <= f[i]
      BY <2>1, Greatest
    <2>3. UpTo(f, f[i]) = DOMAIN f
      BY <2>2 DEF UpTo
    <2> QED
      BY <2>3
  <1>2. PICK v \in S : \A w \in S : v <= w
    <2>1. S \subseteq Nat
      OBVIOUS
    <2> HIDE DEF S
    <2> QED
      BY <1>1, <2>1, Least
  <1>3. Cardinality(Below(f, v)) < k
    <2> SUFFICES ASSUME ~(Cardinality(Below(f, v)) < k) PROVE FALSE
      OBVIOUS
    <2>1. Cardinality(Below(f, v)) \in Nat
      BY <1>0, Counted
    <2>2. k <= Cardinality(Below(f, v)) /\ Below(f, v) # {}
      BY <2>1, FS_EmptySet
    <2>3. PICK i \in Below(f, v) : \A j \in Below(f, v) : f[j] <= f[i]
      BY <1>0, <2>2, Greatest
    <2>4. f[i] \in V /\ f[i] < v
      BY <2>3 DEF Below
    <2>5. Below(f, v) \subseteq UpTo(f, f[i])
      BY <2>3 DEF Below, UpTo
    <2>6. k <= Cardinality(UpTo(f, f[i]))
      BY <1>0, <2>1, <2>2, <2>5, Counted
    <2>7. f[i] \in S
      BY <2>4, <2>6
    <2> QED
      BY <1>2, <2>4, <2>7
  <1>4. OrderStat(f, k) = CHOOSE u \in V : Cardinality(Below(f, u)) < k /\ k <= Cardinality(UpTo(f, u))
    BY DEF OrderStat, Below, UpTo
  <1>5. /\ OrderStat(f, k) \in V
        /\ Cardinality(Below(f, OrderStat(f, k))) < k
        /\ k <= Cardinality(UpTo(f, OrderStat(f, k)))
    <2>1. v \in V /\ k <= Cardinality(UpTo(f, v))
      BY <1>2
    <2> HIDE DEF V
    <2> QED
      BY <1>3, <1>4, <2>1
  <1> QED
    BY <1>5

(* A higher rank is not a smaller value.                                   *)
LEMMA OrderStatGrows ==
  ASSUME NEW f, IsFiniteSet(DOMAIN f), \A i \in DOMAIN f : f[i] \in Nat,
         NEW k \in 1 .. Cardinality(DOMAIN f), NEW l \in 1 .. Cardinality(DOMAIN f), k <= l
  PROVE  OrderStat(f, k) <= OrderStat(f, l)
  <1> DEFINE x == OrderStat(f, k)
             y == OrderStat(f, l)
  <1>1. x \in Nat /\ y \in Nat
    BY OrderStatIs
  <1>2. Cardinality(Below(f, x)) < k /\ l <= Cardinality(UpTo(f, y))
    BY OrderStatIs
  <1> HIDE DEF x, y
  <1>3. ASSUME y < x PROVE FALSE
    <2>1. UpTo(f, y) \subseteq Below(f, x) /\ Below(f, x) \in SUBSET DOMAIN f
      BY <1>1, <1>3 DEF UpTo, Below
    <2>2. /\ Cardinality(UpTo(f, y)) <= Cardinality(Below(f, x))
          /\ Cardinality(UpTo(f, y)) \in Nat /\ Cardinality(Below(f, x)) \in Nat
      BY <2>1, Counted
    <2> QED
      BY <1>2, <2>2
  <1>4. x <= y
    BY <1>1, <1>3
  <1> QED
    BY <1>4 DEF x, y

(* The ranks of a percentile, counted from nought, and its place between.  *)
Lower(m, pct)  == ((m - 1) * pct) \div 100
Upper(m, pct)  == IF Lower(m, pct) + 1 < m THEN Lower(m, pct) + 1 ELSE m - 1
Between(m, pct) == ((m - 1) * pct) % 100

(* The two ranks a percentile lies between are neighbours.                 *)
LEMMA Ranks ==
  ASSUME NEW m \in Nat \ {0}, NEW pct \in {50, 90, 95}
  PROVE  /\ Lower(m, pct) \in 0 .. m - 1 /\ Upper(m, pct) \in 0 .. m - 1
         /\ Lower(m, pct) <= Upper(m, pct) /\ Upper(m, pct) <= Lower(m, pct) + 1
         /\ Between(m, pct) \in 0 .. 99
  <1>1. CASE pct = 50
    BY <1>1 DEF Lower, Upper, Between
  <1>2. CASE pct = 90
    BY <1>2 DEF Lower, Upper, Between
  <1>3. CASE pct = 95
    BY <1>3 DEF Lower, Upper, Between
  <1> QED
    BY <1>1, <1>2, <1>3

(* Where a percentile lies, in hundredths of a rank.                       *)
LEMMA RanksExact ==
  ASSUME NEW m \in Nat \ {0}
  PROVE  /\ (m - 1) * 50 = 100 * Lower(m, 50) + Between(m, 50)
         /\ (m - 1) * 95 = 100 * Lower(m, 95) + Between(m, 95)
  BY DEF Lower, Between

(* A weighted mean of two values.                                          *)
Mean(x, y, w) == x * (100 - w) + y * w

(* Percentile is the weighted mean of two order statistics.                *)
LEMMA PercentileIs ==
  ASSUME NEW f, DOMAIN f # {}, IsFiniteSet(DOMAIN f), NEW pct
  PROVE  Percentile(f, pct) = Mean(OrderStat(f, Lower(Cardinality(DOMAIN f), pct) + 1),
                                   OrderStat(f, Upper(Cardinality(DOMAIN f), pct) + 1),
                                   Between(Cardinality(DOMAIN f), pct))
  <1>1. Cardinality(DOMAIN f) # 0
    BY FS_EmptySet
  <1> QED
    BY <1>1 DEF Percentile, Mean, Lower, Upper, Between

(* It lies between them, and nearer to the second with a greater weight.   *)
LEMMA MeanIsBetween ==
  ASSUME NEW x \in Nat, NEW y \in Nat, x <= y, NEW w \in 0 .. 99
  PROVE  Mean(x, y, w) \in Nat /\ 100 * x <= Mean(x, y, w) /\ Mean(x, y, w) <= 100 * y
  <1> DEFINE d == y - x
  <1>1. d \in Nat /\ y = x + d
    OBVIOUS
  <1>2. x * (100 - w) = 100 * x - x * w /\ x * w \in Int
    OBVIOUS
  <1>3. y * w = x * w + d * w /\ d * w \in Nat
    BY <1>1
  <1>4. d * w <= 100 * d
    <2>1. 100 * d = d * w + d * (100 - w) /\ d * (100 - w) \in Nat /\ d * w \in Nat
      BY <1>1
    <2> QED
      BY <2>1, <1>1
  <1>5. Mean(x, y, w) = 100 * x + d * w
    BY <1>2, <1>3, <1>1 DEF Mean
  <1> HIDE DEF d
  <1> QED
    BY <1>1, <1>3, <1>4, <1>5

(* A greater weight moves the mean to the second value.                    *)
LEMMA MeanGrows ==
  ASSUME NEW x \in Nat, NEW y \in Nat, x <= y, NEW v \in 0 .. 99, NEW w \in 0 .. 99, v <= w
  PROVE  Mean(x, y, v) <= Mean(x, y, w)
  <1> DEFINE d == y - x
             e == w - v
  <1>1. d \in Nat /\ y = x + d /\ e \in Nat /\ w = v + e
    OBVIOUS
  <1>2. \A u \in 0 .. 99 : Mean(x, y, u) = 100 * x + d * u /\ d * u \in Nat
    <2> SUFFICES ASSUME NEW u \in 0 .. 99 PROVE Mean(x, y, u) = 100 * x + d * u /\ d * u \in Nat
      OBVIOUS
    <2>1. x * (100 - u) = 100 * x - x * u /\ x * u \in Int
      OBVIOUS
    <2>2. y * u = x * u + d * u /\ d * u \in Nat
      BY <1>1
    <2> QED
      BY <2>1, <2>2, <1>1 DEF Mean
  <1>3. \A p, q, r \in Nat : p * (q + r) = p * q + p * r /\ p * q \in Nat
    OBVIOUS
  <1> HIDE DEF d, e
  <1>4. d * w = d * v + d * e /\ d * e \in Nat /\ d * v \in Nat
    BY <1>1, <1>3
  <1> QED
    BY <1>2, <1>4

(* A percentile lies between its two order statistics.                     *)
LEMMA PercentileBounds ==
  ASSUME NEW f, DOMAIN f # {}, IsFiniteSet(DOMAIN f), \A i \in DOMAIN f : f[i] \in Nat,
         NEW pct \in {50, 90, 95}
  PROVE  LET m == Cardinality(DOMAIN f)
             x == OrderStat(f, Lower(m, pct) + 1)
             y == OrderStat(f, Upper(m, pct) + 1)
         IN  /\ x \in Nat /\ y \in Nat /\ x <= y
             /\ Percentile(f, pct) = Mean(x, y, Between(m, pct))
             /\ Percentile(f, pct) \in Nat
             /\ 100 * x <= Percentile(f, pct) /\ Percentile(f, pct) <= 100 * y
  <1> DEFINE m == Cardinality(DOMAIN f)
             x == OrderStat(f, Lower(m, pct) + 1)
             y == OrderStat(f, Upper(m, pct) + 1)
  <1>1. m \in Nat \ {0}
    BY FS_CardinalityType, FS_EmptySet
  <1> HIDE DEF m, x, y
  <1> DEFINE InRange(c) == /\ Lower(m, c) \in 0 .. m - 1 /\ Upper(m, c) \in 0 .. m - 1
                           /\ Lower(m, c) <= Upper(m, c) /\ Between(m, c) \in 0 .. 99
  <1>2. InRange(pct)
    <2>1. InRange(50)
      BY <1>1, Ranks
    <2>2. InRange(90)
      BY <1>1, Ranks
    <2>3. InRange(95)
      BY <1>1, Ranks
    <2> HIDE DEF InRange
    <2> QED
      BY <2>1, <2>2, <2>3
  <1>3. Lower(m, pct) + 1 \in 1 .. m /\ Upper(m, pct) + 1 \in 1 .. m /\ Lower(m, pct) + 1 <= Upper(m, pct) + 1
    BY ONLY <1>1, <1>2
  <1>4. x \in Nat /\ y \in Nat /\ x <= y
    BY <1>3, OrderStatIs, OrderStatGrows DEF m, x, y
  <1>5. Percentile(f, pct) = Mean(x, y, Between(m, pct))
    BY PercentileIs DEF m, x, y
  <1>6. Between(m, pct) \in 0 .. 99
    BY <1>2
  <1>7. Mean(x, y, Between(m, pct)) \in Nat /\ 100 * x <= Mean(x, y, Between(m, pct)) /\ Mean(x, y, Between(m, pct)) <= 100 * y
    BY <1>4, <1>6, MeanIsBetween
  <1>8. /\ x \in Nat /\ y \in Nat /\ x <= y
        /\ Percentile(f, pct) = Mean(x, y, Between(m, pct))
        /\ Percentile(f, pct) \in Nat
        /\ 100 * x <= Percentile(f, pct) /\ Percentile(f, pct) <= 100 * y
    BY <1>4, <1>5, <1>7
  <1> QED
    BY <1>8 DEF m, x, y

(* The 95th percentile is not below the median, nor above every sample.    *)
LEMMA TailAboveMedian ==
  ASSUME NEW f, DOMAIN f # {}, IsFiniteSet(DOMAIN f), \A i \in DOMAIN f : f[i] \in Nat
  PROVE  /\ Percentile(f, 50) <= Percentile(f, 95)
         /\ \E i \in DOMAIN f : Percentile(f, 95) <= 100 * f[i]
  <1> DEFINE m == Cardinality(DOMAIN f)
             OS(k) == OrderStat(f, k + 1)
             a == Lower(m, 50)
             b == Upper(m, 50)
             c == Lower(m, 95)
             d == Upper(m, 95)
             v == Between(m, 50)
             w == Between(m, 95)
  <1>1. m \in Nat \ {0}
    BY FS_CardinalityType, FS_EmptySet
  <1>2. a \in 0 .. m - 1 /\ b \in 0 .. m - 1 /\ c \in 0 .. m - 1 /\ d \in 0 .. m - 1
    BY <1>1, Ranks
  <1>3. v \in 0 .. 99 /\ w \in 0 .. 99 /\ (m - 1) * 50 = 100 * a + v /\ (m - 1) * 95 = 100 * c + w /\ b <= a + 1
    BY <1>1, Ranks, RanksExact
  <1>4. a <= c /\ (a = c => v <= w)
    <2> HIDE DEF m, a, c, v, w
    <2> QED
      BY <1>1, <1>2, <1>3
  <1>5. /\ OS(a) \in Nat /\ OS(b) \in Nat /\ OS(a) <= OS(b)
        /\ Percentile(f, 50) = Mean(OS(a), OS(b), v) /\ Percentile(f, 50) \in Nat
        /\ Percentile(f, 50) <= 100 * OS(b)
    BY PercentileBounds
  <1>6. /\ OS(c) \in Nat /\ OS(d) \in Nat
        /\ Percentile(f, 95) = Mean(OS(c), OS(d), w) /\ Percentile(f, 95) \in Nat
        /\ 100 * OS(c) <= Percentile(f, 95) /\ Percentile(f, 95) <= 100 * OS(d)
    BY PercentileBounds
  <1>7. Percentile(f, 50) <= Percentile(f, 95)
    <2>1. CASE a = c
      <3>1. b = d
        BY <2>1 DEF Upper
      <3>2. Mean(OS(a), OS(b), v) <= Mean(OS(a), OS(b), w)
        <4> HIDE DEF m, OS, a, b, c, d, v, w
        <4> QED
          BY <1>3, <1>4, <1>5, <2>1, MeanGrows
      <3> HIDE DEF m, OS, a, b, c, d, v, w
      <3> QED
        BY <1>5, <1>6, <2>1, <3>1, <3>2
    <2>2. CASE a # c
      <3>1. b + 1 \in 1 .. m /\ c + 1 \in 1 .. m /\ b + 1 <= c + 1
        <4> HIDE DEF m, a, b, c
        <4> QED
          BY <1>1, <1>2, <1>3, <1>4, <2>2
      <3>2. OS(b) <= OS(c)
        BY <3>1, OrderStatGrows
      <3> HIDE DEF m, OS, a, b, c, d, v, w
      <3> QED
        BY <1>5, <1>6, <3>2
    <2> QED
      BY <2>1, <2>2
  <1>8. \E i \in DOMAIN f : OS(d) = f[i]
    <2>1. d + 1 \in 1 .. m
      <3> HIDE DEF m, d
      <3> QED
        BY <1>1, <1>2
    <2> QED
      BY <2>1, OrderStatIs
  <1> HIDE DEF OS, d
  <1> QED
    BY <1>6, <1>7, <1>8

(* Among different values the k-th smallest has k - 1 below it.            *)
LEMMA RankOf ==
  ASSUME NEW f, IsFiniteSet(DOMAIN f), \A i \in DOMAIN f : f[i] \in Nat,
         \A i, j \in DOMAIN f : f[i] = f[j] => i = j,
         NEW k \in 1 .. Cardinality(DOMAIN f)
  PROVE  /\ Cardinality(Below(f, OrderStat(f, k))) = k - 1
         /\ Cardinality(UpTo(f, OrderStat(f, k))) = k
  <1> DEFINE x == OrderStat(f, k)
  <1>1. x \in Nat /\ Cardinality(Below(f, x)) < k /\ k <= Cardinality(UpTo(f, x))
    BY OrderStatIs
  <1>2. PICK i \in DOMAIN f : x = f[i]
    BY OrderStatIs
  <1> HIDE DEF x
  <1>3. UpTo(f, x) = Below(f, x) \cup {i} /\ i \notin Below(f, x) /\ Below(f, x) \in SUBSET DOMAIN f
    BY <1>1, <1>2 DEF UpTo, Below
  <1>4. IsFiniteSet(Below(f, x)) /\ Cardinality(Below(f, x)) \in Nat
    BY <1>3, Counted
  <1>5. Cardinality(UpTo(f, x)) = Cardinality(Below(f, x)) + 1
    BY <1>3, <1>4, FS_AddElement
  <1>6. Cardinality(Below(f, x)) = k - 1 /\ Cardinality(UpTo(f, x)) = k
    BY <1>1, <1>4, <1>5
  <1> QED
    BY <1>6 DEF x

(* As many different samples lie below the median as above it.             *)
LEMMA MedianInTheMiddle ==
  ASSUME NEW f, DOMAIN f # {}, IsFiniteSet(DOMAIN f), \A i \in DOMAIN f : f[i] \in Nat,
         \A i, j \in DOMAIN f : f[i] = f[j] => i = j
  PROVE  Cardinality({i \in DOMAIN f : 100 * f[i] < Percentile(f, 50)})
           = Cardinality({i \in DOMAIN f : 100 * f[i] > Percentile(f, 50)})
  <1> DEFINE m == Cardinality(DOMAIN f)
             a == Lower(m, 50)
             b == Upper(m, 50)
             x == OrderStat(f, a + 1)
             y == OrderStat(f, b + 1)
             p == Percentile(f, 50)
             low == {i \in DOMAIN f : 100 * f[i] < p}
             high == {i \in DOMAIN f : 100 * f[i] > p}
  <1>1. m \in Nat \ {0}
    BY FS_CardinalityType, FS_EmptySet
  <1>2. /\ x \in Nat /\ y \in Nat /\ x <= y /\ p \in Nat
        /\ p = Mean(x, y, Between(m, 50))
    BY PercentileBounds
  <1>3. a \in 0 .. m - 1 /\ b \in 0 .. m - 1 /\ b <= a + 1 /\ (m - 1) * 50 = 100 * a + Between(m, 50)
        /\ Between(m, 50) \in 0 .. 99
    BY <1>1, Ranks, RanksExact
  <1>4. /\ Cardinality(Below(f, x)) = a /\ Cardinality(UpTo(f, x)) = a + 1
        /\ Cardinality(Below(f, y)) = b /\ Cardinality(UpTo(f, y)) = b + 1
    <2>1. a + 1 \in 1 .. m /\ b + 1 \in 1 .. m
      <3> HIDE DEF m, a, b
      <3> QED
        BY <1>1, <1>3
    <2>2. \A r \in 1 .. m : Cardinality(Below(f, OrderStat(f, r))) = r - 1 /\ Cardinality(UpTo(f, OrderStat(f, r))) = r
      BY RankOf
    <2>3. a \in Int /\ b \in Int
      <3> HIDE DEF m, a, b
      <3> QED
        BY <1>1, <1>3
    <2>4. Cardinality(Below(f, x)) = (a + 1) - 1 /\ Cardinality(UpTo(f, x)) = a + 1
      BY <2>1, <2>2
    <2>5. Cardinality(Below(f, y)) = (b + 1) - 1 /\ Cardinality(UpTo(f, y)) = b + 1
      BY <2>1, <2>2
    <2> HIDE DEF m, a, b, x, y
    <2> QED
      BY <2>3, <2>4, <2>5
  <1>5. \A A \in SUBSET DOMAIN f : Cardinality(DOMAIN f \ A) = m - Cardinality(A)
    <2> SUFFICES ASSUME NEW A \in SUBSET DOMAIN f PROVE Cardinality(DOMAIN f \ A) = m - Cardinality(A)
      OBVIOUS
    <2>1. DOMAIN f \cap A = A
      OBVIOUS
    <2> QED
      BY <2>1, FS_Difference
  <1>6. UpTo(f, x) \in SUBSET DOMAIN f /\ Below(f, y) \in SUBSET DOMAIN f
    BY DEF UpTo, Below
  <1>7. (2 * a + 1 = m /\ Between(m, 50) = 0) \/ (2 * a + 2 = m /\ Between(m, 50) = 50 /\ b = a + 1)
    <2>1. b = IF a + 1 < m THEN a + 1 ELSE m - 1
      BY DEF Upper
    <2> HIDE DEF m, a, b
    <2> QED
      BY <1>1, <1>3, <2>1
  <1>8. CASE 2 * a + 1 = m /\ Between(m, 50) = 0
    <2>1. p = 100 * x
      <3>1. p = x * (100 - 0) + y * 0
        BY <1>2, <1>8 DEF Mean
      <3> HIDE DEF x, y, p
      <3> QED
        BY <1>2, <3>1
    <2> HIDE DEF x, p
    <2>2. low = Below(f, x) /\ high = DOMAIN f \ UpTo(f, x)
      BY <1>2, <2>1 DEF Below, UpTo
    <2>3. Cardinality(low) = a /\ Cardinality(high) = m - (a + 1)
      BY <1>4, <1>5, <1>6, <2>2
    <2>4. m - (a + 1) = a
      <3> HIDE DEF m, a
      <3> QED
        BY <1>1, <1>3, <1>8
    <2> QED
      BY <2>3, <2>4 DEF p
  <1>a. CASE 2 * a + 2 = m /\ Between(m, 50) = 50 /\ b = a + 1
    <2>1. p = 50 * x + 50 * y
      <3>1. p = x * (100 - 50) + y * 50
        BY <1>2, <1>a DEF Mean
      <3> HIDE DEF x, y, p
      <3> QED
        BY <1>2, <3>1
    <2>2. a \in Nat
      <3> HIDE DEF m, a
      <3> QED
        BY <1>1, <1>3
    <2> HIDE DEF x, y, p, a, b, m, low, high
    <2>3. x < y
      <3>1. x # y
        BY <1>4, <1>a, <2>2
      <3> QED
        BY <1>2, <3>1
    <2>4. UpTo(f, x) = Below(f, y)
      <3>1. UpTo(f, x) \in SUBSET Below(f, y)
        BY <1>2, <2>3 DEF UpTo, Below
      <3> QED
        BY <1>4, <1>6, <1>a, <3>1, Counted
    <2>5. low = UpTo(f, x) /\ high = DOMAIN f \ Below(f, y)
      <3>1. ASSUME NEW i \in DOMAIN f
            PROVE  (100 * f[i] < p <=> f[i] <= x) /\ (100 * f[i] > p <=> ~(f[i] < y))
        <4>1. f[i] \in Nat /\ (f[i] <= x <=> f[i] < y)
          BY <2>4 DEF UpTo, Below
        <4> QED
          BY <1>2, <2>1, <2>3, <4>1
      <3> QED
        BY <3>1 DEF UpTo, Below, low, high
    <2>6. Cardinality(low) = a + 1 /\ Cardinality(high) = m - b
      BY <1>4, <1>5, <1>6, <2>5
    <2>7. m - b = a + 1
      BY <1>a, <2>2
    <2> QED
      BY <2>6, <2>7 DEF p, low, high
  <1> QED
    BY <1>7, <1>8, <1>a

(* The two verdicts on a ratio, whatever the median and the baseline.      *)
LEMMA Verdicts ==
  ASSUME NEW p50 \in Nat, NEW base \in Nat \ {0}
  PROVE  /\ RoundedRatio(p50, base) > FlatnessThreshold => ~WithinThreshold(p50, base)
         /\ ~(RoundedRatio(p50, base) > FlatnessThreshold) => 2000 * p50 < 2201 * base
  <1> DEFINE a == 2000 * p50 + base
             d == 2 * base
             q == a \div d
  <1>1. a \in Nat /\ d \in Nat \ {0}
    OBVIOUS
  <1> HIDE DEF a, d
  <1>2. q \in Int /\ d * q <= a /\ a < d * q + d
    BY <1>1
  <1> HIDE DEF q
  <1>3. ASSUME q > 1100
        PROVE  ~(10 * p50 <= 11 * base)
    <2>1. d * 1101 <= d * q
      <3>1. \A s, t, u \in Int : s >= 0 /\ t <= u => s * t <= s * u
        OBVIOUS
      <3> QED
        BY <1>1, <1>2, <1>3, <3>1
    <2>2. d * q \in Int
      BY <1>1, <1>2
    <2>3. d * 1101 <= a
      BY <1>1, <1>2, <2>1, <2>2
    <2> QED
      BY <2>3 DEF a, d
  <1>4. ASSUME ~(q > 1100)
        PROVE  2000 * p50 < 2201 * base
    <2>1. d * q <= d * 1100
      <3>1. \A s, t, u \in Int : s >= 0 /\ t <= u => s * t <= s * u
        OBVIOUS
      <3> QED
        BY <1>1, <1>2, <1>4, <3>1
    <2>2. d * q \in Int
      BY <1>1, <1>2
    <2>3. a < d * 1100 + d
      BY <1>1, <1>2, <2>1, <2>2
    <2> QED
      BY <2>3 DEF a, d
  <1> QED
    BY <1>3, <1>4 DEF RoundedRatio, FlatnessThreshold, WithinThreshold, q, a, d
=============================================================================
