------------------------------- MODULE Curve --------------------------------
(***************************************************************************)
(* The arithmetic of the scale-out curve: the percentiles of a query's     *)
(* samples, its ratio to the one-stream baseline, and what the tables say  *)
(* of that ratio.  Wall times are natural numbers, percentiles are in      *)
(* hundredths of their unit, so that interpolation is exact.               *)
(***************************************************************************)
EXTENDS Integers, FiniteSets

(* A value that is not there, NaN or None: wall times are positive.        *)
NoValue == 0

(* The k-th smallest of the values of f.                                   *)
OrderStat(f, k) ==
  CHOOSE v \in {f[i] : i \in DOMAIN f} :
    /\ Cardinality({i \in DOMAIN f : f[i] < v}) < k
    /\ k <= Cardinality({i \in DOMAIN f : f[i] <= v})

(* Mutant: the rank is taken from the number of samples.                   *)
PercentileOfCount(f, pct) ==
  LET m    == Cardinality(DOMAIN f)
      lo   == IF m * pct < 100 * m THEN (m * pct) \div 100 ELSE m - 1
      hi   == IF lo + 1 < m THEN lo + 1 ELSE m - 1
      frac == (m * pct) % 100
  IN  IF m = 0 THEN NoValue
      ELSE OrderStat(f, lo + 1) * (100 - frac) + OrderStat(f, hi + 1) * frac

Percentile(f, pct) ==
  LET m    == Cardinality(DOMAIN f)
      lo   == ((m - 1) * pct) \div 100
      hi   == IF lo + 1 < m THEN lo + 1 ELSE m - 1
      frac == ((m - 1) * pct) % 100
  IN  IF m = 0 THEN NoValue
      ELSE OrderStat(f, lo + 1) * (100 - frac) + OrderStat(f, hi + 1) * frac

(* Mutant: the digits behind the third are cut off.                        *)
RatioCutOff(p50, base) == (1000 * p50) \div base

(* FLATNESS_THRESHOLD = 1.10, before and after round(ratio, 3).            *)
WithinThreshold(p50, base) == 10 * p50 <= 11 * base
RoundedRatio(p50, base) == (2000 * p50 + base) \div (2 * base)
FlatnessThreshold == 1100

(* The row of a query at n streams: its samples there and at one stream.   *)
Row(n, samples, baseline) ==
  LET p50   == Percentile(samples, 50)
      base  == Percentile(baseline, 50)
      rated == DOMAIN samples # {} /\ base > 0
  IN  [n |-> n,
       samples |-> Cardinality(DOMAIN samples),
       p50     |-> p50,
       p95     |-> Percentile(samples, 95),
       base    |-> base,
       ratio   |-> IF rated THEN RoundedRatio(p50, base) ELSE NoValue,
       flat    |-> IF ~rated THEN "n/a"
                   ELSE IF WithinThreshold(p50, base) THEN "yes" ELSE "no"]

(* The rows curve.md lists under its worst ratios; without any it says     *)
(* that every query with samples at N > 1 stayed within the threshold.     *)
Offenders(rows) == {r \in rows : r.n > 1 /\ r.ratio > FlatnessThreshold}
=============================================================================
