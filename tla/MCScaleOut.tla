----------------------------- MODULE MCScaleOut -----------------------------
(* ScaleOut on a host of four processors, two for each worker: matrices    *)
(* with and without the baseline, with a value named twice, and one the    *)
(* host is too small for.  2751 and 2752 are beyond the flatness threshold *)
(* of 2500: the ratio of the first is rounded down to the threshold, that  *)
(* of the second up, and within it only when digits are cut off.           *)
EXTENDS ScaleOut

CONSTANTS q1

MCOrder == <<<<q1>>, <<q1>>, <<q1>>>>
MCWalls == [q \in Queries |-> {2500, 2751, 2752}]
MCRequests == {<<1, 2>>, <<2>>, <<1, 1>>, <<1, 3>>}
=============================================================================
