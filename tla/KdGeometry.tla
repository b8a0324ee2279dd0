----------------------------- MODULE KdGeometry ------------------------------
(***************************************************************************)
(* Distances between quantised vectors (blkDist, bboxLowerBound).          *)
(***************************************************************************)
EXTENDS Integers, Sequences, FiniteSetsExt

SumOfSquares(gap) ==
  LET sum[d \in 0 .. Len(gap)] ==
        IF d = 0 THEN 0 ELSE sum[d - 1] + gap[d] * gap[d]
  IN sum[Len(gap)]

\* Squared distance of two vectors.
SquaredDistance(q, v) == SumOfSquares([d \in DOMAIN q |-> q[d] - v[d]])

\* How far a coordinate lies outside an interval.
Gap(x, lo, hi) == Max({lo - x, x - hi, 0})

\* Lower bound for the points of a box.
BoxLowerBound(q, box) ==
  SumOfSquares([d \in DOMAIN q |-> Gap(q[d], box.lo[d], box.hi[d])])
=============================================================================
