----------------------------- MODULE MCIvfSearch -----------------------------
(***************************************************************************)
(* Instances of IvfSearch for TLC: the seven clusters of SmallIndexes, one *)
(* of them empty and some with centroids equally far from a query.         *)
(***************************************************************************)
EXTENDS IvfSearch, KdGeometry, SmallIndexes

IndexK == Len(Centroids)
IndexPoints == DOMAIN Vectors
IndexQueries == {<<x, y>> : x \in 0 .. 10, y \in 0 .. 6}
LabelsOf(frauds) == [i \in IndexPoints |-> IF i \in frauds THEN 1 ELSE 0]
IndexLabelings ==
  {LabelsOf(f) : f \in {{}, {4, 11}, {6, 7, 12}, {1, 2, 3, 5, 11}, {8, 9, 10, 11, 12}}}

IndexDist ==
  [q \in IndexQueries |-> [p \in IndexPoints |-> SquaredDistance(q, Vectors[p])]]
IndexCentroidDist ==
  [q \in IndexQueries |-> [c \in 1 .. IndexK |-> SquaredDistance(q, Centroids[c])]]

\* The box of an empty cluster is never looked at.
IndexBound ==
  [q \in IndexQueries |-> [c \in 1 .. IndexK |->
     IF IndexCluster[c] = <<>> THEN 0 ELSE BoxLowerBound(q, IndexBox[c])]]
=============================================================================
