------------------------------ MODULE MCBuilder ------------------------------
(***************************************************************************)
(* Instances of Builder for TLC: all small sets of vectors on a grid, with *)
(* a partition boundary across its first dimension, and centers that leave *)
(* some clusters empty, two of them equal; and the vectors and centers of  *)
(* the searches' instances.                                                *)
(***************************************************************************)
EXTENDS Builder, SmallIndexes

CONSTANTS MaxVectors, Width

Grid == {<<x, y>> : x \in 0 .. Width, y \in 0 .. 1}
KeyOf(v) == IF v[1] > 1 THEN 64 ELSE 3

OnGrid ==
  UNION {{[vecs |-> some, key |-> [i \in 1 .. n |-> KeyOf(some[i])]] :
            some \in [1 .. n -> Grid]} : n \in 1 .. MaxVectors}

SmallInput ==
  [vecs |-> Vectors, key |-> [i \in 1 .. Len(Vectors) |-> PartitionOf(Vectors[i])]]

AllInputs == OnGrid \cup {SmallInput}

AllCenters == {
  << <<0, 0>>, <<1, 1>>, <<2, 0>> >>,
  << <<1, 0>>, <<1, 0>>, <<9, 9>> >>,
  Centroids}

\* What the searches are checked on is what the builder makes of the same
\* vectors: ties between equal coordinates and equal distances go as its stable
\* sort leaves them, whatever order the clusters and the partitions come in.
IndexesAsBuilt ==
  input = SmallInput =>
    /\ Built => File = [slots |-> slots, nodes |-> nodes, parts |-> parts]
    /\ Clustered /\ centers = Centroids =>
         /\ IndexCluster = [c \in Clusters |-> ClusterPoints(c)]
         /\ IndexBox = boxes
=============================================================================
