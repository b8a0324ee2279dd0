------------------------------ MODULE IvfBuild -------------------------------
(***************************************************************************)
(* The offline builder of the clustered index (main of build_index.zig):   *)
(* each vector goes to the cluster with the nearest center, and the points *)
(* of a cluster are stored in blocks of LANES of their own, the nearest    *)
(* first, the last block padded.  The centers come from k-means on floats  *)
(* and may be any: some may have no vectors.                               *)
(*                                                                         *)
(* Offsets count blocks from 0, as in the file; clusters are numbered from *)
(* 1.                                                                      *)
(***************************************************************************)
EXTENDS BuildInput, KdGeometry

CONSTANT CenterSets   \* results of k-means

ASSUME CentersAssumption ==
  \A centers \in CenterSets :
    centers \in Seq([Dims -> Int]) /\ centers # <<>>

VARIABLES
  centers,
  assignments,     \* the cluster of each vector
  counts, block_offsets, boxes

ivfVars == <<centers, assignments, counts, block_offsets, boxes>>

InitIvf ==
  /\ centers = <<>> /\ assignments = <<>> /\ counts = <<>>
  /\ block_offsets = <<>> /\ boxes = <<>>

Clusters == 1 .. Len(centers)

KMeans ==
  /\ step = "start" /\ centers' \in CenterSets /\ step' = "assign"
  /\ UNCHANGED <<input, slots, assignments, counts, block_offsets, boxes>>

\* nearest: the first of the nearest.
NearestCenter(v) ==
  LET d(c) == SquaredDistance(v, centers[c]) IN
  CHOOSE c \in Clusters :
    /\ \A o \in Clusters : d(c) <= d(o)
    /\ \A o \in 1 .. c - 1 : d(c) < d(o)

Assign ==
  /\ step = "assign"
  /\ assignments' = [i \in VectorIds |-> NearestCenter(vecs[i])]
  /\ counts' =
       [c \in Clusters |-> Cardinality({i \in VectorIds : assignments'[i] = c})]
  /\ block_offsets' = <<0>> /\ step' = "offsets"
  /\ UNCHANGED <<input, slots, centers, boxes>>

\* (Variant: a last block that is not full is not counted.)
FullBlocks(n) == n \div LANES

BlocksFor(n) == (n + LANES - 1) \div LANES

\* The loop over blocks_per_cluster, one turn.
Offset ==
  LET c == Len(block_offsets) IN
  /\ step = "offsets" /\ c <= Len(centers)
  /\ block_offsets' = Append(block_offsets, block_offsets[c] + BlocksFor(counts[c]))
  /\ UNCHANGED <<input, step, slots, centers, assignments, counts, boxes>>

Allocate ==
  /\ step = "offsets" /\ Len(block_offsets) > Len(centers)
  /\ slots' = [a \in 1 .. block_offsets[Len(block_offsets)] * LANES |-> PAD]
  /\ step' = "codes"
  /\ UNCHANGED <<input, centers, assignments, counts, block_offsets, boxes>>

\* cluster_idx, sorted by sortByDist.
ClusterIdx(c) ==
  InOrder({i \in VectorIds : assignments[i] = c},
          [i \in VectorIds |-> SquaredDistance(vecs[i], centers[c])])

\* (Variant: the box of the first vector only.)
FirstBox(idx) == Bounds({idx[i] : i \in {1} \cap DOMAIN idx})

ClusterBox(idx) == Bounds({idx[i] : i \in DOMAIN idx})

\* The loop over cluster_idx, one turn: a cluster's points go where its blocks
\* begin.
StoreCluster ==
  LET c == Len(boxes) + 1
      first == block_offsets[c] * LANES
      idx == ClusterIdx(c)
  IN /\ step = "codes" /\ c <= Len(centers)
     /\ slots' = [a \in DOMAIN slots |->
                    IF a - first \in DOMAIN idx THEN idx[a - first] ELSE slots[a]]
     /\ boxes' = Append(boxes, ClusterBox(idx))
     /\ UNCHANGED <<input, step, centers, assignments, counts, block_offsets>>

FinishIvf ==
  /\ step = "codes" /\ Len(boxes) = Len(centers)
  /\ step' = "ivf_built"
  /\ UNCHANGED <<input, slots, ivfVars>>

NextIvf ==
  KMeans \/ Assign \/ Offset \/ Allocate \/ StoreCluster \/ FinishIvf

\* scan_cluster reads the first lanes of a cluster's blocks, and no block
\* beyond the next cluster's offset.
ClusterPoints(c) ==
  LET first == block_offsets[c] * LANES
      last == block_offsets[c + 1] * LANES
      n == counts[c]
  IN SubSeq(slots, first + 1, IF first + n < last THEN first + n ELSE last)
=============================================================================
