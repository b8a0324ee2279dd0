------------------------------- MODULE Builder -------------------------------
(***************************************************************************)
(* A run of the index builder (tools/build_index.zig) over a set of        *)
(* vectors, in one of its two modes, and what the searches rely on in what *)
(* it writes.                                                              *)
(***************************************************************************)
EXTENDS KdBuild, IvfBuild

vars == <<input, step, slots, kdVars, ivfVars>>

Init ==
  /\ input \in Inputs /\ step = "start" /\ slots = <<>>
  /\ InitKd /\ InitIvf

BuildKdMain == NextKd /\ UNCHANGED ivfVars

BuildIvfMain == NextIvf /\ UNCHANGED kdVars

Next == BuildKdMain \/ BuildIvfMain

Spec == Init /\ [][Next]_vars

-----------------------------------------------------------------------------
(***************************************************************************)
(* The kd index.                                                           *)
(***************************************************************************)
Built == step = "kd_built"
NodeIds == 1 .. Len(nodes)
LeafIds == {n \in NodeIds : nodes[n].left = NoNode}

\* The points below a node.
Under[n \in NodeIds] ==
  IF n \in LeafIds THEN {LeafPoints(n)[k] : k \in 1 .. nodes[n].len}
  ELSE Under[nodes[n].left] \cup Under[nodes[n].right]

\* Every vector is found in exactly one leaf, of the tree of its own key, and
\* no padding is: what the search reads is the reference set.
EveryVectorStoredOnce ==
  Built =>
    /\ \A i \in VectorIds :
         Cardinality({at \in LeafIds \X (1 .. KD_LEAF_SIZE) :
                        at[2] <= nodes[at[1]].len /\ LeafPoints(at[1])[at[2]] = i}) = 1
    /\ \A p \in 1 .. Len(parts) : Under[parts[p].root] = Bucket(parts[p].key)

\* A node's box encloses the points below it and touches them on every side,
\* its length counts them, and its points are its children's.
BoxesEnclose ==
  Built =>
    \A n \in NodeIds :
      /\ Cardinality(Under[n]) = nodes[n].len
      /\ \A d \in Dims :
           LET at == {vecs[i][d] : i \in Under[n]} IN
           nodes[n].box.lo[d] = Min(at) /\ nodes[n].box.hi[d] = Max(at)

Height[n \in NodeIds] ==
  IF n \in LeafIds THEN 0
  ELSE 1 + Max({Height[nodes[n].left], Height[nodes[n].right]})

\* Median splits make a tree of n points as shallow as its leaves allow, so
\* that no index of 32-bit size fills the search stack of 128 entries.
TreesBalanced ==
  Built => \A n \in NodeIds :
    nodes[n].len > KD_LEAF_SIZE =>
      KD_LEAF_SIZE * 2 ^ (Height[n] - 1) < nodes[n].len

-----------------------------------------------------------------------------
(***************************************************************************)
(* The clustered index.                                                    *)
(***************************************************************************)
Clustered == step = "ivf_built"

\* Every vector is read in exactly one cluster, once, and no padding is,
\* although clusters share neither blocks nor a size.
EveryVectorInOneCluster ==
  Clustered =>
    /\ \A c \in Clusters : Range(ClusterPoints(c)) \subseteq VectorIds
    /\ \A i \in VectorIds :
         Cardinality({at \in Clusters \X VectorIds :
                        at[2] <= Len(ClusterPoints(at[1])) /\ ClusterPoints(at[1])[at[2]] = i}) = 1

\* The bound computed from a cluster's box is one for each of its points, from
\* wherever a query comes.
ClusterBoundsSound ==
  Clustered =>
    \A c \in Clusters : \A p \in Range(ClusterPoints(c)) \ {PAD} :
      \A q \in Range(vecs) :
        BoxLowerBound(q, boxes[c]) <= SquaredDistance(q, vecs[p])
=============================================================================
