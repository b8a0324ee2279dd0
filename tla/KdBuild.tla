------------------------------- MODULE KdBuild -------------------------------
(***************************************************************************)
(* The offline builder of the kd index (buildKdMain and buildKdTree):      *)
(* vectors are put into buckets by partition key, each bucket becomes a    *)
(* tree by median splits along its widest dimension, and the points of the *)
(* leaves are stored in blocks of LANES, padded.                           *)
(*                                                                         *)
(* buildKdTree calls itself.  calls is the stack of its activation         *)
(* records, the innermost last: the vectors it was called for, its node    *)
(* once that is in the table, and its left child once that is built.       *)
(*                                                                         *)
(* Nodes and slots are numbered from 1 here, from 0 in the file; node 0    *)
(* stands for its -1.                                                      *)
(***************************************************************************)
EXTENDS BuildInput

CONSTANT KD_LEAF_SIZE

ASSUME LeafSize == KD_LEAF_SIZE \in Nat \ {0}

VARIABLES
  keys,     \* partition keys whose buckets have no tree yet
  calls,
  ret,      \* the node a call has just returned
  nodes, parts

NoNode == 0

kdVars == <<keys, calls, ret, nodes, parts>>

InitKd ==
  /\ keys = {} /\ calls = <<>> /\ ret = NoNode
  /\ nodes = <<>> /\ parts = <<>>

\* buildKdMain puts the vectors into buckets.
BucketVectors ==
  /\ step = "start"
  /\ keys' = {input.key[i] : i \in VectorIds}
  /\ step' = "kd"
  /\ UNCHANGED <<input, slots, calls, ret, nodes, parts>>

Bucket(k) == {i \in VectorIds : input.key[i] = k}

Call(indices) == [indices |-> indices, node |-> NoNode, left |-> NoNode]

\* The next bucket, in the order of the keys; those without vectors are passed
\* over.
CallRoot ==
  /\ step = "kd" /\ calls = <<>> /\ ret = NoNode /\ keys # {}
  /\ calls' = <<Call(InOrder(Bucket(Min(keys)), [i \in VectorIds |-> 0]))>>
  /\ UNCHANGED <<input, step, slots, keys, ret, nodes, parts>>

-----------------------------------------------------------------------------
(***************************************************************************)
(* buildKdTree                                                             *)
(***************************************************************************)
Top == calls[Len(calls)]
Callers == SubSeq(calls, 1, Len(calls) - 1)
Entered == calls # <<>> /\ ret = NoNode /\ Top.node = NoNode
Me == Len(nodes) + 1

NewNode(indices, start) ==
  [left |-> NoNode, right |-> NoNode, start |-> start, len |-> Len(indices),
   box |-> Bounds(Range(indices))]

\* A leaf starts at a block boundary and is padded to the next.
Padding(n) == [i \in 1 .. (LANES - (n % LANES)) % LANES |-> PAD]

\* (Variant: the lanes after the last point of a leaf are not filled.)
NoPadding(indices) == slots \o indices

Stored(indices) == (slots \o indices) \o Padding(Len(slots) + Len(indices))

MakeLeaf ==
  /\ Entered /\ Len(Top.indices) <= KD_LEAF_SIZE
  /\ nodes' = Append(nodes, NewNode(Top.indices, Len(slots) \div LANES))
  /\ slots' = Stored(Top.indices)
  /\ ret' = Me /\ calls' = Callers
  /\ UNCHANGED <<input, step, keys, parts>>

\* widestDim: the first of the widest.
WidestDim(box) ==
  LET width(d) == box.hi[d] - box.lo[d] IN
  CHOOSE d \in Dims :
    /\ \A e \in Dims : width(e) <= width(d)
    /\ \A e \in 1 .. d - 1 : width(e) < width(d)

SortedBy(indices, dim) ==
  LET order == InOrder(DOMAIN indices, [i \in DOMAIN indices |-> vecs[indices[i]][dim]])
  IN [i \in DOMAIN indices |-> indices[order[i]]]

\* (Variants: one point is split off; the middle point goes to neither side.)
SplitFirst(sorted) == 1

Middle(sorted) == Len(sorted) \div 2

LeftHalf(sorted) == SubSeq(sorted, 1, Middle(sorted))

SkipMiddle(sorted) == SubSeq(sorted, Middle(sorted) + 2, Len(sorted))

RightHalf(sorted) == SubSeq(sorted, Middle(sorted) + 1, Len(sorted))

\* The node comes before its children in the table.
Split ==
  LET new == NewNode(Top.indices, 0)
      sorted == SortedBy(Top.indices, WidestDim(new.box))
  IN /\ Entered /\ Len(Top.indices) > KD_LEAF_SIZE
     /\ nodes' = Append(nodes, new)
     /\ calls' = Callers \o <<[indices |-> sorted, node |-> Me, left |-> NoNode],
                              Call(LeftHalf(sorted))>>
     /\ UNCHANGED <<input, step, slots, keys, ret, parts>>

Returned == calls # <<>> /\ ret # NoNode

LeftBuilt ==
  /\ Returned /\ Top.left = NoNode
  /\ calls' = Callers \o <<[Top EXCEPT !.left = ret], Call(RightHalf(Top.indices))>>
  /\ ret' = NoNode
  /\ UNCHANGED <<input, step, slots, keys, nodes, parts>>

RightBuilt ==
  /\ Returned /\ Top.left # NoNode
  /\ nodes' = [nodes EXCEPT ![Top.node] =
       [@ EXCEPT !.left = Top.left, !.right = ret, !.start = nodes[Top.left].start,
                 !.len = nodes[Top.left].len + nodes[ret].len]]
  /\ ret' = Top.node /\ calls' = Callers
  /\ UNCHANGED <<input, step, slots, keys, parts>>

-----------------------------------------------------------------------------
RootBuilt ==
  /\ calls = <<>> /\ ret # NoNode
  /\ parts' = Append(parts, [key |-> Min(keys), root |-> ret])
  /\ keys' = keys \ {Min(keys)} /\ ret' = NoNode
  /\ UNCHANGED <<input, step, slots, calls, nodes>>

FinishKd ==
  /\ step = "kd" /\ calls = <<>> /\ ret = NoNode /\ keys = {}
  /\ step' = "kd_built"
  /\ UNCHANGED <<input, slots, kdVars>>

NextKd ==
  \/ BucketVectors \/ CallRoot \/ MakeLeaf \/ Split \/ LeftBuilt \/ RightBuilt
  \/ RootBuilt \/ FinishKd

\* scanLeaf reads the lanes of a leaf that hold points.
LeafPoints(n) ==
  LET first == nodes[n].start * LANES IN
  SubSeq(slots, first + 1, first + nodes[n].len)
=============================================================================
