----------------------------- MODULE MCKdSearch ------------------------------
(***************************************************************************)
(* Instances of KdSearch for TLC: the kd index of SmallIndexes, and        *)
(* queries from all over the grid and beside it.                           *)
(***************************************************************************)
EXTENDS KdSearch, KdGeometry, SmallIndexes

Frauds7 == {2, 4, 6, 7, 9, 11, 12}

\* A partition key none of the vectors has.
KeyOfQuery(q) == IF q[2] > 5 THEN 7 ELSE PartitionOf(q)

IndexQueries == {<<x, y>> : x \in {0, 2, 3, 4, 6, 7, 10}, y \in {0, 1, 2, 4, 6}}
IndexPoints == DOMAIN Vectors
IndexLabel == [i \in IndexPoints |-> IF i \in Frauds7 THEN 1 ELSE 0]
IndexNodes == DOMAIN File.nodes
IndexLeft == [n \in IndexNodes |-> File.nodes[n].left]
IndexRight == [n \in IndexNodes |-> File.nodes[n].right]

\* The lanes of a leaf that hold points, two to a block.
IndexLeaf ==
  [n \in IndexNodes |->
     IF IndexLeft[n] # NoNode THEN <<>>
     ELSE LET first == File.nodes[n].start * 2 IN
          SubSeq(File.slots, first + 1, first + File.nodes[n].len)]

UnderOf[n \in IndexNodes] ==
  IF IndexLeft[n] = NoNode THEN {IndexLeaf[n][i] : i \in DOMAIN IndexLeaf[n]}
  ELSE UnderOf[IndexLeft[n]] \cup UnderOf[IndexRight[n]]
HeightOf[n \in IndexNodes] ==
  IF IndexLeft[n] = NoNode THEN 0
  ELSE 1 + Max({HeightOf[IndexLeft[n]], HeightOf[IndexRight[n]]})

IndexUnder == [n \in IndexNodes |-> UnderOf[n]]
IndexHeight == [n \in IndexNodes |-> HeightOf[n]]

IndexParts == DOMAIN File.parts
IndexRoot == [p \in IndexParts |-> File.parts[p].root]
IndexPrimary ==
  [q \in IndexQueries |->
     IF \E p \in IndexParts : File.parts[p].key = KeyOfQuery(q)
       THEN CHOOSE p \in IndexParts : File.parts[p].key = KeyOfQuery(q) ELSE -1]
IndexDist ==
  [q \in IndexQueries |-> [p \in IndexPoints |-> SquaredDistance(q, Vectors[p])]]
IndexBound ==
  [q \in IndexQueries |->
     [n \in IndexNodes |-> BoxLowerBound(q, File.nodes[n].box)]]
=============================================================================
