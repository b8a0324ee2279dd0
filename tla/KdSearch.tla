------------------------------ MODULE KdSearch -------------------------------
(***************************************************************************)
(* The nearest-neighbour search of src/kdtree.zig: score() looks through   *)
(* the kd-tree of the query's own partition, then through those of the     *)
(* other partitions in the order of their distance, and skips every        *)
(* subtree that cannot hold one of the TOP_K nearest points.               *)
(*                                                                         *)
(* The index is read-only, so it is given by constants: nodes, the points  *)
(* of each leaf in storage order, and for every query the distance of each *)
(* point and the lower bound bboxLowerBound computes for each node.        *)
(***************************************************************************)
EXTENDS Integers, Sequences, FiniteSets

CONSTANTS
  Queries,
  Points, NoPoint,
  Label,          \* 1 for a fraud, 0 otherwise
  Nodes, NoNode,
  Left, Right,    \* children; NoNode for a leaf
  Leaf,           \* points of each leaf, in storage order
  Under,          \* points below each node
  Height,         \* levels below each node
  Parts,          \* partitions that are not empty
  Root,           \* root node of each partition
  Primary,        \* part_by_key of each query; -1 when it is empty
  Dist, Bound,    \* distances and lower bounds, by query
  MaxDist,        \* maxInt(i64)
  TOP_K, STACK_DEPTH

IsLeaf(n) == Left[n] = NoNode

ASSUME KdConstants ==
  /\ TOP_K \in Nat \ {0} /\ STACK_DEPTH \in Nat
  /\ NoPoint \notin Points /\ NoNode \notin Nodes /\ IsFiniteSet(Points)
  /\ Parts \subseteq Nat
  /\ Label \in [Points -> {0, 1}]
  /\ Left \in [Nodes -> Nodes \cup {NoNode}]
  /\ Right \in [Nodes -> Nodes \cup {NoNode}]
  /\ Leaf \in [Nodes -> Seq(Points)]
  /\ Under \in [Nodes -> SUBSET Points]
  /\ Height \in [Nodes -> Nat]
  /\ Root \in [Parts -> Nodes]
  /\ Primary \in [Queries -> Parts \cup {-1}]
  /\ MaxDist \in Nat
  /\ Dist \in [Queries -> [Points -> 0 .. MaxDist - 1]]
  /\ Bound \in [Queries -> [Nodes -> Nat]]

\* What the builder guarantees: a node's points are its children's, those of
\* one side and those of the other, a leaf's are stored with it, each once, a
\* node's box contains its points, every point belongs to one partition, and
\* the trees are shallow enough for the stack.
ASSUME KdIndex ==
  /\ \A n \in Nodes :
       IF IsLeaf(n)
         THEN /\ Under[n] = {Leaf[n][i] : i \in 1 .. Len(Leaf[n])}
              /\ \A i, j \in 1 .. Len(Leaf[n]) : Leaf[n][i] = Leaf[n][j] => i = j
         ELSE /\ Right[n] \in Nodes
              /\ Under[n] = Under[Left[n]] \cup Under[Right[n]]
              /\ Under[Left[n]] \cap Under[Right[n]] = {}
              /\ Height[n] > Height[Left[n]] /\ Height[n] > Height[Right[n]]
  /\ \A q \in Queries, n \in Nodes : \A p \in Under[n] : Bound[q][n] <= Dist[q][p]
  /\ \A p \in Points : \E part \in Parts : p \in Under[Root[part]]
  /\ \A part, other \in Parts :
       part # other => Under[Root[part]] \cap Under[Root[other]] = {}
  /\ \A part \in Parts : Height[Root[part]] <= STACK_DEPTH

VARIABLES
  query,
  best,       \* best_d and best_l: the nearest points so far, nearest first
  pc,
  caller,     \* where score() continues after searchNode
  current, bound,
  stack,      \* stack_node and stack_bound
  lane,       \* next point of the leaf under scan
  probes      \* partitions still to be searched

searchVars == <<current, bound, stack, lane>>
vars == <<query, best, pc, caller, searchVars, probes>>

D(p) == IF p = NoPoint THEN MaxDist ELSE Dist[query][p]
Worst == D(best[TOP_K])

Init ==
  /\ query \in Queries
  /\ best = [i \in 1 .. TOP_K |-> NoPoint]
  /\ pc = "primary" /\ caller = "collect"
  /\ current = NoNode /\ bound = 0 /\ stack = <<>> /\ lane = 1
  /\ probes = {}

-----------------------------------------------------------------------------
(***************************************************************************)
(* searchNode                                                              *)
(***************************************************************************)
Search(n, b) ==
  /\ current' = n /\ bound' = b /\ stack' = <<>>
  /\ pc' = "visit"
  /\ UNCHANGED lane

Skip == bound >= Worst

Prune ==
  /\ pc = "visit" /\ Skip
  /\ pc' = "pop"
  /\ UNCHANGED <<query, best, caller, searchVars, probes>>

FirstLane == 1

VisitLeaf ==
  /\ pc = "visit" /\ ~Skip /\ IsLeaf(current)
  /\ pc' = "scan" /\ lane' = FirstLane
  /\ UNCHANGED <<query, best, caller, current, bound, stack, probes>>

\* insertBest: after those that are as near, and the last one falls out.
InsertBest(p) ==
  LET asNear == {i \in 1 .. TOP_K : D(best[i]) <= D(p)}
      pos == Cardinality(asNear) + 1
  IN best' = [i \in 1 .. TOP_K |-> IF i < pos THEN best[i]
                                   ELSE IF i = pos THEN p ELSE best[i - 1]]

\* scanLeaf, one point.
ScanPoint ==
  LET p == Leaf[current][lane] IN
  /\ pc = "scan" /\ lane <= Len(Leaf[current])
  /\ IF D(p) < Worst THEN InsertBest(p) ELSE UNCHANGED best
  /\ lane' = lane + 1
  /\ UNCHANGED <<query, pc, caller, current, bound, stack, probes>>

\* (Variant: off by one, the last lane is not looked at.)
LeafOverEarly == lane >= Len(Leaf[current])

LeafOver == lane > Len(Leaf[current])

ScanDone ==
  /\ pc = "scan" /\ LeafOver
  /\ pc' = "pop"
  /\ UNCHANGED <<query, best, caller, searchVars, probes>>

\* Go down on the side that may be nearer and remember the other, unless it
\* is too far already.  A full stack forgets it.
Near == IF Bound[query][Right[current]] < Bound[query][Left[current]]
          THEN Right[current] ELSE Left[current]
Far == IF Near = Left[current] THEN Right[current] ELSE Left[current]

\* (Variants: the far side is not kept; both sides are.)
ForgetFar == UNCHANGED stack
KeepBoth ==
  stack' = IF Bound[query][Far] < Worst /\ Len(stack) < STACK_DEPTH
             THEN stack \o [i \in 1 .. 2 |->
                    LET n == IF i = 1 THEN Far ELSE Near
                    IN [node |-> n, bound |-> Bound[query][n]]]
             ELSE stack

KeepFar ==
  stack' = IF Bound[query][Far] < Worst /\ Len(stack) < STACK_DEPTH
             THEN Append(stack, [node |-> Far, bound |-> Bound[query][Far]])
             ELSE stack

Descend ==
  /\ pc = "visit" /\ ~Skip /\ ~IsLeaf(current)
  /\ KeepFar
  /\ current' = Near /\ bound' = Bound[query][Near]
  /\ UNCHANGED <<query, best, pc, caller, lane, probes>>

Pop ==
  /\ pc = "pop" /\ stack # <<>>
  /\ LET top == stack[Len(stack)] IN current' = top.node /\ bound' = top.bound
  /\ stack' = SubSeq(stack, 1, Len(stack) - 1)
  /\ pc' = "visit"
  /\ UNCHANGED <<query, best, caller, lane, probes>>

Return ==
  /\ pc = "pop" /\ stack = <<>>
  /\ pc' = caller
  /\ UNCHANGED <<query, best, caller, searchVars, probes>>

-----------------------------------------------------------------------------
(***************************************************************************)
(* score                                                                   *)
(***************************************************************************)
SearchPrimary ==
  /\ pc = "primary"
  /\ IF Primary[query] \in Parts
       THEN Search(Root[Primary[query]], 0)
       ELSE pc' = "collect" /\ UNCHANGED searchVars
  /\ UNCHANGED <<query, best, caller, probes>>

PartBound(part) == Bound[query][Root[part]]

\* (Variant: the primary partition is probed again.)
AllParts == Parts
OtherParts == Parts \ {Primary[query]}

Collect ==
  /\ pc = "collect"
  /\ probes' = {part \in OtherParts : PartBound(part) < Worst}
  /\ caller' = "probe" /\ pc' = "probe"
  /\ UNCHANGED <<query, best, searchVars>>

\* sortProbes: by bound, and by position among equals.
Nearest(part) ==
  \A other \in probes :
    \/ PartBound(part) < PartBound(other)
    \/ PartBound(part) = PartBound(other) /\ part <= other

\* Nothing left that could be nearer: the break at the first such partition,
\* after which come only farther ones.
LastProbe == \A part \in probes : PartBound(part) >= Worst

Probe ==
  /\ pc = "probe" /\ ~LastProbe
  /\ \E part \in probes :
       /\ Nearest(part)
       /\ probes' = probes \ {part}
       /\ Search(Root[part], PartBound(part))
  /\ UNCHANGED <<query, best, caller>>

Finish ==
  /\ pc = "probe" /\ LastProbe
  /\ pc' = "done"
  /\ UNCHANGED <<query, best, caller, searchVars, probes>>

\* The sum of best_l.
Frauds == Cardinality({i \in 1 .. TOP_K : best[i] # NoPoint /\ Label[best[i]] = 1})

-----------------------------------------------------------------------------
Next ==
  \/ SearchPrimary \/ Collect \/ Probe \/ Finish
  \/ Prune \/ VisitLeaf \/ ScanPoint \/ ScanDone \/ Descend \/ Pop \/ Return

Spec == Init /\ [][Next]_vars

FairSpec == Spec /\ WF_vars(Next)

-----------------------------------------------------------------------------
TypeOK ==
  /\ query \in Queries
  /\ best \in [1 .. TOP_K -> Points \cup {NoPoint}]
  /\ pc \in {"primary", "visit", "scan", "pop", "collect", "probe", "done"}
  /\ caller \in {"collect", "probe"}
  /\ current \in Nodes \cup {NoNode}
  /\ pc \in {"visit", "scan"} => current \in Nodes
  /\ bound \in Nat
  /\ stack \in Seq([node : Nodes, bound : Nat])
  /\ lane \in Nat \ {0}
  /\ probes \subseteq Parts

Kept == {best[i] : i \in 1 .. TOP_K} \ {NoPoint}

\* Whatever was skipped, the answer is the TOP_K nearest of all points, the
\* nearest first, and an empty place is left only when there are fewer points.
NearestFound ==
  pc = "done" =>
    /\ \A p \in Points \ Kept : D(p) >= Worst
    /\ \A i, j \in 1 .. TOP_K : i < j => D(best[i]) <= D(best[j])

\* No point is counted twice, although partitions are searched in two passes.
CountedOnce ==
  \A i, j \in 1 .. TOP_K : best[i] = best[j] /\ best[i] # NoPoint => i = j

\* The search stack never overflows, which would drop a subtree silently.
StackSuffices ==
  pc = "visit" /\ ~IsLeaf(current) => Len(stack) < STACK_DEPTH

Abstract == INSTANCE Knn WITH
  verdict <- IF pc = "done" THEN Frauds ELSE -1

\* The search ends, with a verdict an exhaustive search could have given.
ImplementsKnn == Abstract!Spec
=============================================================================
