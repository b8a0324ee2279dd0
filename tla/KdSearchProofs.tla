--------------------------- MODULE KdSearchProofs ----------------------------
(***************************************************************************)
(* Proofs about KdSearch: on every index that has what KdIndex asks of the *)
(* builder, the search finds the TOP_K nearest points whatever it skips,   *)
(* its stack never overflows, it counts no point twice, and its answer is  *)
(* one an exhaustive search could give: KdSearch implements Knn.           *)
(***************************************************************************)
EXTENDS KdSearch, FiniteSetTheorems, SequenceTheorems, TLAPS

\* Partitions that are still to be searched.
Ahead == IF pc = "primary" THEN Parts
         ELSE IF pc = "done" THEN {}
         ELSE IF caller = "collect" THEN OtherParts ELSE probes

\* Points of the subtree or the rest of the leaf in hand.
UnderWay(p) ==
  \/ pc = "visit" /\ p \in Under[current]
  \/ pc = "scan" /\ \E i \in lane .. Len(Leaf[current]) : Leaf[current][i] = p

\* Points the search may still come to.
Pending(p) ==
  \/ UnderWay(p)
  \/ \E i \in 1 .. Len(stack) : p \in Under[stack[i].node]
  \/ \E part \in Ahead : p \in Under[Root[part]]

\* A point that is not among the nearest so far is too far or still to come.
NothingLost == \A p \in Points : p \in Kept \/ D(p) >= Worst \/ Pending(p)

BestSorted == \A i, j \in 1 .. TOP_K : i < j => D(best[i]) <= D(best[j])

\* The bound carried with a subtree is one for its points.
BoundsHold ==
  /\ pc = "visit" => \A p \in Under[current] : bound <= D(p)
  /\ \A i \in 1 .. Len(stack) :
       \A p \in Under[stack[i].node] : stack[i].bound <= D(p)

\* Every remembered subtree fits on the stack above those below it.
StackRoom ==
  /\ pc = "visit" => Height[current] + Len(stack) <= STACK_DEPTH
  /\ \A i \in 1 .. Len(stack) : Height[stack[i].node] + i <= STACK_DEPTH + 1

Control ==
  /\ pc \in {"primary", "collect"} => caller = "collect"
  /\ pc \in {"probe", "done"} => caller = "probe"
  /\ pc \in {"primary", "collect", "probe", "done"} => stack = <<>>
  /\ pc = "scan" => IsLeaf(current)

IInv ==
  /\ TypeOK
  /\ BestSorted
  /\ BoundsHold
  /\ StackRoom
  /\ Control
  /\ NothingLost

-----------------------------------------------------------------------------
(***************************************************************************)
(* The list of the nearest.                                                *)
(***************************************************************************)
\* A part of 1..n that has what is below each of its members is 1..k.
LEMMA InitialSegment ==
  ASSUME NEW n \in Nat, NEW S \in SUBSET (1 .. n),
         \A i \in S : \A j \in 1 .. i : j \in S
  PROVE  Cardinality(S) \in 0 .. n /\ S = 1 .. Cardinality(S)
<1> DEFINE k == Cardinality(S)
<1>1. IsFiniteSet(1 .. n) /\ Cardinality(1 .. n) = n BY FS_Interval
<1>2. IsFiniteSet(S) /\ k <= n BY <1>1, FS_Subset
<1>3. k \in Nat BY <1>2, FS_CardinalityType
<1>4. IsFiniteSet(1 .. k) /\ Cardinality(1 .. k) = k BY <1>3, FS_Interval
<1>5. S \subseteq 1 .. k
  <2> SUFFICES ASSUME NEW i \in S PROVE i \in 1 .. k OBVIOUS
  <2>1. i \in 1 .. n /\ (1 .. i) \in SUBSET S OBVIOUS
  <2>2. Cardinality(1 .. i) <= k BY <1>2, <2>1, FS_Subset
  <2>3. Cardinality(1 .. i) = i BY <2>1, FS_Interval
  <2> QED BY <1>3, <2>1, <2>2, <2>3
<1>6. S = 1 .. k BY <1>4, <1>5, FS_Subset
<1> QED BY <1>2, <1>3, <1>6

LEMMA DistType ==
  ASSUME TypeOK, NEW p \in Points \cup {NoPoint}
  PROVE  D(p) \in 0 .. MaxDist
<1>1. CASE p = NoPoint BY <1>1, KdConstants DEF D
<1>2. CASE p \in Points
  <2>1. Dist[query] \in [Points -> 0 .. MaxDist - 1]
    BY KdConstants DEF TypeOK
  <2>2. Dist[query][p] \in 0 .. MaxDist - 1 BY <1>2, <2>1
  <2> QED BY <1>2, <2>2, KdConstants DEF D
<1> QED BY <1>1, <1>2

\* insertBest keeps the list sorted, and loses no point but one as far as the
\* last it keeps.
LEMMA InsertKeeps ==
  ASSUME TypeOK, BestSorted, NEW p \in Points, D(p) < Worst,
         InsertBest(p), UNCHANGED query
  PROVE  /\ best' \in [1 .. TOP_K -> Points \cup {NoPoint}]
         /\ BestSorted'
         /\ Worst' <= Worst
         /\ p \in Kept'
         /\ \A r \in Kept : r \in Kept' \/ D(r) >= Worst'
<1> DEFINE asNear == {i \in 1 .. TOP_K : D(best[i]) <= D(p)}
           pos == Cardinality(asNear) + 1
<1>1. TOP_K \in Nat \ {0} BY KdConstants
<1>2. \A i \in 1 .. TOP_K : best[i] \in Points \cup {NoPoint} BY DEF TypeOK
<1>3. D(p) \in Int /\ \A i \in 1 .. TOP_K : D(best[i]) \in Int
  BY <1>2, DistType
<1>4. \A i \in asNear : \A j \in 1 .. i : j \in asNear
  BY <1>1, <1>3 DEF BestSorted
<1>5. Cardinality(asNear) \in 0 .. TOP_K /\ asNear = 1 .. Cardinality(asNear)
  <2> HIDE DEF asNear
  <2>1. asNear \in SUBSET (1 .. TOP_K) BY DEF asNear
  <2> QED BY <1>1, <1>4, <2>1, InitialSegment
<1>6. TOP_K \notin asNear BY <1>1, <1>3 DEF Worst
<1>7. pos \in 1 .. TOP_K
      /\ \A i \in 1 .. TOP_K : IF i < pos THEN D(best[i]) <= D(p)
                                           ELSE D(best[i]) > D(p)
  <2>1. pos \in 1 .. TOP_K
    <3> HIDE DEF asNear
    <3> QED BY <1>1, <1>5, <1>6
  <2>2. \A i \in 1 .. TOP_K : i \in asNear <=> i < pos
    <3> HIDE DEF asNear
    <3> QED BY <1>1, <1>5, <2>1
  <2> HIDE DEF pos
  <2> QED BY <1>3, <2>1, <2>2
<1>8. best' = [i \in 1 .. TOP_K |-> IF i < pos THEN best[i]
                                    ELSE IF i = pos THEN p ELSE best[i - 1]]
  BY DEF InsertBest
<1> HIDE DEF pos
<1>9. best' \in [1 .. TOP_K -> Points \cup {NoPoint}]
  <2>1. \A i \in 1 .. TOP_K : ~(i < pos) /\ i # pos => i - 1 \in 1 .. TOP_K
    BY <1>1, <1>7
  <2> QED BY <1>2, <1>8, <2>1
<1>10. \A r : D(r)' = D(r) BY DEF D
<1>11. \A i \in 1 .. TOP_K :
         D(best[i])' = IF i < pos THEN D(best[i])
                       ELSE IF i = pos THEN D(p) ELSE D(best[i - 1])
  BY <1>8, <1>10 DEF D
<1>12. BestSorted'
  <2> SUFFICES ASSUME NEW i \in 1 .. TOP_K, NEW j \in 1 .. TOP_K, i < j
               PROVE  D(best[i])' <= D(best[j])'
    BY DEF BestSorted
  <2> DEFINE d == [m \in 1 .. TOP_K |-> D(best[m])]
             e == [m \in 1 .. TOP_K |-> D(best[m])']
  <2>1. \A m \in 1 .. TOP_K : d[m] \in Int BY <1>3
  <2>2. \A m \in 1 .. TOP_K :
          e[m] = IF m < pos THEN d[m] ELSE IF m = pos THEN D(p) ELSE d[m - 1]
    BY <1>1, <1>7, <1>11
  <2>3. \A m \in 1 .. TOP_K : IF m < pos THEN d[m] <= D(p) ELSE d[m] > D(p)
    BY <1>7
  <2>4. \A m, o \in 1 .. TOP_K : m < o => d[m] <= d[o] BY DEF BestSorted
  <2> SUFFICES e[i] <= e[j] OBVIOUS
  <2> HIDE DEF d, e
  <2> QED BY <1>1, <1>3, <1>7, <2>1, <2>2, <2>3, <2>4
<1>13. Worst' <= Worst
  <2>1. Worst = D(best[TOP_K]) /\ Worst' = D(best[TOP_K])'
    BY <1>8, <1>10 DEF Worst, D
  <2>2. TOP_K \in 1 .. TOP_K BY <1>1
  <2>3. pos < TOP_K => D(best[TOP_K - 1]) <= D(best[TOP_K])
    <3>1. pos < TOP_K => TOP_K - 1 \in 1 .. TOP_K /\ TOP_K - 1 < TOP_K
      BY <1>1, <1>7
    <3> QED BY <2>2, <3>1 DEF BestSorted
  <2>4. pos < TOP_K => D(best[TOP_K - 1]) \in Int BY <1>1, <1>3, <1>7
  <2> QED BY <1>3, <1>7, <1>11, <2>1, <2>2, <2>3, <2>4
<1>14. p \in Kept'
  <2>1. best'[pos] = p BY <1>7, <1>8
  <2> QED BY <1>7, <2>1, KdConstants DEF Kept
<1>15. ASSUME NEW r \in Kept PROVE r \in Kept' \/ D(r) >= Worst'
  <2>1. PICK i \in 1 .. TOP_K : best[i] = r BY DEF Kept
  <2>2. CASE i < pos
    <3>1. best'[i] = r BY <1>8, <2>1, <2>2
    <3> QED BY <3>1 DEF Kept
  <2>3. CASE ~(i < pos) /\ i < TOP_K
    <3>1. i + 1 \in 1 .. TOP_K /\ ~(i + 1 < pos) /\ i + 1 # pos /\ (i + 1) - 1 = i
      BY <1>1, <1>7, <2>3
    <3>2. best'[i + 1] = r BY <1>8, <2>1, <3>1
    <3> QED BY <3>1, <3>2 DEF Kept
  <2>4. CASE i = TOP_K
    <3>1. D(r) = Worst BY <2>1, <2>4 DEF Worst
    <3>2. D(r) \in Int BY <1>3, <2>1
    <3>3. Worst' \in Int
      <4>1. TOP_K \in 1 .. TOP_K BY <1>1
      <4>2. best'[TOP_K] \in Points \cup {NoPoint} BY <1>9, <4>1
      <4>3. D(best'[TOP_K]) \in Int BY <4>2, DistType
      <4> QED BY <4>3, <1>10 DEF Worst, D
    <3> QED BY <1>13, <3>1, <3>2, <3>3
  <2> QED BY <1>1, <1>7, <2>2, <2>3, <2>4
<1> QED BY <1>9, <1>12, <1>13, <1>14, <1>15

-----------------------------------------------------------------------------
(***************************************************************************)
(* Every step keeps the invariant.                                         *)
(***************************************************************************)
LEMMA InitIInv == Init => IInv
<1> SUFFICES ASSUME Init PROVE IInv OBVIOUS
<1>1. TypeOK BY KdConstants DEF Init, TypeOK, searchVars
<1>2. BestSorted
  <2>1. \A i \in 1 .. TOP_K : D(best[i]) = MaxDist BY DEF Init, D
  <2> QED BY <2>1, KdConstants DEF BestSorted
<1>3. BoundsHold /\ StackRoom /\ Control
  BY DEF Init, BoundsHold, StackRoom, Control
<1>4. NothingLost BY KdIndex DEF Init, NothingLost, Pending, Ahead
<1> QED BY <1>1, <1>2, <1>3, <1>4 DEF IInv

\* What does not change with best and query.
LEMMA SameBest ==
  ASSUME UNCHANGED <<query, best>>
  PROVE  /\ \A p : D(p)' = D(p)
         /\ Worst' = Worst /\ Kept' = Kept /\ (BestSorted => BestSorted')
<1>1. \A p : D(p)' = D(p) BY DEF D
<1>2. Worst' = Worst BY DEF Worst, D
<1>3. Kept' = Kept BY DEF Kept
<1>4. BestSorted => BestSorted' BY DEF BestSorted, D
<1> QED BY <1>1, <1>2, <1>3, <1>4

\* Points that cannot be nearer than the last kept need no search.
LEMMA StillNothingLost ==
  ASSUME NothingLost, UNCHANGED <<query, best>>,
         \A p \in Points : Pending(p) => Pending(p)' \/ D(p) >= Worst
  PROVE  NothingLost'
BY SameBest DEF NothingLost

\* The types of the distances.
LEMMA Distances ==
  ASSUME TypeOK
  PROVE  /\ Worst \in 0 .. MaxDist
         /\ \A p \in Points : D(p) \in 0 .. MaxDist
         /\ \A n \in Nodes : Bound[query][n] \in Nat
<1>1. best[TOP_K] \in Points \cup {NoPoint} BY KdConstants DEF TypeOK
<1>2. Worst \in 0 .. MaxDist BY <1>1, DistType DEF Worst
<1>3. \A p \in Points : D(p) \in 0 .. MaxDist BY DistType
<1>4. \A n \in Nodes : Bound[query][n] \in Nat BY KdConstants DEF TypeOK
<1> QED BY <1>2, <1>3, <1>4

\* The nodes of the index, as KdConstants and KdIndex give them.
LEMMA NodeFacts ==
  /\ \A n \in Nodes : IsLeaf(n) => Under[n] = {Leaf[n][i] : i \in 1 .. Len(Leaf[n])}
  /\ \A n \in Nodes : ~IsLeaf(n) =>
       /\ Left[n] \in Nodes /\ Right[n] \in Nodes
       /\ Under[n] = Under[Left[n]] \cup Under[Right[n]]
       /\ Height[n] > Height[Left[n]] /\ Height[n] > Height[Right[n]]
  /\ \A n \in Nodes : Height[n] \in Nat /\ Under[n] \subseteq Points
  /\ \A part \in Parts : Root[part] \in Nodes
  /\ \A q \in Queries, n \in Nodes : \A p \in Under[n] : Bound[q][n] <= Dist[q][p]
BY KdConstants, KdIndex DEF IsLeaf

LEMMA BoundsUnder ==
  ASSUME TypeOK, NEW n \in Nodes, NEW p \in Under[n]
  PROVE  p \in Points /\ Bound[query][n] <= D(p)
<1>1. p \in Points BY NodeFacts
<1>2. p # NoPoint BY <1>1, KdConstants
<1>3. Bound[query][n] <= Dist[query][p] BY NodeFacts DEF TypeOK
<1> QED BY <1>1, <1>2, <1>3 DEF D

LEMMA PruneStep == IInv /\ Prune => IInv'
<1> SUFFICES ASSUME IInv, Prune PROVE IInv' OBVIOUS
<1> USE DEF Prune, searchVars
<1>1. TypeOK' BY DEF IInv, TypeOK
<1>2. BestSorted' BY SameBest DEF IInv
<1>3. BoundsHold' BY DEF IInv, BoundsHold, D
<1>4. StackRoom' /\ Control' BY DEF IInv, StackRoom, Control
<1>5. \A p \in Under[current] : D(p) >= Worst
  <2>1. current \in Nodes /\ bound \in Nat BY DEF IInv, TypeOK
  <2>2. \A p \in Under[current] : p \in Points /\ bound <= D(p)
    BY <2>1, NodeFacts DEF IInv, BoundsHold
  <2> QED BY <2>1, <2>2, Distances DEF IInv, Skip
<1>6. \A p \in Points : Pending(p) => Pending(p)' \/ D(p) >= Worst
  BY <1>5 DEF Pending, UnderWay, Ahead, OtherParts
<1>7. NothingLost' BY <1>6, StillNothingLost DEF IInv
<1> QED BY <1>1, <1>2, <1>3, <1>4, <1>7 DEF IInv

LEMMA VisitLeafStep == IInv /\ VisitLeaf => IInv'
<1> SUFFICES ASSUME IInv, VisitLeaf PROVE IInv' OBVIOUS
<1> USE DEF VisitLeaf, searchVars
<1>1. TypeOK' BY DEF IInv, TypeOK, FirstLane
<1>2. BestSorted' BY SameBest DEF IInv
<1>3. BoundsHold' BY DEF IInv, BoundsHold, D
<1>4. StackRoom' /\ Control' BY DEF IInv, StackRoom, Control, IsLeaf
<1>5. current \in Nodes BY DEF IInv, TypeOK
<1>6. \A p \in Under[current] :
        \E i \in lane' .. Len(Leaf[current]) : Leaf[current][i] = p
  BY <1>5, NodeFacts DEF FirstLane
<1>7. \A p \in Points : Pending(p) => Pending(p)'
  BY <1>6 DEF Pending, UnderWay, Ahead, OtherParts
<1>8. NothingLost' BY <1>7, StillNothingLost DEF IInv
<1> QED BY <1>1, <1>2, <1>3, <1>4, <1>8 DEF IInv

LEMMA ScanDoneStep == IInv /\ ScanDone => IInv'
<1> SUFFICES ASSUME IInv, ScanDone PROVE IInv' OBVIOUS
<1> USE DEF ScanDone, searchVars
<1>1. TypeOK' BY DEF IInv, TypeOK
<1>2. BestSorted' BY SameBest DEF IInv
<1>3. BoundsHold' BY DEF IInv, BoundsHold, D
<1>4. StackRoom' /\ Control' BY DEF IInv, StackRoom, Control
<1>5. Leaf[current] \in Seq(Points) /\ lane \in Nat
  BY KdConstants DEF IInv, TypeOK
<1>6. lane .. Len(Leaf[current]) = {} BY <1>5 DEF LeafOver
<1>7. \A p \in Points : Pending(p) => Pending(p)'
  BY <1>6 DEF Pending, UnderWay, Ahead, OtherParts
<1>8. NothingLost' BY <1>7, StillNothingLost DEF IInv
<1> QED BY <1>1, <1>2, <1>3, <1>4, <1>8 DEF IInv

LEMMA ReturnStep == IInv /\ Return => IInv'
<1> SUFFICES ASSUME IInv, Return PROVE IInv' OBVIOUS
<1> USE DEF Return, searchVars
<1>1. TypeOK' BY DEF IInv, TypeOK
<1>2. BestSorted' BY SameBest DEF IInv
<1>3. caller \in {"collect", "probe"} BY DEF IInv, TypeOK
<1>4. BoundsHold' /\ StackRoom' /\ Control'
  BY <1>3 DEF IInv, BoundsHold, StackRoom, Control, D
<1>5. \A p \in Points : Pending(p) => Pending(p)'
  BY DEF IInv, TypeOK, Pending, UnderWay, Ahead, OtherParts
<1>6. NothingLost' BY <1>5, StillNothingLost DEF IInv
<1> QED BY <1>1, <1>2, <1>4, <1>6 DEF IInv

LEMMA ScanPointStep == IInv /\ ScanPoint => IInv'
<1> SUFFICES ASSUME IInv, ScanPoint PROVE IInv' OBVIOUS
<1> DEFINE p == Leaf[current][lane]
<1>1. /\ pc = "scan" /\ lane <= Len(Leaf[current])
      /\ IF D(p) < Worst THEN InsertBest(p) ELSE UNCHANGED best
      /\ lane' = lane + 1
      /\ UNCHANGED <<query, pc, caller, current, bound, stack, probes>>
  BY DEF ScanPoint
<1>2. Leaf[current] \in Seq(Points) /\ lane \in Nat \ {0}
  BY <1>1, KdConstants DEF IInv, TypeOK
<1>3. p \in Points BY <1>1, <1>2
<1> HIDE DEF p
<1>4. /\ best' \in [1 .. TOP_K -> Points \cup {NoPoint}]
      /\ BestSorted'
      /\ Worst' <= Worst
      /\ p \in Kept' \/ D(p) >= Worst'
      /\ \A r \in Kept : r \in Kept' \/ D(r) >= Worst'
  <2>1. CASE D(p) < Worst
    BY <1>1, <1>3, <2>1, InsertKeeps DEF IInv
  <2>2. CASE ~(D(p) < Worst)
    <3>1. UNCHANGED <<query, best>> BY <1>1, <2>2
    <3>2. BestSorted' /\ Worst' = Worst /\ Kept' = Kept
      BY <3>1, SameBest DEF IInv
    <3>3. best' \in [1 .. TOP_K -> Points \cup {NoPoint}]
      BY <3>1 DEF IInv, TypeOK
    <3>4. Worst \in Int /\ D(p) \in Int BY <1>3, Distances DEF IInv
    <3> QED BY <2>2, <3>2, <3>3, <3>4
  <2> QED BY <2>1, <2>2
<1>5. TypeOK' BY <1>1, <1>2, <1>4 DEF IInv, TypeOK
<1>6. BoundsHold' /\ StackRoom' /\ Control'
  BY <1>1 DEF IInv, BoundsHold, StackRoom, Control, D, IsLeaf
<1>7. \A r \in Points : Pending(r) => r = p \/ Pending(r)'
  <2> SUFFICES ASSUME NEW r \in Points, Pending(r), r # p PROVE Pending(r)'
    OBVIOUS
  <2>1. ASSUME NEW i \in lane .. Len(Leaf[current]), Leaf[current][i] = r
        PROVE  i \in lane' .. Len(Leaf[current])
    BY <1>1, <1>2, <2>1 DEF p
  <2> QED BY <1>1, <2>1 DEF Pending, UnderWay, Ahead, OtherParts
<1>8. NothingLost'
  <2> SUFFICES ASSUME NEW r \in Points
               PROVE  r \in Kept' \/ D(r)' >= Worst' \/ Pending(r)'
    BY DEF NothingLost
  <2>1. D(r)' = D(r) BY <1>1 DEF D
  <2>2. r \in Kept \/ D(r) >= Worst \/ Pending(r) BY DEF IInv, NothingLost
  <2>3. D(r) \in Int /\ Worst \in Int BY Distances DEF IInv
  <2>4. Worst' \in Int
    <3>1. best'[TOP_K] \in Points \cup {NoPoint} BY <1>4, KdConstants
    <3>2. D(best'[TOP_K]) \in Int BY <3>1, DistType DEF IInv
    <3> QED BY <1>1, <3>2 DEF Worst, D
  <2> QED BY <1>4, <1>7, <2>1, <2>2, <2>3, <2>4
<1> QED BY <1>4, <1>5, <1>6, <1>8 DEF IInv

LEMMA DescendStep == IInv /\ Descend => IInv'
<1> SUFFICES ASSUME IInv, Descend PROVE IInv' OBVIOUS
<1>1. /\ pc = "visit" /\ ~IsLeaf(current)
      /\ current' = Near /\ bound' = Bound[query][Near]
      /\ UNCHANGED <<query, best, pc, caller, lane, probes>>
  BY DEF Descend
<1>2. current \in Nodes /\ stack \in Seq([node : Nodes, bound : Nat])
  BY <1>1 DEF IInv, TypeOK
<1>3. /\ Near \in Nodes /\ Far \in Nodes
      /\ Under[current] = Under[Near] \cup Under[Far]
      /\ Height[current] > Height[Near] /\ Height[current] > Height[Far]
  BY <1>1, <1>2, NodeFacts DEF Near, Far
<1>4. Bound[query][Near] \in Nat /\ Bound[query][Far] \in Nat
  BY <1>3, Distances DEF IInv
<1>5. Height[Near] \in Nat /\ Height[Far] \in Nat /\ Height[current] \in Nat
  BY <1>2, <1>3, NodeFacts
<1>6. Len(stack) \in Nat /\ Height[current] + Len(stack) <= STACK_DEPTH
  BY <1>1, <1>2 DEF IInv, StackRoom
<1> DEFINE entry == [node |-> Far, bound |-> Bound[query][Far]]
<1>7. stack' = IF Bound[query][Far] < Worst THEN Append(stack, entry) ELSE stack
  BY <1>3, <1>5, <1>6, KdConstants DEF Descend, KeepFar
<1>8. entry \in [node : Nodes, bound : Nat] BY <1>3, <1>4
<1>9. /\ stack' \in Seq([node : Nodes, bound : Nat])
      /\ Len(stack') \in {Len(stack), Len(stack) + 1}
      /\ \A i \in 1 .. Len(stack) : stack'[i] = stack[i]
      /\ Len(stack') = Len(stack) + 1 => stack'[Len(stack) + 1] = entry
      /\ Bound[query][Far] < Worst => Len(stack') = Len(stack) + 1
  <2> HIDE DEF entry
  <2>1. CASE Bound[query][Far] < Worst BY <1>2, <1>7, <1>8, <2>1
  <2>2. CASE ~(Bound[query][Far] < Worst) BY <1>2, <1>6, <1>7, <2>2
  <2> QED BY <2>1, <2>2
<1>10. TypeOK' BY <1>1, <1>3, <1>4, <1>9 DEF IInv, TypeOK
<1>11. BestSorted' BY <1>1, SameBest DEF IInv
<1>12. BoundsHold'
  <2>1. \A p \in Under[Near] : bound' <= D(p)'
    BY <1>1, <1>3, BoundsUnder DEF IInv, D
  <2>2. \A p \in Under[Far] : Bound[query][Far] <= D(p)'
    BY <1>1, <1>3, BoundsUnder DEF IInv, D
  <2>3. ASSUME NEW i \in 1 .. Len(stack')
        PROVE  \A p \in Under[stack'[i].node] : stack'[i].bound <= D(p)'
    <3>1. CASE i \in 1 .. Len(stack)
      BY <1>1, <1>9, <3>1 DEF IInv, BoundsHold, D
    <3>2. CASE i = Len(stack) + 1 /\ stack'[i] = entry BY <2>2, <3>2
    <3> QED BY <1>6, <1>9, <3>1, <3>2
  <2> QED BY <1>1, <2>1, <2>3 DEF BoundsHold
<1>13. StackRoom'
  <2>a. STACK_DEPTH \in Nat BY KdConstants
  <2>b. /\ Height[Near] + 1 + Len(stack) <= STACK_DEPTH
        /\ Height[Far] + 1 + Len(stack) <= STACK_DEPTH
    BY <1>3, <1>5, <1>6, <2>a
  <2>c. Len(stack') \in Nat /\ Len(stack') <= Len(stack) + 1 BY <1>6, <1>9
  <2>1. Height[Near] + Len(stack') <= STACK_DEPTH
    BY <1>5, <1>6, <2>a, <2>b, <2>c
  <2>2. ASSUME NEW i \in 1 .. Len(stack')
        PROVE  Height[stack'[i].node] + i <= STACK_DEPTH + 1
    <3>1. CASE i \in 1 .. Len(stack) BY <1>9, <3>1 DEF IInv, StackRoom
    <3>2. CASE i = Len(stack) + 1 /\ stack'[i] = entry
      BY <1>5, <1>6, <2>a, <2>b, <3>2
    <3> QED BY <1>6, <1>9, <3>1, <3>2
  <2> QED BY <1>1, <2>1, <2>2 DEF StackRoom
<1>14. Control' BY <1>1 DEF IInv, Control
<1>15. \A p \in Points : Pending(p) => Pending(p)' \/ D(p) >= Worst
  <2> SUFFICES ASSUME NEW p \in Points, Pending(p)
               PROVE  Pending(p)' \/ D(p) >= Worst
    OBVIOUS
  <2>1. CASE p \in Under[Near] BY <1>1, <2>1 DEF Pending, UnderWay
  <2>2. CASE p \in Under[Far]
    <3>1. CASE Bound[query][Far] < Worst
      <4>1. Len(stack) + 1 \in 1 .. Len(stack') /\ stack'[Len(stack) + 1].node = Far
        BY <1>6, <1>9, <3>1
      <4> QED BY <2>2, <4>1 DEF Pending, UnderWay
    <3>2. CASE ~(Bound[query][Far] < Worst)
      <4>1. Bound[query][Far] <= D(p) /\ p \in Points
        BY <1>3, <2>2, BoundsUnder DEF IInv
      <4> QED BY <1>4, <3>2, <4>1, Distances DEF IInv
    <3> QED BY <3>1, <3>2
  <2>3. ASSUME NEW i \in 1 .. Len(stack), p \in Under[stack[i].node]
        PROVE  Pending(p)'
    <3>1. i \in 1 .. Len(stack') /\ stack'[i] = stack[i] BY <1>6, <1>9
    <3> QED BY <2>3, <3>1 DEF Pending, UnderWay
  <2>4. ASSUME NEW part \in Ahead, p \in Under[Root[part]]
        PROVE  Pending(p)'
    <3>1. part \in Ahead' BY <1>1 DEF Ahead, OtherParts
    <3> QED BY <2>4, <3>1 DEF Pending, UnderWay
  <2> QED BY <1>1, <1>3, <2>1, <2>2, <2>3, <2>4 DEF Pending, UnderWay
<1>16. NothingLost' BY <1>1, <1>15, StillNothingLost DEF IInv
<1> QED BY <1>10, <1>11, <1>12, <1>13, <1>14, <1>16 DEF IInv

\* What popping leaves of a stack.
LEMMA TopRemoved ==
  ASSUME NEW S, NEW s \in Seq(S), s # <<>>
  PROVE  /\ Len(s) \in Nat \ {0} /\ s[Len(s)] \in S
         /\ SubSeq(s, 1, Len(s) - 1) \in Seq(S)
         /\ Len(SubSeq(s, 1, Len(s) - 1)) = Len(s) - 1
         /\ \A i \in 1 .. Len(s) - 1 : SubSeq(s, 1, Len(s) - 1)[i] = s[i]
<1> DEFINE n == Len(s)
<1>1. n \in Nat /\ n >= 1 /\ n \in 1 .. n BY EmptySeq
<1>2. s[n] \in S BY <1>1, ElementOfSeq
<1>3. \A i \in 1 .. n - 1 : s[i] \in S
  <2>1. \A i \in 1 .. n - 1 : i \in 1 .. n BY <1>1
  <2> QED BY <2>1, ElementOfSeq
<1>4. 1 \in Int /\ n - 1 \in Int BY <1>1
<1>5. /\ SubSeq(s, 1, n - 1) \in Seq(S)
      /\ Len(SubSeq(s, 1, n - 1)) = IF 1 <= n - 1 THEN (n - 1) - 1 + 1 ELSE 0
      /\ \A i \in 1 .. (n - 1) - 1 + 1 : SubSeq(s, 1, n - 1)[i] = s[1 + i - 1]
  BY <1>3, <1>4, SubSeqProperties
<1> HIDE DEF n
<1>6. \A i \in 1 .. n - 1 : i \in 1 .. (n - 1) - 1 + 1 /\ 1 + i - 1 = i BY <1>1
<1>7. /\ SubSeq(s, 1, n - 1) \in Seq(S) /\ Len(SubSeq(s, 1, n - 1)) = n - 1
      /\ \A i \in 1 .. n - 1 : SubSeq(s, 1, n - 1)[i] = s[i]
  BY <1>1, <1>5, <1>6
<1> QED BY <1>1, <1>2, <1>7 DEF n

LEMMA PopStep == IInv /\ Pop => IInv'
<1> SUFFICES ASSUME IInv, Pop PROVE IInv' OBVIOUS
<1> DEFINE n == Len(stack)
           top == stack[n]
<1>1. /\ pc = "pop" /\ stack # <<>> /\ pc' = "visit"
      /\ current' = top.node /\ bound' = top.bound
      /\ stack' = SubSeq(stack, 1, n - 1)
      /\ UNCHANGED <<query, best, caller, lane, probes>>
  BY DEF Pop
<1>2. stack \in Seq([node : Nodes, bound : Nat]) BY DEF IInv, TypeOK
<1>3. n \in Nat \ {0} /\ top \in [node : Nodes, bound : Nat]
  BY <1>1, <1>2, TopRemoved
<1>4. /\ stack' \in Seq([node : Nodes, bound : Nat]) /\ Len(stack') = n - 1
      /\ \A i \in 1 .. n - 1 : stack'[i] = stack[i]
  BY <1>1, <1>2, TopRemoved
<1>5. TypeOK' BY <1>1, <1>3, <1>4 DEF IInv, TypeOK
<1>6. BestSorted' BY <1>1, SameBest DEF IInv
<1>7. BoundsHold'
  <2>1. \A i \in 1 .. n : \A p \in Under[stack[i].node] : stack[i].bound <= D(p)'
    BY <1>1 DEF IInv, BoundsHold, D
  <2>2. \A p \in Under[current'] : bound' <= D(p)' BY <1>1, <1>3, <2>1
  <2>3. \A i \in 1 .. Len(stack') : i \in 1 .. n /\ stack'[i] = stack[i]
    <3>1. 1 .. Len(stack') = 1 .. n - 1 BY <1>4
    <3>2. 1 .. n - 1 \subseteq 1 .. n BY <1>3
    <3>3. \A i \in 1 .. n - 1 : stack'[i] = stack[i] BY <1>4
    <3> HIDE DEF n
    <3> QED BY <3>1, <3>2, <3>3
  <2>4. \A i \in 1 .. Len(stack') :
          \A p \in Under[stack'[i].node] : stack'[i].bound <= D(p)'
    BY <2>1, <2>3
  <2> QED BY <2>2, <2>4 DEF BoundsHold
<1>8. StackRoom'
  <2>1. \A i \in 1 .. n : Height[stack[i].node] + i <= STACK_DEPTH + 1
    BY DEF IInv, StackRoom
  <2>2. Height[top.node] \in Nat BY <1>3, NodeFacts
  <2>3. Height[current'] + Len(stack') <= STACK_DEPTH
    <3>1. Height[top.node] + n <= STACK_DEPTH + 1 BY <1>3, <2>1
    <3>2. current' = top.node /\ Len(stack') = n - 1 BY <1>1, <1>4
    <3> HIDE DEF top, n
    <3> QED BY <1>3, <2>2, <3>1, <3>2, KdConstants
  <2>4. \A i \in 1 .. Len(stack') : Height[stack'[i].node] + i <= STACK_DEPTH + 1
    BY <1>3, <1>4, <2>1
  <2> QED BY <2>3, <2>4 DEF StackRoom
<1>9. Control' BY <1>1 DEF IInv, Control
<1>10. \A p \in Points : Pending(p) => Pending(p)'
  <2> SUFFICES ASSUME NEW p \in Points, Pending(p) PROVE Pending(p)'
    OBVIOUS
  <2>1. ASSUME NEW i \in 1 .. n, p \in Under[stack[i].node] PROVE Pending(p)'
    <3>1. CASE i = n BY <1>1, <2>1, <3>1 DEF Pending, UnderWay
    <3>2. CASE i # n
      <4>1. i \in 1 .. Len(stack') /\ stack'[i] = stack[i]
        BY <1>3, <1>4, <3>2
      <4> QED BY <2>1, <4>1 DEF Pending, UnderWay
    <3> QED BY <3>1, <3>2
  <2>2. ASSUME NEW part \in Ahead, p \in Under[Root[part]] PROVE Pending(p)'
    <3>1. part \in Ahead' BY <1>1 DEF Ahead, OtherParts
    <3> QED BY <2>2, <3>1 DEF Pending, UnderWay
  <2> QED BY <1>1, <2>1, <2>2 DEF Pending, UnderWay
<1>11. NothingLost' BY <1>1, <1>10, StillNothingLost DEF IInv
<1> QED BY <1>5, <1>6, <1>7, <1>8, <1>9, <1>11 DEF IInv

\* The search of a partition begins at its root.
LEMMA SearchStarts ==
  ASSUME TypeOK, NEW part \in Parts, NEW b \in Nat,
         \A p \in Under[Root[part]] : b <= D(p),
         Search(Root[part], b), UNCHANGED <<query, best>>
  PROVE  /\ current' \in Nodes /\ bound' \in Nat /\ stack' = <<>>
         /\ pc' = "visit" /\ current' = Root[part] /\ lane' = lane
         /\ BoundsHold' /\ StackRoom'
<1>1. Root[part] \in Nodes /\ Height[Root[part]] <= STACK_DEPTH
      /\ Height[Root[part]] \in Nat
  BY KdConstants, KdIndex
<1>2. Len(stack') = 0 /\ pc' = "visit" /\ current' = Root[part] /\ bound' = b
  BY DEF Search
<1>3. BoundsHold' BY <1>2, SameBest DEF BoundsHold, Search
<1>4. StackRoom' BY <1>1, <1>2 DEF StackRoom
<1> QED BY <1>1, <1>3, <1>4 DEF Search

LEMMA SearchPrimaryStep == IInv /\ SearchPrimary => IInv'
<1> SUFFICES ASSUME IInv, SearchPrimary PROVE IInv' OBVIOUS
<1>1. pc = "primary" /\ caller = "collect" /\ stack = <<>>
      /\ UNCHANGED <<query, best, caller, probes>>
  BY DEF IInv, Control, SearchPrimary
<1>2. BestSorted' BY <1>1, SameBest DEF IInv
<1>3. CASE Primary[query] \in Parts
  <2> DEFINE part == Primary[query]
  <2>1. Search(Root[part], 0) BY <1>3 DEF SearchPrimary
  <2>2. \A p \in Under[Root[part]] : 0 <= D(p)
    BY <1>3, NodeFacts, Distances DEF IInv
  <2>3. /\ current' \in Nodes /\ bound' \in Nat /\ stack' = <<>>
        /\ pc' = "visit" /\ current' = Root[part] /\ lane' = lane
        /\ BoundsHold' /\ StackRoom'
    BY <1>1, <1>3, <2>1, <2>2, SearchStarts DEF IInv
  <2>4. TypeOK' BY <1>1, <2>3 DEF IInv, TypeOK
  <2>5. Control' BY <1>1, <2>3 DEF Control
  <2>6. \A p \in Points : Pending(p)'
    <3> SUFFICES ASSUME NEW p \in Points PROVE Pending(p)' OBVIOUS
    <3>1. PICK q \in Parts : p \in Under[Root[q]] BY KdIndex
    <3>2. CASE q = part BY <2>3, <3>1, <3>2 DEF Pending, UnderWay
    <3>3. CASE q # part
      <4>1. q \in Ahead' BY <1>1, <2>3, <3>3 DEF Ahead, OtherParts
      <4> QED BY <3>1, <4>1 DEF Pending, UnderWay
    <3> QED BY <3>2, <3>3
  <2>7. NothingLost' BY <1>1, <2>6, StillNothingLost DEF IInv
  <2> QED BY <1>2, <2>3, <2>4, <2>5, <2>7 DEF IInv
<1>4. CASE Primary[query] \notin Parts
  <2>1. pc' = "collect" /\ UNCHANGED searchVars BY <1>4 DEF SearchPrimary
  <2> USE DEF searchVars
  <2>2. TypeOK' BY <1>1, <2>1 DEF IInv, TypeOK
  <2>3. BoundsHold' /\ StackRoom' /\ Control'
    BY <1>1, <2>1 DEF IInv, BoundsHold, StackRoom, Control, D
  <2>4. Ahead = Parts /\ Ahead' = Parts
    BY <1>1, <1>4, <2>1 DEF Ahead, OtherParts
  <2>5. \A p \in Points : Pending(p) => Pending(p)'
    BY <1>1, <2>1, <2>4 DEF Pending, UnderWay
  <2>6. NothingLost' BY <1>1, <2>5, StillNothingLost DEF IInv
  <2> QED BY <1>2, <2>2, <2>3, <2>6 DEF IInv
<1> QED BY <1>3, <1>4

LEMMA CollectStep == IInv /\ Collect => IInv'
<1> SUFFICES ASSUME IInv, Collect PROVE IInv' OBVIOUS
<1>1. /\ pc = "collect" /\ pc' = "probe" /\ caller = "collect" /\ caller' = "probe"
      /\ stack = <<>>
      /\ probes' = {part \in OtherParts : PartBound(part) < Worst}
      /\ UNCHANGED <<query, best, current, bound, stack, lane>>
  BY DEF IInv, Control, Collect, searchVars
<1>2. TypeOK' BY <1>1 DEF IInv, TypeOK, OtherParts
<1>3. BestSorted' BY <1>1, SameBest DEF IInv
<1>4. BoundsHold' /\ StackRoom' /\ Control'
  BY <1>1 DEF IInv, BoundsHold, StackRoom, Control, D
<1>5. \A p \in Points : Pending(p) => Pending(p)' \/ D(p) >= Worst
  <2> SUFFICES ASSUME NEW p \in Points, Pending(p)
               PROVE  Pending(p)' \/ D(p) >= Worst
    OBVIOUS
  <2>1. PICK part \in OtherParts : p \in Under[Root[part]]
    BY <1>1 DEF Pending, UnderWay, Ahead
  <2>2. CASE part \in probes'
    <3>1. part \in Ahead' BY <1>1, <2>2 DEF Ahead
    <3> QED BY <2>1, <3>1 DEF Pending, UnderWay
  <2>3. CASE part \notin probes'
    <3>1. ~(PartBound(part) < Worst) BY <1>1, <2>1, <2>3
    <3>2. Root[part] \in Nodes BY <2>1, NodeFacts DEF OtherParts
    <3>3. PartBound(part) <= D(p) /\ PartBound(part) \in Nat
      BY <2>1, <3>2, BoundsUnder, Distances DEF IInv, PartBound
    <3> QED BY <3>1, <3>3, Distances DEF IInv
  <2> QED BY <2>2, <2>3
<1>6. NothingLost' BY <1>1, <1>5, StillNothingLost DEF IInv
<1> QED BY <1>2, <1>3, <1>4, <1>6 DEF IInv

LEMMA ProbeStep == IInv /\ Probe => IInv'
<1> SUFFICES ASSUME IInv, Probe PROVE IInv' OBVIOUS
<1>1. PICK part \in probes :
        probes' = probes \ {part} /\ Search(Root[part], PartBound(part))
  BY DEF Probe
<1>2. pc = "probe" /\ caller = "probe" /\ stack = <<>>
      /\ UNCHANGED <<query, best, caller>>
  BY DEF IInv, Control, Probe
<1>3. part \in Parts /\ Root[part] \in Nodes
  BY NodeFacts DEF IInv, TypeOK
<1>4. PartBound(part) \in Nat BY <1>3, Distances DEF IInv, PartBound
<1>5. \A p \in Under[Root[part]] : PartBound(part) <= D(p)
  BY <1>3, BoundsUnder DEF IInv, PartBound
<1>6. /\ current' \in Nodes /\ bound' \in Nat /\ stack' = <<>>
      /\ pc' = "visit" /\ current' = Root[part] /\ lane' = lane
      /\ BoundsHold' /\ StackRoom'
  BY <1>1, <1>2, <1>3, <1>4, <1>5, SearchStarts DEF IInv
<1>7. TypeOK' BY <1>1, <1>2, <1>6 DEF IInv, TypeOK
<1>8. BestSorted' BY <1>2, SameBest DEF IInv
<1>9. Control' BY <1>2, <1>6 DEF Control
<1>10. \A p \in Points : Pending(p) => Pending(p)'
  <2> SUFFICES ASSUME NEW p \in Points, Pending(p) PROVE Pending(p)'
    OBVIOUS
  <2>1. PICK q \in probes : p \in Under[Root[q]]
    BY <1>2 DEF Pending, UnderWay, Ahead
  <2>2. CASE q = part BY <1>6, <2>1, <2>2 DEF Pending, UnderWay
  <2>3. CASE q # part
    <3>1. q \in Ahead' BY <1>1, <1>2, <1>6, <2>3 DEF Ahead
    <3> QED BY <2>1, <3>1 DEF Pending, UnderWay
  <2> QED BY <2>2, <2>3
<1>11. NothingLost' BY <1>2, <1>10, StillNothingLost DEF IInv
<1> QED BY <1>6, <1>7, <1>8, <1>9, <1>11 DEF IInv

LEMMA FinishStep == IInv /\ Finish => IInv'
<1> SUFFICES ASSUME IInv, Finish PROVE IInv' OBVIOUS
<1>1. /\ pc = "probe" /\ pc' = "done" /\ caller = "probe" /\ stack = <<>> /\ LastProbe
      /\ UNCHANGED <<query, best, caller, current, bound, stack, lane, probes>>
  BY DEF IInv, Control, Finish, searchVars
<1>2. TypeOK' BY <1>1 DEF IInv, TypeOK
<1>3. BestSorted' BY <1>1, SameBest DEF IInv
<1>4. BoundsHold' /\ StackRoom' /\ Control'
  BY <1>1 DEF IInv, BoundsHold, StackRoom, Control, D
<1>5. \A p \in Points : Pending(p) => D(p) >= Worst
  <2> SUFFICES ASSUME NEW p \in Points, Pending(p) PROVE D(p) >= Worst
    OBVIOUS
  <2>1. PICK part \in probes : p \in Under[Root[part]]
    BY <1>1 DEF Pending, UnderWay, Ahead
  <2>2. PartBound(part) >= Worst BY <1>1 DEF LastProbe
  <2>3. Root[part] \in Nodes BY NodeFacts DEF IInv, TypeOK
  <2>4. PartBound(part) <= D(p) /\ PartBound(part) \in Nat
    BY <2>1, <2>3, BoundsUnder, Distances DEF IInv, PartBound
  <2> QED BY <2>2, <2>4, Distances DEF IInv
<1>6. NothingLost' BY <1>1, <1>5, StillNothingLost DEF IInv
<1> QED BY <1>2, <1>3, <1>4, <1>6 DEF IInv

LEMMA StepIInv == IInv /\ [Next]_vars => IInv'
<1> SUFFICES ASSUME IInv, [Next]_vars PROVE IInv' OBVIOUS
<1>1. CASE Next
  BY <1>1, PruneStep, VisitLeafStep, ScanPointStep, ScanDoneStep, DescendStep,
     PopStep, ReturnStep, SearchPrimaryStep, CollectStep, ProbeStep, FinishStep
  DEF Next
<1>2. CASE UNCHANGED vars
  <2> USE <1>2 DEF vars, searchVars
  <2>1. TypeOK' BY DEF IInv, TypeOK
  <2>2. BestSorted' BY SameBest DEF IInv
  <2>3. BoundsHold' /\ StackRoom' /\ Control'
    BY DEF IInv, BoundsHold, StackRoom, Control, D
  <2>4. \A p \in Points : Pending(p) => Pending(p)'
    BY DEF Pending, UnderWay, Ahead, OtherParts
  <2>5. NothingLost' BY <2>4, StillNothingLost DEF IInv
  <2> QED BY <2>1, <2>2, <2>3, <2>5 DEF IInv
<1> QED BY <1>1, <1>2

LEMMA InductiveInvariant == Spec => []IInv
<1> QED BY InitIInv, StepIInv, PTL DEF Spec

-----------------------------------------------------------------------------
\* The search never leaves the index: every node it visits exists, for every
\* index and query.
THEOREM TypeCorrect == Spec => []TypeOK
<1>1. IInv => TypeOK BY DEF IInv
<1> QED BY <1>1, InductiveInvariant, PTL

\* Whatever subtrees and partitions searchNode and score skip, the answer is
\* the TOP_K nearest of all points, for every index whose boxes enclose their
\* points and every query.
THEOREM FindsNearest == Spec => []NearestFound
<1>1. IInv => NearestFound
  <2> SUFFICES ASSUME IInv, pc = "done" PROVE NearestFound
    BY DEF NearestFound
  <2>1. \A p : ~Pending(p) BY DEF IInv, Control, Pending, UnderWay, Ahead
  <2>2. \A p \in Points \ Kept : D(p) >= Worst
    BY <2>1 DEF IInv, NothingLost
  <2> QED BY <2>2 DEF IInv, BestSorted, NearestFound
<1> QED BY <1>1, InductiveInvariant, PTL

\* Trees no higher than STACK_DEPTH never fill the search stack, so that no
\* subtree is dropped for want of room.
THEOREM StackNeverFull == Spec => []StackSuffices
<1>1. IInv => StackSuffices
  <2> SUFFICES ASSUME IInv, pc = "visit", ~IsLeaf(current)
               PROVE  Len(stack) < STACK_DEPTH
    BY DEF StackSuffices
  <2>1. current \in Nodes /\ Len(stack) \in Nat BY DEF IInv, TypeOK
  <2>2. Left[current] \in Nodes /\ Height[current] > Height[Left[current]]
    BY <2>1, NodeFacts
  <2>3. Height[current] \in Nat /\ Height[Left[current]] \in Nat
    BY <2>1, <2>2, NodeFacts
  <2>4. Height[current] + Len(stack) <= STACK_DEPTH BY DEF IInv, StackRoom
  <2> QED BY <2>1, <2>2, <2>3, <2>4, KdConstants
<1> QED BY <1>1, InductiveInvariant, PTL

\* What was looked at, what is in hand, what is on the stack and what is in
\* the partitions ahead have no point in common.
Apart ==
  /\ \A p \in Points : Pending(p) => p \notin Kept
  /\ \A p \in Points, i \in 1 .. Len(stack) :
       p \in Under[stack[i].node] =>
         ~UnderWay(p) /\ \A j \in 1 .. Len(stack) : p \in Under[stack[j].node] => i = j
  /\ \A p \in Points, part \in Ahead :
       p \in Under[Root[part]] =>
         ~UnderWay(p) /\ \A i \in 1 .. Len(stack) : p \notin Under[stack[i].node]

Once == CountedOnce /\ Apart

-----------------------------------------------------------------------------
(***************************************************************************)
(* No point is counted twice.                                              *)
(***************************************************************************)
LEMMA InitOnce == Init => Once
<1> SUFFICES ASSUME Init PROVE Once OBVIOUS
<1>1. Kept = {} /\ stack = <<>> /\ \A p : ~UnderWay(p)
  BY DEF Init, Kept, UnderWay
<1>2. CountedOnce BY DEF Init, CountedOnce
<1>3. Apart BY <1>1 DEF Apart
<1> QED BY <1>2, <1>3 DEF Once

\* Steps that only let go of points.
LEMMA StillOnce ==
  ASSUME Once, UNCHANGED <<best, stack>>,
         \A p \in Points : UnderWay(p)' => UnderWay(p),
         Ahead' \subseteq Ahead
  PROVE  Once'
<1>1. CountedOnce' BY DEF Once, CountedOnce
<1>2. Kept' = Kept BY DEF Kept
<1>3. \A p \in Points : Pending(p)' => Pending(p)
  <2>1. \A p : Pending(p)' <=> (\/ UnderWay(p)'
                                \/ \E i \in 1 .. Len(stack') : p \in Under[stack'[i].node]
                                \/ \E part \in Ahead' : p \in Under[Root[part]])
    BY DEF Pending
  <2> QED BY <2>1 DEF Pending
<1>4. Apart' BY <1>2, <1>3 DEF Once, Apart
<1> QED BY <1>1, <1>4 DEF Once

\* A partition that lies ahead is taken in hand.
LEMMA SearchOnce ==
  ASSUME Once, stack = <<>>, NEW part \in Ahead, Ahead \subseteq Parts,
         Search(Root[part], PartBound(part)) \/ Search(Root[part], 0),
         UNCHANGED best, Ahead' = Ahead \ {part}
  PROVE  Once'
<1>1. CountedOnce' BY DEF Once, CountedOnce
<1>2. Kept' = Kept BY DEF Kept
<1>3. pc' = "visit" /\ current' = Root[part] /\ Len(stack') = 0 BY DEF Search
<1>4. \A p : UnderWay(p)' <=> p \in Under[Root[part]] BY <1>3 DEF UnderWay
<1>5. \A p \in Points : Pending(p)' => Pending(p)
  BY <1>3, <1>4 DEF Pending
<1>6. \A p \in Points, other \in Ahead' :
        p \in Under[Root[other]] => p \notin Under[Root[part]]
  BY KdIndex
<1>7. Apart' BY <1>2, <1>3, <1>4, <1>5, <1>6 DEF Once, Apart
<1> QED BY <1>1, <1>7 DEF Once

LEMMA DescendOnce == IInv /\ Once /\ Descend => Once'
<1> SUFFICES ASSUME IInv, Once, Descend PROVE Once' OBVIOUS
<1>1. /\ pc = "visit" /\ ~IsLeaf(current)
      /\ current' = Near
      /\ UNCHANGED <<query, best, pc, caller, lane, probes>>
  BY DEF Descend
<1>2. current \in Nodes /\ stack \in Seq([node : Nodes, bound : Nat])
  BY <1>1 DEF IInv, TypeOK
<1>3. /\ Near \in Nodes /\ Far \in Nodes
      /\ Under[current] = Under[Near] \cup Under[Far]
      /\ Under[Near] \cap Under[Far] = {}
  BY <1>1, <1>2, NodeFacts, KdIndex DEF Near, Far
<1>4. Len(stack) \in Nat BY <1>2
<1>5. Bound[query][Far] \in Nat BY <1>3, Distances DEF IInv
<1> DEFINE entry == [node |-> Far, bound |-> Bound[query][Far]]
<1>6. entry \in [node : Nodes, bound : Nat] /\ entry.node = Far BY <1>3, <1>5
<1>7. \/ UNCHANGED stack
      \/ /\ Len(stack') = Len(stack) + 1 /\ stack'[Len(stack) + 1].node = Far
         /\ \A i \in 1 .. Len(stack) : stack'[i] = stack[i]
  <2>1. stack' = Append(stack, entry) \/ UNCHANGED stack
    BY DEF Descend, KeepFar
  <2> HIDE DEF entry
  <2> QED BY <1>2, <1>4, <1>6, <2>1
<1>8. Ahead' = Ahead BY <1>1 DEF Ahead, OtherParts
<1>9. CountedOnce' BY <1>1 DEF Once, CountedOnce
<1>10. Kept' = Kept BY <1>1 DEF Kept
<1>11. \A p : /\ UnderWay(p) <=> p \in Under[Near] \/ p \in Under[Far]
              /\ UnderWay(p)' <=> p \in Under[Near]
              /\ p \in Under[Far] => p \notin Under[Near]
  BY <1>1, <1>3 DEF UnderWay
<1>12. ASSUME NEW i \in 1 .. Len(stack')
       PROVE  \/ i \in 1 .. Len(stack) /\ stack'[i] = stack[i]
              \/ i = Len(stack) + 1 /\ stack'[i].node = Far
  BY <1>4, <1>7
<1>13. \A p \in Points : Pending(p)' => Pending(p)
  BY <1>8, <1>11, <1>12 DEF Pending
<1>14. ASSUME NEW p \in Points, NEW i \in 1 .. Len(stack'), p \in Under[stack'[i].node]
       PROVE  /\ ~UnderWay(p)'
              /\ \A j \in 1 .. Len(stack') : p \in Under[stack'[j].node] => i = j
              /\ \A part \in Ahead' : p \notin Under[Root[part]]
  BY <1>4, <1>8, <1>11, <1>12, <1>14 DEF Once, Apart
<1>15. \A p \in Points, part \in Ahead' : p \in Under[Root[part]] => ~UnderWay(p)'
  BY <1>8, <1>11 DEF Once, Apart
<1>16. Apart' BY <1>10, <1>13, <1>14, <1>15 DEF Once, Apart
<1> QED BY <1>9, <1>16 DEF Once

LEMMA PopOnce == IInv /\ Once /\ Pop => Once'
<1> SUFFICES ASSUME IInv, Once, Pop PROVE Once' OBVIOUS
<1> DEFINE n == Len(stack)
<1>1. /\ pc = "pop" /\ pc' = "visit" /\ stack # <<>> /\ current' = stack[n].node
      /\ stack' = SubSeq(stack, 1, n - 1)
      /\ UNCHANGED <<query, best, caller, lane, probes>>
  BY DEF Pop
<1>2. stack \in Seq([node : Nodes, bound : Nat]) BY DEF IInv, TypeOK
<1>3. n \in Nat /\ n >= 1 BY <1>1, <1>2, EmptySeq
<1>4. Len(stack') = n - 1 /\ \A i \in 1 .. n - 1 : stack'[i] = stack[i]
  BY <1>1, <1>2, TopRemoved
<1>5. Ahead' = Ahead BY <1>1 DEF Ahead, OtherParts
<1>6. CountedOnce' /\ Kept' = Kept BY <1>1 DEF Once, CountedOnce, Kept
<1>7. \A p : ~UnderWay(p) /\ (UnderWay(p)' <=> p \in Under[stack[n].node])
  BY <1>1 DEF UnderWay
<1> HIDE DEF n
<1>8. \A i \in 1 .. Len(stack') : i \in 1 .. n /\ i # n /\ stack'[i] = stack[i]
  BY <1>3, <1>4
<1>9. n \in 1 .. n /\ n = Len(stack) BY <1>3 DEF n
<1>10. \A p \in Points : Pending(p)' => Pending(p)
  BY <1>5, <1>7, <1>8, <1>9 DEF Pending
<1>11. Apart'
  BY <1>5, <1>6, <1>7, <1>8, <1>9, <1>10 DEF Once, Apart
<1> QED BY <1>6, <1>11 DEF Once

\* insertBest of a point that is not in the list.
LEMMA InsertOnce ==
  ASSUME TypeOK, CountedOnce, NEW p \in Points, p \notin Kept, InsertBest(p)
  PROVE  CountedOnce' /\ Kept' \subseteq Kept \cup {p}
<1> DEFINE asNear == {i \in 1 .. TOP_K : D(best[i]) <= D(p)}
           pos == Cardinality(asNear) + 1
<1>1. TOP_K \in Nat \ {0} BY KdConstants
<1>2. IsFiniteSet(1 .. TOP_K) BY <1>1, FS_Interval
<1>3. IsFiniteSet(asNear) BY <1>2, FS_Subset
<1>4. pos \in Nat /\ pos >= 1 BY <1>3, FS_CardinalityType
<1>5. best' = [i \in 1 .. TOP_K |-> IF i < pos THEN best[i]
                                    ELSE IF i = pos THEN p ELSE best[i - 1]]
  BY DEF InsertBest
<1> HIDE DEF pos
<1> DEFINE from(i) == IF i < pos THEN i ELSE i - 1
<1>6. \A i \in 1 .. TOP_K :
        \/ i = pos /\ best'[i] = p
        \/ i # pos /\ from(i) \in 1 .. TOP_K /\ best'[i] = best[from(i)]
  BY <1>1, <1>4, <1>5
<1>7. \A i, j \in 1 .. TOP_K : i # pos /\ j # pos /\ from(i) = from(j) => i = j
  BY <1>1, <1>4
<1>8. \A i \in 1 .. TOP_K : best[i] # p BY KdConstants DEF Kept
<1> HIDE DEF from
<1>9. CountedOnce' BY <1>6, <1>7, <1>8 DEF CountedOnce
<1>10. Kept' \subseteq Kept \cup {p} BY <1>6 DEF Kept
<1> QED BY <1>9, <1>10

LEMMA ScanPointOnce == IInv /\ Once /\ ScanPoint => Once'
<1> SUFFICES ASSUME IInv, Once, ScanPoint PROVE Once' OBVIOUS
<1>1. /\ pc = "scan" /\ lane <= Len(Leaf[current]) /\ IsLeaf(current)
      /\ InsertBest(Leaf[current][lane]) \/ UNCHANGED best
      /\ lane' = lane + 1
      /\ UNCHANGED <<query, pc, caller, current, bound, stack, probes>>
  BY DEF IInv, Control, ScanPoint
<1>2. Leaf[current] \in Seq(Points) /\ lane \in Nat \ {0} /\ current \in Nodes
  BY <1>1, KdConstants DEF IInv, TypeOK
<1>3. lane \in lane .. Len(Leaf[current]) /\ lane \in 1 .. Len(Leaf[current])
  BY <1>1, <1>2
<1>4. PICK p \in Points : p = Leaf[current][lane] BY <1>2, <1>3, ElementOfSeq
<1>5. UnderWay(p) BY <1>1, <1>3, <1>4 DEF UnderWay
<1>6. p \notin Kept BY <1>4, <1>5 DEF Once, Apart, Pending
<1>7. ~UnderWay(p)'
  <2>1. \A i \in lane + 1 .. Len(Leaf[current]) : i \in 1 .. Len(Leaf[current]) /\ i # lane
    BY <1>2
  <2>2. \A i, j \in 1 .. Len(Leaf[current]) : Leaf[current][i] = Leaf[current][j] => i = j
    BY <1>1, <1>2, KdIndex
  <2>3. \A i \in lane + 1 .. Len(Leaf[current]) : Leaf[current][i] # p
    BY <1>3, <1>4, <2>1, <2>2
  <2> QED BY <1>1, <2>3 DEF UnderWay
<1>8. \A r : UnderWay(r)' => UnderWay(r)
  <2>1. \A i \in lane + 1 .. Len(Leaf[current]) : i \in lane .. Len(Leaf[current])
    BY <1>2
  <2> QED BY <1>1, <2>1 DEF UnderWay
<1>9. CountedOnce' /\ Kept' \subseteq Kept \cup {p}
  <2>1. CASE InsertBest(p) BY <1>4, <1>6, <2>1, InsertOnce DEF IInv, Once
  <2>2. CASE UNCHANGED best BY <2>2 DEF Once, CountedOnce, Kept
  <2> QED BY <1>1, <1>4, <2>1, <2>2
<1>10. Ahead' = Ahead BY <1>1 DEF Ahead, OtherParts
<1>11. \A r : Pending(r)' <=>
               \/ UnderWay(r)'
               \/ \E i \in 1 .. Len(stack) : r \in Under[stack[i].node]
               \/ \E part \in Ahead : r \in Under[Root[part]]
  BY <1>1, <1>10 DEF Pending
<1>12. ~Pending(p)' /\ \A r \in Points : Pending(r)' => Pending(r)
  BY <1>4, <1>5, <1>7, <1>8, <1>11 DEF Once, Apart, Pending
<1>13. \A r \in Points : Pending(r)' => r \notin Kept'
  BY <1>9, <1>12 DEF Once, Apart
<1>14. Apart' BY <1>1, <1>8, <1>10, <1>13 DEF Once, Apart
<1> QED BY <1>9, <1>14 DEF Once

LEMMA StepOnce == IInv /\ Once /\ [Next]_vars => Once'
<1> SUFFICES ASSUME IInv, Once, [Next]_vars PROVE Once' OBVIOUS
<1>1. CASE Prune \/ ScanDone
  <2>1. UNCHANGED <<query, best, stack, caller, probes>> /\ pc \in {"visit", "scan"}
        /\ pc' = "pop"
    BY <1>1 DEF Prune, ScanDone, searchVars
  <2>2. \A p : ~UnderWay(p)' BY <2>1 DEF UnderWay
  <2>3. Ahead' = Ahead BY <2>1 DEF Ahead, OtherParts
  <2> QED BY <2>1, <2>2, <2>3, StillOnce
<1>2. CASE VisitLeaf
  <2>1. /\ UNCHANGED <<query, best, stack, caller, probes, current>>
        /\ pc = "visit" /\ pc' = "scan" /\ lane' = 1 /\ IsLeaf(current)
    BY <1>2 DEF VisitLeaf, FirstLane
  <2>2. current \in Nodes BY <2>1 DEF IInv, TypeOK
  <2>3. \A p : UnderWay(p)' => UnderWay(p)
    BY <2>1, <2>2, NodeFacts DEF UnderWay
  <2>4. Ahead' = Ahead BY <2>1 DEF Ahead, OtherParts
  <2> QED BY <2>1, <2>3, <2>4, StillOnce
<1>3. CASE Return
  <2>1. UNCHANGED <<query, best, stack, caller, probes>> /\ pc = "pop" /\ pc' = caller
    BY <1>3 DEF Return, searchVars
  <2>2. caller \in {"collect", "probe"} BY DEF IInv, TypeOK
  <2>3. \A p : ~UnderWay(p)' BY <2>1, <2>2 DEF UnderWay
  <2>4. Ahead' = Ahead BY <2>1, <2>2 DEF Ahead, OtherParts
  <2> QED BY <2>1, <2>3, <2>4, StillOnce
<1>4. CASE Collect
  <2>1. /\ UNCHANGED <<query, best, stack>> /\ caller = "collect" /\ caller' = "probe"
        /\ pc = "collect" /\ pc' = "probe" /\ probes' \subseteq OtherParts
    BY <1>4 DEF Collect, searchVars, IInv, Control
  <2>2. \A p : ~UnderWay(p)' BY <2>1 DEF UnderWay
  <2>3. Ahead' \subseteq Ahead BY <2>1 DEF Ahead
  <2> QED BY <2>1, <2>2, <2>3, StillOnce
<1>5. CASE Finish
  <2>1. UNCHANGED <<best, stack>> /\ pc' = "done" BY <1>5 DEF Finish, searchVars
  <2>2. \A p : ~UnderWay(p)' BY <2>1 DEF UnderWay
  <2>3. Ahead' = {} BY <2>1 DEF Ahead
  <2> QED BY <2>1, <2>2, <2>3, StillOnce
<1>6. CASE SearchPrimary
  <2>1. pc = "primary" /\ caller = "collect" /\ stack = <<>>
        /\ UNCHANGED <<query, best, caller, probes>>
    BY <1>6 DEF IInv, Control, SearchPrimary
  <2>2. CASE Primary[query] \in Parts
    <3>1. Search(Root[Primary[query]], 0) BY <1>6, <2>2 DEF SearchPrimary
    <3>2. pc' = "visit" BY <3>1 DEF Search
    <3>3. Ahead = Parts /\ Ahead' = Parts \ {Primary[query]}
      BY <2>1, <3>2 DEF Ahead, OtherParts
    <3> QED BY <2>1, <2>2, <3>1, <3>3, SearchOnce
  <2>3. CASE Primary[query] \notin Parts
    <3>1. pc' = "collect" /\ UNCHANGED stack BY <1>6, <2>3 DEF SearchPrimary, searchVars
    <3>2. \A p : ~UnderWay(p)' BY <3>1 DEF UnderWay
    <3>3. Ahead' \subseteq Ahead BY <2>1, <3>1 DEF Ahead, OtherParts
    <3> QED BY <2>1, <3>1, <3>2, <3>3, StillOnce
  <2> QED BY <2>2, <2>3
<1>7. CASE Probe
  <2>1. PICK part \in probes :
          probes' = probes \ {part} /\ Search(Root[part], PartBound(part))
    BY <1>7 DEF Probe
  <2>2. pc = "probe" /\ caller = "probe" /\ stack = <<>>
        /\ UNCHANGED <<query, best, caller>> /\ probes \subseteq Parts
    BY <1>7 DEF IInv, Control, TypeOK, Probe
  <2>3. pc' = "visit" BY <2>1 DEF Search
  <2>4. Ahead = probes /\ Ahead' = probes \ {part} BY <2>1, <2>2, <2>3 DEF Ahead
  <2> QED BY <2>1, <2>2, <2>4, SearchOnce
<1>8. CASE UNCHANGED vars
  <2>1. UNCHANGED <<query, best, stack, caller, probes, pc, current, lane>>
    BY <1>8 DEF vars, searchVars
  <2>2. \A p : UnderWay(p)' <=> UnderWay(p) BY <2>1 DEF UnderWay
  <2>3. Ahead' = Ahead BY <2>1 DEF Ahead, OtherParts
  <2> QED BY <2>1, <2>2, <2>3, StillOnce
<1> QED BY <1>1, <1>2, <1>3, <1>4, <1>5, <1>6, <1>7, <1>8,
           DescendOnce, PopOnce, ScanPointOnce DEF Next

LEMMA OnceInvariant == Spec => [](IInv /\ Once)
<1>1. Init => IInv /\ Once BY InitIInv, InitOnce
<1>2. IInv /\ Once /\ [Next]_vars => (IInv /\ Once)' BY StepIInv, StepOnce
<1> QED BY <1>1, <1>2, PTL DEF Spec

\* Although partitions are searched in two passes and subtrees are put aside,
\* no reference point is among the TOP_K twice, on any index that stores each
\* once.
THEOREM CountsOnce == Spec => []CountedOnce
<1>1. IInv /\ Once => CountedOnce BY DEF Once
<1> QED BY <1>1, OnceInvariant, PTL

-----------------------------------------------------------------------------
(***************************************************************************)
(* The verdict.                                                            *)
(***************************************************************************)
Filled == {i \in 1 .. TOP_K : best[i] # NoPoint}

\* As many points as places filled, and as many frauds among them.
LEMMA KeptCount ==
  ASSUME TypeOK, CountedOnce
  PROVE  /\ Kept \subseteq Points /\ IsFiniteSet(Kept) /\ IsFiniteSet(Filled)
         /\ Cardinality(Kept) = Cardinality(Filled)
         /\ Frauds = Cardinality({p \in Kept : Label[p] = 1})
<1>1. \A i \in Filled : best[i] \in Points BY DEF TypeOK, Filled
<1>2. Kept \subseteq Points BY DEF TypeOK, Kept
<1>3. TOP_K \in Int BY KdConstants
<1>4. IsFiniteSet(1 .. TOP_K) BY <1>3, FS_Interval
<1>5. IsFiniteSet(Filled) BY <1>4, FS_Subset DEF Filled
<1>6. IsFiniteSet(Kept) BY <1>2, FS_Subset, KdConstants
<1>7. \A i, j \in Filled : best[i] = best[j] => i = j BY DEF CountedOnce, Filled
<1>8. \A p \in Kept : \E i \in Filled : best[i] = p BY DEF Kept, Filled
<1>9. \A i \in Filled : best[i] \in Kept BY DEF Kept, Filled
<1>10. Cardinality(Kept) = Cardinality(Filled)
  <2> DEFINE f == [i \in Filled |-> best[i]]
  <2>1. f \in Bijection(Filled, Kept)
    BY <1>7, <1>8, <1>9 DEF Bijection, Injection, Surjection, IsInjective
  <2>2. ExistsBijection(Filled, Kept) BY <2>1 DEF ExistsBijection
  <2> QED BY <1>5, <2>2, FS_Bijection
<1>11. Frauds = Cardinality({p \in Kept : Label[p] = 1})
  <2> DEFINE I == {i \in 1 .. TOP_K : best[i] # NoPoint /\ Label[best[i]] = 1}
             F == {p \in Kept : Label[p] = 1}
             f == [i \in I |-> best[i]]
  <2>1. I \subseteq Filled /\ IsFiniteSet(I) BY <1>5, FS_Subset DEF Filled
  <2>2. f \in Bijection(I, F)
    <3>1. \A i \in I : best[i] \in F BY <1>9, <2>1
    <3>2. \A p \in F : \E i \in I : best[i] = p BY <1>8 DEF Filled
    <3>3. \A i, j \in I : best[i] = best[j] => i = j BY <1>7, <2>1
    <3> HIDE DEF I, F
    <3> QED BY <3>1, <3>2, <3>3 DEF Bijection, Injection, Surjection, IsInjective
  <2>3. ExistsBijection(I, F) BY <2>2 DEF ExistsBijection
  <2> QED BY <2>1, <2>3, FS_Bijection DEF Frauds
<1> QED BY <1>2, <1>5, <1>6, <1>10, <1>11

\* The instance's cardinality is the module's own.
LEMMA SameCardinality == \A S : Abstract!Cardinality(S) = Cardinality(S)
BY DEF Abstract!Cardinality, Cardinality

\* At the end the points kept are TOP_K that none of the others is nearer than.
LEMMA KeptNearest ==
  ASSUME IInv, CountedOnce, \A p \in Points \ Kept : D(p) >= Worst
  PROVE  Kept \in Abstract!NearestSets(query)
<1>1. /\ Kept \subseteq Points /\ IsFiniteSet(Kept) /\ IsFiniteSet(Filled)
      /\ Cardinality(Kept) = Cardinality(Filled)
  BY KeptCount DEF IInv
<1>2. TOP_K \in Nat \ {0} /\ MaxDist \in Nat /\ IsFiniteSet(Points) BY KdConstants
<1>3. /\ Cardinality(Kept) \in Nat /\ Cardinality(Points) \in Nat
      /\ Cardinality(Kept) <= Cardinality(Points)
  BY <1>1, <1>2, FS_CardinalityType, FS_Subset
<1>4. IsFiniteSet(1 .. TOP_K) /\ Cardinality(1 .. TOP_K) = TOP_K BY <1>2, FS_Interval
<1>5. Cardinality(Filled) <= TOP_K BY <1>4, FS_Subset DEF Filled
<1>6. \A p \in Points : p # NoPoint /\ D(p) = Dist[query][p] /\ D(p) \in 0 .. MaxDist - 1
  BY KdConstants DEF IInv, TypeOK, D
<1>7. Worst \in 0 .. MaxDist BY Distances DEF IInv
<1>8. \A i \in 1 .. TOP_K : D(best[i]) <= Worst
  <2> SUFFICES ASSUME NEW i \in 1 .. TOP_K PROVE D(best[i]) <= Worst OBVIOUS
  <2>1. CASE i = TOP_K BY <1>7, <2>1 DEF Worst
  <2>2. CASE i # TOP_K
    <3>1. i < TOP_K /\ TOP_K \in 1 .. TOP_K BY <1>2, <2>2
    <3> QED BY <3>1 DEF IInv, BestSorted, Worst
  <2> QED BY <2>1, <2>2
<1>9. Cardinality(Kept) = Abstract!Count
  <2>1. CASE Kept = Points
    BY <1>1, <1>2, <1>3, <1>5, <2>1, SameCardinality DEF Abstract!Count
  <2>2. CASE Kept # Points
    <3>1. PICK r \in Points : r \notin Kept BY <1>1, <2>2
    <3>2. Worst < MaxDist BY <1>2, <1>6, <1>7, <3>1
    <3>3. \A i \in 1 .. TOP_K : best[i] # NoPoint
      BY <1>2, <1>7, <1>8, <3>2 DEF D
    <3>4. Filled = 1 .. TOP_K BY <3>3 DEF Filled
    <3> QED BY <1>1, <1>2, <1>3, <1>4, <3>4, SameCardinality DEF Abstract!Count
  <2> QED BY <2>1, <2>2
<1>10. ASSUME NEW p \in Kept, NEW r \in Points \ Kept
       PROVE  Dist[query][p] <= Dist[query][r]
  <2>1. PICK i \in 1 .. TOP_K : best[i] = p BY DEF Kept
  <2>2. D(p) <= Worst /\ D(r) >= Worst BY <1>8, <2>1
  <2>3. p \in Points /\ r \in Points BY <1>1
  <2> QED BY <1>6, <1>7, <2>2, <2>3
<1> QED BY <1>1, <1>9, <1>10, SameCardinality DEF Abstract!NearestSets

\* On every index the builder may write, the verdict score() returns is the
\* number of frauds among TOP_K nearest reference points, found by looking at
\* all of them: every run of the search is one of Knn, without its promise to
\* end.
THEOREM Implements == Spec => Abstract!Safe
<1>1. Init => Abstract!Init BY DEF Init, Abstract!Init, Abstract!NoVerdict
<1>2. IInv /\ Once /\ [Next]_vars => [Abstract!Answer]_(Abstract!vars)
  <2> SUFFICES ASSUME IInv, Once, [Next]_vars
               PROVE  [Abstract!Answer]_(Abstract!vars)
    OBVIOUS
  <2>1. CASE Finish
    <3>1. /\ pc = "probe" /\ pc' = "done"
          /\ UNCHANGED <<query, best>>
      BY <2>1 DEF Finish
    <3>2. IInv' BY <2>1, FinishStep
    <3>3. \A p \in Points \ Kept : D(p) >= Worst
      <4>1. \A p : ~Pending(p)' BY <3>1, <3>2 DEF IInv, Control, Pending, UnderWay, Ahead
      <4>2. \A p \in Points : p \in Kept' \/ D(p)' >= Worst'
        BY <3>2, <4>1 DEF IInv, NothingLost
      <4>3. Kept' = Kept /\ Worst' = Worst /\ \A p : D(p)' = D(p) BY <3>1, SameBest
      <4> QED BY <4>2, <4>3
    <3>4. Kept \in Abstract!NearestSets(query) BY <3>3, KeptNearest DEF Once
    <3>5. Frauds = Abstract!FraudsIn(Kept)
      BY KeptCount, SameCardinality DEF IInv, Once, Abstract!FraudsIn
    <3>6. Frauds' = Frauds BY <3>1 DEF Frauds
    <3> QED BY <3>1, <3>4, <3>5, <3>6 DEF Abstract!Answer, Abstract!NoVerdict
  <2>2. CASE UNCHANGED vars
    <3>1. Frauds' = Frauds BY <2>2 DEF vars, Frauds
    <3> QED BY <2>2, <3>1 DEF vars, Abstract!vars
  <2>3. CASE \/ SearchPrimary \/ Collect \/ Probe \/ Prune \/ VisitLeaf
             \/ ScanPoint \/ ScanDone \/ Descend \/ Pop \/ Return
    <3>1. caller \in {"collect", "probe"} BY DEF IInv, TypeOK
    <3>2. pc # "done" /\ pc' # "done" /\ UNCHANGED query
      BY <2>3, <3>1 DEF SearchPrimary, Collect, Probe, Prune, VisitLeaf, ScanPoint,
                        ScanDone, Descend, Pop, Return, Search
    <3> QED BY <3>2 DEF Abstract!vars
  <2> QED BY <2>1, <2>2, <2>3 DEF Next
<1> QED BY <1>1, <1>2, OnceInvariant, PTL DEF Spec, Abstract!Safe
=============================================================================
