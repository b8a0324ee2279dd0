----------------------------- MODULE IvfProofs ------------------------------
(***************************************************************************)
(* Proofs about IvfSearch: on every index that has what IvfIndex asks of   *)
(* the builder, the probes are the clusters with the nearest centroids, no *)
(* point is counted twice, and only a unanimous verdict may be inexact.    *)
(***************************************************************************)
EXTENDS IvfSearch, FiniteSetTheorems, SequenceTheorems, TLAPS

IvfType ==
  /\ query \in Queries /\ label \in Labelings
  /\ best \in [1 .. TOP_K -> Points \cup {NoPoint}]
  /\ pc \in {"offer", "rise", "sink", "sort", "probe", "scan", "fast", "full", "done"}
  /\ caller \in {"offer", "sort", "probe", "fast", "full"}
  /\ probes \in Seq(1 .. K) /\ Len(probes) <= MAX_PROBES
  /\ size \in 0 .. Len(probes)
  /\ at \in Nat \ {0} /\ turn \in Nat \ {0}
  /\ cluster \in 1 .. K + 1 /\ current \in 1 .. K /\ lane \in Nat \ {0}

\* Places of the control, among them where a subroutine returns to.
Control ==
  /\ pc \in {"offer", "rise"} => size = Len(probes)
  /\ pc = "sink" => caller \in {"offer", "sort"} /\ at \in 1 .. size
  /\ pc = "sink" /\ caller = "offer" => size = Len(probes)
  /\ pc = "sink" /\ caller = "sort" => cluster = K + 1
  /\ pc = "rise" => at \in 1 .. size
  /\ pc = "sort" => cluster = K + 1
  /\ pc = "scan" => caller \in {"probe", "fast", "full"}
  /\ ~Choosing => size <= 1
  /\ Choosing => turn = 1

-----------------------------------------------------------------------------
(***************************************************************************)
(* The heap.                                                               *)
(***************************************************************************)
\* No entry is farther than its parent, but for the entry that rises and the
\* children of the one that sinks.
HeapOrder ==
  \A i \in 2 .. size :
    \/ C(probes[i]) <= C(probes[Parent(i)])
    \/ pc = "rise" /\ i = at
    \/ pc = "sink" /\ Parent(i) = at

\* Whatever takes the place of the moving entry fits between its neighbours.
HeapBridge ==
  pc \in {"rise", "sink"} /\ at > 1 =>
    \A i \in 2 .. size :
      Parent(i) = at => C(probes[i]) <= C(probes[Parent(at)])

\* What has left the heap is sorted, and no nearer than what is in it.
TailSorted ==
  \A i, j \in 1 .. Len(probes) :
    i < j /\ j > size => C(probes[i]) <= C(probes[j])

\* The clusters offered so far.
Offered == IF Choosing THEN 1 .. cluster - 1 ELSE 1 .. K

\* No cluster takes two places, and none without points takes one.
ChosenOnce ==
  /\ \A i \in 1 .. Len(probes) : probes[i] \in Offered /\ ~Empty(probes[i])
  /\ \A i, j \in 1 .. Len(probes) : probes[i] = probes[j] => i = j

\* What was refused or let go is no nearer than what is kept.
ChosenNearest ==
  \A c \in Offered : Empty(c) \/ Seen(c) \/
    (Full /\ \A i \in 1 .. Len(probes) : C(probes[i]) <= C(c))

HeapInv == HeapOrder /\ HeapBridge /\ TailSorted /\ ChosenOnce /\ ChosenNearest

-----------------------------------------------------------------------------
(***************************************************************************)
(* The scans.                                                              *)
(***************************************************************************)
BestSorted == \A i, j \in 1 .. TOP_K : i < j => D(best[i]) <= D(best[j])

Phase == IF pc = "scan" THEN caller ELSE pc

\* Clusters that are behind, or in hand.
Passed(c) ==
  \/ Phase \in {"probe", "fast"}
     /\ \E i \in 1 .. Len(probes) : i < turn /\ probes[i] = c
  \/ Phase = "full" /\ (Seen(c) \/ (c < cluster))

\* Points that were looked at, or skipped with their cluster.
Met(p) ==
  \/ \E c \in 1 .. K : p \in Members(c) /\ Passed(c) /\ ~(pc = "scan" /\ c = current)
  \/ pc = "scan" /\ \E i \in 1 .. Len(Cluster[current]) :
                       i < lane /\ Cluster[current][i] = p

\* A point that was met is kept, or too far for ever.
MetCounts == pc # "done" => \A p \in Points : Met(p) => p \in Kept \/ D(p) >= Worst

\* What is not met is not among the kept.
KeptMet == pc # "done" => \A p \in Kept : Met(p)

ScanPlace ==
  /\ pc = "scan" => Passed(current) /\ lane <= Len(Cluster[current]) + 1
  /\ pc = "probe" => turn <= Initial + 1
  /\ Phase = "probe" => turn <= Initial + 1

ScanInv ==
  /\ BestSorted /\ CountedOnce /\ MetCounts /\ KeptMet /\ ScanPlace
  /\ InexactOnlyIfUnanimous


-----------------------------------------------------------------------------
(***************************************************************************)
(* Sets of places.                                                         *)
(***************************************************************************)
\* A part of 1..n that has what is below each of its members is 1..k.
LEMMA InitialSegment ==
  ASSUME NEW n \in Nat, NEW S \in SUBSET (1 .. n),
         \A i \in S : \A j \in 1 .. i : j \in S
  PROVE  Cardinality(S) \in 0 .. n /\ S = 1 .. Cardinality(S)
<1> DEFINE k == Cardinality(S)
<1>1. IsFiniteSet(1 .. n) /\ Cardinality(1 .. n) = n BY FS_Interval
<1>2. IsFiniteSet(S) /\ k <= n BY <1>1, FS_Subset
<1>3. k \in Nat BY <1>2, FS_CardinalityType
<1>4. IsFiniteSet(1 .. k) /\ Cardinality(1 .. k) = k BY <1>3, FS_Interval
<1>5. S \subseteq 1 .. k
  <2> SUFFICES ASSUME NEW i \in S PROVE i \in 1 .. k OBVIOUS
  <2>1. i \in 1 .. n /\ (1 .. i) \in SUBSET S OBVIOUS
  <2>2. Cardinality(1 .. i) <= k BY <1>2, <2>1, FS_Subset
  <2>3. Cardinality(1 .. i) = i BY <2>1, FS_Interval
  <2> QED BY <1>3, <2>1, <2>2, <2>3
<1>6. S = 1 .. k BY <1>4, <1>5, FS_Subset
<1> QED BY <1>2, <1>3, <1>6

\* A set of places has a first: the places before all of it are 1..k.
LEMMA LeastOf ==
  ASSUME NEW n \in Nat, NEW T \in SUBSET (1 .. n), T # {}
  PROVE  \E i \in T : \A j \in T : i <= j
<1> DEFINE before == {i \in 1 .. n : \A j \in 1 .. i : j \notin T}
           k == Cardinality(before)
<1>1. before \in SUBSET (1 .. n) OBVIOUS
<1>2. \A i \in before : \A j \in 1 .. i : j \in before OBVIOUS
<1>3. k \in 0 .. n /\ before = 1 .. k
  <2> HIDE DEF before
  <2> QED BY <1>1, <1>2, InitialSegment
<1> HIDE DEF k
<1>4. \A j \in 1 .. k : j \notin T
  <2> SUFFICES ASSUME NEW j \in 1 .. k PROVE j \notin T OBVIOUS
  <2>1. j \in before BY <1>3
  <2> QED BY <2>1
<1>5. k < n
  <2>1. PICK t \in T : TRUE OBVIOUS
  <2>2. t \in 1 .. n OBVIOUS
  <2>3. k # n BY <1>4, <2>1, <2>2
  <2> QED BY <1>3, <2>3
<1>6. k + 1 \notin before /\ k + 1 \in 1 .. n BY <1>3, <1>5
<1>7. k + 1 \in T BY <1>3, <1>4, <1>6
<1> QED BY <1>3, <1>4, <1>7

-----------------------------------------------------------------------------
(***************************************************************************)
(* Heaps, as functions from places to distances.                           *)
(***************************************************************************)
LEMMA ParentOf ==
  ASSUME NEW i \in Nat, i >= 2
  PROVE  Parent(i) \in 1 .. i - 1 /\ (i = 2 * Parent(i) \/ i = 2 * Parent(i) + 1)
BY DEF Parent

LEMMA ChildrenOf ==
  ASSUME NEW i \in Nat
  PROVE  Parent(2 * i) = i /\ Parent(2 * i + 1) = i
BY DEF Parent

\* One turn of heap_sift_up.
LEMMA RiseKeeps ==
  ASSUME NEW n \in Nat, NEW d \in [1 .. n -> Nat], NEW a \in 2 .. n,
         NEW e \in [1 .. n -> Nat],
         \A i \in 2 .. n : i = a \/ d[i] <= d[Parent(i)],
         \A i \in 2 .. n : Parent(i) = a => d[i] <= d[Parent(a)],
         d[a] > d[Parent(a)],
         \A i \in 1 .. n : e[i] = IF i = a THEN d[Parent(a)]
                                  ELSE IF i = Parent(a) THEN d[a] ELSE d[i]
  PROVE  /\ \A i \in 2 .. n : i = Parent(a) \/ e[i] <= e[Parent(i)]
         /\ Parent(a) > 1 => \A i \in 2 .. n :
              Parent(i) = Parent(a) => e[i] <= e[Parent(Parent(a))]
<1> DEFINE p == Parent(a)
<1>1. p \in 1 .. a - 1 /\ a \in 1 .. n /\ p \in 1 .. n BY ParentOf
<1>2. \A i \in 2 .. n : i \in 1 .. n /\ Parent(i) \in 1 .. n /\ Parent(i) < i
  <2> SUFFICES ASSUME NEW i \in 2 .. n
               PROVE i \in 1 .. n /\ Parent(i) \in 1 .. n /\ Parent(i) < i
    OBVIOUS
  <2>1. Parent(i) \in 1 .. i - 1 BY ParentOf
  <2> QED BY <2>1
<1>3. \A i \in 1 .. n : d[i] \in Nat /\ e[i] \in Nat OBVIOUS
<1>4. \A i \in 2 .. n : i = a \/ d[i] <= d[Parent(i)] OBVIOUS
<1>5. \A i \in 2 .. n : Parent(i) = a => d[i] <= d[p] OBVIOUS
<1>6. d[a] > d[p] OBVIOUS
<1>7. \A i \in 1 .. n : e[i] = IF i = a THEN d[p] ELSE IF i = p THEN d[a] ELSE d[i]
  OBVIOUS
<1> HIDE DEF p
<1>8. ASSUME NEW i \in 2 .. n, i # p PROVE e[i] <= e[Parent(i)]
  <2>0. i \in 1 .. n /\ Parent(i) \in 1 .. n /\ Parent(i) < i BY <1>2
  <2>1. CASE i = a
    <3>1. e[i] = d[p] /\ e[Parent(i)] = d[a] BY <1>1, <1>7, <2>0, <2>1 DEF p
    <3> QED BY <1>1, <1>3, <1>6, <3>1
  <2>2. CASE i # a /\ Parent(i) = p
    <3>1. e[i] = d[i] /\ e[Parent(i)] = d[a] /\ d[i] <= d[p]
      BY <1>1, <1>4, <1>7, <1>8, <2>0, <2>2
    <3> QED BY <1>1, <1>3, <1>6, <2>0, <3>1
  <2>3. CASE i # a /\ Parent(i) = a
    <3>1. e[i] = d[i] /\ e[Parent(i)] = d[p] BY <1>1, <1>7, <1>8, <2>0, <2>3
    <3> QED BY <1>5, <2>3, <3>1
  <2>4. CASE i # a /\ Parent(i) # p /\ Parent(i) # a
    <3>1. e[i] = d[i] /\ e[Parent(i)] = d[Parent(i)] BY <1>7, <1>8, <2>0, <2>4
    <3> QED BY <1>4, <2>4, <3>1
  <2> QED BY <2>1, <2>2, <2>3, <2>4
<1>9. ASSUME p > 1, NEW i \in 2 .. n, Parent(i) = p PROVE e[i] <= e[Parent(p)]
  <2>1. p \in 2 .. n /\ Parent(p) \in 1 .. n /\ Parent(p) < p BY <1>1, <1>2, <1>9
  <2>2. e[Parent(p)] = d[Parent(p)] BY <1>1, <1>7, <2>1
  <2>3. d[p] <= d[Parent(p)] BY <1>1, <1>4, <2>1
  <2>4. e[i] <= d[p]
    <3>1. i \in 1 .. n /\ p < i BY <1>2, <1>9
    <3>2. CASE i = a BY <1>1, <1>3, <1>7, <3>1, <3>2
    <3>3. CASE i # a
      <4>1. e[i] = d[i] /\ d[i] <= d[Parent(i)]
        BY <1>1, <1>4, <1>7, <3>1, <3>3
      <4> QED BY <1>9, <4>1
    <3> QED BY <3>2, <3>3
  <2>5. e[i] \in Nat /\ d[p] \in Nat /\ d[Parent(p)] \in Nat BY <1>1, <1>2, <1>3, <2>1
  <2> QED BY <2>2, <2>3, <2>4, <2>5
<1> QED BY <1>8, <1>9 DEF p

\* One turn of heap_sift_down.
LEMMA SinkKeeps ==
  ASSUME NEW n \in Nat, NEW d \in [1 .. n -> Nat], NEW a \in 1 .. n,
         NEW j \in 2 .. n, Parent(j) = a, NEW e \in [1 .. n -> Nat],
         d[j] > d[a], \A i \in 2 .. n : Parent(i) = a => d[i] <= d[j],
         \A i \in 2 .. n : Parent(i) = a \/ d[i] <= d[Parent(i)],
         a > 1 => \A i \in 2 .. n : Parent(i) = a => d[i] <= d[Parent(a)],
         \A i \in 1 .. n : e[i] = IF i = a THEN d[j] ELSE IF i = j THEN d[a] ELSE d[i]
  PROVE  /\ \A i \in 2 .. n : Parent(i) = j \/ e[i] <= e[Parent(i)]
         /\ \A i \in 2 .. n : Parent(i) = j => e[i] <= e[Parent(j)]
<1>1. a < j /\ j \in 1 .. n BY ParentOf
<1>2. \A i \in 2 .. n : i \in 1 .. n /\ Parent(i) \in 1 .. n /\ Parent(i) < i
  <2> SUFFICES ASSUME NEW i \in 2 .. n
               PROVE i \in 1 .. n /\ Parent(i) \in 1 .. n /\ Parent(i) < i
    OBVIOUS
  <2>1. Parent(i) \in 1 .. i - 1 BY ParentOf
  <2> QED BY <2>1
<1>3. \A i \in 1 .. n : d[i] \in Nat /\ e[i] \in Nat OBVIOUS
<1>4. ASSUME NEW i \in 2 .. n, Parent(i) # j PROVE e[i] <= e[Parent(i)]
  <2>0. i \in 1 .. n /\ Parent(i) \in 1 .. n /\ Parent(i) < i BY <1>2
  <2>1. CASE i = j
    <3>1. e[i] = d[a] /\ e[Parent(i)] = d[j] BY <1>1, <2>0, <2>1
    <3> QED BY <1>1, <1>3, <3>1
  <2>2. CASE i # j /\ Parent(i) = a
    <3>1. e[i] = d[i] /\ e[Parent(i)] = d[j] BY <2>0, <2>2
    <3> QED BY <2>2, <3>1
  <2>3. CASE i = a
    <3>1. e[i] = d[j] /\ e[Parent(i)] = d[Parent(a)] BY <1>1, <1>4, <2>0, <2>3
    <3>2. d[j] <= d[Parent(a)] BY <2>3
    <3> QED BY <3>1, <3>2
  <2>4. CASE i # j /\ i # a /\ Parent(i) # a
    <3>1. e[i] = d[i] /\ e[Parent(i)] = d[Parent(i)] BY <1>4, <2>0, <2>4
    <3> QED BY <2>4, <3>1
  <2> QED BY <2>1, <2>2, <2>3, <2>4
<1>5. ASSUME NEW i \in 2 .. n, Parent(i) = j PROVE e[i] <= e[Parent(j)]
  <2>1. i \in 1 .. n /\ j < i BY <1>2, <1>5
  <2>2. e[i] = d[i] /\ e[Parent(j)] = d[j] BY <1>1, <2>1
  <2>3. d[i] <= d[Parent(i)] BY <1>1, <1>5
  <2> QED BY <1>5, <2>2, <2>3
<1> QED BY <1>4, <1>5

\* The top of a heap is the farthest: a least entry that is farther would
\* have a parent that is farther.
LEMMA HeapTop ==
  ASSUME NEW n \in Nat, NEW d \in [1 .. n -> Nat],
         \A i \in 2 .. n : d[i] <= d[Parent(i)]
  PROVE  \A i \in 1 .. n : d[i] <= d[1]
<1> DEFINE T == {i \in 1 .. n : d[i] > d[1]}
<1>1. \A i \in 1 .. n : d[i] \in Nat OBVIOUS
<1>2. \A i \in 2 .. n : Parent(i) \in 1 .. n /\ Parent(i) < i
  <2> SUFFICES ASSUME NEW i \in 2 .. n PROVE Parent(i) \in 1 .. n /\ Parent(i) < i
    OBVIOUS
  <2>1. Parent(i) \in 1 .. i - 1 BY ParentOf
  <2> QED BY <2>1
<1>3. SUFFICES T = {}
  <2>1. \A i \in 1 .. n : i \notin T BY <1>3
  <2>2. \A i \in 1 .. n : ~(d[i] > d[1]) BY <2>1
  <2> QED BY <1>1, <2>2
<1>4. SUFFICES ASSUME T # {} PROVE FALSE OBVIOUS
<1>5. PICK i \in T : \A j \in T : i <= j
  <2> HIDE DEF T
  <2>1. T \in SUBSET (1 .. n) BY DEF T
  <2> QED BY <1>4, <2>1, LeastOf
<1>6. i \in 1 .. n /\ d[i] > d[1] OBVIOUS
<1>7. i \in 2 .. n BY <1>1, <1>6
<1>8. Parent(i) \in T BY <1>1, <1>2, <1>6, <1>7
<1> QED BY <1>2, <1>5, <1>7, <1>8

-----------------------------------------------------------------------------
(***************************************************************************)
(* The heap of probes.                                                     *)
(***************************************************************************)
LEMMA SwappedIs ==
  ASSUME NEW S, NEW h \in Seq(S), NEW i \in 1 .. Len(h), NEW j \in 1 .. Len(h)
  PROVE  Swapped(h, i, j) \in Seq(S) /\ Len(Swapped(h, i, j)) = Len(h)
<1> DEFINE g == [h EXCEPT ![i] = h[j]]
<1>1. h[i] \in S /\ h[j] \in S BY ElementOfSeq
<1>2. g \in Seq(S) /\ Len(g) = Len(h) BY <1>1, ExceptSeq
<1>3. Swapped(h, i, j) = [g EXCEPT ![j] = h[i]] BY DEF Swapped
<1> HIDE DEF g
<1>4. j \in 1 .. Len(g) BY <1>2
<1>5. [g EXCEPT ![j] = h[i]] \in Seq(S) /\ Len([g EXCEPT ![j] = h[i]]) = Len(g)
  BY <1>1, <1>2, <1>4, ExceptSeq
<1> QED BY <1>2, <1>3, <1>5

LEMMA SwappedAt ==
  ASSUME NEW S, NEW h \in Seq(S), NEW i \in 1 .. Len(h), NEW j \in 1 .. Len(h),
         NEW m \in 1 .. Len(h)
  PROVE  Swapped(h, i, j)[m] = IF m = j THEN h[i] ELSE IF m = i THEN h[j] ELSE h[m]
<1>1. h[i] \in S /\ h[j] \in S BY ElementOfSeq
<1>2. DOMAIN h = 1 .. Len(h) OBVIOUS
<1> QED BY <1>2 DEF Swapped

LEMMA CentroidNat ==
  ASSUME IvfType
  PROVE  /\ \A c \in 1 .. K : C(c) \in Nat
         /\ Len(probes) \in Nat /\ size \in Nat /\ size <= Len(probes)
         /\ \A i \in 1 .. Len(probes) : probes[i] \in 1 .. K /\ C(probes[i]) \in Nat
<1>1. CentroidDist[query] \in [1 .. K -> Nat] BY IvfConstants DEF IvfType
<1>2. \A c \in 1 .. K : C(c) \in Nat BY <1>1 DEF C
<1>3. probes \in Seq(1 .. K) BY DEF IvfType
<1>4. Len(probes) \in Nat BY <1>3
<1>5. \A i \in 1 .. Len(probes) : probes[i] \in 1 .. K BY <1>3, ElementOfSeq
<1> QED BY <1>2, <1>4, <1>5 DEF IvfType

\* heap_sift_down finds the farthest of an entry and its children.
LEMMA LargestIs ==
  ASSUME IvfType, NEW a \in 1 .. size
  PROVE  /\ Largest(a) \in 1 .. size
         /\ Largest(a) # a => Parent(Largest(a)) = a /\ Largest(a) \in 2 .. size
                              /\ C(probes[a]) < C(probes[Largest(a)])
         /\ \A i \in 2 .. size : Parent(i) = a => C(probes[i]) <= C(probes[Largest(a)])
<1> DEFINE f(m) == C(probes[m])
           family == {m \in {a, 2 * a, 2 * a + 1} : m <= size}
           Best(m) == \A o \in family : f(o) < f(m) \/ (f(o) = f(m) /\ m <= o)
<1>1. size \in Nat /\ \A m \in 1 .. size : f(m) \in Nat
  <2>1. size \in Nat /\ \A m \in 1 .. size : m \in 1 .. Len(probes) BY CentroidNat
  <2> QED BY <2>1, CentroidNat
<1>2. \A m \in family : m \in 1 .. size
  BY <1>1
<1>3. Largest(a) = CHOOSE m \in family : Best(m) BY DEF Largest
<1> HIDE DEF f
<1>4. \E m \in family : Best(m)
  <2>1. CASE 2 * a > size
    <3>1. \A m \in family : m = a BY <1>1, <2>1
    <3>2. a \in family BY <1>1
    <3> QED BY <1>1, <3>1, <3>2
  <2>2. CASE 2 * a <= size /\ 2 * a + 1 > size
    <3>1. a \in family /\ 2 * a \in family /\ \A m \in family : m = a \/ m = 2 * a
      BY <1>1, <2>2
    <3>2. f(a) \in Nat /\ f(2 * a) \in Nat BY <1>1, <1>2, <3>1
    <3>3. CASE f(2 * a) > f(a)
      <4>1. Best(2 * a) BY <3>1, <3>2, <3>3
      <4> QED BY <3>1, <4>1
    <3>4. CASE ~(f(2 * a) > f(a))
      <4>1. Best(a) BY <3>1, <3>2, <3>4
      <4> QED BY <3>1, <4>1
    <3> QED BY <3>3, <3>4
  <2>3. CASE 2 * a + 1 <= size
    <3>1. a \in family /\ 2 * a \in family /\ 2 * a + 1 \in family
          /\ \A m \in family : m = a \/ m = 2 * a \/ m = 2 * a + 1
      BY <1>1, <2>3
    <3>2. f(a) \in Nat /\ f(2 * a) \in Nat /\ f(2 * a + 1) \in Nat BY <1>1, <1>2, <3>1
    <3>3. CASE f(2 * a) > f(a) /\ f(2 * a + 1) <= f(2 * a)
      <4>1. Best(2 * a) BY <3>1, <3>2, <3>3
      <4> QED BY <3>1, <4>1
    <3>4. CASE f(2 * a + 1) > f(a) /\ f(2 * a + 1) > f(2 * a)
      <4>1. Best(2 * a + 1) BY <3>1, <3>2, <3>4
      <4> QED BY <3>1, <4>1
    <3>5. CASE f(2 * a) <= f(a) /\ f(2 * a + 1) <= f(a)
      <4>1. Best(a) BY <3>1, <3>2, <3>5
      <4> QED BY <3>1, <4>1
    <3> QED BY <3>2, <3>3, <3>4, <3>5
  <2> QED BY <1>1, <2>1, <2>2, <2>3
<1>5. Largest(a) \in family /\ Best(Largest(a)) BY <1>3, <1>4
<1> DEFINE j == Largest(a)
<1> HIDE DEF j
<1>6. j \in family /\ Best(j) BY <1>5 DEF j
<1>7. j \in 1 .. size BY <1>2, <1>6
<1>8. j # a => Parent(j) = a /\ j \in 2 .. size /\ f(a) < f(j)
  <2> SUFFICES ASSUME j # a PROVE Parent(j) = a /\ j \in 2 .. size /\ f(a) < f(j)
    OBVIOUS
  <2>1. j = 2 * a \/ j = 2 * a + 1 BY <1>6
  <2>2. Parent(j) = a BY <2>1, ChildrenOf
  <2>3. j > a BY <2>1
  <2>4. a \in family BY <1>1
  <2> QED BY <1>6, <1>7, <2>2, <2>3, <2>4
<1>9. \A i \in 2 .. size : Parent(i) = a => f(i) <= f(j)
  <2> SUFFICES ASSUME NEW i \in 2 .. size, Parent(i) = a PROVE f(i) <= f(j)
    OBVIOUS
  <2>1. i = 2 * a \/ i = 2 * a + 1 BY ParentOf
  <2>2. i \in family BY <2>1
  <2>3. f(i) \in Nat /\ f(j) \in Nat BY <1>1, <1>7
  <2> QED BY <1>6, <2>2, <2>3
<1> QED BY <1>7, <1>8, <1>9 DEF f, j

\* Two entries that change places are the same clusters as before.
LEMMA SwapChosen ==
  ASSUME IvfType, NEW i \in 1 .. Len(probes), NEW j \in 1 .. Len(probes),
         probes' = Swapped(probes, i, j), query' = query
  PROVE  /\ probes' \in Seq(1 .. K) /\ Len(probes') = Len(probes)
         /\ \A m \in 1 .. Len(probes) : probes'[m] =
              IF m = j THEN probes[i] ELSE IF m = i THEN probes[j] ELSE probes[m]
         /\ \A m \in 1 .. Len(probes) : C(probes[m])' =
              IF m = j THEN C(probes[i]) ELSE IF m = i THEN C(probes[j]) ELSE C(probes[m])
         /\ ChosenOnce /\ Offered' = Offered => ChosenOnce'
         /\ ChosenNearest /\ Offered' = Offered => ChosenNearest'
<1>1. probes \in Seq(1 .. K) BY DEF IvfType
<1>2. /\ probes' \in Seq(1 .. K) /\ Len(probes') = Len(probes)
      /\ \A m \in 1 .. Len(probes) : probes'[m] =
           IF m = j THEN probes[i] ELSE IF m = i THEN probes[j] ELSE probes[m]
  <2> DEFINE T == 1 .. K
             g == Swapped(probes, i, j)
  <2>1. probes \in Seq(T) BY <1>1
  <2> HIDE DEF T
  <2>2. g \in Seq(T) /\ Len(g) = Len(probes) BY <2>1, SwappedIs
  <2>3. ASSUME NEW m \in 1 .. Len(probes)
        PROVE  g[m] = IF m = j THEN probes[i] ELSE IF m = i THEN probes[j] ELSE probes[m]
    BY <2>1, SwappedAt
  <2> QED BY <2>2, <2>3 DEF T
<1>3. \A c : C(c)' = C(c) BY DEF C
<1>4. \A m \in 1 .. Len(probes) : C(probes[m])' =
        IF m = j THEN C(probes[i]) ELSE IF m = i THEN C(probes[j]) ELSE C(probes[m])
  BY <1>2 DEF C
<1>5. ASSUME ChosenOnce, Offered' = Offered PROVE ChosenOnce'
  <2>1. \A m \in 1 .. Len(probes) : probes[m] \in Offered /\ ~Empty(probes[m])
    BY <1>5 DEF ChosenOnce
  <2>2. \A m, o \in 1 .. Len(probes) : probes[m] = probes[o] => m = o
    BY <1>5 DEF ChosenOnce
  <2>3. \A m \in 1 .. Len(probes') : probes'[m] \in Offered' /\ ~Empty(probes'[m])
    BY <1>2, <1>5, <2>1
  <2>4. \A m, o \in 1 .. Len(probes') : probes'[m] = probes'[o] => m = o
    BY <1>2, <2>2
  <2> QED BY <2>3, <2>4 DEF ChosenOnce, Empty
<1>6. \A c : Seen(c) => Seen(c)'
  <2> SUFFICES ASSUME NEW c, NEW m \in 1 .. Len(probes), probes[m] = c PROVE Seen(c)'
    BY DEF Seen
  <2>1. CASE m = i
    <3>1. probes'[j] = c BY <1>2, <2>1
    <3> QED BY <1>2, <3>1 DEF Seen
  <2>2. CASE m = j
    <3>1. probes'[i] = c BY <1>2, <2>2
    <3> QED BY <1>2, <3>1 DEF Seen
  <2>3. CASE m # i /\ m # j
    <3>1. probes'[m] = c BY <1>2, <2>3
    <3> QED BY <1>2, <3>1 DEF Seen
  <2> QED BY <2>1, <2>2, <2>3
<1>7. ASSUME ChosenNearest, Offered' = Offered PROVE ChosenNearest'
  <2> SUFFICES ASSUME NEW c \in Offered, ~Empty(c), ~Seen(c)'
               PROVE  Full' /\ \A m \in 1 .. Len(probes') : C(probes[m])' <= C(c)'
    BY <1>7 DEF ChosenNearest, Empty
  <2>1. Full /\ \A m \in 1 .. Len(probes) : C(probes[m]) <= C(c)
    BY <1>6, <1>7 DEF ChosenNearest
  <2>2. Full' BY <1>2, <2>1 DEF Full
  <2> QED BY <1>2, <1>3, <1>4, <2>1, <2>2
<1> QED BY <1>2, <1>4, <1>5, <1>7

LEMMA TopFarthest ==
  ASSUME IvfType, HeapOrder, pc \notin {"rise", "sink"}
  PROVE  \A i \in 1 .. size : C(probes[i]) <= C(probes[1])
<1> DEFINE d == [i \in 1 .. size |-> C(probes[i])]
<1>1. size \in Nat /\ \A i \in 1 .. size : i \in 1 .. Len(probes) BY CentroidNat
<1>2. d \in [1 .. size -> Nat] BY <1>1, CentroidNat
<1>3. ASSUME NEW i \in 2 .. size PROVE d[i] <= d[Parent(i)]
  <2>1. Parent(i) \in 1 .. i - 1 BY ParentOf
  <2>2. i \in 1 .. size /\ Parent(i) \in 1 .. size BY <1>1, <2>1
  <2> QED BY <2>2 DEF HeapOrder
<1>4. \A i \in 1 .. size : d[i] <= d[1]
  <2> HIDE DEF d
  <2> QED BY <1>1, <1>2, <1>3, HeapTop
<1>5. \A i \in 1 .. size : 1 \in 1 .. size BY <1>1
<1> QED BY <1>4, <1>5

LEMMA SizeNat ==
  ASSUME IvfType
  PROVE  /\ K \in Nat \ {0} /\ MAX_PROBES \in Nat \ {0}
         /\ Len(probes) \in 0 .. MAX_PROBES /\ size \in 0 .. Len(probes)
         /\ \A c \in 1 .. K : Cluster[c] \in Seq(Points)
<1>1. probes \in Seq(1 .. K) BY DEF IvfType
<1>2. Len(probes) \in Nat BY <1>1
<1> QED BY <1>2, IvfConstants DEF IvfType

ChoiceInv == IvfType /\ Control /\ HeapInv

LEMMA InitChoice == Init => ChoiceInv
<1> SUFFICES ASSUME Init PROVE ChoiceInv OBVIOUS
<1>1. Len(probes) = 0 /\ probes \in Seq(1 .. K) BY DEF Init
<1>2. IvfType BY <1>1, IvfConstants DEF Init, IvfType
<1>3. Control BY <1>1 DEF Init, Control, Choosing
<1>4. HeapInv
  BY <1>1, IvfConstants DEF Init, HeapInv, HeapOrder, HeapBridge, TailSorted,
     ChosenOnce, ChosenNearest, Offered, Choosing
<1> QED BY <1>2, <1>3, <1>4 DEF ChoiceInv

\* Nothing of the choice changes where no entry moves.
LEMMA SameHeap ==
  ASSUME HeapInv, UNCHANGED <<query, heap>>, Offered' = Offered,
         pc \notin {"rise", "sink"}, pc' \notin {"rise", "sink"}
  PROVE  HeapInv'
<1>1. probes' = probes /\ size' = size /\ at' = at /\ query' = query BY DEF heap
<1>2. HeapOrder' /\ HeapBridge' /\ TailSorted'
  BY <1>1 DEF HeapInv, HeapOrder, HeapBridge, TailSorted, C
<1>3. ChosenOnce' /\ ChosenNearest'
  BY <1>1 DEF HeapInv, ChosenOnce, ChosenNearest, Seen, Full, Empty, C
<1> QED BY <1>2, <1>3 DEF HeapInv

LEMMA SkipStep == ChoiceInv /\ Skip => ChoiceInv'
<1> SUFFICES ASSUME ChoiceInv, Skip PROVE ChoiceInv' OBVIOUS
<1> USE DEF ChoiceInv
<1>1. /\ pc = "offer" /\ cluster <= K /\ cluster' = cluster + 1
      /\ Empty(cluster) \/ (Full /\ C(cluster) >= C(probes[1]))
      /\ UNCHANGED <<query, label, best, pc, caller, probes, size, at>>
      /\ UNCHANGED <<turn, current, lane>>
  BY DEF Skip, index, heap, scan
<1>2. cluster \in 1 .. K /\ cluster + 1 \in 1 .. K + 1 BY <1>1, SizeNat DEF IvfType
<1>3. IvfType' BY <1>1, <1>2 DEF IvfType
<1>4. Control' BY <1>1 DEF Control, Choosing
<1>5. HeapOrder' /\ HeapBridge' /\ TailSorted'
  BY <1>1 DEF HeapInv, HeapOrder, HeapBridge, TailSorted, C
<1>6. Offered = 1 .. cluster - 1 /\ Offered' = 1 .. cluster
  BY <1>1, <1>2 DEF Offered, Choosing
<1>7. Offered' = Offered \cup {cluster} BY <1>2, <1>6
<1>8. ChosenOnce' BY <1>1, <1>7 DEF HeapInv, ChosenOnce, Empty
<1>9. ChosenNearest'
  <2> SUFFICES ASSUME NEW c \in Offered', ~Empty(c), ~Seen(c)
               PROVE  Full /\ \A i \in 1 .. Len(probes) : C(probes[i]) <= C(c)
    BY <1>1 DEF ChosenNearest, Empty, Seen, Full, C
  <2>1. CASE c \in Offered BY <2>1 DEF HeapInv, ChosenNearest
  <2>2. CASE c = cluster
    <3>1. size = Len(probes) BY <1>1 DEF Control
    <3>2. \A i \in 1 .. Len(probes) : C(probes[i]) <= C(probes[1])
      BY <1>1, <3>1, TopFarthest DEF HeapInv
    <3>3. \A i \in 1 .. Len(probes) : 1 \in 1 .. Len(probes) BY SizeNat
    <3> QED BY <1>1, <1>2, <2>2, <3>2, <3>3, CentroidNat
  <2> QED BY <1>7, <2>1, <2>2
<1> QED BY <1>3, <1>4, <1>5, <1>8, <1>9 DEF HeapInv

LEMMA PushStep == ChoiceInv /\ Push => ChoiceInv'
<1> SUFFICES ASSUME ChoiceInv, Push PROVE ChoiceInv' OBVIOUS
<1> USE DEF ChoiceInv
<1>1. /\ pc = "offer" /\ pc' = "rise" /\ cluster <= K /\ ~Empty(cluster) /\ ~Full
      /\ probes' = Append(probes, cluster)
      /\ size' = size + 1 /\ at' = size + 1 /\ cluster' = cluster + 1
      /\ UNCHANGED <<query, label, best, caller, turn, current, lane>>
  BY DEF Push, index, scan
<1>2. cluster \in 1 .. K /\ cluster + 1 \in 1 .. K + 1 BY <1>1, SizeNat DEF IvfType
<1> DEFINE n == Len(probes)
<1>3. n \in Nat /\ size = n /\ n < MAX_PROBES /\ MAX_PROBES \in Nat
  BY <1>1, SizeNat DEF Control, Full
<1>4. probes \in Seq(1 .. K) BY DEF IvfType
<1>5. probes' \in Seq(1 .. K) /\ Len(probes') = n + 1 BY <1>1, <1>2, <1>4
<1>6. \A i \in 1 .. n : probes'[i] = probes[i] BY <1>1, <1>4
<1>7. probes'[n + 1] = cluster BY <1>1, <1>4
<1> HIDE DEF n
<1>8. IvfType' BY <1>1, <1>2, <1>3, <1>5 DEF IvfType
<1>9. Control' BY <1>1, <1>3, <1>5 DEF Control, Choosing
<1>10. \A i \in 1 .. n : C(probes[i])' = C(probes[i]) BY <1>1, <1>6 DEF C
<1>11. HeapOrder'
  <2> SUFFICES ASSUME NEW i \in 2 .. n + 1, i # n + 1
               PROVE  C(probes[i])' <= C(probes[Parent(i)])'
    BY <1>1, <1>3 DEF HeapOrder
  <2>1. i \in 2 .. n BY <1>3
  <2>2. Parent(i) \in 1 .. i - 1 BY ParentOf
  <2>3. i \in 1 .. n /\ Parent(i) \in 1 .. n BY <1>3, <2>1, <2>2
  <2>4. C(probes[i]) <= C(probes[Parent(i)])
    BY <1>1, <1>3, <2>1 DEF HeapInv, HeapOrder
  <2> QED BY <1>10, <2>3, <2>4
<1>12. HeapBridge'
  <2> SUFFICES ASSUME NEW i \in 2 .. n + 1, Parent(i) = n + 1 PROVE FALSE
    BY <1>1, <1>3 DEF HeapBridge
  <2>1. Parent(i) \in 1 .. i - 1 BY ParentOf
  <2> QED BY <1>3, <2>1
<1>13. TailSorted' BY <1>1, <1>3, <1>5 DEF TailSorted
<1>14. Offered = 1 .. cluster - 1 /\ Offered' = 1 .. cluster
  BY <1>1, <1>2 DEF Offered, Choosing
<1>15. Offered' = Offered \cup {cluster} /\ cluster \notin Offered BY <1>2, <1>14
<1>16. \A i \in 1 .. n : probes[i] \in Offered /\ ~Empty(probes[i])
  BY DEF HeapInv, ChosenOnce, n
<1>17. \A i \in 1 .. n + 1 : i \in 1 .. n \/ i = n + 1 BY <1>3
<1>18. ChosenOnce'
  <2>1. \A i \in 1 .. n + 1 : probes'[i] \in Offered' /\ ~Empty(probes'[i])
    BY <1>1, <1>6, <1>7, <1>15, <1>16, <1>17
  <2>2. \A i, j \in 1 .. n : probes[i] = probes[j] => i = j
    BY DEF HeapInv, ChosenOnce, n
  <2>3. \A i, j \in 1 .. n + 1 : probes'[i] = probes'[j] => i = j
    BY <1>6, <1>7, <1>15, <1>16, <1>17, <2>2
  <2> QED BY <1>5, <2>1, <2>3 DEF ChosenOnce, Empty
<1>19. ChosenNearest'
  <2> SUFFICES ASSUME NEW c \in Offered', ~Empty(c) PROVE Seen(c)'
    BY DEF ChosenNearest, Empty
  <2>1. CASE c = cluster
    <3>1. n + 1 \in 1 .. Len(probes') BY <1>3, <1>5
    <3> QED BY <1>7, <2>1, <3>1 DEF Seen
  <2>2. CASE c \in Offered
    <3>1. Seen(c) BY <1>1, <2>2 DEF HeapInv, ChosenNearest
    <3>2. PICK i \in 1 .. n : probes[i] = c BY <3>1 DEF Seen, n
    <3>3. i \in 1 .. Len(probes') BY <1>3, <1>5
    <3> QED BY <1>6, <3>2, <3>3 DEF Seen
  <2> QED BY <1>15, <2>1, <2>2
<1> QED BY <1>8, <1>9, <1>11, <1>12, <1>13, <1>18, <1>19 DEF HeapInv

LEMMA ReplaceStep == ChoiceInv /\ Replace => ChoiceInv'
<1> SUFFICES ASSUME ChoiceInv, Replace PROVE ChoiceInv' OBVIOUS
<1> USE DEF ChoiceInv
<1>1. /\ pc = "offer" /\ pc' = "sink" /\ caller' = "offer" /\ cluster <= K
      /\ ~Empty(cluster) /\ Full /\ C(cluster) < C(probes[1])
      /\ probes' = [probes EXCEPT ![1] = cluster]
      /\ at' = 1 /\ cluster' = cluster + 1
      /\ UNCHANGED <<query, label, best, size, turn, current, lane>>
  BY DEF Replace, index, scan
<1>2. cluster \in 1 .. K /\ cluster + 1 \in 1 .. K + 1 BY <1>1, SizeNat DEF IvfType
<1> DEFINE n == Len(probes)
<1>3. n \in Nat \ {0} /\ size = n /\ n = MAX_PROBES
  BY <1>1, SizeNat DEF Control, Full
<1>4. probes \in Seq(1 .. K) BY DEF IvfType
<1>5. /\ probes' \in Seq(1 .. K) /\ Len(probes') = n
      /\ \A i \in 1 .. n : probes'[i] = IF i = 1 THEN cluster ELSE probes[i]
  <2> DEFINE T == 1 .. K
             g == [probes EXCEPT ![1] = cluster]
  <2>1. probes \in Seq(T) /\ cluster \in T /\ 1 \in 1 .. Len(probes)
    BY <1>2, <1>3, <1>4
  <2> HIDE DEF T
  <2>2. g \in Seq(T) /\ Len(g) = Len(probes) BY <2>1, ExceptSeq
  <2>3. DOMAIN probes = 1 .. n BY <2>1
  <2>4. \A i \in 1 .. n : g[i] = IF i = 1 THEN cluster ELSE probes[i] BY <2>3
  <2> QED BY <1>1, <2>2, <2>4 DEF T
<1>6. \A i \in 1 .. n : C(probes[i]) <= C(probes[1])
  BY <1>1, <1>3, TopFarthest DEF HeapInv
<1>7. \A i \in 1 .. n : C(probes[i]) \in Nat /\ probes[i] \in 1 .. K BY CentroidNat
<1>8. C(cluster) \in Nat BY <1>2, CentroidNat
<1>9. \A i \in 1 .. n : probes[i] \in Offered /\ ~Empty(probes[i])
  BY DEF HeapInv, ChosenOnce
<1>10. \A i, j \in 1 .. n : probes[i] = probes[j] => i = j
  BY DEF HeapInv, ChosenOnce
<1>11. Full' BY <1>3, <1>5 DEF Full
<1> HIDE DEF n
<1>12. IvfType' BY <1>1, <1>2, <1>3, <1>5 DEF IvfType
<1>13. Control' BY <1>1, <1>3, <1>5 DEF Control, Choosing
<1>14. \A i \in 1 .. n : C(probes[i])' = IF i = 1 THEN C(cluster) ELSE C(probes[i])
  BY <1>1, <1>5 DEF C
<1>15. HeapOrder'
  <2> SUFFICES ASSUME NEW i \in 2 .. n, Parent(i) # 1
               PROVE  C(probes[i])' <= C(probes[Parent(i)])'
    BY <1>1, <1>3 DEF HeapOrder
  <2>1. Parent(i) \in 1 .. i - 1 BY ParentOf
  <2>2. i \in 1 .. n /\ i # 1 /\ Parent(i) \in 1 .. n BY <1>3, <2>1
  <2>3. C(probes[i]) <= C(probes[Parent(i)]) BY <1>1, <1>3 DEF HeapInv, HeapOrder
  <2> QED BY <1>14, <2>2, <2>3
<1>16. HeapBridge' BY <1>1 DEF HeapBridge
<1>17. TailSorted' BY <1>1, <1>3, <1>5 DEF TailSorted
<1>18. Offered = 1 .. cluster - 1 /\ Offered' = 1 .. cluster
  BY <1>1, <1>2 DEF Offered, Choosing
<1>19. Offered' = Offered \cup {cluster} /\ cluster \notin Offered BY <1>2, <1>18
<1>20. ChosenOnce'
  <2>1. \A i \in 1 .. n : probes'[i] \in Offered' /\ ~Empty(probes'[i])
    BY <1>1, <1>5, <1>9, <1>19
  <2>2. \A i, j \in 1 .. n : probes'[i] = probes'[j] => i = j
    BY <1>5, <1>9, <1>10, <1>19
  <2> QED BY <1>5, <2>1, <2>2 DEF ChosenOnce, Empty
<1>21. ChosenNearest'
  <2> SUFFICES ASSUME NEW c \in Offered', ~Empty(c), ~Seen(c)', NEW i \in 1 .. n
               PROVE  C(probes[i])' <= C(c)
    BY <1>1, <1>5, <1>11 DEF ChosenNearest, Empty, C
  <2>1. c # cluster
    <3>1. 1 \in 1 .. Len(probes') /\ probes'[1] = cluster BY <1>3, <1>5
    <3> QED BY <3>1 DEF Seen
  <2>2. c \in Offered /\ c \in 1 .. K
    <3>1. c \in Offered BY <1>19, <2>1
    <3> QED BY <1>2, <1>18, <3>1, SizeNat
  <2>3. C(probes[1]) <= C(c)
    <3>1. CASE Seen(c)
      <4>1. PICK m \in 1 .. n : probes[m] = c BY <3>1 DEF Seen, n
      <4>2. m = 1
        <5>1. SUFFICES ASSUME m # 1 PROVE FALSE OBVIOUS
        <5>2. probes'[m] = c /\ m \in 1 .. Len(probes') BY <1>5, <4>1, <5>1
        <5> QED BY <5>2 DEF Seen
      <4> QED BY <1>7, <4>1, <4>2
    <3>2. CASE ~Seen(c)
      <4>1. 1 \in 1 .. n BY <1>3
      <4> QED BY <2>2, <3>2, <4>1 DEF HeapInv, ChosenNearest, n
    <3> QED BY <3>1, <3>2
  <2>4. C(c) \in Nat /\ 1 \in 1 .. n BY <1>3, <2>2, CentroidNat
  <2>5. C(probes[1]) \in Nat BY <1>7, <2>4
  <2>6. CASE i = 1
    <3>1. C(probes[i])' = C(cluster) BY <1>14, <2>6
    <3> QED BY <1>1, <1>8, <2>3, <2>4, <2>5, <3>1
  <2>7. CASE i # 1
    <3>1. C(probes[i])' = C(probes[i]) BY <1>14, <2>7
    <3>2. C(probes[i]) <= C(probes[1]) /\ C(probes[i]) \in Nat BY <1>6, <1>7
    <3> QED BY <2>3, <2>4, <2>5, <3>1, <3>2
  <2> QED BY <2>6, <2>7
<1> QED BY <1>12, <1>13, <1>15, <1>16, <1>17, <1>20, <1>21 DEF HeapInv

\* Exchanges within the heap leave what has left it sorted.
LEMMA TailKept ==
  ASSUME IvfType, TailSorted, NEW i \in 1 .. size, NEW j \in 1 .. size,
         probes' = Swapped(probes, i, j), UNCHANGED <<query, size>>
  PROVE  TailSorted'
<1>1. i \in 1 .. Len(probes) /\ j \in 1 .. Len(probes) BY CentroidNat
<1>2. /\ Len(probes') = Len(probes)
      /\ \A m \in 1 .. Len(probes) : C(probes[m])' =
           IF m = j THEN C(probes[i]) ELSE IF m = i THEN C(probes[j]) ELSE C(probes[m])
  BY <1>1, SwapChosen
<1> SUFFICES ASSUME NEW m \in 1 .. Len(probes), NEW o \in 1 .. Len(probes),
                    m < o, o > size
             PROVE  C(probes[m])' <= C(probes[o])'
  BY <1>2 DEF TailSorted
<1>3. i < o /\ j < o /\ o # i /\ o # j BY CentroidNat
<1>4. C(probes[o])' = C(probes[o]) BY <1>2, <1>3
<1>5. C(probes[i]) <= C(probes[o]) /\ C(probes[j]) <= C(probes[o])
      /\ C(probes[m]) <= C(probes[o])
  BY <1>1, <1>3 DEF TailSorted
<1> QED BY <1>2, <1>4, <1>5

LEMMA RiseStep == ChoiceInv /\ Rise => ChoiceInv'
<1> SUFFICES ASSUME ChoiceInv, Rise PROVE ChoiceInv' OBVIOUS
<1> USE DEF ChoiceInv
<1>1. /\ pc = "rise" /\ size = Len(probes) /\ at \in 1 .. size
      /\ UNCHANGED <<query, label, best, caller, size, turn, cluster, current, lane>>
  BY DEF Rise, Control, index, scan
<1>2. size \in Nat /\ \A i \in 1 .. size : C(probes[i]) \in Nat
  BY <1>1, CentroidNat
<1>3. CASE ~MayRise
  <2>1. pc' = "offer" /\ probes' = probes /\ at' = at BY <1>3 DEF Rise
  <2>2. IvfType' /\ Control' BY <1>1, <2>1 DEF IvfType, Control, Choosing
  <2>3. Offered' = Offered BY <1>1, <2>1 DEF Offered, Choosing
  <2>4. HeapOrder'
    <3> SUFFICES ASSUME NEW i \in 2 .. size PROVE C(probes[i]) <= C(probes[Parent(i)])
      BY <1>1, <2>1 DEF HeapOrder, C
    <3>1. CASE i # at BY <1>1, <3>1 DEF HeapInv, HeapOrder
    <3>2. CASE i = at
      <4>1. Parent(i) \in 1 .. i - 1 BY ParentOf
      <4>2. i \in 1 .. size /\ Parent(i) \in 1 .. size BY <1>2, <4>1
      <4> QED BY <1>2, <1>3, <3>2, <4>2 DEF MayRise
    <3> QED BY <3>1, <3>2
  <2>5. HeapBridge' BY <2>1 DEF HeapBridge
  <2>6. TailSorted' BY <1>1, <2>1 DEF HeapInv, TailSorted, C
  <2>7. ChosenOnce' /\ ChosenNearest'
    BY <1>1, <2>1, <2>3 DEF HeapInv, ChosenOnce, ChosenNearest, Seen, Full, Empty, C
  <2> QED BY <2>2, <2>4, <2>5, <2>6, <2>7 DEF HeapInv
<1>4. CASE MayRise
  <2>0. PICK p : p = Parent(at) OBVIOUS
  <2>1. pc' = pc /\ probes' = Swapped(probes, at, p) /\ at' = p
        /\ at \in 2 .. size /\ C(probes[at]) > C(probes[p])
    BY <1>1, <1>4, <2>0 DEF Rise, MayRise
  <2>2. p \in 1 .. at - 1 BY <2>0, <2>1, ParentOf
  <2>3. p \in 1 .. size /\ at \in 1 .. size /\ p # at BY <1>2, <2>1, <2>2
  <2>4. p \in 1 .. Len(probes) /\ at \in 1 .. Len(probes) BY <1>1, <2>3
  <2>5. Offered' = Offered BY <1>1, <2>1 DEF Offered, Choosing
  <2>6. /\ probes' \in Seq(1 .. K) /\ Len(probes') = Len(probes)
        /\ \A m \in 1 .. size : C(probes[m])' =
             IF m = p THEN C(probes[at])
             ELSE IF m = at THEN C(probes[p]) ELSE C(probes[m])
        /\ ChosenOnce' /\ ChosenNearest'
    BY <1>1, <2>1, <2>4, <2>5, SwapChosen DEF HeapInv
  <2>7. TailSorted' BY <1>1, <2>1, <2>3, TailKept DEF HeapInv
  <2>8. IvfType' /\ Control'
    BY <1>1, <2>1, <2>3, <2>6 DEF IvfType, Control, Choosing
  <2> DEFINE d == [m \in 1 .. size |-> C(probes[m])]
             e == [m \in 1 .. size |-> C(probes[m])']
  <2>9. d \in [1 .. size -> Nat] BY <1>2
  <2>10. \A m \in 1 .. size :
           e[m] = IF m = at THEN d[p] ELSE IF m = p THEN d[at] ELSE d[m]
    BY <2>3, <2>6
  <2>11. e \in [1 .. size -> Nat] BY <1>2, <2>3, <2>6
  <2>12. \A i \in 2 .. size : i \in 1 .. size /\ Parent(i) \in 1 .. size
    <3> SUFFICES ASSUME NEW i \in 2 .. size
                 PROVE  i \in 1 .. size /\ Parent(i) \in 1 .. size
      OBVIOUS
    <3>1. Parent(i) \in 1 .. i - 1 BY ParentOf
    <3> QED BY <1>2, <3>1
  <2>13. \A i \in 2 .. size : i = at \/ d[i] <= d[Parent(i)]
    BY <1>1, <2>12 DEF HeapInv, HeapOrder
  <2>14. \A i \in 2 .. size : Parent(i) = at => d[i] <= d[p]
    BY <1>1, <2>0, <2>1, <2>3, <2>12 DEF HeapInv, HeapBridge
  <2>15. d[at] > d[p] BY <2>1, <2>3
  <2>16. /\ \A i \in 2 .. size : i = p \/ e[i] <= e[Parent(i)]
         /\ p > 1 => \A i \in 2 .. size : Parent(i) = p => e[i] <= e[Parent(p)]
    <3> HIDE DEF d, e
    <3> QED BY <1>2, <2>0, <2>1, <2>9, <2>10, <2>11, <2>13, <2>14, <2>15, RiseKeeps
  <2>17. HeapOrder' BY <1>1, <2>1, <2>12, <2>16 DEF HeapOrder
  <2>18. HeapBridge'
    <3> SUFFICES ASSUME p > 1, NEW i \in 2 .. size, Parent(i) = p
                 PROVE  C(probes[i])' <= C(probes[Parent(p)])'
      BY <1>1, <2>1 DEF HeapBridge
    <3>1. p \in 2 .. size BY <2>3
    <3>2. Parent(p) \in 1 .. size /\ i \in 1 .. size BY <2>12, <3>1
    <3> QED BY <2>16, <3>2
  <2> QED BY <2>6, <2>7, <2>8, <2>17, <2>18 DEF HeapInv
<1> QED BY <1>3, <1>4

LEMMA SinkStep == ChoiceInv /\ Sink => ChoiceInv'
<1> SUFFICES ASSUME ChoiceInv, Sink PROVE ChoiceInv' OBVIOUS
<1> USE DEF ChoiceInv
<1>1. /\ pc = "sink" /\ caller \in {"offer", "sort"} /\ at \in 1 .. size
      /\ UNCHANGED <<query, label, best, caller, size, turn, cluster, current, lane>>
  BY DEF Sink, Control, index, scan
<1>2. size \in Nat /\ size <= Len(probes) /\ Len(probes) \in Nat
      /\ \A i \in 1 .. size : i \in 1 .. Len(probes) /\ C(probes[i]) \in Nat
  BY CentroidNat
<1>3. PICK j : j = Largest(at) OBVIOUS
<1>4. /\ j \in 1 .. size
      /\ j # at => Parent(j) = at /\ j \in 2 .. size /\ C(probes[at]) < C(probes[j])
      /\ \A i \in 2 .. size : Parent(i) = at => C(probes[i]) <= C(probes[j])
  BY <1>1, <1>3, LargestIs
<1>5. \A i \in 2 .. size : i \in 1 .. size /\ Parent(i) \in 1 .. size
  <2> SUFFICES ASSUME NEW i \in 2 .. size PROVE i \in 1 .. size /\ Parent(i) \in 1 .. size
    OBVIOUS
  <2>1. Parent(i) \in 1 .. i - 1 BY ParentOf
  <2> QED BY <1>2, <2>1
<1>6. CASE j = at
  <2>1. pc' = caller /\ probes' = probes /\ at' = at BY <1>3, <1>6 DEF Sink
  <2>2. IvfType' /\ Control' BY <1>1, <2>1 DEF IvfType, Control, Choosing
  <2>3. Offered' = Offered BY <1>1, <2>1 DEF Offered, Choosing
  <2>4. HeapOrder'
    <3> SUFFICES ASSUME NEW i \in 2 .. size PROVE C(probes[i]) <= C(probes[Parent(i)])
      BY <1>1, <2>1 DEF HeapOrder, C
    <3> QED BY <1>1, <1>4, <1>6 DEF HeapInv, HeapOrder
  <2>5. HeapBridge' BY <1>1, <2>1 DEF HeapBridge
  <2>6. TailSorted' BY <1>1, <2>1 DEF HeapInv, TailSorted, C
  <2>7. ChosenOnce' /\ ChosenNearest'
    BY <1>1, <2>1, <2>3 DEF HeapInv, ChosenOnce, ChosenNearest, Seen, Full, Empty, C
  <2> QED BY <2>2, <2>4, <2>5, <2>6, <2>7 DEF HeapInv
<1>7. CASE j # at
  <2>0. PICK a : a = at OBVIOUS
  <2>1. pc' = pc /\ probes' = Swapped(probes, a, j) /\ at' = j
        /\ Parent(j) = a /\ j \in 2 .. size /\ C(probes[a]) < C(probes[j])
    BY <1>3, <1>4, <1>7, <2>0 DEF Sink
  <2>2. a \in 1 .. size /\ a \in 1 .. Len(probes) /\ j \in 1 .. Len(probes)
    BY <1>1, <1>2, <1>4, <2>0
  <2>3. Offered' = Offered BY <1>1, <2>1 DEF Offered, Choosing
  <2>4. /\ probes' \in Seq(1 .. K) /\ Len(probes') = Len(probes)
        /\ \A m \in 1 .. size : C(probes[m])' =
             IF m = j THEN C(probes[a]) ELSE IF m = a THEN C(probes[j]) ELSE C(probes[m])
        /\ ChosenOnce' /\ ChosenNearest'
    BY <1>1, <1>2, <2>1, <2>2, <2>3, SwapChosen DEF HeapInv
  <2>5. TailSorted' BY <1>1, <1>4, <2>1, <2>2, TailKept DEF HeapInv
  <2>6. IvfType' /\ Control'
    BY <1>1, <1>4, <2>1, <2>4 DEF IvfType, Control, Choosing
  <2> DEFINE d == [m \in 1 .. size |-> C(probes[m])]
             e == [m \in 1 .. size |-> C(probes[m])']
  <2>7. d \in [1 .. size -> Nat] BY <1>2
  <2>8. \A m \in 1 .. size :
           e[m] = IF m = a THEN d[j] ELSE IF m = j THEN d[a] ELSE d[m]
    BY <1>4, <1>7, <2>0, <2>2, <2>4
  <2>9. e \in [1 .. size -> Nat] BY <1>2, <1>4, <2>2, <2>4
  <2>10. \A i \in 2 .. size : Parent(i) = a \/ d[i] <= d[Parent(i)]
    BY <1>1, <1>5, <2>0 DEF HeapInv, HeapOrder
  <2>11. a > 1 => \A i \in 2 .. size : Parent(i) = a => d[i] <= d[Parent(a)]
    <3> SUFFICES ASSUME a > 1, NEW i \in 2 .. size, Parent(i) = a
                 PROVE  d[i] <= d[Parent(a)]
      OBVIOUS
    <3>1. a \in 2 .. size BY <1>2, <2>2
    <3>2. Parent(a) \in 1 .. size /\ i \in 1 .. size BY <1>5, <3>1
    <3>3. C(probes[i]) <= C(probes[Parent(a)])
      BY <1>1, <2>0 DEF HeapInv, HeapBridge
    <3> QED BY <3>2, <3>3
  <2>12. d[j] > d[a] /\ \A i \in 2 .. size : Parent(i) = a => d[i] <= d[j]
    BY <1>2, <1>4, <1>5, <2>0, <2>1, <2>2
  <2>13. /\ \A i \in 2 .. size : Parent(i) = j \/ e[i] <= e[Parent(i)]
         /\ \A i \in 2 .. size : Parent(i) = j => e[i] <= e[Parent(j)]
    <3> HIDE DEF d, e
    <3> QED BY <1>2, <2>1, <2>2, <2>7, <2>8, <2>9, <2>10, <2>11, <2>12, SinkKeeps
  <2>14. HeapOrder' BY <1>1, <1>5, <2>1, <2>13 DEF HeapOrder
  <2>15. HeapBridge'
    <3> SUFFICES ASSUME NEW i \in 2 .. size, Parent(i) = j
                 PROVE  C(probes[i])' <= C(probes[Parent(j)])'
      BY <1>1, <2>1 DEF HeapBridge
    <3>1. Parent(j) \in 1 .. size /\ i \in 1 .. size BY <1>5, <2>1
    <3> QED BY <2>13, <3>1
  <2> QED BY <2>4, <2>5, <2>6, <2>14, <2>15 DEF HeapInv
<1> QED BY <1>6, <1>7

LEMMA OfferDoneStep == ChoiceInv /\ OfferDone => ChoiceInv'
<1> SUFFICES ASSUME ChoiceInv, OfferDone PROVE ChoiceInv' OBVIOUS
<1> USE DEF ChoiceInv
<1>1. /\ pc = "offer" /\ pc' = "sort" /\ cluster > K
      /\ UNCHANGED <<query, label, best, caller, probes, size, at, turn>>
      /\ UNCHANGED <<cluster, current, lane>>
  BY DEF OfferDone, index, heap, scan
<1>2. cluster = K + 1
  <2>1. cluster \in 1 .. K + 1 /\ K \in Nat BY SizeNat DEF IvfType
  <2> QED BY <1>1, <2>1
<1>3. IvfType' /\ Control' BY <1>1, <1>2 DEF IvfType, Control, Choosing
<1>4. Offered' = Offered BY <1>1 DEF Offered, Choosing
<1>5. HeapInv' BY <1>1, <1>4, SameHeap DEF heap
<1> QED BY <1>3, <1>5

LEMMA SortStep == ChoiceInv /\ Sort => ChoiceInv'
<1> SUFFICES ASSUME ChoiceInv, Sort PROVE ChoiceInv' OBVIOUS
<1> USE DEF ChoiceInv
<1>1. /\ pc = "sort" /\ pc' = "sink" /\ caller' = "sort" /\ size > 1
      /\ size' = size - 1 /\ at' = 1
      /\ UNCHANGED <<query, label, best, turn, cluster, current, lane>>
  BY DEF Sort, index, scan
<1>2. PICK n : n = size OBVIOUS
<1>3. n \in Nat /\ n <= Len(probes) /\ n > 1 /\ Len(probes) \in Nat
      /\ \A i \in 1 .. Len(probes) : C(probes[i]) \in Nat
  BY <1>1, <1>2, CentroidNat
<1>4. probes' = Swapped(probes, 1, n) BY <1>2 DEF Sort
<1>5. 1 \in 1 .. Len(probes) /\ n \in 1 .. Len(probes) BY <1>3
<1>6. Offered' = Offered BY <1>1 DEF Offered, Choosing
<1>7. /\ probes' \in Seq(1 .. K) /\ Len(probes') = Len(probes)
      /\ \A m \in 1 .. Len(probes) : C(probes[m])' =
           IF m = n THEN C(probes[1]) ELSE IF m = 1 THEN C(probes[n]) ELSE C(probes[m])
      /\ ChosenOnce' /\ ChosenNearest'
  BY <1>1, <1>4, <1>5, <1>6, SwapChosen DEF HeapInv
<1>8. IvfType' BY <1>1, <1>2, <1>3, <1>7 DEF IvfType
<1>9. Control' BY <1>1, <1>2, <1>3 DEF Control, Choosing
<1>10. HeapOrder'
  <2> SUFFICES ASSUME NEW i \in 2 .. n - 1, Parent(i) # 1
               PROVE  C(probes[i])' <= C(probes[Parent(i)])'
    BY <1>1, <1>2 DEF HeapOrder
  <2>1. Parent(i) \in 1 .. i - 1 BY ParentOf
  <2>2. i \in 1 .. Len(probes) /\ i # n /\ i # 1 /\ i \in 2 .. n
        /\ Parent(i) \in 1 .. Len(probes) /\ Parent(i) # n
    BY <1>3, <2>1
  <2>3. C(probes[i]) <= C(probes[Parent(i)])
    BY <1>1, <1>2, <2>2 DEF HeapInv, HeapOrder
  <2> QED BY <1>7, <2>2, <2>3
<1>11. HeapBridge' BY <1>1 DEF HeapBridge
<1>12. TailSorted'
  <2> SUFFICES ASSUME NEW i \in 1 .. Len(probes), NEW j \in 1 .. Len(probes),
                      i < j, j > n - 1
               PROVE  C(probes[i])' <= C(probes[j])'
    BY <1>1, <1>2, <1>7 DEF TailSorted
  <2>1. \A m \in 1 .. n : C(probes[m]) <= C(probes[1])
    BY <1>1, <1>2, TopFarthest DEF HeapInv
  <2>2. CASE j = n
    <3>1. i \in 1 .. n /\ i # n /\ n \in 1 .. n BY <1>3, <2>2
    <3> QED BY <1>7, <2>1, <2>2, <3>1
  <2>3. CASE j > n
    <3>1. \A m \in 1 .. Len(probes) : m < j => C(probes[m]) <= C(probes[j])
      BY <1>2, <2>3 DEF HeapInv, TailSorted
    <3>2. j # n /\ j # 1 /\ 1 < j /\ n < j BY <1>3, <2>3
    <3> QED BY <1>5, <1>7, <3>1, <3>2
  <2> QED BY <1>3, <2>2, <2>3
<1> QED BY <1>7, <1>8, <1>9, <1>10, <1>11, <1>12 DEF HeapInv

LEMMA SortDoneStep == ChoiceInv /\ SortDone => ChoiceInv'
<1> SUFFICES ASSUME ChoiceInv, SortDone PROVE ChoiceInv' OBVIOUS
<1> USE DEF ChoiceInv
<1>1. /\ pc = "sort" /\ pc' = "probe" /\ size <= 1 /\ cluster = K + 1
      /\ UNCHANGED <<query, label, best, caller, probes, size, at, turn>>
      /\ UNCHANGED <<cluster, current, lane>>
  BY DEF SortDone, Control, index, heap, scan
<1>2. IvfType' /\ Control' BY <1>1 DEF IvfType, Control, Choosing
<1>3. Offered' = Offered BY <1>1, SizeNat DEF Offered, Choosing
<1>4. HeapInv' BY <1>1, <1>3, SameHeap DEF heap
<1> QED BY <1>2, <1>4

-----------------------------------------------------------------------------
(***************************************************************************)
(* The list of the nearest.                                                *)
(***************************************************************************)
LEMMA DistType ==
  ASSUME IvfType, NEW p \in Points \cup {NoPoint}
  PROVE  D(p) \in 0 .. MaxDist
<1>1. CASE p = NoPoint BY <1>1, IvfConstants DEF D
<1>2. CASE p \in Points
  <2>1. Dist[query] \in [Points -> 0 .. MaxDist - 1]
    BY IvfConstants DEF IvfType
  <2>2. Dist[query][p] \in 0 .. MaxDist - 1 BY <1>2, <2>1
  <2> QED BY <1>2, <2>2, IvfConstants DEF D
<1> QED BY <1>1, <1>2

\* insertBest keeps the list sorted, and loses no point but one as far as the
\* last it keeps.
LEMMA InsertKeeps ==
  ASSUME IvfType, BestSorted, NEW p \in Points, D(p) < Worst,
         InsertBest(p), UNCHANGED query
  PROVE  /\ best' \in [1 .. TOP_K -> Points \cup {NoPoint}]
         /\ BestSorted'
         /\ Worst' <= Worst
         /\ p \in Kept'
         /\ \A r \in Kept : r \in Kept' \/ D(r) >= Worst'
<1> DEFINE asNear == {i \in 1 .. TOP_K : D(best[i]) <= D(p)}
           pos == Cardinality(asNear) + 1
<1>1. TOP_K \in Nat \ {0} BY IvfConstants
<1>2. \A i \in 1 .. TOP_K : best[i] \in Points \cup {NoPoint} BY DEF IvfType
<1>3. D(p) \in Int /\ \A i \in 1 .. TOP_K : D(best[i]) \in Int
  BY <1>2, DistType
<1>4. \A i \in asNear : \A j \in 1 .. i : j \in asNear
  BY <1>1, <1>3 DEF BestSorted
<1>5. Cardinality(asNear) \in 0 .. TOP_K /\ asNear = 1 .. Cardinality(asNear)
  <2> HIDE DEF asNear
  <2>1. asNear \in SUBSET (1 .. TOP_K) BY DEF asNear
  <2> QED BY <1>1, <1>4, <2>1, InitialSegment
<1>6. TOP_K \notin asNear BY <1>1, <1>3 DEF Worst
<1>7. pos \in 1 .. TOP_K
      /\ \A i \in 1 .. TOP_K : IF i < pos THEN D(best[i]) <= D(p)
                                           ELSE D(best[i]) > D(p)
  <2>1. pos \in 1 .. TOP_K
    <3> HIDE DEF asNear
    <3> QED BY <1>1, <1>5, <1>6
  <2>2. \A i \in 1 .. TOP_K : i \in asNear <=> i < pos
    <3> HIDE DEF asNear
    <3> QED BY <1>1, <1>5, <2>1
  <2> HIDE DEF pos
  <2> QED BY <1>3, <2>1, <2>2
<1>8. best' = [i \in 1 .. TOP_K |-> IF i < pos THEN best[i]
                                    ELSE IF i = pos THEN p ELSE best[i - 1]]
  BY DEF InsertBest
<1> HIDE DEF pos
<1>9. best' \in [1 .. TOP_K -> Points \cup {NoPoint}]
  <2>1. \A i \in 1 .. TOP_K : ~(i < pos) /\ i # pos => i - 1 \in 1 .. TOP_K
    BY <1>1, <1>7
  <2> QED BY <1>2, <1>8, <2>1
<1>10. \A r : D(r)' = D(r) BY DEF D
<1>11. \A i \in 1 .. TOP_K :
         D(best[i])' = IF i < pos THEN D(best[i])
                       ELSE IF i = pos THEN D(p) ELSE D(best[i - 1])
  BY <1>8, <1>10 DEF D
<1>12. BestSorted'
  <2> SUFFICES ASSUME NEW i \in 1 .. TOP_K, NEW j \in 1 .. TOP_K, i < j
               PROVE  D(best[i])' <= D(best[j])'
    BY DEF BestSorted
  <2> DEFINE d == [m \in 1 .. TOP_K |-> D(best[m])]
             e == [m \in 1 .. TOP_K |-> D(best[m])']
  <2>1. \A m \in 1 .. TOP_K : d[m] \in Int BY <1>3
  <2>2. \A m \in 1 .. TOP_K :
          e[m] = IF m < pos THEN d[m] ELSE IF m = pos THEN D(p) ELSE d[m - 1]
    BY <1>1, <1>7, <1>11
  <2>3. \A m \in 1 .. TOP_K : IF m < pos THEN d[m] <= D(p) ELSE d[m] > D(p)
    BY <1>7
  <2>4. \A m, o \in 1 .. TOP_K : m < o => d[m] <= d[o] BY DEF BestSorted
  <2> SUFFICES e[i] <= e[j] OBVIOUS
  <2> HIDE DEF d, e
  <2> QED BY <1>1, <1>3, <1>7, <2>1, <2>2, <2>3, <2>4
<1>13. Worst' <= Worst
  <2>1. Worst = D(best[TOP_K]) /\ Worst' = D(best[TOP_K])'
    BY <1>8, <1>10 DEF Worst, D
  <2>2. TOP_K \in 1 .. TOP_K BY <1>1
  <2>3. pos < TOP_K => D(best[TOP_K - 1]) <= D(best[TOP_K])
    <3>1. pos < TOP_K => TOP_K - 1 \in 1 .. TOP_K /\ TOP_K - 1 < TOP_K
      BY <1>1, <1>7
    <3> QED BY <2>2, <3>1 DEF BestSorted
  <2>4. pos < TOP_K => D(best[TOP_K - 1]) \in Int BY <1>1, <1>3, <1>7
  <2> QED BY <1>3, <1>7, <1>11, <2>1, <2>2, <2>3, <2>4
<1>14. p \in Kept'
  <2>1. best'[pos] = p BY <1>7, <1>8
  <2> QED BY <1>7, <2>1, IvfConstants DEF Kept
<1>15. ASSUME NEW r \in Kept PROVE r \in Kept' \/ D(r) >= Worst'
  <2>1. PICK i \in 1 .. TOP_K : best[i] = r BY DEF Kept
  <2>2. CASE i < pos
    <3>1. best'[i] = r BY <1>8, <2>1, <2>2
    <3> QED BY <3>1 DEF Kept
  <2>3. CASE ~(i < pos) /\ i < TOP_K
    <3>1. i + 1 \in 1 .. TOP_K /\ ~(i + 1 < pos) /\ i + 1 # pos /\ (i + 1) - 1 = i
      BY <1>1, <1>7, <2>3
    <3>2. best'[i + 1] = r BY <1>8, <2>1, <3>1
    <3> QED BY <3>1, <3>2 DEF Kept
  <2>4. CASE i = TOP_K
    <3>1. D(r) = Worst BY <2>1, <2>4 DEF Worst
    <3>2. D(r) \in Int BY <1>3, <2>1
    <3>3. Worst' \in Int
      <4>1. TOP_K \in 1 .. TOP_K BY <1>1
      <4>2. best'[TOP_K] \in Points \cup {NoPoint} BY <1>9, <4>1
      <4>3. D(best'[TOP_K]) \in Int BY <4>2, DistType
      <4> QED BY <4>3, <1>10 DEF Worst, D
    <3> QED BY <1>13, <3>1, <3>2, <3>3
  <2> QED BY <1>1, <1>7, <2>2, <2>3, <2>4
<1> QED BY <1>9, <1>12, <1>13, <1>14, <1>15

\* What does not change with best and query.
LEMMA SameBest ==
  ASSUME UNCHANGED <<query, best>>
  PROVE  /\ \A p : D(p)' = D(p)
         /\ Worst' = Worst /\ Kept' = Kept /\ (BestSorted => BestSorted')
<1>1. \A p : D(p)' = D(p) BY DEF D
<1>2. Worst' = Worst BY DEF Worst, D
<1>3. Kept' = Kept BY DEF Kept
<1>4. BestSorted => BestSorted' BY DEF BestSorted, D
<1> QED BY <1>1, <1>2, <1>3, <1>4

\* The types of the distances.
LEMMA Distances ==
  ASSUME IvfType
  PROVE  /\ Worst \in 0 .. MaxDist
         /\ \A p \in Points : D(p) \in 0 .. MaxDist
<1>1. best[TOP_K] \in Points \cup {NoPoint} BY IvfConstants DEF IvfType
<1>2. Worst \in 0 .. MaxDist BY <1>1, DistType DEF Worst
<1>3. \A p \in Points : D(p) \in 0 .. MaxDist BY DistType
<1> QED BY <1>2, <1>3

LEMMA InsertOnce ==
  ASSUME IvfType, CountedOnce, NEW p \in Points, p \notin Kept, InsertBest(p)
  PROVE  CountedOnce' /\ Kept' \subseteq Kept \cup {p}
<1> DEFINE asNear == {i \in 1 .. TOP_K : D(best[i]) <= D(p)}
           pos == Cardinality(asNear) + 1
<1>1. TOP_K \in Nat \ {0} BY IvfConstants
<1>2. IsFiniteSet(1 .. TOP_K) BY <1>1, FS_Interval
<1>3. IsFiniteSet(asNear) BY <1>2, FS_Subset
<1>4. pos \in Nat /\ pos >= 1 BY <1>3, FS_CardinalityType
<1>5. best' = [i \in 1 .. TOP_K |-> IF i < pos THEN best[i]
                                    ELSE IF i = pos THEN p ELSE best[i - 1]]
  BY DEF InsertBest
<1> HIDE DEF pos
<1> DEFINE from(i) == IF i < pos THEN i ELSE i - 1
<1>6. \A i \in 1 .. TOP_K :
        \/ i = pos /\ best'[i] = p
        \/ i # pos /\ from(i) \in 1 .. TOP_K /\ best'[i] = best[from(i)]
  BY <1>1, <1>4, <1>5
<1>7. \A i, j \in 1 .. TOP_K : i # pos /\ j # pos /\ from(i) = from(j) => i = j
  BY <1>1, <1>4
<1>8. \A i \in 1 .. TOP_K : best[i] # p BY IvfConstants DEF Kept
<1> HIDE DEF from
<1>9. CountedOnce' BY <1>6, <1>7, <1>8 DEF CountedOnce
<1>10. Kept' \subseteq Kept \cup {p} BY <1>6 DEF Kept
<1> QED BY <1>9, <1>10

LEMMA FraudsRange == Frauds \in 0 .. TOP_K
<1> DEFINE S == {i \in 1 .. TOP_K : best[i] # NoPoint /\ label[best[i]] = 1}
<1>1. TOP_K \in Nat BY IvfConstants
<1>2. IsFiniteSet(1 .. TOP_K) /\ Cardinality(1 .. TOP_K) = TOP_K BY <1>1, FS_Interval
<1>3. S \in SUBSET (1 .. TOP_K) OBVIOUS
<1>4. IsFiniteSet(S) /\ Cardinality(S) <= TOP_K
  <2> HIDE DEF S
  <2> QED BY <1>2, <1>3, FS_Subset
<1>5. Cardinality(S) \in Nat BY <1>4, FS_CardinalityType
<1> QED BY <1>1, <1>4, <1>5 DEF Frauds

\* A verdict the repair does not call divided is unanimous.
LEMMA DividedOrUnanimous == Divided \/ Unanimous
BY FraudsRange, IvfConstants DEF Divided, Unanimous

LEMMA PointsIn ==
  /\ \A c \in 1 .. K : Members(c) \subseteq Points
  /\ \A c \in 1 .. K : Empty(c) => Members(c) = {}
<1>1. ASSUME NEW c \in 1 .. K
      PROVE  Members(c) \subseteq Points /\ (Empty(c) => Members(c) = {})
  <2>1. Cluster[c] \in Seq(Points) BY IvfConstants
  <2>2. \A i \in 1 .. Len(Cluster[c]) : Cluster[c][i] \in Points BY <2>1, ElementOfSeq
  <2>3. Empty(c) => Len(Cluster[c]) = 0 BY DEF Empty
  <2> QED BY <2>2, <2>3 DEF Members
<1> QED BY <1>1

LEMMA BoundBelow ==
  ASSUME IvfType, NEW c \in 1 .. K, TooFar(c), NEW p \in Members(c)
  PROVE  D(p) >= Worst
<1>1. p \in Points /\ p # NoPoint BY PointsIn, IvfConstants
<1>2. Bound[query][c] <= D(p) BY <1>1, IvfIndex DEF D, IvfType
<1>3. Bound[query][c] \in Nat BY IvfConstants DEF IvfType
<1> QED BY <1>1, <1>2, <1>3, Distances DEF TooFar

-----------------------------------------------------------------------------
(***************************************************************************)
(* The scans.                                                              *)
(***************************************************************************)
IInv == ChoiceInv /\ ScanInv

\* Nothing is scanned while the probes are chosen.
LEMMA ScanIdle ==
  ASSUME IInv, Choosing, ChoiceInv', UNCHANGED <<query, label, best, turn>>,
         pc' \in {"offer", "rise", "sink", "sort", "probe"}
  PROVE  ScanInv'
<1>1. turn = 1 /\ turn' = 1 BY DEF IInv, ChoiceInv, Control
<1>2. \A c : ~Passed(c) BY DEF Choosing, Passed, Phase
<1>3. \A p : ~Met(p) BY <1>2 DEF Choosing, Met
<1>4. Len(probes') \in Nat
  <2>1. probes' \in Seq(1 .. K) BY DEF ChoiceInv, IvfType
  <2> QED BY <2>1
<1>5. \A c : ~Passed(c)' BY <1>1, <1>4 DEF Passed, Phase
<1>6. \A p : ~Met(p)' BY <1>5 DEF Met
<1>7. Kept = {} BY <1>3 DEF IInv, ScanInv, KeptMet, Choosing
<1>8. BestSorted' /\ Kept' = {} BY <1>7, SameBest DEF IInv, ScanInv
<1>9. CountedOnce' BY DEF IInv, ScanInv, CountedOnce
<1>10. MetCounts' /\ KeptMet' BY <1>6, <1>8 DEF MetCounts, KeptMet
<1>11. ScanPlace' BY <1>1, <1>4, IvfConstants DEF ScanPlace, Phase, Initial
<1>12. InexactOnlyIfUnanimous' BY DEF InexactOnlyIfUnanimous
<1> QED BY <1>8, <1>9, <1>10, <1>11, <1>12 DEF ScanInv

\* What has been met stays met, and what else is met is too far.
LEMMA MoreMet ==
  ASSUME IInv, UNCHANGED <<query, label, best>>, pc # "done", pc' # "done",
         \A p \in Points : Met(p) => Met(p)',
         \A p \in Points : Met(p)' => Met(p) \/ D(p) >= Worst,
         ScanPlace'
  PROVE  ScanInv'
<1>1. BestSorted' /\ Kept' = Kept /\ Worst' = Worst /\ \A p : D(p)' = D(p)
  BY SameBest DEF IInv, ScanInv
<1>2. CountedOnce' BY DEF IInv, ScanInv, CountedOnce
<1>3. Kept \subseteq Points BY DEF IInv, ChoiceInv, IvfType, Kept
<1>4. MetCounts' BY <1>1 DEF IInv, ScanInv, MetCounts
<1>5. KeptMet' BY <1>1, <1>3 DEF IInv, ScanInv, KeptMet
<1>6. InexactOnlyIfUnanimous' BY DEF InexactOnlyIfUnanimous
<1> QED BY <1>1, <1>2, <1>4, <1>5, <1>6 DEF ScanInv

\* The verdict is given.
LEMMA VerdictGiven ==
  ASSUME IInv, UNCHANGED <<query, label, best, probes>>, pc' = "done",
         \/ NearestOf(Points)
         \/ /\ Unanimous
            /\ \/ Tight
               \/ NearestOf(UNION {Members(probes[i]) : i \in 1 .. Len(probes)})
  PROVE  ScanInv'
<1>1. BestSorted' /\ Kept' = Kept /\ Worst' = Worst /\ \A p : D(p)' = D(p)
  BY SameBest DEF IInv, ScanInv
<1>2. CountedOnce' BY DEF IInv, ScanInv, CountedOnce
<1>3. Frauds' = Frauds BY DEF Frauds
<1>4. InexactOnlyIfUnanimous'
  BY <1>1, <1>3 DEF InexactOnlyIfUnanimous, NearestOf, Unanimous, Tight
<1>5. MetCounts' /\ KeptMet' BY DEF MetCounts, KeptMet
<1>6. ScanPlace' BY DEF ScanPlace, Phase
<1> QED BY <1>1, <1>2, <1>4, <1>5, <1>6 DEF ScanInv

\* A cluster that was not passed is scanned from its first point.
LEMMA ScanStarts ==
  ASSUME IInv, NEW x \in 1 .. K, pc \in {"probe", "fast", "full"}, Scan(x),
         UNCHANGED <<query, label, best, probes>>, ~Passed(x),
         \A c \in 1 .. K : Passed(c)' <=> Passed(c) \/ c = x,
         pc = "probe" => turn' <= Initial + 1
  PROVE  ScanInv'
<1>1. current' = x /\ lane' = 1 /\ pc' = "scan" /\ caller' = pc BY DEF Scan
<1>2. \A p : Met(p) <=> \E c \in 1 .. K : p \in Members(c) /\ Passed(c) BY DEF Met
<1>3. \A p : Met(p)' <=> \E c \in 1 .. K : p \in Members(c) /\ Passed(c)' /\ c # x
  BY <1>1 DEF Met
<1>4. \A p : Met(p)' <=> Met(p) BY <1>2, <1>3
<1>5. Len(Cluster[x]) \in Nat BY SizeNat DEF IInv, ChoiceInv
<1>6. ScanPlace' BY <1>1, <1>5 DEF ScanPlace, Phase, Initial
<1> QED BY <1>1, <1>4, <1>6, MoreMet

\* A cluster is passed without a scan.
LEMMA ScanSkips ==
  ASSUME IInv, NEW x \in 1 .. K, pc \in {"fast", "full"}, pc' = pc,
         UNCHANGED <<query, label, best>>,
         \A c \in 1 .. K : Passed(c)' <=> Passed(c) \/ c = x,
         Passed(x) \/ Empty(x) \/ TooFar(x)
  PROVE  ScanInv'
<1>1. \A p : Met(p) <=> \E c \in 1 .. K : p \in Members(c) /\ Passed(c) BY DEF Met
<1>2. \A p : Met(p)' <=> \E c \in 1 .. K : p \in Members(c) /\ Passed(c)' BY DEF Met
<1>3. \A p \in Points : Met(p) => Met(p)' BY <1>1, <1>2
<1>4. \A p \in Members(x) : Met(p) \/ D(p) >= Worst
  <2>1. CASE Passed(x) BY <1>1, <2>1
  <2>2. CASE Empty(x) BY <2>2, PointsIn
  <2>3. CASE TooFar(x) BY <2>3, BoundBelow DEF IInv, ChoiceInv
  <2> QED BY <2>1, <2>2, <2>3
<1>5. \A p \in Points : Met(p)' => Met(p) \/ D(p) >= Worst BY <1>1, <1>2, <1>4
<1>6. ScanPlace' BY DEF ScanPlace, Phase
<1> QED BY <1>3, <1>5, <1>6, MoreMet

\* The clusters in order of their place are passed one by one.
LEMMA NextProbe ==
  ASSUME IInv, Phase \in {"probe", "fast"}, Phase' = Phase, pc # "scan",
         turn \in 1 .. Len(probes), turn' = turn + 1, probes' = probes
  PROVE  /\ probes[turn] \in 1 .. K /\ ~Passed(probes[turn])
         /\ \A c \in 1 .. K : Passed(c)' <=> Passed(c) \/ c = probes[turn]
<1>1. Len(probes) \in Nat /\ probes[turn] \in 1 .. K
  BY CentroidNat DEF IInv, ChoiceInv
<1>2. \A i \in 1 .. Len(probes) : probes[i] = probes[turn] => i = turn
  BY DEF IInv, ChoiceInv, HeapInv, ChosenOnce
<1>3. \A c : Passed(c) <=> \E i \in 1 .. Len(probes) : i < turn /\ probes[i] = c
  BY DEF Passed
<1>4. \A c : Passed(c)' <=> \E i \in 1 .. Len(probes) : i < turn + 1 /\ probes[i] = c
  BY DEF Passed
<1>5. ~Passed(probes[turn]) BY <1>1, <1>2, <1>3
<1>6. \A i \in 1 .. Len(probes) : i < turn + 1 <=> i < turn \/ i = turn BY <1>1
<1>7. ASSUME NEW c \in 1 .. K PROVE Passed(c)' <=> Passed(c) \/ c = probes[turn]
  BY <1>3, <1>4, <1>6
<1> QED BY <1>1, <1>5, <1>7

\* The clusters in the order of the index are passed one by one.
LEMMA NextCluster ==
  ASSUME IInv, Phase = "full", Phase' = "full",
         cluster \in 1 .. K, cluster' = cluster + 1, probes' = probes
  PROVE  /\ Passed(cluster) <=> Seen(cluster)
         /\ \A c \in 1 .. K : Passed(c)' <=> Passed(c) \/ c = cluster
<1>1. \A c : Passed(c) <=> Seen(c) \/ c < cluster BY DEF Passed
<1>2. \A c : Passed(c)' <=> Seen(c) \/ c < cluster + 1 BY DEF Passed, Seen
<1>3. K \in Nat BY IvfConstants
<1>4. ~(cluster < cluster) BY <1>3
<1>5. \A c \in 1 .. K : c < cluster + 1 <=> c < cluster \/ c = cluster BY <1>3
<1> QED BY <1>1, <1>2, <1>4, <1>5

LEMMA InitialIs ==
  ASSUME IvfType
  PROVE  Initial \in 0 .. Len(probes) /\ Initial <= NPROBE
         /\ (Initial < NPROBE => Initial = Len(probes))
BY SizeNat, IvfConstants DEF Initial

\* The choice is left as it is.
LEMMA ChoiceMade ==
  ASSUME IInv, ~Choosing, ~Choosing', UNCHANGED <<query, label, heap>>,
         best' \in [1 .. TOP_K -> Points \cup {NoPoint}],
         pc' \in {"probe", "scan", "fast", "full", "done"},
         caller' \in {"offer", "sort", "probe", "fast", "full"},
         pc' = "scan" => caller' \in {"probe", "fast", "full"},
         turn' \in Nat \ {0}, cluster' \in 1 .. K + 1, current' \in 1 .. K,
         lane' \in Nat \ {0}
  PROVE  ChoiceInv'
<1>1. IvfType' BY DEF IInv, ChoiceInv, IvfType, heap
<1>2. Control' BY DEF IInv, ChoiceInv, Control, Choosing, heap
<1>3. HeapInv' BY SameHeap DEF IInv, ChoiceInv, Choosing, Offered
<1> QED BY <1>1, <1>2, <1>3 DEF ChoiceInv

LEMMA ScanProbeStep == IInv /\ ScanProbe => IInv'
<1> SUFFICES ASSUME IInv, ScanProbe PROVE IInv' OBVIOUS
<1>1. /\ pc = "probe" /\ turn <= Initial /\ turn' = turn + 1 /\ Scan(probes[turn])
      /\ probes' = probes
      /\ UNCHANGED <<query, label, best, heap, cluster>>
  BY DEF ScanProbe, index, heap
<1>2. current' = probes[turn] /\ lane' = 1 /\ pc' = "scan" /\ caller' = "probe"
  BY <1>1 DEF Scan
<1>3. IvfType BY DEF IInv, ChoiceInv
<1>4. turn \in 1 .. Len(probes) /\ turn \in Nat \ {0} /\ cluster \in 1 .. K + 1
      /\ turn' <= Initial + 1 /\ turn + 1 \in Nat \ {0}
  <2>1. Initial \in 0 .. Len(probes) /\ Len(probes) \in Nat BY <1>3, InitialIs, SizeNat
  <2>2. turn \in Nat \ {0} /\ cluster \in 1 .. K + 1 BY <1>3 DEF IvfType
  <2> QED BY <1>1, <2>1, <2>2
<1>5. /\ probes[turn] \in 1 .. K /\ ~Passed(probes[turn])
      /\ \A c \in 1 .. K : Passed(c)' <=> Passed(c) \/ c = probes[turn]
  BY <1>1, <1>2, <1>4, NextProbe DEF Phase
<1>6. ScanInv' BY <1>1, <1>4, <1>5, ScanStarts
<1>7. ChoiceInv' BY <1>1, <1>2, <1>3, <1>4, <1>5, ChoiceMade DEF Choosing, IvfType
<1> QED BY <1>6, <1>7 DEF IInv

LEMMA RepairFastStep == IInv /\ RepairFast => IInv'
<1> SUFFICES ASSUME IInv, RepairFast PROVE IInv' OBVIOUS
<1>1. /\ pc = "fast" /\ turn <= Len(probes) /\ turn' = turn + 1 /\ probes' = probes
      /\ UNCHANGED <<query, label, best, heap, cluster>>
  BY DEF RepairFast, index, heap
<1>2. IvfType BY DEF IInv, ChoiceInv
<1>3. turn \in 1 .. Len(probes) /\ turn + 1 \in Nat \ {0}
  <2>1. Len(probes) \in Nat /\ turn \in Nat \ {0} BY <1>2, SizeNat DEF IvfType
  <2> QED BY <1>1, <2>1
<1>4. CASE TooFar(probes[turn])
  <2>1. pc' = pc /\ caller' = caller /\ UNCHANGED <<current, lane>>
    BY <1>4 DEF RepairFast, scan
  <2>2. /\ probes[turn] \in 1 .. K
        /\ \A c \in 1 .. K : Passed(c)' <=> Passed(c) \/ c = probes[turn]
    BY <1>1, <1>3, <2>1, NextProbe DEF Phase
  <2>3. ScanInv' BY <1>1, <1>4, <2>1, <2>2, ScanSkips
  <2>4. ChoiceInv' BY <1>1, <1>2, <1>3, <2>1, ChoiceMade DEF Choosing, IvfType
  <2> QED BY <2>3, <2>4 DEF IInv
<1>5. CASE ~TooFar(probes[turn])
  <2>1. Scan(probes[turn]) BY <1>5 DEF RepairFast
  <2>2. current' = probes[turn] /\ lane' = 1 /\ pc' = "scan" /\ caller' = "fast"
    BY <1>1, <2>1 DEF Scan
  <2>3. /\ probes[turn] \in 1 .. K /\ ~Passed(probes[turn])
        /\ \A c \in 1 .. K : Passed(c)' <=> Passed(c) \/ c = probes[turn]
    BY <1>1, <1>3, <2>2, NextProbe DEF Phase
  <2>4. ScanInv' BY <1>1, <2>1, <2>3, ScanStarts
  <2>5. ChoiceInv' BY <1>1, <1>2, <1>3, <2>2, <2>3, ChoiceMade DEF Choosing, IvfType
  <2> QED BY <2>4, <2>5 DEF IInv
<1> QED BY <1>4, <1>5

LEMMA RepairFullStep == IInv /\ RepairFull => IInv'
<1> SUFFICES ASSUME IInv, RepairFull PROVE IInv' OBVIOUS
<1>1. /\ pc = "full" /\ cluster <= K /\ cluster' = cluster + 1 /\ probes' = probes
      /\ UNCHANGED <<query, label, best, heap, turn>>
  BY DEF RepairFull, index, heap
<1>2. IvfType BY DEF IInv, ChoiceInv
<1>3. cluster \in 1 .. K /\ cluster + 1 \in 1 .. K + 1
  <2>1. K \in Nat /\ cluster \in 1 .. K + 1 BY <1>2, SizeNat DEF IvfType
  <2> QED BY <1>1, <2>1
<1>4. CASE Empty(cluster) \/ Seen(cluster) \/ TooFar(cluster)
  <2>1. pc' = pc /\ caller' = caller /\ UNCHANGED <<current, lane>>
    BY <1>4 DEF RepairFull, scan
  <2>2. /\ Passed(cluster) <=> Seen(cluster)
        /\ \A c \in 1 .. K : Passed(c)' <=> Passed(c) \/ c = cluster
    BY <1>1, <1>3, <2>1, NextCluster DEF Phase
  <2>3. ScanInv' BY <1>1, <1>3, <1>4, <2>1, <2>2, ScanSkips
  <2>4. ChoiceInv' BY <1>1, <1>2, <1>3, <2>1, ChoiceMade DEF Choosing, IvfType
  <2> QED BY <2>3, <2>4 DEF IInv
<1>5. CASE ~(Empty(cluster) \/ Seen(cluster) \/ TooFar(cluster))
  <2>1. Scan(cluster) BY <1>5 DEF RepairFull
  <2>2. current' = cluster /\ lane' = 1 /\ pc' = "scan" /\ caller' = "full"
    BY <1>1, <2>1 DEF Scan
  <2>3. /\ Passed(cluster) <=> Seen(cluster)
        /\ \A c \in 1 .. K : Passed(c)' <=> Passed(c) \/ c = cluster
    BY <1>1, <1>3, <2>2, NextCluster DEF Phase
  <2>4. ScanInv' BY <1>1, <1>3, <1>5, <2>1, <2>3, ScanStarts
  <2>5. ChoiceInv' BY <1>1, <1>2, <1>3, <2>2, ChoiceMade DEF Choosing, IvfType
  <2> QED BY <2>4, <2>5 DEF IInv
<1> QED BY <1>4, <1>5

\* Once the first probes are scanned, the repair goes on where they ended.
LEMMA DecideStep == IInv /\ Decide => IInv'
<1> SUFFICES ASSUME IInv, Decide PROVE IInv' OBVIOUS
<1>1. /\ pc = "probe" /\ turn > Initial /\ turn' = NPROBE + 1
      /\ pc' = IF Unanimous /\ Tight THEN "done" ELSE "fast"
      /\ probes' = probes
      /\ UNCHANGED <<query, label, best, caller, heap, cluster, current, lane>>
  BY DEF Decide, FirstRepair, index, heap, scan
<1>2. IvfType BY DEF IInv, ChoiceInv
<1>3. NPROBE + 1 \in Nat \ {0} BY IvfConstants
<1>4. ChoiceInv' BY <1>1, <1>2, <1>3, ChoiceMade DEF Choosing, IvfType
<1>5. CASE Unanimous /\ Tight BY <1>1, <1>4, <1>5, VerdictGiven DEF IInv
<1>6. CASE ~(Unanimous /\ Tight)
  <2>1. pc' = "fast" BY <1>1, <1>6
  <2>2. \A i \in 1 .. Len(probes) : i < turn <=> i < NPROBE + 1
    <3>1. /\ Initial \in 0 .. Len(probes) /\ Initial <= NPROBE
          /\ (Initial < NPROBE => Initial = Len(probes))
      BY <1>2, InitialIs
    <3>2. turn = Initial + 1
      <4>1. turn <= Initial + 1 BY <1>1 DEF IInv, ScanInv, ScanPlace
      <4>2. turn \in Nat BY <1>2 DEF IvfType
      <4> QED BY <1>1, <3>1, <4>1, <4>2
    <3>3. Len(probes) \in Nat /\ NPROBE \in Nat BY <1>2, SizeNat, IvfConstants
    <3> QED BY <3>1, <3>2, <3>3
  <2>3. \A c : Passed(c)' <=> Passed(c) BY <1>1, <2>1, <2>2 DEF Passed, Phase
  <2>4. \A p : Met(p)' <=> Met(p) BY <1>1, <2>1, <2>3 DEF Met
  <2>5. ScanPlace' BY <2>1 DEF ScanPlace, Phase
  <2>6. ScanInv' BY <1>1, <2>1, <2>4, <2>5, MoreMet
  <2> QED BY <1>4, <2>6 DEF IInv
<1> QED BY <1>5, <1>6

\* After the fast repair all probes are passed.
LEMMA StillDividedStep == IInv /\ StillDivided => IInv'
<1> SUFFICES ASSUME IInv, StillDivided PROVE IInv' OBVIOUS
<1>1. /\ pc = "fast" /\ turn > Len(probes) /\ cluster' = 1
      /\ pc' = IF Divided THEN "full" ELSE "done"
      /\ probes' = probes
      /\ UNCHANGED <<query, label, best, caller, heap, turn, current, lane>>
  BY DEF StillDivided, index, heap, scan
<1>2. IvfType BY DEF IInv, ChoiceInv
<1>3. K \in Nat \ {0} /\ Len(probes) \in Nat /\ turn \in Nat
  BY <1>2, SizeNat DEF IvfType
<1>4. ChoiceInv' BY <1>1, <1>2, <1>3, ChoiceMade DEF Choosing, IvfType
<1>5. \A c : Passed(c) <=> Seen(c)
  <2>1. \A i \in 1 .. Len(probes) : i < turn BY <1>1, <1>3
  <2> QED BY <1>1, <2>1 DEF Passed, Phase, Seen
<1>6. CASE ~Divided
  <2>1. Unanimous BY <1>6, DividedOrUnanimous
  <2>2. NearestOf(UNION {Members(probes[i]) : i \in 1 .. Len(probes)})
    <3> SUFFICES ASSUME NEW i \in 1 .. Len(probes), NEW p \in Members(probes[i]), p \notin Kept
                 PROVE  D(p) >= Worst
      BY DEF NearestOf
    <3>1. probes[i] \in 1 .. K BY <1>2, CentroidNat
    <3>2. p \in Points BY <3>1, PointsIn
    <3>3. Passed(probes[i]) BY <1>5 DEF Seen
    <3>4. Met(p) BY <1>1, <3>1, <3>3 DEF Met
    <3> QED BY <1>1, <3>2, <3>4 DEF IInv, ScanInv, MetCounts
  <2>3. ScanInv' BY <1>1, <1>6, <2>1, <2>2, VerdictGiven
  <2> QED BY <1>4, <2>3 DEF IInv
<1>7. CASE Divided
  <2>1. pc' = "full" BY <1>1, <1>7
  <2>2. \A c \in 1 .. K : Passed(c)' <=> Passed(c)
    <3>1. \A c \in 1 .. K : ~(c < 1) BY <1>3
    <3> QED BY <1>1, <1>5, <2>1, <3>1 DEF Passed, Phase, Seen
  <2>3. \A p : Met(p)' <=> Met(p) BY <1>1, <2>1, <2>2 DEF Met
  <2>4. ScanPlace' BY <2>1 DEF ScanPlace, Phase
  <2>5. ScanInv' BY <1>1, <2>1, <2>3, <2>4, MoreMet
  <2> QED BY <1>4, <2>5 DEF IInv
<1> QED BY <1>6, <1>7

\* After the full repair every point was met.
LEMMA FinishStep == IInv /\ Finish => IInv'
<1> SUFFICES ASSUME IInv, Finish PROVE IInv' OBVIOUS
<1>1. /\ pc = "full" /\ cluster > K /\ pc' = "done" /\ probes' = probes
      /\ UNCHANGED <<query, label, best, caller, heap, turn, cluster, current, lane>>
  BY DEF Finish, index, heap, scan
<1>2. IvfType BY DEF IInv, ChoiceInv
<1>3. ChoiceInv' BY <1>1, <1>2, ChoiceMade DEF Choosing, IvfType
<1>4. NearestOf(Points)
  <2> SUFFICES ASSUME NEW p \in Points, p \notin Kept PROVE D(p) >= Worst
    BY DEF NearestOf
  <2>1. PICK c \in 1 .. K : p \in Members(c) BY IvfIndex
  <2>2. K \in Nat /\ cluster \in 1 .. K + 1 BY <1>2, SizeNat DEF IvfType
  <2>3. c < cluster BY <1>1, <2>1, <2>2
  <2>4. Passed(c) BY <1>1, <2>3 DEF Passed, Phase
  <2>5. Met(p) BY <1>1, <2>1, <2>4 DEF Met
  <2> QED BY <1>1, <2>5 DEF IInv, ScanInv, MetCounts
<1>5. ScanInv' BY <1>1, <1>4, VerdictGiven
<1> QED BY <1>3, <1>5 DEF IInv

LEMMA ScanDoneStep == IInv /\ ScanDone => IInv'
<1> SUFFICES ASSUME IInv, ScanDone PROVE IInv' OBVIOUS
<1>1. /\ pc = "scan" /\ lane > Len(Cluster[current]) /\ caller \in {"probe", "fast", "full"}
      /\ pc' = IF caller = "fast" /\ ~Divided /\ Tight THEN "done" ELSE caller
      /\ probes' = probes
      /\ UNCHANGED <<query, label, best, caller, heap, turn, cluster, current, lane>>
  BY DEF ScanDone, index, heap, scan, IInv, ChoiceInv, Control
<1>2. IvfType BY DEF IInv, ChoiceInv
<1>3. ChoiceInv' BY <1>1, <1>2, ChoiceMade DEF Choosing, IvfType
<1>4. CASE caller = "fast" /\ ~Divided /\ Tight
  <2>1. Unanimous BY <1>4, DividedOrUnanimous
  <2>2. ScanInv' BY <1>1, <1>4, <2>1, VerdictGiven
  <2> QED BY <1>3, <2>2 DEF IInv
<1>5. CASE ~(caller = "fast" /\ ~Divided /\ Tight)
  <2>1. pc' = caller BY <1>1, <1>5
  <2>2. \A c : Passed(c)' <=> Passed(c) BY <1>1, <2>1 DEF Passed, Phase, Seen
  <2>3. current \in 1 .. K /\ Passed(current)
    BY <1>1, <1>2 DEF IInv, ScanInv, ScanPlace, IvfType
  <2>4. Len(Cluster[current]) \in Nat /\ lane \in Nat
    BY <1>2, <2>3, SizeNat DEF IvfType
  <2>5. \A p : p \in Members(current) <=>
               \E i \in 1 .. Len(Cluster[current]) : i < lane /\ Cluster[current][i] = p
    BY <1>1, <2>4 DEF Members
  <2>6. \A p : Met(p)' <=> \E c \in 1 .. K : p \in Members(c) /\ Passed(c)
    BY <1>1, <2>1, <2>2 DEF Met
  <2>7. \A p : Met(p) <=> \/ \E c \in 1 .. K : p \in Members(c) /\ Passed(c) /\ c # current
                          \/ p \in Members(current)
    BY <1>1, <2>5 DEF Met
  <2>8. \A p : Met(p)' <=> Met(p) BY <2>3, <2>6, <2>7
  <2>9. ScanPlace' BY <1>1, <2>1 DEF IInv, ScanInv, ScanPlace, Phase, Initial
  <2>10. ScanInv' BY <1>1, <2>1, <2>8, <2>9, MoreMet
  <2> QED BY <1>3, <2>10 DEF IInv
<1> QED BY <1>4, <1>5

\* A point is met for the first time when its turn comes.
LEMMA ScanPointStep == IInv /\ ScanPoint => IInv'
<1> SUFFICES ASSUME IInv, ScanPoint PROVE IInv' OBVIOUS
<1>0. PICK p : p = Cluster[current][lane] OBVIOUS
<1>1. /\ pc = "scan" /\ lane <= Len(Cluster[current])
      /\ IF D(p) < Worst THEN InsertBest(p) ELSE UNCHANGED best
      /\ lane' = lane + 1 /\ probes' = probes
      /\ UNCHANGED <<query, label, pc, caller, heap, turn, cluster, current>>
  BY <1>0 DEF ScanPoint, index, heap
<1>2. IvfType /\ BestSorted /\ CountedOnce
  BY DEF IInv, ChoiceInv, ScanInv
<1>3. current \in 1 .. K /\ lane \in Nat \ {0} /\ Len(Cluster[current]) \in Nat
  BY <1>2, SizeNat DEF IvfType
<1>4. lane \in 1 .. Len(Cluster[current]) BY <1>1, <1>3
<1>5. p \in Members(current) /\ p \in Points
  <2>1. p \in Members(current) BY <1>0, <1>4 DEF Members
  <2> QED BY <1>3, <2>1, PointsIn
<1>6. \A i \in 1 .. Len(Cluster[current]) : Cluster[current][i] = p => i = lane
  BY <1>0, <1>3, <1>4, IvfIndex
<1>7. ~Met(p)
  <2>1. \A i \in 1 .. Len(Cluster[current]) : i < lane => Cluster[current][i] # p
    BY <1>3, <1>6
  <2>2. \A c \in 1 .. K : p \in Members(c) => c = current BY <1>3, <1>5, IvfIndex
  <2> QED BY <1>1, <2>1, <2>2 DEF Met
<1>8. \A r : Met(r)' <=> Met(r) \/ r = p
  <2>1. \A c : Passed(c)' <=> Passed(c) BY <1>1 DEF Passed, Phase, Seen
  <2>2. \A i \in 1 .. Len(Cluster[current]) : i < lane + 1 <=> i < lane \/ i = lane
    BY <1>3
  <2>3. \A r : (\E i \in 1 .. Len(Cluster[current]) : i < lane + 1 /\ Cluster[current][i] = r)
           <=> \/ \E i \in 1 .. Len(Cluster[current]) : i < lane /\ Cluster[current][i] = r
               \/ r = p
    BY <1>0, <1>4, <2>2
  <2>4. \A r : Met(r)' <=>
          \/ \E c \in 1 .. K : r \in Members(c) /\ Passed(c) /\ c # current
          \/ \E i \in 1 .. Len(Cluster[current]) : i < lane + 1 /\ Cluster[current][i] = r
    BY <1>1, <2>1 DEF Met
  <2>5. \A r : Met(r) <=>
          \/ \E c \in 1 .. K : r \in Members(c) /\ Passed(c) /\ c # current
          \/ \E i \in 1 .. Len(Cluster[current]) : i < lane /\ Cluster[current][i] = r
    BY <1>1 DEF Met
  <2> QED BY <2>3, <2>4, <2>5
<1>9. p \notin Kept BY <1>1, <1>7 DEF IInv, ScanInv, KeptMet
<1>10. \A r \in Points : Met(r) => r \in Kept \/ D(r) >= Worst
  BY <1>1 DEF IInv, ScanInv, MetCounts
<1>11. \A r \in Kept : Met(r) BY <1>1 DEF IInv, ScanInv, KeptMet
<1>12. \A r : D(r)' = D(r) BY <1>1 DEF D
<1>13. /\ best' \in [1 .. TOP_K -> Points \cup {NoPoint}]
       /\ BestSorted' /\ CountedOnce' /\ Kept' \subseteq Kept \cup {p}
       /\ Worst' <= Worst /\ (p \in Kept' \/ D(p) >= Worst')
       /\ \A r \in Kept : r \in Kept' \/ D(r) >= Worst'
  <2>1. CASE D(p) < Worst
    <3>1. InsertBest(p) BY <1>1, <2>1
    <3> QED BY <1>1, <1>2, <1>5, <1>9, <2>1, <3>1, InsertKeeps, InsertOnce
  <2>2. CASE ~(D(p) < Worst)
    <3>1. UNCHANGED <<query, best>> BY <1>1, <2>2
    <3>2. BestSorted' /\ Worst' = Worst /\ Kept' = Kept BY <1>2, <3>1, SameBest
    <3>3. best' \in [1 .. TOP_K -> Points \cup {NoPoint}] BY <1>2, <3>1 DEF IvfType
    <3>4. CountedOnce' BY <1>2, <3>1 DEF CountedOnce
    <3>5. Worst \in Int /\ D(p) \in Int BY <1>2, <1>5, Distances
    <3> QED BY <2>2, <3>2, <3>3, <3>4, <3>5
  <2> QED BY <2>1, <2>2
<1>14. ChoiceInv'
  <2>1. lane + 1 \in Nat \ {0} BY <1>3
  <2>2. caller \in {"probe", "fast", "full"} BY <1>1 DEF IInv, ChoiceInv, Control
  <2> QED BY <1>1, <1>2, <1>13, <2>1, <2>2, ChoiceMade DEF Choosing, IvfType
<1>15. Worst' \in Int /\ Worst \in Int /\ \A r \in Points : D(r) \in Int
  <2>1. TOP_K \in 1 .. TOP_K BY IvfConstants
  <2>2. best'[TOP_K] \in Points \cup {NoPoint} BY <1>13, <2>1
  <2>3. D(best'[TOP_K]) \in Int BY <1>2, <2>2, DistType
  <2>4. Worst' = D(best'[TOP_K]) BY <1>12 DEF Worst, D
  <2> QED BY <1>2, <2>3, <2>4, Distances
<1>16. MetCounts'
  <2> SUFFICES ASSUME NEW r \in Points, Met(r)' PROVE r \in Kept' \/ D(r) >= Worst'
    BY <1>12 DEF MetCounts
  <2>1. CASE r = p BY <1>13, <2>1
  <2>2. CASE r \in Kept BY <1>13, <2>2
  <2>3. CASE Met(r) /\ r \notin Kept BY <1>10, <1>13, <1>15, <2>3
  <2> QED BY <1>8, <2>1, <2>2, <2>3
<1>17. KeptMet' BY <1>8, <1>11, <1>13 DEF KeptMet
<1>18. ScanPlace'
  <2>1. Passed(current)' BY <1>1 DEF IInv, ScanInv, ScanPlace, Passed, Phase, Seen
  <2>2. lane + 1 <= Len(Cluster[current]) + 1 BY <1>3, <1>4
  <2>3. Phase = "probe" => turn <= Initial + 1 BY DEF IInv, ScanInv, ScanPlace
  <2> QED BY <1>1, <2>1, <2>2, <2>3 DEF ScanPlace, Phase, Initial
<1>19. InexactOnlyIfUnanimous' BY <1>1 DEF InexactOnlyIfUnanimous
<1> QED BY <1>13, <1>14, <1>16, <1>17, <1>18, <1>19 DEF IInv, ScanInv

-----------------------------------------------------------------------------
(***************************************************************************)
(* The invariant.                                                          *)
(***************************************************************************)
LEMMA InitIInv == Init => IInv
<1> SUFFICES ASSUME Init PROVE IInv OBVIOUS
<1>1. ChoiceInv BY InitChoice
<1>2. pc = "offer" /\ turn = 1 /\ \A i \in 1 .. TOP_K : best[i] = NoPoint BY DEF Init
<1>3. Kept = {} BY <1>2 DEF Kept
<1>4. BestSorted
  <2>1. \A i \in 1 .. TOP_K : D(best[i]) = MaxDist BY <1>2 DEF D
  <2> QED BY <2>1, IvfConstants DEF BestSorted
<1>5. CountedOnce BY <1>2 DEF CountedOnce
<1>6. \A p : ~Met(p) BY <1>2 DEF Met, Passed, Phase
<1>7. MetCounts /\ KeptMet BY <1>3, <1>6 DEF MetCounts, KeptMet
<1>8. ScanPlace /\ InexactOnlyIfUnanimous
  BY <1>2 DEF ScanPlace, Phase, InexactOnlyIfUnanimous
<1> QED BY <1>1, <1>4, <1>5, <1>7, <1>8 DEF IInv, ScanInv

\* The steps that choose the probes.
LEMMA ChoiceStep ==
  ASSUME IInv, Skip \/ Push \/ Replace \/ Rise \/ Sink \/ OfferDone \/ Sort \/ SortDone
  PROVE  IInv'
<1>1. ChoiceInv'
  BY SkipStep, PushStep, ReplaceStep, RiseStep, SinkStep, OfferDoneStep, SortStep,
     SortDoneStep DEF IInv
<1>2. caller \in {"offer", "sort"} \/ pc # "sink" BY DEF IInv, ChoiceInv, Control
<1>3. Choosing /\ pc' \in {"offer", "rise", "sink", "sort", "probe"}
  BY <1>2 DEF Choosing, Skip, Push, Replace, Rise, Sink, OfferDone, Sort, SortDone
<1>4. UNCHANGED <<query, label, best, turn>>
  BY DEF Skip, Push, Replace, Rise, Sink, OfferDone, Sort, SortDone, index
<1> QED BY <1>1, <1>3, <1>4, ScanIdle DEF IInv

LEMMA StepIInv == IInv /\ [Next]_vars => IInv'
<1> SUFFICES ASSUME IInv, [Next]_vars PROVE IInv' OBVIOUS
<1>1. CASE Next
  BY <1>1, ChoiceStep, ScanProbeStep, ScanPointStep, ScanDoneStep, DecideStep,
     RepairFastStep, StillDividedStep, RepairFullStep, FinishStep DEF Next
<1>2. CASE UNCHANGED vars
  <2> USE <1>2 DEF vars, index, heap, scan
  <2>1. IvfType' /\ Control' BY DEF IInv, ChoiceInv, IvfType, Control, Choosing
  <2>2. HeapInv'
    BY DEF IInv, ChoiceInv, HeapInv, HeapOrder, HeapBridge, TailSorted, ChosenOnce,
       ChosenNearest, Offered, Choosing, Seen, Full, Empty, C
  <2>3. BestSorted' /\ CountedOnce' /\ ScanPlace'
    BY SameBest DEF IInv, ScanInv, CountedOnce, ScanPlace, Passed, Phase, Seen, Initial
  <2>4. \A p : Met(p)' <=> Met(p) BY DEF Met, Passed, Phase, Seen
  <2>5. MetCounts' /\ KeptMet'
    BY <2>4, SameBest DEF IInv, ScanInv, MetCounts, KeptMet
  <2>6. InexactOnlyIfUnanimous'
    BY SameBest DEF IInv, ScanInv, InexactOnlyIfUnanimous, NearestOf, Unanimous, Frauds
  <2> QED BY <2>1, <2>2, <2>3, <2>5, <2>6 DEF IInv, ChoiceInv, ScanInv
<1> QED BY <1>1, <1>2

LEMMA InductiveInvariant == Spec => []IInv
<1> QED BY InitIInv, StepIInv, PTL DEF Spec

-----------------------------------------------------------------------------
\* The heap of score_qq_ivf gives the clusters with the nearest centroids in
\* their order, for any number of clusters and probes and whatever is equally
\* far.
THEOREM ChoosesNearest == Spec => []ProbesNearest
<1>1. IInv => ProbesNearest
  <2> SUFFICES ASSUME IInv, ~Choosing PROVE ProbesNearest BY DEF ProbesNearest
  <2> DEFINE chosen == {probes[i] : i \in 1 .. Len(probes)}
             others == {c \in 1 .. K : ~Empty(c)} \ chosen
  <2>1. IvfType /\ Control /\ HeapInv BY DEF IInv, ChoiceInv
  <2>2. Offered = 1 .. K /\ size <= 1 /\ size \in Nat
    BY <2>1, CentroidNat DEF Offered, Control
  <2>3. \A c \in chosen : ~Empty(c) BY <2>1 DEF HeapInv, ChosenOnce
  <2>4. ASSUME NEW i \in 1 .. Len(probes), NEW j \in 1 .. Len(probes), i < j
        PROVE  probes[i] # probes[j] /\ C(probes[i]) <= C(probes[j])
    <3>1. j > size /\ i # j BY <2>2, <2>4
    <3> QED BY <2>1, <2>4, <3>1 DEF HeapInv, ChosenOnce, TailSorted
  <2>5. \A o \in others : Full /\ \A i \in 1 .. Len(probes) : C(probes[i]) <= C(o)
    <3> SUFFICES ASSUME NEW o \in others
                 PROVE  Full /\ \A i \in 1 .. Len(probes) : C(probes[i]) <= C(o)
      OBVIOUS
    <3>1. o \in Offered /\ ~Empty(o) /\ ~Seen(o) BY <2>2 DEF Seen
    <3> QED BY <2>1, <3>1 DEF HeapInv, ChosenNearest
  <2>6. \A c \in chosen, o \in others : C(c) <= C(o) BY <2>5
  <2>7. others # {} => Len(probes) = MAX_PROBES BY <2>5 DEF Full
  <2> HIDE DEF chosen, others
  <2> QED BY <2>3, <2>4, <2>6, <2>7 DEF ProbesNearest, chosen, others
<1> QED BY <1>1, InductiveInvariant, PTL

\* However the first scan, the fast repair and the full repair share the
\* clusters, no point takes two of the kept places.
THEOREM CountsOnce == Spec => []CountedOnce
<1>1. IInv => CountedOnce BY DEF IInv, ScanInv
<1> QED BY <1>1, InductiveInvariant, PTL

\* For every index with sound boxes and every query: a divided verdict is that
\* of an exhaustive search, and an inexact one is unanimous and either near or
\* nearest among the probed clusters.
THEOREM InexactOnlyUnanimous == Spec => []InexactOnlyIfUnanimous
<1>1. IInv => InexactOnlyIfUnanimous BY DEF IInv, ScanInv
<1> QED BY <1>1, InductiveInvariant, PTL
=============================================================================
