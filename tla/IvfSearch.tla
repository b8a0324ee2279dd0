------------------------------ MODULE IvfSearch ------------------------------
(***************************************************************************)
(* The clustered search of src/index.zig (score_qq_ivf): the points of the *)
(* NPROBE clusters with the nearest centroids are scanned first; if these  *)
(* do not settle the verdict, those of up to MAX_PROBES clusters           *)
(* (repair_fast), and if the verdict is still divided, all (repair_full).  *)
(*                                                                         *)
(* The index is constant.  One action is one turn of a loop: a cluster     *)
(* offered, two entries of the heap exchanged, a probe, a point scanned    *)
(* (blk_dist_prune skips only blocks none of whose points is near enough   *)
(* to be taken).                                                           *)
(***************************************************************************)
EXTENDS Integers, Sequences, FiniteSets

CONSTANTS
  Queries, Points, NoPoint,
  Labelings,      \* the labels an index may have: functions to {0, 1}
  K,              \* clusters are 1 .. K
  Cluster,        \* points of each cluster, in storage order
  CentroidDist,   \* distance of each centroid, by query
  Dist, Bound,    \* distance of each point, lower bound of each cluster's box
  MaxDist,        \* maxInt(i64)
  TOP_K, NPROBE, MAX_PROBES, REPAIR_MIN, REPAIR_MAX, EARLY_DIST

Members(c) == {Cluster[c][i] : i \in 1 .. Len(Cluster[c])}

ASSUME IvfConstants ==
  /\ TOP_K \in Nat \ {0} /\ K \in Nat \ {0} /\ NoPoint \notin Points
  /\ NPROBE \in Nat /\ MAX_PROBES \in Nat \ {0} /\ NPROBE <= MAX_PROBES
  /\ REPAIR_MIN = 1 /\ REPAIR_MAX = TOP_K - 1
  /\ Labelings \subseteq [Points -> {0, 1}]
  /\ Cluster \in [1 .. K -> Seq(Points)]
  /\ MaxDist \in Nat /\ EARLY_DIST \in 0 .. MaxDist - 1
  /\ CentroidDist \in [Queries -> [1 .. K -> Nat]]
  /\ Dist \in [Queries -> [Points -> 0 .. MaxDist - 1]]
  /\ Bound \in [Queries -> [1 .. K -> Nat]]

\* What the builder guarantees: every point is stored once, and the box of a
\* cluster encloses its points.
ASSUME IvfIndex ==
  /\ \A p \in Points : \E c \in 1 .. K : p \in Members(c)
  /\ \A c, d \in 1 .. K : c # d => Members(c) \cap Members(d) = {}
  /\ \A c \in 1 .. K : \A i, j \in 1 .. Len(Cluster[c]) :
       Cluster[c][i] = Cluster[c][j] => i = j
  /\ \A q \in Queries, c \in 1 .. K : \A p \in Members(c) : Bound[q][c] <= Dist[q][p]

VARIABLES
  query, label,
  best,       \* best_d and best_l: the nearest points so far, nearest first
  pc,
  caller,     \* where heap_sift_down and scan_cluster return to
  probes,     \* clusters, first a heap with the farthest on top, then sorted
  size, at,   \* entries that are the heap, and the one that moves in it
  turn,       \* the probe in hand
  cluster,    \* the cluster in hand of a loop over all
  current, lane   \* the scan: its cluster and its next point

index == <<query, label>>
heap == <<probes, size, at>>
scan == <<current, lane>>
vars == <<index, best, pc, caller, heap, turn, cluster, scan>>

D(p) == IF p = NoPoint THEN MaxDist ELSE Dist[query][p]
Worst == D(best[TOP_K])
Frauds ==
  Cardinality({i \in 1 .. TOP_K : best[i] # NoPoint /\ label[best[i]] = 1})

Init ==
  /\ query \in Queries /\ label \in Labelings
  /\ best = [i \in 1 .. TOP_K |-> NoPoint]
  /\ pc = "offer" /\ caller = "offer"
  /\ probes = <<>> /\ size = 0 /\ at = 1 /\ turn = 1 /\ cluster = 1
  /\ current = 1 /\ lane = 1

-----------------------------------------------------------------------------
(***************************************************************************)
(* The heap of probes.                                                     *)
(***************************************************************************)
C(c) == CentroidDist[query][c]
Empty(c) == Cluster[c] = <<>>
Full == Len(probes) = MAX_PROBES

\* A cluster without points, or one that insert_probe refuses.
Skip ==
  /\ pc = "offer" /\ cluster <= K
  /\ Empty(cluster) \/ (Full /\ C(cluster) >= C(probes[1]))
  /\ cluster' = cluster + 1
  /\ UNCHANGED <<index, best, pc, caller, heap, turn, scan>>

\* insert_probe, while there is room.
Push ==
  /\ pc = "offer" /\ cluster <= K /\ ~Empty(cluster) /\ ~Full
  /\ probes' = Append(probes, cluster)
  /\ size' = size + 1 /\ at' = size + 1
  /\ pc' = "rise" /\ cluster' = cluster + 1
  /\ UNCHANGED <<index, best, caller, turn, scan>>

\* insert_probe, when the farthest has to go.
Replace ==
  /\ pc = "offer" /\ cluster <= K /\ ~Empty(cluster) /\ Full
  /\ C(cluster) < C(probes[1])
  /\ probes' = [probes EXCEPT ![1] = cluster] /\ at' = 1
  /\ pc' = "sink" /\ caller' = "offer" /\ cluster' = cluster + 1
  /\ UNCHANGED <<index, best, size, turn, scan>>

Swapped(h, i, j) == [h EXCEPT ![i] = h[j], ![j] = h[i]]

\* heap_sift_up, one turn.
Parent(i) == i \div 2
MayRise == at > 1 /\ C(probes[at]) > C(probes[Parent(at)])

Rise ==
  /\ pc = "rise"
  /\ IF MayRise
       THEN /\ probes' = Swapped(probes, at, Parent(at)) /\ at' = Parent(at)
            /\ UNCHANGED pc
       ELSE pc' = "offer" /\ UNCHANGED <<probes, at>>
  /\ UNCHANGED <<index, best, caller, size, turn, cluster, scan>>

\* (Variant: the right child is not looked at.)
LeftOnly(i) ==
  IF 2 * i <= size /\ C(probes[2 * i]) > C(probes[i]) THEN 2 * i ELSE i

\* The largest of a node and its children; the first of equals.
Largest(i) ==
  LET family == {j \in {i, 2 * i, 2 * i + 1} : j <= size} IN
  CHOOSE j \in family : \A m \in family :
    C(probes[m]) < C(probes[j]) \/ (C(probes[m]) = C(probes[j]) /\ j <= m)

\* heap_sift_down, one turn.
Sink ==
  /\ pc = "sink"
  /\ IF Largest(at) = at
       THEN pc' = caller /\ UNCHANGED <<probes, at>>
       ELSE /\ probes' = Swapped(probes, at, Largest(at)) /\ at' = Largest(at)
            /\ UNCHANGED pc
  /\ UNCHANGED <<index, best, caller, size, turn, cluster, scan>>

OfferDone ==
  /\ pc = "offer" /\ cluster > K
  /\ pc' = "sort"
  /\ UNCHANGED <<index, best, caller, heap, turn, cluster, scan>>

\* heap_to_sorted, one turn: the farthest leaves the heap for its end.
Sort ==
  /\ pc = "sort" /\ size > 1
  /\ probes' = Swapped(probes, 1, size) /\ size' = size - 1 /\ at' = 1
  /\ pc' = "sink" /\ caller' = "sort"
  /\ UNCHANGED <<index, best, turn, cluster, scan>>

SortDone ==
  /\ pc = "sort" /\ size <= 1
  /\ pc' = "probe"
  /\ UNCHANGED <<index, best, caller, heap, turn, cluster, scan>>

-----------------------------------------------------------------------------
(***************************************************************************)
(* Scans.                                                                  *)
(***************************************************************************)
\* scan_cluster
Scan(c) ==
  /\ current' = c /\ lane' = 1
  /\ pc' = "scan" /\ caller' = pc

\* insert_best: after those that are as near, and the last one falls out.
InsertBest(p) ==
  LET pos == Cardinality({i \in 1 .. TOP_K : D(best[i]) <= D(p)}) + 1 IN
  best' = [i \in 1 .. TOP_K |-> IF i < pos THEN best[i]
                                ELSE IF i = pos THEN p ELSE best[i - 1]]

ScanPoint ==
  LET p == Cluster[current][lane] IN
  /\ pc = "scan" /\ lane <= Len(Cluster[current])
  /\ IF D(p) < Worst THEN InsertBest(p) ELSE UNCHANGED best
  /\ lane' = lane + 1
  /\ UNCHANGED <<index, pc, caller, heap, turn, cluster, current>>

Unanimous == Frauds \in {0, TOP_K}
Divided == Frauds \in REPAIR_MIN .. REPAIR_MAX

\* (Variant: the first place is looked at, not the last.)
TightFirst == D(best[1]) <= EARLY_DIST

Tight == Worst <= EARLY_DIST

\* repair_fast stops when a scan has settled the verdict.
ScanDone ==
  /\ pc = "scan" /\ lane > Len(Cluster[current])
  /\ pc' = IF caller = "fast" /\ ~Divided /\ Tight THEN "done" ELSE caller
  /\ UNCHANGED <<index, best, caller, heap, turn, cluster, scan>>

-----------------------------------------------------------------------------
(***************************************************************************)
(* score_qq_ivf                                                            *)
(***************************************************************************)
Initial == IF NPROBE < Len(probes) THEN NPROBE ELSE Len(probes)

ScanProbe ==
  /\ pc = "probe" /\ turn <= Initial
  /\ Scan(probes[turn]) /\ turn' = turn + 1
  /\ UNCHANGED <<index, best, heap, cluster>>

FirstRepair == NPROBE + 1

Decide ==
  /\ pc = "probe" /\ turn > Initial
  /\ pc' = IF Unanimous /\ Tight THEN "done" ELSE "fast"
  /\ turn' = FirstRepair
  /\ UNCHANGED <<index, best, caller, heap, cluster, scan>>

TooFar(c) == Bound[query][c] >= Worst

\* repair_fast, one probe.
RepairFast ==
  /\ pc = "fast" /\ turn <= Len(probes)
  /\ IF TooFar(probes[turn]) THEN UNCHANGED <<pc, caller, scan>>
                             ELSE Scan(probes[turn])
  /\ turn' = turn + 1
  /\ UNCHANGED <<index, best, heap, cluster>>

StillDivided ==
  /\ pc = "fast" /\ turn > Len(probes)
  /\ pc' = IF Divided THEN "full" ELSE "done"
  /\ cluster' = 1
  /\ UNCHANGED <<index, best, caller, heap, turn, scan>>

\* (Variant: clusters seen before are scanned again.)
NeverSeen(c) == FALSE

Seen(c) == \E i \in 1 .. Len(probes) : probes[i] = c

\* repair_full, one cluster.
RepairFull ==
  /\ pc = "full" /\ cluster <= K
  /\ IF Empty(cluster) \/ Seen(cluster) \/ TooFar(cluster)
       THEN UNCHANGED <<pc, caller, scan>>
       ELSE Scan(cluster)
  /\ cluster' = cluster + 1
  /\ UNCHANGED <<index, best, heap, turn>>

Finish ==
  /\ pc = "full" /\ cluster > K
  /\ pc' = "done"
  /\ UNCHANGED <<index, best, caller, heap, turn, cluster, scan>>

-----------------------------------------------------------------------------
Next ==
  \/ Skip \/ Push \/ Replace \/ Rise \/ Sink \/ OfferDone \/ Sort \/ SortDone
  \/ ScanProbe \/ ScanPoint \/ ScanDone \/ Decide \/ RepairFast \/ StillDivided
  \/ RepairFull \/ Finish

Spec == Init /\ [][Next]_vars

-----------------------------------------------------------------------------
Kept == {best[i] : i \in 1 .. TOP_K} \ {NoPoint}

Choosing == pc \in {"offer", "rise", "sink", "sort"}

\* The probes are the clusters with the nearest centroids, the nearest first;
\* no cluster without points takes the place of one with points.
ProbesNearest ==
  ~Choosing =>
    LET chosen == {probes[i] : i \in 1 .. Len(probes)}
        others == {c \in 1 .. K : ~Empty(c)} \ chosen
    IN /\ \A c \in chosen : ~Empty(c)
       /\ \A i, j \in 1 .. Len(probes) :
            i < j => probes[i] # probes[j] /\ C(probes[i]) <= C(probes[j])
       /\ \A c \in chosen, o \in others : C(c) <= C(o)
       /\ others # {} => Len(probes) = MAX_PROBES

\* No point takes two of the places, whichever of the three passes meet it.
CountedOnce ==
  \A i, j \in 1 .. TOP_K : best[i] = best[j] /\ best[i] # NoPoint => i = j

NearestOf(S) == \A p \in S \ Kept : D(p) >= Worst

\* A verdict that is not that of an exhaustive search is at least unanimous,
\* and then either all its points are near or no probed cluster has a nearer
\* one: a divided verdict is exact although three passes skip clusters by
\* bounds that were computed at different times.
InexactOnlyIfUnanimous ==
  pc = "done" =>
    \/ NearestOf(Points)
    \/ /\ Unanimous
       /\ \/ Worst <= EARLY_DIST
          \/ NearestOf(UNION {Members(probes[i]) : i \in 1 .. Len(probes)})
=============================================================================
