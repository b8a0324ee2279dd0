--------------------------------- MODULE Knn ---------------------------------
(***************************************************************************)
(* What a nearest-neighbour index promises: the number of frauds among     *)
(* TOP_K nearest reference points of the query, any of them where several  *)
(* are equally far, and an answer at all.                                  *)
(***************************************************************************)
EXTENDS Integers, FiniteSets

CONSTANTS Queries, Points, Label, Dist, TOP_K

NoVerdict == -1

VARIABLES query, verdict

vars == <<query, verdict>>

Count == IF Cardinality(Points) < TOP_K THEN Cardinality(Points) ELSE TOP_K

\* The sets of TOP_K points none of the others is nearer than.
NearestSets(q) ==
  LET dist == Dist[q] IN
  {S \in SUBSET Points :
     /\ Cardinality(S) = Count
     /\ \A p \in S, r \in Points \ S : dist[p] <= dist[r]}

FraudsIn(S) == Cardinality({p \in S : Label[p] = 1})

Init == query \in Queries /\ verdict = NoVerdict

Answer ==
  /\ verdict = NoVerdict
  /\ verdict' \in {FraudsIn(S) : S \in NearestSets(query)}
  /\ UNCHANGED query

\* Without the promise to answer.
Safe == Init /\ [][Answer]_vars

Spec == Safe /\ WF_vars(Answer)
=============================================================================
