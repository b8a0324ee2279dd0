----------------------------- MODULE LeafTables ------------------------------
(***************************************************************************)
(* What the calibration scripts and the service share: the decision tree,  *)
(* the labelled requests of rinha-test/test-data.json, and the tables in   *)
(* src/tree.zig by which http.zig's respond answers without a search.      *)
(***************************************************************************)
EXTENDS FeatureVector, FiniteSets

CONSTANTS
  Requests, PAYLOAD,                \* requests, and what is in them
  ScriptOff, ServiceOff,            \* where the scripts and the service err on them
  Datasets,                         \* sequences of labelled requests
  NODES, LEAF_COUNT, LEAF_COUNT_OF  \* the tree as it was trained

Leaves == 0 .. LEAF_COUNT - 1
Parts == 0 .. 255

\* load_tree reads one node less than twice the leaves, and a count per leaf.
TreeShape ==
  /\ LEAF_COUNT \in Nat \ {0}
  /\ NODES \in [0 .. 2 * LEAF_COUNT - 2 -> [feature : 0 .. PADDED_DIMS - 1, threshold : Int,
                                            left : Int, right : Int]]
  /\ LEAF_COUNT_OF \in [Leaves -> 0 .. 255]

Predict(q) ==
  LET walk[n \in DOMAIN NODES] ==
        LET node == NODES[n]
        IN IF node.left < 0 THEN -1 - node.left
           ELSE IF q[node.feature] <= node.threshold THEN walk[node.left] ELSE walk[node.right]
  IN walk[0]

Route(q) == <<Predict(q), PartitionKey(q)>>

Routes(vectors) == {Route(q) : q \in vectors}

\* Each of the two has one way to round a given number.
ScriptVector(r) == Quantize(Vectorize(PAYLOAD[r]), ScriptOff[r])
ServiceVectors(r) == ServedAs(PAYLOAD[r], ServiceOff[r])

ASSUME ErrorAssumption ==
  \A r \in Requests :
    LET v == Vectorize(PAYLOAD[r])
    IN ScriptOff[r] \subseteq Ties(v) /\ ServiceOff[r] \subseteq Close(v)

ASSUME TreeAssumption ==
  /\ TreeShape
  /\ \A r \in Requests :
       Routes({ScriptVector(r)} \cup ServiceVectors(r)) \subseteq Leaves \X Parts

ASSUME DataAssumption == Datasets \subseteq Seq([request : Requests, approved : BOOLEAN])

VARIABLES
  data,       \* the labelled requests
  routed,     \* the leaf and the partition the scripts find for each request
  served,     \* those the service finds, one but for a request without a ratio
  tree        \* the calibrated tables in src/tree.zig

Entries == DOMAIN data
ScriptRoutes == [r \in Requests |-> Route(ScriptVector(r))]
ServedRoutes == [r \in Requests |-> Routes(ServiceVectors(r))]

InitRoutes == routed = ScriptRoutes /\ served = ServedRoutes

RouteOf(i) == routed[data[i].request]
Leaf(i) == RouteOf(i)[1]

\* Scores 0, 1 and 2 approve.
Approves(count) == count <= 2

\* A mask is four words of 64 bits; the set of a word's bits stands for it.
MaskHas(mask, p) == p % 64 \in mask[p \div 64]

\* The score given without a search, if there is one.
FastPath(l, p) ==
  IF tree.safeA[l] THEN {LEAF_COUNT_OF[l]}
  ELSE IF tree.safeB[l] /\ MaskHas(tree.masksB[l], p) THEN {tree.verdictB[l]}
  ELSE {}
=============================================================================
