---------------------------- MODULE Calibration ------------------------------
(***************************************************************************)
(* The two scripts, the tables they write, and tree.zig, into which their  *)
(* output is copied by hand, in any order and at any time.  Script B reads *)
(* from tree.zig what script A has decided; the service reads both.        *)
(***************************************************************************)
EXTENDS CalibrateA, CalibrateB

calVars == <<data, routed, served, tree, a, fileA, b, fileB>>

\* Before the first calibration Mode A may be on for any leaf, as the tree came
\* with a table from elsewhere; Mode B is off.
Init ==
  /\ InitRoutes
  /\ data \in Datasets
  /\ \E safe \in [Leaves -> BOOLEAN] :
       tree = [calibrated |-> FALSE, safeA |-> safe, safeB |-> NoTableB.safe,
               verdictB |-> NoTableB.verdict, masksB |-> NoTableB.masks]
  /\ InitA
  /\ b = EndedB("none") /\ fileB = NoFile

InstallA ==
  /\ fileA # NoFile
  /\ tree' = [tree EXCEPT !.calibrated = TRUE, !.safeA = fileA]
  /\ UNCHANGED <<data, routed, served, a, fileA, b, fileB>>

InstallB ==
  /\ fileB # NoFile
  /\ tree' = [tree EXCEPT !.safeB = fileB.safe, !.verdictB = fileB.verdict, !.masksB = fileB.masks]
  /\ UNCHANGED <<data, routed, served, a, fileA, b, fileB>>

Next ==
  \/ StepA /\ UNCHANGED <<b, fileB>>
  \/ StepB /\ UNCHANGED <<a, fileA>>
  \/ InstallA
  \/ InstallB

Spec == Init /\ [][Next]_calVars

-----------------------------------------------------------------------------
\* A score given to a leaf and a partition without a search, by a table that
\* comes from a calibration.
Answers(l, p) == IF tree.safeA[l] /\ ~tree.calibrated THEN {} ELSE FastPath(l, p)

\* Whatever the order in which the tables were computed and installed, and
\* although Mode B was calibrated for another Mode A than it runs with: no
\* labelled request that the service routes as the scripts did is answered
\* against its label without a search.
FastPathRight ==
  \A i \in Entries : \A route \in served[data[i].request] :
    route = RouteOf(i) =>
      \A c \in Answers(route[1], route[2]) : Approves(c) = data[i].approved

\* No request, labelled or not, is answered without a search unless the labels
\* show enough of its kind: of its leaf for Mode A, of its pair for Mode B.
FastPathObserved ==
  \A r \in Requests : \A route \in served[r] :
    Answers(route[1], route[2]) # {} =>
      \/ Cardinality({i \in Entries : RouteOf(i) = route}) >= MIN_OBS_B
      \/ /\ tree.safeA[route[1]]
         /\ Cardinality({i \in Entries : Leaf(i) = route[1]}) >= MIN_OBS_A

\* Neither audit ever stops its script: no table that the decisions before it
\* make is against the labels it was made from.
AuditsPass == a.pc # "exit2" /\ b.pc # "exit2"

\* A pair that errs in the cross-validation is never one that would have been
\* enabled: cross-validation can stop the script for the sake of pairs already
\* rejected, and for no others.
ErrorsOnlyInRejected == b.errors \cap DOMAIN b.safePairs = {}

\* tree.zig on its tables: no false negative and no false positive on the
\* labelled requests.
NoErrorsOnTestData ==
  \A i \in Entries : \A route \in served[data[i].request] :
    \A c \in Answers(route[1], route[2]) : Approves(c) = data[i].approved
=============================================================================
