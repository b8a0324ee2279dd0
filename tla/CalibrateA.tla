----------------------------- MODULE CalibrateA ------------------------------
(***************************************************************************)
(* tools/calibrate_leaf_safe.py: which leaves of the tree may answer       *)
(* without a search (Mode A).                                              *)
(***************************************************************************)
EXTENDS LeafTables

CONSTANTS MIN_OBS_A, NoFile

ASSUME MinObsA == MIN_OBS_A \in Nat \ {0}

VARIABLES
  a,      \* a run of the script: its place, perLeaf and safe
  fileA   \* tools/leaf_safe_a_new.zig

\* No run, or one that has ended.
EndedA(how) == [pc |-> how, perLeaf |-> <<>>, safe |-> <<>>]

InitA == a = EndedA("none") /\ fileA = NoFile

StartA ==
  /\ a.pc \in {"none", "done", "crash", "exit2"}
  /\ a' = [pc |-> "decide", safe |-> <<>>,
           perLeaf |-> [l \in Leaves |-> {i \in Entries : Leaf(i) = l}]]
  /\ UNCHANGED fileA

\* (Variant: no minimum.)
AgreedSafe(l) ==
  /\ a.perLeaf[l] # {}
  /\ \A i \in a.perLeaf[l] : data[i].approved = Approves(LEAF_COUNT_OF[l])

\* Enough entries, one label, and it is the tree's.
LeafSafe(l) ==
  LET items == a.perLeaf[l]
  IN /\ Cardinality(items) >= MIN_OBS_A
     /\ \A i, j \in items : data[i].approved = data[j].approved
     /\ \A i \in items : data[i].approved = Approves(LEAF_COUNT_OF[l])

\* The coverage is divided by the number of entries.
DecideA ==
  /\ a.pc = "decide"
  /\ a' = IF data = <<>> THEN EndedA("crash")
          ELSE [a EXCEPT !.pc = "audit", !.safe = [l \in Leaves |-> LeafSafe(l)]]
  /\ UNCHANGED fileA

\* False negatives and false positives, were the table used.
WrongA == {i \in Entries : \E l \in Leaves :
             /\ i \in a.perLeaf[l] /\ a.safe[l]
             /\ Approves(LEAF_COUNT_OF[l]) # data[i].approved}

AuditA ==
  /\ a.pc = "audit"
  /\ a' = IF WrongA # {} THEN EndedA("exit2") ELSE [a EXCEPT !.pc = "emit"]
  /\ UNCHANGED fileA

EmitA ==
  /\ a.pc = "emit"
  /\ fileA' = a.safe
  /\ a' = EndedA("done")

StepA == (StartA \/ DecideA \/ AuditA \/ EmitA) /\ UNCHANGED <<data, routed, served, tree>>
=============================================================================
