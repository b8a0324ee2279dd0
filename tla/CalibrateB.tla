----------------------------- MODULE CalibrateB ------------------------------
(***************************************************************************)
(* tools/calibrate_leaf_safe_b.py: which pairs of a leaf and a partition   *)
(* may be answered by a verdict of the leaf's (Mode B), among the requests *)
(* that Mode A leaves over.                                                *)
(***************************************************************************)
EXTENDS LeafTables

CONSTANTS
  MIN_OBS_B, ALLOW_LEAVES, ALLOW_PARTITIONS,
  FOLDS                              \* of the cross-validation

ASSUME ConstantsB ==
  /\ MIN_OBS_B \in Nat \ {0} /\ FOLDS \in Nat \ {0}
  /\ ALLOW_LEAVES \subseteq Leaves /\ ALLOW_PARTITIONS \subseteq Parts

VARIABLES
  b,      \* a run of the script
  fileB   \* tools/leaf_safe_b_new.zig

\* No run, or one that has ended.
EndedB(how) == [pc |-> how, open |-> FALSE, safeA |-> <<>>, perPair |-> <<>>, safePairs |-> <<>>,
                leafVerdict |-> <<>>, fold |-> 0, errors |-> {}]

NoTableB == [safe |-> [l \in Leaves |-> FALSE], verdict |-> [l \in Leaves |-> 0],
             masks |-> [l \in Leaves |-> [w \in 0 .. 3 |-> {}]], restricted |-> {}]

\* Entries among S that Mode A leaves over, by leaf and partition.
Buckets(S, safeA) ==
  LET unsafe == {i \in S : ~safeA[Leaf(i)]}
  IN [pair \in {RouteOf(i) : i \in unsafe} |-> {i \in unsafe : RouteOf(i) = pair}]

\* The script reads LEAF_SAFE_A from tree.zig as it is now.  With MODE_B_OPEN it
\* looks at every pair it has seen.
StartB(open) ==
  /\ b.pc \in {"none", "done", "exit2", "exit3"}
  /\ b' = [EndedB("select") EXCEPT !.open = open, !.safeA = tree.safeA,
                                   !.perPair = Buckets(Entries, tree.safeA)]
  /\ UNCHANGED fileB

Candidates == IF b.open THEN DOMAIN b.perPair ELSE ALLOW_LEAVES \X ALLOW_PARTITIONS

Unanimous(buckets, pair) ==
  /\ pair \in DOMAIN buckets
  /\ Cardinality(buckets[pair]) >= MIN_OBS_B
  /\ \A i, j \in buckets[pair] : data[i].approved = data[j].approved

\* The score farthest to the side the first entry's label is on.
Verdict(items) == IF data[CHOOSE i \in items : TRUE].approved THEN 0 ELSE 5

SelectPairs ==
  /\ b.pc = "select"
  /\ b' = [b EXCEPT !.pc = "leaves",
             !.safePairs = [pair \in {c \in Candidates : Unanimous(b.perPair, c)} |->
                              Verdict(b.perPair[pair])]]
  /\ UNCHANGED fileB

VerdictsOf(l) == {b.safePairs[pair] : pair \in {c \in DOMAIN b.safePairs : c[1] = l}}

\* (Variant: one of the verdicts is taken.)
SomeVerdict(l) == VerdictsOf(l) # {}

OneVerdict(l) == \E v \in VerdictsOf(l) : VerdictsOf(l) = {v}

\* A leaf has one verdict for all its partitions, or none.
LeafVerdicts ==
  /\ b.pc = "leaves"
  /\ b' = [b EXCEPT !.pc = "audit",
             !.leafVerdict = [l \in {k \in ALLOW_LEAVES : OneVerdict(k)} |->
                                CHOOSE v \in VerdictsOf(l) : TRUE]]
  /\ UNCHANGED fileB

WrongB == {i \in Entries :
             /\ ~b.safeA[Leaf(i)] /\ Leaf(i) \in DOMAIN b.leafVerdict
             /\ RouteOf(i) \in DOMAIN b.safePairs
             /\ Approves(b.leafVerdict[Leaf(i)]) # data[i].approved}

AuditB ==
  /\ b.pc = "audit"
  /\ b' = IF WrongB # {} THEN EndedB("exit2") ELSE [b EXCEPT !.pc = "validate"]
  /\ UNCHANGED fileB

\* One fold: calibrate without every FOLDS-th entry, and try the outcome on those.
Test == {i \in Entries : (i - 1) % FOLDS = b.fold}

\* (Variant: the hits are counted.)
FoldHits ==
  LET train == Buckets(Entries \ Test, b.safeA)
      trainSafe == {pair \in ALLOW_LEAVES \X ALLOW_PARTITIONS : Unanimous(train, pair)}
  IN {RouteOf(i) : i \in {j \in Test :
        /\ ~b.safeA[Leaf(j)] /\ RouteOf(j) \in trainSafe
        /\ Approves(Verdict(train[RouteOf(j)])) = data[j].approved}}

FoldErrors ==
  LET train == Buckets(Entries \ Test, b.safeA)
      trainSafe == {pair \in ALLOW_LEAVES \X ALLOW_PARTITIONS : Unanimous(train, pair)}
  IN {RouteOf(i) : i \in {j \in Test :
        /\ ~b.safeA[Leaf(j)] /\ RouteOf(j) \in trainSafe
        /\ Approves(Verdict(train[RouteOf(j)])) # data[j].approved}}

CrossValidate ==
  /\ b.pc = "validate" /\ b.fold < FOLDS
  /\ b' = [b EXCEPT !.fold = @ + 1, !.errors = @ \cup FoldErrors]
  /\ UNCHANGED fileB

Validated ==
  /\ b.pc = "validate" /\ b.fold = FOLDS
  /\ b' = IF b.errors # {} THEN EndedB("exit3") ELSE [b EXCEPT !.pc = "emit"]
  /\ UNCHANGED fileB

MaskOf(parts) == [w \in 0 .. 3 |-> {p % 64 : p \in {r \in parts : r \div 64 = w}}]

PartsOf(l) == {pair[2] : pair \in {c \in DOMAIN b.safePairs : c[1] = l}}

\* (Variant: the verdicts are not filled in.)
TableOfZeros ==
  [safe |-> [l \in Leaves |-> l \in DOMAIN b.leafVerdict],
   verdict |-> [l \in Leaves |-> 0],
   masks |-> [l \in Leaves |-> MaskOf(IF l \in DOMAIN b.leafVerdict THEN PartsOf(l) ELSE {})],
   restricted |-> {pair[2] : pair \in DOMAIN b.safePairs}]

TableB ==
  LET on(l) == l \in DOMAIN b.leafVerdict
  IN [safe |-> [l \in Leaves |-> on(l)],
      verdict |-> [l \in Leaves |-> IF on(l) THEN b.leafVerdict[l] ELSE 0],
      masks |-> [l \in Leaves |-> MaskOf(IF on(l) THEN PartsOf(l) ELSE {})],
      restricted |-> {pair[2] : pair \in DOMAIN b.safePairs}]

EmitB ==
  /\ b.pc = "emit"
  /\ fileB' = TableB
  /\ b' = EndedB("done")

StepB ==
  /\ \/ \E open \in BOOLEAN : StartB(open)
     \/ SelectPairs \/ LeafVerdicts \/ AuditB \/ CrossValidate \/ Validated \/ EmitB
  /\ UNCHANGED <<data, routed, served, tree>>
=============================================================================
