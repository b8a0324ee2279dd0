----------------------------- MODULE BuildInput ------------------------------
(***************************************************************************)
(* What both modes of the index builder (tools/build_index.zig) work on:   *)
(* the vectors of the dump, each with its partition key, and the           *)
(* operations the two have in common.  A vector stands for its floats and  *)
(* for the 16-bit numbers they are rounded to.                             *)
(***************************************************************************)
EXTENDS Integers, Sequences, FiniteSetsExt

CONSTANTS
  Inputs,   \* records [vecs, key]
  DIMS, LANES,
  PAD       \* what is in a lane that holds no vector

MinI16 == -32768
MaxI16 == 32767
Dims == 1 .. DIMS
Coordinates == MinI16 .. MaxI16

ASSUME InputConstants ==
  /\ DIMS \in Nat \ {0} /\ LANES \in Nat \ {0} /\ PAD \notin Nat \ {0}
  /\ \A in \in Inputs :
       /\ in.vecs \in Seq([Dims -> Coordinates])
       /\ in.key \in [1 .. Len(in.vecs) -> Nat]

VARIABLES
  input,
  step,     \* how far the builder is
  slots     \* the lanes of all blocks, in storage order

vecs == input.vecs
VectorIds == 1 .. Len(vecs)

\* (Variant: of equal ones the last comes first.)
InOrderUnstable(S, x) ==
  LET upTo(i) == {j \in S : x[j] < x[i] \/ (x[j] = x[i] /\ j >= i)} IN
  [n \in 1 .. Cardinality(S) |-> CHOOSE i \in S : Cardinality(upTo(i)) = n]

\* std.mem.sort: a set of numbers by what x says of them, and those for which
\* it says the same as they came, in ascending order.
InOrder(S, x) ==
  LET upTo(i) == {j \in S : x[j] < x[i] \/ (x[j] = x[i] /\ j <= i)} IN
  [n \in 1 .. Cardinality(S) |-> CHOOSE i \in S : Cardinality(upTo(i)) = n]

\* The box of a set of vectors, inside out for none (computeBounds; bbox_min
\* and bbox_max).
Bounds(S) ==
  [lo |-> [d \in Dims |-> Min({vecs[i][d] : i \in S} \cup {MaxI16})],
   hi |-> [d \in Dims |-> Max({vecs[i][d] : i \in S} \cup {MinI16})]]
=============================================================================
