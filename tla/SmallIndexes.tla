---------------------------- MODULE SmallIndexes -----------------------------
(***************************************************************************)
(* Twelve vectors, with equal ones, ties and clusters among them, and the  *)
(* two indexes of them that the instances of the searches read, with       *)
(* blocks of two lanes and leaves of at most two points.  That the builder *)
(* makes these indexes is checked in MCBuilder.                            *)
(***************************************************************************)
EXTENDS Integers, Sequences

Vectors == <<
  <<0, 0>>, <<0, 1>>, <<0, 1>>, <<1, 3>>, <<1, 0>>, <<5, 5>>,
  <<5, 4>>, <<6, 0>>, <<6, 1>>, <<6, 1>>, <<3, 2>>, <<9, 3>> >>

\* Four partitions.
PartitionOf(v) == IF v[1] <= 1 THEN 0 ELSE IF v[2] = 2 THEN 1
                  ELSE IF v[1] <= 8 THEN 2 ELSE 3

FileNode(l, r, first, count, lowest, highest) ==
  [left |-> l, right |-> r, start |-> first, len |-> count,
   box |-> [lo |-> lowest, hi |-> highest]]

\* The kd index; 0 stands for no node and for padding.
File ==
  [slots |-> <<1, 5, 2, 0, 3, 4, 11, 0, 8, 9, 10, 0, 7, 6, 12, 0>>,
   nodes |-> <<
     FileNode(2, 3, 0, 5, <<0, 0>>, <<1, 3>>),
     FileNode(0, 0, 0, 2, <<0, 0>>, <<1, 0>>),
     FileNode(4, 5, 1, 3, <<0, 1>>, <<1, 3>>),
     FileNode(0, 0, 1, 1, <<0, 1>>, <<0, 1>>),
     FileNode(0, 0, 2, 2, <<0, 1>>, <<1, 3>>),
     FileNode(0, 0, 3, 1, <<3, 2>>, <<3, 2>>),
     FileNode(8, 9, 4, 5, <<5, 0>>, <<6, 5>>),
     FileNode(0, 0, 4, 2, <<6, 0>>, <<6, 1>>),
     FileNode(10, 11, 5, 3, <<5, 1>>, <<6, 5>>),
     FileNode(0, 0, 5, 1, <<6, 1>>, <<6, 1>>),
     FileNode(0, 0, 6, 2, <<5, 4>>, <<5, 5>>),
     FileNode(0, 0, 7, 1, <<9, 3>>, <<9, 3>>) >>,
   parts |-> << [key |-> 0, root |-> 1], [key |-> 1, root |-> 6],
                [key |-> 2, root |-> 7], [key |-> 3, root |-> 12] >>]

\* The clustered index.  Its fourth cluster is empty, its box inside out.
Centroids == << <<0, 0>>, <<1, 3>>, <<5, 4>>, <<4, 4>>, <<6, 1>>, <<3, 2>>, <<8, 3>> >>
IndexCluster == << <<1, 2, 3, 5>>, <<4>>, <<7, 6>>, <<>>, <<9, 10, 8>>, <<11>>, <<12>> >>
IndexBox == <<
  [lo |-> <<0, 0>>, hi |-> <<1, 1>>], [lo |-> <<1, 3>>, hi |-> <<1, 3>>],
  [lo |-> <<5, 4>>, hi |-> <<5, 5>>],
  [lo |-> <<32767, 32767>>, hi |-> <<-32768, -32768>>],
  [lo |-> <<6, 0>>, hi |-> <<6, 1>>], [lo |-> <<3, 2>>, hi |-> <<3, 2>>],
  [lo |-> <<9, 3>>, hi |-> <<9, 3>>] >>
=============================================================================
