------------------------------ MODULE MCWorker ------------------------------
(***************************************************************************)
(* Instances of Worker for TLC.                                            *)
(***************************************************************************)
EXTENDS WorkerService

CONSTANTS c1, c2, l1, l2

NoBadReqs == {}
FirstOfC2Bad == {<<c2, 1>>}

TwoParts == [c \in Clients |-> 2]
\* c2's requests do not fit in the buffer.
SecondTooLarge == [c \in Clients |-> IF c = c2 THEN 3 ELSE 2]
=============================================================================
