--------------------------- MODULE MCCalibration ----------------------------
(***************************************************************************)
(* Instance of Calibration for TLC: a tree of two leaves that parts        *)
(* amounts at 671, and requests in partitions 249, 253 and 185; 185 and    *)
(* 249 have the same bit in different words of a mask.                     *)
(***************************************************************************)
EXTENDS Calibration

Nan == {-32768, 0, 32767}

Stamp == [year |-> 2026, month |-> 3, day |-> 1, hour |-> 0, minute |-> 0, second |-> 0]
DayBefore == [year |-> 2026, month |-> 2, day |-> 28, hour |-> 12, minute |-> 0, second |-> 0]

\* amount and avg are in tenths.
Buys(amount, avg, card) ==
  [at |-> Stamp, last |-> << [at |-> DayBefore, km |-> 0] >>, amount |-> amount, installments |-> 1,
   avg |-> avg, km_home |-> 0, tx24 |-> 9, is_online |-> FALSE, card_present |-> card,
   merchant |-> "m", known_merchants |-> {}, mcc |-> "7995", merchant_avg |-> 0]

\* 671.5 is 672 to the scripts and 671 to the service.
Between == Buys(6715, 10, FALSE)
Small == Buys(6700, 10, FALSE)
In249 == Buys(10000, 10, FALSE)
In253 == Buys(10000, 10, TRUE)
In185 == Buys(10000, 100000, FALSE)
\* Neither amount nor average, and never labelled.
Nothing == Buys(0, 0, FALSE)

Payloads == <<Small, Between, In249, In253, In185, Nothing>>

ScriptErrs == [r \in 1 .. 6 |-> {}]
ServiceErrs == [r \in 1 .. 6 |-> IF Payloads[r] = Between THEN {0} ELSE {}]

TwoLeaves ==
  [n \in 0 .. 2 |->
     CASE n = 0 -> [feature |-> 0, threshold |-> 671, left |-> 1, right |-> 2]
       [] n = 1 -> [feature |-> 0, threshold |-> 0, left |-> -1, right |-> -1]
       [] n = 2 -> [feature |-> 0, threshold |-> 0, left |-> -2, right |-> -2]]

\* Leaf 0 approves, leaf 1 denies.
Counts == [l \in 0 .. 1 |-> IF l = 0 THEN 2 ELSE 3]

\* Requests in order.
UpTo(most) ==
  UNION {{[i \in 1 .. n |-> [request |-> which[i], approved |-> label[i]]] :
            which \in {w \in [1 .. n -> 1 .. 5] : \A i \in 1 .. n - 1 : w[i] <= w[i + 1]},
            label \in [1 .. n -> BOOLEAN]} : n \in 0 .. most}

UpToThree == UpTo(3)
UpToFour == UpTo(4)
=============================================================================
