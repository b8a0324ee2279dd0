--------------------------- MODULE MCFeatureWalk ----------------------------
(***************************************************************************)
(* Instance of FeatureWalk for TLC: two requests that are as far apart as  *)
(* any, and one that has neither an average nor an amount.                 *)
(***************************************************************************)
EXTENDS FeatureWalk

Lowest ==
  [amount |-> 0, installments |-> 0, avg |-> 10, km |-> 0, km_home |-> 0, tx24 |-> 0,
   is_online |-> FALSE, card_present |-> FALSE, merchant |-> "m",
   known_merchants |-> {"m"}, mcc |-> "5411", merchant_avg |-> 0]

Highest ==
  [amount |-> 100010, installments |-> 13, avg |-> 0, km |-> 20000, km_home |-> 10001, tx24 |-> 21,
   is_online |-> TRUE, card_present |-> TRUE, merchant |-> "m",
   known_merchants |-> {}, mcc |-> "7995", merchant_avg |-> 100000]

Nothing == [Lowest EXCEPT !.avg = 0]

ThreeProfiles == {Lowest, Highest, Nothing}

Nan == {-32768, 0, 32767}

\* 00:12:36 is half way between two ten-thousandths of a day.
TwoTimes == {[hour |-> 0, minute |-> 12, second |-> 36], [hour |-> 23, minute |-> 59, second |-> 59]}
=============================================================================
