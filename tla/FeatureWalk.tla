---------------------------- MODULE FeatureWalk -----------------------------
(***************************************************************************)
(* The walk of CalendarWalk with a customer on it.  The customer may have  *)
(* made a transaction on the day the walk is at; the walk moves on, a few  *)
(* days ahead of that transaction or back before it, as when the clocks of *)
(* two terminals differ, and each day the next transaction is turned into  *)
(* a vector.                                                               *)
(***************************************************************************)
EXTENDS CalendarWalk, FeatureVector

CONSTANTS
  Profiles,   \* what else is in a request
  Times,      \* hours, minutes and seconds at which transactions happen
  MaxAhead, MaxBack   \* how many days the walk goes ahead of the last transaction, and back

ASSUME WalkConstants ==
  /\ \A p \in Profiles : \A f \in {"amount", "installments", "avg", "km", "km_home", "tx24",
                                   "merchant_avg"} : p[f] \in Nat
  /\ Times \subseteq [hour : 0 .. 23, minute : 0 .. 59, second : 0 .. 59]
  /\ MaxAhead \in Nat /\ MaxBack \in Nat

VARIABLE last   \* empty, or the time of the last transaction and the days since

walkVars == <<vars, last>>

StampOf(t) == [year |-> year, month |-> month, day |-> day,
               hour |-> t.hour, minute |-> t.minute, second |-> t.second]

\* The request of a customer with profile p who buys at t today.
Request(p, t) ==
  [at |-> StampOf(t),
   last |-> IF last = <<>> THEN <<>> ELSE << [at |-> last[1].at, km |-> p.km] >>,
   amount |-> p.amount, installments |-> p.installments, avg |-> p.avg,
   km_home |-> p.km_home, tx24 |-> p.tx24, is_online |-> p.is_online,
   card_present |-> p.card_present, merchant |-> p.merchant,
   known_merchants |-> p.known_merchants, mcc |-> p.mcc, merchant_avg |-> p.merchant_avg]

WalkInit == CalendarInit /\ last = <<>>

\* Days go by since the last transaction.
Age(days) ==
  IF last = <<>> THEN last' = <<>>
  ELSE /\ last[1].ago + days \in -MaxBack .. MaxAhead
       /\ last' = << [last[1] EXCEPT !.ago = @ + days] >>

DayOn == Tomorrow /\ Age(1)
DayBack == Yesterday /\ Age(-1)

Transact(t) ==
  /\ last' = << [at |-> StampOf(t), ago |-> 0] >>
  /\ UNCHANGED vars

WalkNext == DayOn \/ DayBack \/ \E t \in Times : Transact(t)

WalkSpec == WalkInit /\ [][WalkNext]_walkVars

-----------------------------------------------------------------------------
\* Seconds since the last transaction, by the days walked.
Elapsed(t) == 86400 * last[1].ago + SecondOfDay(t) - SecondOfDay(last[1].at)

\* The time since the last transaction, as a search sees it: minus one when
\* there is none, nothing when it lies ahead, a full day at most, and otherwise
\* the nearest ten-thousandth of a day, over ends of months, years and
\* centuries.  A customer without a last transaction, and no other, is routed
\* to an even partition.  Neither depends on the amounts, not even on those that
\* have no ratio.
HistoryRight ==
  \A p \in Profiles, t \in Times : \A q \in Served(Request(p, t)) :
    /\ PartitionKey(q) % 2 = (IF last = <<>> THEN 0 ELSE 1)
    /\ IF last = <<>> THEN q[5] = -QUANT_SCALE
       ELSE IF Elapsed(t) <= 0 THEN q[5] = 0
       ELSE IF Elapsed(t) >= MAX_SECONDS THEN q[5] = QUANT_SCALE
       ELSE 2 * (q[5] * 864 - Elapsed(t) * 100) \in -864 .. 864

INT16_MAX == 32767
INT32_MAX == INT16_MAX * 65536 + 65535

\* Today's requests, by every customer, with the last transaction and without.
Today ==
  LET made == {Request(p, t) : p \in Profiles, t \in Times}
  IN made \cup {[r EXCEPT !.last = <<>>] : r \in made}

\* Between two vectors the service makes of requests, with or without a last
\* transaction on either side, no difference leaves the 16 bits and no squared
\* distance the 32 bits in which the kernels of the kd search take them.  This
\* holds of requests with an average or an amount: without both, what the
\* conversion leaves in the third dimension may be any 16 bits, and both may
\* overflow.  (So they do for the padding of a leaf's last block, which is
\* computed and never read.)
DistanceFits ==
  LET vectors == UNION {Served(r) : r \in {s \in Today : HasRatio(s)}}
  IN \A q, c \in vectors :
       /\ \A i \in 0 .. PADDED_DIMS - 1 : q[i] - c[i] \in -INT16_MAX - 1 .. INT16_MAX
       /\ EvenPairs(q, c) <= INT32_MAX - OddPairs(q, c)
=============================================================================
