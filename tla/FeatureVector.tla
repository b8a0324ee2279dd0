--------------------------- MODULE FeatureVector ----------------------------
(***************************************************************************)
(* How a request becomes fourteen 16-bit numbers and a partition key:      *)
(* vectorize, quantize and partition_key of the calibration scripts, which *)
(* mirror src/normalize.zig, src/index.zig and src/partition.zig.          *)
(*                                                                         *)
(* A feature is an exact fraction <<n, d>>.  Money and distances are in    *)
(* tenths.  The programs compute with binary fractions: the scripts with   *)
(* 64 bits, whose errors are too small to matter except to a number half   *)
(* way between two integers, the service with 32 bits, whose errors also   *)
(* matter a little before and after.  Each program rounds a given number   *)
(* always the same way; `off' is the set of dimensions where it does not   *)
(* end up at the nearest integer (half away from zero) but at the next     *)
(* best one.                                                               *)
(***************************************************************************)
EXTENDS Calendar, Sequences

CONSTANT NanAsInt   \* the 16 bits the service may make of 0 / 0

ASSUME NanAssumption == NanAsInt \subseteq -32768 .. 32767

DIMS == 14
PADDED_DIMS == 16
MAX_AMOUNT == 100000
MAX_INSTALLMENTS == 12
AMOUNT_VS_AVG_RATIO == 10
MAX_SECONDS == 60 * 1440
MAX_KM == 10000
MAX_TX_COUNT_24H == 20
MAX_MERCHANT_AVG_AMOUNT == 100000
QUANT_SCALE == 10000

\* In hundredths.
MccRisk(mcc) ==
  CASE mcc = "5411" -> 15 [] mcc = "5812" -> 30 [] mcc = "5912" -> 20
    [] mcc = "5944" -> 45 [] mcc = "7801" -> 80 [] mcc = "7802" -> 75
    [] mcc = "7995" -> 85 [] mcc = "4511" -> 35 [] mcc = "5311" -> 25
    [] OTHER -> 50

Clamp01(n, d) == IF n < 0 THEN <<0, 1>> ELSE IF n > d THEN <<1, 1>> ELSE <<n, d>>

\* (Variant: off is minus one, as a missing transaction is.)
SignedFlag(b) == IF b THEN <<1, 1>> ELSE <<-1, 1>>

Flag(b) == IF b THEN <<1, 1>> ELSE <<0, 1>>

\* What parse_ts reads from a timestamp.
Stamps == [year : Nat, month : 1 .. 12, day : 1 .. 31,
           hour : 0 .. 23, minute : 0 .. 59, second : 0 .. 59]

SecondOfDay(s) == s.hour * 3600 + s.minute * 60 + s.second

\* (Variant: a day is a day, at whatever hour.)
WholeDays(cur, last) ==
  86400 * (DaysSinceEpoch(cur.year, cur.month, cur.day)
             - DaysSinceEpoch(last.year, last.month, last.day))

\* The difference of two epoch_seconds.
SecondsBetween(cur, last) ==
  86400 * (DaysSinceEpoch(cur.year, cur.month, cur.day)
             - DaysSinceEpoch(last.year, last.month, last.day))
  + SecondOfDay(cur) - SecondOfDay(last)

\* r.last holds the last transaction, if there is one.
Minutes(r) ==
  IF r.last = <<>> THEN <<-1, 1>>
  ELSE LET s == SecondsBetween(r.at, r.last[1].at)
       IN Clamp01(IF s > 0 THEN s ELSE 0, MAX_SECONDS)

Distance2Last(r) ==
  IF r.last = <<>> THEN <<-1, 1>> ELSE Clamp01(r.last[1].km, MAX_KM)

\* As in the scripts, which look at the average before they divide by it.
AmountVsAvg(r) ==
  IF r.avg # 0 THEN Clamp01(r.amount, r.avg * AMOUNT_VS_AVG_RATIO) ELSE <<1, 1>>

Vectorize(r) ==
  << Clamp01(r.amount, MAX_AMOUNT),
     Clamp01(r.installments, MAX_INSTALLMENTS),
     AmountVsAvg(r),
     <<r.at.hour, 23>>,
     <<DayOfWeek(r.at.year, r.at.month, r.at.day), 6>>,
     Minutes(r),
     Distance2Last(r),
     Clamp01(r.km_home, MAX_KM),
     Clamp01(r.tx24, MAX_TX_COUNT_24H),
     Flag(r.is_online),
     Flag(r.card_present),
     Flag(r.merchant \notin r.known_merchants),
     <<MccRisk(r.mcc), 100>>,
     Clamp01(r.merchant_avg, MAX_MERCHANT_AVG_AMOUNT) >>

\* n / d scaled, and the integer below once a half is added.
Whole(n, d) == (2 * QUANT_SCALE * n + d) \div (2 * d)

\* How far x is from a half, once scaled: from the last one below, where 2 * x[2]
\* is the way to the next one above.
FromHalf(x) == (2 * QUANT_SCALE * x[1] + x[2]) % (2 * x[2])

\* Five operations on 32 bits err by less than 1/250 of the scaled unit.
OneIn == 250

\* Where x ends up from its nearest integer when errors carry it over a half.
Astray(x) ==
  CASE x[1] >= 0 /\ OneIn * FromHalf(x) <= 2 * x[2] -> -1
    [] x[1] >= 0 /\ OneIn * (2 * x[2] - FromHalf(x)) <= 2 * x[2] -> 1
    [] OTHER -> 0

\* The dimensions where 64 bits, and where 32 bits, may err.
Ties(v) == {i \in 0 .. DIMS - 1 : v[i + 1][1] >= 0 /\ FromHalf(v[i + 1]) = 0}
Close(v) == {i \in 0 .. DIMS - 1 : Astray(v[i + 1]) # 0}

\* Scaled, cut off and rounded half away from zero, or off by an error.
Rounded(x, off) ==
  CASE x[1] > x[2] -> QUANT_SCALE
    [] x[1] < -x[2] -> -QUANT_SCALE
    [] x[1] < 0 /\ x[1] >= -x[2] -> -Whole(-x[1], x[2])
    [] OTHER -> Whole(x[1], x[2]) + (IF off THEN Astray(x) ELSE 0)

Quantize(v, off) ==
  [i \in 0 .. PADDED_DIMS - 1 |-> IF i < DIMS THEN Rounded(v[i + 1], i \in off) ELSE 0]

\* The service divides without looking: something by nothing is infinite, which
\* is cut off at one as in the scripts, but nothing by nothing is no number, which
\* no comparison cuts off and no conversion has to give a meaning.
HasRatio(r) == r.avg # 0 \/ r.amount # 0

\* The vectors the service may make of a request, with given errors and any.
ServedAs(r, off) ==
  LET q == Quantize(Vectorize(r), off)
  IN IF HasRatio(r) THEN {q} ELSE {[q EXCEPT ![2] = x] : x \in NanAsInt}

Served(r) == UNION {ServedAs(r, off) : off \in SUBSET Close(Vectorize(r))}

Bit(b, k) == IF b THEN k ELSE 0

PartitionKey(q) ==
  Bit(q[5] >= 0, 1) + Bit(q[9] > 0, 2) + Bit(q[10] > 0, 4) + Bit(q[11] > 0, 8)
  + Bit(q[12] \in 2048 .. 4095 \/ q[12] > 6143, 16) + Bit(q[12] > 4095, 32)
  + Bit(q[2] > 4096, 64) + Bit(q[8] > 2048, 128)

\* The two accumulators of blkDist, each of 32 bits, and so is their sum.
Square(q, c, i) == (q[i] - c[i]) * (q[i] - c[i])

EvenPairs(q, c) ==
  Square(q, c, 0) + Square(q, c, 1) + Square(q, c, 4) + Square(q, c, 5)
  + Square(q, c, 8) + Square(q, c, 9) + Square(q, c, 12) + Square(q, c, 13)

OddPairs(q, c) ==
  Square(q, c, 2) + Square(q, c, 3) + Square(q, c, 6) + Square(q, c, 7)
  + Square(q, c, 10) + Square(q, c, 11) + Square(q, c, 14) + Square(q, c, 15)
=============================================================================
