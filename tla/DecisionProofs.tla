--------------------------- MODULE DecisionProofs ----------------------------
(***************************************************************************)
(* Theorems about what a request is turned into, and about the leaves that *)
(* answer for themselves.  FeatureWalk: the calendar's formulas are right  *)
(* for every day of every year, and the features are in range and monotone *)
(* for every range of years, all times of day and all profiles whose       *)
(* numbers are not negative.  Calibration: what the scripts write is right *)
(* for every tree, every list of labelled requests and every value of      *)
(* their constants.                                                        *)
(***************************************************************************)
EXTENDS FeatureWalk, Calibration, FiniteSetTheorems, TLAPS

-----------------------------------------------------------------------------
(***************************************************************************)
(* The calendar.                                                           *)
(***************************************************************************)
\* The eras cancel out: a year's first of March is found by its leap days.
LEMMA YearsByLeaps ==
  ASSUME NEW z \in Int, z >= -1
  PROVE  DaysOfYears(z) = 365 * z + Leaps(z)
<1> DEFINE era == (IF z >= 0 THEN z ELSE z - 399) \div 400
           yoe == z - era * 400
<1>1. era \in Int /\ yoe \in 0 .. 399 /\ z = 400 * era + yoe
  OBVIOUS
<1>2. z \div 4 = 100 * era + yoe \div 4
  BY <1>1
<1>3. z \div 100 = 4 * era + yoe \div 100
  BY <1>1
<1>4. z \div 400 = era
  BY <1>1
<1> QED
  BY SMT, <1>1, <1>2, <1>3, <1>4 DEF DaysOfYears, Leaps

\* A year that is a leap year counts one leap day more than the one before.
LEMMA LeapCounted ==
  ASSUME NEW z \in Int
  PROVE  /\ Leaps(z) \in Int
         /\ Leaps(z) - Leaps(z - 1) = IF Leap(z) THEN 1 ELSE 0
<1>1. z \div 4 - (z - 1) \div 4 = IF z % 4 = 0 THEN 1 ELSE 0
  OBVIOUS
<1>2. z \div 100 - (z - 1) \div 100 = IF z % 100 = 0 THEN 1 ELSE 0
  OBVIOUS
<1>3. z \div 400 - (z - 1) \div 400 = IF z % 400 = 0 THEN 1 ELSE 0
  OBVIOUS
<1>4. /\ z % 400 = 0 => z % 100 = 0
      /\ z % 100 = 0 => z % 4 = 0
  OBVIOUS
<1> QED
  BY <1>1, <1>2, <1>3, <1>4 DEF Leaps, Leap

-----------------------------------------------------------------------------
\* Both formulas are a year's share plus a table of months plus the day.
MonthTable == <<306, 337, 0, 31, 61, 92, 122, 153, 184, 214, 245, 275>>

LEMMA MonthDays ==
  ASSUME NEW m \in 1 .. 12, NEW d \in Int
  PROVE  DayOfYear(m, d) = MonthTable[m] + d - 1
<1>1. \/ m = 1 \/ m = 2 \/ m = 3 \/ m = 4 \/ m = 5 \/ m = 6
      \/ m = 7 \/ m = 8 \/ m = 9 \/ m = 10 \/ m = 11 \/ m = 12
  OBVIOUS
<1> QED
  BY <1>1 DEF DayOfYear, MonthTable

\* 1970-01-01 in these terms; in weeks, two days over.
Epoch == 719469

LEMMA EpochType == Epoch \in Int /\ Epoch % 7 = 2
BY SMT DEF Epoch

\* The days counted, without eras.
LEMMA DaysByLeaps ==
  ASSUME NEW y \in Nat, NEW m \in 1 .. 12, NEW d \in Int
  PROVE  DaysSinceEpoch(y, m, d)
           = 365 * MarchYear(y, m) + Leaps(MarchYear(y, m)) + MonthTable[m] + d - Epoch
<1>1. MarchYear(y, m) \in Int /\ MarchYear(y, m) >= -1
  BY DEF MarchYear
<1>2. DaysOfYears(MarchYear(y, m)) = 365 * MarchYear(y, m) + Leaps(MarchYear(y, m))
  BY <1>1, YearsByLeaps
<1>3. Leaps(MarchYear(y, m)) \in Int
  BY <1>1, LeapCounted
<1>4. MonthTable[m] \in Int
  BY DEF MonthTable
<1> QED
  BY SMT, <1>1, <1>2, <1>3, <1>4, MonthDays DEF DaysSinceEpoch, Epoch

\* The first of a month is the day after the last of the month before.
LEMMA NextMonth ==
  ASSUME NEW y \in Nat, NEW m \in 1 .. 11
  PROVE  DaysSinceEpoch(y, m + 1, 1) = DaysSinceEpoch(y, m, DaysIn(y, m)) + 1
<1>1. DaysIn(y, m) \in Int
  BY DEF DaysIn
<1>2. /\ Leaps(y) \in Int /\ Leaps(y - 1) \in Int
      /\ Leaps(y) - Leaps(y - 1) = IF Leap(y) THEN 1 ELSE 0
  BY LeapCounted
<1>3. /\ DaysSinceEpoch(y, m + 1, 1)
           = 365 * MarchYear(y, m + 1) + Leaps(MarchYear(y, m + 1)) + MonthTable[m + 1] + 1 - Epoch
      /\ DaysSinceEpoch(y, m, DaysIn(y, m))
           = 365 * MarchYear(y, m) + Leaps(MarchYear(y, m)) + MonthTable[m] + DaysIn(y, m) - Epoch
  BY <1>1, DaysByLeaps
<1>4. CASE m = 2
  <2>1. MarchYear(y, m + 1) = y /\ MarchYear(y, m) = y - 1
    BY <1>4 DEF MarchYear
  <2>2. MonthTable[m + 1] = 0 /\ MonthTable[m] = 337
    BY <1>4 DEF MonthTable
  <2>3. DaysIn(y, m) = 28 + (Leaps(y) - Leaps(y - 1))
    BY <1>2, <1>4 DEF DaysIn
  <2> QED
    BY <1>2, <1>3, <2>1, <2>2, <2>3, EpochType
<1>5. CASE m # 2
  <2>1. MarchYear(y, m + 1) = MarchYear(y, m)
    BY <1>5 DEF MarchYear
  <2>2. MonthTable[m + 1] = MonthTable[m] + DaysIn(y, m)
    <3>1. \/ m = 1 \/ m = 3 \/ m = 4 \/ m = 5 \/ m = 6
          \/ m = 7 \/ m = 8 \/ m = 9 \/ m = 10 \/ m = 11
      BY <1>5
    <3> QED
      BY <3>1 DEF MonthTable, DaysIn
  <2>3. MonthTable[m] \in Int /\ MarchYear(y, m) \in Int /\ Leaps(MarchYear(y, m)) \in Int
    BY LeapCounted DEF MonthTable, MarchYear
  <2> QED
    BY <1>1, <1>3, <2>1, <2>2, <2>3, EpochType
<1> QED
  BY <1>4, <1>5

\* New Year's Day is the day after the last of December.
LEMMA NextYear ==
  ASSUME NEW y \in Nat
  PROVE  DaysSinceEpoch(y + 1, 1, 1) = DaysSinceEpoch(y, 12, 31) + 1
<1>1. MarchYear(y + 1, 1) = y /\ MarchYear(y, 12) = y
  BY DEF MarchYear
<1>2. Leaps(y) \in Int
  BY LeapCounted
<1> QED
  BY <1>1, <1>2, DaysByLeaps, EpochType DEF MonthTable

\* The weekday follows from the days counted: 1970-01-01 was a Thursday.
LEMMA WeekdayByDays ==
  ASSUME NEW y \in Nat, NEW m \in 1 .. 12, NEW d \in Int
  PROVE  DayOfWeek(y, m, d) = (DaysSinceEpoch(y, m, d) + 3) % 7
<1> DEFINE z == MarchYear(y, m)
<1>1. z \in Int /\ Leaps(z) \in Int
  BY LeapCounted DEF MarchYear
<1>2. /\ MonthTable[m] \in Int /\ Offset[m] \in Int
      /\ (MonthTable[m] - Offset[m]) % 7 = 5
  <2>1. \/ m = 1 \/ m = 2 \/ m = 3 \/ m = 4 \/ m = 5 \/ m = 6
        \/ m = 7 \/ m = 8 \/ m = 9 \/ m = 10 \/ m = 11 \/ m = 12
    OBVIOUS
  <2> QED
    BY <2>1 DEF MonthTable, Offset
<1>3. DaysSinceEpoch(y, m, d) = 365 * z + Leaps(z) + MonthTable[m] + d - Epoch
  BY DaysByLeaps, EpochType
<1>4. \A raw \in Int : ((((raw % 7) + 7) % 7) + 6) % 7 = (raw + 6) % 7
  OBVIOUS
<1>5. DayOfWeek(y, m, d) = (z + Leaps(z) + Offset[m] + d + 6) % 7
  BY <1>1, <1>2, <1>4 DEF DayOfWeek
<1>6. (365 * z + Leaps(z) + MonthTable[m] + d - Epoch + 3) % 7
        = (z + Leaps(z) + Offset[m] + d + 6) % 7
  <2>1. PICK j \in Int : MonthTable[m] - Offset[m] = 7 * j + 5
    BY <1>2
  <2>2. PICK k \in Int : Epoch = 7 * k + 2
    BY EpochType
  <2>3. 365 * z + Leaps(z) + MonthTable[m] + d - Epoch + 3
          = (z + Leaps(z) + Offset[m] + d + 6) + 7 * (52 * z + j - k)
    BY <1>1, <1>2, <2>1, <2>2
  <2> QED
    BY <1>1, <1>2, <2>3
<1> QED
  BY <1>3, <1>5, <1>6

-----------------------------------------------------------------------------
\* A date, and the formulas right for it.
Dates ==
  /\ year \in FirstYear .. LastYear
  /\ month \in 1 .. 12
  /\ day \in 1 .. DaysIn(year, month)
  /\ count \in Int

DayInv == Dates /\ DaysCounted /\ weekday = (count + 3) % 7

LEMMA MonthLength ==
  ASSUME NEW y \in Int, NEW m \in 1 .. 12
  PROVE  DaysIn(y, m) \in 28 .. 31
BY DEF DaysIn

\* The days within a month follow each other.
LEMMA NextDay ==
  ASSUME NEW y \in Nat, NEW m \in 1 .. 12, NEW d \in Int
  PROVE  DaysSinceEpoch(y, m, d + 1) = DaysSinceEpoch(y, m, d) + 1
<1>1. MarchYear(y, m) \in Int /\ Leaps(MarchYear(y, m)) \in Int /\ MonthTable[m] \in Int
  BY LeapCounted DEF MarchYear, MonthTable
<1>2. DaysSinceEpoch(y, m, d)
        = 365 * MarchYear(y, m) + Leaps(MarchYear(y, m)) + MonthTable[m] + d - Epoch
  BY DaysByLeaps
<1>3. DaysSinceEpoch(y, m, d + 1)
        = 365 * MarchYear(y, m) + Leaps(MarchYear(y, m)) + MonthTable[m] + (d + 1) - Epoch
  <2>1. d + 1 \in Int OBVIOUS
  <2> QED BY <2>1, DaysByLeaps
<1> QED BY <1>1, <1>2, <1>3, EpochType

LEMMA DaysAreInts ==
  ASSUME NEW y \in Nat, NEW m \in 1 .. 12, NEW d \in Int
  PROVE  DaysSinceEpoch(y, m, d) \in Int
<1>1. MarchYear(y, m) \in Int /\ Leaps(MarchYear(y, m)) \in Int /\ MonthTable[m] \in Int
  BY LeapCounted DEF MarchYear, MonthTable
<1> QED
  BY <1>1, DaysByLeaps, EpochType

LEMMA Initially == CalendarInit => DayInv
<1> SUFFICES ASSUME CalendarInit PROVE DayInv
  OBVIOUS
<1>1. Dates
  BY CalendarConstants DEF CalendarInit, Dates, DaysIn
<1>2. DaysCounted
  BY SMT DEF CalendarInit, DaysCounted, DaysSinceEpoch, DaysOfYears, MarchYear, DayOfYear
<1> QED
  BY <1>1, <1>2 DEF CalendarInit, DayInv

LEMMA TomorrowStep == DayInv /\ Tomorrow => DayInv'
<1> SUFFICES ASSUME DayInv, Tomorrow PROVE DayInv'
  OBVIOUS
<1>1. /\ year \in Nat /\ month \in 1 .. 12 /\ day \in 1 .. DaysIn(year, month)
      /\ DaysIn(year, month) \in 28 .. 31 /\ count \in Int
      /\ DaysSinceEpoch(year, month, day) = count
  BY MonthLength, CalendarConstants DEF DayInv, Dates, DaysCounted
<1>2. count' = count + 1 /\ weekday' = (count' + 3) % 7
  BY <1>1 DEF DayInv, Tomorrow, DayAfter
<1>3. CASE day < DaysIn(year, month)
  <2>1. day' = day + 1 /\ month' = month /\ year' = year
    BY <1>3 DEF Tomorrow
  <2>2. Dates'
    BY <1>1, <1>2, <1>3, <2>1 DEF DayInv, Dates
  <2>3. DaysCounted'
    BY <1>1, <1>2, <2>1, NextDay DEF DaysCounted
  <2> QED
    BY <1>2, <2>2, <2>3 DEF DayInv
<1>4. CASE day = DaysIn(year, month) /\ month < 12
  <2>1. day' = 1 /\ month' = month + 1 /\ year' = year
    BY <1>1, <1>4 DEF Tomorrow
  <2>2. Dates'
    BY <1>1, <1>2, <1>4, <2>1, MonthLength DEF DayInv, Dates
  <2>3. DaysCounted'
    BY <1>1, <1>2, <1>4, <2>1, NextMonth DEF DaysCounted
  <2> QED
    BY <1>2, <2>2, <2>3 DEF DayInv
<1>5. CASE day = DaysIn(year, month) /\ month = 12
  <2>1. day = 31
    BY <1>5 DEF DaysIn
  <2>2. day' = 1 /\ month' = 1 /\ year' = year + 1 /\ year < LastYear
    BY <1>1, <1>5, <2>1 DEF Tomorrow
  <2>3. Dates'
    BY <1>1, <1>2, <2>2, MonthLength, CalendarConstants DEF DayInv, Dates
  <2>4. DaysCounted'
    BY <1>1, <1>2, <1>5, <2>1, <2>2, NextYear DEF DaysCounted
  <2> QED
    BY <1>2, <2>3, <2>4 DEF DayInv
<1> QED
  BY <1>1, <1>3, <1>4, <1>5

LEMMA YesterdayStep == DayInv /\ Yesterday => DayInv'
<1> SUFFICES ASSUME DayInv, Yesterday PROVE DayInv'
  OBVIOUS
<1>1. /\ year \in Nat /\ month \in 1 .. 12 /\ day \in 1 .. DaysIn(year, month)
      /\ count \in Int /\ DaysSinceEpoch(year, month, day) = count
  BY CalendarConstants DEF DayInv, Dates, DaysCounted
<1>2. count' = count - 1 /\ weekday' = (count' + 3) % 7
  BY <1>1 DEF DayInv, Yesterday, DayBefore
<1>3. CASE day > 1
  <2>1. day' = day - 1 /\ month' = month /\ year' = year
    BY <1>3 DEF Yesterday
  <2>2. Dates'
    BY <1>1, <1>2, <1>3, <2>1, MonthLength DEF DayInv, Dates
  <2>3. DaysSinceEpoch(year, month, day) = DaysSinceEpoch(year, month, day - 1) + 1
    <3>1. day = (day - 1) + 1 /\ day - 1 \in Int
      BY <1>1, MonthLength
    <3> QED
      BY <1>1, <3>1, NextDay
  <2>4. DaysSinceEpoch(year, month, day - 1) \in Int
    <3>1. day - 1 \in Int
      BY <1>1, MonthLength
    <3> QED
      BY <1>1, <3>1, DaysAreInts
  <2>5. DaysCounted'
    BY <1>1, <1>2, <2>1, <2>3, <2>4 DEF DaysCounted
  <2> QED
    BY <1>2, <2>2, <2>5 DEF DayInv
<1>4. CASE day = 1 /\ month > 1
  <2>1. day' = DaysIn(year, month - 1) /\ month' = month - 1 /\ year' = year
    BY <1>4 DEF Yesterday
  <2>2. Dates'
    BY <1>1, <1>2, <1>4, <2>1, MonthLength DEF DayInv, Dates
  <2>3. DaysSinceEpoch(year, month, 1) = DaysSinceEpoch(year', month', day') + 1
    <3>1. month - 1 \in 1 .. 11 /\ month = (month - 1) + 1
      BY <1>1, <1>4
    <3> QED
      BY <1>1, <2>1, <3>1, NextMonth
  <2>4. DaysSinceEpoch(year', month', day') \in Int
    <3>1. year' \in Nat /\ month' \in 1 .. 12 /\ day' \in Int
      BY <1>1, <1>4, <2>1, MonthLength
    <3> QED
      BY <3>1, DaysAreInts
  <2>5. DaysCounted'
    BY <1>1, <1>2, <1>4, <2>3, <2>4 DEF DaysCounted
  <2> QED
    BY <1>2, <2>2, <2>5 DEF DayInv
<1>5. CASE day = 1 /\ month = 1
  <2>1. day' = 31 /\ month' = 12 /\ year' = year - 1 /\ year > FirstYear
    BY <1>5 DEF Yesterday
  <2>2. Dates'
    BY <1>1, <1>2, <2>1, CalendarConstants DEF DayInv, Dates, DaysIn
  <2>3. DaysSinceEpoch(year, 1, 1) = DaysSinceEpoch(year - 1, 12, 31) + 1
    <3>1. year - 1 \in Nat /\ year = (year - 1) + 1
      BY <1>1, <2>1, CalendarConstants
    <3> QED
      BY <3>1, NextYear
  <2>4. DaysSinceEpoch(year - 1, 12, 31) \in Int
    <3>1. year - 1 \in Nat
      BY <1>1, <2>1, CalendarConstants
    <3> QED
      BY <3>1, DaysAreInts
  <2>5. DaysCounted'
    BY <1>1, <1>2, <1>5, <2>1, <2>3, <2>4 DEF DaysCounted
  <2> QED
    BY <1>2, <2>2, <2>5 DEF DayInv
<1> QED
  BY <1>1, <1>3, <1>4, <1>5, MonthLength

LEMMA Inductive == CalendarSpec => []DayInv
<1>1. DayInv /\ [CalendarNext]_vars => DayInv'
  <2>1. DayInv /\ UNCHANGED vars => DayInv'
    BY DEF vars, DayInv, Dates, DaysCounted
  <2> QED
    BY <2>1, TomorrowStep, YesterdayStep DEF CalendarNext
<1> QED
  BY <1>1, Initially, PTL DEF CalendarSpec

\* Whatever date is reached from 1970-01-01, any number of months, leap years
\* and centuries on or back, daysSinceEpoch gives the days in between.
THEOREM CountsDays == CalendarSpec => []DaysCounted
<1>1. DayInv => DaysCounted
  BY DEF DayInv
<1> QED
  BY <1>1, Inductive, PTL

\* And dayOfWeek, which has a formula of its own, gives the day of the week.
THEOREM KnowsWeekday == CalendarSpec => []WeekdayRight
<1>1. DayInv => WeekdayRight
  <2> SUFFICES ASSUME DayInv PROVE WeekdayRight
    OBVIOUS
  <2>1. year \in Nat /\ month \in 1 .. 12 /\ day \in Int
    BY MonthLength, CalendarConstants DEF DayInv, Dates
  <2> QED
    BY <2>1, WeekdayByDays DEF DayInv, DaysCounted, WeekdayRight
<1> QED
  BY <1>1, Inductive, PTL


-----------------------------------------------------------------------------
(***************************************************************************)
(* One feature.                                                            *)
(***************************************************************************)

\* A feature that is not missing.
Unit(x) == \E n \in Nat, d \in Nat \ {0} : x = <<n, d>>

\* A part of d is at most the whole scale.
LEMMA AtMostScale ==
  ASSUME NEW m \in Nat, NEW w \in Int, NEW d \in Nat \ {0}, NEW n \in 0 .. d,
         2 * d * w <= 2 * m * n + d
  PROVE  w <= m
<1>1. SUFFICES ASSUME w >= m + 1 PROVE FALSE
  OBVIOUS
<1>2. d * w >= d * (m + 1)
  BY <1>1
<1>3. m * n <= m * d
  OBVIOUS
<1>4. d * (m + 1) = m * d + d /\ m * d \in Int /\ m * n \in Int /\ d * w \in Int
  OBVIOUS
<1> QED BY <1>2, <1>3, <1>4

\* Scaled and rounded, what is not negative is at most the scale, and as far
\* from where it was as from the last half.
LEMMA WholeBounds ==
  ASSUME NEW n \in Nat, NEW d \in Nat \ {0}, n <= d
  PROVE  /\ Whole(n, d) \in 0 .. QUANT_SCALE
         /\ FromHalf(<<n, d>>) \in 0 .. 2 * d - 1
         /\ 2 * QUANT_SCALE * n + d = 2 * d * Whole(n, d) + FromHalf(<<n, d>>)
<1> DEFINE m == QUANT_SCALE
           x == 2 * m * n + d
           y == 2 * d
           w == x \div y
           h == x % y
<1>1. Whole(n, d) = w /\ FromHalf(<<n, d>>) = h
  BY DEF Whole, FromHalf
<1>2. m \in Nat
  BY DEF QUANT_SCALE
<1> HIDE DEF m
<1>3. x \in Nat /\ y \in Nat \ {0} /\ x = 2 * m * n + d /\ y = 2 * d
  BY <1>2
<1> HIDE DEF x, y
<1>4. w \in Int /\ h \in 0 .. y - 1 /\ x = y * w + h
  <2>1. x \in Int
    BY <1>3
  <2> QED BY <1>3, <2>1
<1> HIDE DEF w, h
<1>5. w >= 0
  <2>1. SUFFICES ASSUME w <= -1 PROVE FALSE
    BY <1>4
  <2>2. y * w <= y * (-1)
    BY <2>1, <1>3, <1>4
  <2>3. y * w \in Int
    BY <1>3, <1>4
  <2> QED BY <2>2, <2>3, <1>3, <1>4
<1>6. y * w = 2 * d * w /\ y * w \in Int
  BY <1>3, <1>4
<1>7. w <= m
  <2>1. 2 * d * w <= 2 * m * n + d
    BY <1>3, <1>4, <1>6
  <2>2. n \in 0 .. d
    OBVIOUS
  <2> QED BY <2>1, <2>2, <1>2, <1>4, AtMostScale
<1>8. w \in 0 .. m /\ h \in 0 .. 2 * d - 1 /\ 2 * m * n + d = 2 * d * w + h
  <2>1. 2 * m * n + d = 2 * d * w + h
    BY Zenon, <1>3, <1>4, <1>6
  <2>2. h \in 0 .. 2 * d - 1
    BY Zenon, <1>3, <1>4
  <2> QED BY <2>1, <2>2, <1>2, <1>4, <1>5, <1>7
<1> QED BY Zenon, <1>1, <1>8 DEF m

\* An error takes a number over a half and no farther: down from just above,
\* where there is an integer below, or up from just below, where there is one
\* above.
LEMMA AstrayBounds ==
  ASSUME NEW n \in Nat, NEW d \in Nat \ {0}, n <= d
  PROVE  /\ Astray(<<n, d>>) \in -1 .. 1
         /\ Astray(<<n, d>>) = -1 => 250 * FromHalf(<<n, d>>) <= 2 * d /\ Whole(n, d) > 0
         /\ Astray(<<n, d>>) = 1 => /\ 250 * (2 * d - FromHalf(<<n, d>>)) <= 2 * d
                                    /\ Whole(n, d) < QUANT_SCALE
<1> DEFINE m == QUANT_SCALE
           w == Whole(n, d)
           h == FromHalf(<<n, d>>)
           e == Astray(<<n, d>>)
<1>1. w \in 0 .. m /\ h \in 0 .. 2 * d - 1 /\ 2 * m * n + d = 2 * d * w + h
  BY Zenon, WholeBounds
<1>2. \/ e = 0
      \/ e = -1 /\ 250 * h <= 2 * d
      \/ e = 1 /\ 250 * (2 * d - h) <= 2 * d
  BY DEF Astray, OneIn
<1>3. m \in Nat
  BY DEF QUANT_SCALE
<1> HIDE DEF m, w, h, e
<1>4. ASSUME 250 * h <= 2 * d PROVE w > 0
  <2>1. SUFFICES ASSUME w = 0 PROVE FALSE
    BY <1>1, <1>3
  <2>2. 2 * d * w = 0 /\ m * n \in Nat
    BY <2>1, <1>3
  <2>3. h >= d
    BY <2>2, <1>1, <1>3
  <2> QED BY <1>1, <1>4, <2>3
<1>5. ASSUME 250 * (2 * d - h) <= 2 * d PROVE w < m
  <2>1. SUFFICES ASSUME w = m PROVE FALSE
    BY <1>1, <1>3
  <2>2. 2 * m * n <= 2 * d * w
    <3>1. m * n <= m * d
      BY <1>3
    <3> QED BY <3>1, <2>1, <1>3
  <2>3. 2 * m * n \in Int /\ 2 * d * w \in Int
    BY <2>1, <1>3
  <2>4. h <= d
    BY <1>1, <2>2, <2>3
  <2> QED BY <1>1, <1>5, <2>4
<1>6. e \in -1 .. 1
  BY <1>2
<1>7. e = -1 => 250 * h <= 2 * d /\ w > 0
  BY <1>2, <1>4
<1>8. e = 1 => 250 * (2 * d - h) <= 2 * d /\ w < m
  BY <1>2, <1>5
<1> QED BY Zenon, <1>6, <1>7, <1>8 DEF m, e, h, w

\* A feature that is not negative: what is beyond the scale is cut off.
LEMMA RoundedUnit ==
  ASSUME NEW n \in Nat, NEW d \in Nat \ {0}, NEW off
  PROVE  /\ n > d => Rounded(<<n, d>>, off) = QUANT_SCALE
         /\ n <= d => \/ Rounded(<<n, d>>, off) = Whole(n, d)
                      \/ Rounded(<<n, d>>, off) = Whole(n, d) + Astray(<<n, d>>)
<1> DEFINE w == Whole(n, d)
           e == Astray(<<n, d>>)
           r == Rounded(<<n, d>>, off)
<1>1. CASE n > d
  BY <1>1 DEF Rounded
<1>2. CASE n <= d
  <2>1. w \in 0 .. QUANT_SCALE
    BY Zenon, <1>2, WholeBounds
  <2>2. off => r = w + e
    BY <1>2 DEF Rounded
  <2>3. ~off => r = w + 0
    BY <1>2 DEF Rounded
  <2> HIDE DEF w, e, r
  <2>4. w + 0 = w
    BY <2>1
  <2>5. r = w \/ r = w + e
    BY Zenon, <2>2, <2>3, <2>4
  <2> QED BY <1>2, <2>5 DEF w, e, r
<1> QED BY <1>1, <1>2

LEMMA RoundedInScale ==
  ASSUME NEW n \in Nat, NEW d \in Nat \ {0}, NEW off
  PROVE  Rounded(<<n, d>>, off) \in 0 .. QUANT_SCALE
<1> DEFINE m == QUANT_SCALE
           w == Whole(n, d)
           e == Astray(<<n, d>>)
           r == Rounded(<<n, d>>, off)
<1>1. m \in Nat
  BY DEF QUANT_SCALE
<1>2. CASE n > d
  <2>1. r = m
    BY <1>2, RoundedUnit
  <2> HIDE DEF m, r
  <2>2. r \in 0 .. m
    BY <1>1, <2>1
  <2> QED BY Zenon, <2>2 DEF m, r
<1>3. CASE n <= d
  <2>1. w \in 0 .. m
    BY Zenon, <1>3, WholeBounds
  <2>2. e \in -1 .. 1 /\ (e = -1 => w > 0) /\ (e = 1 => w < m)
    BY Zenon, <1>3, AstrayBounds
  <2>3. r = w \/ r = w + e
    BY Zenon, <1>3, RoundedUnit
  <2> HIDE DEF m, w, e, r
  <2>4. r \in 0 .. m
    BY <1>1, <2>1, <2>2, <2>3
  <2> QED BY Zenon, <2>4 DEF m, r
<1> QED BY <1>2, <1>3

\* A missing one ends at minus the scale.
LEMMA RoundedMissing ==
  ASSUME NEW off
  PROVE  Rounded(<<-1, 1>>, off) = -QUANT_SCALE
<1>1. Whole(1, 1) = QUANT_SCALE
  BY DEF Whole, QUANT_SCALE
<1>2. Rounded(<<-1, 1>>, off) = -Whole(-(-1), 1)
  BY DEF Rounded
<1> QED BY <1>1, <1>2

LEMMA ClampUnit ==
  ASSUME NEW n \in Int, NEW d \in Nat \ {0}
  PROVE  Unit(Clamp01(n, d))
<1>1. CASE n < 0
  BY <1>1 DEF Clamp01, Unit
<1>2. CASE n > d
  BY <1>2 DEF Clamp01, Unit
<1>3. CASE n \in 0 .. d
  BY <1>3 DEF Clamp01, Unit
<1> QED BY <1>1, <1>2, <1>3

-----------------------------------------------------------------------------
(***************************************************************************)
(* A request.                                                              *)
(***************************************************************************)

\* What Vectorize is given: numbers that are not negative, and dates.
Amounts == {"amount", "installments", "avg", "km_home", "tx24", "merchant_avg"}

Plausible(r) ==
  /\ \A f \in Amounts : r[f] \in Nat
  /\ r.at \in Stamps
  /\ r.last = <<>> \/ (r.last = <<r.last[1]>> /\ r.last[1].at \in Stamps /\ r.last[1].km \in Nat)

LEMMA StampFields ==
  ASSUME NEW s \in Stamps
  PROVE  /\ s.year \in Nat /\ s.month \in 1 .. 12 /\ s.day \in 1 .. 31
         /\ s.hour \in 0 .. 23 /\ s.minute \in 0 .. 59 /\ s.second \in 0 .. 59
BY DEF Stamps

LEMMA SecondOfDayIsInt ==
  ASSUME NEW s \in Stamps
  PROVE  SecondOfDay(s) \in Int
<1> DEFINE h == s.hour
           m == s.minute
           x == s.second
<1>1. h \in Int /\ m \in Int /\ x \in Int
  BY StampFields
<1>2. SecondOfDay(s) = h * 3600 + m * 60 + x
  BY DEF SecondOfDay
<1> HIDE DEF h, m, x
<1> QED BY <1>1, <1>2

LEMMA SecondsAreInts ==
  ASSUME NEW s \in Stamps, NEW t \in Stamps
  PROVE  SecondsBetween(s, t) \in Int
<1>1. /\ DaysSinceEpoch(s.year, s.month, s.day) \in Int
      /\ DaysSinceEpoch(t.year, t.month, t.day) \in Int
  <2>1. s.year \in Nat /\ s.month \in 1 .. 12 /\ s.day \in Int
    BY StampFields
  <2>2. t.year \in Nat /\ t.month \in 1 .. 12 /\ t.day \in Int
    BY StampFields
  <2> QED BY <2>1, <2>2, DaysAreInts
<1>2. SecondOfDay(s) \in Int /\ SecondOfDay(t) \in Int
  BY SecondOfDayIsInt
<1> QED BY <1>1, <1>2 DEF SecondsBetween

\* Only the two features about the last transaction can be missing, and are
\* when there is none.
LEMMA Features ==
  ASSUME NEW r, Plausible(r)
  PROVE  /\ \A k \in (1 .. 14) \ {6, 7} : Unit(Vectorize(r)[k])
         /\ \A k \in {6, 7} : IF r.last = <<>> THEN Vectorize(r)[k] = <<-1, 1>>
                                              ELSE Unit(Vectorize(r)[k])
<1> DEFINE v == Vectorize(r)
<1>1. Unit(v[1]) /\ Unit(v[2]) /\ Unit(v[8]) /\ Unit(v[9]) /\ Unit(v[14])
  <2>1. /\ r.amount \in Int /\ r.installments \in Int /\ r.km_home \in Int
        /\ r.tx24 \in Int /\ r.merchant_avg \in Int
    BY DEF Plausible, Amounts
  <2>2. /\ MAX_AMOUNT \in Nat \ {0} /\ MAX_INSTALLMENTS \in Nat \ {0} /\ MAX_KM \in Nat \ {0}
        /\ MAX_TX_COUNT_24H \in Nat \ {0} /\ MAX_MERCHANT_AVG_AMOUNT \in Nat \ {0}
    BY DEF MAX_AMOUNT, MAX_INSTALLMENTS, MAX_KM, MAX_TX_COUNT_24H, MAX_MERCHANT_AVG_AMOUNT
  <2>3. /\ v[1] = Clamp01(r.amount, MAX_AMOUNT)
        /\ v[2] = Clamp01(r.installments, MAX_INSTALLMENTS)
        /\ v[8] = Clamp01(r.km_home, MAX_KM)
        /\ v[9] = Clamp01(r.tx24, MAX_TX_COUNT_24H)
        /\ v[14] = Clamp01(r.merchant_avg, MAX_MERCHANT_AVG_AMOUNT)
    BY DEF Vectorize
  <2> QED BY <2>1, <2>2, <2>3, ClampUnit
<1>2. Unit(v[3])
  <2>1. CASE r.avg # 0
    <3>1. r.amount \in Int /\ r.avg * AMOUNT_VS_AVG_RATIO \in Nat \ {0}
      BY <2>1 DEF Plausible, Amounts, AMOUNT_VS_AVG_RATIO
    <3>2. v[3] = Clamp01(r.amount, r.avg * AMOUNT_VS_AVG_RATIO)
      BY <2>1 DEF Vectorize, AmountVsAvg
    <3> QED BY <3>1, <3>2, ClampUnit
  <2>2. CASE r.avg = 0
    BY <2>2 DEF Vectorize, AmountVsAvg, Unit
  <2> QED BY <2>1, <2>2
<1>3. Unit(v[4]) /\ Unit(v[5])
  <2>1. r.at.hour \in Nat /\ r.at.year \in Nat /\ r.at.month \in 1 .. 12 /\ r.at.day \in Int
    <3>1. r.at \in Stamps
      BY DEF Plausible
    <3> QED BY <3>1, StampFields
  <2> DEFINE days == DaysSinceEpoch(r.at.year, r.at.month, r.at.day)
  <2>2. DayOfWeek(r.at.year, r.at.month, r.at.day) = (days + 3) % 7 /\ days \in Int
    BY <2>1, WeekdayByDays, DaysAreInts
  <2> HIDE DEF days
  <2>3. DayOfWeek(r.at.year, r.at.month, r.at.day) \in Nat
    BY <2>2
  <2>4. v[4] = <<r.at.hour, 23>> /\ v[5] = <<DayOfWeek(r.at.year, r.at.month, r.at.day), 6>>
    BY DEF Vectorize
  <2> QED BY <2>1, <2>3, <2>4 DEF Unit
<1>4. Unit(v[10]) /\ Unit(v[11]) /\ Unit(v[12])
  <2>1. \A c : Unit(Flag(c))
    BY DEF Flag, Unit
  <2>2. /\ v[10] = Flag(r.is_online) /\ v[11] = Flag(r.card_present)
        /\ v[12] = Flag(r.merchant \notin r.known_merchants)
    BY DEF Vectorize
  <2> QED BY <2>1, <2>2
<1>5. Unit(v[13])
  <2>1. \A m : MccRisk(m) \in Nat
    BY DEF MccRisk
  <2>2. v[13] = <<MccRisk(r.mcc), 100>>
    BY DEF Vectorize
  <2> QED BY <2>1, <2>2 DEF Unit
<1>6. IF r.last = <<>> THEN v[6] = <<-1, 1>> /\ v[7] = <<-1, 1>> ELSE Unit(v[6]) /\ Unit(v[7])
  <2>1. v[6] = Minutes(r) /\ v[7] = Distance2Last(r)
    BY DEF Vectorize
  <2>2. CASE r.last = <<>>
    BY <2>1, <2>2 DEF Minutes, Distance2Last
  <2>3. CASE r.last # <<>>
    <3> DEFINE s == SecondsBetween(r.at, r.last[1].at)
    <3>1. s \in Int /\ r.last[1].km \in Int
      BY <2>3, SecondsAreInts DEF Plausible
    <3>2. v[6] = Clamp01(IF s > 0 THEN s ELSE 0, MAX_SECONDS)
          /\ v[7] = Clamp01(r.last[1].km, MAX_KM)
      BY <2>1, <2>3 DEF Minutes, Distance2Last
    <3> HIDE DEF s
    <3>3. MAX_SECONDS \in Nat \ {0} /\ MAX_KM \in Nat \ {0}
      BY DEF MAX_SECONDS, MAX_KM
    <3>4. (IF s > 0 THEN s ELSE 0) \in Int
      BY <3>1
    <3> QED BY <2>3, <3>1, <3>2, <3>3, <3>4, ClampUnit
  <2> QED BY <2>2, <2>3
<1> HIDE DEF v
<1>7. \A k \in (1 .. 14) \ {6, 7} : Unit(v[k])
  <2>1. \A k \in (1 .. 14) \ {6, 7} : k \in {1, 2, 3, 4, 5, 8, 9, 10, 11, 12, 13, 14}
    OBVIOUS
  <2> QED BY <2>1, <1>1, <1>2, <1>3, <1>4, <1>5
<1>8. \A k \in {6, 7} : IF r.last = <<>> THEN v[k] = <<-1, 1>> ELSE Unit(v[k])
  BY <1>6
<1> QED BY <1>7, <1>8 DEF v

\* Every dimension of a vector, and the two that only fill it up.
LEMMA QuantizedBounds ==
  ASSUME NEW r, Plausible(r), NEW off, NEW q, q = Quantize(Vectorize(r), off)
  PROVE  /\ \A i \in (0 .. 15) \ {5, 6} : q[i] \in 0 .. QUANT_SCALE
         /\ \A i \in {5, 6} : IF r.last = <<>> THEN q[i] = -QUANT_SCALE ELSE q[i] \in 0 .. QUANT_SCALE
         /\ q[14] = 0 /\ q[15] = 0
<1> DEFINE v == Vectorize(r)
<1>2. \A i \in 0 .. 13 : q[i] = Rounded(v[i + 1], i \in off)
  BY DEF Quantize, DIMS, PADDED_DIMS
<1>3. q[14] = 0 /\ q[15] = 0
  BY DEF Quantize, DIMS, PADDED_DIMS
<1>4. /\ \A k \in (1 .. 14) \ {6, 7} : Unit(v[k])
      /\ \A k \in {6, 7} : IF r.last = <<>> THEN v[k] = <<-1, 1>> ELSE Unit(v[k])
  BY Features
<1> HIDE DEF v
<1>5. ASSUME NEW i \in 0 .. 13, Unit(v[i + 1]) PROVE q[i] \in 0 .. QUANT_SCALE
  <2>1. PICK n \in Nat, d \in Nat \ {0} : v[i + 1] = <<n, d>>
    BY <1>5 DEF Unit
  <2> DEFINE strays == i \in off
  <2>2. q[i] = Rounded(<<n, d>>, strays)
    BY <1>2, <2>1
  <2> HIDE DEF strays
  <2> QED BY <2>2, RoundedInScale
<1>6. \A i \in (0 .. 15) \ {5, 6} : q[i] \in 0 .. QUANT_SCALE
  <2> TAKE i \in (0 .. 15) \ {5, 6}
  <2>1. CASE i \in {14, 15}
    <3>1. q[i] = 0
      <4>1. CASE i = 14
        BY <1>3, <4>1
      <4>2. CASE i = 15
        BY <1>3, <4>2
      <4> QED BY <2>1, <4>1, <4>2
    <3> QED BY <3>1 DEF QUANT_SCALE
  <2>2. CASE i \in (0 .. 13) \ {5, 6}
    <3>1. i + 1 \in (1 .. 14) \ {6, 7}
      BY <2>2
    <3> QED BY <3>1, <2>2, <1>4, <1>5
  <2> QED BY <2>1, <2>2
<1>7. \A i \in {5, 6} : IF r.last = <<>> THEN q[i] = -QUANT_SCALE ELSE q[i] \in 0 .. QUANT_SCALE
  <2> TAKE i \in {5, 6}
  <2>1. i \in 0 .. 13 /\ i + 1 \in {6, 7}
    OBVIOUS
  <2>2. CASE r.last = <<>>
    <3>1. v[i + 1] = <<-1, 1>>
      BY <2>1, <2>2, <1>4
    <3> DEFINE strays == i \in off
    <3>2. q[i] = Rounded(<<-1, 1>>, strays)
      BY <1>2, <2>1, <3>1
    <3> HIDE DEF strays
    <3> QED BY <2>2, <3>2, RoundedMissing
  <2>3. CASE r.last # <<>>
    <3>1. Unit(v[i + 1])
      BY <2>1, <2>3, <1>4
    <3> QED BY <2>1, <2>3, <3>1, <1>5
  <2> QED BY <2>2, <2>3
<1> QED BY <1>3, <1>6, <1>7

-----------------------------------------------------------------------------
(***************************************************************************)
(* Squared distances.                                                      *)
(***************************************************************************)

LEMMA SquareOf ==
  ASSUME NEW most \in Nat, NEW x \in -most .. most
  PROVE  x * x \in 0 .. most * most
<1>1. CASE x >= 0
  <2>1. x * x <= most * x /\ x * x >= 0 /\ most * x <= most * most
    BY <1>1
  <2> QED BY <2>1
<1>2. CASE x < 0
  <2> DEFINE y == -x
  <2>1. y \in 0 .. most /\ x * x = y * y
    BY <1>2
  <2> HIDE DEF y
  <2>2. y * y <= most * y /\ y * y >= 0 /\ most * y <= most * most
    BY <2>1
  <2> QED BY <2>1, <2>2
<1> QED BY <1>1, <1>2

\* The square of the scale, by which squared distances are bounded here.
One == QUANT_SCALE * QUANT_SCALE

\* What the service makes of a request that has a ratio.
LEMMA ServedWithRatio ==
  ASSUME NEW r, HasRatio(r), NEW q \in Served(r)
  PROVE  \E off : q = Quantize(Vectorize(r), off)
BY DEF Served, ServedAs

\* Two vectors of plausible requests.
LEMMA DistanceBounded ==
  ASSUME NEW r, Plausible(r), HasRatio(r), NEW s, Plausible(s), HasRatio(s),
         NEW q \in Served(r), NEW c \in Served(s)
  PROVE  /\ \A i \in 0 .. 15 : q[i] - c[i] \in -INT16_MAX - 1 .. INT16_MAX
         /\ EvenPairs(q, c) \in Int /\ OddPairs(q, c) \in Int
         /\ EvenPairs(q, c) <= 11 * One /\ OddPairs(q, c) <= 9 * One
<1> DEFINE m == QUANT_SCALE
<1>1. /\ \A i \in (0 .. 15) \ {5, 6} : q[i] \in 0 .. m /\ c[i] \in 0 .. m
      /\ \A i \in {5, 6} : q[i] \in -m .. m /\ c[i] \in -m .. m
      /\ q[14] = 0 /\ q[15] = 0 /\ c[14] = 0 /\ c[15] = 0
  <2>1. m \in Nat
    BY DEF QUANT_SCALE
  <2> HIDE DEF m
  <2>2. ASSUME NEW t, Plausible(t), HasRatio(t), NEW p \in Served(t), NEW i \in {5, 6}
        PROVE  p[i] \in -m .. m
    <3>1. IF t.last = <<>> THEN p[i] = -m ELSE p[i] \in 0 .. m
      BY <2>2, ServedWithRatio, QuantizedBounds DEF m
    <3>2. ASSUME NEW x \in 0 .. m PROVE x \in -m .. m
      BY <2>1
    <3>3. -m \in -m .. m
      BY <2>1
    <3> QED BY <3>1, <3>2, <3>3
  <2>3. ASSUME NEW t, Plausible(t), HasRatio(t), NEW p \in Served(t)
        PROVE  (\A i \in (0 .. 15) \ {5, 6} : p[i] \in 0 .. m) /\ p[14] = 0 /\ p[15] = 0
    BY <2>3, ServedWithRatio, QuantizedBounds DEF m
  <2> QED BY <2>2, <2>3
<1>2. m \in Nat /\ One = m * m /\ One \in Nat /\ 2 * m <= INT16_MAX /\ INT16_MAX \in Nat
  BY DEF QUANT_SCALE, One, INT16_MAX
<1> HIDE DEF m
<1>3. ASSUME NEW i \in (0 .. 15) \ {5, 6} PROVE Square(q, c, i) \in 0 .. One
  <2> DEFINE x == q[i] - c[i]
  <2>1. x \in -m .. m
    BY <1>1, <1>2
  <2>2. Square(q, c, i) = x * x
    BY DEF Square
  <2> HIDE DEF x
  <2> QED BY <2>1, <2>2, <1>2, SquareOf
<1>4. ASSUME NEW i \in {5, 6} PROVE Square(q, c, i) \in 0 .. 4 * One
  <2> DEFINE x == q[i] - c[i]
             most == 2 * m
  <2>1. x \in -most .. most /\ most \in Nat /\ most * most = 4 * One
    BY <1>1, <1>2
  <2>2. Square(q, c, i) = x * x
    BY DEF Square
  <2> HIDE DEF x, most
  <2> QED BY <2>1, <2>2, SquareOf
<1>5. Square(q, c, 14) = 0 /\ Square(q, c, 15) = 0
  BY <1>1 DEF Square
<1>6. EvenPairs(q, c) \in Int /\ EvenPairs(q, c) <= 11 * One
  BY <1>2, <1>3, <1>4 DEF EvenPairs
<1>7. OddPairs(q, c) \in Int /\ OddPairs(q, c) <= 9 * One
  BY <1>2, <1>3, <1>4, <1>5 DEF OddPairs
<1>8. ASSUME NEW i \in 0 .. 15 PROVE q[i] - c[i] \in -INT16_MAX - 1 .. INT16_MAX
  <2> DEFINE x == q[i]
             y == c[i]
  <2>1. x \in -m .. m /\ y \in -m .. m
    BY <1>1, <1>2
  <2> HIDE DEF x, y
  <2>2. x - y \in -INT16_MAX - 1 .. INT16_MAX
    BY <1>2, <2>1
  <2> QED BY <2>2 DEF x, y
<1> QED BY <1>6, <1>7, <1>8

LEMMA SumFits ==
  ASSUME NEW e \in Int, NEW o \in Int, e <= 11 * One, o <= 9 * One
  PROVE  e <= INT32_MAX - o
<1>1. 20 * One <= INT32_MAX /\ One \in Nat /\ INT32_MAX \in Nat
  BY DEF One, QUANT_SCALE, INT32_MAX, INT16_MAX
<1> QED BY <1>1

-----------------------------------------------------------------------------
(***************************************************************************)
(* The time since the last transaction.                                    *)
(***************************************************************************)

\* A part of a day is half way between two ten-thousandths or well away from a
\* half: ten-thousandths come in steps of 1/216.
LEMMA DayTies ==
  ASSUME NEW s \in Nat, s <= MAX_SECONDS
  PROVE  \/ Astray(<<s, MAX_SECONDS>>) = 0
         \/ Astray(<<s, MAX_SECONDS>>) = -1 /\ FromHalf(<<s, MAX_SECONDS>>) = 0
<1> DEFINE d == MAX_SECONDS
           m == QUANT_SCALE
           w == Whole(s, d)
           h == FromHalf(<<s, d>>)
           e == Astray(<<s, d>>)
           j == 25 * s + 108 - 216 * w
<1>0. d \in Nat \ {0} /\ s <= d
  BY DEF MAX_SECONDS
<1>1. m \in Nat /\ d = 800 * 108 /\ 2 * d = 800 * 216 /\ m = 400 * 25
  BY DEF MAX_SECONDS, QUANT_SCALE
<1> HIDE DEF d
<1>3. w \in 0 .. m /\ h \in 0 .. 2 * d - 1 /\ 2 * m * s + d = 2 * d * w + h
  BY Zenon, <1>0, WholeBounds
<1>4. /\ e \in -1 .. 1
      /\ e = -1 => 250 * h <= 2 * d
      /\ e = 1 => 250 * (2 * d - h) <= 2 * d
  BY Zenon, <1>0, AstrayBounds
<1> HIDE DEF m, w, h, e
<1>5. j \in Int /\ j = 25 * s + 108 - 216 * w
  BY <1>0, <1>1, <1>3
<1> HIDE DEF j
<1>6. 2 * m * s = 800 * (25 * s) /\ 2 * d * w = 800 * (216 * w)
  BY <1>0, <1>1, <1>3
<1>7. h = 800 * j
  BY <1>0, <1>1, <1>3, <1>5, <1>6
<1>8. j >= 0 /\ j < 216
  <2>1. h >= 0 /\ h < 800 * 216
    <3>1. h \in 0 .. 2 * d - 1 /\ 2 * d = 800 * 216
      BY Zenon, <1>1, <1>3
    <3> QED BY <3>1, <1>0
  <2> QED BY <2>1, <1>5, <1>7
<1>9. 250 * h <= 2 * d => h = 0
  BY <1>0, <1>1, <1>5, <1>7, <1>8
<1>10. ~(250 * (2 * d - h) <= 2 * d)
  BY <1>0, <1>1, <1>5, <1>7, <1>8
<1>11. e = 0 \/ (e = -1 /\ h = 0)
  BY <1>4, <1>9, <1>10
<1> QED BY Zenon, <1>11 DEF d, h, e

\* Scaled and rounded, a part of a day is the nearest ten-thousandth.
LEMMA Nearest ==
  ASSUME NEW s \in Nat, NEW off, s <= MAX_SECONDS
  PROVE  /\ 2 * (Rounded(<<s, MAX_SECONDS>>, off) * 864 - s * 100) \in -864 .. 864
         /\ s = MAX_SECONDS => Rounded(<<s, MAX_SECONDS>>, off) = QUANT_SCALE
         /\ s = 0 => Rounded(<<s, MAX_SECONDS>>, off) = 0
<1> DEFINE d == MAX_SECONDS
           m == QUANT_SCALE
           w == Whole(s, d)
           h == FromHalf(<<s, d>>)
           e == Astray(<<s, d>>)
           r == Rounded(<<s, d>>, off)
           g == 200 * s + 864 - 1728 * w
<1>0. d \in Nat \ {0} /\ s <= d
  BY DEF MAX_SECONDS
<1>1. m \in Nat /\ d = 100 * 864 /\ 2 * d = 100 * 1728 /\ m = 100 * 100
  BY DEF MAX_SECONDS, QUANT_SCALE
<1>2. e = 0 \/ (e = -1 /\ h = 0)
  BY DayTies
<1> HIDE DEF d
<1>3. r = w \/ r = w + e
  BY Zenon, <1>0, RoundedUnit
<1>4. w \in 0 .. m /\ h \in 0 .. 2 * d - 1 /\ 2 * m * s + d = 2 * d * w + h
  BY Zenon, <1>0, WholeBounds
<1> HIDE DEF m, w, h, e, r
<1>5. r \in Int /\ w \in Int /\ (r = w \/ (h = 0 /\ r = w - 1))
  BY <1>0, <1>1, <1>2, <1>3, <1>4
<1>6. g \in Int /\ g = 200 * s + 864 - 1728 * w
  BY <1>5
<1> HIDE DEF g
<1>7. 2 * m * s = 100 * (200 * s) /\ 2 * d * w = 100 * (1728 * w)
  BY <1>0, <1>1, <1>5
<1>8. h = 100 * g
  BY <1>0, <1>1, <1>4, <1>6, <1>7
<1>9. g >= 0 /\ g < 1728 /\ (h = 0 => g = 0)
  <2>1. h >= 0 /\ h < 100 * 1728
    <3>1. h \in 0 .. 2 * d - 1 /\ 2 * d = 100 * 1728
      BY Zenon, <1>1, <1>4
    <3> QED BY <3>1, <1>0
  <2> QED BY <2>1, <1>6, <1>8
<1>10. 2 * (r * 864 - s * 100) \in -864 .. 864
  <2>1. CASE r = w
    BY <1>5, <1>6, <1>9, <2>1
  <2>2. CASE h = 0 /\ r = w - 1
    BY <1>5, <1>6, <1>9, <2>2
  <2> QED BY <1>5, <2>1, <2>2
<1>11. ASSUME s = d PROVE r = m
  <2>1. 200 * s = 1728 * m
    BY <1>0, <1>1, <1>11
  <2>2. w = m /\ g = 864
    BY <1>0, <1>1, <1>4, <1>5, <1>6, <1>9, <2>1
  <2> QED BY <1>5, <1>8, <2>2
<1>12. ASSUME s = 0 PROVE r = 0
  <2>1. w = 0 /\ g = 864
    BY <1>4, <1>5, <1>6, <1>9, <1>12
  <2> QED BY <1>5, <1>8, <2>1
<1> QED BY Zenon, <1>10, <1>11, <1>12 DEF d, m, r

\* More than a day.
LEMMA FullDay ==
  ASSUME NEW off
  PROVE  Rounded(<<1, 1>>, off) = QUANT_SCALE
<1>1. FromHalf(<<1, 1>>) = 1 /\ Whole(1, 1) = QUANT_SCALE
  BY DEF FromHalf, Whole, QUANT_SCALE
<1>2. Astray(<<1, 1>>) = 0
  BY <1>1 DEF Astray, OneIn
<1>3. Rounded(<<1, 1>>, off) = QUANT_SCALE \/ Rounded(<<1, 1>>, off) = QUANT_SCALE + 0
  BY <1>1, <1>2, RoundedUnit
<1> QED BY <1>3 DEF QUANT_SCALE

LEMMA PartitionParity ==
  ASSUME NEW q
  PROVE  PartitionKey(q) % 2 = IF q[5] >= 0 THEN 1 ELSE 0
<1> DEFINE online == Bit(q[9] > 0, 1)
           present == Bit(q[10] > 0, 2)
           unknown == Bit(q[11] > 0, 4)
           risk_low == Bit(q[12] \in 2048 .. 4095 \/ q[12] > 6143, 8)
           risk_high == Bit(q[12] > 4095, 16)
           ratio == Bit(q[2] > 4096, 32)
           frequent == Bit(q[8] > 2048, 64)
<1>1. Bit(q[9] > 0, 2) = 2 * online /\ online \in Nat
  BY DEF Bit
<1>2. Bit(q[10] > 0, 4) = 2 * present /\ present \in Nat
  BY DEF Bit
<1>3. Bit(q[11] > 0, 8) = 2 * unknown /\ unknown \in Nat
  BY DEF Bit
<1>4. Bit(q[12] \in 2048 .. 4095 \/ q[12] > 6143, 16) = 2 * risk_low /\ risk_low \in Nat
  BY DEF Bit
<1>5. Bit(q[12] > 4095, 32) = 2 * risk_high /\ risk_high \in Nat
  BY DEF Bit
<1>6. Bit(q[2] > 4096, 64) = 2 * ratio /\ ratio \in Nat
  BY DEF Bit
<1>7. Bit(q[8] > 2048, 128) = 2 * frequent /\ frequent \in Nat
  BY DEF Bit
<1> DEFINE h == Bit(q[5] >= 0, 1)
<1>8. PartitionKey(q) = h + 2 * online + 2 * present + 2 * unknown + 2 * risk_low + 2 * risk_high + 2 * ratio + 2 * frequent
  BY <1>1, <1>2, <1>3, <1>4, <1>5, <1>6, <1>7 DEF PartitionKey
<1>9. h = IF q[5] >= 0 THEN 1 ELSE 0
  BY DEF Bit
<1> HIDE DEF online, present, unknown, risk_low, risk_high, ratio, frequent, h
<1>10. h \in {0, 1}
  BY <1>9
<1>11. PartitionKey(q) % 2 = h
  BY <1>1, <1>2, <1>3, <1>4, <1>5, <1>6, <1>7, <1>8, <1>10
<1> QED BY <1>9, <1>11

\* x stands for an interval of s seconds: the ends of the scale outside a day
\* back, the nearest integer within.
IntervalAs(s, x) ==
  /\ s <= 0 => x = 0
  /\ s >= MAX_SECONDS => x = QUANT_SCALE
  /\ s > 0 /\ s < MAX_SECONDS => 2 * (x * 864 - s * 100) \in -864 .. 864

\* What HistoryRight says of one request.
LEMMA OneVector ==
  ASSUME NEW r, Plausible(r), NEW off, NEW q, q = Quantize(Vectorize(r), off)
  PROVE  /\ PartitionKey(q) % 2 = (IF r.last = <<>> THEN 0 ELSE 1)
         /\ r.last = <<>> => q[5] = -QUANT_SCALE
         /\ r.last # <<>> =>
              IntervalAs(SecondsBetween(r.at, r.last[1].at), q[5])
<1>1. IF r.last = <<>> THEN q[5] = -QUANT_SCALE ELSE q[5] \in 0 .. QUANT_SCALE
  BY QuantizedBounds
<1>2. QUANT_SCALE \in Nat \ {0}
  BY DEF QUANT_SCALE
<1>3. PartitionKey(q) % 2 = (IF r.last = <<>> THEN 0 ELSE 1)
  <2>1. CASE r.last = <<>>
    <3>1. ~(q[5] >= 0)
      BY <1>1, <1>2, <2>1
    <3> QED BY <2>1, <3>1, PartitionParity
  <2>2. CASE r.last # <<>>
    <3>1. q[5] >= 0
      BY <1>1, <1>2, <2>2
    <3> QED BY <2>2, <3>1, PartitionParity
  <2> QED BY <2>1, <2>2
<1>4. ASSUME r.last # <<>>, NEW s, s = SecondsBetween(r.at, r.last[1].at)
      PROVE  IntervalAs(s, q[5])
  <2> DEFINE strays == 5 \in off
             x == Clamp01(IF s > 0 THEN s ELSE 0, MAX_SECONDS)
  <2>2. q[5] = Rounded(x, strays)
    <3>1. Vectorize(r)[6] = x
      BY <1>4 DEF Vectorize, Minutes
    <3>2. q[5] = Rounded(Vectorize(r)[6], strays)
      BY DEF Quantize, DIMS, PADDED_DIMS
    <3> QED BY <3>1, <3>2
  <2>3. s \in Int /\ MAX_SECONDS \in Nat \ {0}
    BY <1>4, SecondsAreInts DEF Plausible, MAX_SECONDS
  <2>4. /\ s <= 0 => x = <<0, MAX_SECONDS>>
        /\ s > MAX_SECONDS => x = <<1, 1>>
        /\ s > 0 /\ s <= MAX_SECONDS => x = <<s, MAX_SECONDS>>
    BY <2>3 DEF Clamp01
  <2> HIDE DEF strays, x
  <2> USE DEF IntervalAs
  <2>5. CASE s <= 0
    <3>1. q[5] = Rounded(<<0, MAX_SECONDS>>, strays)
      BY <2>2, <2>4, <2>5
    <3> QED BY <2>3, <2>5, <3>1, Nearest
  <2>6. CASE s > MAX_SECONDS
    BY <2>2, <2>3, <2>4, <2>6, FullDay
  <2>7. CASE s > 0 /\ s <= MAX_SECONDS
    <3>1. q[5] = Rounded(<<s, MAX_SECONDS>>, strays)
      BY <2>2, <2>4, <2>7
    <3>2. s \in Nat
      BY <2>3, <2>7
    <3>3. /\ 2 * (q[5] * 864 - s * 100) \in -864 .. 864
          /\ s = MAX_SECONDS => q[5] = QUANT_SCALE
      BY <2>7, <3>1, <3>2, Nearest
    <3> QED BY <2>3, <2>7, <3>3
  <2> QED BY <2>3, <2>5, <2>6, <2>7
<1>5. ASSUME r.last # <<>>
      PROVE  IntervalAs(SecondsBetween(r.at, r.last[1].at), q[5])
  BY <1>4, <1>5
<1> QED BY <1>1, <1>3, <1>5

\* The same of what the service makes of it: only the ratio may be anything.
LEMMA OneRequest ==
  ASSUME NEW r, Plausible(r), NEW q \in Served(r)
  PROVE  /\ PartitionKey(q) % 2 = (IF r.last = <<>> THEN 0 ELSE 1)
         /\ r.last = <<>> => q[5] = -QUANT_SCALE
         /\ r.last # <<>> =>
              IntervalAs(SecondsBetween(r.at, r.last[1].at), q[5])
<1>1. PICK off : q \in ServedAs(r, off)
  BY DEF Served
<1>2. PICK o : o = Quantize(Vectorize(r), off)
  OBVIOUS
<1>3. q = o \/ \E x \in NanAsInt : q = [o EXCEPT ![2] = x]
  BY <1>1, <1>2 DEF ServedAs
<1>4. q[5] = o[5]
  BY <1>2, <1>3 DEF Quantize, PADDED_DIMS
<1>5. PartitionKey(q) % 2 = PartitionKey(o) % 2
  BY <1>4, PartitionParity
<1> QED BY <1>2, <1>4, <1>5, OneVector

-----------------------------------------------------------------------------
(***************************************************************************)
(* The walk.  Its calendar is that of the first part, whose invariant dates *)
(* every day; what is added is that the last transaction is dated as many  *)
(* days back as it says.                                                   *)
(***************************************************************************)

Past ==
  last = <<>> \/ \E at \in Stamps, ago \in Int :
                   /\ last = << [at |-> at, ago |-> ago] >>
                   /\ DaysSinceEpoch(at.year, at.month, at.day) = count - ago

WalkInv == DayInv /\ Past

LEMMA TodayIsADate ==
  ASSUME DayInv
  PROVE  /\ year \in Nat /\ month \in 1 .. 12 /\ day \in 1 .. 31 /\ count \in Int
         /\ DaysSinceEpoch(year, month, day) = count
<1>1. DaysIn(year, month) \in 28 .. 31 /\ year \in Nat /\ month \in 1 .. 12
  BY MonthLength, CalendarConstants DEF DayInv, Dates
<1> QED BY <1>1 DEF DayInv, Dates, DaysCounted

LEMMA StampIsADate ==
  ASSUME DayInv, NEW t \in Times
  PROVE  StampOf(t) \in Stamps
<1>1. t.hour \in 0 .. 23 /\ t.minute \in 0 .. 59 /\ t.second \in 0 .. 59
  BY WalkConstants
<1> QED BY <1>1, TodayIsADate DEF StampOf, Stamps

LEMMA WalkStarts == WalkInit => WalkInv
BY Initially DEF WalkInit, WalkInv, Past

\* The interval grows with the days that pass.
LEMMA AgeStep ==
  ASSUME Past, NEW n \in Int, Age(n), count \in Int, count' = count + n
  PROVE  Past'
<1>1. CASE last = <<>>
  BY <1>1 DEF Age, Past
<1>2. CASE last # <<>>
  <2>1. PICK at \in Stamps, ago \in Int :
          /\ last = << [at |-> at, ago |-> ago] >>
          /\ DaysSinceEpoch(at.year, at.month, at.day) = count - ago
    BY <1>2 DEF Past
  <2>2. last' = << [at |-> at, ago |-> ago + n] >>
    BY <1>2, <2>1 DEF Age
  <2>3. DaysSinceEpoch(at.year, at.month, at.day) = count' - (ago + n) /\ ago + n \in Int
    BY <2>1
  <2> QED BY <2>2, <2>3 DEF Past
<1> QED BY <1>1, <1>2

LEMMA TransactStep ==
  ASSUME WalkInv, NEW t \in Times, Transact(t)
  PROVE  Past'
<1>1. StampOf(t) \in Stamps
  BY StampIsADate DEF WalkInv
<1>2. DaysSinceEpoch(StampOf(t).year, StampOf(t).month, StampOf(t).day) = count' - 0
  BY TodayIsADate DEF WalkInv, StampOf, Transact, vars
<1> QED BY <1>1, <1>2 DEF Past, Transact

LEMMA WalkInductive == WalkSpec => []WalkInv
<1>1. WalkInv /\ [WalkNext]_walkVars => WalkInv'
  <2> SUFFICES ASSUME WalkInv, [WalkNext]_walkVars PROVE WalkInv'
    OBVIOUS
  <2>1. count \in Int
    BY TodayIsADate DEF WalkInv
  <2>2. CASE DayOn
    <3>1. DayInv'
      BY <2>2, TomorrowStep DEF DayOn, WalkInv
    <3>2. Past'
      BY <2>1, <2>2, AgeStep DEF DayOn, Tomorrow, DayAfter, WalkInv
    <3> QED BY <3>1, <3>2 DEF WalkInv
  <2>3. CASE DayBack
    <3>1. DayInv'
      BY <2>3, YesterdayStep DEF DayBack, WalkInv
    <3>2. count' = count + (-1) /\ Age(-1)
      BY <2>1, <2>3 DEF DayBack, Yesterday, DayBefore
    <3>3. Past'
      BY <2>1, <3>2, AgeStep DEF WalkInv
    <3> QED BY <3>1, <3>3 DEF WalkInv
  <2>4. ASSUME NEW t \in Times, Transact(t) PROVE WalkInv'
    <3>1. DayInv'
      BY <2>4 DEF Transact, vars, WalkInv, DayInv, Dates, DaysCounted
    <3> QED BY <3>1, <2>4, TransactStep DEF WalkInv
  <2>5. CASE UNCHANGED walkVars
    BY <2>5 DEF walkVars, vars, WalkInv, Past, DayInv, Dates, DaysCounted
  <2> QED BY <2>2, <2>3, <2>4, <2>5 DEF WalkNext
<1> QED BY <1>1, WalkStarts, PTL DEF WalkSpec

\* Any request of the walk, and the same without a last transaction.
LEMMA RequestIsPlausible ==
  ASSUME WalkInv, NEW p \in Profiles, NEW t \in Times
  PROVE  /\ Plausible(Request(p, t))
         /\ Plausible([Request(p, t) EXCEPT !.last = <<>>])
<1>1. StampOf(t) \in Stamps
  BY StampIsADate DEF WalkInv
<1>2. /\ p.amount \in Nat /\ p.installments \in Nat /\ p.avg \in Nat /\ p.km \in Nat
      /\ p.km_home \in Nat /\ p.tx24 \in Nat /\ p.merchant_avg \in Nat
  BY WalkConstants
<1> DEFINE r == Request(p, t)
<1>3. \A f \in Amounts : r[f] \in Nat
  BY <1>2 DEF Request, Amounts
<1>4. r.last = <<>> \/ (r.last = <<r.last[1]>> /\ r.last[1].at \in Stamps /\ r.last[1].km \in Nat)
  BY <1>2 DEF Request, WalkInv, Past
<1>5. Plausible(r)
  BY <1>1, <1>3, <1>4 DEF Plausible, Request
<1>6. Plausible([r EXCEPT !.last = <<>>])
  BY <1>1, <1>2 DEF Plausible, Request, Amounts
<1> QED BY <1>5, <1>6

-----------------------------------------------------------------------------
\* Two requests of any customers, each with an average or an amount, are never
\* so far apart in the service that a difference leaves 16 bits or the sum of the
\* sixteen squares the 32 bits of a kernel's lane, whether they have a last
\* transaction or not (DistanceFits).
THEOREM DistanceAlwaysFits == WalkSpec => []DistanceFits
<1>1. WalkInv => DistanceFits
  <2> SUFFICES ASSUME WalkInv,
                      NEW r \in Today, HasRatio(r), NEW s \in Today, HasRatio(s),
                      NEW q \in Served(r), NEW c \in Served(s)
               PROVE  /\ \A i \in 0 .. 15 : q[i] - c[i] \in -INT16_MAX - 1 .. INT16_MAX
                      /\ EvenPairs(q, c) <= INT32_MAX - OddPairs(q, c)
    BY DEF DistanceFits, PADDED_DIMS
  <2>1. ASSUME NEW o \in Today PROVE Plausible(o)
    <3> DEFINE made == {Request(p, t) : p \in Profiles, t \in Times}
    <3>1. o \in made \cup {[i EXCEPT !.last = <<>>] : i \in made}
      BY DEF Today
    <3>2. PICK i \in made : o = i \/ o = [i EXCEPT !.last = <<>>]
      BY <3>1
    <3>3. PICK p \in Profiles, t \in Times : i = Request(p, t)
      OBVIOUS
    <3>4. Plausible(Request(p, t)) /\ Plausible([Request(p, t) EXCEPT !.last = <<>>])
      BY RequestIsPlausible
    <3> HIDE DEF made
    <3>5. Plausible(i) /\ Plausible([i EXCEPT !.last = <<>>])
      BY Zenon, <3>3, <3>4
    <3> QED BY Zenon, <3>2, <3>5
  <2> QED BY <2>1, DistanceBounded, SumFits
<1> QED BY <1>1, WalkInductive, PTL

\* The dimension a search compares times by is right on every day, whatever
\* months, leap years and centuries lie between the two transactions and in
\* whatever order they come, and the parity of the partition tells customers
\* without a history from all others.
THEOREM HistoryAlwaysRight == WalkSpec => []HistoryRight
<1>1. WalkInv => HistoryRight
  <2> SUFFICES ASSUME WalkInv, NEW p \in Profiles, NEW t \in Times,
                      NEW q \in Served(Request(p, t))
               PROVE  /\ PartitionKey(q) % 2 = (IF last = <<>> THEN 0 ELSE 1)
                      /\ IF last = <<>> THEN q[5] = -QUANT_SCALE
                         ELSE IF Elapsed(t) <= 0 THEN q[5] = 0
                         ELSE IF Elapsed(t) >= MAX_SECONDS THEN q[5] = QUANT_SCALE
                         ELSE 2 * (q[5] * 864 - Elapsed(t) * 100) \in -864 .. 864
    BY DEF HistoryRight
  <2> DEFINE r == Request(p, t)
             s == SecondsBetween(r.at, r.last[1].at)
  <2>1. Plausible(r)
    BY RequestIsPlausible
  <2>2. r.last = <<>> <=> last = <<>>
    BY DEF Request
  <2>3. MAX_SECONDS \in Nat
    BY DEF MAX_SECONDS
  <2>4. CASE last = <<>>
    BY <2>1, <2>2, <2>4, OneRequest
  <2>5. CASE last # <<>>
    <3>1. s = Elapsed(t)
      <4>1. PICK at \in Stamps, ago \in Int :
              /\ last = << [at |-> at, ago |-> ago] >>
              /\ DaysSinceEpoch(at.year, at.month, at.day) = count - ago
        BY <2>5 DEF WalkInv, Past
      <4>2. r.at = StampOf(t) /\ r.last[1].at = at
        BY <2>5, <4>1 DEF Request
      <4>3. DaysSinceEpoch(r.at.year, r.at.month, r.at.day) = count /\ count \in Int
        BY <4>2, TodayIsADate DEF WalkInv, StampOf
      <4>4. SecondOfDay(r.at) = SecondOfDay(t)
        BY <4>2 DEF SecondOfDay, StampOf
      <4> DEFINE x == SecondOfDay(t)
                 y == SecondOfDay(at)
      <4>5. s = 86400 * (count - (count - ago)) + x - y
        BY <4>1, <4>2, <4>3, <4>4 DEF SecondsBetween
      <4>6. Elapsed(t) = 86400 * ago + x - y
        BY <4>1 DEF Elapsed
      <4>7. PICK days : days = count - (count - ago) OBVIOUS
      <4>8. days = ago
        BY <4>1, <4>3, <4>7
      <4> HIDE DEF x, y, s
      <4>9. s = 86400 * days + x - y BY <4>5, <4>7
      <4> QED BY <4>6, <4>8, <4>9
    <3>2. s \in Int
      <4>1. r.at \in Stamps /\ r.last[1].at \in Stamps
        BY <2>1, <2>2, <2>5 DEF Plausible
      <4> QED BY <4>1, SecondsAreInts
    <3>3. PartitionKey(q) % 2 = 1 /\ IntervalAs(s, q[5])
      <4>1. /\ PartitionKey(q) % 2 = (IF r.last = <<>> THEN 0 ELSE 1)
            /\ r.last # <<>> => IntervalAs(s, q[5])
        BY <2>1, OneRequest
      <4> HIDE DEF r, s
      <4> QED BY <2>2, <2>5, <4>1
    <3> DEFINE e == Elapsed(t)
               x == q[5]
    <3>4. e = s
      BY <3>1
    <3> HIDE DEF s, r, e, x
    <3>5. IF e <= 0 THEN x = 0
          ELSE IF e >= MAX_SECONDS THEN x = QUANT_SCALE
          ELSE 2 * (x * 864 - e * 100) \in -864 .. 864
      <4>1. CASE s <= 0
        BY <3>3, <3>4, <4>1 DEF x, IntervalAs
      <4>2. CASE s > 0 /\ s >= MAX_SECONDS
        BY <3>2, <3>3, <3>4, <4>2 DEF x, IntervalAs
      <4>3. CASE s > 0 /\ s < MAX_SECONDS
        BY <2>3, <3>2, <3>3, <3>4, <4>3 DEF x, IntervalAs
      <4> QED BY <2>3, <3>2, <4>1, <4>2, <4>3
    <3> QED BY <2>5, <3>3, <3>5 DEF e, x
  <2> QED BY <2>4, <2>5
<1> QED BY <1>1, WalkInductive, PTL

-----------------------------------------------------------------------------
(***************************************************************************)
(* What the labels show, said without the scripts.                         *)
(***************************************************************************)

InLeaf(l) == {i \in Entries : Leaf(i) = l}
InPair(pair) == {i \in Entries : RouteOf(i) = pair}

\* Leaf l may answer for itself.
Shown(l) ==
  /\ Cardinality(InLeaf(l)) >= MIN_OBS_A
  /\ \A i \in InLeaf(l) : data[i].approved = Approves(LEAF_COUNT_OF[l])

\* Verdict v may be given for a pair.
ShownPair(pair, v) ==
  /\ Cardinality(InPair(pair)) >= MIN_OBS_B
  /\ \A i \in InPair(pair) : data[i].approved = Approves(v)

\* The labels of a pair differ.
Mixed(pair) == \E i, j \in InPair(pair) : data[i].approved # data[j].approved

GoodA(safe) == \A l \in Leaves : safe[l] => Shown(l)

GoodB(safe, verdict, masks) ==
  \A l \in Leaves, p \in Parts :
    safe[l] /\ MaskHas(masks[l], p) => ShownPair(<<l, p>>, verdict[l])

GoodPairs(pairs) ==
  \A pair \in DOMAIN pairs : pair \in Leaves \X Parts /\ ShownPair(pair, pairs[pair])

-----------------------------------------------------------------------------
(***************************************************************************)
(* The invariant.                                                          *)
(***************************************************************************)

DataTyped ==
  /\ data \in Seq([request : Requests, approved : BOOLEAN])
  /\ routed \in [Requests -> Leaves \X Parts]
  /\ served \in [Requests -> SUBSET (Leaves \X Parts)]

AFields == {"pc", "perLeaf", "safe"}

AInv ==
  /\ DOMAIN a = AFields
  /\ a.pc \in {"none", "decide", "audit", "emit", "done", "crash"}
  /\ a.pc \in {"decide", "audit", "emit"} => a.perLeaf = [l \in Leaves |-> InLeaf(l)]
  /\ a.pc \in {"audit", "emit"} => a.safe \in [Leaves -> BOOLEAN] /\ GoodA(a.safe)
  /\ fileA # NoFile => fileA \in [Leaves -> BOOLEAN] /\ GoodA(fileA)

BFields == {"pc", "open", "safeA", "perPair", "safePairs", "leafVerdict", "fold", "errors"}

Active == {"select", "leaves", "audit", "validate", "emit"}

BInv ==
  /\ DOMAIN b = BFields
  /\ b.pc \in Active \cup {"none", "done", "exit3"}
  /\ b.pc \in Active => b.safeA \in [Leaves -> BOOLEAN]
  /\ b.pc = "select" => b.perPair = Buckets(Entries, b.safeA)
  /\ GoodPairs(b.safePairs)
  /\ DOMAIN b.leafVerdict \subseteq Leaves
  /\ b.pc \in {"select", "leaves"} => DOMAIN b.leafVerdict = {}
  /\ \A pair \in DOMAIN b.safePairs :
       pair[1] \in DOMAIN b.leafVerdict => b.leafVerdict[pair[1]] = b.safePairs[pair]
  /\ \A pair \in b.errors : Mixed(pair)
  /\ fileB # NoFile => GoodB(fileB.safe, fileB.verdict, fileB.masks)

TreeFields == {"calibrated", "safeA", "safeB", "verdictB", "masksB"}

TreeInv ==
  /\ DOMAIN tree = TreeFields
  /\ tree.safeA \in [Leaves -> BOOLEAN]
  /\ tree.calibrated => GoodA(tree.safeA)
  /\ GoodB(tree.safeB, tree.verdictB, tree.masksB)

IInv == DataTyped /\ AInv /\ BInv /\ TreeInv

-----------------------------------------------------------------------------
(***************************************************************************)
(* Lemmas about the tables.                                                *)
(***************************************************************************)

\* There are finitely many labelled requests.
LEMMA EntriesFinite ==
  ASSUME DataTyped
  PROVE  Entries = 1 .. Len(data) /\ IsFiniteSet(Entries)
<1>1. Entries = 1 .. Len(data)
  BY DEF DataTyped, Entries
<1>2. IsFiniteSet(1 .. Len(data))
  BY <1>1, FS_Interval DEF DataTyped
<1> QED BY <1>1, <1>2

\* Each of them has a leaf and a partition.
LEMMA EntryRouted ==
  ASSUME DataTyped, NEW i \in Entries
  PROVE  /\ RouteOf(i) \in Leaves \X Parts /\ Leaf(i) \in Leaves
         /\ Leaf(i) = RouteOf(i)[1] /\ data[i].approved \in BOOLEAN
         /\ data[i].request \in Requests
<1>1. data[i] \in [request : Requests, approved : BOOLEAN]
  <2>1. i \in 1 .. Len(data)
    BY EntriesFinite
  <2> DEFINE Labelled == [request : Requests, approved : BOOLEAN]
  <2>2. data \in Seq(Labelled)
    BY DEF DataTyped
  <2>3. data[i] \in Labelled
    <3> HIDE DEF Labelled
    <3> QED BY <2>1, <2>2
  <2> QED BY <2>3
<1>2. routed[data[i].request] \in Leaves \X Parts
  BY <1>1 DEF DataTyped
<1> QED BY <1>1, <1>2 DEF RouteOf, Leaf

\* A bucket holds the entries of its pair, all of which Mode A leaves over.
LEMMA BucketIsPair ==
  ASSUME DataTyped, NEW S \in SUBSET Entries, NEW safeA,
         NEW pair \in DOMAIN Buckets(S, safeA)
  PROVE  /\ Buckets(S, safeA)[pair] = {i \in S : RouteOf(i) = pair}
         /\ pair \in Leaves \X Parts
<1> DEFINE unsafe == {i \in S : ~safeA[Leaf(i)]}
<1>1. Buckets(S, safeA)
        = [q \in {RouteOf(i) : i \in unsafe} |-> {i \in unsafe : RouteOf(i) = q}]
  BY DEF Buckets
<1>2. pair \in {RouteOf(i) : i \in unsafe}
  BY <1>1
<1>3. Buckets(S, safeA)[pair] = {i \in unsafe : RouteOf(i) = pair}
  BY <1>1, <1>2
<1>4. PICK k \in unsafe : pair = RouteOf(k)
  BY <1>2
<1>5. \A i \in S : RouteOf(i) = pair => i \in unsafe
  BY <1>4 DEF Leaf
<1>6. pair \in Leaves \X Parts
  BY <1>4, EntryRouted
<1> QED BY <1>3, <1>5, <1>6

\* Verdict v fits the entries of a pair among S.
Fits(S, pair, v) ==
  /\ pair \in Leaves \X Parts
  /\ Cardinality({i \in S : RouteOf(i) = pair}) >= MIN_OBS_B
  /\ \E k \in S : RouteOf(k) = pair
  /\ \A i \in S : RouteOf(i) = pair => data[i].approved = Approves(v)

\* The verdict given to a unanimous bucket is the label of all its entries.
LEMMA UnanimousVerdict ==
  ASSUME DataTyped, NEW S \in SUBSET Entries, NEW safeA,
         NEW pair, Unanimous(Buckets(S, safeA), pair)
  PROVE  Fits(S, pair, Verdict(Buckets(S, safeA)[pair]))
<1> DEFINE items == {i \in S : RouteOf(i) = pair}
<1>1. pair \in DOMAIN Buckets(S, safeA)
  BY DEF Unanimous
<1>2. pair \in Leaves \X Parts /\ Buckets(S, safeA)[pair] = items
  BY <1>1, BucketIsPair
<1>3. /\ Cardinality(items) >= MIN_OBS_B
      /\ \A i, j \in items : data[i].approved = data[j].approved
  BY <1>2 DEF Unanimous
<1>4. items # {}
  <2>1. MIN_OBS_B \in Nat \ {0}
    BY ConstantsB
  <2> QED BY <1>3, <2>1, FS_EmptySet
<1> DEFINE k == CHOOSE i \in items : TRUE
<1>5. k \in items
  BY <1>4
<1>6. data[k].approved \in BOOLEAN
  BY <1>5, EntryRouted
<1>7. Verdict(items) = IF data[k].approved THEN 0 ELSE 5
  BY DEF Verdict
<1>8. Approves(Verdict(items)) = data[k].approved
  <2>1. Approves(0) = TRUE /\ Approves(5) = FALSE
    BY DEF Approves
  <2>2. data[k].approved = TRUE => Approves(Verdict(items)) = data[k].approved
    BY <2>1, <1>7
  <2>3. data[k].approved = FALSE => Approves(Verdict(items)) = data[k].approved
    BY <2>1, <1>7
  <2> QED BY <1>6, <2>2, <2>3
<1>9. \A i \in items : data[i].approved = data[k].approved
  BY <1>3, <1>5
<1> QED BY <1>2, <1>3, <1>5, <1>8, <1>9 DEF Fits

\* A bit of a mask stands for one partition.
LEMMA MaskIsSet ==
  ASSUME NEW parts \in SUBSET Parts, NEW p \in Parts, MaskHas(MaskOf(parts), p)
  PROVE  p \in parts
<1>1. p \in 0 .. 255 /\ p \div 64 \in 0 .. 3
  BY DEF Parts
<1>2. p % 64 \in {r % 64 : r \in {s \in parts : s \div 64 = p \div 64}}
  BY <1>1 DEF MaskHas, MaskOf
<1>3. PICK r \in parts : r \div 64 = p \div 64 /\ r % 64 = p % 64
  BY <1>2
<1>4. r \in 0 .. 255
  BY DEF Parts
<1>5. r = 64 * (r \div 64) + (r % 64) /\ p = 64 * (p \div 64) + (p % 64)
  BY <1>1, <1>4
<1>6. r = p
  BY <1>3, <1>5
<1> QED BY <1>6

-----------------------------------------------------------------------------
(***************************************************************************)
(* Labelled requests and routes never change, and with them what they      *)
(* show.                                                                   *)
(***************************************************************************)

LEMMA Frame ==
  ASSUME UNCHANGED <<data, routed>>
  PROVE  /\ \A l : InLeaf(l)' = InLeaf(l)
         /\ \A safe : GoodA(safe)' <=> GoodA(safe)
         /\ \A safe, verdict, masks :
              GoodB(safe, verdict, masks)' <=> GoodB(safe, verdict, masks)
         /\ \A pairs : GoodPairs(pairs)' <=> GoodPairs(pairs)
         /\ \A pair : Mixed(pair)' <=> Mixed(pair)
         /\ \A safe : Buckets(Entries, safe)' = Buckets(Entries, safe)
<1>1. Entries' = Entries /\ \A i : RouteOf(i)' = RouteOf(i) /\ Leaf(i)' = Leaf(i)
  BY DEF Entries, RouteOf, Leaf
<1>2. \A l : InLeaf(l)' = InLeaf(l)
  BY DEF InLeaf, Entries, RouteOf, Leaf
<1>3. \A pair : InPair(pair)' = InPair(pair)
  BY DEF InPair, Entries, RouteOf
<1>4. \A l : Shown(l)' <=> Shown(l)
  BY <1>2 DEF Shown
<1>5. \A pair, v : ShownPair(pair, v)' <=> ShownPair(pair, v)
  BY <1>3 DEF ShownPair
<1>6. \A safe : GoodA(safe)' <=> GoodA(safe)
  BY <1>4 DEF GoodA
<1>7. \A safe, verdict, masks : GoodB(safe, verdict, masks)' <=> GoodB(safe, verdict, masks)
  BY <1>5 DEF GoodB
<1>8. \A pairs : GoodPairs(pairs)' <=> GoodPairs(pairs)
  BY <1>5 DEF GoodPairs
<1>9. \A pair : Mixed(pair)' <=> Mixed(pair)
  BY <1>3 DEF Mixed
<1>10. \A safe : Buckets(Entries, safe)' = Buckets(Entries, safe)
  BY DEF Buckets, Entries, RouteOf, Leaf
<1> QED BY <1>2, <1>6, <1>7, <1>8, <1>9, <1>10

-----------------------------------------------------------------------------
(***************************************************************************)
(* Script A.                                                               *)
(***************************************************************************)

\* What LeafSafe looks at is the leaf's entries, and what it asks is Shown.
LEMMA SafeIsShown ==
  ASSUME AInv, a.pc = "decide", NEW l \in Leaves, LeafSafe(l)
  PROVE  Shown(l)
<1>1. a.perLeaf[l] = InLeaf(l)
  BY DEF AInv
<1> QED BY <1>1 DEF LeafSafe, Shown

\* The audit of a table of leaves that are shown finds nothing.
LEMMA NothingWrongA ==
  ASSUME DataTyped, AInv, a.pc = "audit"
  PROVE  WrongA = {}
<1> SUFFICES ASSUME NEW i \in Entries, NEW l \in Leaves,
                    i \in a.perLeaf[l], a.safe[l],
                    Approves(LEAF_COUNT_OF[l]) # data[i].approved
             PROVE  FALSE
  BY DEF WrongA
<1>1. i \in InLeaf(l) /\ GoodA(a.safe)
  BY DEF AInv
<1> QED BY <1>1 DEF GoodA, Shown

LEMMA StepAKeeps ==
  ASSUME IInv, StepA, UNCHANGED <<b, fileB>>
  PROVE  IInv'
<1> USE DEF IInv
<1>1. UNCHANGED <<data, routed, served, tree>>
  BY DEF StepA
<1>2. DataTyped'
  BY <1>1 DEF DataTyped
<1>3. BInv'
  BY <1>1, Frame DEF BInv
<1>4. TreeInv'
  BY <1>1, Frame DEF TreeInv
<1>5. AInv'
  <2>1. CASE StartA
    BY <2>1, <1>1, Frame DEF AInv, StartA, AFields, InLeaf
  <2>2. CASE DecideA
    <3>1. CASE data = <<>>
      BY <3>1, <2>2, <1>1, Frame DEF AInv, DecideA, EndedA, AFields
    <3>2. CASE data # <<>>
      <4>1. a' = [a EXCEPT !.pc = "audit", !.safe = [l \in Leaves |-> LeafSafe(l)]]
        BY <3>2, <2>2 DEF DecideA
      <4>2. a'.pc = "audit" /\ a'.perLeaf = a.perLeaf /\ DOMAIN a' = AFields
            /\ a'.safe = [l \in Leaves |-> LeafSafe(l)]
        BY <4>1 DEF AInv, AFields
      <4>3. a'.safe \in [Leaves -> BOOLEAN]
        BY <4>2 DEF LeafSafe
      <4>4. GoodA(a'.safe)
        BY <4>2, <2>2, SafeIsShown DEF GoodA, DecideA
      <4> QED BY <4>2, <4>3, <4>4, <2>2, <1>1, Frame DEF AInv, DecideA
    <3> QED BY <3>1, <3>2
  <2>3. CASE AuditA
    BY <2>3, <1>1, Frame, NothingWrongA DEF AInv, AuditA, AFields
  <2>4. CASE EmitA
    BY <2>4, <1>1, Frame DEF AInv, EmitA, EndedA, AFields
  <2> QED BY <2>1, <2>2, <2>3, <2>4 DEF StepA
<1> QED BY <1>2, <1>3, <1>4, <1>5

-----------------------------------------------------------------------------
(***************************************************************************)
(* Script B.                                                               *)
(***************************************************************************)

\* The pairs it selects are shown.
LEMMA SelectedShown ==
  ASSUME DataTyped, BInv, b.pc = "select",
         NEW pair, Unanimous(b.perPair, pair)
  PROVE  pair \in Leaves \X Parts /\ ShownPair(pair, Verdict(b.perPair[pair]))
<1>1. b.perPair = Buckets(Entries, b.safeA)
  BY DEF BInv
<1>2. Unanimous(Buckets(Entries, b.safeA), pair)
  BY <1>1
<1>3. Fits(Entries, pair, Verdict(b.perPair[pair]))
  BY <1>1, <1>2, UnanimousVerdict
<1> QED BY <1>3 DEF Fits, ShownPair, InPair

\* A leaf that gets a verdict gets that of all its pairs.
LEMMA VerdictOfAll ==
  ASSUME NEW l, OneVerdict(l), NEW pair \in DOMAIN b.safePairs, pair[1] = l
  PROVE  b.safePairs[pair] = CHOOSE v \in VerdictsOf(l) : TRUE
<1>1. PICK v \in VerdictsOf(l) : VerdictsOf(l) = {v}
  BY DEF OneVerdict
<1>2. b.safePairs[pair] \in VerdictsOf(l)
  BY DEF VerdictsOf
<1> QED BY <1>1, <1>2

\* The audit finds nothing.
LEMMA NothingWrongB ==
  ASSUME DataTyped, BInv
  PROVE  WrongB = {}
<1> SUFFICES ASSUME NEW i \in Entries, Leaf(i) \in DOMAIN b.leafVerdict,
                    RouteOf(i) \in DOMAIN b.safePairs,
                    Approves(b.leafVerdict[Leaf(i)]) # data[i].approved
             PROVE  FALSE
  BY DEF WrongB
<1>1. RouteOf(i)[1] = Leaf(i)
  BY EntryRouted
<1>2. b.leafVerdict[Leaf(i)] = b.safePairs[RouteOf(i)]
  BY <1>1 DEF BInv
<1>3. ShownPair(RouteOf(i), b.safePairs[RouteOf(i)])
  BY DEF BInv, GoodPairs
<1> QED BY <1>2, <1>3 DEF ShownPair, InPair

\* A pair that errs in a fold has entries of either label: one that the fold
\* was trained on, and the one that it errs on.
LEMMA ErrorsMixed ==
  ASSUME DataTyped, NEW pair \in FoldErrors
  PROVE  Mixed(pair)
<1> DEFINE train == Buckets(Entries \ Test, b.safeA)
<1>1. PICK j \in Test :
        /\ pair = RouteOf(j) /\ Unanimous(train, RouteOf(j))
        /\ Approves(Verdict(train[RouteOf(j)])) # data[j].approved
  BY DEF FoldErrors
<1>2. Entries \ Test \in SUBSET Entries /\ j \in Entries
  BY DEF Test
<1>3. Fits(Entries \ Test, pair, Verdict(train[pair]))
  BY <1>1, <1>2, UnanimousVerdict
<1>4. PICK k \in Entries \ Test : RouteOf(k) = pair
  BY <1>3 DEF Fits
<1>5. data[k].approved = Approves(Verdict(train[pair]))
  BY <1>3, <1>4 DEF Fits
<1> QED BY <1>1, <1>2, <1>4, <1>5 DEF Mixed, InPair

\* What the table answers with is what the pairs say.
LEMMA TableShown ==
  ASSUME BInv
  PROVE  GoodB(TableB.safe, TableB.verdict, TableB.masks)
<1> SUFFICES ASSUME NEW l \in Leaves, NEW p \in Parts,
                    TableB.safe[l], MaskHas(TableB.masks[l], p)
             PROVE  ShownPair(<<l, p>>, TableB.verdict[l])
  BY DEF GoodB
<1>1. l \in DOMAIN b.leafVerdict
  BY DEF TableB
<1>2. TableB.verdict[l] = b.leafVerdict[l] /\ TableB.masks[l] = MaskOf(PartsOf(l))
  BY <1>1 DEF TableB
<1>3. PartsOf(l) \subseteq Parts
  BY DEF BInv, GoodPairs, PartsOf
<1>4. p \in PartsOf(l)
  BY <1>2, <1>3, MaskIsSet
<1>5. PICK pair \in DOMAIN b.safePairs : pair[1] = l /\ pair[2] = p
  BY <1>4 DEF PartsOf
<1>6. pair = <<l, p>> /\ ShownPair(pair, b.safePairs[pair])
  BY <1>5 DEF BInv, GoodPairs
<1>7. b.safePairs[pair] = b.leafVerdict[l]
  BY <1>1, <1>5 DEF BInv
<1> QED BY <1>2, <1>6, <1>7

LEMMA StepBKeeps ==
  ASSUME IInv, StepB, UNCHANGED <<a, fileA>>
  PROVE  IInv'
<1> USE DEF IInv
<1>1. UNCHANGED <<data, routed, served, tree>>
  BY DEF StepB
<1>2. DataTyped'
  BY <1>1 DEF DataTyped
<1>3. AInv'
  BY <1>1, Frame DEF AInv
<1>4. TreeInv'
  BY <1>1, Frame DEF TreeInv
<1>5. BInv'
  <2>1. ASSUME NEW open \in BOOLEAN, StartB(open) PROVE BInv'
    <3>1. Entries' = Entries
      BY <1>1 DEF Entries
    <3> QED BY <2>1, <3>1, <1>1, Frame DEF BInv, TreeInv, StartB, EndedB, BFields, Active, GoodPairs
  <2>2. CASE SelectPairs
    <3>1. /\ b'.pc = "leaves" /\ DOMAIN b' = BFields
          /\ b'.safePairs = [pair \in {c \in Candidates : Unanimous(b.perPair, c)} |->
                                Verdict(b.perPair[pair])]
          /\ UNCHANGED <<fileB, b.safeA, b.leafVerdict, b.errors>>
      BY <2>2 DEF SelectPairs, BInv, BFields
    <3>2. GoodPairs(b'.safePairs)
      BY <3>1, <2>2, SelectedShown DEF GoodPairs, SelectPairs
    <3>3. DOMAIN b'.leafVerdict = {}
      BY <3>1, <2>2 DEF SelectPairs, BInv
    <3> QED BY <3>1, <3>2, <3>3, <2>2, <1>1, Frame DEF BInv, SelectPairs, Active
  <2>3. CASE LeafVerdicts
    <3>1. /\ b'.pc = "audit" /\ DOMAIN b' = BFields
          /\ b'.leafVerdict = [l \in {k \in ALLOW_LEAVES : OneVerdict(k)} |->
                                  CHOOSE v \in VerdictsOf(l) : TRUE]
          /\ UNCHANGED <<fileB, b.safeA, b.safePairs, b.errors>>
      BY <2>3 DEF LeafVerdicts, BInv, BFields
    <3>2. DOMAIN b'.leafVerdict \subseteq Leaves
      BY <3>1, ConstantsB
    <3>3. \A pair \in DOMAIN b.safePairs :
            pair[1] \in DOMAIN b'.leafVerdict => b'.leafVerdict[pair[1]] = b.safePairs[pair]
      BY <3>1, VerdictOfAll
    <3> QED BY <3>1, <3>2, <3>3, <2>3, <1>1, Frame DEF BInv, LeafVerdicts, Active
  <2>4. CASE AuditB
    BY <2>4, <1>1, Frame, NothingWrongB DEF BInv, AuditB, BFields, Active
  <2>5. CASE CrossValidate
    <3>1. /\ b'.pc = b.pc /\ DOMAIN b' = BFields /\ b'.errors = b.errors \cup FoldErrors
          /\ UNCHANGED <<fileB, b.safeA, b.safePairs, b.leafVerdict>>
      BY <2>5 DEF CrossValidate, BInv, BFields
    <3>2. \A pair \in b'.errors : Mixed(pair)
      BY <3>1, ErrorsMixed DEF BInv
    <3> QED BY <3>1, <3>2, <2>5, <1>1, Frame DEF BInv, CrossValidate
  <2>6. CASE Validated
    <3>1. CASE b.errors # {}
      BY <3>1, <2>6, <1>1, Frame DEF BInv, Validated, EndedB, BFields, Active, GoodPairs
    <3>2. CASE b.errors = {}
      BY <3>2, <2>6, <1>1, Frame DEF BInv, Validated, BFields, Active
    <3> QED BY <3>1, <3>2
  <2>7. CASE EmitB
    BY <2>7, <1>1, Frame, TableShown DEF BInv, EmitB, EndedB, BFields, Active, GoodPairs
  <2> QED BY <2>1, <2>2, <2>3, <2>4, <2>5, <2>6, <2>7 DEF StepB
<1> QED BY <1>2, <1>3, <1>4, <1>5

-----------------------------------------------------------------------------
(***************************************************************************)
(* The invariant holds.                                                    *)
(***************************************************************************)

LEMMA InitInv == Init => IInv
<1> SUFFICES ASSUME Init PROVE IInv
  OBVIOUS
<1>1. DataTyped
  <2>1. data \in Seq([request : Requests, approved : BOOLEAN])
    BY DataAssumption DEF Init
  <2>2. routed \in [Requests -> Leaves \X Parts]
    <3>1. \A r \in Requests : Route(ScriptVector(r)) \in Leaves \X Parts
      BY TreeAssumption DEF Routes
    <3> QED BY <3>1 DEF Init, InitRoutes, ScriptRoutes
  <2>3. served \in [Requests -> SUBSET (Leaves \X Parts)]
    <3>1. \A r \in Requests : Routes(ServiceVectors(r)) \subseteq Leaves \X Parts
      BY TreeAssumption DEF Routes
    <3> QED BY <3>1 DEF Init, InitRoutes, ServedRoutes
  <2> QED BY <2>1, <2>2, <2>3 DEF DataTyped
<1>2. AInv
  BY DEF Init, InitA, EndedA, AInv, AFields
<1>3. BInv
  BY DEF Init, EndedB, BInv, BFields, Active, GoodPairs
<1>4. TreeInv
  BY DEF Init, TreeInv, TreeFields, NoTableB, GoodB
<1> QED BY <1>1, <1>2, <1>3, <1>4 DEF IInv

LEMMA InstallKeeps ==
  ASSUME IInv, InstallA \/ InstallB
  PROVE  IInv'
<1> USE DEF IInv
<1>1. UNCHANGED <<data, routed, served, a, fileA, b, fileB>>
  BY DEF InstallA, InstallB
<1>2. DataTyped' /\ AInv' /\ BInv'
  BY <1>1, Frame DEF DataTyped, AInv, BInv
<1>3. CASE InstallA
  BY <1>1, <1>2, <1>3, Frame DEF AInv, TreeInv, TreeFields, InstallA
<1>4. CASE InstallB
  BY <1>1, <1>2, <1>4, Frame DEF BInv, TreeInv, TreeFields, InstallB
<1> QED BY <1>3, <1>4

LEMMA NextKeeps == IInv /\ [Next]_calVars => IInv'
<1> SUFFICES ASSUME IInv, [Next]_calVars PROVE IInv'
  OBVIOUS
<1>1. CASE StepA /\ UNCHANGED <<b, fileB>>
  BY <1>1, StepAKeeps
<1>2. CASE StepB /\ UNCHANGED <<a, fileA>>
  BY <1>2, StepBKeeps
<1>3. CASE InstallA \/ InstallB
  BY <1>3, InstallKeeps
<1>4. CASE UNCHANGED calVars
  <2>1. UNCHANGED <<data, routed, served, tree, a, fileA, b, fileB>>
    BY <1>4 DEF calVars
  <2> QED BY <2>1, Frame DEF IInv, DataTyped, AInv, BInv, TreeInv
<1> QED BY <1>1, <1>2, <1>3, <1>4 DEF Next

LEMMA Invariance == Spec => []IInv
BY InitInv, NextKeeps, PTL DEF Spec

-----------------------------------------------------------------------------
(***************************************************************************)
(* Theorems.                                                               *)
(***************************************************************************)

\* What a table from a calibration answers is shown by the labels.
LEMMA AnswersShown ==
  ASSUME IInv, NEW l \in Leaves, NEW p \in Parts, NEW c \in Answers(l, p)
  PROVE  \/ tree.safeA[l] /\ Shown(l) /\ c = LEAF_COUNT_OF[l]
         \/ ShownPair(<<l, p>>, c)
<1>1. CASE tree.safeA[l]
  BY <1>1 DEF Answers, FastPath, IInv, TreeInv, GoodA
<1>2. CASE ~tree.safeA[l]
  <2>1. /\ tree.safeB[l] /\ MaskHas(tree.masksB[l], p) /\ c = tree.verdictB[l]
    BY <1>2 DEF Answers, FastPath
  <2> QED BY <2>1 DEF IInv, TreeInv, GoodB
<1> QED BY <1>1, <1>2

\* No labelled request is answered against its label without a search
\* (FastPathRight), whatever is calibrated and installed when.
THEOREM AnswersRight == Spec => []FastPathRight
<1>1. IInv => FastPathRight
  <2> SUFFICES ASSUME IInv, NEW i \in Entries, NEW route \in served[data[i].request],
                      route = RouteOf(i), NEW c \in Answers(route[1], route[2])
               PROVE  Approves(c) = data[i].approved
    BY DEF FastPathRight
  <2>1. RouteOf(i) \in Leaves \X Parts /\ Leaf(i) = RouteOf(i)[1]
    BY EntryRouted DEF IInv
  <2>2. route = <<route[1], route[2]>> /\ route[1] \in Leaves /\ route[2] \in Parts
    BY <2>1
  <2>3. CASE Shown(route[1]) /\ c = LEAF_COUNT_OF[route[1]]
    BY <2>1, <2>3 DEF Shown, InLeaf
  <2>4. CASE ShownPair(<<route[1], route[2]>>, c)
    BY <2>2, <2>4 DEF ShownPair, InPair
  <2> QED BY <2>2, <2>3, <2>4, AnswersShown
<1> QED BY <1>1, Invariance, PTL

\* No request is answered without a search on fewer labels than the scripts
\* ask for (FastPathObserved).
THEOREM AnswersObserved == Spec => []FastPathObserved
<1>1. IInv => FastPathObserved
  <2> SUFFICES ASSUME IInv, NEW r \in Requests, NEW route \in served[r],
                      NEW c \in Answers(route[1], route[2])
               PROVE  \/ Cardinality({i \in Entries : RouteOf(i) = route}) >= MIN_OBS_B
                      \/ /\ tree.safeA[route[1]]
                         /\ Cardinality({i \in Entries : Leaf(i) = route[1]}) >= MIN_OBS_A
    BY DEF FastPathObserved
  <2>1. route \in Leaves \X Parts
    BY DEF IInv, DataTyped
  <2>2. route = <<route[1], route[2]>> /\ route[1] \in Leaves /\ route[2] \in Parts
    BY <2>1
  <2>3. CASE tree.safeA[route[1]] /\ Shown(route[1])
    BY <2>3 DEF Shown, InLeaf
  <2>4. CASE ShownPair(<<route[1], route[2]>>, c)
    BY <2>2, <2>4 DEF ShownPair, InPair
  <2> QED BY <2>2, <2>3, <2>4, AnswersShown
<1> QED BY <1>1, Invariance, PTL

\* Neither audit can fail (AuditsPass).
THEOREM AuditsNeverFail == Spec => []AuditsPass
<1>1. IInv => AuditsPass
  BY DEF IInv, AInv, BInv, Active, AuditsPass
<1> QED BY <1>1, Invariance, PTL

\* Cross-validation finds fault only with pairs that are rejected anyway
\* (ErrorsOnlyInRejected).
THEOREM ErrorsInRejected == Spec => []ErrorsOnlyInRejected
<1>1. IInv => ErrorsOnlyInRejected
  <2> SUFFICES ASSUME IInv, NEW pair \in b.errors, pair \in DOMAIN b.safePairs
               PROVE  FALSE
    BY DEF ErrorsOnlyInRejected
  <2>1. ShownPair(pair, b.safePairs[pair]) /\ Mixed(pair)
    BY DEF IInv, BInv, GoodPairs
  <2> QED BY <2>1 DEF ShownPair, Mixed
<1> QED BY <1>1, Invariance, PTL
=============================================================================
