------------------------------ MODULE Calendar -------------------------------
(***************************************************************************)
(* The calendar of src/time.zig: days since 1970-01-01 and days of the     *)
(* week by closed formulas, of a year y, a month m and a day d.            *)
(***************************************************************************)
EXTENDS Integers

\* (Variant: February belongs to the new year.)
JanuaryYear(y, m) == IF m = 1 THEN y - 1 ELSE y

\* The year as counted from March on.
MarchYear(y, m) == IF m <= 2 THEN y - 1 ELSE y

\* Days before the first of March of year z, of the calendar's first year on.
DaysOfYears(z) ==
  LET era == (IF z >= 0 THEN z ELSE z - 399) \div 400
      yoe == z - era * 400
  IN era * 146097 + (yoe * 365 + yoe \div 4 - yoe \div 100)

\* Days from the first of March to the date.
DayOfYear(m, d) ==
  LET shift == IF m > 2 THEN m - 3 ELSE m + 9
  IN (153 * shift + 2) \div 5 + d - 1

DaysSinceEpoch(y, m, d) == DaysOfYears(MarchYear(y, m)) + DayOfYear(m, d) - 719468

Offset == <<0, 3, 2, 5, 0, 3, 5, 1, 4, 6, 2, 4>>

\* (Variant: right from 1901 to 2099.)
LeapsThisCentury(z) == z \div 4 - 15

Leaps(z) == z \div 4 - z \div 100 + z \div 400

\* 0 is Monday.
DayOfWeek(y, m, d) ==
  LET z == MarchYear(y, m)
      raw == (z + Leaps(z) + Offset[m] + d) % 7
      s == (raw + 7) % 7
  IN (s + 6) % 7
=============================================================================
