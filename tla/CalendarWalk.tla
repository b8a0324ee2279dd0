---------------------------- MODULE CalendarWalk -----------------------------
(***************************************************************************)
(* A walk through the Gregorian calendar, one day at a time, against which *)
(* the formulas of Calendar are held.                                      *)
(***************************************************************************)
EXTENDS Calendar

CONSTANTS FirstYear, LastYear   \* how far the walk goes

\* A timestamp's year is read from four digits, so it is not negative.
ASSUME CalendarConstants ==
  FirstYear \in 0 .. 1969 /\ LastYear \in Nat /\ LastYear >= 1971

Leap(y) == y % 4 = 0 /\ (y % 100 # 0 \/ y % 400 = 0)

DaysIn(y, m) ==
  IF m = 2 THEN IF Leap(y) THEN 29 ELSE 28
  ELSE IF m \in {4, 6, 9, 11} THEN 30 ELSE 31

VARIABLES
  year, month, day,
  count,      \* days since 1970-01-01
  weekday     \* 0 is Monday

vars == <<year, month, day, count, weekday>>

\* 1970-01-01 was a Thursday.
CalendarInit ==
  /\ year = 1970 /\ month = 1 /\ day = 1
  /\ count = 0 /\ weekday = 3

DayAfter ==
  /\ count' = count + 1 /\ weekday' = (weekday + 1) % 7

DayBefore ==
  /\ count' = count - 1 /\ weekday' = (weekday + 6) % 7

Tomorrow ==
  /\ year < LastYear \/ month < 12 \/ day < 31
  /\ IF day < DaysIn(year, month)
       THEN day' = day + 1 /\ UNCHANGED <<year, month>>
       ELSE /\ day' = 1
            /\ IF month < 12 THEN month' = month + 1 /\ UNCHANGED year
                            ELSE month' = 1 /\ year' = year + 1
  /\ DayAfter

Yesterday ==
  /\ year > FirstYear \/ month > 1 \/ day > 1
  /\ IF day > 1
       THEN day' = day - 1 /\ UNCHANGED <<year, month>>
       ELSE IF month > 1
              THEN month' = month - 1 /\ day' = DaysIn(year, month - 1) /\ UNCHANGED year
              ELSE month' = 12 /\ day' = 31 /\ year' = year - 1
  /\ DayBefore

CalendarNext == Tomorrow \/ Yesterday

CalendarSpec == CalendarInit /\ [][CalendarNext]_vars

-----------------------------------------------------------------------------
\* The interval to a customer's last transaction is right across months, leap
\* years and centuries: the formula counts every day once.
DaysCounted == DaysSinceEpoch(year, month, day) = count

\* The day of the week a transaction is scored with is the calendar's.
WeekdayRight == DayOfWeek(year, month, day) = weekday
=============================================================================
