------------------------------- MODULE Dates -------------------------------
(***************************************************************************)
(* The days of chrono and of PostgreSQL, counted from 1970, and the years  *)
(* they lie in.  chrono counts years through zero; make_date of PostgreSQL *)
(* takes a negative year for one before Christ, and there is no year 0.    *)
(***************************************************************************)
EXTENDS Integers

CONSTANTS
    Day,                    \* milliseconds in a day
    DayFirst, DayLast,      \* the days of chrono
    PgDayFirst,             \* the first day of PostgreSQL
    FirstYear, LastYear,    \* the years of chrono
    YearFirst,              \* the first day of each
    YearDays,               \* days in a year that is not a leap year
    LeapDay                 \* days before the 29th of February

Years     == FirstYear .. LastYear
DaysOf(y) == YearFirst[y] .. YearFirst[y + 1] - 1

ASSUME DayAssumption ==
    /\ Day \in Nat \ {0}
    /\ DayFirst \in Int /\ DayLast \in Int /\ PgDayFirst \in Int
    /\ DayFirst <= PgDayFirst

ASSUME YearAssumption ==
    /\ FirstYear \in Int /\ LastYear \in Int /\ {0, 1} \subseteq Years
    /\ YearFirst \in [FirstYear .. LastYear + 1 -> Int]
    /\ YearDays \in Nat /\ LeapDay \in 0 .. YearDays
    /\ \A y \in Years : YearFirst[y + 1] - YearFirst[y] \in {YearDays, YearDays + 1}
    /\ \A y, z \in Years : y < z => YearFirst[y + 1] <= YearFirst[z]
    /\ \A n \in DayFirst .. DayLast : \E y \in Years : n \in DaysOf(y)

Leap(y)   == YearFirst[y + 1] - YearFirst[y] = YearDays + 1
YearOf(n) == CHOOSE y \in Years : n \in DaysOf(y)

\* The month and day of a day: its place in a year with a 29th of February.
MonthDay(n) ==
    LET y == YearOf(n)  i == n - YearFirst[y]
    IN  IF Leap(y) \/ i < LeapDay THEN i ELSE i + 1

DayIn(y, md)  == YearFirst[y] + (IF Leap(y) \/ md < LeapDay THEN md ELSE md - 1)
Exists(y, md) == md = LeapDay => Leap(y)

\* The year of chrono that make_date finds under the number of another.
PgYear(y) == IF y > 0 THEN y ELSE y + 1

-----------------------------------------------------------------------------
(* What the properties say of a date.                                      *)

\* The first day of the year 1, from which on the two count alike.
YearOne == YearFirst[1]

\* The day itself, and for one before Christ the same day a year later.
SameDate(n, d) ==
    IF n >= YearOne THEN d = n
    ELSE YearOf(d) = YearOf(n) + 1 /\ MonthDay(d) = MonthDay(n)

\* No date for it: outside a calendar, in the year 0, or on a 29th of
\* February before Christ.
NoDate(n) ==
    \/ n < PgDayFirst
    \/ n > DayLast
    \/ n < YearOne /\ (YearOf(n) = 0 \/ MonthDay(n) = LeapDay)
=============================================================================
