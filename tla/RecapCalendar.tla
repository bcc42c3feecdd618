--------------------------- MODULE RecapCalendar ---------------------------
(***************************************************************************)
(* The calendar a monthly recap is dated by, for Recap's parameters        *)
(* FirstOfMonth and MonthBefore: days are counted from a first of January, *)
(* in years of 365 days, and time in hours.                                *)
(***************************************************************************)
EXTENDS Integers

HoursADay == 24
MonthLength == <<31, 28, 31, 30, 31, 30, 31, 31, 30, 31, 30, 31>>
Year == 365

(* The day of the year on which a month begins.                            *)
MonthStart[m \in 1..12] ==
  IF m = 1 THEN 0 ELSE MonthStart[m - 1] + MonthLength[m - 1]

Month(d) == CHOOSE m \in 1..12 :
              /\ MonthStart[m] <= d % Year
              /\ d % Year < MonthStart[m] + MonthLength[m]
DayOfMonth(d) == (d % Year) - MonthStart[Month(d)] + 1

CivilFirstOfMonth(d) == DayOfMonth(d) = 1

(* AddDate(0, -1, 0) on a UTC instant: the same day of the month before,   *)
(* where a day that month does not have runs over into the next one, so    *)
(* that the step is as long as the month before, whatever the day.         *)
CivilMonthBefore(t) ==
  LET m == Month(t \div HoursADay)
  IN  t - HoursADay * MonthLength[IF m = 1 THEN 12 ELSE m - 1]
=============================================================================
