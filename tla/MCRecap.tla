------------------------------ MODULE MCRecap ------------------------------
(* A small instance of Recap: hours of two slots, days of two hours, weeks *)
(* and months of two days, so that a period is due within the first hour.  *)
EXTENDS Recap, TLC

MCFirstOfMonth(d) == d % 2 = 0
MCMonthBefore(t) == t - 2 * SlotsPerHour * HoursPerDay
MCMinCheckIns(c) == IF c = "custom" THEN 0 ELSE 1

(* Weekly and monthly, due in the same hour.                               *)
WeeklySetting == [cadence |-> "weekly", weekday |-> 0, hour |-> 1, offset |-> 0]
MonthlySetting == [cadence |-> "monthly", weekday |-> 0, hour |-> 1, offset |-> 0]
MCSettings == {WeeklySetting, MonthlySetting}
(* An admin asks for the very week the scheduler covers.                   *)
MCManualPeriods == {[start |-> 2, end |-> 10]}
MCWeeklyOnly == {WeeklySetting}

(* Server processes and admin requests are interchangeable.                *)
JobSymmetry == Permutations(Scheduler) \cup Permutations(Request)
=============================================================================
