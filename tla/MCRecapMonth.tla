---------------------------- MODULE MCRecapMonth ----------------------------
(* An instance of Recap on the real calendar, an hour to the slot: the     *)
(* group is an hour east of UTC, and its recap is due at midnight.         *)
EXTENDS Recap, RecapCalendar

MCEast == {[cadence |-> "monthly", weekday |-> 0, hour |-> 0, offset |-> 1]}
MCMinCheckIns(c) == 1

(* recap_period_test.go: "AddDate's day=1 arithmetic does not depend on    *)
(* the month length either way": a monthly recap begins at the group's     *)
(* hour of the first of a month, so that the next one continues where it   *)
(* ends.                                                                   *)
MonthStartsOnFirst ==
  \A r \in recaps :
    r.spec.cadence = "monthly" =>
      LET by == birth[r.post].by IN
      LocalHour(by, r.spec.start) = by.hour /\ FirstOfMonth(LocalDay(by, r.spec.start))
=============================================================================
