------------------------------ MODULE Calendar ------------------------------
(***************************************************************************)
(* The calendar that dates are computed on: days counted from 0, months of *)
(* the lengths given, the first a January; day 0 is a Monday.              *)
(***************************************************************************)
EXTENDS Integers, Sequences

CONSTANT MonthLengths   \* days of the months of the calendar

Months == 1..Len(MonthLengths)
FirstDay[m \in 1..(Len(MonthLengths) + 1)] ==
    IF m = 1 THEN 0 ELSE FirstDay[m - 1] + MonthLengths[m - 1]
MonthOf(d) == CHOOSE m \in Months : FirstDay[m] <= d /\ d < FirstDay[m + 1]
DayOfMonth(d) == d - FirstDay[MonthOf(d)] + 1
Weekday(d) == d % 7
=============================================================================
