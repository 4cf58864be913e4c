----------------------------- MODULE Recurrence -----------------------------
(***************************************************************************)
(* When a series comes next: next_occurrence of services/reminders.py, the *)
(* function behind repeating reminders and scheduled tasks, on a calendar  *)
(* with months of several lengths, weekends, and a zone that skips an hour *)
(* once and repeats one later.                                             *)
(* Instants and wall times count slots from the first day's midnight; a    *)
(* row keeps an instant (TIMESTAMPTZ) and what it recurs by is read off    *)
(* that instant each time.                                                 *)
(***************************************************************************)
EXTENDS Calendar, FiniteSetsExt

CONSTANTS
    Slots,          \* slots of a day
    Gap,            \* the instant from which clocks are a slot ahead
    Fold,           \* the instant from which they are not any more
    FirstDays,      \* days a series may begin on
    Delays,         \* how late, in slots, a row may be served
    LastDay         \* bound: rows due later are not served any more

VARIABLES
    due,    \* due_at, or next_at of a scheduled task
    plan    \* what was asked for: [repeat, wall, day, weekday, anchored]

vars == <<due, plan>>

Least(S) == CHOOSE x \in S : \A y \in S : x <= y

----------------------------------------------------------------------------
\* The zone.  A wall time that does not exist is read by the offset before the
\* change, and so is the first of two equal ones.
ToLocal(u) == IF Gap <= u /\ u < Fold THEN u + 1 ELSE u
ToUtc(w) == IF Gap + 1 <= w /\ w < Fold + 1 THEN w - 1 ELSE w
DateOf(u) == ToLocal(u) \div Slots
WallOf(u) == ToLocal(u) % Slots
LocalCandidate(d, wall) == ToUtc(d * Slots + wall)

----------------------------------------------------------------------------
\* The dates that are tried, in order: k-th from a start near `after'.

\* Faulty variant: the search begins in the month of `after'.
MonthlyDateLate(start, after, anchor, k) ==
    LET jump == MonthOf(DateOf(after)) - MonthOf(start)
        month == MonthOf(start) + (IF jump > 0 THEN jump + 1 ELSE 0) + k
    IN FirstDay[month] + Min({anchor, MonthLengths[month]}) - 1

\* The anchor's day, or the last day of a shorter month.
MonthlyDate(start, after, anchor, k) ==
    LET jump == MonthOf(DateOf(after)) - MonthOf(start)
        month == MonthOf(start) + (IF jump > 1 THEN jump - 1 ELSE 0) + k
    IN FirstDay[month] + Min({anchor, MonthLengths[month]}) - 1

\* Every day from the one before `after' or, for a week, from the start's weekday.
DailyDate(start, after, k) == Max({start, DateOf(after) - 1}) + k
WeeklyDate(start, after, k) ==
    start + 7 * ((Max({start, DateOf(after) - 1}) - start) \div 7) + 7 * k

TriedDate(u, repeat, after, anchor, k) ==
    CASE repeat = "monthly" -> MonthlyDate(DateOf(u), after, anchor, k)
      [] repeat = "weekly"  -> WeeklyDate(DateOf(u), after, k)
      [] OTHER              -> DailyDate(DateOf(u), after, k)

\* The first date tried whose instant is after both.
NextOccurrence(u, repeat, after, anchor) ==
    LET At(k) == LocalCandidate(TriedDate(u, repeat, after, anchor, k), WallOf(u))
        Fits(k) == /\ repeat = "weekdays" => Weekday(TriedDate(u, repeat, after, anchor, k)) < 5
                   /\ At(k) > after /\ At(k) > u
        tried == {k \in 0..3 : Fits(k)}
    IN At(Least(IF tried = {} THEN {k \in 4..5 : Fits(k)} ELSE tried))

\* Faulty variant: the day is read off the row each time.
AnchorForgotten(p, u) == DayOfMonth(DateOf(u))

\* anchor_day of a reminder; a scheduled task has no such column.
Anchor(p, u) == IF p.anchored THEN p.day ELSE DayOfMonth(DateOf(u))

----------------------------------------------------------------------------
\* A series starts at a time that exists, a reminder's with its day kept.
Init ==
    \E d \in FirstDays, wall \in 0..(Slots - 1), repeat \in {"daily", "weekdays", "weekly", "monthly"} :
        /\ due = LocalCandidate(d, wall)
        /\ \E anchored \in BOOLEAN :
             plan = [repeat |-> repeat, wall |-> WallOf(due), day |-> DayOfMonth(d),
                     weekday |-> Weekday(d), anchored |-> anchored]

\* A row is served, at its time or later, and moves on.
Serve(delay) ==
    /\ DateOf(due + delay) <= LastDay
    /\ due' = NextOccurrence(due, plan.repeat, due + delay, Anchor(plan, due))
    /\ UNCHANGED plan

Next == \E delay \in Delays : Serve(delay)

Spec == Init /\ [][Next]_vars

----------------------------------------------------------------------------
TypeOK ==
    /\ due \in 0..(FirstDay[Len(MonthLengths) + 1] * Slots)
    /\ plan.wall \in 0..(Slots - 1) /\ plan.day \in 1..31 /\ plan.anchored \in BOOLEAN

\* The dates a series falls on, over the whole calendar.
OnSeries(d, p, u) ==
    CASE p.repeat = "weekdays" -> Weekday(d) < 5
      [] p.repeat = "weekly"   -> Weekday(d) = Weekday(DateOf(u))
      [] p.repeat = "monthly"  -> DayOfMonth(d) = Min({Anchor(p, u), MonthLengths[MonthOf(d)]})
      [] OTHER                 -> TRUE
Series(p, u) ==
    {LocalCandidate(d, WallOf(u)) :
        d \in {e \in 0..(FirstDay[Len(MonthLengths) + 1] - 1) : OnSeries(e, p, u)}}

\* The jump near the present, the alignment of weeks and the bounded search skip
\* nothing: the row moves to the first instant of its series after its delivery, over
\* the ends of months, weekends and changes of the clock.
FirstAfter ==
    \A delay \in Delays :
        DateOf(due + delay) <= LastDay =>
            NextOccurrence(due, plan.repeat, due + delay, Anchor(plan, due)) =
                Least({u \in Series(plan, due) : u > due + delay})

\* A series never asked for at a time the zone skips stays at the time asked for, on its
\* weekday, and with a kept day of the month on that day or the last of the month.
Skipped(wall) == wall = Gap % Slots
PlanKept ==
    /\ ~Skipped(plan.wall) => WallOf(due) = plan.wall
    /\ plan.repeat = "weekly" => Weekday(DateOf(due)) = plan.weekday
    /\ plan.repeat = "monthly" /\ plan.anchored =>
         DayOfMonth(DateOf(due)) = Min({plan.day, MonthLengths[MonthOf(DateOf(due))]})

\* The next date, now and after any number of deliveries.
SeriesRight == FirstAfter /\ PlanKept

\* The time of day is preserved whatever the clocks do.  A series at the skipped time is
\* moved once, and takes the hour it was moved to for its own.
TimeOfDayKept ==
    DateOf(due) # DateOf(Gap) => WallOf(due) = plan.wall
=============================================================================
