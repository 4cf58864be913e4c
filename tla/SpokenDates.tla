---------------------------- MODULE SpokenDates -----------------------------
(***************************************************************************)
(* The day a message means: resolve_due, for a promise, and _resolve_date, *)
(* for an event or a task (services/whatsapp_processor.py), on the local   *)
(* day of the message.                                                     *)
(*                                                                         *)
(* A text is what the patterns find in it: a record whose fields are the   *)
(* kinds of expression present.  "amanha" is [tomorrow |-> 0], "sexta, dia *)
(* 12/3" is [friday |-> 4, slash |-> [day |-> 12, month |-> 3, year |-> 0]]*)
(***************************************************************************)
EXTENDS Calendar, FiniteSetsExt

CONSTANTS
    None,       \* no date
    Texts,      \* what messages may say
    Stamps,     \* when, in slots of UTC
    Slots,      \* slots of a day
    Behind      \* slots the zone is behind UTC

VARIABLES
    stamp, text,
    done,
    date,   \* _resolve_date of them
    due     \* resolve_due

vars == <<stamp, text, done, date, due>>

Says(t, kind) == kind \in DOMAIN t

----------------------------------------------------------------------------
\* Faulty variant: the day of the message by UTC.
UtcDay(at) == at \div Slots

\* _parse_ref_dt: the local day.
RefDay(at) == (at - Behind) \div Slots

MonthOfYear(d) == ((MonthOf(d) - 1) % 12) + 1
Year(d) == (MonthOf(d) - 1) \div 12

\* date(year, month, day), or None for a date that does not exist.
DateAt(year, month, day) ==
    LET m == 12 * year + month
    IN IF month \in 1..12 /\ day \in 1..MonthLengths[m] THEN FirstDay[m] + day - 1 ELSE None

\* Faulty variant: today counts.
ThisWeekday(ref, w) == ref + ((w - Weekday(ref)) % 7)

NextWeekday(ref, w) ==
    LET ahead == (w - Weekday(ref)) % 7 IN ref + (IF ahead = 0 THEN 7 ELSE ahead)

\* "12 de marco": this year, or the next if the month is over.
MonthDay(ref, md) ==
    DateAt(Year(ref) + (IF md.month >= MonthOfYear(ref) THEN 0 ELSE 1), md.month, md.day)

\* "12/3": this year, unless it says which.
Slash(ref, s) == DateAt(IF s.year = 0 THEN Year(ref) ELSE s.year - 1, s.month, s.day)

\* One expression of the text.
Reading(t, ref, kind) ==
    CASE kind = "today"    -> ref
      [] kind = "tomorrow" -> ref + 1
      [] kind = "nextWeek" -> NextWeekday(ref, 0)
      [] kind = "monthDay" -> MonthDay(ref, t.monthDay)
      [] kind = "weekday"  -> NextWeekday(ref, t.weekday)   \* all but Friday and Sunday
      [] kind = "friday"   -> NextWeekday(ref, 4)
      [] kind = "sunday"   -> NextWeekday(ref, 6)
      [] kind = "slash"    -> Slash(ref, t.slash)

\* _resolve_date: the first in this order; a date that does not exist is passed over.
Order == <<"today", "tomorrow", "nextWeek", "monthDay", "weekday", "friday", "sunday", "slash">>
ResolveDate(t, ref) ==
    LET found == {i \in DOMAIN Order : Says(t, Order[i]) /\ Reading(t, ref, Order[i]) # None}
    IN IF found = {} THEN None ELSE Reading(t, ref, Order[Min(found)])

\* Faulty variant: a new year is not begun.
DayNoYear(ref, n) ==
    DateAt(Year(ref), IF n < DayOfMonth(ref) THEN (MonthOfYear(ref) % 12) + 1 ELSE MonthOfYear(ref), n)

\* "dia 12": of this month, or of the next if it is over.
DayN(ref, n) ==
    LET m == MonthOf(ref) + (IF n < DayOfMonth(ref) THEN 1 ELSE 0)
    IN DateAt((m - 1) \div 12, ((m - 1) % 12) + 1, n)

ResolveDue(t, ref) ==
    IF Says(t, "dayN") /\ ~Says(t, "slash") THEN DayN(ref, t.dayN)
    ELSE IF Says(t, "weekComing") \/ Says(t, "nextWeek") THEN ref + 7 - Weekday(ref)
    ELSE IF Says(t, "weekend") THEN ref + ((5 - Weekday(ref)) % 7)
    ELSE IF ResolveDate(t, ref) # None THEN ResolveDate(t, ref)
    ELSE IF Says(t, "atHour") THEN ref ELSE None   \* "as 19h", "mais tarde"

----------------------------------------------------------------------------
Init == stamp \in Stamps /\ text \in Texts /\ done = FALSE /\ date = None /\ due = None

Resolve ==
    /\ ~done /\ done' = TRUE
    /\ date' = ResolveDate(text, RefDay(stamp))
    /\ due' = ResolveDue(text, RefDay(stamp))
    /\ UNCHANGED <<stamp, text>>

Next == Resolve
Spec == Init /\ [][Next]_vars

----------------------------------------------------------------------------
Days == 0..(FirstDay[Len(MonthLengths) + 1] - 1)
TypeOK == done \in BOOLEAN /\ date \in Days \cup {None} /\ due \in Days \cup {None}

\* The day the user lives when the message arrives.
Today == (stamp - Behind) \div Slots

\* A promise is never stored overdue, nor an event in the past: only a date written with
\* its month may lie behind, a month's day by less than a month.
WrittenOut(t) == Says(t, "monthDay") \/ Says(t, "slash")
NeverBehind ==
    \A d \in {date, due} \ {None} :
        /\ ~WrittenOut(text) => d >= Today
        /\ ~Says(text, "slash") => d > Today - 31

\* What a text with one expression means, by search over the days and not by arithmetic:
\* the first day from today on (or from tomorrow on) that fits.
First(from, Fits(_)) ==
    LET near == {d \in from..(from + 62) : d \in Days /\ Fits(d)}
    IN IF near = {} THEN None ELSE Min(near)
Meant(kind) ==
    CASE kind = "weekday"  -> First(Today + 1, LAMBDA d : Weekday(d) = text.weekday)
      [] kind = "friday"   -> First(Today + 1, LAMBDA d : Weekday(d) = 4)
      [] kind = "sunday"   -> First(Today + 1, LAMBDA d : Weekday(d) = 6)
      [] kind \in {"nextWeek", "weekComing"} -> First(Today + 1, LAMBDA d : Weekday(d) = 0)
      [] kind = "weekend"  -> First(Today, LAMBDA d : Weekday(d) = 5)
      [] kind = "tomorrow" -> Today + 1
      [] kind \in {"today", "atHour"} -> Today
      [] kind = "dayN"     -> First(Today, LAMBDA d : DayOfMonth(d) = text.dayN)
\* A day the month does not have is given up, never moved.
Single == {"weekday", "friday", "sunday", "nextWeek", "weekComing", "weekend", "tomorrow",
           "today", "atHour", "dayN"}
MeansNext ==
    /\ \A kind \in Single :
         DOMAIN text = {kind} =>
            /\ due \in {Meant(kind), None} /\ date \in {Meant(kind), None}
            /\ due = None => kind = "dayN" /\ text.dayN \notin 1..28
    /\ DOMAIN text = {"monthDay"} /\ date # None =>
            DayOfMonth(date) = text.monthDay.day /\ MonthOfYear(date) = text.monthDay.month

DatesMeant == done => NeverBehind /\ MeansNext
=============================================================================
