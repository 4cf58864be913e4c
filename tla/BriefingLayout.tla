--------------------------- MODULE BriefingLayout ---------------------------
(***************************************************************************)
(* services/briefing.py from the rows of the sources to the message: what  *)
(* each source selects, the limits of a section and of its groups, the     *)
(* rule of volume that turns sections into one line, the numbers, the two  *)
(* texts (for the user and for the session), the hint of the footer and    *)
(* the buttons.  Wording is abstracted to what a line stands for.          *)
(* Delivery and what the numbers do later are in Briefing.                 *)
(***************************************************************************)
EXTENDS Integers, Sequences, FiniteSets, FiniteSetsExt, TLC

CONSTANTS
    Worlds,          \* what the sources can hold when the briefing is assembled
    MaxLines,        \* MAX_LINES
    GroupLimit,      \* GROUP_LIMIT
    Limit,           \* LIMITS, by section
    MaxButtonRows    \* MAX_BUTTON_ROWS

VARIABLES
    world,      \* the sources, the kind of the briefing and the banner's lines
    stage,      \* "collect", "fit", "number", "render" or "done"
    raw,        \* the sections as the sources gave them
    sections,   \* the sections in their order
    next,       \* how many keys of CollapseOrder were tried
    items,      \* the numbered items: the refs of the snapshot
    free,       \* whether the day is announced as free
    user,       \* the lines of the user's text
    model,      \* the lines of the session's text
    keyboard    \* the buttons: number -> actions

vars == <<world, stage, raw, sections, next, items, free, user, model, keyboard>>

Untimed == -1
NoDate == -99
CollapseOrder == <<"email", "awaiting", "tasks", "calendar", "names", "whatsapp">>
Groups == {"debts", "promises", "commitments"}
ButtonKinds == {"reply_debt", "commitment", "name_prompt", "awaiting"}

\* The positions of a sequence that satisfy Test, in order.
Where(s, Test(_)) == SelectSeq([i \in 1..Len(s) |-> i], Test)

Item(kind, id, group, remind, flag) ==
    [kind |-> kind, id |-> id, group |-> group, remind |-> remind, flag |-> flag]
Row(kind, id) == Item(kind, id, "", FALSE, FALSE)

----------------------------------------------------------------------------
\* What each source selects.

Timed(e) == e.start # Untimed /\ e.end # Untimed

\* Faulty variant: only neighbours of the sorted list are compared.
ConflictsOfNeighbours(events) ==
    {i \in DOMAIN events : \E j \in DOMAIN events :
        /\ j \in {i - 1, i + 1}
        /\ Timed(events[i]) /\ Timed(events[j])
        /\ events[i].start < events[j].end /\ events[j].start < events[i].end}

\* The positions of events that overlap another one.
Conflicts(events) ==
    {i \in DOMAIN events : \E j \in DOMAIN events \ {i} :
        /\ Timed(events[i]) /\ Timed(events[j])
        /\ events[i].start < events[j].end /\ events[j].start < events[i].end}

\* Events by their start, those of the whole day last.
EventBefore(e, f) ==
    \/ e.start # Untimed /\ f.start = Untimed
    \/ e.start # Untimed /\ e.start < f.start
    \/ e.start = f.start /\ e.id < f.id
CalendarRows(events) ==
    LET sorted == SortSeq(events, EventBefore)
        conflicts == Conflicts(sorted)
    IN [i \in DOMAIN sorted |->
            Item("event", sorted[i].id, "", FALSE, i \in conflicts)]

\* Open tasks of the day, in the morning the overdue ones too; by date.
TaskBefore(s, t) == s.due < t.due \/ (s.due = t.due /\ s.id < t.id)
TaskRows(tasks, day, overdue) ==
    LET Listed(t) == /\ ~t.completed /\ t.due # NoDate
                     /\ t.due = day \/ (overdue /\ t.due < day)
        sorted == SortSeq(SelectSeq(tasks, Listed), TaskBefore)
    IN [i \in DOMAIN sorted |-> Item("task", sorted[i].id, "", sorted[i].due = day, FALSE)]

\* Mail of people, newest first when every message has a date, else as it came.
SelectEmails(messages) ==
    LET kept == Where(messages, LAMBDA i : ~messages[i].bulk)
        Newer(i, j) == \/ messages[i].at > messages[j].at
                       \/ messages[i].at = messages[j].at /\ i < j
    IN IF \A k \in DOMAIN kept : messages[kept[k]].at # NoDate THEN SortSeq(kept, Newer)
       ELSE kept
EmailRows(messages) ==
    LET order == SelectEmails(messages)
    IN [i \in DOMAIN order |-> Row("email", order[i])]

\* Pending commitments, in groups behind the debts when debts are tracked; those
\* due tomorrow offer a reminder, unless they are events.
CommitmentItem(c, grouped) ==
    Item("commitment", c.id,
         IF ~grouped THEN "" ELSE IF c.type = "promise" THEN "promises" ELSE "commitments",
         c.due = 1 /\ c.type # "event", FALSE)
WhatsappRows(chats) ==
    LET found == [i \in DOMAIN chats.pending |-> CommitmentItem(chats.pending[i], chats.grouped)]
        debts == [i \in 1..chats.debts |-> Item("reply_debt", i, "debts", FALSE, FALSE)]
    IN IF ~chats.grouped THEN found
       ELSE debts \o SelectSeq(found, LAMBDA r : r.group = "promises")
                  \o SelectSeq(found, LAMBDA r : r.group = "commitments")

\* Conversations whose answer is awaited: each offers a reminder to insist.
AwaitingRows(n) == [i \in 1..n |-> Item("awaiting", i, "", TRUE, FALSE)]
NameRows(n) == [i \in 1..n |-> Row("name_prompt", i)]

----------------------------------------------------------------------------
\* Sections.

Keys(w) ==
    <<"calendar", "tasks", "email", "whatsapp">>
        \o (IF w.kind = "monday" THEN <<"awaiting", "names">> ELSE << >>)
Day(w) == IF w.kind = "evening" THEN 1 ELSE 0

Found(w, key) ==
    CASE key = "calendar" -> CalendarRows(w.calendar)
      [] key = "tasks"    -> TaskRows(w.tasks, Day(w), w.kind # "evening")
      [] key = "email"    -> EmailRows(w.email)
      [] key = "whatsapp" -> WhatsappRows(w.whatsapp)
      [] key = "awaiting" -> AwaitingRows(w.awaiting)
      [] OTHER            -> NameRows(w.names)

NoMore == [g \in Groups |-> 0]
Section(key, error, shown, more, groupMore) ==
    [key |-> key, error |-> error, items |-> shown, more |-> more,
     groupMore |-> groupMore, collapsed |-> FALSE, total |-> 0]

Over(n, limit) == IF n > limit THEN n - limit ELSE 0
\* How many rows of r's group there are up to position i.
InGroup(rows, i, g) == Cardinality({j \in 1..i : rows[j].group = g})

\* The first rows of a section, or of each of its groups, and how many were left out.
Limited(key, rows) ==
    IF rows # << >> /\ rows[1].group # ""
    THEN LET shown == Where(rows, LAMBDA i : InGroup(rows, i, rows[i].group) <= GroupLimit)
         IN Section(key, FALSE, [k \in DOMAIN shown |-> rows[shown[k]]], 0,
                    [g \in Groups |-> Over(InGroup(rows, Len(rows), g), GroupLimit)])
    ELSE Section(key, FALSE, SubSeq(rows, 1, Len(rows) - Over(Len(rows), Limit[key])),
                 Over(Len(rows), Limit[key]), NoMore)

\* A source that raises becomes a section of its own and stops no other.
RunSource(w, key) ==
    IF key \in w.down THEN Section(key, TRUE, << >>, 0, NoMore)
    ELSE Limited(key, Found(w, key))

Hidden(sec) == sec.more + MapThenSumSet(LAMBDA g : sec.groupMore[g], Groups)

\* All the items of a section, shown or not.
Count(sec) == IF sec.collapsed THEN sec.total ELSE Len(sec.items) + Hidden(sec)

----------------------------------------------------------------------------
\* The lines of a text.  What a line stands for: its section, its number or how many.
Line(what, key, n) == [what |-> what, key |-> key, n |-> n]
Text(what) == Line(what, "", 0)

\* Items with the title of their group before them and "+N" behind them.
GroupedLines(sec, first) ==
    LET Lines(i) ==
            LET g == sec.items[i].group
                starts == g # "" /\ (i = 1 \/ sec.items[i - 1].group # g)
                ends == g # "" /\ (i = Len(sec.items) \/ sec.items[i + 1].group # g)
            IN (IF starts THEN <<Line("title", sec.key, 0)>> ELSE << >>)
                 \o <<Line("item", sec.key, first + i)>>
                 \o (IF ends /\ sec.groupMore[g] > 0
                     THEN <<Line("more", sec.key, sec.groupMore[g])>> ELSE << >>)
        upTo[i \in 0..Len(sec.items)] == IF i = 0 THEN << >> ELSE upTo[i - 1] \o Lines(i)
    IN upTo[Len(sec.items)]

IsGrouped(sec) == \E i \in DOMAIN sec.items : sec.items[i].group # ""

\* The lines of a section after `first' numbered items, and none when it is empty;
\* the session's text has the section's title above the groups too.
SectionLines(sec, first, forModel) ==
    IF sec.error THEN <<Line("error", sec.key, 0)>>
    ELSE IF sec.collapsed THEN (IF forModel THEN <<Line("title", sec.key, 0)>> ELSE << >>)
                                 \o <<Line("summary", sec.key, Count(sec))>>
    ELSE IF sec.items = << >> THEN << >>
    ELSE (IF IsGrouped(sec) /\ ~forModel THEN << >> ELSE <<Line("title", sec.key, 0)>>)
           \o GroupedLines(sec, first)
           \o (IF sec.more > 0 THEN <<Line("more", sec.key, sec.more)>> ELSE << >>)

\* Faulty variant: the line of the footer is not counted.
VolumeLinesBare(secs) ==
    1 + MapThenSumSet(LAMBDA i : Len(SectionLines(secs[i], 0, FALSE)), DOMAIN secs)

\* The lines of the header, of the sections and of the footer.
VolumeLines(secs) ==
    1 + MapThenSumSet(LAMBDA i : Len(SectionLines(secs[i], 0, FALSE)), DOMAIN secs)
      + (IF \E i \in DOMAIN secs : secs[i].items # << >> THEN 1 ELSE 0)

Collapsible(sec, key) == sec.key = key /\ sec.items # << >> /\ ~sec.error /\ ~sec.collapsed

\* Faulty variant: the items are dropped before they are counted.
CollapsedEmpty(sec) ==
    [sec EXCEPT !.items = << >>, !.more = 0, !.groupMore = NoMore, !.collapsed = TRUE,
                !.total = Hidden(sec)]

Collapsed(sec) ==
    [sec EXCEPT !.items = << >>, !.more = 0, !.groupMore = NoMore, !.collapsed = TRUE,
                !.total = Count(sec)]

\* How many items the sections before the i-th show.
ItemsBefore(secs, i) == MapThenSumSet(LAMBDA j : Len(secs[j].items), 1..(i - 1))
Body(secs, forModel) ==
    LET upTo[i \in 0..Len(secs)] ==
            IF i = 0 THEN << >>
            ELSE upTo[i - 1] \o SectionLines(secs[i], ItemsBefore(secs, i), forModel)
    IN upTo[Len(secs)]

----------------------------------------------------------------------------
\* Numbers, footer and buttons.

FirstRows(S) == {n \in S : Cardinality({m \in S : m <= n}) <= MaxButtonRows}

ActionableKinds(list) == FirstRows({n \in DOMAIN list : list[n].kind \in ButtonKinds})
RemindableTitles(list, kind) ==
    FirstRows({n \in DOMAIN list : list[n].remind /\ (kind = "evening" \/ list[n].kind = "awaiting")})

\* The commands of the footer, each with the first number it can be said of.
Footer(list, kind) ==
    {[says |-> list[n].kind, n |-> n] :
        n \in {m \in DOMAIN list : /\ list[m].kind \in ButtonKinds
                                   /\ \A l \in 1..(m - 1) : list[l].kind # list[m].kind}}
      \cup {[says |-> "remind", n |-> n] :
              n \in {m \in RemindableTitles(list, kind) : \A l \in RemindableTitles(list, kind) : m <= l}}

\* What a fresh message offers under it: ok and no, or no alone, and the reminder.
BuildKeyboard(list, kind) ==
    [n \in ActionableKinds(list) \cup RemindableTitles(list, kind) |->
        (IF n \notin ActionableKinds(list) THEN {}
         ELSE IF list[n].kind \in {"awaiting", "name_prompt"} THEN {"no"} ELSE {"ok", "no"})
        \cup (IF n \in RemindableTitles(list, kind) THEN {"rm"} ELSE {})]

RenderUser(secs, list, isFree, w, tip) ==
    <<Text("header")>> \o [i \in 1..w.banner |-> Text("banner")]
      \o (IF isFree THEN <<Text("free")>> ELSE << >>)
      \o Body(secs, FALSE)
      \o (IF Footer(list, w.kind) # {} THEN <<Text("footer")>> ELSE << >>)
      \o (IF tip THEN <<Text("tip")>> ELSE << >>)
RenderModel(secs, isFree, w, tip) ==
    <<Text("header")>> \o [i \in 1..w.banner |-> Text("banner")]
      \o (IF isFree THEN <<Text("free")>> ELSE << >>)
      \o Body(secs, TRUE)
      \o (IF tip THEN <<Text("tip")>> ELSE << >>)

\* Faulty variant: numbers are given to the rows before the rule of volume.
NumberedAll(secs) ==
    LET upTo[i \in 0..Len(secs)] ==
            IF i = 0 THEN << >> ELSE upTo[i - 1] \o raw[i].items
    IN upTo[Len(secs)]

\* What is shown is numbered from 1, through all sections.
Numbered(secs) ==
    LET upTo[i \in 0..Len(secs)] == IF i = 0 THEN << >> ELSE upTo[i - 1] \o secs[i].items
    IN upTo[Len(secs)]

\* Faulty variant: a source that failed counts as an empty one.
IsFreeUnlessFound(secs) == \A i \in DOMAIN secs : secs[i].items = << >>
IsFree(secs) == \A i \in DOMAIN secs : secs[i].items = << >> /\ ~secs[i].error

\* The tip goes first: it needs a spare line.
TipFits(secs) == world.kind # "evening" /\ VolumeLines(secs) + world.banner < MaxLines

----------------------------------------------------------------------------
Init ==
    /\ world \in Worlds
    /\ stage = "collect" /\ next = 0 /\ free = FALSE
    /\ raw = << >> /\ sections = << >> /\ items = << >> /\ user = << >> /\ model = << >>
    /\ keyboard = << >>

\* The sources are read in threads of their own and put in order.
Collect ==
    /\ stage = "collect"
    /\ raw' = [i \in DOMAIN Keys(world) |-> RunSource(world, Keys(world)[i])]
    /\ sections' = raw'
    /\ free' = IsFree(raw')
    /\ stage' = "fit"
    /\ UNCHANGED <<world, next, items, user, model, keyboard>>

Budget == MaxLines - world.banner

\* Faulty variant: the last section that fits is summed up as well.
CollapseEarly ==
    /\ stage = "fit" /\ next < Len(CollapseOrder)
    /\ VolumeLines(sections) >= Budget
    /\ next' = next + 1
    /\ sections' = [i \in DOMAIN sections |->
                      IF Collapsible(sections[i], CollapseOrder[next']) THEN Collapsed(sections[i])
                      ELSE sections[i]]
    /\ UNCHANGED <<world, stage, raw, items, free, user, model, keyboard>>

\* fit_volume: the next section of the order becomes one line.
Collapse ==
    /\ stage = "fit" /\ next < Len(CollapseOrder)
    /\ VolumeLines(sections) > Budget
    /\ next' = next + 1
    /\ sections' = [i \in DOMAIN sections |->
                      IF Collapsible(sections[i], CollapseOrder[next']) THEN Collapsed(sections[i])
                      ELSE sections[i]]
    /\ UNCHANGED <<world, stage, raw, items, free, user, model, keyboard>>

Fitted ==
    /\ stage = "fit"
    /\ VolumeLines(sections) <= Budget \/ next = Len(CollapseOrder)
    /\ stage' = "number"
    /\ UNCHANGED <<world, raw, sections, next, items, free, user, model, keyboard>>

Number ==
    /\ stage = "number"
    /\ items' = Numbered(sections)
    /\ stage' = "render"
    /\ UNCHANGED <<world, raw, sections, next, free, user, model, keyboard>>

\* A tip is added if there is one and a line for it.
Render(tip) ==
    /\ stage = "render"
    /\ tip => TipFits(sections)
    /\ user' = RenderUser(sections, items, free, world, tip)
    /\ model' = RenderModel(sections, free, world, tip)
    /\ keyboard' = BuildKeyboard(items, world.kind)
    /\ stage' = "done"
    /\ UNCHANGED <<world, raw, sections, next, items, free>>

Next ==
    \/ Collect
    \/ Collapse
    \/ Fitted
    \/ Number
    \/ \E tip \in BOOLEAN : Render(tip)

Spec == Init /\ [][Next]_vars

----------------------------------------------------------------------------
TypeOK ==
    /\ world \in Worlds
    /\ stage \in {"collect", "fit", "number", "render", "done"}
    /\ next \in 0..Len(CollapseOrder)
    /\ free \in BOOLEAN
    /\ DOMAIN keyboard \subseteq DOMAIN items
    /\ \A i \in DOMAIN sections : sections[i].key = Keys(world)[i]

Done == stage = "done"

\* The lines of a text about a section: each row found is one of its lines, or counted
\* in a "+N" or in the summary.  Limits of sections and groups and the rule of volume
\* hide rows, and the message must own up to every one of them.
Accounted(text, key) ==
    LET about == {i \in DOMAIN text : text[i].key = key}
    IN Cardinality({i \in about : text[i].what = "item"})
         + MapThenSumSet(LAMBDA i : text[i].n, {i \in about : text[i].what \in {"more", "summary"}})
NothingHidden ==
    Done => \A i \in DOMAIN Keys(world) :
        LET key == Keys(world)[i]
        IN key \notin world.down =>
             /\ Accounted(user, key) = Len(Found(world, key))
             /\ Accounted(model, key) = Len(Found(world, key))

\* The user's message, with its banner, footer and tip, stays within MAX_LINES.
Fits == Done => Len(user) <= MaxLines

\* A section is summed up only after all that matter less, and only if the message
\* would be too long with it.
CollapsedForNeed ==
    \A i, j \in DOMAIN sections :
        LET Rank(s) == CHOOSE r \in DOMAIN CollapseOrder : CollapseOrder[r] = s.key
            whole == [sections EXCEPT ![i] = raw[i]]
        IN sections[i].collapsed =>
             /\ sections[j].items # << >> => Rank(sections[j]) > Rank(sections[i])
             /\ (\A k \in DOMAIN sections :
                    sections[k].collapsed => Rank(sections[k]) <= Rank(sections[i]))
                  => VolumeLines(whole) > Budget

\* The number in front of a line of either text, the reference kept for it, the hint of
\* the footer and the button mean the same row: the user's "confirma 4" is about what
\* the user sees as 4.
Shown(text, n) == \E i \in DOMAIN text : text[i].what = "item" /\ text[i].n = n
NumbersAgree ==
    Done =>
      /\ \A t \in {user, model} : {t[i].n : i \in {j \in DOMAIN t : t[j].what = "item"}} = DOMAIN items
      /\ \A i \in DOMAIN user : user[i].what = "item" =>
            \E s \in DOMAIN sections :
               /\ sections[s].key = user[i].key
               /\ \E m \in DOMAIN sections[s].items : sections[s].items[m] = items[user[i].n]
      /\ \A f \in Footer(items, world.kind) : Shown(user, f.n)
      /\ \A n \in DOMAIN keyboard : Shown(user, n)

\* An event carries the warning exactly when there is a moment it shares with another.
ConflictsTrue ==
    \A s \in DOMAIN sections : sections[s].key = "calendar" =>
        \A i \in DOMAIN sections[s].items :
            LET During(k) == IF Timed(world.calendar[k])
                             THEN world.calendar[k].start..(world.calendar[k].end - 1) ELSE {}
            IN sections[s].items[i].flag <=>
                 \E k, l \in DOMAIN world.calendar :
                    /\ k # l /\ world.calendar[k].id = sections[s].items[i].id
                    /\ During(k) \cap During(l) # {}

\* The day is called free only if every source answered and none had anything.
FreeIsFree ==
    free => /\ world.down = {}
            /\ \A i \in DOMAIN Keys(world) : Found(world, Keys(world)[i]) = << >>

\* The message is true and fits.
LayoutRight ==
    /\ NothingHidden /\ NumbersAgree /\ ConflictsTrue /\ FreeIsFree
    /\ Fits /\ CollapsedForNeed
=============================================================================
