---------------------------- MODULE MCComponents ----------------------------
(***************************************************************************)
(* One run for components that share no state: the deletion guard, the     *)
(* session lane, the slow-tool notice, the probe's warnings, the state of  *)
(* the sources, the ingest of WhatsApp webhooks, the layout of a briefing, *)
(* the dates of a series and of a text, the limit on paid model calls, a   *)
(* message on its way out, and the reminders and scheduled tasks of two    *)
(* overlapping instances.                                                  *)
(* `focus' is chosen once and only that component steps, so that the run   *)
(* explores each of them whole and never their product; what one of them   *)
(* can do does not depend on the others.  The deletion guard has its own   *)
(* variables, the variables of the others are held in cells.               *)
(***************************************************************************)
EXTENDS DeletionGuard, Sequences, TLC

CONSTANTS s1, s2, s3, t1, t2, t3, k1, k2, k3, k4, gmail, wa, tg

VARIABLES focus, c1, c2, c3, c4, c5, c6, c7, c8, c9, c10, c11, c12, c13, c14, c15,
          c16, c17, c18, c19

cells == <<c1, c2, c3, c4, c5, c6, c7, c8, c9, c10, c11, c12, c13, c14, c15,
           c16, c17, c18, c19>>

\* What Evolution may post: a payload holds several messages and may be repeated.
Msg(where, ts, fromMe, echo, kind, commits) ==
    [chat |-> where, ts |-> ts, fromMe |-> fromMe, echo |-> echo, kind |-> kind,
     commits |-> commits]
PostedMessages ==
    [command |-> Msg("control", 0, TRUE, FALSE, "text", FALSE),
     echo    |-> Msg("control", 1, TRUE, TRUE, "text", FALSE),
     member  |-> Msg("controlGroup", 1, FALSE, FALSE, "text", FALSE),
     older   |-> Msg("contact", 0, FALSE, FALSE, "text", TRUE),
     newer   |-> Msg("contact", 1, FALSE, FALSE, "text", TRUE),
     late    |-> Msg("contact", 2, FALSE, FALSE, "text", FALSE),
     own     |-> Msg("contact", 1, TRUE, FALSE, "text", TRUE),
     voice   |-> Msg("contact", 1, FALSE, FALSE, "audio", FALSE),
     team    |-> Msg("group", 1, FALSE, FALSE, "text", TRUE)]
PostedBatches == {<<"command", "echo">>, <<"member", "older", "newer", "own">>,
                  <<"older", "newer", "late", "team", "voice">>}

\* Sources around their limits: overlapping events and a full day, tasks around the day,
\* dated and undated mail, every group of WhatsApp rows, failures and a banner.
Event(id, start, end) == [id |-> id, start |-> start, end |-> end]
Calendars == {<< >>, <<Event(1, -1, -1), Event(2, 2, 4), Event(3, 1, 3), Event(4, 4, 5)>>,
              <<Event(1, 6, 7), Event(2, 2, 3), Event(3, 5, -1), Event(4, 1, 9)>>,
              [i \in 1..9 |-> Event(i, i, i + 1)]}
Task(id, due, completed) == [id |-> id, due |-> due, completed |-> completed]
TaskLists == {<< >>, <<Task(1, 0, FALSE), Task(2, -1, FALSE), Task(3, 1, FALSE), Task(4, 1, TRUE)>>,
              [i \in 1..7 |-> Task(i, IF i = 4 THEN -99 ELSE 0, FALSE)]}
Mail(at, bulk) == [at |-> at, bulk |-> bulk]
Inboxes == {<< >>, <<Mail(1, FALSE), Mail(2, TRUE), Mail(3, FALSE)>>,
            <<Mail(2, FALSE), Mail(-99, FALSE), Mail(4, FALSE), Mail(1, FALSE)>>}
Pending(id, type, due) == [id |-> id, type |-> type, due |-> due]
Chats == {[grouped |-> g, debts |-> d, pending |-> p] :
            g \in BOOLEAN, d \in {0, 4},
            p \in {<< >>, <<Pending(1, "task", 1), Pending(2, "promise", 0), Pending(3, "event", 1)>>,
                   <<Pending(1, "promise", 1), Pending(2, "task", 0), Pending(3, "promise", 0),
                     Pending(4, "promise", 2), Pending(5, "event", 1), Pending(6, "promise", 2)>>}}
\* The weekly sections exist on Mondays only.
KindsAndWeekly == ({"morning", "evening"} \X {0}) \cup ({"monday"} \X {0, 3, 4})
BriefingWorlds ==
    {[kind |-> k[1], banner |-> b, down |-> f, calendar |-> c, tasks |-> t, email |-> m,
      whatsapp |-> chats, awaiting |-> k[2], names |-> k[2]] :
        k \in KindsAndWeekly, b \in {0, 2},
        f \in {{}, {"calendar"}, {"email", "whatsapp"}}, c \in Calendars, t \in TaskLists,
        m \in Inboxes, chats \in Chats}

\* A calendar of four slots a day; clocks forward on day 40, back on day 100.
YearLengths == <<31, 28, 31, 30, 31, 30, 31, 31, 30, 31, 30, 31>>

\* What a text may say of a date, one expression or two, on days around the ends of
\* weeks, months and of the year, before and after midnight in UTC.
Only(kind) == kind :> 0
Written(day, month) == [day |-> day, month |-> month, year |-> 0]
OneDate ==
    {Only(kind) : kind \in {"today", "tomorrow", "nextWeek", "weekComing", "weekend",
                            "friday", "sunday", "atHour"}}
    \cup {"weekday" :> w : w \in {0, 3, 5}} \cup {"dayN" :> n : n \in {0, 1, 29, 30, 31}}
    \cup {"monthDay" :> Written(d, m) : d \in {1, 29, 31}, m \in {1, 2, 12}}
    \cup {"slash" :> [Written(d, m) EXCEPT !.year = y] : d \in {1, 30}, m \in {0, 2, 12}, y \in {0, 2}}
DateTexts ==
    OneDate \cup {s @@ t : s \in OneDate,
                    t \in {Only("tomorrow"), Only("nextWeek"), "dayN" :> 31, "weekday" :> 0,
                          "slash" :> Written(30, 2), "monthDay" :> Written(31, 2)}}
TextDays == {0, 6, 27, 28, 29, 30, 31, 58, 59, 89, 179, 333, 363, 364}
TextStamps == {2 * d + k : d \in TextDays, k \in {1, 2}}

\* Two threads of one process, or of two that share a table.
CallerHomes == {[t \in {t1, t2} |-> s1], (t1 :> s1) @@ (t2 :> s2)}

Lane == INSTANCE SessionLane WITH
        Session <- {s1, s2, s3}, Thread <- {t1, t2, t3}, Limit <- 2,
        MaxLocks <- 4, lanes <- c1, made <- c2, pc <- c3, session <- c4,
        lock <- c5, lost <- c6
Ack == INSTANCE SlowAck WITH
        RunId <- {k1, k2, k3, k4}, MaxTimers <- 4, pending <- c1,
        toolsAt <- c2, running <- c3, timer <- c4, acked <- c5, closed <- c6,
        timers <- c7, turn <- c8, chat <- c9, decided <- c10, gap <- c11,
        raced <- c12
Warnings == INSTANCE Probe WITH
        Check <- {gmail, tg}, Telegram <- tg, Turn <- {t1, t2}, MaxDay <- 2,
        MaxRuns <- 2, MaxMisfires <- 2, day <- c1, at <- c2, slot <- c3,
        todo <- c4, jobs <- c5, claims <- c6, flagged <- c7, misfires <- c8,
        warned <- c9, unsure <- c10, dropped <- c11
Sources == INSTANCE SourceStatus WITH
        Source <- {gmail, wa}, WhatsApp <- wa, MaxRecords <- 3, status <- c1,
        sights <- c2, brief <- c3, failed <- c4, left <- c5, connection <- c6,
        banner <- c7, covered <- c8, records <- c9
Hooks == INSTANCE Ingest WITH
        Hooks <- {t1, t2}, Batches <- PostedBatches,
        Messages <- PostedMessages, MaxAge <- 1, MaxPer <- 2, MaxSeen <- 3,
        MaxTime <- 2, MaxPosts <- 4, MaxFaults <- 1, now <- c1, seen <- c2,
        hook <- c3, activity <- c4, executed <- c5, timeline <- c6,
        queued <- c7, taken <- c8, lost <- c9, forgotten <- c10, posts <- c11,
        faults <- c12
Ticks == INSTANCE Reminders WITH
        Id <- {1}, Proc <- {t1, t2}, Period <- 1, StuckAfter <- 1,
        ClaimLimit <- 1, MaxTime <- 4, MaxFaults <- 2, LastFault <- 3,
        MaxCommands <- 1, now <- c1, status <- c2, due <- c3, repeat <- c4,
        snoozeUntil <- c5, claimedAt <- c6, pc <- c7, tickNow <- c8,
        batch <- c9, firedAt <- c10, pendingFinish <- c11, toFlush <- c12,
        delivery <- c13, overrun <- c14, faults <- c15, commands <- c16
Tasks == INSTANCE ScheduledTasks WITH
        Id <- {1, 2}, Proc <- {t1, t2}, MaxActive <- 1, MaxRunsPerDay <- 2,
        DayLength <- 2, Period <- 1, MaxTime <- 1, MaxFaults <- 1,
        MaxCommands <- 2, now <- c1, presence <- c2, active <- c3,
        nextAt <- c4, repeat <- c5, requests <- c6, runsToday <- c7,
        runsDay <- c8, pc <- c9, tickNow <- c10, rows <- c11, used <- c12,
        inflight <- c13, queue <- c14, worker <- c15, log <- c16,
        rewound <- c17, faults <- c18, commands <- c19
Layout == INSTANCE BriefingLayout WITH
          Worlds <- BriefingWorlds, MaxLines <- 25, GroupLimit <- 3,
          Limit <- [calendar |-> 8, tasks |-> 5, email |-> 3, whatsapp |-> 5,
                    awaiting |-> 3, names |-> 3],
          MaxButtonRows <- 10, world <- c1, stage <- c2, raw <- c3,
          sections <- c4, next <- c5, items <- c6, free <- c7, user <- c8,
          model <- c9, keyboard <- c10
Dates == INSTANCE Recurrence WITH
         MonthLengths <- YearLengths, Slots <- 4, Gap <- 161, Fold <- 401,
         FirstDays <- {2, 30, 38}, Delays <- {0, 1, 40, 250}, LastDay <- 120,
         due <- c1, plan <- c2
Texts == INSTANCE SpokenDates WITH
         MonthLengths <- YearLengths \o YearLengths, Texts <- DateTexts,
         Stamps <- TextStamps, Slots <- 2, Behind <- 1, stamp <- c1,
         text <- c2, done <- c3, date <- c4, due <- c5
Paid == INSTANCE SpendCap WITH
        Caller <- {t1, t2}, Proc <- {s1, s2}, Homes <- CallerHomes, Cap <- 1,
        MaxCost <- 1, MaxDay <- 2, MaxCalls <- 3, MaxFaults <- 1, day <- c1,
        home <- c2, useDb <- c3, table <- c4, mem <- c5, call <- c6,
        charged <- c7, unknown <- c8, twice <- c9, posts <- c10, faults <- c11
Sends == INSTANCE Outbound WITH
         Attempts <- 2, asked <- c1, bad <- c2, form <- c3, stage <- c4,
         attempt <- c5, result <- c6, refused <- c7, late <- c8, copies <- c9,
         unheard <- c10

\* The cells a component of n variables leaves alone.
after16 == <<c17, c18, c19>>
after12 == <<c13, c14, c15, c16, after16>>
after11 == <<c12, after12>>
after10 == <<c11, after11>>
after9 == <<c10, after10>>
after6 == <<c7, c8, c9, after9>>
after5 == <<c6, after6>>
after2 == <<c3, c4, c5, after5>>
Blank16 == c17 = 0 /\ c18 = 0 /\ c19 = 0
Blank12 == c13 = 0 /\ c14 = 0 /\ c15 = 0 /\ c16 = 0 /\ Blank16
Blank11 == c12 = 0 /\ Blank12
Blank10 == c11 = 0 /\ Blank11
Blank9 == c10 = 0 /\ Blank10
Blank6 == c7 = 0 /\ c8 = 0 /\ c9 = 0 /\ Blank9
Blank5 == c6 = 0 /\ Blank6
Blank2 == c3 = 0 /\ c4 = 0 /\ c5 = 0 /\ Blank5

SuiteInit ==
    /\ Init
    /\ \/ focus = "deletion" /\ c1 = 0 /\ c2 = 0 /\ Blank2
       \/ focus = "lane" /\ Lane!Init /\ Blank6
       \/ focus = "ack" /\ Ack!Init /\ Blank12
       \/ focus = "probe" /\ Warnings!Init /\ Blank11
       \/ focus = "sources" /\ Sources!Init /\ Blank9
       \/ focus = "layout" /\ Layout!Init /\ Blank10
       \/ focus = "recurrence" /\ Dates!Init /\ Blank2
       \/ focus = "texts" /\ Texts!Init /\ Blank5
       \/ focus = "paid" /\ Paid!Init /\ Blank11
       \/ focus = "sends" /\ Sends!Init /\ Blank10
       \/ focus = "ingest" /\ Hooks!Init /\ Blank12
       \/ focus = "reminders" /\ Ticks!Init /\ Blank16
       \/ focus = "tasks" /\ Tasks!Init

SuiteNext ==
    \/ focus = "deletion" /\ Next /\ UNCHANGED <<focus, cells>>
    \/ focus = "lane" /\ Lane!Next /\ UNCHANGED <<focus, vars, after6>>
    \/ focus = "ack" /\ Ack!Next /\ UNCHANGED <<focus, vars, after12>>
    \/ focus = "probe" /\ Warnings!Next /\ UNCHANGED <<focus, vars, after11>>
    \/ focus = "sources" /\ Sources!Next /\ UNCHANGED <<focus, vars, after9>>
    \/ focus = "layout" /\ Layout!Next /\ UNCHANGED <<focus, vars, after10>>
    \/ focus = "recurrence" /\ Dates!Next /\ UNCHANGED <<focus, vars, after2>>
    \/ focus = "texts" /\ Texts!Next /\ UNCHANGED <<focus, vars, after5>>
    \/ focus = "paid" /\ Paid!Next /\ UNCHANGED <<focus, vars, after11>>
    \/ focus = "sends" /\ Sends!Next /\ UNCHANGED <<focus, vars, after10>>
    \/ focus = "ingest" /\ Hooks!Next /\ UNCHANGED <<focus, vars, after12>>
    \/ focus = "reminders" /\ Ticks!Next /\ UNCHANGED <<focus, vars, after16>>
    \/ focus = "tasks" /\ Tasks!Next /\ UNCHANGED <<focus, vars>>

SuiteSpec == SuiteInit /\ [][SuiteNext]_<<focus, vars, cells>>

At(component) == focus = component

\* Types.
SuiteTypeOK ==
    /\ TypeOK
    /\ At("lane") => Lane!TypeOK
    /\ At("ack") => Ack!TypeOK
    /\ At("probe") => Warnings!TypeOK
    /\ At("sources") => Sources!TypeOK
    /\ At("layout") => Layout!TypeOK
    /\ At("recurrence") => Dates!TypeOK
    /\ At("texts") => Texts!TypeOK
    /\ At("paid") => Paid!TypeOK
    /\ At("sends") => Sends!TypeOK
    /\ At("ingest") => Hooks!TypeOK
    /\ At("reminders") => Ticks!TypeOK
    /\ At("tasks") => Tasks!TypeOK

\* These properties are stated where their names are defined.
OverlapOnlyIfLost == At("lane") => Lane!OverlapOnlyIfLost
LayoutRight == At("layout") => Layout!LayoutRight

\* The next date of a series, and the date a text means.
DatesRight ==
    /\ At("recurrence") => Dates!SeriesRight
    /\ At("texts") => Texts!DatesMeant

\* What goes out: money for model calls, and messages.
OutgoingRight ==
    /\ At("paid") => Paid!SpendRight
    /\ At("sends") => Sends!SendRight

IngestRight == At("ingest") => Hooks!IngestRight
AckRight ==
    /\ [](At("ack") => Ack!AckOnce /\ Ack!AckDue)
    /\ [][At("ack") => Ack!DueWhenSent]_<<focus, cells>>

\* What the user is told of an integration that fails, by its warning and by briefings.
AlertsRight ==
    /\ At("probe") => Warnings!WarningsExact
    /\ At("sources") => Sources!OutagesTold

\* Two instances that overlap: no reminder in two hands while no tick outlives its claim,
\* no task too many, no occurrence run by both.
InstancesApart ==
    /\ At("reminders") => Ticks!ExclusiveUnlessOverrun
    /\ At("tasks") => Tasks!ActiveCap /\ Tasks!RunsOnceUnlessRewound
=============================================================================
