------------------------------ MODULE Briefing ------------------------------
(***************************************************************************)
(* The daily briefing: the cron job that claims the (day, kind) slot,      *)
(* assembles, sends, records and stores the snapshot of what the numbers   *)
(* mean; and the taps and "lembra N" / "ignora N" replies that act on that *)
(* snapshot.  briefing.deliver_briefing, telegram_handler's button code,   *)
(* background_jobs and the briefing_log / session_tool_snapshots tables.   *)
(***************************************************************************)
EXTENDS Integers, Sequences, FiniteSets

CONSTANTS Jobs,         \* requests to /jobs/briefing
          Tappers,      \* Telegram updates being handled (webhook threads, poller)
          Kinds,        \* subset of {"morning", "evening"}
          Items,        \* sequence of the things a briefing can list
          KindOf,       \* the ref kind of each
          InitLive,     \* the items outstanding at the start
          Stale,        \* age after which an unfinished claim is taken over
          Thumbs,       \* subset of {"up", "down"}
          Window,       \* time after a send in which any message counts as a reply
          MaxDay, MaxTime, MaxMsgs, MaxFaults,
          Nobody

ASSUME BriefingAssumption ==
  /\ Kinds \subseteq {"morning", "evening"}
  /\ Thumbs \subseteq {"up", "down"}
  /\ Nobody \notin Jobs \cup Tappers
  /\ {Stale, Window, MaxDay, MaxTime, MaxMsgs, MaxFaults} \subseteq Nat
  /\ MaxDay > 0

VARIABLES
  now, day,
  status,    \* item -> "later" (not there yet), "live" or "gone"
  row,       \* briefing_log: slot -> row, or NoRow
  latest,    \* kind -> the newest morning_briefing snapshot of that kind, or NoSnap
  lastKind,  \* the kind of the newest snapshot of all
  known,     \* message ids some stored snapshot carries
  job, jobLock,
  tap, buttonLock,
  shown,     \* the messages delivered so far, in order: what each one showed
  unforced,  \* slot -> messages sent for it by requests without ?force
  excused,   \* slot -> faults that may excuse a repeated one
  made,      \* message -> number -> reminders created from it
  forcedFirst, \* slot -> its row was inserted by the record of an attempt without a claim
  slips,     \* taps that died, or could not be saved, after acting
  faults     \* injected faults so far

vars == <<now, day, status, row, latest, lastKind, known, job, jobLock, tap, buttonLock,
          shown, unforced, excused, forcedFirst, made, slips, faults>>

ItemSet  == {Items[i] : i \in 1..Len(Items)}
Slots    == (1..MaxDay) \X Kinds
Msgs     == 1..MaxMsgs
Numbers  == 1..Len(Items)
NoRow    == [ok |-> FALSE, at |-> -1, replied |-> FALSE, feedback |-> "none", there |-> FALSE]
NoSnap   == [msg |-> 0, hasId |-> FALSE, day |-> 0, refs |-> <<>>, done |-> {}, reminded |-> {}]
IdleJob  == [pc |-> "idle", slot |-> <<0, "none">>, claimed |-> FALSE, refs |-> <<>>,
             ok |-> FALSE, msg |-> 0, hasId |-> FALSE]
IdleTap  == [pc |-> "idle", msg |-> 0, n |-> 0, act |-> "none", kind |-> "none", snap |-> NoSnap]
LongAgo  == -100   \* sent_at backdated by a day

ASSUME ItemsAssumption == Items \in Seq(ItemSet)

\* A claim backdated by a day is past the age after which it is taken over.
ASSUME StaleAssumption == LongAgo < -Stale

-----------------------------------------------------------------------------
\* The reading and writing of the tables.

\* Faulty variant: any old row can be claimed again, sent or not.
CanClaimSent(s) == ~row[s].there \/ row[s].at < now - Stale

\* INSERT .. ON CONFLICT DO UPDATE .. WHERE NOT ok AND sent_at < now() - stale
CanClaim(s) == ~row[s].there \/ (~row[s].ok /\ row[s].at < now - Stale)

\* claim_briefing for the caller that got the slot.
Claimed(s) == [row[s] EXCEPT !.there = TRUE, !.at = now]

\* Faulty variant: the row says sent whatever the send answered.
RecordedAsSent(s, ok) == [row[s] EXCEPT !.there = TRUE, !.ok = TRUE, !.at = now, !.replied = FALSE]

\* Faulty variant: a failed attempt keeps the claim until it goes stale.
RecordedKeepingClaim(s, ok) ==
  [row[s] EXCEPT !.there = TRUE, !.ok = @ \/ ok, !.at = IF ok THEN now ELSE @]

\* record_briefing's UPSERT: ok is never lowered, a resend that worked restarts the
\* clock and the reply mark, a failure of a slot not yet sent releases its claim.
Recorded(s, ok) ==
  [row[s] EXCEPT !.there = TRUE,
                 !.ok = @ \/ ok,
                 !.at = IF ok \/ ~row[s].there THEN now ELSE IF row[s].ok THEN @ ELSE LongAgo,
                 !.replied = IF ok THEN FALSE ELSE @]

\* Faulty variant: the mark is set on a row that was never sent.
RepliedAnyway(s) == [row[s] EXCEPT !.replied = TRUE]

\* mark_briefing_replied: once, on a row that was sent.
Replied(s) == [row[s] EXCEPT !.replied = row[s].ok \/ @]

\* today_snapshot: the newest of the kind, when it is of the local day.
TodaySnapshot(k) == IF latest[k].msg # 0 /\ latest[k].day = day THEN latest[k] ELSE NoSnap

\* The refs that get buttons, and those that offer a reminder.
Actionable(s, n)  == n \in DOMAIN s.refs /\ KindOf[s.refs[n]] \in {"reply_debt", "commitment", "name_prompt", "awaiting"}
Remindable(s, k, n) == /\ n \in DOMAIN s.refs
                       /\ \/ k = "evening" /\ KindOf[s.refs[n]] \in {"commitment", "task"}
                          \/ KindOf[s.refs[n]] = "awaiting"

-----------------------------------------------------------------------------
Init ==
  /\ now = 0 /\ day = 1
  /\ status = [i \in ItemSet |-> IF i \in InitLive THEN "live" ELSE "later"]
  /\ row = [s \in Slots |-> NoRow]
  /\ latest = [k \in Kinds |-> NoSnap] /\ lastKind = "none" /\ known = {}
  /\ job = [j \in Jobs |-> IdleJob] /\ jobLock = Nobody
  /\ tap = [t \in Tappers |-> IdleTap] /\ buttonLock = Nobody
  /\ shown = <<>>
  /\ unforced = [s \in Slots |-> 0] /\ excused = [s \in Slots |-> 0]
  /\ forcedFirst = [s \in Slots |-> FALSE]
  /\ made = [m \in Msgs |-> [n \in Numbers |-> 0]]
  /\ slips = 0 /\ faults = 0

tapVars   == <<tap, buttonLock, made, slips>>
ghostVars == <<shown, unforced, excused, forcedFirst>>
snapVars  == <<latest, lastKind, known>>

-----------------------------------------------------------------------------
\* The job.  One run per name at a time (run_in_background / run_inline).

\* Faulty variant: the job starts without the per-name lock.
JobFreeNoLock(j) == job[j].pc = "idle"

\* The non-blocking acquire both ways of running a job start with.
JobFree(j) == jobLock = Nobody /\ job[j].pc = "idle"

Go(j, s, claimed) ==
  /\ jobLock' = j
  /\ job' = [job EXCEPT ![j] = [IdleJob EXCEPT !.pc = "assemble", !.slot = s, !.claimed = claimed]]

\* A request without ?force that takes the slot; one that is refused changes nothing.
StartClaimed(j, k) ==
  /\ JobFree(j) /\ Len(shown) < MaxMsgs
  /\ CanClaim(<<day, k>>)
  /\ row' = [row EXCEPT ![<<day, k>>] = Claimed(<<day, k>>)]
  /\ Go(j, <<day, k>>, TRUE)
  /\ UNCHANGED <<now, day, status, snapVars, tapVars, ghostVars, faults>>

\* The claim raises: the error is logged and the delivery goes on as if it had the slot.
StartUnclaimed(j, k) ==
  /\ JobFree(j) /\ Len(shown) < MaxMsgs /\ faults < MaxFaults
  /\ faults' = faults + 1
  /\ excused' = [excused EXCEPT ![<<day, k>>] = @ + 1]
  /\ Go(j, <<day, k>>, TRUE)
  /\ UNCHANGED <<now, day, status, row, snapVars, tapVars, shown, unforced, forcedFirst>>

\* ?force=true ignores the claim.
StartForced(j, k) ==
  /\ JobFree(j) /\ Len(shown) < MaxMsgs
  /\ Go(j, <<day, k>>, FALSE)
  /\ UNCHANGED <<now, day, status, row, snapVars, tapVars, ghostVars, faults>>

\* What is outstanding in the sources that answered, in the order of Items.
Listed(down) ==
  LET upTo[n \in 0..Len(Items)] ==
        IF n = 0 THEN <<>>
        ELSE IF status[Items[n]] = "live" /\ KindOf[Items[n]] \notin down
             THEN Append(upTo[n - 1], Items[n]) ELSE upTo[n - 1]
  IN  upTo[Len(Items)]

\* Every source is read in its own thread; one that fails leaves its section empty.
\* What is listed is numbered from 1 in order.
Assemble(j, down) ==
  /\ job[j].pc = "assemble"
  /\ down = {} \/ faults < MaxFaults
  /\ faults' = faults + (IF down = {} THEN 0 ELSE 1)
  /\ job' = [job EXCEPT ![j].pc = "send",
               ![j].refs = Listed(down)]
  /\ UNCHANGED <<now, day, status, row, snapVars, jobLock, tapVars, ghostVars>>

\* The message reaches the chat.
Delivered(j) ==
  /\ shown' = Append(shown, [kind |-> job[j].slot[2], day |-> job[j].slot[1], refs |-> job[j].refs])
  /\ unforced' = [unforced EXCEPT ![job[j].slot] = @ + (IF job[j].claimed THEN 1 ELSE 0)]

\* Telegram answers 2xx; a body that cannot be read loses only the message id.
SendWorks(j, hasId) ==
  /\ job[j].pc = "send"
  /\ hasId \/ faults < MaxFaults
  /\ faults' = faults + (IF hasId THEN 0 ELSE 1)
  /\ Delivered(j)
  /\ job' = [job EXCEPT ![j].pc = "record", ![j].ok = TRUE, ![j].msg = Len(shown) + 1, ![j].hasId = hasId]
  /\ UNCHANGED <<now, day, status, row, snapVars, jobLock, tapVars, excused, forcedFirst>>

\* Every attempt fails.
SendFails(j) ==
  /\ job[j].pc = "send"
  /\ job' = [job EXCEPT ![j].pc = "record", ![j].ok = FALSE]
  /\ UNCHANGED <<now, day, status, row, snapVars, jobLock, tapVars, ghostVars, faults>>

\* The message arrives but its answer is lost: a failure to the sender.
SendAnswerLost(j) ==
  /\ job[j].pc = "send" /\ faults < MaxFaults
  /\ Delivered(j)
  /\ job' = [job EXCEPT ![j].pc = "record", ![j].ok = FALSE]
  /\ faults' = faults + 1
  /\ excused' = [excused EXCEPT ![job[j].slot] = @ + 1]
  /\ UNCHANGED <<now, day, status, row, snapVars, jobLock, tapVars, forcedFirst>>

\* After the record: a failed send ends the job, a sent briefing stores its snapshot.
AfterRecord(j) ==
  IF job[j].ok
  THEN job' = [job EXCEPT ![j].pc = "store"] /\ UNCHANGED jobLock
  ELSE job' = [job EXCEPT ![j] = IdleJob] /\ jobLock' = Nobody

Record(j) ==
  /\ job[j].pc = "record"
  /\ row' = [row EXCEPT ![job[j].slot] = Recorded(job[j].slot, job[j].ok)]
  /\ forcedFirst' = [forcedFirst EXCEPT ![job[j].slot] = @ \/ ~row[job[j].slot].there]
  /\ AfterRecord(j)
  /\ UNCHANGED <<now, day, status, snapVars, tapVars, shown, unforced, excused, faults>>

\* record_briefing raises; the job goes on and the slot keeps its claim.
RecordFails(j) ==
  /\ job[j].pc = "record" /\ faults < MaxFaults
  /\ faults' = faults + 1
  /\ excused' = [excused EXCEPT ![job[j].slot] = @ + 1]
  /\ AfterRecord(j)
  /\ UNCHANGED <<now, day, status, row, snapVars, tapVars, shown, unforced, forcedFirst>>

EndJob(j) == job' = [job EXCEPT ![j] = IdleJob] /\ jobLock' = Nobody

\* save_tool_snapshot: outside the button lock.
Store(j) ==
  /\ job[j].pc = "store"
  /\ LET k == job[j].slot[2] IN
     /\ latest' = [latest EXCEPT ![k] =
          [msg |-> job[j].msg, hasId |-> job[j].hasId, day |-> job[j].slot[1],
           refs |-> job[j].refs, done |-> {}, reminded |-> {}]]
     /\ lastKind' = k
  /\ known' = known \cup (IF job[j].hasId THEN {job[j].msg} ELSE {})
  /\ EndJob(j)
  /\ UNCHANGED <<now, day, status, row, tapVars, ghostVars, faults>>

StoreFails(j) ==
  /\ job[j].pc = "store" /\ faults < MaxFaults
  /\ faults' = faults + 1
  /\ EndJob(j)
  /\ UNCHANGED <<now, day, status, row, snapVars, tapVars, ghostVars>>

-----------------------------------------------------------------------------
\* Taps and numbered replies.

\* Faulty variant: the tap does not wait for the button lock.
TakeButtonsAnyway(t) == buttonLock' = t

TakeButtons(t) == buttonLock = Nobody /\ buttonLock' = t

\* Whether the snapshot lets the action run on item n.
Offers(s, k, n, act) ==
  IF act = "rm" THEN Remindable(s, k, n) /\ n \notin s.reminded
  ELSE Actionable(s, n) /\ n \notin s.done

\* Faulty variant: only the day is compared.
AnyMessage(s, m) == TRUE

\* A button of message m is tapped.  Fail closed: the snapshot of today must be of
\* exactly that message.
SameMessage(s, m) == s.msg = m /\ s.hasId

Tap(t, m, n, act) ==
  LET k == shown[m].kind
      s == TodaySnapshot(k)
  IN /\ tap[t].pc = "idle"
     /\ n \in DOMAIN shown[m].refs
     /\ s # NoSnap /\ shown[m].day = s.day /\ SameMessage(s, m)
     /\ Offers(s, k, n, act)
     /\ TakeButtons(t)
     /\ tap' = [tap EXCEPT ![t] = [pc |-> "act", msg |-> m, n |-> n, act |-> act, kind |-> k, snap |-> s]]
     /\ UNCHANGED <<now, day, status, row, snapVars, job, jobLock, ghostVars, made, slips, faults>>

\* "lembra N": the evening preview first, then the morning one; "ignora N": the
\* awaiting items of the morning one.  No message id to compare.
ReplyKind(n, act) ==
  IF act = "rm" /\ "evening" \in Kinds /\ Remindable(TodaySnapshot("evening"), "evening", n)
  THEN "evening" ELSE "morning"

Reply(t, n, act) ==
  LET k == ReplyKind(n, act)
      s == TodaySnapshot(k)
  IN /\ tap[t].pc = "idle" /\ k \in Kinds
     /\ Offers(s, k, n, act)
     /\ act = "no" => KindOf[s.refs[n]] = "awaiting"
     /\ TakeButtons(t)
     /\ tap' = [tap EXCEPT ![t] = [pc |-> "act", msg |-> 0, n |-> n, act |-> act, kind |-> k, snap |-> s]]
     /\ UNCHANGED <<now, day, status, row, snapVars, job, jobLock, ghostVars, made, slips, faults>>

EndTap(t) == tap' = [tap EXCEPT ![t] = IdleTap] /\ buttonLock' = Nobody

\* create_reminder_now commits.
TapRemind(t) ==
  /\ tap[t].pc = "act" /\ tap[t].act = "rm"
  /\ made' = [made EXCEPT ![tap[t].snap.msg][tap[t].n] = @ + 1]
  /\ tap' = [tap EXCEPT ![t].pc = "save"]
  /\ UNCHANGED <<now, day, status, row, snapVars, job, jobLock, buttonLock, ghostVars, slips, faults>>

\* The item is acknowledged, ignored, dismissed or confirmed.  A commitment that is
\* no longer pending is left alone and nothing is recorded.
TapAct(t) ==
  LET i == tap[t].snap.refs[tap[t].n] IN
  /\ tap[t].pc = "act" /\ tap[t].act = "no"
  /\ IF KindOf[i] = "commitment" /\ status[i] # "live"
     THEN EndTap(t) /\ UNCHANGED status
     ELSE /\ status' = [status EXCEPT ![i] = "gone"]
          /\ tap' = [tap EXCEPT ![t].pc = "save"]
          /\ UNCHANGED buttonLock
  /\ UNCHANGED <<now, day, row, snapVars, job, jobLock, ghostVars, made, slips, faults>>

\* Faulty variant: an action that failed is ticked all the same.
TapFailsTicked(t) ==
  /\ tap[t].pc = "act"
  /\ tap' = [tap EXCEPT ![t].pc = "save"]
  /\ UNCHANGED <<now, day, status, row, snapVars, job, jobLock, buttonLock, ghostVars, made, slips, faults>>

\* The action raises or is refused: an error answer, nothing stored.
TapActFails(t) ==
  /\ tap[t].pc = "act"
  /\ EndTap(t)
  /\ UNCHANGED <<now, day, status, row, snapVars, job, jobLock, ghostVars, made, slips, faults>>

\* Faulty variant: the number after the tapped one is ticked.
TickedNext(t) == [tap[t].snap EXCEPT !.done = @ \cup {tap[t].n + 1}]

\* The snapshot as it was read, with this number ticked, is stored as the newest one.
Ticked(t) ==
  IF tap[t].act = "rm" THEN [tap[t].snap EXCEPT !.reminded = @ \cup {tap[t].n}]
  ELSE [tap[t].snap EXCEPT !.done = @ \cup {tap[t].n}]

TapSave(t) ==
  /\ tap[t].pc = "save"
  /\ latest' = [latest EXCEPT ![tap[t].kind] = Ticked(t)]
  /\ lastKind' = tap[t].kind
  /\ LET s == <<tap[t].snap.day, tap[t].kind>> IN row' = [row EXCEPT ![s] = Replied(s)]
  /\ EndTap(t)
  /\ UNCHANGED <<now, day, status, known, job, jobLock, ghostVars, made, slips, faults>>

TapSaveFails(t) ==
  /\ tap[t].pc = "save" /\ faults < MaxFaults
  /\ faults' = faults + 1 /\ slips' = slips + 1
  /\ EndTap(t)
  /\ UNCHANGED <<now, day, status, row, snapVars, job, jobLock, ghostVars, made>>

\* A thumb, tapped or set as a reaction: the last one wins.  The reaction finds the
\* briefing by its message id among the stored snapshots.
Feedback(m, v) ==
  /\ m \in known
  /\ LET s == <<shown[m].day, shown[m].kind>> IN
     /\ row[s].there
     /\ row' = [row EXCEPT ![s].feedback = v]
  /\ UNCHANGED <<now, day, status, snapVars, job, jobLock, tapVars, ghostVars, faults>>

\* Any message of the user marks the briefings sent within the window.
UserWrites ==
  /\ row' = [s \in Slots |->
              IF row[s].ok /\ row[s].at >= now - Window THEN [row[s] EXCEPT !.replied = TRUE] ELSE row[s]]
  /\ row' # row
  /\ UNCHANGED <<now, day, status, snapVars, job, jobLock, tapVars, ghostVars, faults>>

\* "confirma N" through the model's tool: the newest snapshot of any kind, if of today.
Resolved(n) ==
  IF lastKind \in Kinds /\ n \in DOMAIN TodaySnapshot(lastKind).refs
  THEN {TodaySnapshot(lastKind).refs[n]} ELSE {}

ToolConfirm(n) ==
  \E i \in Resolved(n) :
    /\ KindOf[i] \in {"commitment", "reply_debt"} /\ status[i] = "live"
    /\ status' = [status EXCEPT ![i] = "gone"]
    /\ UNCHANGED <<now, day, row, snapVars, job, jobLock, tapVars, ghostVars, faults>>

-----------------------------------------------------------------------------
\* The world.

\* Something new is outstanding, and shifts the numbers of the next briefing.
Arrive(i) ==
  /\ status[i] = "later"
  /\ status' = [status EXCEPT ![i] = "live"]
  /\ UNCHANGED <<now, day, row, snapVars, job, jobLock, tapVars, ghostVars, faults>>

\* Ten minutes pass; the local day ends.
Tick ==
  /\ now < MaxTime
  /\ now' = now + 1
  /\ UNCHANGED <<day, status, row, snapVars, job, jobLock, tapVars, ghostVars, faults>>

NextDay ==
  /\ day < MaxDay
  /\ day' = day + 1
  /\ UNCHANGED <<now, status, row, snapVars, job, jobLock, tapVars, ghostVars, faults>>

\* The agent restarts: threads and locks are gone, the tables stay.
Restart ==
  /\ faults < MaxFaults
  /\ faults' = faults + 1
  /\ excused' = [s \in Slots |-> excused[s] + Cardinality({j \in Jobs : job[j].pc = "record" /\ job[j].slot = s})]
  /\ slips' = slips + Cardinality({t \in Tappers : tap[t].pc = "save"})
  /\ job' = [j \in Jobs |-> IdleJob] /\ jobLock' = Nobody
  /\ tap' = [t \in Tappers |-> IdleTap] /\ buttonLock' = Nobody
  /\ UNCHANGED <<now, day, status, row, snapVars, shown, unforced, forcedFirst, made>>

-----------------------------------------------------------------------------
JobStep(j) ==
  \/ \E k \in Kinds : StartClaimed(j, k) \/ StartUnclaimed(j, k) \/ StartForced(j, k)
  \/ \E down \in SUBSET {KindOf[i] : i \in ItemSet} : Assemble(j, down)
  \/ \E hasId \in BOOLEAN : SendWorks(j, hasId)
  \/ SendFails(j) \/ SendAnswerLost(j)
  \/ Record(j) \/ RecordFails(j) \/ Store(j) \/ StoreFails(j)

TapStep(t) ==
  \/ \E m \in DOMAIN shown, n \in Numbers, act \in {"rm", "no"} : Tap(t, m, n, act)
  \/ \E n \in Numbers, act \in {"rm", "no"} : Reply(t, n, act)
  \/ TapRemind(t) \/ TapAct(t) \/ TapActFails(t) \/ TapSave(t) \/ TapSaveFails(t)

Next ==
  \/ \E j \in Jobs : JobStep(j)
  \/ \E t \in Tappers : TapStep(t)
  \/ \E m \in DOMAIN shown, v \in Thumbs : Feedback(m, v)
  \/ UserWrites
  \/ \E n \in Numbers : ToolConfirm(n)
  \/ \E i \in ItemSet : Arrive(i)
  \/ Tick \/ NextDay \/ Restart

Spec == Init /\ [][Next]_vars

-----------------------------------------------------------------------------
\* Properties.

SnapType == [msg : 0..MaxMsgs, hasId : BOOLEAN, day : 0..MaxDay, refs : Seq(ItemSet),
             done : SUBSET Numbers, reminded : SUBSET Numbers]

\* Types of the tables, of the threads and of the two locks.
TypeOK ==
  /\ now \in 0..MaxTime /\ day \in 1..MaxDay /\ faults \in 0..MaxFaults
  /\ status \in [ItemSet -> {"later", "live", "gone"}]
  /\ row \in [Slots -> [ok : BOOLEAN, at : Int, replied : BOOLEAN,
                        feedback : Thumbs \cup {"none"}, there : BOOLEAN]]
  /\ latest \in [Kinds -> SnapType]
  /\ \A k \in Kinds : latest[k].done \cup latest[k].reminded \subseteq DOMAIN latest[k].refs
  /\ lastKind \in Kinds \cup {"none"} /\ known \subseteq Msgs
  /\ \A j \in Jobs : job[j].pc \in {"idle", "assemble", "send", "record", "store"}
  /\ \A t \in Tappers : tap[t].pc \in {"idle", "act", "save"} /\ tap[t].snap \in SnapType
  /\ jobLock \in Jobs \cup {Nobody} /\ buttonLock \in Tappers \cup {Nobody}

\* A day's briefing is sent once: what may repeat it without ?force is only a fault
\* that hid the first one (a claim or a record that raised, a lost answer, a restart
\* between the send and its record), once for each fault.
SentOnce == \A s \in Slots : unforced[s] <= 1 + excused[s]

\* "already_sent" is never a lie: a slot recorded as sent has a message in the chat.
SentIsTrue == \A s \in Slots : row[s].ok => \E m \in DOMAIN shown : <<shown[m].day, shown[m].kind>> = s

\* A failed attempt can be repeated at once: with no job running, an unsent slot is
\* refused only for a claim whose owner died or could not record, or for the row a
\* forced attempt inserted when it failed before any claim.
Retryable ==
  \A s \in Slots :
    row[s].there /\ ~row[s].ok /\ jobLock = Nobody /\ faults = 0 /\ ~forcedFirst[s] => CanClaim(s)

\* A tap acts on the very item that its message shows under that number, whatever
\* was sent, stored, resent or lost in between.
TapActsOnShown ==
  \A t \in Tappers : tap[t].pc # "idle" /\ tap[t].msg # 0 =>
    /\ tap[t].n \in DOMAIN shown[tap[t].msg].refs
    /\ tap[t].snap.refs[tap[t].n] = shown[tap[t].msg].refs[tap[t].n]

\* Two taps, or a tap and a reply, on the same item create one reminder; a second
\* one needs a restart or a failed save after the first.
RemindedOnce == \A m \in Msgs, n \in Numbers : made[m][n] <= 1 + slips

\* A number shown as handled was handled.
TickedIsDone ==
  \A k \in Kinds : \A n \in latest[k].done : status[latest[k].refs[n]] = "gone"

\* Engagement is counted only for a briefing that was sent.
RepliedWasSent == \A s \in Slots : row[s].replied => row[s].ok

\* What the row of a slot says is true, and never stands in the way of a retry.
RowHonest == SentIsTrue /\ Retryable /\ RepliedWasSent

\* An action on a number is done once, on what the number shows, and a tick means that it
\* was done.
TapsExact == TapActsOnShown /\ RemindedOnce /\ TickedIsDone

\* briefing.py:803: "The latest snapshot decides, so an old one never answers for a
\* newer briefing that failed to store".  Between deliveries the snapshot that answers
\* is the one of the newest briefing of its kind.
NewestAnswers ==
  jobLock = Nobody =>
    \A k \in Kinds : TodaySnapshot(k) # NoSnap =>
      \A m \in DOMAIN shown : shown[m].kind = k /\ shown[m].day = day => m <= latest[k].msg

-----------------------------------------------------------------------------
\* The slot as the abstract specification sees it.
Holder(s) == {j \in Jobs : job[j].claimed /\ job[j].slot = s /\ job[j].pc \in {"assemble", "send", "record"}}
SlotState ==
  [s \in Slots |->
     IF row[s].ok THEN "done"
     ELSE IF \E j \in Holder(s) : job[j].pc = "record" /\ job[j].ok THEN "sent"
     ELSE IF Holder(s) # {} THEN "held" ELSE "free"]

\* The briefing keeps the promise of a once-a-day message.
Abstract == INSTANCE OncePerDay WITH state <- SlotState
OncePerDaySpec == Abstract!Spec
=============================================================================
