----------------------------- MODULE Reminders -----------------------------
(***************************************************************************)
(* The reminder table and the tick that delivers it: the `reminders` rows  *)
(* of agent/db.py, `fire_due` of agent/services/reminders.py run by the    *)
(* loop thread of agent/services/reminder_loop.py, and the commands of     *)
(* agent/tools/reminder_tools.py that change a row while a tick works.     *)
(*                                                                         *)
(* A row is one entry of each table variable.  A database call is one step *)
(* (one transaction); between two calls of a tick anything may happen: the *)
(* clock moves, the user answers, the process dies.  A call that fails has *)
(* no effect, except where the commit went through and only the answer was *)
(* lost (ClaimAnswerLost, CloseAnswerLost).                                *)
(*                                                                         *)
(* Left out: the wording of the message, the `reminder_fires` statistics,  *)
(* the chat_id filter (there is one chat) and the session snapshot that    *)
(* lets the model resolve "feito" to an id.                                *)
(***************************************************************************)
EXTENDS Integers, FiniteSets

CONSTANTS
    Id,           \* row ids; a serial column, so they are ordered
    Proc,         \* processes that run a tick: one, unless instances overlap
    None,         \* SQL NULL
    Period,       \* distance between two occurrences of a series
    StuckAfter,   \* requeue_stuck's threshold (5 minutes)
    ClaimLimit,   \* claim_due's LIMIT (20)
    MaxTime,      \* bound: the clock stops here
    MaxFaults,    \* bound: crashes, failed calls and failed sends
    LastFault,    \* bound: no fault after this time
    MaxCommands   \* bound: commands given by the user

ASSUME IdAssumption == Id \subseteq Nat
ASSUME NoneAssumption == None \notin Int
ASSUME ParameterAssumption ==
    /\ Period \in Nat \ {0}
    /\ StuckAfter \in Nat
    /\ ClaimLimit \in Nat \ {0}
    /\ MaxTime \in Nat
    /\ MaxFaults \in Nat
    /\ LastFault \in Nat
    /\ MaxCommands \in Nat

VARIABLES
    now,            \* the wall clock, read by the application and by SQL now()
    status, due, repeat, snoozeUntil, claimedAt,    \* table reminders
    pc,             \* where the tick of each process is
    tickNow,        \* fire_due's `now`, read once when the tick starts; 0 outside
    batch,          \* claimed rows still to handle, as they were returned
    firedAt,        \* when the row at the head of the batch was sent; else 0
    pendingFinish,  \* _pending_finish: delivered, but finish_fired failed
    toFlush,        \* what _flush_pending_finish still has to try
    delivery,       \* history: was the row's open occurrence delivered?
    overrun,        \* history: one of several instances outlived its claim, or
                    \* recorded its delivery on a later claim
    faults, commands    \* counters for the bounds

table == <<status, due, repeat, snoozeUntil, claimedAt>>
process == <<pc, tickNow, batch, firedAt, pendingFinish, toFlush>>
vars == <<now, table, process, delivery, overrun, faults, commands>>

Status == {"absent", "pending", "firing", "sent", "done", "cancelled", "failed"}
Closed == {"done", "cancelled", "failed"}
Phase == {"down", "idle", "flush", "claim", "send", "finish", "release", "fail"}

\* A claimed row as RETURNING * gives it; a delivery waiting to be recorded, late (history)
\* once its row is claimed again.
Row == [id : Id, due : Int, repeat : BOOLEAN, snooze : Int \cup {None}, claimed : Int]
Finish == [id : Id, next : Int \cup {None}, effective : Int, claimed : Int,
           late : BOOLEAN]

\* "no": not sent yet.  "yes": sent, and the tick still has to record it.
\* "excused": sent, but a fault kept the code from recording it.
Delivery == {"no", "yes", "excused"}

TypeOK ==
    /\ now \in Nat
    /\ status \in [Id -> Status]
    /\ due \in [Id -> Int]
    /\ repeat \in [Id -> BOOLEAN]
    /\ snoozeUntil \in [Id -> Int \cup {None}]
    /\ claimedAt \in [Id -> Int]
    /\ pc \in [Proc -> Phase]
    /\ tickNow \in [Proc -> Int]
    /\ batch \in [Proc -> SUBSET Row]
    /\ firedAt \in [Proc -> Int]
    /\ pendingFinish \in [Proc -> SUBSET Finish]
    /\ toFlush \in [Proc -> SUBSET Finish]
    /\ delivery \in [Id -> Delivery]
    /\ overrun \in BOOLEAN
    /\ faults \in Nat
    /\ commands \in Nat

----------------------------------------------------------------------------
(* Values the SQL and the helpers compute.                                 *)

\* COALESCE(snooze_until, due_at), on a row and on a claimed snapshot.
Coalesce(snooze, scheduled) == IF snooze = None THEN scheduled ELSE snooze
Effective(i) == Coalesce(snoozeUntil[i], due[i])
Scheduled(r) == Coalesce(r.snooze, r.due)

\* The first occurrence strictly after `after` (and after `d` itself).  The
\* four repeat rules and their calendar are abstracted to a fixed period.
NextOccurrence(d, after) ==
    IF after < d THEN d + Period
    ELSE d + Period * (((after - d) \div Period) + 1)

\* Faulty variant: a snoozed series is advanced like any other.
NextAfterFireAdvancesTwice(r, fired) ==
    IF ~r.repeat THEN None ELSE NextOccurrence(r.due, fired)

\* The next due_at of a delivered row, None for a one-off.  A snoozed fire of
\* a series already scheduled past the delivery keeps its date.
NextAfterFire(r, fired) ==
    IF ~r.repeat THEN None
    ELSE IF r.snooze # None /\ r.due > fired THEN r.due
    ELSE NextOccurrence(r.due, fired)

Snapshot(i) == [id |-> i, due |-> due[i], repeat |-> repeat[i],
                snooze |-> snoozeUntil[i], claimed |-> now]

DueRows(t) == {i \in Id : status[i] = "pending" /\ Effective(i) <= t}

\* ORDER BY effective time LIMIT n: what claim_due may take.
FirstDue(t) ==
    LET rows == DueRows(t)
    IN {S \in SUBSET rows :
          /\ Cardinality(S) <= ClaimLimit
          /\ S # rows => Cardinality(S) = ClaimLimit
          /\ \A i \in S, j \in rows \ S : Effective(i) <= Effective(j)}

\* The batch is worked in the order of (effective time, id).
Before(r, s) == \/ Scheduled(r) < Scheduled(s)
                \/ Scheduled(r) = Scheduled(s) /\ r.id <= s.id
IsHead(p, r) == r \in batch[p] /\ \A s \in batch[p] : Before(r, s)

----------------------------------------------------------------------------
Init ==
    /\ now = 0
    /\ status = [i \in Id |-> "absent"]
    /\ due = [i \in Id |-> 0]
    /\ repeat = [i \in Id |-> FALSE]
    /\ snoozeUntil = [i \in Id |-> None]
    /\ claimedAt = [i \in Id |-> 0]
    /\ pc = [p \in Proc |-> "idle"]
    /\ tickNow = [p \in Proc |-> 0]
    /\ batch = [p \in Proc |-> {}]
    /\ firedAt = [p \in Proc |-> 0]
    /\ pendingFinish = [p \in Proc |-> {}]
    /\ toFlush = [p \in Proc |-> {}]
    /\ delivery = [i \in Id |-> "no"]
    /\ overrun = FALSE
    /\ faults = 0
    /\ commands = 0

Fault == /\ faults < MaxFaults
         /\ now <= LastFault
         /\ faults' = faults + 1
NoFault == UNCHANGED faults

Alone == \A p, q \in Proc : p = q

\* At time t some process still handles a row claimed longer ago than StuckAfter.
Overrun(t) == ~Alone /\ \E p \in Proc : \E r \in batch[p] : r.claimed < t - StuckAfter

Clock == /\ now < MaxTime
         /\ now' = now + 1
         /\ overrun' = (overrun \/ Overrun(now + 1))
         /\ UNCHANGED <<table, process, delivery, faults, commands>>

----------------------------------------------------------------------------
(* Commands of the user, through the chat tools or a briefing button.      *)

Command == /\ commands < MaxCommands
           /\ commands' = commands + 1
           /\ UNCHANGED <<now, process, overrun, faults>>

\* validate_new: a time already past is refused.
ValidateNew(d) == d >= now

CreateRow(i, d, rep) ==
    /\ status[i] = "absent"
    /\ status' = [status EXCEPT ![i] = "pending"]
    /\ due' = [due EXCEPT ![i] = d]
    /\ repeat' = [repeat EXCEPT ![i] = rep]
    /\ UNCHANGED <<snoozeUntil, claimedAt, delivery>>

CreateReminder(i, d, rep) == Command /\ ValidateNew(d) /\ CreateRow(i, d, rep)

\* A snooze opens a delivery of its own, also on a row already delivered.
SnoozeRow(i, until) ==
    /\ status[i] \in {"sent", "pending"}
    /\ status' = [status EXCEPT ![i] = "pending"]
    /\ snoozeUntil' = [snoozeUntil EXCEPT ![i] = until]
    /\ delivery' = [delivery EXCEPT ![i] = "no"]
    /\ UNCHANGED <<due, repeat, claimedAt>>

SnoozeReminder(i, until) == Command /\ ValidateNew(until) /\ SnoozeRow(i, until)

\* "feito": a one-off is closed, whatever the tick is doing with it; of a
\* series only the snooze of an occurrence already rescheduled is dropped.
CompleteRow(i) ==
    /\ status[i] \in {"pending", "firing", "sent"}
    /\ IF repeat[i]
       THEN /\ snoozeUntil' = [snoozeUntil EXCEPT ![i] =
                  IF status[i] = "pending" /\ due[i] > now THEN None ELSE @]
            /\ UNCHANGED status
       ELSE /\ status' = [status EXCEPT ![i] = "done"]
            /\ snoozeUntil' = [snoozeUntil EXCEPT ![i] = None]
    /\ UNCHANGED <<due, repeat, claimedAt, delivery>>

CompleteReminder(i) == Command /\ CompleteRow(i)

\* Faulty variant: cancel accepts every open status.
CancelRowFiring(i) ==
    /\ status[i] \in {"pending", "firing", "sent"}
    /\ status' = [status EXCEPT ![i] = "cancelled"]
    /\ UNCHANGED <<due, repeat, snoozeUntil, claimedAt, delivery>>

CancelRow(i) ==
    /\ status[i] \in {"pending", "sent"}
    /\ status' = [status EXCEPT ![i] = "cancelled"]
    /\ UNCHANGED <<due, repeat, snoozeUntil, claimedAt, delivery>>

CancelReminder(i) == Command /\ CancelRow(i)

----------------------------------------------------------------------------
(* The tick.                                                               *)

\* Faulty variants: one statement writes next_due_at for a one-off too; the
\* row is updated without looking at its status.
FinishFiredWritesNull(i, next) ==
    /\ IF status[i] = "firing"
       THEN /\ status' = [status EXCEPT ![i] = IF next = None THEN "sent" ELSE "pending"]
            /\ due' = [due EXCEPT ![i] = next]
            /\ snoozeUntil' = [snoozeUntil EXCEPT ![i] = None]
            /\ delivery' = [delivery EXCEPT ![i] = "no"]
       ELSE UNCHANGED <<status, due, snoozeUntil, delivery>>
    /\ UNCHANGED <<repeat, claimedAt>>

FinishFiredUnguarded(i, next) ==
    /\ status' = [status EXCEPT ![i] = IF next = None THEN "sent" ELSE "pending"]
    /\ due' = [due EXCEPT ![i] = IF next = None THEN @ ELSE next]
    /\ snoozeUntil' = [snoozeUntil EXCEPT ![i] = None]
    /\ delivery' = [delivery EXCEPT ![i] = "no"]
    /\ UNCHANGED <<repeat, claimedAt>>

\* finish_fired: acts on a 'firing' row only; closes a one-off, moves a
\* series to its next occurrence.
FinishFired(i, next) ==
    /\ IF status[i] = "firing"
       THEN /\ status' = [status EXCEPT ![i] = IF next = None THEN "sent" ELSE "pending"]
            /\ due' = [due EXCEPT ![i] = IF next = None THEN @ ELSE next]
            /\ snoozeUntil' = [snoozeUntil EXCEPT ![i] = None]
            /\ delivery' = [delivery EXCEPT ![i] = "no"]
       ELSE UNCHANGED <<status, due, snoozeUntil, delivery>>
    /\ UNCHANGED <<repeat, claimedAt>>

\* UPDATE ... WHERE id = i AND status = 'firing'
FromFiring(i, new) ==
    /\ status' = [status EXCEPT ![i] = IF @ = "firing" THEN new ELSE @]
    /\ UNCHANGED <<due, repeat, snoozeUntil, claimedAt>>

Excuse(ids) == [i \in Id |-> IF i \in ids /\ delivery[i] = "yes" THEN "excused"
                             ELSE delivery[i]]

BeginTick(p) ==
    /\ pc[p] = "idle"
    /\ pc' = [pc EXCEPT ![p] = "flush"]
    /\ tickNow' = [tickNow EXCEPT ![p] = now]
    /\ toFlush' = [toFlush EXCEPT ![p] = pendingFinish[p]]
    /\ UNCHANGED <<now, table, batch, firedAt, pendingFinish, delivery, overrun, faults, commands>>

\* One item of _flush_pending_finish; a failing one stays for the next tick.
FlushItem(p, item) ==
    /\ pc[p] = "flush"
    /\ item \in toFlush[p]
    /\ toFlush' = [toFlush EXCEPT ![p] = @ \ {item}]
    /\ \/ /\ NoFault
          /\ FinishFired(item.id, item.next)
          /\ pendingFinish' = [pendingFinish EXCEPT ![p] = @ \ {item}]
       \/ /\ Fault
          /\ FinishFired(item.id, item.next)
          /\ UNCHANGED pendingFinish
       \/ /\ Fault
          /\ delivery' = Excuse({item.id})
          /\ UNCHANGED <<table, pendingFinish>>
    /\ overrun' = (overrun \/ (~Alone /\ item.late))
    /\ UNCHANGED <<now, pc, tickNow, batch, firedAt, commands>>

\* Faulty variants: no threshold; a threshold in the wrong unit.
StuckAtOnce(i) == status[i] = "firing"
StuckInHours(i) == status[i] = "firing" /\ claimedAt[i] < now - 60 * StuckAfter

Stuck(i) == status[i] = "firing" /\ claimedAt[i] < now - StuckAfter

\* requeue_stuck, once the flush has tried every item.
RequeueStuck(p) ==
    /\ pc[p] = "flush"
    /\ toFlush[p] = {}
    /\ pc' = [pc EXCEPT ![p] = "claim"]
    /\ \/ /\ NoFault
          /\ status' = [i \in Id |-> IF Stuck(i) THEN "pending" ELSE status[i]]
       \/ /\ Fault
          /\ UNCHANGED status
    /\ UNCHANGED <<now, due, repeat, snoozeUntil, claimedAt, tickNow, batch, firedAt,
                   pendingFinish, toFlush, delivery, overrun, commands>>

LateFor(S, items) ==
    [q \in Proc |-> {[item EXCEPT !.late = @ \/ item.id \in S] : item \in items[q]}]

MarkClaimed(S) ==
    /\ status' = [i \in Id |-> IF i \in S THEN "firing" ELSE status[i]]
    /\ claimedAt' = [i \in Id |-> IF i \in S THEN now ELSE claimedAt[i]]
    /\ pendingFinish' = LateFor(S, pendingFinish) /\ toFlush' = LateFor(S, toFlush)
    /\ UNCHANGED <<due, repeat, snoozeUntil>>

ClaimDue(p) ==
    /\ pc[p] = "claim"
    /\ \E S \in FirstDue(tickNow[p]) :
         /\ MarkClaimed(S)
         /\ batch' = [batch EXCEPT ![p] = {Snapshot(i) : i \in S}]
         /\ pc' = [pc EXCEPT ![p] = IF S = {} THEN "idle" ELSE "send"]
    /\ tickNow' = [tickNow EXCEPT ![p] = 0]
    /\ UNCHANGED <<now, firedAt, delivery, overrun, faults, commands>>

\* The claim raises: the tick ends, and the rows stay 'firing' with no owner
\* when only the answer of the committed statement was lost.
ClaimFails(p) ==
    /\ pc[p] = "claim"
    /\ Fault
    /\ pc' = [pc EXCEPT ![p] = "idle"]
    /\ \/ UNCHANGED <<table, pendingFinish, toFlush>>
       \/ \E S \in FirstDue(tickNow[p]) : MarkClaimed(S)
    /\ tickNow' = [tickNow EXCEPT ![p] = 0]
    /\ UNCHANGED <<now, batch, firedAt, delivery, overrun, commands>>

\* The message goes out: fired_at is read right after.
SendDelivers(p, r) ==
    /\ pc[p] = "send"
    /\ IsHead(p, r)
    /\ pc' = [pc EXCEPT ![p] = "finish"]
    /\ firedAt' = [firedAt EXCEPT ![p] = now]
    /\ delivery' = [delivery EXCEPT ![r.id] = "yes"]
    /\ UNCHANGED <<now, table, tickNow, batch, pendingFinish, toFlush, overrun, faults, commands>>

\* Faulty variant: only an exception counts as a failed send.
SendFailsUnnoticed(p, r) ==
    /\ pc[p] = "send"
    /\ IsHead(p, r)
    /\ Fault
    /\ pc' = [pc EXCEPT ![p] = "finish"]
    /\ firedAt' = [firedAt EXCEPT ![p] = now]
    /\ UNCHANGED <<now, table, tickNow, batch, pendingFinish, toFlush, delivery,
                   overrun, commands>>

\* The send reports failure.  A transport error after the request was
\* accepted reports failure for a message the user has.
SendFails(p, r) ==
    /\ pc[p] = "send"
    /\ IsHead(p, r)
    /\ Fault
    /\ \/ /\ pc' = [pc EXCEPT ![p] = "release"]
          /\ delivery' \in {delivery, [delivery EXCEPT ![r.id] = "excused"]}
       \/ /\ pc' = [pc EXCEPT ![p] = "fail"]       \* reason NOT_CONFIGURED
          /\ UNCHANGED delivery
    /\ UNCHANGED <<now, table, tickNow, batch, firedAt, pendingFinish, toFlush, overrun, commands>>

NextRow(p, r) ==
    /\ batch' = [batch EXCEPT ![p] = @ \ {r}]
    /\ pc' = [pc EXCEPT ![p] = IF batch[p] = {r} THEN "idle" ELSE "send"]
    /\ firedAt' = [firedAt EXCEPT ![p] = 0]
    /\ UNCHANGED <<now, tickNow, toFlush, overrun, commands>>

FinishItem(p, r) == [id |-> r.id, next |-> NextAfterFire(r, firedAt[p]),
                     effective |-> Scheduled(r), claimed |-> r.claimed, late |-> FALSE]

\* _finish_with_retry succeeds at one of its three attempts ...
FinishSucceeds(p, r) ==
    /\ pc[p] = "finish"
    /\ IsHead(p, r)
    /\ FinishFired(r.id, NextAfterFire(r, firedAt[p]))
    /\ NextRow(p, r)
    /\ NoFault
    /\ UNCHANGED pendingFinish

\* Faulty variant: the delivery is not kept.
FinishGivesUpForgets(p, r) ==
    /\ pc[p] = "finish"
    /\ IsHead(p, r)
    /\ Fault
    /\ NextRow(p, r)
    /\ UNCHANGED <<table, delivery, pendingFinish>>

\* ... or all three raise, and the delivery is kept for the next tick.  An
\* attempt may have committed all the same.
FinishGivesUp(p, r) ==
    /\ pc[p] = "finish"
    /\ IsHead(p, r)
    /\ Fault
    /\ pendingFinish' = [pendingFinish EXCEPT ![p] = @ \cup {FinishItem(p, r)}]
    /\ \/ UNCHANGED <<table, delivery>>
       \/ FinishFired(r.id, NextAfterFire(r, firedAt[p]))
    /\ NextRow(p, r)

\* After a failed send: release_reminder, or fail_reminder when Telegram is
\* not configured.  If that call raises the row stays 'firing'.
UndoClaim(p, r) ==
    /\ pc[p] \in {"release", "fail"}
    /\ IsHead(p, r)
    /\ \/ /\ NoFault
          /\ FromFiring(r.id, IF pc[p] = "release" THEN "pending" ELSE "failed")
       \/ /\ Fault
          /\ UNCHANGED table
    /\ NextRow(p, r)
    /\ UNCHANGED <<pendingFinish, delivery>>

----------------------------------------------------------------------------
(* The process.  Everything but the table dies with it.                    *)

Unrecorded(p) == {item.id : item \in pendingFinish[p]}
                   \cup {r.id : r \in {s \in batch[p] : pc[p] = "finish" /\ IsHead(p, s)}}

Crash(p) ==
    /\ pc[p] # "down"
    /\ Fault
    /\ pc' = [pc EXCEPT ![p] = "down"]
    /\ batch' = [batch EXCEPT ![p] = {}]
    /\ pendingFinish' = [pendingFinish EXCEPT ![p] = {}]
    /\ toFlush' = [toFlush EXCEPT ![p] = {}]
    /\ tickNow' = [tickNow EXCEPT ![p] = 0]
    /\ firedAt' = [firedAt EXCEPT ![p] = 0]
    /\ delivery' = Excuse(Unrecorded(p))
    /\ UNCHANGED <<now, table, overrun, commands>>

Start(p) ==
    /\ pc[p] = "down"
    /\ pc' = [pc EXCEPT ![p] = "idle"]
    /\ UNCHANGED <<now, table, tickNow, batch, firedAt, pendingFinish, toFlush,
                   delivery, overrun, faults, commands>>

----------------------------------------------------------------------------
Tick(p) ==
    \/ BeginTick(p)
    \/ \E item \in toFlush[p] : FlushItem(p, item)
    \/ RequeueStuck(p)
    \/ ClaimDue(p)
    \/ ClaimFails(p)
    \/ \E r \in batch[p] :
         \/ SendDelivers(p, r)
         \/ SendFails(p, r)
         \/ FinishSucceeds(p, r)
         \/ FinishGivesUp(p, r)
         \/ UndoClaim(p, r)

User ==
    \E i \in Id :
        \/ \E d \in 0..MaxTime, rep \in BOOLEAN : CreateReminder(i, d, rep)
        \/ \E until \in 0..MaxTime : SnoozeReminder(i, until)
        \/ CompleteReminder(i)
        \/ CancelReminder(i)

Next == \/ Clock
        \/ User
        \/ \E p \in Proc : Tick(p) \/ Crash(p) \/ Start(p)

Spec == Init /\ [][Next]_vars

\* The loop thread keeps ticking, a dead process is restarted by its
\* supervisor, time passes.  Nothing is asked of the user.
FairSpec == /\ Spec
            /\ WF_vars(Clock)
            /\ \A p \in Proc : WF_vars(Tick(p)) /\ WF_vars(Start(p))

----------------------------------------------------------------------------
(* Properties.                                                             *)

\* A row a lone process still has to handle is the process's own: it is
\* 'firing', or the user completed it meanwhile.  Nobody else may cancel,
\* snooze or reclaim it: SKIP LOCKED claims, guarded commands, and a requeue
\* that runs only between batches.
Ownership ==
    Alone => \A p \in Proc : \A r \in batch[p] : status[r.id] \in {"firing", "done"}

Unsent(p) == {r \in batch[p] : pc[p] = "finish" => ~IsHead(p, r)}

\* Every message is sent once, unless a fault kept the code from knowing it
\* was delivered: a crash before finish_fired, a send that reported failure,
\* or a flush that failed after finish_fired had failed three times.  One bad
\* finish_fired alone never re-sends.
NoUnexcusedResend ==
    Alone => \A p \in Proc : \A r \in Unsent(p) : delivery[r.id] # "yes"

\* The inductive form of the two.  A batch exists only while it is worked and
\* names a row once; a delivery that is not yet recorded is one the process
\* still knows of, and requeue_stuck runs only when the flush has settled all
\* of them.
BatchShape ==
    \A p \in Proc :
        /\ batch[p] # {} => pc[p] \in {"send", "finish", "release", "fail"}
        /\ \A r, s \in batch[p] : r.id = s.id => r = s
        /\ toFlush[p] \subseteq pendingFinish[p]

Known(p, i) ==
    CASE pc[p] \in {"down", "claim"} -> FALSE
      [] pc[p] = "flush" -> \E item \in toFlush[p] : item.id = i
      [] OTHER -> i \in Unrecorded(p)

DeliveriesKnown ==
    \A i \in Id : delivery[i] = "yes" =>
        /\ status[i] \in {"firing", "done"}
        /\ status[i] = "firing" => \E p \in Proc : Known(p, i)

AloneInv == Alone => BatchShape /\ Ownership /\ DeliveriesKnown /\ NoUnexcusedResend

\* A delivery of an earlier claim is still waiting to be recorded.
LateFinish(i) == \E p \in Proc : \E item \in pendingFinish[p] : item.id = i /\ item.late

\* A claimed occurrence is closed (a one-off marked 'sent', a series moved
\* on) only after its message reached the user; and a snooze re-delivers one
\* occurrence without touching the schedule: the date of a series moves only
\* when its time has come, and never back.
NoSilentClose ==
    \A i \in Id : (/\ status[i] = "firing"
                   /\ status'[i] = "sent" \/ due'[i] # due[i]
                   /\ ~LateFinish(i))
                  => delivery[i] # "no"
ScheduleKept ==
    \A i \in Id : (status[i] # "absent" /\ due'[i] # due[i] /\ ~LateFinish(i))
                  => due[i] <= now /\ due'[i] > due[i]
OccurrencesKept == [][NoSilentClose /\ ScheduleKept]_vars

\* A reminder the user completed or cancelled, or that was given up, stays
\* closed, whatever a tick that claimed it earlier does next.
ClosedForever ==
    [][\A i \in Id : status[i] \in Closed => status'[i] = status[i]]_vars

Owed(i) == status[i] \in {"pending", "firing"} /\ Effective(i) <= now

\* A reminder that is due is eventually delivered and recorded, or the user
\* disposes of it: no crash, failed call or failed send strands the row.
EventuallyServed == \A i \in Id : Owed(i) ~> ~Owed(i)

\* What the SKIP LOCKED claim does guarantee when instances overlap: as long as
\* no tick outlives requeue_stuck's five minutes, and no delivery that could not
\* be recorded waits until its row is claimed again, no reminder is in two hands.
ExclusiveUnlessOverrun ==
    ~overrun => \A p, q \in Proc : p # q =>
                   ~\E r \in batch[p], s \in batch[q] : r.id = s.id
=============================================================================
