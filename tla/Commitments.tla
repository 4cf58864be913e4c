----------------------------- MODULE Commitments ----------------------------
(***************************************************************************)
(* The life of a commitment: the rows of pending_commitments (agent/db.py) *)
(* and everyone who writes them.                                           *)
(*                                                                         *)
(*   - the WhatsApp webhook stores promises (services/promises.py) and     *)
(*     events and tasks (main.py); listing the pending ones replays the    *)
(*     ingest log first (services/commitment_replay.py);                   *)
(*   - the reminder loop's thread judges the rows that wait in needs_eval  *)
(*     (services/promise_context.py, task_judge.py), releases them when a  *)
(*     flag is off, and closes fulfilled promises once a day;              *)
(*   - the user confirms or dismisses from chat, from a button, or in two  *)
(*     tool calls of one batch (tools/commitment_tools.py); a confirmation *)
(*     creates a calendar event or a task outside, then marks the row;     *)
(*   - a command line tool re-evaluates pending promises.                  *)
(*                                                                         *)
(* They are threads and processes that share only the table.  Every        *)
(* statement of db.py is a transaction of its own, so each one is a step.  *)
(* A row's event_date and due_date are one `date` here.  Left out: titles, *)
(* priorities, confirmed_via, notification of new rows (off while reply    *)
(* debts are on) and the 100-row limits of the stale and pending lists.    *)
(***************************************************************************)
EXTENDS Integers, FiniteSets

CONSTANTS
    Keys,         \* (source, source_id): what a row is unique by
    Callers,      \* confirmations that can run at once
    None,         \* no value
    Day,          \* length of a day
    Delay,        \* EVI_PROMISE_EVAL_DELAY_MIN
    Retry,        \* EVAL_RETRY
    GiveUp,       \* EVAL_GIVE_UP
    MaxAttempts,  \* MAX_ATTEMPTS of the task judge
    Batch,        \* rows judged in one pass
    Settings,     \* the environments a process may be started with
    DueDates,     \* bound: the days a message may name
    LastCapture,  \* bound: no message after this time
    MaxTime,      \* bound: the clock stops
    MaxFaults     \* bound: crashes and failed calls

ASSUME ParameterAssumption ==
    /\ None \notin Keys
    /\ None \notin Int
    /\ Day \in Nat \ {0} /\ Batch \in Nat \ {0}
    /\ Settings \subseteq [debts : BOOLEAN, context : BOOLEAN, judge : BOOLEAN]
    /\ \A f \in Settings : f.judge => f.debts   \* task_judge_enabled
    /\ DueDates \subseteq Nat
    /\ Delay \in Nat /\ Retry \in Nat /\ GiveUp \in Nat /\ MaxAttempts \in Nat
    /\ LastCapture \in Nat /\ MaxTime \in Nat /\ MaxFaults \in Nat

VARIABLES
    clock,
    flags,    \* the environment of the running process; None when it is down
    rows,     \* pending_commitments
    worker,   \* the reminder loop's pass over the waiting rows
    cli,      \* promises the re-evaluation tool has still to judge
    calls,    \* confirmations in progress
    created,  \* calendar events and tasks created outside, per row
    excused,  \* history: rows whose confirmations overlapped or failed half way
    faults

vars == <<clock, flags, rows, worker, cli, calls, created, excused, faults>>

Settled == {"undated", "scheduled", "done", "dismissed"}
Row == [type : {"event", "task", "promise"},
        status : {"needs_eval", "pending"} \cup Settled,
        date : Nat \cup {None}, ts : Nat, evalAt : Nat \cup {None}, attempts : Nat]
Worker == [stage : {"rest", "expire_promises", "judge_promises", "sweep",
                    "expire_tasks", "judge_tasks"},
           now : Nat, todo : SUBSET Keys]
Call == [todo : SUBSET Keys, doing : Keys \cup {None}]
ASSUME NoneIsNoRow == None \notin Row
ASSUME NoneIsNoCall == None \notin Call
Resting == [stage |-> "rest", now |-> 0, todo |-> {}]

TypeOK ==
    /\ clock \in Nat
    /\ flags \in Settings \cup {None}
    /\ rows \in [Keys -> Row \cup {None}]
    /\ worker \in Worker
    /\ cli \in SUBSET Keys
    /\ calls \in [Callers -> Call \cup {None}]
    /\ created \in [Keys -> Nat]
    /\ excused \in SUBSET Keys
    /\ faults \in Nat

Init ==
    /\ clock = 0
    /\ flags = None
    /\ rows = [k \in Keys |-> None]
    /\ worker = Resting
    /\ cli = {}
    /\ calls = [c \in Callers |-> None]
    /\ created = [k \in Keys |-> 0]
    /\ excused = {}
    /\ faults = 0

Up == flags # None
Fault == faults < MaxFaults /\ faults' = faults + 1
NoFault == UNCHANGED faults

Clock ==
    /\ clock < MaxTime
    /\ clock' = clock + 1
    /\ UNCHANGED <<flags, rows, worker, cli, calls, created, excused, faults>>

----------------------------------------------------------------------------
(* Dates and rows.                                                         *)

Today(now) == now \div Day
Past(date, now) == date # None /\ date < Today(now)
ClearPast(date, now) == IF Past(date, now) THEN None ELSE date
Dates == DueDates \cup {None}

Has(k, status) == rows[k] # None /\ rows[k].status = status
Pending == {k \in Keys : Has(k, "pending")}
Promises == {k \in Pending : rows[k].type = "promise"}

\* Rows that wait for the judge of tasks, or for the one of promises.
Waiting(tasks) == {k \in Keys : Has(k, "needs_eval") /\ (rows[k].type = "task") = tasks}

\* commitment_status_for, final_status: no date left means undated.
PatternStatus(date, debts) == IF debts /\ date = None THEN "undated" ELSE "pending"

Put(k, row) == rows' = [rows EXCEPT ![k] = row]

----------------------------------------------------------------------------
(* Capture.                                                                *)

NewRow(type, date, ts, status, evalAt) ==
    [type |-> type, status |-> status, date |-> date, ts |-> ts, evalAt |-> evalAt,
     attempts |-> 0]

\* A row that waits for its judge, one that does not.
Queued(type, date, ts) == NewRow(type, date, ts, "needs_eval", ts + Delay)
Final(type, date, ts) == NewRow(type, date, ts, PatternStatus(date, flags.debts), None)

\* insert_pending_commitment: ON CONFLICT DO NOTHING.
Insert(k, row) ==
    /\ clock <= LastCapture
    /\ rows[k] = None
    /\ Put(k, row)
    /\ UNCHANGED <<clock, flags, worker, cli, calls, created, excused, faults>>

\* capture_promises
CapturePromise(k, date, ts) ==
    /\ flags.debts
    /\ Insert(k, IF flags.context THEN Queued("promise", date, ts)
                 ELSE NewRow("promise", date, ts, "pending", None))

Undated(type, date) == type = "task" /\ date = None

\* The end of evolution_webhook: an undated task waits for the judge.
QueueCommitment(k, type, date, ts) ==
    Insert(k, IF Undated(type, date) /\ flags.judge THEN Queued(type, date, ts)
              ELSE Final(type, date, ts))

\* _queue_commitment of the replay, which does not look at the judge.
ReplayCommitment(k, type, date, ts) ==
    Insert(k, Final(type, date, ts))

\* A message arrives, late perhaps.
Capture ==
    /\ Up
    /\ \E k \in Keys, date \in Dates, ts \in 0..clock :
        \/ CapturePromise(k, date, ts)
        \/ \E type \in {"event", "task"} : \/ QueueCommitment(k, type, date, ts)
                                           \/ ReplayCommitment(k, type, date, ts)

----------------------------------------------------------------------------
(* Leaving needs_eval.                                                     *)

\* finish_promise_evaluation: only from needs_eval.
FinishEvaluation(k, status, date) ==
    IF Has(k, "needs_eval")
    THEN Put(k, [rows[k] EXCEPT !.status = status, !.date = date, !.evalAt = None])
    ELSE UNCHANGED rows

\* bump_promise_eval
Bump(k, now) ==
    IF Has(k, "needs_eval")
    THEN Put(k, [rows[k] EXCEPT !.evalAt = now + Retry, !.attempts = @ + 1])
    ELSE UNCHANGED rows

\* Faulty variant: the past date stays, and hides the row.
ExpireKeepsDate(k, now) ==
    FinishEvaluation(k, IF rows[k].type = "task" THEN PatternStatus(rows[k].date, flags.debts)
                        ELSE "pending", rows[k].date)

\* _expire of promises, _fallback of tasks: the status the pattern alone gives;
\* a past date is cleared, so that the row is listed.
Expire(k, now) ==
    LET date == ClearPast(rows[k].date, now)
    IN FinishEvaluation(k, IF rows[k].type = "task" THEN PatternStatus(date, flags.debts)
                           ELSE "pending", date)

\* Faulty variant: only promises are released.
ReleasedPromisesOnly(tasks, now, f) ==
    [k \in Keys |->
        IF k \in Waiting(tasks) /\ ~tasks
        THEN [rows[k] EXCEPT !.date = ClearPast(@, now), !.evalAt = None, !.status = "pending"]
        ELSE rows[k]]

\* release_needs_eval, release_needs_eval_tasks: one UPDATE, when the flag is off.
Released(tasks, now, f) ==
    [k \in Keys |->
        IF k \in Waiting(tasks)
        THEN LET date == ClearPast(rows[k].date, now)
             IN [rows[k] EXCEPT !.date = date, !.evalAt = None,
                                !.status = IF tasks THEN PatternStatus(date, f.debts)
                                           ELSE "pending"]
        ELSE rows[k]]

----------------------------------------------------------------------------
(* The pass of the reminder loop.                                          *)

\* list_stale_needs_eval, list_stale_task_evals
Stale(tasks) == {k \in Waiting(tasks) : rows[k].ts < clock - GiveUp}

\* list_promises_to_evaluate, list_tasks_to_evaluate: the first that are due.
Due(tasks, now) == {k \in Waiting(tasks) : rows[k].evalAt <= now}
FirstDue(tasks, now) ==
    LET due == Due(tasks, now)
    IN {first \in SUBSET due :
          /\ Cardinality(first) = IF Cardinality(due) < Batch THEN Cardinality(due) ELSE Batch
          /\ \A k \in first, l \in due \ first : rows[k].evalAt <= rows[l].evalAt}

\* The next stage works on the rows it reads; if the read fails, on none.
Go(stage, now, reads) ==
    \/ NoFault /\ \E todo \in reads : worker' = [stage |-> stage, now |-> now, todo |-> todo]
    \/ Fault /\ worker' = [stage |-> stage, now |-> now, todo |-> {}]
At(stage) == Up /\ worker.stage = stage
Ready(stage) == At(stage) /\ worker.todo = {}
Handled(k) == worker' = [worker EXCEPT !.todo = @ \ {k}]

\* release_stranded_promises, release_stranded_tasks: may fail unnoticed.
Release(tasks) == \/ rows' = Released(tasks, clock, flags) /\ NoFault
                  \/ Fault /\ UNCHANGED rows

\* A round starts with the promises: give up the stale ones, or, with the flag
\* off, release all.
StartPromises ==
    /\ Ready("rest")
    /\ IF flags.context
       THEN Go("expire_promises", clock, {Stale(FALSE)}) /\ UNCHANGED rows
       ELSE Release(FALSE) /\ worker' = [stage |-> "sweep", now |-> clock, todo |-> {}]

JudgePromises ==
    /\ Ready("expire_promises")
    /\ Go("judge_promises", worker.now, FirstDue(FALSE, worker.now))
    /\ UNCHANGED rows

\* _maybe_sweep: once a day, promises not swept in the last 20 hours.
SweepPromises ==
    /\ Ready("judge_promises")
    /\ Go("sweep", worker.now, SUBSET Promises)
    /\ UNCHANGED rows

StartTasks ==
    /\ Ready("sweep")
    /\ IF flags.judge
       THEN Go("expire_tasks", clock, {Stale(TRUE)}) /\ UNCHANGED rows
       ELSE Release(TRUE) /\ worker' = Resting

JudgeTasks ==
    /\ Ready("expire_tasks")
    /\ Go("judge_tasks", worker.now, FirstDue(TRUE, worker.now))
    /\ UNCHANGED rows

EndPass ==
    /\ Ready("judge_tasks")
    /\ worker' = Resting
    /\ UNCHANGED rows /\ NoFault

ExpireRow(k) ==
    /\ At("expire_promises") \/ At("expire_tasks")
    /\ Handled(k)
    /\ \/ Expire(k, worker.now) /\ NoFault
       \/ Fault /\ UNCHANGED rows

\* A kept promise: the judge may name a date, past or not; COALESCE keeps the
\* old one otherwise.
KeepPromise(k) ==
    \E date \in Dates : FinishEvaluation(k, "pending", IF date = None THEN rows[k].date ELSE date)

\* evaluate_promise failed: retried until it is too old.
PromiseUnanswered(k) ==
    IF worker.now - rows[k].ts >= GiveUp THEN Expire(k, worker.now) ELSE Bump(k, worker.now)

JudgePromise(k) ==
    /\ At("judge_promises")
    /\ Handled(k)
    /\ \/ /\ NoFault
          /\ \/ PromiseUnanswered(k)
             \/ FinishEvaluation(k, "dismissed", rows[k].date)
             \/ FinishEvaluation(k, "done", rows[k].date)
             \/ KeepPromise(k)
       \/ /\ Fault
          /\ Bump(k, worker.now) \/ UNCHANGED rows

\* A kept task takes the pattern's status; past dates are cleared.
KeepTask(k) == Expire(k, worker.now)

JudgeTask(k) ==
    /\ At("judge_tasks")
    /\ Handled(k)
    /\ \/ /\ rows[k].attempts >= MaxAttempts
          /\ \/ Expire(k, worker.now) /\ NoFault
             \/ Fault /\ (Bump(k, worker.now) \/ UNCHANGED rows)
       \/ /\ rows[k].attempts < MaxAttempts
          /\ \/ /\ NoFault
                /\ \/ Bump(k, worker.now)
                   \/ FinishEvaluation(k, "dismissed", rows[k].date)
                   \/ KeepTask(k)
             \/ /\ Fault
                /\ Bump(k, worker.now) \/ UNCHANGED rows

\* Faulty variant: the sweep closes the row it read, whatever became of it.
SweepDoneUnguarded(k) == Put(k, [rows[k] EXCEPT !.status = "done"])

\* mark_promise_done_by_sweep: only while it is still pending.
SweepDone(k) == IF Has(k, "pending") THEN Put(k, [rows[k] EXCEPT !.status = "done"])
                ELSE UNCHANGED rows

SweepPromise(k) ==
    /\ At("sweep")
    /\ Handled(k)
    /\ SweepDone(k) \/ UNCHANGED rows
    /\ NoFault

WorkerStep ==
    /\ \/ StartPromises
       \/ JudgePromises
       \/ SweepPromises
       \/ StartTasks
       \/ JudgeTasks
       \/ EndPass
       \/ \E k \in worker.todo : ExpireRow(k) \/ JudgePromise(k) \/ JudgeTask(k) \/ SweepPromise(k)
    /\ UNCHANGED <<clock, flags, cli, calls, created, excused>>

----------------------------------------------------------------------------
(* Re-evaluation of pending promises, a process of its own.                *)

BeginReevaluation ==
    /\ cli = {}
    /\ Promises # {}
    /\ cli' = Promises
    /\ UNCHANGED <<clock, flags, rows, worker, calls, created, excused, faults>>

\* finish_pending_promise, update_pending_promise: only while it is pending.
ReevaluatePromise(k) ==
    /\ k \in cli
    /\ cli' = cli \ {k}
    /\ \/ UNCHANGED rows
       \/ /\ k \in Promises
          /\ \/ \E status \in {"dismissed", "done"} : Put(k, [rows[k] EXCEPT !.status = status])
             \/ \E date \in Dates \ {None} : Put(k, [rows[k] EXCEPT !.date = date])
    /\ UNCHANGED <<clock, flags, worker, calls, created, excused, faults>>

----------------------------------------------------------------------------
(* The user.                                                               *)

Holds(c, k) == calls[c] # None /\ (k \in calls[c].todo \/ k = calls[c].doing)
Held(k) == \E c \in Callers : Holds(c, k)

\* Faulty variant: ids are not checked against the pending rows.
SnapshotUnchecked(ids) == {k \in ids : rows[k] # None}

\* confirm_commitment_ids reads the pending rows once, past ones included.
Snapshot(ids) == ids \cap Pending

BeginConfirm(c) ==
    /\ Up
    /\ calls[c] = None
    /\ \E ids \in SUBSET Keys :
         LET todo == Snapshot(ids)
         IN /\ todo # {}
            /\ calls' = [calls EXCEPT ![c] = [todo |-> todo, doing |-> None]]
            /\ excused' = excused \cup {k \in todo : Held(k)}
    /\ UNCHANGED <<clock, flags, rows, worker, cli, created, faults>>

\* Faulty variant: the answer is not looked at.
CreateEntryUnchecked(c, k) ==
    /\ calls[c] # None
    /\ calls[c].doing = None
    /\ k \in calls[c].todo
    /\ rows[k].type # "promise"
    /\ calls' = [calls EXCEPT ![c].todo = @ \ {k}, ![c].doing = k]
    /\ \/ created' = [created EXCEPT ![k] = @ + 1]
       \/ UNCHANGED created
    /\ UNCHANGED <<clock, flags, rows, worker, cli, excused, faults>>

\* create_task_result, schedule_event_result.  The answer may be lost after
\* the entry was created.  A promise is refused.
CreateEntry(c, k) ==
    /\ calls[c] # None
    /\ calls[c].doing = None
    /\ k \in calls[c].todo
    /\ \/ /\ rows[k].type # "promise"
          /\ created' = [created EXCEPT ![k] = @ + 1]
          /\ calls' = [calls EXCEPT ![c].todo = @ \ {k}, ![c].doing = k]
          /\ UNCHANGED excused /\ NoFault
       \/ /\ calls' = [calls EXCEPT ![c].todo = @ \ {k}]
          /\ \/ UNCHANGED <<created, excused>> /\ NoFault
             \/ /\ rows[k].type # "promise"
                /\ Fault
                /\ created' = [created EXCEPT ![k] = @ + 1]
                /\ excused' = excused \cup {k}
    /\ UNCHANGED <<clock, flags, rows, worker, cli>>

\* Faulty variant: a status no list knows.
ScheduledAsConfirmed(k) ==
    IF Has(k, "pending") THEN [rows EXCEPT ![k].status = "confirmed"] ELSE rows

\* update_commitment_status: only from pending.
Scheduled(k) == IF Has(k, "pending") THEN [rows EXCEPT ![k].status = "scheduled"] ELSE rows

\* The update may fail, and ends the whole call.
MarkScheduled(c) ==
    /\ calls[c] # None
    /\ calls[c].doing # None
    /\ LET k == calls[c].doing
       IN \/ /\ rows' = Scheduled(k)
             /\ calls' = [calls EXCEPT ![c].doing = None]
             /\ UNCHANGED excused /\ NoFault
          \/ /\ Fault
             /\ calls' = [calls EXCEPT ![c] = None]
             /\ excused' = excused \cup {k}
             /\ UNCHANGED rows
    /\ UNCHANGED <<clock, flags, worker, cli, created>>

EndConfirm(c) ==
    /\ calls[c] # None
    /\ calls[c].doing = None
    /\ calls[c].todo = {}
    /\ calls' = [calls EXCEPT ![c] = None]
    /\ UNCHANGED <<clock, flags, rows, worker, cli, created, excused, faults>>

\* dismiss_commitment_ids, or the button of a promise: one guarded update.
Close(k, status) ==
    /\ Up
    /\ k \in Pending
    /\ status = "done" => rows[k].type = "promise"
    /\ Put(k, [rows[k] EXCEPT !.status = status])
    /\ excused' = excused \cup {l \in {k} : Held(l)}
    /\ UNCHANGED <<clock, flags, worker, cli, calls, created, faults>>

User ==
    \/ \E c \in Callers : \/ BeginConfirm(c)
                          \/ \E k \in Keys : CreateEntry(c, k)
                          \/ MarkScheduled(c)
                          \/ EndConfirm(c)
    \/ \E k \in Keys, status \in {"dismissed", "done"} : Close(k, status)

----------------------------------------------------------------------------
(* The process.                                                            *)

Crash ==
    /\ Up
    /\ Fault
    /\ flags' = None
    /\ worker' = Resting
    /\ calls' = [c \in Callers |-> None]
    /\ excused' = excused \cup {k \in Keys : \E c \in Callers : calls[c] # None /\ calls[c].doing = k}
    /\ UNCHANGED <<clock, rows, cli, created>>

\* start_loop: what waits for a judge that is off now is released.
Start ==
    /\ ~Up
    /\ \E f \in Settings :
         /\ flags' = f
         /\ LET kept == IF f.context THEN rows ELSE Released(FALSE, clock, f)
                freed == IF f.judge THEN rows ELSE Released(TRUE, clock, f)
            IN rows' = [k \in Keys |-> IF k \in Waiting(TRUE) THEN freed[k] ELSE kept[k]]
    /\ UNCHANGED <<clock, worker, cli, calls, created, excused, faults>>

Next ==
    \/ Clock
    \/ Capture
    \/ WorkerStep
    \/ BeginReevaluation
    \/ \E k \in Keys : ReevaluatePromise(k)
    \/ User
    \/ Crash
    \/ Start

Spec == Init /\ [][Next]_vars

\* The loop's thread keeps running, the container is restarted when it dies,
\* and time passes.  Nothing is assumed of the user or of WhatsApp.
FairSpec == Spec /\ WF_vars(Clock) /\ WF_vars(WorkerStep) /\ WF_vars(Start)

----------------------------------------------------------------------------
(* Properties.                                                             *)

\* A settled row is final.  A verdict that comes late, from a sweep, a judge or
\* the command line, never undoes what the user decided meanwhile, and a
\* confirmation never revives what was dismissed under it.
SettledForever ==
    [][\A k \in Keys : rows[k] # None /\ rows[k].status \in Settled => rows'[k] = rows[k]]_vars

\* A row is scheduled exactly when one entry was created for it outside, unless
\* two writers held it at the same time or a call failed between the creation
\* and the mark.
CalendarExact ==
    \A k \in Keys \ excused :
        created[k] = IF Has(k, "scheduled")
                        \/ \E c \in Callers : calls[c] # None /\ calls[c].doing = k
                     THEN 1 ELSE 0

\* Whatever failed: what is marked as scheduled does exist outside.
ScheduledExists == \A k \in Keys : Has(k, "scheduled") => created[k] > 0

\* A row that is released, given up or kept as a task is never hidden from the
\* listings by a date that has passed.  (Only the promise judge may give a date
\* of the past.)
ReleasedIsListed ==
    [][\A k \in Keys : Has(k, "needs_eval") /\ rows'[k].status = "pending" =>
            \/ worker.stage = "judge_promises" /\ rows[k].type = "promise"
            \/ ~Past(rows'[k].date, IF worker.stage = "rest" \/ worker.todo = {}
                                    THEN clock ELSE worker.now)]_vars

\* No row waits forever, whether its judge answers or not, its flag is turned
\* off, or the process dies.
EventuallyJudged ==
    \A k \in Keys : Has(k, "needs_eval") ~> ~Has(k, "needs_eval")
=============================================================================
