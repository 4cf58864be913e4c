-------------------------- MODULE CommitmentsProofs -------------------------
(* What Commitments promises, for any number of rows, confirmations and     *)
(* faults, and any environments.                                            *)
EXTENDS Commitments, TLAPS

(***************************************************************************)
(* The inductive invariant.  A confirmation that works on a row nobody else *)
(* touched (not excused) is its only holder; while its entry exists and the *)
(* row is not marked, the row is pending and no promise, so no judge, sweep *)
(* or re-evaluation can settle it.                                          *)
(***************************************************************************)
Doing(c, k) == calls[c] # None /\ calls[c].doing = k

SweepInv == worker.stage = "sweep" => \A k \in worker.todo : rows[k] # None /\ rows[k].type = "promise"
CallInv ==
    \A c \in Callers, k \in Keys :
        /\ Holds(c, k) => rows[k] # None
        /\ Doing(c, k) => k \notin calls[c].todo /\ rows[k].type # "promise" /\ created[k] > 0
HolderInv ==
    \A k \in Keys \ excused, c \in Callers :
        /\ Holds(c, k) => ~Has(k, "scheduled") /\ \A d \in Callers : Holds(d, k) => d = c
        /\ Holds(c, k) /\ rows[k].type # "promise" => Has(k, "pending")
Inv == TypeOK /\ SweepInv /\ CallInv /\ HolderInv /\ CalendarExact /\ ScheduledExists

\* What every writer but a confirmation or a dismissal may do to a row: create
\* it (an event waits for no judge), take it out of needs_eval, or change a
\* pending promise.
Quiet(k) ==
    \/ rows'[k] = rows[k]
    \/ /\ rows'[k] \in Row
       /\ rows'[k].status # "scheduled"
       /\ \/ rows[k] = None /\ (rows'[k].status = "needs_eval" => rows'[k].type # "event")
          \/ /\ rows'[k].type = rows[k].type
             /\ \/ Has(k, "needs_eval")
                \/ Has(k, "pending") /\ rows[k].type = "promise"

----------------------------------------------------------------------------
LEMMA RowFields ==
    ASSUME TypeOK, NEW k \in Keys, rows[k] # None
    PROVE  /\ rows[k] \in Row
           /\ rows[k].date \in Nat \cup {None}
           /\ rows[k].attempts \in Nat
  BY DEF TypeOK, Row

\* A row with another status, date, time and number of attempts is a row.
LEMMA Rewrite ==
    ASSUME NEW row \in Row, NEW status \in {"needs_eval", "pending"} \cup Settled,
           NEW date \in Nat \cup {None}
    PROVE  /\ [row EXCEPT !.status = status, !.date = date, !.evalAt = None] \in Row
           /\ [row EXCEPT !.date = date, !.evalAt = None, !.status = status] \in Row
           /\ [row EXCEPT !.status = status] \in Row
           /\ [row EXCEPT !.date = date] \in Row
  BY DEF Row

\* One row is written, the others stay.
LEMMA PutOne ==
    ASSUME TypeOK, NEW k \in Keys, NEW row \in Row, Put(k, row),
           NEW l \in Keys
    PROVE  /\ rows' \in [Keys -> Row \cup {None}]
           /\ rows'[l] = IF l = k THEN row ELSE rows[l]
  BY DEF TypeOK, Put

LEMMA ClearPastType ==
    ASSUME NEW date \in Nat \cup {None}, NEW now \in Nat
    PROVE  ClearPast(date, now) \in Nat \cup {None}
  BY DEF ClearPast

LEMMA DatesType == Dates \subseteq Nat \cup {None}
  BY ParameterAssumption DEF Dates

LEMMA PatternType ==
    ASSUME NEW date, NEW debts
    PROVE  /\ PatternStatus(date, debts) \in {"needs_eval", "pending"} \cup Settled
           /\ PatternStatus(date, debts) # "scheduled"
  BY DEF PatternStatus, Settled

QuietRows == rows' \in [Keys -> Row \cup {None}] /\ \A l \in Keys : Quiet(l)

LEMMA UnchangedQuiet == ASSUME TypeOK, UNCHANGED rows PROVE QuietRows
  BY DEF TypeOK, QuietRows, Quiet

LEMMA FinishQuiet ==
    ASSUME TypeOK, NEW k \in Keys, NEW status \in {"pending", "undated", "done", "dismissed"},
           NEW date, Has(k, "needs_eval") => date \in Nat \cup {None}, FinishEvaluation(k, status, date)
    PROVE  QuietRows
<1>1. CASE Has(k, "needs_eval")
  <2> DEFINE row == [rows[k] EXCEPT !.status = status, !.date = date, !.evalAt = None]
  <2>1. rows[k] \in Row
    BY <1>1, RowFields DEF Has
  <2>2. row \in Row /\ row.status = status /\ row.type = rows[k].type
    BY <1>1, <2>1, Rewrite DEF Settled, Row
  <2>3. Put(k, row)
    BY <1>1 DEF FinishEvaluation
  <2> HIDE DEF row
  <2> QED
    BY <1>1, <2>2, <2>3, PutOne DEF QuietRows, Quiet
<1>2. CASE ~Has(k, "needs_eval")
  BY <1>2, UnchangedQuiet DEF FinishEvaluation
<1> QED
  BY <1>1, <1>2

LEMMA BumpQuiet ==
    ASSUME TypeOK, NEW k \in Keys, NEW now \in Nat, Bump(k, now)
    PROVE  QuietRows
<1>1. CASE Has(k, "needs_eval")
  <2> DEFINE row == [rows[k] EXCEPT !.evalAt = now + Retry, !.attempts = @ + 1]
  <2>1. rows[k] \in Row /\ rows[k].status = "needs_eval"
    BY <1>1, RowFields DEF Has
  <2>0. now + Retry \in Nat /\ rows[k].attempts + 1 \in Nat
    BY <2>1, ParameterAssumption DEF Row
  <2>2. row \in Row /\ row.status = rows[k].status /\ row.type = rows[k].type
    BY <2>0, <2>1 DEF Row
  <2>3. Put(k, row)
    BY <1>1 DEF Bump
  <2> HIDE DEF row
  <2> QED
    BY <1>1, <2>1, <2>2, <2>3, PutOne DEF QuietRows, Quiet
<1>2. CASE ~Has(k, "needs_eval")
  BY <1>2, UnchangedQuiet DEF Bump
<1> QED
  BY <1>1, <1>2

LEMMA ExpireQuiet ==
    ASSUME TypeOK, NEW k \in Keys, NEW now \in Nat, Expire(k, now)
    PROVE  QuietRows
<1> DEFINE date == ClearPast(rows[k].date, now)
           status == IF rows[k].type = "task" THEN PatternStatus(date, flags.debts) ELSE "pending"
<1>1. FinishEvaluation(k, status, date)
  BY DEF Expire
<1>2. status \in {"pending", "undated", "done", "dismissed"}
  BY DEF PatternStatus
<1>3. Has(k, "needs_eval") => date \in Nat \cup {None}
  BY RowFields, ClearPastType DEF Has
<1> HIDE DEF date, status
<1> QED
  BY <1>1, <1>2, <1>3, FinishQuiet

\* A release writes rows that wait, and only them.
LEMMA ReleasedRows ==
    ASSUME TypeOK, NEW tasks \in BOOLEAN, NEW now \in Nat, NEW f, NEW k \in Keys
    PROVE  /\ Released(tasks, now, f)[k] \in Row \cup {None}
           /\ \/ Released(tasks, now, f)[k] = rows[k]
              \/ /\ Has(k, "needs_eval")
                 /\ Released(tasks, now, f)[k] \in Row
                 /\ Released(tasks, now, f)[k].status # "scheduled"
                 /\ Released(tasks, now, f)[k].type = rows[k].type
<1> DEFINE date == ClearPast(rows[k].date, now)
           status == IF tasks THEN PatternStatus(date, f.debts) ELSE "pending"
           row == [rows[k] EXCEPT !.date = date, !.evalAt = None, !.status = status]
<1>1. CASE k \in Waiting(tasks)
  <2>1. Has(k, "needs_eval") /\ rows[k] \in Row /\ rows[k].date \in Nat \cup {None}
    BY <1>1, RowFields DEF Waiting, Has
  <2>2. date \in Nat \cup {None} /\ status \in {"needs_eval", "pending"} \cup Settled
        /\ status # "scheduled"
    BY <2>1, ClearPastType, PatternType DEF Settled
  <2>3. Released(tasks, now, f)[k] = row
    BY <1>1 DEF Released
  <2> HIDE DEF date, status
  <2>4. row \in Row /\ row.status = status /\ row.type = rows[k].type
    BY <2>1, <2>2, Rewrite DEF Row
  <2> QED
    BY <2>1, <2>2, <2>3, <2>4
<1>2. CASE k \notin Waiting(tasks)
  <2>1. Released(tasks, now, f)[k] = rows[k]
    BY <1>2 DEF Released
  <2> QED
    BY <2>1 DEF TypeOK
<1> QED
  BY <1>1, <1>2

LEMMA ReleaseQuiet ==
    ASSUME TypeOK, NEW tasks \in BOOLEAN, Release(tasks)
    PROVE  QuietRows
<1>1. CASE rows' = Released(tasks, clock, flags)
  <2>1. rows' \in [Keys -> Row \cup {None}]
    BY <1>1, ReleasedRows DEF Released, TypeOK
  <2> QED
    BY <1>1, <2>1, ReleasedRows DEF QuietRows, Quiet, TypeOK
<1>2. CASE UNCHANGED rows
  BY <1>2, UnchangedQuiet
<1> QED
  BY <1>1, <1>2 DEF Release

LEMMA StartQuiet == ASSUME TypeOK, Start PROVE QuietRows
<1>1. PICK f \in Settings :
        rows' = [k \in Keys |-> IF k \in Waiting(TRUE)
                               THEN (IF f.judge THEN rows ELSE Released(TRUE, clock, f))[k]
                               ELSE (IF f.context THEN rows ELSE Released(FALSE, clock, f))[k]]
  BY DEF Start
<1>2. clock \in Nat /\ rows \in [Keys -> Row \cup {None}]
  BY DEF TypeOK
<1>3. ASSUME NEW k \in Keys
      PROVE  rows'[k] \in {rows[k], Released(TRUE, clock, f)[k], Released(FALSE, clock, f)[k]}
  BY <1>1
<1>4. ASSUME NEW k \in Keys PROVE rows'[k] \in Row \cup {None} /\ Quiet(k)
  <2>1. CASE rows'[k] = rows[k]
    BY <1>2, <2>1 DEF Quiet
  <2>2. ASSUME NEW tasks \in BOOLEAN, rows'[k] = Released(tasks, clock, f)[k]
        PROVE  rows'[k] \in Row \cup {None} /\ Quiet(k)
    <3> DEFINE row == Released(tasks, clock, f)[k]
    <3>1. /\ row \in Row \cup {None}
          /\ \/ row = rows[k]
             \/ Has(k, "needs_eval") /\ row \in Row /\ row.status # "scheduled" /\ row.type = rows[k].type
      BY <1>2, ReleasedRows
    <3> HIDE DEF row
    <3>2. rows'[k] = row
      BY <2>2 DEF row
    <3> QED
      BY <3>1, <3>2 DEF Quiet
  <2> QED
    BY <1>3, <2>1, <2>2
<1>5. rows' \in [Keys -> Row \cup {None}]
  BY <1>1, <1>4
<1> QED
  BY <1>4, <1>5 DEF QuietRows

LEMMA SweepDoneQuiet ==
    ASSUME TypeOK, NEW k \in Keys, rows[k] # None, rows[k].type = "promise", SweepDone(k)
    PROVE  QuietRows
<1>1. CASE Has(k, "pending")
  <2> DEFINE row == [rows[k] EXCEPT !.status = "done"]
  <2>1. row \in Row /\ row.status = "done" /\ row.type = rows[k].type
    BY RowFields DEF Row, Settled
  <2>2. Put(k, row)
    BY <1>1 DEF SweepDone
  <2> HIDE DEF row
  <2> QED
    BY <1>1, <2>1, <2>2, PutOne DEF QuietRows, Quiet
<1>2. CASE ~Has(k, "pending")
  BY <1>2, UnchangedQuiet DEF SweepDone
<1> QED
  BY <1>1, <1>2

LEMMA ReevaluateQuiet ==
    ASSUME TypeOK, NEW k \in Keys, ReevaluatePromise(k)
    PROVE  QuietRows
<1>1. CASE UNCHANGED rows
  BY <1>1, UnchangedQuiet
<1>2. ASSUME k \in Promises, NEW status \in {"dismissed", "done"},
             Put(k, [rows[k] EXCEPT !.status = status])
      PROVE  QuietRows
  <2>1. Has(k, "pending") /\ rows[k] \in Row /\ rows[k].type = "promise"
    BY <1>2, RowFields DEF Promises, Pending, Has
  <2>2. [rows[k] EXCEPT !.status = status] \in Row
    BY <2>1 DEF Row, Settled
  <2>3. [rows[k] EXCEPT !.status = status].type = "promise"
        /\ [rows[k] EXCEPT !.status = status].status # "scheduled"
    BY <2>1 DEF Row
  <2> QED
    BY <1>2, <2>1, <2>2, <2>3, PutOne DEF QuietRows, Quiet
<1>3. ASSUME k \in Promises, NEW date \in Dates \ {None},
             Put(k, [rows[k] EXCEPT !.date = date])
      PROVE  QuietRows
  <2>1. Has(k, "pending") /\ rows[k] \in Row /\ rows[k].type = "promise"
    BY <1>3, RowFields DEF Promises, Pending, Has
  <2>2. [rows[k] EXCEPT !.date = date] \in Row
    BY <2>1, DatesType DEF Row
  <2>3. [rows[k] EXCEPT !.date = date].type = "promise"
        /\ [rows[k] EXCEPT !.date = date].status = "pending"
    BY <2>1 DEF Row, Has
  <2> QED
    BY <1>3, <2>1, <2>2, <2>3, PutOne DEF QuietRows, Quiet
<1> QED
  BY <1>1, <1>2, <1>3 DEF ReevaluatePromise

LEMMA CaptureQuiet == ASSUME TypeOK, Capture PROVE QuietRows
<1>0. clock \in Nat
  BY DEF TypeOK
<1>1. ASSUME NEW k \in Keys, NEW row \in Row, row.status # "scheduled", Insert(k, row),
             row.status = "needs_eval" => row.type # "event"
      PROVE  QuietRows
  BY <1>1, PutOne DEF Insert, QuietRows, Quiet
<1>2. ASSUME NEW date \in Dates, NEW ts \in 0..clock, NEW type \in {"event", "task", "promise"}
      PROVE  /\ Queued(type, date, ts) \in Row /\ Queued(type, date, ts).status = "needs_eval"
             /\ Queued(type, date, ts).type = type
             /\ Final(type, date, ts) \in Row
             /\ Final(type, date, ts).status \notin {"scheduled", "needs_eval"}
             /\ NewRow(type, date, ts, "pending", None) \in Row
             /\ NewRow(type, date, ts, "pending", None).status = "pending"
  <2>1. date \in Nat \cup {None} /\ ts \in Nat /\ ts + Delay \in Nat
    BY <1>0, DatesType, ParameterAssumption
  <2>2. PatternStatus(date, flags.debts) \in {"undated", "pending"}
    BY DEF PatternStatus
  <2> QED
    BY <2>1, <2>2 DEF Queued, Final, NewRow, Row, Settled
<1>3. PICK k \in Keys, date \in Dates, ts \in 0..clock :
        \/ CapturePromise(k, date, ts)
        \/ \E type \in {"event", "task"} : \/ QueueCommitment(k, type, date, ts)
                                           \/ ReplayCommitment(k, type, date, ts)
  BY DEF Capture
<1>4. CASE CapturePromise(k, date, ts)
  BY <1>1, <1>2, <1>4 DEF CapturePromise
<1>5. ASSUME NEW type \in {"event", "task"}, QueueCommitment(k, type, date, ts) PROVE QuietRows
  BY <1>1, <1>2, <1>5 DEF QueueCommitment, Undated
<1>6. ASSUME NEW type \in {"event", "task"}, ReplayCommitment(k, type, date, ts) PROVE QuietRows
  BY <1>1, <1>2, <1>6 DEF ReplayCommitment
<1> QED
  BY <1>3, <1>4, <1>5, <1>6

\* Whatever the loop does in a step, rows change quietly.
LEMMA WorkerQuiet == ASSUME Inv, WorkerStep PROVE QuietRows
<1>0. TypeOK /\ worker \in Worker /\ worker.now \in Nat /\ worker.todo \subseteq Keys /\ clock \in Nat
  BY DEF Inv, TypeOK, Worker
<1>1. CASE StartPromises \/ StartTasks
  BY <1>0, <1>1, ReleaseQuiet, UnchangedQuiet DEF StartPromises, StartTasks
<1>2. CASE JudgePromises \/ SweepPromises \/ JudgeTasks \/ EndPass
  BY <1>0, <1>2, UnchangedQuiet DEF JudgePromises, SweepPromises, JudgeTasks, EndPass
<1>3. ASSUME NEW k \in worker.todo, ExpireRow(k) PROVE QuietRows
  BY <1>0, <1>3, ExpireQuiet, UnchangedQuiet DEF ExpireRow
<1>4. ASSUME NEW k \in worker.todo, JudgePromise(k) PROVE QuietRows
  <2>1. k \in Keys
    BY <1>0
  <2>2. Has(k, "needs_eval") => rows[k].date \in Nat \cup {None}
    BY <1>0, <2>1, RowFields DEF Has
  <2>3. ASSUME KeepPromise(k) PROVE QuietRows
    <3>1. PICK date \in Dates :
            FinishEvaluation(k, "pending", IF date = None THEN rows[k].date ELSE date)
      BY <2>3 DEF KeepPromise
    <3>2. Has(k, "needs_eval") => (IF date = None THEN rows[k].date ELSE date) \in Nat \cup {None}
      BY <2>2, DatesType
    <3> QED
      BY <1>0, <2>1, <3>1, <3>2, FinishQuiet
  <2>4. ASSUME PromiseUnanswered(k) PROVE QuietRows
    BY <1>0, <2>1, <2>4, ExpireQuiet, BumpQuiet DEF PromiseUnanswered
  <2> QED
    BY <1>0, <1>4, <2>1, <2>2, <2>3, <2>4, FinishQuiet, BumpQuiet, UnchangedQuiet DEF JudgePromise
<1>5. ASSUME NEW k \in worker.todo, JudgeTask(k) PROVE QuietRows
  <2>1. k \in Keys
    BY <1>0
  <2>2. Has(k, "needs_eval") => rows[k].date \in Nat \cup {None}
    BY <1>0, <2>1, RowFields DEF Has
  <2> QED
    BY <1>0, <1>5, <2>1, <2>2, ExpireQuiet, FinishQuiet, BumpQuiet, UnchangedQuiet
       DEF JudgeTask, KeepTask
<1>6. ASSUME NEW k \in worker.todo, SweepPromise(k) PROVE QuietRows
  <2>1. k \in Keys /\ rows[k] # None /\ rows[k].type = "promise"
    BY <1>0, <1>6 DEF Inv, SweepInv, SweepPromise, At
  <2> QED
    BY <1>0, <1>6, <2>1, SweepDoneQuiet, UnchangedQuiet DEF SweepPromise
<1> QED
  BY <1>1, <1>2, <1>3, <1>4, <1>5, <1>6 DEF WorkerStep

----------------------------------------------------------------------------
(* The steps that leave the calls alone.                                   *)

\* A quiet step never makes a row scheduled, and keeps what a call holds.
LEMMA QuietKeeps ==
    ASSUME Inv, QuietRows, UNCHANGED <<calls, created, excused>>
    PROVE  CallInv' /\ HolderInv' /\ CalendarExact' /\ ScheduledExists'
<1>1. \A k \in Keys : rows[k] # None => rows'[k] # None /\ rows'[k].type = rows[k].type
  <2> SUFFICES ASSUME NEW k \in Keys, rows[k] # None
               PROVE  rows'[k] # None /\ rows'[k].type = rows[k].type
    OBVIOUS
  <2> QED
    BY NoneIsNoRow DEF QuietRows, Quiet, Inv, TypeOK
<1>2. \A k \in Keys : Has(k, "scheduled")' <=> Has(k, "scheduled")
  BY NoneIsNoRow DEF QuietRows, Quiet, Has
<1>3. ASSUME NEW k \in Keys, NEW c \in Callers, Holds(c, k), k \notin excused,
             rows'[k].type # "promise"
      PROVE  Has(k, "pending")'
  <2>0. rows[k] # None
    BY <1>3 DEF Inv, CallInv
  <2>1. Has(k, "pending") /\ rows[k].type # "promise"
    BY <1>1, <1>3, <2>0 DEF Inv, HolderInv
  <2>2. rows'[k] = rows[k]
    BY <2>1 DEF QuietRows, Quiet, Has
  <2> QED
    BY <2>1, <2>2 DEF Has
<1>4. \A c \in Callers, k \in Keys : (Holds(c, k)' <=> Holds(c, k)) /\ (Doing(c, k)' <=> Doing(c, k))
  BY DEF Holds, Doing
<1>5. CallInv'
  BY <1>1, <1>4 DEF Inv, CallInv, Holds, Doing
<1>6. HolderInv'
  BY <1>2, <1>3, <1>4 DEF Inv, HolderInv
<1>7. CalendarExact'
  BY <1>2 DEF Inv, CalendarExact
<1>8. ScheduledExists'
  BY <1>2 DEF Inv, ScheduledExists
<1> QED
  BY <1>5, <1>6, <1>7, <1>8

\* A row that exists keeps existing and keeps its type.
KeepsTypes == \A k \in Keys : rows[k] # None => rows'[k] # None /\ rows'[k].type = rows[k].type

LEMMA QuietTypes == ASSUME TypeOK, QuietRows PROVE KeepsTypes
  BY NoneIsNoRow DEF KeepsTypes, QuietRows, Quiet, TypeOK

LEMMA SweepKept ==
    ASSUME Inv, KeepsTypes, worker'.stage = "sweep" => worker.stage = "sweep" /\ worker'.todo \subseteq worker.todo
    PROVE  SweepInv'
  BY DEF Inv, SweepInv, KeepsTypes, TypeOK, Worker

LEMMA GoType ==
    ASSUME TypeOK, NEW stage \in {"expire_promises", "judge_promises", "sweep", "expire_tasks",
                                  "judge_tasks"},
           NEW now \in Nat, NEW reads \in SUBSET SUBSET Keys, Go(stage, now, reads)
    PROVE  /\ worker' \in Worker
           /\ worker'.stage = stage
           /\ worker'.todo \in reads \cup {{}}
           /\ faults' \in Nat
  BY ParameterAssumption DEF Go, Worker, TypeOK, Fault, NoFault

LEMMA ReleaseFaults ==
    ASSUME TypeOK, NEW tasks, Release(tasks)
    PROVE  faults' \in Nat
<1>1. NoFault \/ Fault
  BY DEF Release
<1> QED
  BY <1>1 DEF TypeOK, NoFault, Fault

LEMMA WorkerType == ASSUME Inv, WorkerStep PROVE TypeOK'
<1>0. TypeOK /\ worker \in Worker /\ worker.now \in Nat /\ worker.todo \subseteq Keys /\ clock \in Nat
      /\ faults \in Nat
  BY DEF Inv, TypeOK, Worker
<1>1. rows' \in [Keys -> Row \cup {None}]
  BY WorkerQuiet DEF QuietRows
<1>2. worker' \in Worker /\ faults' \in Nat
  <2>1. CASE StartPromises
    <3>1. {Stale(FALSE)} \in SUBSET SUBSET Keys
      BY DEF Stale, Waiting
    <3>2. CASE flags.context
      BY <1>0, <2>1, <3>1, <3>2, GoType DEF StartPromises
    <3>3. CASE ~flags.context
      <4>1. Release(FALSE) /\ worker' = [stage |-> "sweep", now |-> clock, todo |-> {}]
        BY <2>1, <3>3, Zenon DEF StartPromises
      <4>2. worker' \in Worker
        BY <1>0, <4>1 DEF Worker
      <4> QED
        BY <1>0, <4>1, <4>2, ReleaseFaults
    <3> QED
      BY <3>2, <3>3
  <2>2. CASE JudgePromises \/ JudgeTasks
    <3>1. \A tasks \in BOOLEAN : FirstDue(tasks, worker.now) \in SUBSET SUBSET Keys
      BY DEF FirstDue, Due, Waiting
    <3> QED
      BY <1>0, <2>2, <3>1, GoType DEF JudgePromises, JudgeTasks
  <2>3. CASE SweepPromises
    <3>1. SUBSET Promises \in SUBSET SUBSET Keys
      BY DEF Promises, Pending
    <3> QED
      BY <1>0, <2>3, <3>1, GoType DEF SweepPromises
  <2>4. CASE StartTasks
    <3>1. {Stale(TRUE)} \in SUBSET SUBSET Keys
      BY DEF Stale, Waiting
    <3>2. CASE flags.judge
      BY <1>0, <2>4, <3>1, <3>2, GoType DEF StartTasks
    <3>3. CASE ~flags.judge
      <4>1. Release(TRUE) /\ worker' = Resting
        BY <2>4, <3>3, Zenon DEF StartTasks
      <4>2. worker' \in Worker
        BY <4>1 DEF Resting, Worker
      <4> QED
        BY <1>0, <4>1, <4>2, ReleaseFaults
    <3> QED
      BY <3>2, <3>3
  <2>5. CASE EndPass
    BY <1>0, <2>5 DEF EndPass, Resting, Worker, NoFault
  <2>6. ASSUME NEW k \in worker.todo, ExpireRow(k) \/ JudgePromise(k) \/ JudgeTask(k) \/ SweepPromise(k)
        PROVE  worker' \in Worker /\ faults' \in Nat
    <3>1. Handled(k) /\ (NoFault \/ Fault)
      BY <2>6 DEF ExpireRow, JudgePromise, JudgeTask, SweepPromise
    <3> QED
      BY <1>0, <3>1 DEF Handled, Worker, NoFault, Fault
  <2> QED
    BY <2>1, <2>2, <2>3, <2>4, <2>5, <2>6 DEF WorkerStep
<1>3. UNCHANGED <<clock, flags, cli, calls, created, excused>>
  BY DEF WorkerStep
<1> QED
  BY <1>0, <1>1, <1>2, <1>3 DEF TypeOK

LEMMA WorkerSweep == ASSUME Inv, WorkerStep PROVE SweepInv'
<1>0. TypeOK /\ worker \in Worker /\ worker.now \in Nat /\ worker.todo \subseteq Keys /\ clock \in Nat
  BY DEF Inv, TypeOK, Worker
<1>1. KeepsTypes
  BY <1>0, WorkerQuiet, QuietTypes
<1>2. CASE SweepPromises
  <2>1. SUBSET Promises \in SUBSET SUBSET Keys
    BY DEF Promises, Pending
  <2>2. worker'.todo \in SUBSET Promises /\ UNCHANGED rows
    BY <1>0, <1>2, <2>1, GoType DEF SweepPromises
  <2> QED
    BY <2>2 DEF SweepInv, Promises, Pending, Has
<1>3. CASE StartPromises
  <2>1. CASE flags.context
    <3>1. {Stale(FALSE)} \in SUBSET SUBSET Keys
      BY DEF Stale, Waiting
    <3>2. worker'.stage = "expire_promises"
      BY <1>0, <1>3, <2>1, <3>1, GoType DEF StartPromises
    <3> QED
      BY <3>2 DEF SweepInv
  <2>2. CASE ~flags.context
    BY <1>3, <2>2 DEF StartPromises, SweepInv
  <2> QED
    BY <2>1, <2>2
<1>4. CASE JudgePromises \/ JudgeTasks
  <2>1. \A tasks \in BOOLEAN : FirstDue(tasks, worker.now) \in SUBSET SUBSET Keys
    BY DEF FirstDue, Due, Waiting
  <2>2. worker'.stage \in {"judge_promises", "judge_tasks"}
    BY <1>0, <1>4, <2>1, GoType DEF JudgePromises, JudgeTasks
  <2> QED
    BY <2>2 DEF SweepInv
<1>5. CASE StartTasks \/ EndPass
  <2>1. {Stale(TRUE)} \in SUBSET SUBSET Keys
    BY DEF Stale, Waiting
  <2>2. worker' = Resting \/ Go("expire_tasks", clock, {Stale(TRUE)})
    BY <1>5, Zenon DEF StartTasks, EndPass
  <2>3. worker'.stage \in {"expire_tasks", "rest"}
    <3>1. CASE worker' = Resting
      BY <3>1 DEF Resting
    <3>2. CASE Go("expire_tasks", clock, {Stale(TRUE)})
      <4>1. worker'.stage = "expire_tasks"
        BY <1>0, <2>1, <3>2, GoType
      <4> QED
        BY <4>1
    <3> QED
      BY <2>2, <3>1, <3>2
  <2> QED
    BY <2>3 DEF SweepInv
<1>6. ASSUME NEW k \in worker.todo, ExpireRow(k) \/ JudgePromise(k) \/ JudgeTask(k) \/ SweepPromise(k)
      PROVE  SweepInv'
  <2>1. Handled(k)
    BY <1>6 DEF ExpireRow, JudgePromise, JudgeTask, SweepPromise
  <2>2. worker'.stage = worker.stage /\ worker'.todo \subseteq worker.todo
    BY <1>0, <2>1 DEF Handled, Worker
  <2> QED
    BY <1>1, <2>2, SweepKept
<1> QED
  BY <1>2, <1>3, <1>4, <1>5, <1>6 DEF WorkerStep

LEMMA WorkerKeeps == ASSUME Inv, WorkerStep PROVE Inv'
  BY WorkerQuiet, QuietKeeps, WorkerType, WorkerSweep DEF WorkerStep, Inv

LEMMA CaptureFrame ==
    Capture => UNCHANGED <<clock, flags, worker, cli, calls, created, excused, faults>>
  BY DEF Capture, CapturePromise, QueueCommitment, ReplayCommitment, Insert

\* The clock, captures, the command line tool, a crash and a restart.
LEMMA OthersKeep ==
    ASSUME Inv, Clock \/ Capture \/ BeginReevaluation \/ Start \/ \E k \in Keys : ReevaluatePromise(k)
    PROVE  Inv'
<1>0. TypeOK /\ clock \in Nat /\ faults \in Nat
  BY DEF Inv, TypeOK
<1>1. QuietRows
  <2>1. CASE Clock \/ BeginReevaluation
    BY <1>0, <2>1, UnchangedQuiet DEF Clock, BeginReevaluation
  <2> QED
    BY <1>0, <2>1, CaptureQuiet, StartQuiet, ReevaluateQuiet
<1> DEFINE Frame == /\ UNCHANGED <<worker, calls, created, excused, faults>>
                    /\ clock' \in Nat
                    /\ flags' \in Settings \cup {None}
                    /\ cli' \in SUBSET Keys
<1>2. Frame
  <2>1. CASE Clock
    BY <1>0, <2>1 DEF TypeOK, Clock
  <2>2. CASE Capture
    BY <1>0, <2>2, CaptureFrame DEF TypeOK
  <2>3. CASE BeginReevaluation
    BY <1>0, <2>3 DEF TypeOK, BeginReevaluation, Promises, Pending
  <2>4. CASE Start
    BY <1>0, <2>4 DEF TypeOK, Start
  <2>5. CASE \E k \in Keys : ReevaluatePromise(k)
    <3>1. PICK k \in Keys : ReevaluatePromise(k)
      BY <2>5
    <3>2. UNCHANGED <<clock, flags, worker, calls, created, excused, faults>> /\ cli' = cli \ {k}
      BY <3>1 DEF ReevaluatePromise
    <3> QED
      BY <1>0, <3>2 DEF TypeOK
  <2> QED
    BY <2>1, <2>2, <2>3, <2>4, <2>5
<1>6. TypeOK'
  BY <1>0, <1>1, <1>2 DEF TypeOK, QuietRows
<1>7. SweepInv'
  BY <1>0, <1>1, <1>2, QuietTypes, SweepKept
<1> QED
  BY <1>1, <1>2, <1>6, <1>7, QuietKeeps DEF Inv

LEMMA CrashKeeps == ASSUME Inv, Crash PROVE Inv'
<1>0. TypeOK /\ UNCHANGED <<clock, rows, cli, created>> /\ excused \subseteq excused'
  BY DEF Inv, Crash
<1>1. TypeOK'
  BY <1>0 DEF TypeOK, Crash, Fault, Resting, Worker
<1>2. SweepInv' /\ CallInv' /\ HolderInv'
  BY DEF Crash, Resting, SweepInv, CallInv, HolderInv, Holds, Doing
<1>3. ScheduledExists'
  BY <1>0 DEF Inv, ScheduledExists, Has
<1>4. CalendarExact'
  <2> SUFFICES ASSUME NEW k \in Keys, k \notin excused'
               PROVE  created[k] = IF Has(k, "scheduled") THEN 1 ELSE 0
    BY <1>0 DEF CalendarExact, Crash, Has
  <2>1. k \notin excused /\ ~ \E c \in Callers : calls[c] # None /\ calls[c].doing = k
    BY <1>0 DEF Crash
  <2> QED
    BY <2>1 DEF Inv, CalendarExact
<1> QED
  BY <1>1, <1>2, <1>3, <1>4 DEF Inv

----------------------------------------------------------------------------
(* The user.                                                               *)

LEMMA CallType ==
    ASSUME TypeOK, NEW c \in Callers, calls[c] # None
    PROVE  calls[c] \in Call /\ calls[c].todo \subseteq Keys /\ calls[c].doing \in Keys \cup {None}
  BY DEF TypeOK, Call

LEMMA BeginConfirmKeeps == ASSUME Inv, NEW c \in Callers, BeginConfirm(c) PROVE Inv'
<1>0. TypeOK /\ UNCHANGED <<clock, flags, rows, worker, cli, created, faults>> /\ calls[c] = None
  BY DEF Inv, BeginConfirm
<1>1. PICK ids \in SUBSET Keys :
        /\ calls' = [calls EXCEPT ![c] = [todo |-> Snapshot(ids), doing |-> None]]
        /\ excused' = excused \cup {k \in Snapshot(ids) : Held(k)}
  BY DEF BeginConfirm
<1>2. Snapshot(ids) \subseteq Pending /\ Pending \subseteq Keys
  BY DEF Snapshot, Pending
<1> DEFINE call == [todo |-> Snapshot(ids), doing |-> None]
<1>3. call \in Call /\ call # None /\ call.doing = None /\ call.todo = Snapshot(ids)
  BY <1>2, NoneIsNoCall DEF Call
<1>4. /\ calls' \in [Callers -> Call \cup {None}]
      /\ calls'[c] = call
      /\ \A d \in Callers \ {c} : calls'[d] = calls[d]
  BY <1>0, <1>1, <1>3 DEF TypeOK
<1> HIDE DEF call
<1>5. TypeOK' /\ SweepInv'
  BY <1>0, <1>1, <1>2, <1>4 DEF Inv, TypeOK, SweepInv
<1>6. \A d \in Callers, k \in Keys :
        /\ Doing(d, k)' <=> Doing(d, k)
        /\ Holds(d, k)' <=> Holds(d, k) \/ (d = c /\ k \in Snapshot(ids))
  BY <1>0, <1>3, <1>4, ParameterAssumption DEF Doing, Holds
<1>7. CallInv'
  <2> SUFFICES ASSUME NEW d \in Callers, NEW k \in Keys
               PROVE  /\ Holds(d, k)' => rows[k] # None
                      /\ Doing(d, k)' => k \notin calls'[d].todo /\ rows[k].type # "promise" /\ created[k] > 0
    BY <1>0 DEF CallInv
  <2>1. Doing(d, k)' => d # c
    BY <1>0, <1>6 DEF Doing
  <2> QED
    BY <1>2, <1>4, <1>6, <2>1 DEF Inv, CallInv, Pending, Has
<1>8. HolderInv'
  <2> SUFFICES ASSUME NEW k \in Keys, k \notin excused', NEW d \in Callers
               PROVE  /\ Holds(d, k)' => ~Has(k, "scheduled") /\ \A e \in Callers : Holds(e, k)' => e = d
                      /\ Holds(d, k)' /\ rows[k].type # "promise" => Has(k, "pending")
    BY <1>0 DEF HolderInv, Has
  <2>1. k \notin excused /\ (k \in Snapshot(ids) => \A e \in Callers : ~Holds(e, k))
    BY <1>1 DEF Held
  <2>2. k \in Snapshot(ids) => ~Has(k, "scheduled") /\ Has(k, "pending")
    BY <1>2 DEF Pending, Has
  <2> QED
    BY <1>6, <2>1, <2>2 DEF Inv, HolderInv
<1>9. CalendarExact' /\ ScheduledExists'
  <2>1. \A k \in Keys : Has(k, "scheduled")' <=> Has(k, "scheduled")
    BY <1>0 DEF Has
  <2>2. \A k \in Keys : (\E d \in Callers : Doing(d, k)') <=> (\E d \in Callers : Doing(d, k))
    BY <1>6
  <2> QED
    BY <1>0, <1>1, <2>1, <2>2 DEF Inv, CalendarExact, ScheduledExists, Doing
<1> QED
  BY <1>5, <1>7, <1>8, <1>9 DEF Inv

\* A call that drops ids, or ends, holds no more than before.
LEMMA DropKeeps ==
    ASSUME Inv, NEW c \in Callers, NEW call \in Call \cup {None},
           calls[c] # None, calls[c].doing = None,
           call # None => call.doing = None /\ call.todo \subseteq calls[c].todo,
           calls' = [calls EXCEPT ![c] = call],
           UNCHANGED <<clock, flags, rows, worker, cli, created, excused, faults>>
    PROVE  Inv'
<1>0. /\ TypeOK
      /\ calls' \in [Callers -> Call \cup {None}]
      /\ calls'[c] = call
      /\ \A d \in Callers \ {c} : calls'[d] = calls[d]
  BY DEF Inv, TypeOK
<1>1. TypeOK' /\ SweepInv'
  BY <1>0 DEF Inv, TypeOK, SweepInv
<1>2. \A d \in Callers, k \in Keys : (Doing(d, k)' <=> Doing(d, k)) /\ (Holds(d, k)' => Holds(d, k))
  <2> SUFFICES ASSUME NEW d \in Callers, NEW k \in Keys
               PROVE  (Doing(d, k)' <=> Doing(d, k)) /\ (Holds(d, k)' => Holds(d, k))
    OBVIOUS
  <2>1. CASE d = c
    BY <1>0, <2>1, ParameterAssumption DEF Doing, Holds
  <2>2. CASE d # c
    BY <1>0, <2>2 DEF Doing, Holds
  <2> QED
    BY <2>1, <2>2
<1>3. \A k \in Keys : (\E d \in Callers : Doing(d, k)') <=> (\E d \in Callers : Doing(d, k))
  BY <1>2
<1>4. CallInv'
  <2> SUFFICES ASSUME NEW d \in Callers, NEW k \in Keys
               PROVE  /\ Holds(d, k)' => rows[k] # None
                      /\ Doing(d, k)' => k \notin calls'[d].todo /\ rows[k].type # "promise" /\ created[k] > 0
    BY DEF CallInv
  <2>1. Doing(d, k) => d # c
    BY ParameterAssumption DEF Doing
  <2> QED
    BY <1>0, <1>2, <2>1 DEF Inv, CallInv
<1>5. HolderInv'
  BY <1>2 DEF Inv, HolderInv, Has
<1>6. CalendarExact' /\ ScheduledExists'
  BY <1>3 DEF Inv, CalendarExact, ScheduledExists, Doing, Has
<1> QED
  BY <1>1, <1>4, <1>5, <1>6 DEF Inv

\* An entry is created: the row was pending, and nobody else holds it.
LEMMA CreateEntryKeeps ==
    ASSUME Inv, NEW c \in Callers, NEW k \in Keys, CreateEntry(c, k)
    PROVE  Inv'
<1>0. /\ TypeOK
      /\ UNCHANGED <<clock, flags, rows, worker, cli>>
      /\ calls[c] # None /\ calls[c].doing = None /\ k \in calls[c].todo
      /\ calls[c] \in Call
  BY CallType DEF Inv, CreateEntry
<1> DEFINE dropped == [calls[c] EXCEPT !.todo = @ \ {k}]
           doing == [calls[c] EXCEPT !.todo = @ \ {k}, !.doing = k]
<1>1. /\ dropped \in Call /\ dropped.doing = None /\ dropped.todo = calls[c].todo \ {k}
      /\ doing \in Call /\ doing.doing = k /\ doing.todo = calls[c].todo \ {k}
  BY <1>0 DEF Call
<1>2. \/ /\ rows[k].type # "promise"
         /\ created' = [created EXCEPT ![k] = @ + 1]
         /\ calls' = [calls EXCEPT ![c] = doing]
         /\ UNCHANGED <<excused, faults>>
      \/ /\ calls' = [calls EXCEPT ![c] = dropped]
         /\ UNCHANGED <<created, excused, faults>>
      \/ /\ calls' = [calls EXCEPT ![c] = dropped]
         /\ created' = [created EXCEPT ![k] = @ + 1]
         /\ excused' = excused \cup {k}
         /\ faults' = faults + 1
  BY DEF CreateEntry, NoFault, Fault
<1>3. created[k] \in Nat /\ faults \in Nat /\ created \in [Keys -> Nat] /\ excused \subseteq Keys
  BY <1>0 DEF TypeOK
<1> HIDE DEF dropped, doing
<1>4. CASE /\ calls' = [calls EXCEPT ![c] = dropped]
           /\ UNCHANGED <<created, excused, faults>>
  BY <1>0, <1>1, <1>4, DropKeeps
<1>5. CASE /\ calls' = [calls EXCEPT ![c] = dropped]
           /\ created' = [created EXCEPT ![k] = @ + 1]
           /\ excused' = excused \cup {k}
           /\ faults' = faults + 1
  <2>1. /\ calls' \in [Callers -> Call \cup {None}]
        /\ calls'[c] = dropped
        /\ \A d \in Callers \ {c} : calls'[d] = calls[d]
    BY <1>0, <1>1, <1>5 DEF TypeOK
  <2>2. /\ created' \in [Keys -> Nat] /\ created'[k] > 0
        /\ \A l \in Keys \ {k} : created'[l] = created[l]
    BY <1>3, <1>5
  <2>3. TypeOK' /\ SweepInv'
    BY <1>0, <1>3, <1>5, <2>1, <2>2 DEF Inv, TypeOK, SweepInv
  <2>4. ASSUME NEW d \in Callers, NEW l \in Keys
        PROVE  (Doing(d, l)' <=> Doing(d, l)) /\ (Holds(d, l)' => Holds(d, l))
    <3>1. CASE d = c
      BY <1>0, <1>1, <2>1, <3>1, ParameterAssumption DEF Doing, Holds
    <3>2. CASE d # c
      BY <2>1, <3>2 DEF Doing, Holds
    <3> QED
      BY <3>1, <3>2
  <2>5. CallInv'
    <3> SUFFICES ASSUME NEW d \in Callers, NEW l \in Keys
                 PROVE  /\ Holds(d, l)' => rows[l] # None
                        /\ Doing(d, l)' => l \notin calls'[d].todo /\ rows[l].type # "promise" /\ created'[l] > 0
      BY <1>0 DEF CallInv
    <3>1. Doing(d, l) => d # c
      BY <1>0, ParameterAssumption DEF Doing
    <3> QED
      BY <2>1, <2>2, <2>4, <3>1 DEF Inv, CallInv
  <2>6. HolderInv'
    BY <1>0, <1>5, <2>4 DEF Inv, HolderInv, Has
  <2>7. CalendarExact'
    <3> SUFFICES ASSUME NEW l \in Keys, l \notin excused'
                 PROVE  created'[l] = IF Has(l, "scheduled") \/ \E d \in Callers : Doing(d, l)'
                                      THEN 1 ELSE 0
      BY <1>0 DEF CalendarExact, Has, Doing
    <3>1. l # k /\ l \notin excused
      BY <1>5
    <3>2. (\E d \in Callers : Doing(d, l)') <=> (\E d \in Callers : Doing(d, l))
      BY <2>4
    <3> QED
      BY <2>2, <3>1, <3>2 DEF Inv, CalendarExact, Doing
  <2>8. ScheduledExists'
    BY <1>0, <2>2 DEF Inv, ScheduledExists, Has
  <2> QED
    BY <2>3, <2>5, <2>6, <2>7, <2>8 DEF Inv
<1>6. CASE /\ rows[k].type # "promise"
           /\ created' = [created EXCEPT ![k] = @ + 1]
           /\ calls' = [calls EXCEPT ![c] = doing]
           /\ UNCHANGED <<excused, faults>>
  <2>1. /\ calls' \in [Callers -> Call \cup {None}]
        /\ calls'[c] = doing
        /\ \A d \in Callers \ {c} : calls'[d] = calls[d]
    BY <1>0, <1>1, <1>6 DEF TypeOK
  <2>2. /\ created' \in [Keys -> Nat] /\ created'[k] = created[k] + 1
        /\ \A l \in Keys \ {k} : created'[l] = created[l]
    BY <1>3, <1>6
  <2>3. TypeOK' /\ SweepInv'
    BY <1>0, <1>3, <1>6, <2>1, <2>2 DEF Inv, TypeOK, SweepInv
  <2>4. ASSUME NEW d \in Callers, NEW l \in Keys
        PROVE  /\ Doing(d, l)' <=> Doing(d, l) \/ (d = c /\ l = k)
               /\ Holds(d, l)' => Holds(d, l)
    <3>1. CASE d = c
      BY <1>0, <1>1, <2>1, <3>1, NoneIsNoCall, ParameterAssumption DEF Doing, Holds
    <3>2. CASE d # c
      BY <2>1, <3>2 DEF Doing, Holds
    <3> QED
      BY <3>1, <3>2
  <2>5. Holds(c, k)
    BY <1>0 DEF Holds
  <2>6. CallInv'
    <3> SUFFICES ASSUME NEW d \in Callers, NEW l \in Keys
                 PROVE  /\ Holds(d, l)' => rows[l] # None
                        /\ Doing(d, l)' => l \notin calls'[d].todo /\ rows[l].type # "promise" /\ created'[l] > 0
      BY <1>0 DEF CallInv
    <3>1. Doing(d, l) => d # c /\ l \notin calls[d].todo /\ rows[l].type # "promise" /\ created[l] > 0
      BY <1>0, ParameterAssumption DEF Doing, Inv, CallInv
    <3>2. created'[k] > 0
      BY <1>3, <2>2
    <3>3. Holds(d, l)' => rows[l] # None
      BY <2>4 DEF Inv, CallInv
    <3>4. CASE d = c /\ l = k
      BY <1>1, <1>6, <2>1, <3>2, <3>3, <3>4
    <3>5. CASE ~(d = c /\ l = k)
      <4>1. Doing(d, l)' => created'[l] > 0
        BY <1>3, <2>2, <2>4, <3>1, <3>2, <3>5
      <4> QED
        BY <2>1, <2>4, <3>1, <3>3, <3>5, <4>1
    <3> QED
      BY <3>4, <3>5
  <2>7. HolderInv'
    <3> SUFFICES ASSUME NEW l \in Keys, l \notin excused, NEW d \in Callers
                 PROVE  /\ Holds(d, l)' => ~Has(l, "scheduled") /\ \A e \in Callers : Holds(e, l)' => e = d
                        /\ Holds(d, l)' /\ rows[l].type # "promise" => Has(l, "pending")
      BY <1>0, <1>6 DEF HolderInv, Has
    <3> QED
      BY <2>4 DEF Inv, HolderInv
  <2>8. CalendarExact'
    <3> SUFFICES ASSUME NEW l \in Keys, l \notin excused
                 PROVE  created'[l] = IF Has(l, "scheduled") \/ \E d \in Callers : Doing(d, l)'
                                      THEN 1 ELSE 0
      BY <1>0, <1>6 DEF CalendarExact, Has, Doing
    <3>1. CASE l = k
      <4>1. ~Has(k, "scheduled") /\ \A d \in Callers : Holds(d, k) => d = c
        BY <2>5, <3>1 DEF Inv, HolderInv
      <4>2. ~ \E d \in Callers : Doing(d, k)
        BY <1>0, <4>1, ParameterAssumption DEF Doing, Holds
      <4>3. created[k] = 0
        BY <3>1, <4>1, <4>2 DEF Inv, CalendarExact, Doing
      <4>4. Doing(c, k)'
        BY <2>4
      <4> QED
        BY <2>2, <3>1, <4>3, <4>4
    <3>2. CASE l # k
      <4>1. (\E d \in Callers : Doing(d, l)') <=> (\E d \in Callers : Doing(d, l))
        BY <2>4, <3>2
      <4> QED
        BY <2>2, <3>2, <4>1 DEF Inv, CalendarExact, Doing
    <3> QED
      BY <3>1, <3>2
  <2>9. ScheduledExists'
    BY <1>0, <1>3, <2>2 DEF Inv, ScheduledExists, Has
  <2> QED
    BY <2>3, <2>6, <2>7, <2>8, <2>9 DEF Inv
<1> QED
  BY <1>2, <1>4, <1>5, <1>6

LEMMA EndConfirmKeeps == ASSUME Inv, NEW c \in Callers, EndConfirm(c) PROVE Inv'
  BY DropKeeps DEF EndConfirm

\* The statuses a user's update writes.
LEMMA StatusWrite ==
    ASSUME TypeOK, NEW k \in Keys, rows[k] # None,
           NEW status \in {"scheduled", "dismissed", "done"},
           rows' = [rows EXCEPT ![k].status = status]
    PROVE  /\ rows' \in [Keys -> Row \cup {None}]
           /\ rows'[k].status = status
           /\ \A l \in Keys \ {k} : rows'[l] = rows[l]
           /\ KeepsTypes
<1> DEFINE row == [rows[k] EXCEPT !.status = status]
<1>1. rows[k] \in Row
  BY RowFields
<1>2. row \in Row /\ row.status = status /\ row.type = rows[k].type
  BY <1>1, Rewrite DEF Settled, Row
<1>3. Put(k, row)
  BY DEF Put
<1> HIDE DEF row
<1>4. \A l \in Keys : rows'[l] = IF l = k THEN row ELSE rows[l]
  BY <1>2, <1>3, PutOne
<1> QED
  BY <1>2, <1>3, <1>4, PutOne, NoneIsNoRow DEF KeepsTypes

\* The mark: the row was pending, and its call was the only one at it.
LEMMA MarkScheduledKeeps == ASSUME Inv, NEW c \in Callers, MarkScheduled(c) PROVE Inv'
<1> DEFINE done == [calls[c] EXCEPT !.doing = None]
<1>a. /\ TypeOK
      /\ UNCHANGED <<clock, flags, worker, cli, created>>
      /\ calls[c] \in Call /\ calls[c].doing \in Keys /\ faults \in Nat
      /\ Doing(c, calls[c].doing) /\ Holds(c, calls[c].doing)
  BY CallType DEF Inv, MarkScheduled, Doing, Holds, TypeOK
<1>b. PICK k \in Keys : k = calls[c].doing
  BY <1>a
<1>0. /\ TypeOK
      /\ UNCHANGED <<clock, flags, worker, cli, created>>
      /\ calls[c] \in Call /\ k \in Keys /\ faults \in Nat
      /\ Doing(c, k) /\ Holds(c, k)
  BY <1>a, <1>b
<1>1. done \in Call /\ done.doing = None /\ done.todo = calls[c].todo /\ done # None
  BY <1>0, NoneIsNoCall DEF Call
<1>2. \/ /\ rows' = Scheduled(k)
         /\ calls' = [calls EXCEPT ![c] = done]
         /\ UNCHANGED <<excused, faults>>
      \/ /\ calls' = [calls EXCEPT ![c] = None]
         /\ excused' = excused \cup {k}
         /\ faults' = faults + 1
         /\ UNCHANGED rows
  BY <1>b DEF MarkScheduled, NoFault, Fault
<1>3. k \notin calls[c].todo /\ created[k] > 0 /\ rows[k].type # "promise" /\ rows[k] # None
  BY <1>0 DEF Inv, CallInv
<1>4. k \notin excused => Has(k, "pending") /\ \A d \in Callers : Holds(d, k) => d = c
  BY <1>0, <1>3 DEF Inv, HolderInv
<1> HIDE DEF done
<1>5. PICK call \in {done, None} : calls' = [calls EXCEPT ![c] = call]
  BY <1>2
<1>6. /\ calls' \in [Callers -> Call \cup {None}]
      /\ calls'[c] = call
      /\ \A d \in Callers \ {c} : calls'[d] = calls[d]
  BY <1>0, <1>1, <1>5 DEF TypeOK
<1>7. \A d \in Callers, l \in Keys :
        /\ Doing(d, l)' <=> Doing(d, l) /\ d # c
        /\ Holds(d, l)' => Holds(d, l) /\ ~(d = c /\ l = k)
  <2> SUFFICES ASSUME NEW d \in Callers, NEW l \in Keys
               PROVE  /\ Doing(d, l)' <=> Doing(d, l) /\ d # c
                      /\ Holds(d, l)' => Holds(d, l) /\ ~(d = c /\ l = k)
    OBVIOUS
  <2>1. CASE d = c
    BY <1>0, <1>1, <1>3, <1>b, <1>5, <1>6, <2>1, ParameterAssumption DEF Doing, Holds
  <2>2. CASE d # c
    BY <1>6, <2>2 DEF Doing, Holds
  <2> QED
    BY <2>1, <2>2
<1>8. /\ rows' \in [Keys -> Row \cup {None}]
      /\ \A l \in Keys \ {k} : rows'[l] = rows[l]
      /\ KeepsTypes
      /\ rows'[k] = rows[k] \/ Has(k, "scheduled")'
  <2>1. CASE UNCHANGED rows
    BY <1>0, <2>1 DEF TypeOK, KeepsTypes
  <2>2. CASE rows' = [rows EXCEPT ![k].status = "scheduled"]
    BY <1>0, <1>3, <2>2, StatusWrite DEF KeepsTypes, Has
  <2> QED
    BY <1>2, <2>1, <2>2 DEF Scheduled
<1>9. excused \subseteq excused' /\ excused' \subseteq Keys /\ faults' \in Nat
  BY <1>0, <1>2 DEF TypeOK
<1>10. TypeOK'
  BY <1>0, <1>6, <1>8, <1>9 DEF TypeOK
<1>11. SweepInv'
  BY <1>0, <1>8, SweepKept
<1>12. CallInv'
  <2> SUFFICES ASSUME NEW d \in Callers, NEW l \in Keys
               PROVE  /\ Holds(d, l)' => rows'[l] # None
                      /\ Doing(d, l)' => l \notin calls'[d].todo /\ rows'[l].type # "promise" /\ created[l] > 0
    BY <1>0 DEF CallInv
  <2>1. Holds(d, l) => rows[l] # None /\ rows'[l] # None /\ rows'[l].type = rows[l].type
    BY <1>8 DEF Inv, CallInv, KeepsTypes
  <2>2. Doing(d, l) => Holds(d, l)
    BY DEF Doing, Holds
  <2> QED
    BY <1>6, <1>7, <2>1, <2>2 DEF Inv, CallInv
<1>13. HolderInv'
  <2> SUFFICES ASSUME NEW l \in Keys, l \notin excused', NEW d \in Callers, Holds(d, l)'
               PROVE  /\ ~Has(l, "scheduled")'
                      /\ \A e \in Callers : Holds(e, l)' => e = d
                      /\ rows'[l].type # "promise" => Has(l, "pending")'
    BY DEF HolderInv
  <2>1. l \notin excused /\ Holds(d, l) /\ l # k
    BY <1>4, <1>7, <1>9
  <2>2. rows'[l] = rows[l]
    BY <1>8, <2>1
  <2> QED
    BY <1>7, <2>1, <2>2 DEF Inv, HolderInv, Has
<1>14. CalendarExact'
  <2> SUFFICES ASSUME NEW l \in Keys, l \notin excused'
               PROVE  created[l] = IF Has(l, "scheduled")' \/ \E d \in Callers : Doing(d, l)'
                                   THEN 1 ELSE 0
    BY <1>0 DEF CalendarExact, Doing
  <2>1. CASE l = k
    <3>1. rows' = Scheduled(k) /\ Has(k, "pending")
      BY <1>2, <1>4, <1>9, <2>1
    <3>2. rows' = [rows EXCEPT ![k].status = "scheduled"]
      BY <3>1 DEF Scheduled
    <3>3. Has(k, "scheduled")'
      <4>1. rows'[k].status = "scheduled" /\ rows'[k] # None
        BY <1>0, <1>3, <3>2, StatusWrite DEF KeepsTypes
      <4> QED
        BY <4>1 DEF Has
    <3>4. created[k] = 1
      BY <1>0, <1>9, <2>1 DEF Inv, CalendarExact, Doing
    <3> QED
      BY <2>1, <3>3, <3>4
  <2>2. CASE l # k
    <3>1. rows'[l] = rows[l] /\ l \notin excused
      BY <1>8, <1>9, <2>2
    <3>2. ~ Doing(c, l)
      BY <1>0, <2>2 DEF Doing
    <3>3. \A d \in Callers : Doing(d, l)' <=> Doing(d, l)
      BY <1>7, <3>2
    <3>4. (\E d \in Callers : Doing(d, l)') <=> (\E d \in Callers : Doing(d, l))
      BY <3>3
    <3> QED
      BY <3>1, <3>4 DEF Inv, CalendarExact, Has, Doing
  <2> QED
    BY <2>1, <2>2
<1>15. ScheduledExists'
  <2> SUFFICES ASSUME NEW l \in Keys, Has(l, "scheduled")'
               PROVE  created[l] > 0
    BY <1>0 DEF ScheduledExists
  <2> QED
    BY <1>3, <1>8 DEF Inv, ScheduledExists, Has
<1> QED
  BY <1>10, <1>11, <1>12, <1>13, <1>14, <1>15 DEF Inv

\* A dismissal, or a promise done: whoever holds the row is excused.
LEMMA CloseKeeps ==
    ASSUME Inv, NEW k \in Keys, NEW status \in {"dismissed", "done"}, Close(k, status)
    PROVE  Inv'
<1>0. /\ TypeOK
      /\ UNCHANGED <<clock, flags, worker, cli, calls, created, faults>>
      /\ Has(k, "pending") /\ rows[k] # None
      /\ excused \subseteq excused' /\ excused' \subseteq Keys
      /\ Held(k) => k \in excused'
  BY DEF Inv, Close, Pending, Has, TypeOK
<1>1. rows' = [rows EXCEPT ![k].status = status]
  BY DEF Close, Put
<1>2. /\ rows' \in [Keys -> Row \cup {None}]
      /\ rows'[k].status = status
      /\ \A l \in Keys \ {k} : rows'[l] = rows[l]
      /\ KeepsTypes
  BY <1>0, <1>1, StatusWrite
<1>3. TypeOK'
  BY <1>0, <1>2 DEF TypeOK
<1>4. SweepInv'
  BY <1>0, <1>2, SweepKept
<1>5. \A d \in Callers, l \in Keys : (Doing(d, l)' <=> Doing(d, l)) /\ (Holds(d, l)' <=> Holds(d, l))
  BY <1>0 DEF Doing, Holds
<1>6. CallInv'
  <2> SUFFICES ASSUME NEW d \in Callers, NEW l \in Keys
               PROVE  /\ Holds(d, l)' => rows'[l] # None
                      /\ Doing(d, l)' => l \notin calls[d].todo /\ rows'[l].type # "promise" /\ created[l] > 0
    BY <1>0 DEF CallInv
  <2>1. Holds(d, l) => rows'[l] # None /\ rows'[l].type = rows[l].type
    BY <1>2 DEF Inv, CallInv, KeepsTypes
  <2>2. Doing(d, l) => Holds(d, l)
    BY DEF Doing, Holds
  <2> QED
    BY <1>5, <2>1, <2>2 DEF Inv, CallInv
<1>7. HolderInv'
  <2> SUFFICES ASSUME NEW l \in Keys, l \notin excused', NEW d \in Callers, Holds(d, l)'
               PROVE  /\ ~Has(l, "scheduled")'
                      /\ \A e \in Callers : Holds(e, l)' => e = d
                      /\ rows'[l].type # "promise" => Has(l, "pending")'
    BY DEF HolderInv
  <2>1. l # k /\ l \notin excused
    BY <1>0, <1>5 DEF Held
  <2>2. rows'[l] = rows[l]
    BY <1>2, <2>1
  <2> QED
    BY <1>5, <2>1, <2>2 DEF Inv, HolderInv, Has
<1>8. \A l \in Keys : Has(l, "scheduled")' <=> Has(l, "scheduled")
  <2> SUFFICES ASSUME NEW l \in Keys PROVE Has(l, "scheduled")' <=> Has(l, "scheduled")
    OBVIOUS
  <2>1. CASE l = k
    BY <1>0, <1>2, <2>1 DEF Has
  <2>2. CASE l # k
    BY <1>2, <2>2 DEF Has
  <2> QED
    BY <2>1, <2>2
<1>9. CalendarExact' /\ ScheduledExists'
  <2>1. \A l \in Keys : (\E d \in Callers : Doing(d, l)') <=> (\E d \in Callers : Doing(d, l))
    BY <1>5
  <2> QED
    BY <1>0, <1>8, <2>1 DEF Inv, CalendarExact, ScheduledExists, Doing
<1> QED
  BY <1>3, <1>4, <1>6, <1>7, <1>9 DEF Inv

----------------------------------------------------------------------------
(* The theorems.                                                           *)

LEMMA InitInv == ASSUME Init PROVE Inv
<1>1. TypeOK
  BY DEF Init, TypeOK, Resting, Worker
<1>2. SweepInv /\ CallInv /\ HolderInv
  BY DEF Init, Resting, SweepInv, CallInv, HolderInv, Holds, Doing
<1>3. CalendarExact /\ ScheduledExists
  BY DEF Init, CalendarExact, ScheduledExists, Has
<1> QED
  BY <1>1, <1>2, <1>3 DEF Inv

LEMMA NextInv == ASSUME Inv, [Next]_vars PROVE Inv'
<1>1. CASE User
  BY <1>1, BeginConfirmKeeps, CreateEntryKeeps, MarkScheduledKeeps, EndConfirmKeeps, CloseKeeps DEF User
<1>2. CASE UNCHANGED vars
  BY <1>2 DEF vars, Inv, TypeOK, SweepInv, CallInv, HolderInv, CalendarExact, ScheduledExists,
              Holds, Doing, Has
<1> QED
  BY <1>1, <1>2, WorkerKeeps, OthersKeep, CrashKeeps DEF Next

LEMMA Inductive == Spec => []Inv
<1>1. Init => Inv
  BY InitInv
<1>2. Inv /\ [Next]_vars => Inv'
  BY NextInv
<1> QED
  BY <1>1, <1>2, PTL DEF Spec

\* The table, the passes and the calls keep their types.
THEOREM TypeCorrect == Spec => []TypeOK
<1>1. Inv => TypeOK
  BY DEF Inv
<1> QED
  BY <1>1, Inductive, PTL

\* However many confirmations run: a row nobody else touched and no failure hit
\* has exactly one entry outside when it is scheduled, and none when it is not.
THEOREM CalendarIsExact == Spec => []CalendarExact
<1>1. Inv => CalendarExact
  BY DEF Inv
<1> QED
  BY <1>1, Inductive, PTL

\* Whatever failed, a scheduled row has an entry outside.
THEOREM ScheduledIsReal == Spec => []ScheduledExists
<1>1. Inv => ScheduledExists
  BY DEF Inv
<1> QED
  BY <1>1, Inductive, PTL

\* No step of any writer changes a settled row.
LEMMA SettledStep ==
    ASSUME Inv, [Next]_vars, NEW k \in Keys, rows[k] # None, rows[k].status \in Settled
    PROVE  rows'[k] = rows[k]
<1>0. TypeOK
  BY DEF Inv
<1>1. ASSUME QuietRows PROVE rows'[k] = rows[k]
  BY <1>1 DEF QuietRows, Quiet, Has, Settled
<1>2. CASE WorkerStep \/ Capture \/ Start \/ \E l \in Keys : ReevaluatePromise(l)
  BY <1>0, <1>1, <1>2, WorkerQuiet, CaptureQuiet, StartQuiet, ReevaluateQuiet
<1>3. CASE Clock \/ BeginReevaluation \/ Crash \/ UNCHANGED vars
  BY <1>3 DEF Clock, BeginReevaluation, Crash, vars
<1>4. CASE User
  <2>1. ASSUME NEW c \in Callers, BeginConfirm(c) \/ EndConfirm(c) \/ \E l \in Keys : CreateEntry(c, l)
        PROVE  UNCHANGED rows
    BY <2>1 DEF BeginConfirm, EndConfirm, CreateEntry
  <2>2. ASSUME NEW c \in Callers, MarkScheduled(c) PROVE rows'[k] = rows[k]
    <3> DEFINE l == calls[c].doing
    <3>1. UNCHANGED rows \/ (Has(l, "pending") /\ rows' = [rows EXCEPT ![l].status = "scheduled"])
      BY <2>2 DEF MarkScheduled, Scheduled
    <3>2. Has(l, "pending") => l # k
      BY DEF Has, Settled
    <3> HIDE DEF l
    <3> QED
      BY <1>0, <3>1, <3>2 DEF TypeOK
  <2>3. ASSUME NEW l \in Keys, NEW status \in {"dismissed", "done"}, Close(l, status)
        PROVE  rows'[k] = rows[k]
    <3>1. l # k
      BY <2>3 DEF Close, Pending, Has, Settled
    <3> QED
      BY <1>0, <2>3, <3>1 DEF Close, Put, TypeOK
  <2> QED
    BY <1>4, <2>1, <2>2, <2>3 DEF User
<1> QED
  BY <1>2, <1>3, <1>4 DEF Next

\* A settled row is final, whoever writes and in whatever order.
THEOREM SettledIsFinal == Spec => SettledForever
<1>1. Inv /\ [Next]_vars =>
        [\A k \in Keys : rows[k] # None /\ rows[k].status \in Settled => rows'[k] = rows[k]]_vars
  BY SettledStep
<1> QED
  BY <1>1, Inductive, PTL DEF Spec, SettledForever

----------------------------------------------------------------------------
(* What is released stays in sight.  Only tasks and promises wait, and the  *)
(* judge of promises has only promises at hand.                             *)

ListInv ==
  /\ \A k \in Keys : Has(k, "needs_eval") => rows[k].type # "event"
  /\ worker.stage = "judge_promises" =>
       \A k \in worker.todo : rows[k] # None /\ rows[k].type = "promise"
  /\ flags = None => worker.stage = "rest"

LEMMA UserRows ==
    ASSUME Inv, User
    PROVE  /\ KeepsTypes
           /\ \A k \in Keys : Has(k, "needs_eval") \/ Has(k, "needs_eval")' => rows'[k] = rows[k]
<1>0. TypeOK
  BY DEF Inv
<1>1. ASSUME UNCHANGED rows
      PROVE  KeepsTypes /\ \A k \in Keys : rows'[k] = rows[k]
  BY <1>1 DEF KeepsTypes
<1>2. ASSUME NEW l \in Keys, Has(l, "pending"), NEW status \in {"scheduled", "dismissed", "done"},
             rows' = [rows EXCEPT ![l].status = status]
      PROVE  /\ KeepsTypes
             /\ \A k \in Keys : Has(k, "needs_eval") \/ Has(k, "needs_eval")' => rows'[k] = rows[k]
  <2>1. /\ rows'[l].status = status /\ KeepsTypes
        /\ \A k \in Keys \ {l} : rows'[k] = rows[k]
    BY <1>0, <1>2, StatusWrite DEF Has
  <2> QED
    BY <1>2, <2>1 DEF Has
<1>3. CASE \E c \in Callers : BeginConfirm(c) \/ EndConfirm(c) \/ \E l \in Keys : CreateEntry(c, l)
  BY <1>1, <1>3 DEF BeginConfirm, EndConfirm, CreateEntry
<1>4. ASSUME NEW c \in Callers, MarkScheduled(c)
      PROVE  UNCHANGED rows \/ \E l \in Keys : /\ Has(l, "pending")
                                               /\ rows' = [rows EXCEPT ![l].status = "scheduled"]
  <2>1. calls[c].doing \in Keys
    BY <1>0, <1>4, CallType DEF MarkScheduled, Call
  <2> QED
    BY <1>4, <2>1 DEF MarkScheduled, Scheduled
<1>5. ASSUME NEW l \in Keys, NEW status \in {"dismissed", "done"}, Close(l, status)
      PROVE  Has(l, "pending") /\ rows' = [rows EXCEPT ![l].status = status]
  BY <1>5 DEF Close, Put, Pending, Has
<1> QED
  BY <1>1, <1>2, <1>3, <1>4, <1>5 DEF User

LEMMA QuietListed ==
    ASSUME TypeOK, QuietRows, ListInv
    PROVE  \A k \in Keys : Has(k, "needs_eval")' => rows'[k].type # "event"
  BY DEF QuietRows, Quiet, ListInv, Has

\* Between two stages the judge's list only shrinks.
LEMMA JudgeListKept ==
    ASSUME Inv, ListInv, KeepsTypes,
           worker'.stage = "judge_promises" =>
             worker.stage = "judge_promises" /\ worker'.todo \subseteq worker.todo
    PROVE  worker'.stage = "judge_promises" =>
             \A k \in worker'.todo : rows'[k] # None /\ rows'[k].type = "promise"
  BY DEF Inv, ListInv, KeepsTypes, TypeOK, Worker

LEMMA WorkerLists == ASSUME Inv, ListInv, WorkerStep PROVE ListInv'
<1>0. TypeOK /\ worker \in Worker /\ worker.now \in Nat /\ worker.todo \subseteq Keys /\ clock \in Nat
  BY DEF Inv, TypeOK, Worker
<1>1. QuietRows /\ KeepsTypes
  BY <1>0, WorkerQuiet, QuietTypes
<1>2. flags # None /\ flags' = flags
  BY DEF WorkerStep, StartPromises, JudgePromises, SweepPromises, StartTasks, JudgeTasks, EndPass,
         ExpireRow, JudgePromise, JudgeTask, SweepPromise, Ready, At, Up
<1>3. worker'.stage = "judge_promises" =>
        \A k \in worker'.todo : rows'[k] # None /\ rows'[k].type = "promise"
  <2>1. CASE JudgePromises
    <3>1. FirstDue(FALSE, worker.now) \in SUBSET SUBSET Keys
      BY DEF FirstDue, Due, Waiting
    <3>2. worker'.todo \in FirstDue(FALSE, worker.now) \cup {{}} /\ UNCHANGED rows
      BY <1>0, <2>1, <3>1, GoType DEF JudgePromises
    <3>3. \A k \in worker'.todo : k \in Keys /\ Has(k, "needs_eval") /\ rows[k].type # "task"
      BY <3>2 DEF FirstDue, Due, Waiting
    <3>4. \A k \in worker'.todo : rows[k] \in Row /\ rows[k] # None /\ rows[k].type # "event"
      BY <1>0, <3>3, RowFields DEF ListInv, Has
    <3>5. \A row \in Row : row.type \in {"event", "task", "promise"}
      BY DEF Row
    <3> QED
      BY <3>2, <3>3, <3>4, <3>5
  <2>2. CASE \E k \in worker.todo : ExpireRow(k) \/ JudgePromise(k) \/ JudgeTask(k) \/ SweepPromise(k)
    <3>1. worker'.stage = worker.stage /\ worker'.todo \subseteq worker.todo
      BY <1>0, <2>2 DEF ExpireRow, JudgePromise, JudgeTask, SweepPromise, Handled, Worker
    <3> QED
      BY <1>1, <3>1, JudgeListKept
  <2>3. CASE StartPromises \/ SweepPromises \/ StartTasks \/ JudgeTasks \/ EndPass
    <3> SUFFICES worker'.stage # "judge_promises"
      OBVIOUS
    <3>1. ASSUME NEW stage, stage # "judge_promises", NEW now, NEW reads, Go(stage, now, reads)
          PROVE  worker'.stage # "judge_promises"
      BY <3>1 DEF Go
    <3>2. CASE StartPromises
      <4>1. \/ Go("expire_promises", clock, {Stale(FALSE)})
            \/ worker' = [stage |-> "sweep", now |-> clock, todo |-> {}]
        BY <3>2, Zenon DEF StartPromises
      <4> QED
        BY <3>1, <4>1
    <3>3. CASE StartTasks
      <4>1. Go("expire_tasks", clock, {Stale(TRUE)}) \/ worker' = Resting
        BY <3>3, Zenon DEF StartTasks
      <4> QED
        BY <3>1, <4>1 DEF Resting
    <3>4. CASE SweepPromises \/ JudgeTasks
      BY <3>1, <3>4 DEF SweepPromises, JudgeTasks
    <3>5. CASE EndPass
      BY <3>5 DEF EndPass, Resting
    <3> QED
      BY <2>3, <3>2, <3>3, <3>4, <3>5
  <2> QED
    BY <2>1, <2>2, <2>3 DEF WorkerStep
<1> QED
  BY <1>0, <1>1, <1>2, <1>3, QuietListed DEF ListInv

LEMMA ListStep == ASSUME Inv, ListInv, [Next]_vars PROVE ListInv'
<1>0. TypeOK
  BY DEF Inv
<1>1. CASE Capture \/ Start \/ \E l \in Keys : ReevaluatePromise(l)
  <2>1. QuietRows
    BY <1>0, <1>1, CaptureQuiet, StartQuiet, ReevaluateQuiet
  <2>2. UNCHANGED worker /\ (flags' = None => flags = None)
    BY <1>1 DEF Capture, CapturePromise, QueueCommitment, ReplayCommitment, Insert, Start, Up,
                ReevaluatePromise
  <2>3. KeepsTypes
    BY <1>0, <2>1, QuietTypes
  <2> QED
    BY <1>0, <2>1, <2>2, <2>3, QuietListed, JudgeListKept DEF ListInv
<1>2. CASE Clock \/ BeginReevaluation \/ UNCHANGED vars
  <2>1. UNCHANGED <<rows, worker, flags>>
    BY <1>2 DEF Clock, BeginReevaluation, vars
  <2> QED
    BY <2>1 DEF ListInv, Has
<1>3. CASE Crash
  <2>1. UNCHANGED rows /\ worker'.stage = "rest"
    BY <1>3 DEF Crash, Resting
  <2> QED
    BY <2>1 DEF ListInv, Has
<1>4. CASE User
  <2>1. UNCHANGED <<worker, flags>>
    BY <1>4 DEF User, BeginConfirm, CreateEntry, MarkScheduled, EndConfirm, Close
  <2>2. /\ KeepsTypes
        /\ \A k \in Keys : Has(k, "needs_eval")' => rows'[k] = rows[k]
    BY <1>4, UserRows
  <2>3. \A k \in Keys : Has(k, "needs_eval")' => rows'[k].type # "event"
    BY <2>2 DEF ListInv, Has
  <2> QED
    BY <2>1, <2>2, <2>3, JudgeListKept DEF ListInv
<1> QED
  BY <1>1, <1>2, <1>3, <1>4, WorkerLists DEF Next

----------------------------------------------------------------------------
LEMMA ClearedIsListed == ASSUME NEW date, NEW now PROVE ~Past(ClearPast(date, now), now)
  BY DEF Past, ClearPast

\* A verdict on one row leaves the others alone; one that makes it pending names the date.
LEMMA FinishLists ==
    ASSUME TypeOK, NEW l \in Keys, NEW status, NEW date, FinishEvaluation(l, status, date),
           NEW k \in Keys, Has(k, "needs_eval"), rows'[k].status = "pending"
    PROVE  k = l /\ status = "pending" /\ rows'[k].date = date
<1>1. k = l
  BY DEF FinishEvaluation, Put, TypeOK, Has
<1>2. rows[k] \in Row
  BY RowFields DEF Has
<1>3. rows'[k] = [rows[k] EXCEPT !.status = status, !.date = date, !.evalAt = None]
  BY <1>1 DEF FinishEvaluation, Put, TypeOK
<1> QED
  BY <1>1, <1>2, <1>3 DEF Row

LEMMA ExpireLists ==
    ASSUME TypeOK, NEW l \in Keys, NEW now, Expire(l, now),
           NEW k \in Keys, Has(k, "needs_eval"), rows'[k].status = "pending"
    PROVE  k = l /\ ~Past(rows'[k].date, now)
  BY FinishLists, ClearedIsListed DEF Expire

LEMMA BumpWaits ==
    ASSUME TypeOK, NEW l \in Keys, NEW now, Bump(l, now), NEW k \in Keys, Has(k, "needs_eval")
    PROVE  rows'[k].status # "pending"
<1>1. rows[k] \in Row /\ rows[k].status = "needs_eval"
  BY RowFields DEF Has
<1>2. CASE k = l
  <2>1. rows'[k] = [rows[k] EXCEPT !.evalAt = now + Retry, !.attempts = @ + 1]
    BY <1>2 DEF Bump, Put, TypeOK
  <2> QED
    BY <1>1, <2>1 DEF Row
<1>3. CASE k # l
  BY <1>1, <1>3 DEF Bump, Put, TypeOK
<1> QED
  BY <1>2, <1>3

LEMMA ReleasedLists ==
    ASSUME TypeOK, NEW tasks \in BOOLEAN, NEW now, NEW f, NEW k \in Keys, Has(k, "needs_eval"),
           rows'[k] = Released(tasks, now, f)[k], rows'[k].status = "pending"
    PROVE  ~Past(rows'[k].date, now)
<1> DEFINE date == ClearPast(rows[k].date, now)
           status == IF tasks THEN PatternStatus(date, f.debts) ELSE "pending"
<1>1. rows[k] \in Row
  BY RowFields DEF Has
<1>2. k \in Waiting(tasks)
  BY DEF Released, Has
<1>3. rows'[k] = [rows[k] EXCEPT !.date = date, !.evalAt = None, !.status = status]
  BY <1>2 DEF Released
<1>4. ~Past(date, now)
  BY ClearedIsListed
<1> HIDE DEF date, status
<1>5. rows'[k].date = date
  BY <1>1, <1>3 DEF Row
<1> QED
  BY <1>4, <1>5

LEMMA ReleasedStep ==
    ASSUME Inv, ListInv, [Next]_vars, NEW k \in Keys, Has(k, "needs_eval"),
           rows'[k].status = "pending",
           ~(worker.stage = "judge_promises" /\ rows[k].type = "promise")
    PROVE  ~Past(rows'[k].date, IF worker.stage = "rest" \/ worker.todo = {}
                                THEN clock ELSE worker.now)
<1>0. TypeOK /\ worker.todo \subseteq Keys
  BY DEF Inv, TypeOK, Worker
<1>1. rows'[k] # rows[k]
  BY DEF Has
<1>2. CASE StartPromises \/ StartTasks
  <2>1. worker.stage = "rest" \/ worker.todo = {}
    BY <1>2 DEF StartPromises, StartTasks, Ready, At
  <2>2. \E tasks \in BOOLEAN : Release(tasks)
    BY <1>1, <1>2 DEF StartPromises, StartTasks
  <2>3. \E tasks \in BOOLEAN : rows' = Released(tasks, clock, flags)
    BY <1>1, <2>2 DEF Release
  <2> QED
    BY <1>0, <2>1, <2>3, ReleasedLists
<1>3. ASSUME NEW l \in worker.todo, ExpireRow(l)
      PROVE  ~Past(rows'[k].date, worker.now) /\ worker.stage # "rest"
  BY <1>0, <1>1, <1>3, ExpireLists DEF ExpireRow, At
<1>4. ASSUME NEW l \in worker.todo, JudgePromise(l)
      PROVE  FALSE
  <2>1. l \in Keys /\ k # l
    BY <1>0, <1>4 DEF ListInv, JudgePromise, At
  <2> QED
    BY <1>0, <1>1, <1>4, <2>1, ExpireLists, FinishLists, BumpWaits
       DEF JudgePromise, PromiseUnanswered, KeepPromise
<1>5. ASSUME NEW l \in worker.todo, JudgeTask(l)
      PROVE  ~Past(rows'[k].date, worker.now) /\ worker.stage # "rest"
  BY <1>0, <1>1, <1>5, ExpireLists, FinishLists, BumpWaits DEF JudgeTask, KeepTask, At
<1>6. ASSUME NEW l \in worker.todo, SweepPromise(l)
      PROVE  FALSE
  BY <1>0, <1>1, <1>6 DEF SweepPromise, SweepDone, Put, Has, TypeOK
<1>7. ~(JudgePromises \/ SweepPromises \/ JudgeTasks \/ EndPass)
  BY <1>1 DEF JudgePromises, SweepPromises, JudgeTasks, EndPass
<1>8. CASE WorkerStep
  BY <1>2, <1>3, <1>4, <1>5, <1>6, <1>7, <1>8 DEF WorkerStep
<1>9. CASE Start
  <2>1. PICK f \in Settings :
          rows' = [l \in Keys |-> IF l \in Waiting(TRUE)
                                 THEN (IF f.judge THEN rows ELSE Released(TRUE, clock, f))[l]
                                 ELSE (IF f.context THEN rows ELSE Released(FALSE, clock, f))[l]]
    BY <1>9 DEF Start
  <2>2. \E tasks \in BOOLEAN : rows'[k] = Released(tasks, clock, f)[k]
    BY <1>1, <2>1
  <2>3. worker.stage = "rest"
    BY <1>9 DEF Start, Up, ListInv
  <2> QED
    BY <1>0, <2>2, <2>3, ReleasedLists
<1>10. ~(Clock \/ Capture \/ BeginReevaluation \/ Crash \/ UNCHANGED vars)
  <2>1. ~Capture
    BY <1>0, <1>1 DEF Capture, CapturePromise, QueueCommitment, ReplayCommitment, Insert, Put, Has,
                      TypeOK
  <2> QED
    BY <1>1, <2>1 DEF Clock, BeginReevaluation, Crash, vars
<1>11. ~User
  BY <1>1, UserRows
<1>12. ~ \E l \in Keys : ReevaluatePromise(l)
  BY <1>0, <1>1 DEF ReevaluatePromise, Promises, Pending, Has, Put, TypeOK
<1> QED
  BY <1>8, <1>9, <1>10, <1>11, <1>12 DEF Next

\* What is released, given up or kept as a task is listed: no date that has
\* passed hides it, unless the judge of promises gave that date.
THEOREM ReleasedStaysListed == Spec => ReleasedIsListed
<1>1. Init => ListInv
  BY DEF Init, ListInv, Resting, Has
<1>2. Inv /\ ListInv /\ [Next]_vars => ListInv'
  BY ListStep
<1>3. Spec => []ListInv
  BY <1>1, <1>2, Inductive, PTL DEF Spec
<1>4. Inv /\ ListInv /\ [Next]_vars =>
        [\A k \in Keys : Has(k, "needs_eval") /\ rows'[k].status = "pending" =>
            \/ worker.stage = "judge_promises" /\ rows[k].type = "promise"
            \/ ~Past(rows'[k].date, IF worker.stage = "rest" \/ worker.todo = {}
                                    THEN clock ELSE worker.now)]_vars
  BY ReleasedStep
<1> QED
  BY <1>3, <1>4, Inductive, PTL DEF Spec, ReleasedIsListed
=============================================================================
