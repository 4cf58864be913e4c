--------------------------- MODULE ScheduledTasks ---------------------------
(***************************************************************************)
(* Questions EVI answers by itself on a schedule: the `scheduled_tasks`    *)
(* rows of agent/db.py, `run_due` and its single-worker executor in        *)
(* agent/services/scheduled_tasks.py, and the commands that create,        *)
(* cancel, pause and resume a task.                                        *)
(*                                                                         *)
(* Several threads meet on a row: the loop thread claims it, the worker    *)
(* runs it, and each user request is a thread of its own that reads the    *)
(* clock, then the row, and writes last.  A database call is one step.     *)
(*                                                                         *)
(* Left out: the answer's text, titles (a task is named by its id), the    *)
(* thread a timed-out run leaves behind (it only reads, and its result is  *)
(* dropped), due_scheduled_tasks' LIMIT of twice the active cap, and     *)
(* last_status and last_run_at, which are written and never read.          *)
(***************************************************************************)
EXTENDS Integers, Sequences, FiniteSets

CONSTANTS
    Id,             \* row ids, in the order of creation
    Proc,           \* processes running the agent: one, unless instances overlap
    None,           \* SQL NULL
    MaxActive,      \* MAX_ACTIVE (10)
    MaxRunsPerDay,  \* MAX_RUNS_PER_DAY (6)
    DayLength,      \* ticks of the clock in a local day
    Period,         \* distance between two occurrences of a series
    MaxTime,        \* bound: the clock stops here
    MaxFaults,      \* bound: crashes and failed claims
    MaxCommands     \* bound: requests of the user

ASSUME IdAssumption == Id \subseteq Nat /\ IsFiniteSet(Id)
ASSUME NoneAssumption == None \notin Int
ASSUME ParameterAssumption ==
    /\ MaxActive \in Nat \ {0}
    /\ MaxRunsPerDay \in Nat \ {0}
    /\ DayLength \in Nat \ {0}
    /\ Period \in Nat \ {0}
    /\ MaxTime \in Nat
    /\ MaxFaults \in Nat
    /\ MaxCommands \in Nat

VARIABLES
    now,                \* the wall clock
    presence,           \* per row: "absent", "listed", or "deleted" (deleted_at set)
    active, nextAt, repeat, runsToday, runsDay,    \* its columns
    requests,           \* user requests still running
    pc,                 \* where run_due of each process is
    tickNow,            \* run_due's `now`; 0 outside
    rows,               \* due rows still to handle, as they were read
    used,               \* runs of the day, read once and counted on; 0 outside
    inflight,           \* _inflight
    queue,              \* the executor's queue
    worker,             \* the job the single worker has, and how far it is
    log,                \* history: the runs started, in order, `at` their tick's now
    rewound,            \* history: rows a resume moved back behind a run
    faults, commands    \* counters for the bounds

table == <<presence, active, nextAt, repeat, runsToday, runsDay>>
tick == <<pc, tickNow, rows, used>>
vars == <<now, table, requests, tick, inflight, queue, worker, log, rewound, faults, commands>>

DueRow == [id : Id, due : Int, repeat : BOOLEAN]
\* What the executor is handed: a claimed run, or the notice that one was capped.
Job == [id : Id, due : Int, kind : {"run", "notice"}]
Request == [n : Nat, proc : Proc, op : {"cancel", "pause", "resume"}, id : Id,
            stage : {"find", "write"}, at : Int, next : Int]
Run == [id : Id, due : Int, at : Int, day : Int]
ASSUME NoneIsNoJob == None \notin Job

TypeOK ==
    /\ now \in Nat
    /\ presence \in [Id -> {"absent", "listed", "deleted"}]
    /\ active \in [Id -> BOOLEAN]
    /\ nextAt \in [Id -> Int]
    /\ repeat \in [Id -> BOOLEAN]
    /\ runsToday \in [Id -> Nat]
    /\ runsDay \in [Id -> Int \cup {None}]
    /\ requests \in SUBSET Request
    /\ pc \in [Proc -> {"down", "idle", "count", "claim"}]
    /\ tickNow \in [Proc -> Int]
    /\ rows \in [Proc -> SUBSET DueRow]
    /\ used \in [Proc -> Nat]
    /\ inflight \in [Proc -> SUBSET Id]
    /\ queue \in [Proc -> Seq(Job)]
    /\ worker \in [Proc -> Job \cup {None}]
    /\ log \in Seq(Run)
    /\ rewound \subseteq Id
    /\ faults \in Nat
    /\ commands \in Nat

----------------------------------------------------------------------------
Day(t) == t \div DayLength

\* next_occurrence, for a series whose rule has a fixed step.
NextOccurrence(d, after, step) ==
    IF after < d THEN d + step
    ELSE d + step * (((after - d) \div step) + 1)

ActiveRows == {i \in Id : presence[i] = "listed" /\ active[i]}

\* scheduled_runs_on: the sum of the day's counters is the number of the runs they count.
\* Deleted rows keep their counter.
Counted(day) == UNION {{i} \X (1..runsToday[i]) : i \in {j \in Id : runsDay[j] = day}}
RunsOn(day) == Cardinality(Counted(day))

DueAt(t) == {i \in ActiveRows : nextAt[i] <= t}

Before(r, s) == r.due < s.due \/ (r.due = s.due /\ r.id <= s.id)
IsHead(p, r) == r \in rows[p] /\ \A s \in rows[p] : Before(r, s)

\* Faulty variant: the cap is one too high.
OverCapLate(p) == used[p] > MaxRunsPerDay
OverCap(p) == used[p] >= MaxRunsPerDay

\* Faulty variants: a late series catches up one occurrence at a time; a
\* one-off stays active.
NextAtOneByOne(r, over, t) ==
    IF r.repeat THEN r.due + Period
    ELSE IF over THEN NextOccurrence(r.due, t, DayLength)
    ELSE r.due
StaysActiveAlways(r, over) == TRUE

\* Where a claim moves the row: a series to its next occurrence, a one-off
\* over the cap to the same time on another day, else it is switched off.
NextAt(r, over, t) ==
    IF r.repeat THEN NextOccurrence(r.due, t, Period)
    ELSE IF over THEN NextOccurrence(r.due, t, DayLength)
    ELSE r.due
StaysActive(r, over) == r.repeat \/ over

----------------------------------------------------------------------------
Init ==
    /\ now = 0
    /\ presence = [i \in Id |-> "absent"]
    /\ active = [i \in Id |-> FALSE]
    /\ nextAt = [i \in Id |-> 0]
    /\ repeat = [i \in Id |-> FALSE]
    /\ runsToday = [i \in Id |-> 0]
    /\ runsDay = [i \in Id |-> None]
    /\ requests = {}
    /\ pc = [p \in Proc |-> "idle"]
    /\ tickNow = [p \in Proc |-> 0]
    /\ rows = [p \in Proc |-> {}]
    /\ used = [p \in Proc |-> 0]
    /\ inflight = [p \in Proc |-> {}]
    /\ queue = [p \in Proc |-> << >>]
    /\ worker = [p \in Proc |-> None]
    /\ log = << >>
    /\ rewound = {}
    /\ faults = 0
    /\ commands = 0

Fault == faults < MaxFaults /\ faults' = faults + 1

Clock == /\ now < MaxTime
         /\ now' = now + 1
         /\ UNCHANGED <<table, requests, tick, inflight, queue, worker, log, rewound,
                        faults, commands>>

----------------------------------------------------------------------------
(* Requests of the user.                                                   *)

Command == /\ commands < MaxCommands
           /\ commands' = commands + 1
           /\ UNCHANGED <<now, tick, inflight, queue, worker, log, faults>>

\* Faulty variant: the cap lets one more in.
BelowCapOffByOne(others) == Cardinality(others) <= MaxActive
BelowCap(others) == Cardinality(others) < MaxActive

\* create_scheduled_task: count and insert are one transaction under the
\* advisory lock.  A past time is refused (validate_new).
CreateTask(i, d, rep) ==
    /\ Command
    /\ d >= now
    /\ presence[i] = "absent"
    /\ \A j \in Id : j < i => presence[j] # "absent"
    /\ BelowCap(ActiveRows)
    /\ presence' = [presence EXCEPT ![i] = "listed"]
    /\ active' = [active EXCEPT ![i] = TRUE]
    /\ nextAt' = [nextAt EXCEPT ![i] = d]
    /\ repeat' = [repeat EXCEPT ![i] = rep]
    /\ UNCHANGED <<runsToday, runsDay, requests, rewound>>

\* A request about a task starts: resume reads the clock before the row.
BeginRequest(p, op, i) ==
    /\ Command
    /\ pc[p] # "down"
    /\ requests' = requests \cup
         {[n |-> commands, proc |-> p, op |-> op, id |-> i, stage |-> "find",
           at |-> IF op = "resume" THEN now ELSE 0, next |-> 0]}
    /\ UNCHANGED <<table, rewound>>

\* resume: an active task needs nothing, a one-off whose time passed cannot be
\* resumed, a series goes on after the time the request read.
ResumeTo(q) == IF nextAt[q.id] <= q.at THEN NextOccurrence(nextAt[q.id], q.at, Period)
               ELSE nextAt[q.id]
Refused(q) ==
    \/ presence[q.id] # "listed"
    \/ q.op = "resume" /\ (active[q.id] \/ (nextAt[q.id] <= q.at /\ ~repeat[q.id]))

FindTask(q) ==
    /\ q \in requests
    /\ q.stage = "find"
    /\ requests' = (requests \ {q}) \cup
         (IF Refused(q) THEN {}
          ELSE {[q EXCEPT !.stage = "write", !.next = IF q.op = "resume" THEN ResumeTo(q) ELSE 0]})
    /\ UNCHANGED <<now, table, tick, inflight, queue, worker, log, rewound, faults, commands>>

CancelRow(i) ==
    /\ presence' = [presence EXCEPT ![i] = "deleted"]
    /\ active' = [active EXCEPT ![i] = FALSE]
    /\ UNCHANGED <<nextAt, rewound>>

\* Faulty variant: the pause writes its missing next_at as NULL.
PauseRowNull(i) ==
    /\ active' = [active EXCEPT ![i] = FALSE]
    /\ nextAt' = [nextAt EXCEPT ![i] = None]
    /\ UNCHANGED <<presence, rewound>>

PauseRow(i) ==
    /\ active' = [active EXCEPT ![i] = FALSE]
    /\ UNCHANGED <<presence, nextAt, rewound>>

\* A run of the row already stood for everything due at d.
Covered(i, d) == \E k \in DOMAIN log : log[k].id = i /\ log[k].at >= d

ResumeRow(i, next) ==
    /\ IF BelowCap(ActiveRows \ {i})
       THEN /\ active' = [active EXCEPT ![i] = TRUE]
            /\ nextAt' = [nextAt EXCEPT ![i] = next]
            /\ rewound' = IF Covered(i, next) THEN rewound \cup {i} ELSE rewound
       ELSE UNCHANGED <<active, nextAt, rewound>>
    /\ UNCHANGED presence

\* The write of a request, decided on the row it read.  Every statement skips
\* a row deleted meanwhile.
WriteTask(q) ==
    /\ q \in requests
    /\ q.stage = "write"
    /\ requests' = requests \ {q}
    /\ \/ /\ presence[q.id] # "listed"
          /\ UNCHANGED <<presence, active, nextAt, rewound>>
       \/ /\ presence[q.id] = "listed"
          /\ \/ q.op = "cancel" /\ CancelRow(q.id)
             \/ q.op = "pause" /\ PauseRow(q.id)
             \/ q.op = "resume" /\ ResumeRow(q.id, q.next)
    /\ UNCHANGED <<now, repeat, runsToday, runsDay, tick, inflight, queue,
                   worker, log, faults, commands>>

----------------------------------------------------------------------------
(* run_due: called by the loop thread of a process, never twice at once.   *)

BeginTick(p) ==
    /\ pc[p] = "idle"
    /\ pc' = [pc EXCEPT ![p] = "count"]
    /\ tickNow' = [tickNow EXCEPT ![p] = now]
    /\ rows' = [rows EXCEPT ![p] = {[id |-> i, due |-> nextAt[i], repeat |-> repeat[i]] : i \in DueAt(now)}]
    /\ UNCHANGED <<now, table, requests, used, inflight, queue, worker, log, rewound,
                   faults, commands>>

\* run_due's loop goes on with what is left of rows, or returns.
Continue(p, left, count) ==
    /\ rows' = [rows EXCEPT ![p] = left]
    /\ pc' = [pc EXCEPT ![p] = IF left = {} THEN "idle" ELSE "claim"]
    /\ tickNow' = [tickNow EXCEPT ![p] = IF left = {} THEN 0 ELSE @]
    /\ used' = [used EXCEPT ![p] = IF left = {} THEN 0 ELSE count]

CountRuns(p) ==
    /\ pc[p] = "count"
    /\ Continue(p, rows[p], RunsOn(Day(tickNow[p])))
    /\ UNCHANGED <<now, table, requests, inflight, queue, worker, log, rewound, faults, commands>>

\* A task still in this process's hands is left for a later tick.
SkipInFlight(p, r) ==
    /\ pc[p] = "claim"
    /\ IsHead(p, r)
    /\ r.id \in inflight[p]
    /\ Continue(p, rows[p] \ {r}, used[p])
    /\ UNCHANGED <<now, table, requests, inflight, queue, worker, log, rewound, faults, commands>>

\* Faulty variant: the update does not compare next_at.
ClaimableAnyTime(r) == active[r.id]
Claimable(r) == active[r.id] /\ nextAt[r.id] = r.due

\* claim_scheduled_task's UPDATE, of a claimable row.
MarkClaimed(p, r) ==
    LET over == OverCap(p)
        day  == Day(tickNow[p])
    IN /\ nextAt' = [nextAt EXCEPT ![r.id] = NextAt(r, over, tickNow[p])]
       /\ active' = [active EXCEPT ![r.id] = StaysActive(r, over)]
       /\ runsToday' = [runsToday EXCEPT ![r.id] =
                          IF over THEN @ ELSE IF runsDay[r.id] = day THEN @ + 1 ELSE 1]
       /\ runsDay' = [runsDay EXCEPT ![r.id] = IF over THEN @ ELSE day]
       /\ UNCHANGED <<presence, repeat>>

\* The claim matched and the run is handed to the executor.
ClaimRun(p, r) ==
    /\ pc[p] = "claim"
    /\ IsHead(p, r)
    /\ r.id \notin inflight[p]
    /\ Claimable(r)
    /\ ~OverCap(p)
    /\ MarkClaimed(p, r)
    /\ inflight' = [inflight EXCEPT ![p] = @ \cup {r.id}]
    /\ queue' = [queue EXCEPT ![p] = Append(@, [id |-> r.id, due |-> r.due, kind |-> "run"])]
    /\ log' = Append(log, [id |-> r.id, due |-> r.due, at |-> tickNow[p], day |-> Day(tickNow[p])])
    /\ Continue(p, rows[p] \ {r}, used[p] + 1)
    /\ UNCHANGED <<now, requests, worker, rewound, faults, commands>>

\* The claim matched over the cap: the row has moved on, nothing runs, and the
\* user is told.
ClaimCapped(p, r) ==
    /\ pc[p] = "claim"
    /\ IsHead(p, r)
    /\ r.id \notin inflight[p]
    /\ Claimable(r)
    /\ OverCap(p)
    /\ MarkClaimed(p, r)
    /\ queue' = [queue EXCEPT ![p] = Append(@, [id |-> r.id, due |-> r.due, kind |-> "notice"])]
    /\ Continue(p, rows[p] \ {r}, used[p])
    /\ UNCHANGED <<now, requests, inflight, worker, log, rewound, faults, commands>>

\* Faulty variant: a claim that did not match leaves its id in _inflight.
ClaimMissesLeaks(p, r) ==
    /\ pc[p] = "claim"
    /\ IsHead(p, r)
    /\ r.id \notin inflight[p]
    /\ \/ ~Claimable(r) /\ UNCHANGED <<table, faults>>
       \/ Fault /\ UNCHANGED table
       \/ Fault /\ Claimable(r) /\ MarkClaimed(p, r)
    /\ inflight' = [inflight EXCEPT ![p] = @ \cup {r.id}]
    /\ Continue(p, rows[p] \ {r}, used[p])
    /\ UNCHANGED <<now, requests, queue, worker, log, rewound, commands>>

\* Nothing was claimed as far as the tick can tell: somebody moved the row, or
\* the call raised (before, or after its transaction had committed).
ClaimMisses(p, r) ==
    /\ pc[p] = "claim"
    /\ IsHead(p, r)
    /\ r.id \notin inflight[p]
    /\ \/ ~Claimable(r) /\ UNCHANGED <<table, faults>>
       \/ Fault /\ UNCHANGED table
       \/ Fault /\ Claimable(r) /\ MarkClaimed(p, r)
    /\ Continue(p, rows[p] \ {r}, used[p])
    /\ UNCHANGED <<now, requests, inflight, queue, worker, log, rewound, commands>>

----------------------------------------------------------------------------
(* The executor's worker.                                                  *)

Take(p) ==
    /\ pc[p] # "down"
    /\ worker[p] = None
    /\ queue[p] # << >>
    /\ worker' = [worker EXCEPT ![p] = Head(queue[p])]
    /\ queue' = [queue EXCEPT ![p] = Tail(@)]
    /\ UNCHANGED <<now, table, requests, tick, inflight, log, rewound, faults, commands>>

\* A job is over.
Leave(p, ids) ==
    /\ worker' = [worker EXCEPT ![p] = None]
    /\ inflight' = [inflight EXCEPT ![p] = @ \ ids]
    /\ UNCHANGED <<now, table, requests, tick, queue, log, rewound, faults, commands>>

Runs(p) == worker[p] # None /\ worker[p].kind = "run"

\* The run answered; the answer was sent, or its send failed, and recorded.
RunAnswers(p) == Runs(p) /\ Leave(p, {worker[p].id})

\* Faulty variant: the error path leaves before the finally clause.
RunFailsLeaks(p) == Runs(p) /\ Leave(p, {})

\* The run raised, answered nothing, or was abandoned after RUN_TIMEOUT_S; the
\* user is told.
RunFails(p) == Runs(p) /\ Leave(p, {worker[p].id})

\* The user is told that the daily cap was reached.
NotifyCap(p) == worker[p] # None /\ worker[p].kind = "notice" /\ Leave(p, {})

----------------------------------------------------------------------------
\* Everything but the table dies with the process.
Crash(p) ==
    /\ pc[p] # "down"
    /\ Fault
    /\ pc' = [pc EXCEPT ![p] = "down"]
    /\ tickNow' = [tickNow EXCEPT ![p] = 0]
    /\ rows' = [rows EXCEPT ![p] = {}]
    /\ used' = [used EXCEPT ![p] = 0]
    /\ inflight' = [inflight EXCEPT ![p] = {}]
    /\ queue' = [queue EXCEPT ![p] = << >>]
    /\ worker' = [worker EXCEPT ![p] = None]
    /\ requests' = {q \in requests : q.proc # p}
    /\ UNCHANGED <<now, table, log, rewound, commands>>

Start(p) ==
    /\ pc[p] = "down"
    /\ pc' = [pc EXCEPT ![p] = "idle"]
    /\ UNCHANGED <<now, table, requests, tickNow, rows, used, inflight, queue, worker, log,
                   rewound, faults, commands>>

----------------------------------------------------------------------------
RunDue(p) ==
    \/ BeginTick(p)
    \/ CountRuns(p)
    \/ \E r \in rows[p] :
         \/ SkipInFlight(p, r)
         \/ ClaimRun(p, r)
         \/ ClaimCapped(p, r)
         \/ ClaimMisses(p, r)

Worker(p) ==
    \/ Take(p)
    \/ RunAnswers(p)
    \/ RunFails(p)
    \/ NotifyCap(p)

User ==
    \/ \E i \in Id, d \in 0..MaxTime, rep \in BOOLEAN : CreateTask(i, d, rep)
    \/ \E p \in Proc, i \in Id, op \in {"cancel", "pause", "resume"} : BeginRequest(p, op, i)
    \/ \E q \in requests : FindTask(q) \/ WriteTask(q)

Next == \/ Clock
        \/ User
        \/ \E p \in Proc : RunDue(p) \/ Worker(p) \/ Crash(p) \/ Start(p)

Spec == Init /\ [][Next]_vars

\* The loop calls run_due every 30 s, the executor's thread works its queue, a
\* dead process is restarted.  Nothing is asked of the user.
FairSpec == /\ Spec
            /\ WF_vars(Clock)
            /\ \A p \in Proc : WF_vars(RunDue(p)) /\ WF_vars(Worker(p)) /\ WF_vars(Start(p))

----------------------------------------------------------------------------
(* Properties.                                                             *)

Alone == \A p, q \in Proc : p = q

\* However creates, resumes, pauses and claims interleave, no more than
\* MAX_ACTIVE tasks are ever active: both ways in count under one lock.
ActiveCap == Cardinality(ActiveRows) <= MaxActive

\* One process starts at most MAX_RUNS_PER_DAY runs in a day, over ticks,
\* restarts, cancelled and recreated tasks, and claims whose answer was lost.
DailyCap ==
    Alone => \A d \in 0..Day(MaxTime) :
               Cardinality({k \in DOMAIN log : log[k].day = d}) <= MaxRunsPerDay

\* An occurrence is run once, in whichever process, unless a resume that had
\* read the row before the claim moved it back.
RunsOnceUnlessRewound ==
    \A j, k \in DOMAIN log :
        log[j].id = log[k].id /\ log[j].due = log[k].due /\ j # k => log[j].id \in rewound

\* A task that was late runs once and goes on: no occurrence older than the
\* run before it is made up for.
NoBacklog ==
    \A j, k \in DOMAIN log :
        log[j].id = log[k].id /\ log[j].id \notin rewound /\ log[j].due < log[k].due
            => log[k].due > log[j].at

\* Both: an occurrence is run once or, missed, not at all.
OccurrencesOnce == RunsOnceUnlessRewound /\ NoBacklog

\* _inflight holds exactly the tasks the executor has, each of them once: none
\* is left behind (the task would never run again in this process), and no
\* task runs beside itself.
HeldRuns(p) ==
    {k \in DOMAIN queue[p] : queue[p][k].kind = "run"}
InflightExact ==
    \A p \in Proc :
        LET working == worker[p] # None /\ worker[p].kind # "notice"
            queued  == {queue[p][k].id : k \in HeldRuns(p)}
        IN /\ inflight[p] = queued \cup (IF working THEN {worker[p].id} ELSE {})
           /\ Cardinality(HeldRuns(p)) = Cardinality(queued)
           /\ working => worker[p].id \notin queued

Owed(i) == i \in ActiveRows /\ nextAt[i] <= now

\* A task that is due is claimed, or the user pauses or cancels it: no failed
\* claim, run, send or crash keeps it from its turn.
EventuallyClaimed == \A i \in Id : Owed(i) ~> ~Owed(i)

\* Docstring of run_due: "a task can never run twice for one occurrence".
NeverRunsTwice ==
    \A j, k \in DOMAIN log :
        log[j].id = log[k].id /\ log[j].due = log[k].due => j = k
=============================================================================
