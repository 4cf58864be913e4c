------------------------------ MODULE SpendCap ------------------------------
(***************************************************************************)
(* The daily limit on paid model calls (services/llm_structured.py): what  *)
(* background judges and learners ask a model goes through run_structured, *)
(* which adds up the cost each answer reports, in a table shared by all    *)
(* processes (llm_task_usage) or, when that write fails, in the memory of  *)
(* the process, and turns callers away for the rest of the day.            *)
(*                                                                         *)
(* Left out: tasks and models, which only name the rows and the requests;  *)
(* whether an answer is valid is arbitrary.  Costs are whole units.        *)
(***************************************************************************)
EXTENDS Integers, FiniteSets

CONSTANTS
    Caller,     \* threads that call run_structured
    Proc,       \* processes
    Homes,      \* which process each thread may belong to: a set of functions
    None,
    Cap,        \* EVI_LLM_TASK_DAILY_USD, positive
    MaxCost,    \* the most one call costs
    MaxDay, MaxCalls, MaxFaults   \* bounds: days, posts, lost answers and crashes

VARIABLES
    day,
    home,       \* the process of a thread
    useDb,      \* DATABASE_URL is set
    table,      \* llm_task_usage, per day
    mem,        \* _mem_usage of a process, per day
    call,       \* a thread's place in _run_structured
    charged,    \* history: what the provider charged, by the day of the request
    unknown,    \* history: costs of which no counter knows, or none any more
    twice,      \* history: costs in both counters
    posts, faults

history == <<charged, unknown, twice>>
vars == <<day, home, useDb, table, mem, call, charged, unknown, twice, posts, faults>>

Days == 1..MaxDay
Costs == 0..MaxCost
Idle == [pc |-> "idle", via |-> None, next |-> None, on |-> 0, seen |-> 0, cost |-> 0]
Fault == faults < MaxFaults /\ faults' = faults + 1

\* The sum of f over S: as many pairs as units.
Total(S, f) == Cardinality(UNION {{x} \X (1..f[x]) : x \in S})
CostOf == [c \in Caller |-> call[c].cost]

Init ==
    /\ day = 1 /\ home \in Homes /\ useDb \in BOOLEAN
    /\ table = [d \in Days |-> 0] /\ mem = [p \in Proc |-> [d \in Days |-> 0]]
    /\ call = [c \in Caller |-> Idle]
    /\ charged = [d \in Days |-> 0] /\ unknown = [d \in Days |-> 0] /\ twice = 0
    /\ posts = 0 /\ faults = 0

Midnight ==
    /\ day < MaxDay
    /\ day' = day + 1
    /\ UNCHANGED <<home, useDb, table, mem, call, history, posts, faults>>

----------------------------------------------------------------------------
(* One call.  `via' is the provider of this attempt, `next' the one the    *)
(* task falls back to, if it has one.                                      *)

Begin(c, via, next) ==
    /\ call[c].pc = "idle" /\ posts < MaxCalls /\ via # next
    /\ call' = [call EXCEPT ![c] = [Idle EXCEPT !.pc = "try", !.via = via, !.next = next]]
    /\ UNCHANGED <<day, home, useDb, table, mem, history, posts, faults>>

\* The attempt ends without an answer; the other provider, once, is next.
NoAnswer(c) ==
    [call EXCEPT ![c] = IF @.next # None THEN [Idle EXCEPT !.pc = "try", !.via = call[c].next] ELSE Idle]
Answered(c) == [call EXCEPT ![c] = Idle]

\* A provider that is not counted answers, or does not.
TryFree(c) ==
    /\ call[c].pc = "try" /\ call[c].via = "free"
    /\ call' \in {Answered(c), NoAnswer(c)}
    /\ UNCHANGED <<day, home, useDb, table, mem, history, posts, faults>>

\* _spent_today reads the date and its own memory, then the table.
ReadMemory(c) ==
    /\ call[c].pc = "try" /\ call[c].via = "paid"
    /\ call' = [call EXCEPT ![c].pc = "read", ![c].on = day, ![c].seen = mem[home[c]][day]]
    /\ UNCHANGED <<day, home, useDb, table, mem, history, posts, faults>>

\* Faulty variant: what is only in memory is forgotten.
SpentByTable(c) == IF useDb THEN table[call[c].on] ELSE call[c].seen

SpentToday(c) == (IF useDb THEN table[call[c].on] ELSE 0) + call[c].seen

\* At the limit, or if the table cannot be read, the caller gets nothing, nor does the
\* other provider.
CheckCap(c) ==
    /\ call[c].pc = "read"
    /\ \/ SpentToday(c) < Cap /\ call' = [call EXCEPT ![c].pc = "post"]
       \/ SpentToday(c) >= Cap /\ call' = Answered(c)
       \/ useDb /\ call' = Answered(c)
    /\ UNCHANGED <<day, home, useDb, table, mem, history, posts, faults>>

\* The request.  The provider charges k and says so; or says nothing one can read, and 0
\* is recorded; or its answer is lost, or is no object: nothing is; or it refuses.
Post(c, k) ==
    /\ call[c].pc = "post" /\ posts < MaxCalls
    /\ posts' = posts + 1
    /\ charged' = [charged EXCEPT ![day] = @ + k]
    /\ \/ /\ call' = [call EXCEPT ![c].pc = "record", ![c].cost = k]
          /\ UNCHANGED <<unknown, faults>>
       \/ /\ Fault
          /\ call' = [call EXCEPT ![c].pc = "record", ![c].cost = 0]
          /\ unknown' = [unknown EXCEPT ![day] = @ + k]
       \/ /\ Fault
          /\ call' = NoAnswer(c)
          /\ unknown' = [unknown EXCEPT ![day] = @ + k]
    /\ UNCHANGED <<day, home, useDb, table, mem, twice>>

Refused(c) ==
    /\ call[c].pc = "post"
    /\ call' = NoAnswer(c)
    /\ UNCHANGED <<day, home, useDb, table, mem, history, posts, faults>>

InMemory(c) == mem' = [mem EXCEPT ![home[c]][day] = mem[home[c]][day] + call[c].cost]

\* Faulty variant: memory counts what the table counts already.
RecordBoth(c) ==
    /\ table' = IF useDb THEN [table EXCEPT ![day] = @ + call[c].cost] ELSE table
    /\ InMemory(c)
    /\ twice' = twice

\* _record_usage, on the day it is by then: the table; the memory if the write fails; both
\* if only its confirmation is lost.
InTable(c) == table' = [table EXCEPT ![day] = @ + call[c].cost]
RecordUsage(c) ==
    \/ useDb /\ InTable(c) /\ UNCHANGED <<mem, twice>>
    \/ InMemory(c) /\ UNCHANGED <<table, twice>>
    \/ useDb /\ InTable(c) /\ InMemory(c) /\ twice' = twice + call[c].cost

Record(c) ==
    /\ call[c].pc = "record"
    /\ RecordUsage(c)
    /\ call' \in {Answered(c), NoAnswer(c)}   \* the answer fits the schema, or not
    /\ UNCHANGED <<day, home, useDb, charged, unknown, posts, faults>>

\* A process dies, and with it its memory and its calls.
Lost(p, d) ==
    mem[p][d] + (IF d = day THEN Total({c \in Caller : home[c] = p}, CostOf) ELSE 0)
Crash(p) ==
    /\ Fault
    /\ unknown' = [d \in Days |-> unknown[d] + Lost(p, d)]
    /\ mem' = [mem EXCEPT ![p] = [d \in Days |-> 0]]
    /\ call' = [c \in Caller |-> IF home[c] = p THEN Idle ELSE call[c]]
    /\ UNCHANGED <<day, home, useDb, table, charged, twice, posts>>

Next ==
    \/ Midnight
    \/ \E c \in Caller :
         \/ \E via \in {"paid", "free"}, next \in {"paid", "free", None} : Begin(c, via, next)
         \/ TryFree(c) \/ ReadMemory(c) \/ CheckCap(c) \/ Refused(c) \/ Record(c)
         \/ \E k \in Costs : Post(c, k)
    \/ \E p \in Proc : Crash(p)

Spec == Init /\ [][Next]_vars

----------------------------------------------------------------------------
TypeOK ==
    /\ day \in Days /\ home \in Homes /\ useDb \in BOOLEAN
    /\ table \in [Days -> Nat] /\ mem \in [Proc -> [Days -> Nat]]
    /\ \A c \in Caller :
         /\ call[c].pc \in {"idle", "try", "read", "post", "record"}
         /\ call[c].via \in {"paid", "free", None} /\ call[c].next \in {"paid", "free", None}

\* "Concurrent calls can overshoot the daily cap by up to N x one call's cost": whatever
\* overlaps, and over midnight, a day costs less than the limit and one call of each
\* thread, and only costs that no counter was told of come on top; those kept in the
\* memory of one process count as told if there is no other.
Alone == \A c, e \in Caller : home[c] = home[e]
InMemories(d) == Total(Proc, [p \in Proc |-> mem[p][d]])
Untold(d) == unknown[d] + (IF Alone THEN 0 ELSE InMemories(d))
BudgetKept ==
    \A d \in Days : charged[d] < Cap + Cardinality(Caller) * MaxCost + Untold(d)

\* Nobody is turned away for money that was not spent: the counters hold what was charged,
\* once, and less only what was lost.
Accounted ==
    Total(Days, table) + Total(Days, [d \in Days |-> InMemories(d)]) + Total(Caller, CostOf)
    = Total(Days, charged) - Total(Days, unknown) + twice

SpendRight == BudgetKept /\ Accounted
=============================================================================
