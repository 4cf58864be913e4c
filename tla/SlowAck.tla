------------------------------- MODULE SlowAck ------------------------------
(***************************************************************************)
(* The "working on it" notice of one turn: SlowAck of                      *)
(* agent/services/slow_ack.py, fed by the tool callbacks of TurnCollector  *)
(* (agent/services/turn_log.py).  The first tool arms a timer, the end of  *)
(* the last running tool cancels it, the end of the turn closes it.        *)
(*                                                                         *)
(* A timer thread that has passed its last look at the cancel flag goes on *)
(* to _fire whatever happens, and waits there for the lock.                *)
(***************************************************************************)
EXTENDS Naturals, Sequences

CONSTANTS
    RunId,       \* tool calls of the turn (run ids)
    MaxTimers    \* bound: timers armed

VARIABLES
    pending,     \* tool calls the model has not made yet
    toolsAt,     \* tool calls running in the graph's threads
    running,     \* _running: run ids; which of them the notice names is left out
    timer,       \* _timer; 0 when None
    acked,       \* _sent
    closed,      \* _closed
    timers,      \* state of each threading.Timer
    turn,        \* "open", "closed": end_turn ran, "answered": the reply left
    chat,        \* what reached the chat, in order
    decided,     \* history: timers that decided to send
    gap,         \* history: timers during whose life no tool was running
    raced        \* history: of these, the ones that had already gone off

vars == <<pending, toolsAt, running, timer, acked, closed, timers, turn, chat,
          decided, gap, raced>>

Timer == 1..MaxTimers
TimerState == {"new", "armed", "off", "sending", "over"}

TypeOK ==
    /\ pending \subseteq RunId /\ toolsAt \subseteq RunId
    /\ running \subseteq RunId
    /\ timer \in 0..MaxTimers
    /\ acked \in BOOLEAN /\ closed \in BOOLEAN
    /\ timers \in [Timer -> TimerState]
    /\ turn \in {"open", "closed", "answered"}
    /\ chat \in Seq({"ack", "answer"})
    /\ decided \cup gap \cup raced \subseteq Timer

Init ==
    /\ pending = RunId /\ toolsAt = {} /\ running = {}
    /\ timer = 0 /\ acked = FALSE /\ closed = FALSE
    /\ timers = [t \in Timer |-> "new"]
    /\ turn = "open" /\ chat = << >>
    /\ decided = {} /\ gap = {} /\ raced = {}

Unused == {t \in Timer : timers[t] = "new"}
Live == {t \in Timer : timers[t] \in {"armed", "off"}}

\* tool_started: nothing once a notice went out or the turn is over; the first
\* tool arms the timer.
ToolStarted(k) ==
    /\ k \in pending /\ turn = "open"
    /\ pending' = pending \ {k} /\ toolsAt' = toolsAt \cup {k}
    /\ IF closed \/ acked
       THEN UNCHANGED <<running, timer, timers>>
       ELSE /\ running' = running \cup {k}
            /\ IF timer = 0
               THEN \E t \in Unused : /\ \A s \in Unused : t <= s
                                      /\ timer' = t
                                      /\ timers' = [timers EXCEPT ![t] = "armed"]
               ELSE UNCHANGED <<timer, timers>>
    /\ UNCHANGED <<acked, closed, turn, chat, decided, gap, raced>>

\* Faulty variant: the timer is dropped and left to run.
Dropped(t) == timers
\* _cancel_locked: a timer that has gone off cannot be called back.
Cancelled(t) == [timers EXCEPT ![t] = IF @ = "armed" THEN "over" ELSE @]

CancelTimer ==
    /\ timer' = 0
    /\ timers' = IF timer = 0 THEN timers ELSE Cancelled(timer)

NoToolLeft ==
    /\ gap' = gap \cup Live
    /\ raced' = raced \cup {t \in Live : timers[t] = "off"}

\* tool_ended: the end of the last running tool cancels the timer.
ToolEnded(k) ==
    /\ k \in toolsAt
    /\ toolsAt' = toolsAt \ {k}
    /\ running' = running \ {k}
    /\ IF running' = {} THEN CancelTimer /\ NoToolLeft
       ELSE UNCHANGED <<timer, timers, gap, raced>>
    /\ UNCHANGED <<pending, acked, closed, turn, chat, decided>>

\* end_turn -> close -> cancel; the graph may have raised with tools running.
EndTurn ==
    /\ turn = "open"
    /\ turn' = "closed" /\ closed' = TRUE /\ running' = {}
    /\ CancelTimer /\ NoToolLeft
    /\ UNCHANGED <<pending, toolsAt, acked, chat, decided>>

\* The reply of the turn, sent by the handler.
Answer ==
    /\ turn = "closed"
    /\ turn' = "answered" /\ chat' = Append(chat, "answer")
    /\ UNCHANGED <<pending, toolsAt, running, timer, acked, closed, timers, decided, gap,
                   raced>>

\* The delay is over.
GoesOff(t) ==
    /\ timers[t] = "armed"
    /\ timers' = [timers EXCEPT ![t] = "off"]
    /\ UNCHANGED <<pending, toolsAt, running, timer, acked, closed, turn, chat, decided,
                   gap, raced>>

\* Faulty variant: asks only whether a tool is running.
DueUnguarded == running # {}
\* Faulty variant: does not ask whether a tool is running.
DueIdle == ~closed /\ ~acked
Due == ~closed /\ ~acked /\ running # {}

\* _fire under the lock.  It clears _timer whichever timer that is: one armed
\* since then stays alive and can no longer be cancelled.
Fire(t) ==
    /\ timers[t] = "off"
    /\ timer' = 0
    /\ IF Due THEN /\ acked' = TRUE
                   /\ timers' = [timers EXCEPT ![t] = "sending"]
                   /\ decided' = decided \cup {t}
              ELSE /\ timers' = [timers EXCEPT ![t] = "over"]
                   /\ UNCHANGED <<acked, decided>>
    /\ UNCHANGED <<pending, toolsAt, running, closed, turn, chat, gap, raced>>

\* _send, outside the lock; it may fail.
Send(t) ==
    /\ timers[t] = "sending"
    /\ timers' = [timers EXCEPT ![t] = "over"]
    /\ chat' \in {chat, Append(chat, "ack")}
    /\ UNCHANGED <<pending, toolsAt, running, timer, acked, closed, turn, decided, gap,
                   raced>>

Next == \/ \E k \in RunId : ToolStarted(k) \/ ToolEnded(k)
        \/ EndTurn \/ Answer
        \/ \E t \in Timer : GoesOff(t) \/ Fire(t) \/ Send(t)

Spec == Init /\ [][Next]_vars

----------------------------------------------------------------------------
\* "At most once per turn", though a stale timer that fires can leave two
\* timers alive at once.
AckOnce == \A s, t \in decided : s = t

\* A timer sends for a tool that ran through its delay; only one that had gone
\* off before the last tool ended can answer for a tool started since.
AckDue == decided \cap gap \subseteq raced

\* A notice after the answer was decided on while the turn was still open.
DueWhenSent == \A t \in Timer : timers[t] = "off" /\ timers'[t] = "sending"
                   => turn = "open" /\ toolsAt # {}
AckRight == [](AckOnce /\ AckDue) /\ [][DueWhenSent]_vars
=============================================================================
