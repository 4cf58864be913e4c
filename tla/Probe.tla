-------------------------------- MODULE Probe -------------------------------
(***************************************************************************)
(* The daily probe of the integrations, agent/services/probe.py, with the  *)
(* warning that a failed tool call sends from inside a turn                *)
(* (notify_oauth): both go through one claim per day and check, the rows   *)
(* of probe_notified.                                                      *)
(***************************************************************************)
EXTENDS Integers

CONSTANTS
    Check,       \* the integrations; Telegram is one of them
    Telegram,    \* the one that cannot warn about itself
    Turn,        \* threads of chat turns
    MaxDay,      \* bound: days
    MaxRuns,     \* bound: runs of the probe
    MaxMisfires  \* bound: failed calls and restarts

VARIABLES
    day,         \* _today()
    at,          \* where the probe's job and the turns are
    slot,        \* the <day, check> each of them works on
    todo,        \* checks the running probe has left
    jobs,        \* runs of the probe so far
    claims,      \* rows of probe_notified
    flagged,     \* <day, check> with probe_log.notified
    misfires,
    warned,      \* history: warnings that reached the user
    unsure,      \* history: slots warned of and released
    dropped      \* history: slots whose owner died, or could not release

notice == <<at, slot, claims, flagged, warned, unsure, dropped>>
vars == <<day, todo, jobs, notice, misfires>>

Job == "job"
Proc == {Job} \cup Turn
Slot == (1..MaxDay) \X Check
NoSlot == <<0, Telegram>>

TypeOK ==
    /\ day \in 1..MaxDay
    /\ at \in [Proc -> {"idle", "look", "claim", "send", "mark", "release"}]
    /\ slot \in [Proc -> Slot \cup {NoSlot}]
    /\ todo \subseteq Check /\ jobs \in 0..MaxRuns
    /\ claims \cup flagged \cup unsure \cup dropped \subseteq Slot
    /\ warned \in [Slot -> Nat]
    /\ misfires \in 0..MaxMisfires

Init ==
    /\ day = 1
    /\ at = [p \in Proc |-> "idle"] /\ slot = [p \in Proc |-> NoSlot]
    /\ todo = {} /\ jobs = 0
    /\ claims = {} /\ flagged = {} /\ misfires = 0
    /\ warned = [s \in Slot |-> 0] /\ unsure = {} /\ dropped = {}

Fault == misfires < MaxMisfires /\ misfires' = misfires + 1
NoFault == UNCHANGED misfires

----------------------------------------------------------------------------
(* The probe.                                                              *)

\* run_in_background("probe"): one run at a time.
StartProbe ==
    /\ at[Job] = "idle" /\ jobs < MaxRuns
    /\ jobs' = jobs + 1
    /\ todo' = Check
    /\ at' = [at EXCEPT ![Job] = "look"]
    /\ UNCHANGED <<day, slot, claims, flagged, warned, unsure, dropped, misfires>>

\* The day of a run is read once, at its start; StartProbe's day is kept here.
Runs(c) == at[Job] = "look" /\ c \in todo

Proceed(p, where) == at' = [at EXCEPT ![p] = where]
\* The probe goes on to the next check, a turn is done.
Done(p) == Proceed(p, IF p = Job /\ todo # {} THEN "look" ELSE "idle")

\* What the checks of calendar, tasks, Gmail, Telegram and WhatsApp say.
CheckResult == BOOLEAN

\* A check, retried once; the rows it leaves are soft-failed, record_source is
\* in SourceStatus.  A failure goes on to _notify.
RunCheck(c, ok) ==
    /\ Runs(c)
    /\ todo' = todo \ {c}
    /\ IF ~ok /\ c # Telegram
       THEN Proceed(Job, "claim") /\ slot' = [slot EXCEPT ![Job] = <<day, c>>]
       ELSE /\ Proceed(Job, IF todo' # {} THEN "look" ELSE "idle")
            /\ UNCHANGED slot
    /\ UNCHANGED <<day, jobs, claims, flagged, warned, unsure, dropped, misfires>>

\* notify_oauth: a tool of a turn found the access expired.
TurnFails(t, c) ==
    /\ at[t] = "idle" /\ c # Telegram
    /\ Proceed(t, "claim")
    /\ slot' = [slot EXCEPT ![t] = <<day, c>>]
    /\ UNCHANGED <<day, todo, jobs, claims, flagged, warned, unsure, dropped, misfires>>

----------------------------------------------------------------------------
(* _notify.                                                                *)

\* Faulty variant: looks at the mark of a warning already sent.
FreeUnmarked(s) == s \notin flagged
Free(s) == s \notin claims

\* claim_probe_notification; one that fails warns nobody.
Claim(p) ==
    /\ at[p] = "claim"
    /\ \/ /\ NoFault
          /\ IF Free(slot[p])
             THEN claims' = claims \cup {slot[p]} /\ Proceed(p, "send")
             ELSE Done(p) /\ UNCHANGED claims
       \/ Fault /\ Done(p) /\ UNCHANGED claims
    /\ UNCHANGED <<day, slot, todo, jobs, flagged, warned, unsure, dropped>>

\* Faulty variant: a send that failed is left at that.
AfterFailureLeft == "idle"
AfterFailure == "release"

\* send_telegram_message: sent, failed, or sent with the answer lost.
Send(p) ==
    /\ at[p] = "send"
    /\ \/ /\ NoFault /\ Proceed(p, "mark")
          /\ warned' = [warned EXCEPT ![slot[p]] = @ + 1] /\ UNCHANGED unsure
       \/ /\ Fault /\ Proceed(p, AfterFailure)
          /\ \/ UNCHANGED <<warned, unsure>>
             \/ /\ warned' = [warned EXCEPT ![slot[p]] = @ + 1]
                /\ unsure' = unsure \cup {slot[p]}
    /\ UNCHANGED <<day, slot, todo, jobs, claims, flagged, dropped>>

\* mark_probe_notified; when it raises the claim is given back although the
\* warning is out.
Mark(p) ==
    /\ at[p] = "mark"
    /\ \/ NoFault /\ flagged' = flagged \cup {slot[p]} /\ Done(p) /\ UNCHANGED unsure
       \/ /\ Fault /\ Proceed(p, AfterFailure) /\ UNCHANGED flagged
          /\ unsure' = unsure \cup {slot[p]}
    /\ UNCHANGED <<day, slot, todo, jobs, claims, warned, dropped>>

\* release_probe_notification
Release(p) ==
    /\ at[p] = "release"
    /\ \/ NoFault /\ claims' = claims \ {slot[p]} /\ UNCHANGED dropped
       \/ Fault /\ dropped' = dropped \cup {slot[p]} /\ UNCHANGED claims
    /\ Done(p)
    /\ UNCHANGED <<day, slot, todo, jobs, flagged, warned, unsure>>

Owned == {slot[p] : p \in {q \in Proc : at[q] \in {"send", "mark", "release"}}}

\* The process dies; the rows stay.
Restart ==
    /\ Fault
    /\ at' = [p \in Proc |-> "idle"] /\ todo' = {}
    /\ slot' = [p \in Proc |-> NoSlot]
    /\ dropped' = dropped \cup Owned
    /\ UNCHANGED <<day, jobs, claims, flagged, warned, unsure>>

\* Midnight; a probe in progress keeps the day it started with, so the model
\* lets the day change between runs.
NextDay ==
    /\ day < MaxDay /\ at[Job] = "idle"
    /\ day' = day + 1
    /\ UNCHANGED <<todo, jobs, notice, misfires>>

Next == \/ StartProbe \/ Restart \/ NextDay
        \/ \E c \in Check, ok \in CheckResult : RunCheck(c, ok)
        \/ \E t \in Turn, c \in Check : TurnFails(t, c)
        \/ \E p \in Proc : Claim(p) \/ Send(p) \/ Mark(p) \/ Release(p)

Spec == Init /\ [][Next]_vars

----------------------------------------------------------------------------
\* "One warning per integration per day": a second one needs a first that went
\* out and could not be written down.
WarnedOnce == \A s \in Slot : warned[s] <= 1 \/ s \in unsure

\* A claimed slot nobody works on was warned of; the exception is an owner that
\* died or could not give the claim back, which keeps the day silent.
ClaimMeansWarned == \A s \in claims \ Owned : warned[s] > 0 \/ s \in dropped

\* Every warning goes out once.
WarningsExact == WarnedOnce /\ ClaimMeansWarned
=============================================================================
