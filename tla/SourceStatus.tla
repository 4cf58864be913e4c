----------------------------- MODULE SourceStatus ---------------------------
(***************************************************************************)
(* The state of the sources EVI reads from (table source_status of         *)
(* agent/db.py): written by the probe (services/probe.py), by GET /health  *)
(* (services/health.py, WhatsApp only) and by the briefing, which then     *)
(* reads it back for its banner (services/briefing.py).  Each of them      *)
(* looks first and records later.                                          *)
(***************************************************************************)
EXTENDS Integers, Sequences, FiniteSets, FiniteSetsExt

CONSTANTS
    Source,      \* the sources, sections of the briefing among them
    WhatsApp,    \* the one whose stored data outlive its connection
    MaxRecords   \* bound: records of one source

VARIABLES
    status,      \* source_status: ok, the reason, the record that began it
    sights,        \* results of the probe and of /health not yet recorded
    brief,       \* the briefing: "idle", "record", "list", "told"
    failed,      \* its sections that failed
    left,        \* sections it has not recorded yet
    connection,  \* WhatsApp's connection_state as it saw it
    banner,      \* sources its banner names
    covered,     \* failed sections that leave the word to the banner
    records      \* history: what was recorded of each source, in order

vars == <<status, sights, brief, failed, left, connection, banner, covered, records>>

Reason == {"none", "oauth", "error", "disconnected"}

TypeOK ==
    /\ status \in [Source -> [ok : BOOLEAN, reason : Reason, since : Nat]]
    /\ sights \in [Source -> {"nothing", "up", "down"}]
    /\ brief \in {"idle", "record", "list", "told"}
    /\ failed \cup left \cup banner \cup covered \subseteq Source
    /\ connection \in {"open", "close", "unknown"}

Init ==
    /\ status = [s \in Source |-> [ok |-> TRUE, reason |-> "none", since |-> 0]]
    /\ sights = [s \in Source |-> "nothing"]
    /\ brief = "idle" /\ failed = {} /\ left = {} /\ connection = "unknown"
    /\ banner = {} /\ covered = {}
    /\ records = [s \in Source |-> << >>]

\* Faulty variant: every failure begins the outage anew.
SinceNow(s) == Len(records[s]) + 1
\* down_since of the upsert: kept as long as the source stays down.
Since(s) == IF status[s].ok THEN Len(records[s]) + 1 ELSE status[s].since

\* record_source
Recorded(s, ok, why) ==
    /\ Len(records[s]) < MaxRecords
    /\ status' = [status EXCEPT ![s] =
                    IF ok THEN [ok |-> TRUE, reason |-> "none", since |-> 0]
                    ELSE [ok |-> FALSE, reason |-> why, since |-> Since(s)]]
    /\ records' = [records EXCEPT ![s] = Append(@, ok)]

\* The probe looks at a source, /health at WhatsApp's connection.
Look(s, r) ==
    /\ sights[s] = "nothing"
    /\ sights' = [sights EXCEPT ![s] = r]
    /\ UNCHANGED <<status, brief, failed, left, connection, banner, covered, records>>

\* What it saw is recorded after others may have recorded something newer.
RecordLook(s) ==
    /\ sights[s] # "nothing"
    /\ \E why \in {"oauth", "disconnected"} :
         /\ (why = "disconnected") = (s = WhatsApp)
         /\ Recorded(s, sights[s] = "up", why)
    /\ sights' = [sights EXCEPT ![s] = "nothing"]
    /\ UNCHANGED <<brief, failed, left, connection, banner, covered>>

\* The record failed and was logged.
LoseLook(s) ==
    /\ sights[s] # "nothing"
    /\ sights' = [sights EXCEPT ![s] = "nothing"]
    /\ UNCHANGED <<status, brief, failed, left, connection, banner, covered, records>>

\* The sections of the briefing were collected.
Collect(f, w) ==
    /\ brief \in {"idle", "told"}
    /\ brief' = "record" /\ failed' = f /\ left' = Source /\ connection' = w
    /\ banner' = {} /\ covered' = {}
    /\ UNCHANGED <<status, sights, records>>

\* _record_sources: a section's own result; of WhatsApp the connection, when it
\* is known, and an error of its section otherwise.
RecordSection(s) ==
    /\ brief = "record" /\ s \in left
    /\ left' = left \ {s}
    /\ \/ s # WhatsApp /\ Recorded(s, s \notin failed, "error")
       \/ s = WhatsApp /\ connection # "unknown" /\ Recorded(s, connection = "open", "disconnected")
       \/ s = WhatsApp /\ connection = "unknown" /\ s \in failed /\ Recorded(s, FALSE, "error")
       \/ /\ s = WhatsApp /\ connection = "unknown" /\ s \notin failed
          /\ UNCHANGED <<status, records>>
    /\ brief' = IF left' = {} THEN "list" ELSE "record"
    /\ UNCHANGED <<sights, failed, connection, banner, covered>>

\* An exception leaves the briefing without a banner.
NoBanner ==
    /\ brief \in {"record", "list"}
    /\ brief' = "told" /\ left' = {} /\ banner' = {} /\ covered' = {}
    /\ UNCHANGED <<status, sights, failed, connection, records>>

Down == {s \in Source : ~status[s].ok}

\* Faulty variant: every failed section leaves the word to the banner.
CoveredBy(down) == failed
Covered(down) == failed \cap down

\* list_sources_down, the banner and the sections it covers: one reading.
ListDown ==
    /\ brief = "list"
    /\ brief' = "told"
    /\ banner' = Down /\ covered' = Covered(Down)
    /\ UNCHANGED <<status, sights, failed, left, connection, records>>

Next == \/ \E s \in Source : \/ \E r \in {"up", "down"} : Look(s, r)
                             \/ RecordLook(s) \/ LoseLook(s) \/ RecordSection(s)
        \/ \E f \in SUBSET Source, w \in {"open", "close", "unknown"} : Collect(f, w)
        \/ NoBanner \/ ListDown

Spec == Init /\ [][Next]_vars

----------------------------------------------------------------------------
\* The banner's "since" is the first failure after the last success that
\* anybody recorded: the outage neither restarts nor outlives a recovery.
SinceIsFirst ==
    \A s \in Source : ~status[s].ok =>
        LET oks == {j \in DOMAIN records[s] : records[s][j]}
        IN status[s].since = 1 + (IF oks = {} THEN 0 ELSE Max(oks))

\* A failed section is never silent: where it leaves the word to the banner the
\* banner names its source, also when a newer record took it off the list.
NoSilentSection == brief = "told" => covered \subseteq banner

\* The user is told of every outage, with its true beginning.
OutagesTold == SinceIsFirst /\ NoSilentSection
=============================================================================
