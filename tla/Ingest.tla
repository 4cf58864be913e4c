------------------------------- MODULE Ingest -------------------------------
(***************************************************************************)
(* The WhatsApp webhook: main.evolution_webhook runs in one thread of the  *)
(* pool for each request, routes the messages of the payload (control chat,*)
(* voice notes, the rest), claims and filters them against the file of     *)
(* seen ids, records the timeline and queues the commitments it extracts.  *)
(* services/evolution_filter.py, evolution_parser.py, whatsapp_control.py, *)
(* message_timeline.py and the queueing half of the handler.               *)
(***************************************************************************)
EXTENDS Integers, SequencesExt, Ordering

CONSTANTS Hooks,       \* requests being handled
          Batches,     \* the payloads Evolution may post, each any number of times
          Messages,    \* id -> [chat, ts, fromMe, echo, kind, commits]
          MaxAge,      \* EVI_WHATSAPP_MAX_AGE_HOURS
          MaxPer,      \* EVI_WHATSAPP_MAX_PER_WEBHOOK
          MaxSeen,     \* _MAX_SEEN_IDS
          MaxTime, MaxPosts, MaxFaults

Ids == DOMAIN Messages

VARIABLES
  now,
  seen,      \* evolution_seen_ids.json: ids, oldest first
  hook,      \* request -> where it is and what it holds
  activity,  \* ids that track_conversation has counted
  executed,  \* id -> times its command was run
  timeline,  \* ids in the timeline of their contact
  queued,    \* ids with a row in pending_commitments
  taken,     \* ids that some filter kept
  lost,      \* kept ids whose request died or gave up before they were done with
  forgotten, \* id -> times the file lost it, or it was claimed from a stale copy
  posts, faults

vars == <<now, seen, hook, activity, executed, timeline, queued, taken, lost, forgotten, posts, faults>>

Idle == [pc |-> "idle", batch |-> <<>>, todo |-> <<>>, file |-> <<>>]

-----------------------------------------------------------------------------
\* The file of seen ids.

\* SeenIds.update: an id that comes again becomes the newest.
Update(s, ids) ==
  LET all == s \o ids
  IN  Pick(all, {k \in DOMAIN all : \A l \in DOMAIN all : l > k => all[l] # all[k]})

\* Faulty variant: the oldest ids are kept.
Oldest(s) == IF Len(s) > MaxSeen THEN SubSeq(s, 1, MaxSeen) ELSE s

\* SeenIds.newest, written by _save_seen_ids.
Newest(s) == IF Len(s) > MaxSeen THEN SubSeq(s, Len(s) - MaxSeen + 1, Len(s)) ELSE s

\* _load_seen_ids: the file is rewritten in place, so a load that meets another thread's
\* write can find half of it, which does not parse and reads as an empty set.
Copies(h) == {seen} \cup
  (IF \E x \in Hooks \ {h} : hook[x].pc \in {"claim", "filtered"} THEN {<<>>} ELSE {})

\* What a write does to the ids that another thread had put in the file.
Save(s) ==
  /\ seen' = Newest(s)
  /\ forgotten' = [i \in Ids |-> forgotten[i] +
       (IF i \in ToSet(seen) /\ i \notin ToSet(Newest(s)) THEN 1 ELSE 0)]

-----------------------------------------------------------------------------
\* What the payload holds.

Those(s, Wanted(_)) == Pick(s, {k \in DOMAIN s : Wanted(s[k])})

\* Faulty variant: EVI answers its own echo.
IsCommandOrEcho(i) == /\ Messages[i].chat \in {"control", "controlGroup"}
                      /\ Messages[i].chat = "controlGroup" => Messages[i].fromMe

\* The messages of the control chats that may command the agent: all but EVI's own
\* echo, and in a control group only the owner's.
IsCommand(i) == /\ Messages[i].chat \in {"control", "controlGroup"}
                /\ Messages[i].chat = "controlGroup" => Messages[i].fromMe
                /\ ~Messages[i].echo

\* The others, voice notes apart: what is offered to the filter.
IsIngested(i) == Messages[i].chat \in {"contact", "group"} /\ Messages[i].kind = "text"

\* filter_for_processing: recent, new, incoming, of a person's chat.
Passes(i, file) ==
  /\ ~Messages[i].echo /\ ~Messages[i].fromMe
  /\ Messages[i].chat # "group"
  /\ Messages[i].ts >= now - MaxAge
  /\ i \notin ToSet(file)

\* Faulty variant: the first in the payload's order.
KeepFirst(s) == SubSeq(s, 1, IF Len(s) < MaxPer THEN Len(s) ELSE MaxPer)

\* The newest first, at most MaxPer of them.
NewestFirst(s) == StableSort(s, LAMBDA a, b : Messages[a].ts > Messages[b].ts)
Keep(s) == SubSeq(NewestFirst(s), 1, IF Len(s) < MaxPer THEN Len(s) ELSE MaxPer)

-----------------------------------------------------------------------------
Init ==
  /\ now = 0 /\ seen = <<>>
  /\ hook = [h \in Hooks |-> Idle]
  /\ activity = {} /\ executed = [i \in Ids |-> 0]
  /\ timeline = {} /\ queued = {}
  /\ taken = {} /\ lost = {} /\ forgotten = [i \in Ids |-> 0]
  /\ posts = 0 /\ faults = 0

stores == <<activity, executed, timeline, queued, taken, lost>>

\* parse_evolution_webhook and the routing loop.
Post(h, b) ==
  /\ hook[h].pc = "idle" /\ posts < MaxPosts
  /\ posts' = posts + 1
  /\ hook' = [hook EXCEPT ![h] = [Idle EXCEPT !.pc = "control", !.batch = b, !.todo = Those(b, IsCommand)]]
  /\ UNCHANGED <<now, seen, stores, forgotten, faults>>

\* claim_message_id reads the file; a duplicate is skipped.
ClaimLoad(h) ==
  /\ hook[h].pc = "control" /\ hook[h].todo # <<>>
  /\ \E file \in Copies(h) :
       hook' = IF Head(hook[h].todo) \in ToSet(file)
               THEN [hook EXCEPT ![h].todo = Tail(@)]
               ELSE [hook EXCEPT ![h].pc = "claim", ![h].file = file]
  /\ UNCHANGED <<now, seen, stores, forgotten, posts, faults>>

\* Faulty variant: the id is not added to the file.
ClaimSaveNothing(h) ==
  /\ hook[h].pc = "claim"
  /\ hook' = [hook EXCEPT ![h].pc = "execute", ![h].file = <<>>]
  /\ UNCHANGED <<now, seen, stores, forgotten, posts, faults>>

\* .. and writes it back with the id, whatever it holds by now.
ClaimSave(h) ==
  LET i == Head(hook[h].todo) IN
  /\ hook[h].pc = "claim"
  /\ seen' = Newest(Update(hook[h].file, <<i>>))
  /\ forgotten' = [j \in Ids |-> forgotten[j] +
       (IF j \in ToSet(seen) /\ (j = i \/ j \notin ToSet(seen')) THEN 1 ELSE 0)]
  /\ hook' = [hook EXCEPT ![h].pc = "execute", ![h].file = <<>>]
  /\ UNCHANGED <<now, stores, posts, faults>>

\* process_whatsapp_control_message: voice, commands, direct handlers, then the model.
\* It never raises on their account and ends with one reply.
Execute(h) ==
  /\ hook[h].pc = "execute"
  /\ executed' = [executed EXCEPT ![Head(hook[h].todo)] = @ + 1]
  /\ hook' = [hook EXCEPT ![h].pc = "control", ![h].todo = Tail(@)]
  /\ UNCHANGED <<now, seen, activity, timeline, queued, taken, lost, forgotten, posts, faults>>

\* track_conversation and capture_promises see every message of other chats, before
\* any filter; a failure there is logged and the request goes on.
Track(h) ==
  /\ hook[h].pc = "control" /\ hook[h].todo = <<>>
  /\ \/ activity' = activity \cup {i \in ToSet(hook[h].batch) : Messages[i].chat \in {"contact", "group"}} /\ UNCHANGED faults
     \/ faults < MaxFaults /\ faults' = faults + 1 /\ UNCHANGED activity
  /\ hook' = [hook EXCEPT ![h].pc = "filter"]
  /\ UNCHANGED <<now, seen, executed, timeline, queued, taken, lost, forgotten, posts>>

\* filter_for_processing reads the file and chooses.  Nothing offered: it stops there.
FilterLoad(h) ==
  /\ hook[h].pc = "filter"
  /\ LET offered == Those(hook[h].batch, IsIngested) IN
     \E file \in Copies(h) :
       hook' = [hook EXCEPT ![h] =
                  IF offered = <<>> THEN Idle
                  ELSE [@ EXCEPT !.pc = "filtered", !.file = file,
                                 !.todo = Keep(Those(offered, LAMBDA i : Passes(i, file)))]]
  /\ UNCHANGED <<now, seen, stores, forgotten, posts, faults>>

\* Faulty variant: everything offered is marked as seen, kept or not.
FilterSaveAll(h) ==
  /\ hook[h].pc = "filtered"
  /\ Save(Update(hook[h].file, Those(hook[h].batch, IsIngested)))
  /\ taken' = taken \cup ToSet(hook[h].todo)
  /\ hook' = [hook EXCEPT ![h] = IF @.todo = <<>> THEN Idle ELSE [@ EXCEPT !.pc = "process", !.file = <<>>]]
  /\ UNCHANGED <<now, activity, executed, timeline, queued, lost, posts, faults>>

\* .. marks what it kept as seen, before anything is done with it.
FilterSave(h) ==
  /\ hook[h].pc = "filtered"
  /\ Save(Update(hook[h].file, hook[h].todo))
  /\ taken' = taken \cup ToSet(hook[h].todo)
  /\ hook' = [hook EXCEPT ![h] = IF @.todo = <<>> THEN Idle ELSE [@ EXCEPT !.pc = "process", !.file = <<>>]]
  /\ UNCHANGED <<now, activity, executed, timeline, queued, lost, posts, faults>>

\* Faulty variant: extraction stops at the first commitment.
ProcessFirst(h) ==
  /\ hook[h].pc = "process"
  /\ timeline' = timeline \cup ToSet(hook[h].todo)
  /\ LET found == Those(hook[h].todo, LAMBDA i : Messages[i].commits) IN
     hook' = [hook EXCEPT ![h].pc = "queue", ![h].todo = IF found = <<>> THEN found ELSE <<Head(found)>>]
  /\ UNCHANGED <<now, seen, activity, executed, queued, taken, lost, forgotten, posts, faults>>

\* process_messages: the timeline (once for each source id) and the extraction; of
\* messages with one id, the first commitment.
Process(h) ==
  /\ hook[h].pc = "process"
  /\ timeline' = timeline \cup ToSet(hook[h].todo)
  /\ hook' = [hook EXCEPT ![h].pc = "queue", ![h].todo = Those(@, LAMBDA i : Messages[i].commits)]
  /\ UNCHANGED <<now, seen, activity, executed, queued, taken, lost, forgotten, posts, faults>>

\* insert_pending_commitment, ON CONFLICT DO NOTHING, one at a time.
Queue(h) ==
  /\ hook[h].pc = "queue" /\ hook[h].todo # <<>>
  /\ queued' = queued \cup {Head(hook[h].todo)}
  /\ hook' = [hook EXCEPT ![h].todo = Tail(@)]
  /\ UNCHANGED <<now, seen, activity, executed, timeline, taken, lost, forgotten, posts, faults>>

\* An insert raises: the rest of the batch is given up with it.
QueueFails(h) ==
  /\ hook[h].pc = "queue" /\ hook[h].todo # <<>> /\ faults < MaxFaults
  /\ faults' = faults + 1
  /\ lost' = lost \cup ToSet(hook[h].todo)
  /\ hook' = [hook EXCEPT ![h] = Idle]
  /\ UNCHANGED <<now, seen, activity, executed, timeline, queued, taken, forgotten, posts>>

Answer(h) ==
  /\ hook[h].pc = "queue" /\ hook[h].todo = <<>>
  /\ hook' = [hook EXCEPT ![h] = Idle]
  /\ UNCHANGED <<now, seen, stores, forgotten, posts, faults>>

\* The agent stops in the middle of its requests.
Restart ==
  /\ faults < MaxFaults
  /\ faults' = faults + 1
  /\ lost' = lost \cup UNION {ToSet(hook[h].todo) : h \in {x \in Hooks : hook[x].pc \in {"process", "queue"}}}
  /\ hook' = [h \in Hooks |-> Idle]
  /\ UNCHANGED <<now, seen, activity, executed, timeline, queued, taken, forgotten, posts>>

Tick ==
  /\ now < MaxTime
  /\ now' = now + 1
  /\ UNCHANGED <<seen, hook, stores, forgotten, posts, faults>>

HookStep(h) ==
  \/ \E b \in Batches : Post(h, b)
  \/ ClaimLoad(h) \/ ClaimSave(h) \/ Execute(h) \/ Track(h)
  \/ FilterLoad(h) \/ FilterSave(h) \/ Process(h) \/ Queue(h) \/ QueueFails(h) \/ Answer(h)

Next == Restart \/ Tick \/ \E h \in Hooks : HookStep(h)

Spec == Init /\ [][Next]_vars

-----------------------------------------------------------------------------
\* Properties.

\* Types; the file never holds an id twice nor more ids than it may.
TypeOK ==
  /\ now \in 0..MaxTime /\ posts \in 0..MaxPosts /\ faults \in 0..MaxFaults
  /\ seen \in Seq(Ids) /\ Len(seen) <= MaxSeen /\ IsInjective(seen)
  /\ hook \in [Hooks -> [pc : {"idle", "control", "claim", "execute", "filter", "filtered",
                               "process", "queue"},
                         batch : Seq(Ids), todo : Seq(Ids), file : Seq(Ids)]]
  /\ activity \cup timeline \cup queued \cup taken \cup lost \subseteq Ids
  /\ executed \in [Ids -> Nat] /\ forgotten \in [Ids -> Nat]

\* A command is run once however often it is posted; a repetition needs the file to
\* have lost the id (pushed out, or overwritten from a stale copy) or another thread
\* to have claimed it from a copy read before.
CommandOnce == \A i \in Ids : executed[i] <= 1 + forgotten[i]

\* Nothing EVI wrote itself, and nothing another member of the control group wrote, is
\* ever obeyed; no message of a control chat is recorded as a contact's.
OnlyTheOwner ==
  /\ \A i \in Ids : executed[i] > 0 =>
       /\ ~Messages[i].echo
       /\ Messages[i].chat = "control" \/ (Messages[i].chat = "controlGroup" /\ Messages[i].fromMe)
  /\ \A i \in timeline \cup queued \cup activity : Messages[i].chat \in {"contact", "group"}
  /\ \A i \in timeline \cup queued : ~Messages[i].echo /\ ~Messages[i].fromMe

\* What is kept is finished: once no request runs, each message that was ever marked as
\* seen is in the timeline and its commitment queued, or a fault took it away.  (The
\* mark is not undone, so no redelivery brings such a message back.)
KeptIsFinished ==
  (\A h \in Hooks : hook[h].pc = "idle") =>
    \A i \in taken \ lost : i \in timeline /\ (Messages[i].commits => i \in queued)

\* A message set aside because the webhook was full is not marked as seen: only what a
\* filter kept or a command that was claimed stands in the file.
SeenWasTaken == \A i \in ToSet(seen) : i \in taken \/ IsCommand(i)

\* A full webhook gives up its oldest messages, never a newer one for an older one.
NewestKept ==
  \A h \in Hooks : hook[h].pc = "filtered" =>
    \A i \in ToSet(hook[h].todo), j \in ToSet(hook[h].batch) \ ToSet(hook[h].todo) :
      IsIngested(j) /\ Passes(j, hook[h].file) => Messages[i].ts >= Messages[j].ts

\* Of the messages posted, each is obeyed, kept or set aside as its author and the file
\* of seen ids demand.
IngestRight == CommandOnce /\ OnlyTheOwner /\ KeptIsFinished /\ SeenWasTaken /\ NewestKept
=============================================================================
