------------------------------ MODULE Telegram ------------------------------
(***************************************************************************)
(* The Telegram chat: the long-polling thread of                           *)
(* agent/services/telegram_poller.py, process_telegram_update of           *)
(* agent/services/telegram_handler.py with the replies it sends, and what  *)
(* a chat turn of agent/main.py does to the session: the short memory, the *)
(* rows of `messages` and the row of `turn_log`.                           *)
(*                                                                         *)
(* The offset is kept in memory only, and the server forgets an update     *)
(* when a later getUpdates asks for the one after it.  One thread handles  *)
(* the updates one by one; a crash may happen between any two steps.       *)
(***************************************************************************)
EXTENDS Integers, Sequences

CONSTANTS
    MaxUpdates,   \* bound: updates sent to the bot
    MaxRows,      \* rows loaded, and kept in memory (16)
    KeepLast,     \* messages /compact keeps (4)
    MaxCrashes,   \* bound: restarts of the process
    MaxFaults     \* bound: failed calls of the database, the network, the model

VARIABLES
    sent,         \* updates the server has accepted, numbered from 1
    kind,         \* what each of them is
    confirmed,    \* the server keeps updates above this one
    offset,       \* offset of _poll_loop
    batch,        \* updates fetched and not yet taken up
    cur,          \* update being processed; 0 when none
    step,         \* where its handler is
    answer,       \* the reply being sent: "text", "empty", "error"
    memory,       \* BoundedMemory of the session: <<who, update>> entries
    rows,         \* messages table of the session, oldest first
    log,          \* turn_log of the session, oldest first
    inbox,        \* messages the user received: the update each one answers
    crashes, faults,
    runs,         \* history: times each update was taken up
    ended,        \* history: updates whose handler returned or raised
    replies,      \* history: send attempts of the run in progress
    forgot,       \* history: last update that reset the session
    seen,         \* history: last update whose answer was sent and stored
    unlogged,     \* history: updates whose turn_log row could not be written
    unaudited     \* history: updates whose audit line could not be written this time

server == <<sent, kind, confirmed>>
chatState == <<memory, rows, log, inbox>>
history == <<runs, ended, forgot, seen, unlogged, unaudited>>
vars == <<server, offset, batch, cur, step, answer, chatState, crashes, faults,
          replies, history>>

Update == 1..MaxUpdates
Kind == {"chat", "voice", "reset", "compact", "rate", "direct", "thumb", "ignored"}
Entry == {"user", "evi"} \X Update
Turn == [of : Update, mid : Nat, mark : 0..MaxUpdates]

TypeOK ==
    /\ sent \in 0..MaxUpdates /\ confirmed \in 0..MaxUpdates
    /\ kind \in [Update -> Kind]
    /\ offset \in 0..(MaxUpdates + 1)
    /\ batch \in Seq(Update) /\ cur \in 0..MaxUpdates
    /\ step \in {"idle", "route", "hydrate", "model", "save", "log", "reply",
                 "link", "store", "audit"}
    /\ answer \in {"text", "empty", "error"}
    /\ memory \in Seq(Entry) /\ Len(memory) <= MaxRows
    /\ rows \in Seq(Entry) /\ log \in Seq(Turn) /\ inbox \in Seq(Update)
    /\ crashes \in 0..MaxCrashes /\ faults \in 0..MaxFaults
    /\ runs \in [Update -> Nat] /\ replies \in 0..2
    /\ ended \cup unlogged \cup unaudited \subseteq Update
    /\ forgot \in 0..MaxUpdates /\ seen \in 0..MaxUpdates

Init ==
    /\ sent = 0 /\ kind = [u \in Update |-> "ignored"] /\ confirmed = 0
    /\ offset = 0 /\ batch = << >> /\ cur = 0 /\ step = "idle" /\ answer = "text"
    /\ memory = << >> /\ rows = << >> /\ log = << >> /\ inbox = << >>
    /\ crashes = 0 /\ faults = 0
    /\ runs = [u \in Update |-> 0] /\ ended = {} /\ replies = 0
    /\ forgot = 0 /\ seen = 0 /\ unlogged = {} /\ unaudited = {}

NewestOf(s, n) == SubSeq(s, IF Len(s) > n THEN Len(s) - n + 1 ELSE 1, Len(s))

Fault == faults < MaxFaults /\ faults' = faults + 1
NoFault == UNCHANGED faults

----------------------------------------------------------------------------
(* The server and the poller.                                              *)

\* An update that arrives while a batch is handled is first seen by the next
\* getUpdates, so the model lets them arrive between batches.
Send(k) ==
    /\ step = "idle" /\ batch = << >> /\ sent < MaxUpdates
    /\ sent' = sent + 1
    /\ kind' = [kind EXCEPT ![sent + 1] = k]
    /\ UNCHANGED <<confirmed, offset, batch, cur, step, answer, chatState, crashes,
                   faults, replies, history>>

\* Faulty variant: the server is asked for the update after the whole batch.
LossyConfirmed(o) == sent
\* getUpdates(offset): the server drops every update below the offset.
Confirmed(o) == IF o - 1 > confirmed THEN o - 1 ELSE confirmed

\* fetch_updates; an answer that gets lost leaves an empty batch.
Fetch ==
    /\ step = "idle" /\ batch = << >>
    /\ confirmed' = Confirmed(offset)
    /\ \/ /\ batch' = [j \in 1..(sent - Confirmed(offset)) |-> Confirmed(offset) + j]
          /\ NoFault
       \/ Fault /\ UNCHANGED batch
    /\ UNCHANGED <<sent, kind, offset, cur, step, answer, chatState, crashes, replies,
                   history>>

\* Faulty variant: the offset stays at the update itself.
SameOffset(u) == u
NextOffset(u) == u + 1

Take ==
    /\ step = "idle" /\ batch # << >>
    /\ cur' = Head(batch) /\ batch' = Tail(batch)
    /\ offset' = NextOffset(Head(batch))
    /\ runs' = [runs EXCEPT ![Head(batch)] = @ + 1]
    /\ unaudited' = unaudited \ {Head(batch)}
    /\ step' = "route" /\ replies' = 0 /\ answer' = "text"
    /\ UNCHANGED <<server, chatState, crashes, faults, ended, forgot, seen, unlogged>>

\* The thread dies with the process: the offset and the memory are gone.
Crash ==
    /\ crashes < MaxCrashes
    /\ crashes' = crashes + 1
    /\ offset' = 0 /\ batch' = << >> /\ cur' = 0 /\ step' = "idle"
    /\ memory' = << >> /\ answer' = "text" /\ replies' = 0
    /\ UNCHANGED <<server, rows, log, inbox, faults, history>>

----------------------------------------------------------------------------
(* process_telegram_update.                                                *)

\* The handler returned, or raised and _poll_loop logged it.
Over == step' = "idle" /\ cur' = 0 /\ ended' = ended \cup {cur}

\* Neither text nor voice, or not the owner's chat (_chat_allowed).
Silent == kind[cur] = "ignored"

\* A reaction: set_turn_feedback_by_message on the newest turn of the message.
React ==
    \/ Silent /\ UNCHANGED log
    \/ /\ kind[cur] = "thumb"
       /\ \E m \in 0..Len(inbox) :
            log' = [j \in DOMAIN log |->
                      IF /\ m # 0 /\ log[j].mid = m
                         /\ \A i \in DOMAIN log : log[i].mid = m => i <= j
                      THEN [log[j] EXCEPT !.mark = cur] ELSE log[j]]

Ignore ==
    /\ step = "route"
    /\ React
    /\ Over
    /\ UNCHANGED <<server, offset, batch, answer, memory, rows, inbox, crashes, faults,
                   runs, replies, forgot, seen, unlogged, unaudited>>

\* /reset drops the memory of the session.
Forget == memory' = << >> /\ forgot' = cur

\* /compact keeps the last messages of it.
Compact == memory' = NewestOf(memory, KeepLast) /\ UNCHANGED forgot

\* /bom and /ruim mark the newest turn, whatever it was.
RateNewest == log' = IF log = << >> THEN log ELSE [log EXCEPT ![Len(log)].mark = cur]

\* The commands and replies handled without the model; what the deterministic
\* replies do to briefings, commitments and reminders is in their modules.
Direct ==
    /\ step = "route"
    /\ \/ kind[cur] = "reset" /\ Forget /\ UNCHANGED log
       \/ kind[cur] = "compact" /\ Compact /\ UNCHANGED log
       \/ kind[cur] = "rate" /\ RateNewest /\ UNCHANGED <<memory, forgot>>
       \/ kind[cur] = "direct" /\ UNCHANGED <<memory, forgot, log>>
    /\ step' = "reply" /\ answer' = "text"
    /\ UNCHANGED <<server, offset, batch, cur, rows, inbox, crashes, faults, runs, ended,
                   replies, seen, unlogged, unaudited>>

\* A direct handler that raises is caught by the poller only: no reply.
DirectRaises ==
    /\ step = "route" /\ kind[cur] = "direct"
    /\ Fault /\ Over
    /\ UNCHANGED <<server, offset, batch, answer, chatState, crashes, runs, replies,
                   forgot, seen, unlogged, unaudited>>

\* transcribe: too long, too big, no provider, no text, an exception.
NotTranscribed == Fault /\ answer' = "error"

\* _voice_turn without a transcription: every such outcome is a reply.
Unheard ==
    /\ step = "route" /\ kind[cur] = "voice"
    /\ NotTranscribed
    /\ step' = "reply"
    /\ UNCHANGED <<server, offset, batch, cur, chatState, crashes, replies, history>>

Heard ==
    /\ step = "route" /\ kind[cur] \in {"chat", "voice"}
    /\ step' = "hydrate"
    /\ UNCHANGED <<server, offset, batch, cur, answer, chatState, crashes, faults,
                   replies, history>>

----------------------------------------------------------------------------
(* _chat_turn.                                                             *)

\* Faulty variant: nothing makes room.
AddedUnbounded(s, e) == Append(s, e)
\* BoundedMemory.add: the oldest entry makes room.
Added(s, e) == NewestOf(Append(s, e), MaxRows)

\* Faulty variant: the first rows of the session instead of the last.
Oldest(s) == SubSeq(s, 1, IF Len(s) > MaxRows THEN MaxRows ELSE Len(s))
\* load_recent_messages
Recent(s) == NewestOf(s, MaxRows)

\* _hydrate_memory replaces the memory by the newest rows of the table; when
\* they cannot be loaded the memory stays.  Then the user's message is added.
Hydrate ==
    /\ step = "hydrate"
    /\ \/ NoFault /\ memory' = Added(Recent(rows), <<"user", cur>>)
       \/ Fault /\ memory' = Added(memory, <<"user", cur>>)
    /\ step' = "model"
    /\ UNCHANGED <<server, offset, batch, cur, answer, rows, log, inbox, crashes, replies,
                   history>>

\* Faulty variant: only a turn that raised nothing goes on to a reply.
AfterModelSilent(a) == IF a = "error" THEN "idle" ELSE "save"
\* An exception of the graph skips _persist_turn; the turn is logged either way.
AfterModel(a) == IF a = "error" THEN "log" ELSE "save"

\* graph.invoke: the model may raise, and may answer nothing at all.
Model ==
    /\ step = "model"
    /\ \E a \in {"text", "empty", "error"} :
         /\ IF a = "text" THEN NoFault ELSE Fault
         /\ answer' = a
         /\ step' = AfterModel(a)
         /\ memory' = IF a = "error" THEN memory ELSE Added(memory, <<"evi", cur>>)
    /\ UNCHANGED <<server, offset, batch, cur, rows, log, inbox, crashes, replies, history>>

\* Two save_message calls in two transactions.
Stored == \/ NoFault /\ rows' = rows \o <<<<"user", cur>>, <<"evi", cur>>>>
          \/ Fault /\ rows' \in {rows, Append(rows, <<"user", cur>>)}

\* _persist_turn of main.py, which a turn of Telegram reaches before the one
\* of telegram_handler.py.
Save ==
    /\ step = "save"
    /\ Stored
    /\ step' = "log"
    /\ UNCHANGED <<server, offset, batch, cur, answer, memory, log, inbox, crashes, replies,
                   history>>

\* record_turn -> insert_turn in the finally clause.
Log ==
    /\ step = "log"
    /\ \/ /\ NoFault
          /\ log' = Append(log, [of |-> cur, mid |-> 0, mark |-> 0])
          /\ UNCHANGED unlogged
       \/ Fault /\ unlogged' = unlogged \cup {cur} /\ UNCHANGED log
    /\ step' = "reply"
    /\ UNCHANGED <<server, offset, batch, cur, answer, memory, rows, inbox, crashes, replies,
                   runs, ended, forgot, seen, unaudited>>

----------------------------------------------------------------------------
(* _reply_direct: send, link, store, audit.                                *)

Reply ==
    /\ step = "reply"
    /\ \/ /\ answer # "empty" /\ NoFault
          /\ inbox' = Append(inbox, cur)
          /\ step' = IF kind[cur] = "chat" /\ answer = "text" THEN "link" ELSE "store"
          /\ replies' = replies + 1
       \/ /\ answer # "empty" /\ Fault
          /\ step' = "store" /\ replies' = replies + 1 /\ UNCHANGED inbox
       \/ /\ answer = "empty" /\ NoFault
          /\ step' = "store" /\ UNCHANGED <<inbox, replies>>
    /\ UNCHANGED <<server, offset, batch, cur, answer, memory, rows, log, crashes, history>>

Unlinked(w) == {j \in DOMAIN log : log[j].mid = 0 /\ j >= w}
\* Faulty variant: the oldest of them.
FirstUnlinked(w) == {j \in Unlinked(w) : \A i \in Unlinked(w) : j <= i}
\* The newest turn with this text and no message yet; the users of this model
\* repeat themselves, so that every turn has the same text.
LinkTarget(w) == {j \in Unlinked(w) : \A i \in Unlinked(w) : i <= j}

\* set_turn_tg_message_id; w is the oldest turn of the last five minutes.
Link ==
    /\ step = "link"
    /\ \/ /\ NoFault
          /\ \E w \in 1..(Len(log) + 1) :
               /\ w > Len(log) => cur \in unlogged
               /\ \A j \in DOMAIN log : log[j].of = cur /\ j = Len(log) => w <= j
               /\ log' = [j \in DOMAIN log |-> IF j \in LinkTarget(w)
                            THEN [log[j] EXCEPT !.mid = Len(inbox)] ELSE log[j]]
       \/ Fault /\ UNCHANGED log
    /\ step' = "store"
    /\ UNCHANGED <<server, offset, batch, cur, answer, memory, rows, inbox, crashes, replies,
                   history>>

Delivered == inbox # << >> /\ inbox[Len(inbox)] = cur

Store ==
    /\ step = "store"
    /\ Stored
    /\ seen' = IF Delivered /\ faults' = faults THEN cur ELSE seen
    /\ step' = "audit"
    /\ UNCHANGED <<server, offset, batch, cur, answer, memory, log, inbox, crashes, replies,
                   runs, ended, forgot, unlogged, unaudited>>

\* Faulty variant: every handler does.
RepliesAgainAlways == cur \notin unaudited
\* The except clause of _voice_turn takes a failure behind the reply for one
\* of the transcription and replies a second time.
RepliesAgain == kind[cur] = "voice" /\ cur \notin unaudited

\* log_telegram_turn; elsewhere its failure reaches the poller, which logs it.
Audit ==
    /\ step = "audit"
    /\ \/ NoFault /\ Over /\ UNCHANGED <<unaudited, answer>>
       \/ /\ Fault
          /\ unaudited' = unaudited \cup {cur}
          /\ IF RepliesAgain
             THEN step' = "reply" /\ answer' = "error" /\ UNCHANGED <<cur, ended>>
             ELSE Over /\ UNCHANGED answer
    /\ UNCHANGED <<server, offset, batch, chatState, crashes, runs, replies, forgot, seen,
                   unlogged>>

Turns == Heard \/ Hydrate \/ Model \/ Save \/ Log \/ Reply \/ Link \/ Store \/ Audit

Next == \/ \E k \in Kind : Send(k)
        \/ Fetch \/ Take \/ Crash
        \/ Ignore \/ Direct \/ DirectRaises \/ Unheard
        \/ Turns

Spec == Init /\ [][Next]_vars

----------------------------------------------------------------------------
\* An update the server has forgotten was handled to its end, by this process
\* or by one before it: a crash loses none.
NoneLost == \A u \in 1..confirmed : u \in ended

\* Without a crash an update is handled once; each crash repeats it, and the
\* turn with what its tools did, at most once more.
RepeatedByCrashOnly == \A u \in Update : runs[u] <= 1 + crashes

\* The answer the user saw last, if it was stored, is in what the model is
\* given next, unless the rows could not be read, or the rows of turns that
\* restarts cut off, two each, fill the memory.
ContextKnowsLast ==
    step = "model" /\ faults = 0 /\ seen # 0 /\ 2 * crashes + 2 <= MaxRows =>
        \E j \in DOMAIN memory : memory[j] = <<"evi", seen>>

\* Whatever the model does, a message for it is answered, unless its answer is
\* empty: only a direct handler that raises leaves the user without a reply.
EndsWithReply ==
    (step # "idle" /\ step' = "idle" /\ crashes' = crashes
       /\ kind[cur] \in {"chat", "voice", "reset", "compact", "rate"} /\ answer' # "empty")
    => replies # 0

\* A second reply to one update comes only from a voice turn whose audit line
\* could not be written.
SecondReplyExplained ==
    step # "idle" /\ replies = 2 => kind[cur] = "voice" /\ cur \in unaudited

\* A thumb on a message counts for the turn the message answered; a turn that
\* could not be logged is the exception, its message may be linked to an
\* earlier turn with the same text that has none.
LinkedRight ==
    \A j \in DOMAIN log : log[j].mid # 0 =>
        inbox[log[j].mid] = log[j].of \/ inbox[log[j].mid] \in unlogged

\* No update is lost or left without its reply, and the turns know what was said.
ChatRight ==
    /\ [](/\ NoneLost /\ RepeatedByCrashOnly /\ ContextKnowsLast
         /\ SecondReplyExplained /\ LinkedRight)
    /\ [][EndsWithReply]_vars

\* "/reset recomeca a conversa": what came before the last reset is not in the
\* context of a later turn.
ResetForgets ==
    step = "model" => \A j \in DOMAIN memory : memory[j][2] >= forgot \/ memory[j][2] = cur
=============================================================================
