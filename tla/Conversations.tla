--------------------------- MODULE Conversations ----------------------------
(***************************************************************************)
(* Who owes whom a reply: wa_conversation_state, wa_jid_alias and          *)
(* awaiting_dismissed (agent/db.py), written by the WhatsApp webhook and   *)
(* read by the lists of debts and of people who have not answered.         *)
(*                                                                         *)
(* WhatsApp delivers one person under two ids, a lid and a phone.  The     *)
(* pair becomes known from a message that carries both; until then each id *)
(* has a row of its own, and afterwards the lid's row is folded into the   *)
(* phone's.  canonical_jid (services/contact_identity.py) reads the pair   *)
(* through a cache that can be stale.  Webhook threads, the two lists and  *)
(* the judge of debts (services/debt_judge.py) interleave; every statement *)
(* of db.py is a transaction and so one step.                              *)
(*                                                                         *)
(* One person is modelled: rows of different people never meet.  A message *)
(* is its kind: a request, a closing ("ok, thanks"), a nod (short, neither)*)
(* or a remark (long, neither).  Messages arrive late, twice or out of     *)
(* order.  Left out: groups, one-way and control chats, which are skipped, *)
(* the previews, names, and the limits of the lists.                       *)
(***************************************************************************)
EXTENDS Integers, FiniteSetsExt, SequencesExt

CONSTANTS
    Lid, Phone,   \* the two ids of the person
    None,         \* no value
    Webhooks,     \* threads that handle webhooks
    Readers,      \* threads that list debts or silent people, or judge
    InKinds, OutKinds,      \* kinds of messages received and sent
    DebtAge, DebtMax,       \* EVI_REPLY_DEBT_HOURS and the seven days
    WaitAge, WaitMax,       \* EVI_AWAITING_DAYS and MAX_DAYS
    AckWindow, Slack,       \* _ACK_WINDOW and _TS_SLACK
    MaxAttempts,  \* of the judge, per message
    MaxMsgs, MaxTime,   \* bounds: messages and clock
    MaxSpent            \* bound: commands of the user and failed calls

ASSUME IdsDiffer == Lid # Phone /\ None \notin {Lid, Phone}
ASSUME ThreadsDiffer == Webhooks \cap Readers = {}
ASSUME SlackAssumption == Slack \in Nat
ASSUME BoundsAssumption == MaxMsgs \in Nat /\ MaxTime \in Nat \ {0}

VARIABLES
    now,
    sent,       \* messages written by the person or the user
    row,        \* wa_conversation_state
    alias,      \* wa_jid_alias: the phone of the lid, or None
    cache,      \* contact_identity._cache: what the lid stands for, or None
    timeline,   \* outbound messages appended to each contact's timeline
    dismissed,  \* awaiting_dismissed
    proc,       \* webhook threads and readers
    backoff,    \* debt_judge._backoff
    recorded,   \* history: messages written to a row
    ackedAt,    \* history: the last acknowledgement
    saidNo,     \* history: messages the judge said need no reply
    spent

history == <<recorded, ackedAt, saidNo>>
vars == <<now, sent, row, alias, cache, timeline, dismissed, proc, backoff,
          recorded, ackedAt, saidNo, spent>>

Jids == {Lid, Phone}
Ids == 1..MaxMsgs
Row == [inAt : 0..MaxTime, inId : 0..MaxMsgs, outAt : 0..MaxTime, ackAt : 0..MaxTime,
        judgeId : 0..MaxMsgs, needs : BOOLEAN, there : BOOLEAN]   \* 0 is NULL

\* What the wording of a message tells.
IsClosing(kind) == kind = "closing"
LooksLikeRequest(kind) == kind = "request"
IsAmbiguous(kind) == ~IsClosing(kind) /\ ~LooksLikeRequest(kind)

NoRow == [inAt |-> 0, inId |-> 0, outAt |-> 0, ackAt |-> 0,
          judgeId |-> 0, needs |-> TRUE, there |-> FALSE]
Idle == [pc |-> "idle", msg |-> 0, val |-> Lid]

Msg(i) == CHOOSE m \in sent : m.id = i
Later(a, b) == IF a >= b THEN a ELSE b          \* GREATEST

Times(me) == {m.ts : m \in {n \in sent : n.id \in recorded /\ n.me = me}}

TypeOK ==
    /\ now \in 1..MaxTime
    /\ sent \subseteq [id : Ids, jid : Jids, me : BOOLEAN, ts : 1..MaxTime,
                       kind : InKinds \cup OutKinds]
    /\ row \in [Jids -> Row]
    /\ alias \in {Phone, None} /\ cache \in Jids \cup {None}
    /\ \A j \in Jids : timeline[j] \in Seq(Ids) /\ Cardinality(ToSet(timeline[j])) = Len(timeline[j])
    /\ dismissed \subseteq Jids \X (1..MaxTime)
    /\ \A p \in Webhooks \cup Readers : proc[p].pc = "idle" => proc[p].msg = 0
    /\ recorded \subseteq {m.id : m \in sent} /\ saidNo \subseteq recorded

Init ==
    /\ now = 1 /\ sent = {} /\ alias = None /\ cache = None
    /\ row = [j \in Jids |-> NoRow]
    /\ timeline = [j \in Jids |-> <<>>]
    /\ dismissed = {}
    /\ proc = [p \in Webhooks \cup Readers |-> Idle]
    /\ backoff = [k \in Jids \X Ids |-> 0]
    /\ recorded = {} /\ ackedAt = 0 /\ saidNo = {}
    /\ spent = 0

----------------------------------------------------------------------------
(* The table.  A row that does not exist has only NULLs.                   *)

RecordInbound(j, m) ==
    [row EXCEPT ![j] = IF m.ts > @.inAt
                       THEN [@ EXCEPT !.inAt = m.ts, !.inId = m.id, !.there = TRUE] ELSE @]

RecordOutbound(j, m) ==
    [row EXCEPT ![j] = [@ EXCEPT !.outAt = Later(row[j].outAt, m.ts), !.there = TRUE]]

Acknowledge(j) ==
    [row EXCEPT ![j] = [@ EXCEPT !.ackAt = Later(row[j].ackAt, now), !.there = TRUE]]

\* Faulty variant: the message named does not follow its time.
MergeKeepsId ==
    IF ~row[Lid].there THEN row
    ELSE [j \in Jids |->
            IF j = Lid THEN NoRow
            ELSE [row[Phone] EXCEPT !.inAt = Later(@, row[Lid].inAt),
                                    !.outAt = Later(@, row[Lid].outAt),
                                    !.ackAt = Later(@, row[Lid].ackAt), !.there = TRUE]]

\* The lid's row joins the phone's; the verdict of the lid's is not carried.
Merge ==
    IF ~row[Lid].there THEN row
    ELSE LET s == row[Lid]
             d == row[Phone]
             newer == s.inAt > d.inAt
         IN [j \in Jids |->
               IF j = Lid THEN NoRow
               ELSE [d EXCEPT !.inAt = Later(@, s.inAt),
                              !.inId = IF newer THEN s.inId ELSE @,
                              !.outAt = Later(@, s.outAt),
                              !.ackAt = Later(@, s.ackAt), !.there = TRUE]]

SetVerdict(j, id, needs) ==
    [row EXCEPT ![j] = IF @.inId = id THEN [@ EXCEPT !.judgeId = id, !.needs = needs] ELSE @]

Canonical(j) == IF j = Phone THEN Phone
                ELSE IF cache # None THEN cache
                ELSE IF alias # None THEN alias ELSE Lid

Aged(at, min, max) == at # 0 /\ at <= now - min /\ at >= now - max

\* One entry per canonical id, the one with the latest time of that column.
Collapse(js, at) ==
    {j \in js : \A k \in js \ {j} :
        Canonical(k) = Canonical(j) =>
            row[k][at] < row[j][at] \/ (row[k][at] = row[j][at] /\ j = Phone)}

\* list_debt_candidates
\* Faulty variant: an acknowledgement is forgotten.
DebtsDespiteAck ==
    {j \in Jids : row[j].inAt > row[j].outAt /\ Aged(row[j].inAt, DebtAge, DebtMax)}
DebtCandidates ==
    {j \in Jids : /\ row[j].inAt > row[j].outAt /\ row[j].inAt > row[j].ackAt
                  /\ Aged(row[j].inAt, DebtAge, DebtMax)}

InKind(j) == Msg(row[j].inId).kind
IsAcknowledgement(j) ==
    /\ InKind(j) = "nod" /\ row[j].outAt # 0
    /\ row[j].inAt - row[j].outAt \in 0..AckWindow
\* Faulty variant: any verdict of the row counts.
HasAnyVerdict(j) == row[j].judgeId # 0
HasVerdict(j) == row[j].judgeId # 0 /\ row[j].judgeId = row[j].inId

Open(j) == ~IsClosing(InKind(j)) /\ ~IsAcknowledgement(j)
Debts == {j \in Collapse(DebtCandidates, "inAt") :
            Open(j) /\ ~(IsAmbiguous(InKind(j)) /\ HasVerdict(j) /\ ~row[j].needs)}

\* The pause after a failure is not timed: an attempt may follow at once.
BackingOff(j) == backoff[<<j, row[j].inId>>] >= MaxAttempts

\* _candidates of the judge: each with the row it came from.
ToJudge == {j \in Collapse(DebtCandidates, "inAt") :
              /\ Open(j) /\ IsAmbiguous(InKind(j)) /\ ~HasVerdict(j) /\ ~BackingOff(j)}

\* last_user_text: the last outbound entry of the timeline, unless it is too old.
LastText(c, at) ==
    IF timeline[c] = <<>> THEN None
    ELSE LET m == Msg(timeline[c][Len(timeline[c])])
         IN IF m.ts < at - Slack THEN None ELSE m.kind

\* Faulty variant: an ignored message silences its conversation.
IsDismissedAny(c, at) == \E e \in dismissed : e[1] = c
IsDismissed(c, at) == <<c, at>> \in dismissed

\* Faulty variant: the answer is not looked at.
AwaitingAnyway == {j \in Jids : Aged(row[j].outAt, WaitAge, WaitMax)}
AwaitingCandidates ==
    {j \in Jids : row[j].outAt > row[j].inAt /\ Aged(row[j].outAt, WaitAge, WaitMax)}
Awaiting ==
    LET silent == {<<Canonical(j), row[j].outAt>> : j \in Collapse(AwaitingCandidates, "outAt")}
    IN {e \in silent : LastText(e[1], e[2]) = "request" /\ ~IsDismissed(e[1], e[2])}

----------------------------------------------------------------------------
(* The world.                                                              *)

Spend == spent < MaxSpent /\ spent' = spent + 1

Tick ==
    /\ now < MaxTime
    /\ now' = now + 1
    /\ UNCHANGED <<sent, row, alias, cache, timeline, dismissed, proc, backoff, history, spent>>

Write(j, me, kind) ==
    /\ Cardinality(sent) < MaxMsgs
    /\ kind \in IF me THEN OutKinds ELSE InKinds
    /\ sent' = sent \cup {[id |-> Cardinality(sent) + 1, jid |-> j, me |-> me, ts |-> now, kind |-> kind]}
    /\ UNCHANGED <<now, row, alias, cache, timeline, dismissed, proc, backoff, history, spent>>

\* An entry of the cache passes its time to live.
CacheExpire ==
    /\ cache # None
    /\ cache' = None
    /\ UNCHANGED <<now, sent, row, alias, timeline, dismissed, proc, backoff, history, spent>>

\* The user acknowledges a conversation, under an id it has had.
UserAcknowledges(j) ==
    /\ Spend
    /\ \E m \in sent : m.jid = j /\ ~m.me
    /\ row' = Acknowledge(j)
    /\ ackedAt' = now
    /\ UNCHANGED <<now, sent, alias, cache, timeline, dismissed, proc, backoff, recorded, saidNo>>

\* "Ignore" for a message that may have been listed, however long ago.
UserIgnores(entry) ==
    /\ Spend
    /\ dismissed' = dismissed \cup {entry}
    /\ UNCHANGED <<now, sent, row, alias, cache, timeline, proc, backoff, history>>

----------------------------------------------------------------------------
(* Steps of a thread.                                                      *)

Goto(p, pc) == proc' = [proc EXCEPT ![p].pc = pc]

\* canonical_jid for thread p: the cache, or the table and then, one step
\* later, the cache.  A failed read caches the lid itself.
LookUp(p, from, next) ==
    \/ /\ cache # None
       /\ proc' = [proc EXCEPT ![p] = [from EXCEPT !.val = cache, !.pc = next]]
       /\ UNCHANGED spent
    \/ /\ cache = None
       /\ proc' = [proc EXCEPT ![p] = [from EXCEPT !.val = Canonical(Lid), !.pc = "put"]]
       /\ UNCHANGED spent
    \/ /\ cache = None /\ alias # None /\ Spend
       /\ proc' = [proc EXCEPT ![p] = [from EXCEPT !.val = Lid, !.pc = "put"]]

PutCache(p) ==
    /\ proc[p].pc = "put"
    /\ cache' = proc[p].val
    /\ Goto(p, IF p \in Webhooks THEN "record" ELSE "fold")
    /\ UNCHANGED <<now, sent, row, alias, timeline, dismissed, backoff, history, spent>>

\* A webhook brings message m.  One that carries the other id of the pair
\* stores the pair first (record_alias), then folds and fills the cache; an
\* error on the way is logged.
Deliver(w, m) ==
    /\ proc[w].pc = "idle"
    /\ IF m.jid = Phone
       THEN /\ proc' = [proc EXCEPT ![w] = [Idle EXCEPT !.msg = m.id, !.val = Phone, !.pc = "record"]]
            /\ UNCHANGED spent
       ELSE LookUp(w, [Idle EXCEPT !.msg = m.id], "record")
    /\ UNCHANGED <<now, sent, row, alias, cache, timeline, dismissed, backoff, history>>

DeliverWithPair(w, m) ==
    /\ proc[w].pc = "idle" /\ m.jid = Lid /\ cache # Phone
    /\ alias' = Phone
    /\ proc' = [proc EXCEPT ![w] = [Idle EXCEPT !.msg = m.id, !.pc = "join"]]
    /\ UNCHANGED <<now, sent, row, cache, timeline, dismissed, backoff, history, spent>>

JoinRows(w) ==
    /\ proc[w].pc = "join"
    /\ row' = Merge
    /\ cache' = Phone
    /\ proc' = [proc EXCEPT ![w].pc = "record", ![w].val = Phone]
    /\ UNCHANGED <<now, sent, alias, timeline, dismissed, backoff, history, spent>>

AliasFails(w) ==
    /\ proc[w].pc = "join"
    /\ Spend
    /\ proc' = [proc EXCEPT ![w].val = Canonical(Lid), ![w].pc = IF cache = None THEN "put" ELSE "record"]
    /\ UNCHANGED <<now, sent, row, alias, cache, timeline, dismissed, backoff, history>>

\* track_conversation stores the message; an outbound one also joins the timeline.
Record(w) ==
    LET m == Msg(proc[w].msg)
        j == proc[w].val
    IN /\ proc[w].pc = "record"
       /\ row' = IF m.me THEN RecordOutbound(j, m) ELSE RecordInbound(j, m)
       /\ recorded' = recorded \cup {m.id}
       /\ proc' = [proc EXCEPT ![w] = IF m.me THEN [@ EXCEPT !.pc = "timeline"] ELSE Idle]
       /\ UNCHANGED <<now, sent, alias, cache, timeline, dismissed, backoff, ackedAt, saidNo, spent>>

\* Faulty variant: a redelivered message is appended again.
AppendAlways(w) ==
    /\ proc[w].pc = "timeline"
    /\ timeline' = [timeline EXCEPT ![proc[w].val] = Append(@, proc[w].msg)]
    /\ proc' = [proc EXCEPT ![w] = Idle]
    /\ UNCHANGED <<now, sent, row, alias, cache, dismissed, backoff, history, spent>>

AppendTimeline(w) ==
    LET j == proc[w].val
    IN /\ proc[w].pc = "timeline"
       /\ timeline' = [timeline EXCEPT ![j] =
                         IF proc[w].msg \in ToSet(@) THEN @ ELSE Append(@, proc[w].msg)]
       /\ proc' = [proc EXCEPT ![w] = Idle]
       /\ UNCHANGED <<now, sent, row, alias, cache, dismissed, backoff, history, spent>>

----------------------------------------------------------------------------
(* The readers fold first, then ask.                                       *)

BeginRead(r) ==
    /\ proc[r].pc = "idle"
    /\ IF row[Lid].there THEN LookUp(r, Idle, "fold")
       ELSE Goto(r, "query") /\ UNCHANGED spent
    /\ UNCHANGED <<now, sent, row, alias, cache, timeline, dismissed, backoff, history>>

\* fold_alias_states; a failure is logged and the lists are read as they are.
Fold(r) ==
    /\ proc[r].pc = "fold"
    /\ \/ row' = (IF proc[r].val = Phone THEN Merge ELSE row) /\ UNCHANGED spent
       \/ row' = row /\ Spend
    /\ Goto(r, "query")
    /\ UNCHANGED <<now, sent, alias, cache, timeline, dismissed, backoff, history>>

QueryList(r) ==   \* Debts or Awaiting is shown
    /\ proc[r].pc = "query"
    /\ proc' = [proc EXCEPT ![r] = Idle]
    /\ UNCHANGED <<now, sent, row, alias, cache, timeline, dismissed, backoff, history, spent>>

\* The judge takes a candidate and asks the model about its last message.
QueryJudge(r) ==
    /\ proc[r].pc = "query"
    /\ \E j \in ToJudge :
         proc' = [proc EXCEPT ![r] = [Idle EXCEPT !.pc = "ask", !.val = j, !.msg = row[j].inId]]
    /\ UNCHANGED <<now, sent, row, alias, cache, timeline, dismissed, backoff, history, spent>>

JudgeAnswers(r, needs) ==
    LET j == proc[r].val
        id == proc[r].msg
    IN /\ proc[r].pc = "ask"
       /\ row' = SetVerdict(j, id, needs)
       /\ backoff' = IF row[j].inId = id THEN [backoff EXCEPT ![<<j, id>>] = 0] ELSE backoff
       /\ saidNo' = IF needs THEN saidNo ELSE saidNo \cup {id}
       /\ proc' = [proc EXCEPT ![r] = Idle]
       /\ UNCHANGED <<now, sent, alias, cache, timeline, dismissed, recorded, ackedAt, spent>>

\* No usable answer, or a failed update.
JudgeFails(r) ==
    /\ proc[r].pc = "ask"
    /\ Spend
    /\ backoff' = [backoff EXCEPT ![<<proc[r].val, proc[r].msg>>] = @ + 1]
    /\ proc' = [proc EXCEPT ![r] = Idle]
    /\ UNCHANGED <<now, sent, row, alias, cache, timeline, dismissed, history>>

World == \/ Tick \/ CacheExpire
         \/ \E j \in Jids, me \in BOOLEAN, kind \in InKinds \cup OutKinds : Write(j, me, kind)
         \/ \E j \in Jids : UserAcknowledges(j)
         \/ \E j \in Jids, at \in Times(TRUE) : UserIgnores(<<j, at>>)

WebhookStep(w) ==
    \/ PutCache(w) \/ JoinRows(w)
    \/ AliasFails(w) \/ Record(w) \/ AppendTimeline(w)

ReaderStep(r) ==
    \/ BeginRead(r) \/ PutCache(r) \/ Fold(r)
    \/ QueryList(r) \/ QueryJudge(r) \/ JudgeFails(r)
    \/ \E needs \in BOOLEAN : JudgeAnswers(r, needs)

Next == \/ World
        \/ \E w \in Webhooks : WebhookStep(w) \/ \E m \in sent : Deliver(w, m) \/ DeliverWithPair(w, m)
        \/ \E r \in Readers : ReaderStep(r)

Spec == Init /\ [][Next]_vars

----------------------------------------------------------------------------
(* Properties.                                                             *)

MaxOf(S) == IF S = {} THEN 0 ELSE Max(S)
LastIn == MaxOf(Times(FALSE))
LastOut == MaxOf(Times(TRUE))
Joined(f) == MaxOf({row[j][f] : j \in Jids})

\* However messages are ordered or repeated and rows merged, the two rows of
\* the person together hold the latest message each way and the latest
\* acknowledgement, and the message named is one of that second
\* (record_inbound, record_outbound, acknowledge, merge_conversation_state).
StateExact ==
    /\ Joined("inAt") = LastIn /\ Joined("outAt") = LastOut /\ Joined("ackAt") = ackedAt
    /\ \A j \in Jids : row[j].inAt # 0 =>
         \E m \in sent : m.id = row[j].inId /\ m.id \in recorded /\ ~m.me /\ m.ts = row[j].inAt

\* Messages of the second of the last inbound one.
Newest == {m \in sent : m.id \in recorded /\ ~m.me /\ m.ts = LastIn}
Unanswered == LastIn > LastOut /\ LastIn > ackedAt
Folded == \E j \in Jids : ~row[j].there

Reading == \E r \in Readers : proc[r].pc = "query"   \* about to show Debts or Awaiting

\* A list of debts leaves out no one who waits for an answer: not for a verdict
\* on an older message, a stale cache, a merge, or rows split over two ids.
MustBeListed ==
    /\ Unanswered
    /\ Aged(LastIn, DebtAge, DebtMax)
    /\ \A m \in Newest : m.kind = "request" \/ (m.kind = "remark" /\ m.id \notin saidNo)
NoDebtHidden == Reading /\ MustBeListed => Debts # {}

\* Once the rows are folded, no one who was answered or acknowledged is listed.
NoFalseDebt == Reading /\ Folded /\ ~Unanswered => Debts = {}

\* Once the rows are folded, a person is listed as silent only if the user
\* wrote last, and under that message.
AwaitingSound ==
    Reading /\ Folded => \A e \in Awaiting : e[2] = LastOut /\ LastOut > LastIn

\* Ignoring a message silences that message only: a later request is listed
\* again, whatever was ignored before it.
LastIsRequest ==
    /\ LastOut > LastIn
    /\ Aged(LastOut, WaitAge, WaitMax)
    /\ timeline[Phone] # <<>>
    /\ LET m == Msg(timeline[Phone][Len(timeline[Phone])])
       IN m.ts = LastOut /\ m.kind = "request"
NewRequestListed ==
    Reading /\ ~row[Lid].there /\ LastIsRequest =>
        <<Phone, LastOut>> \in Awaiting \cup dismissed

\* The two lists of a briefing and of the tools, in both directions: whom they must show
\* and whom they may.
ListsRight == NoDebtHidden /\ NoFalseDebt /\ AwaitingSound /\ NewRequestListed
=============================================================================
