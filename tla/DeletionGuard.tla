---------------------------- MODULE DeletionGuard ---------------------------
(***************************************************************************)
(* The two-step deletion of e-mails: `delete_emails` and                   *)
(* `delete_emails_by_query` of agent/tools/email_tool.py, the guard of     *)
(* agent/services/write_guard.py, and the turns of one conversation that   *)
(* agent/services/turn_log.py and agent/main.py open and close around      *)
(* them.                                                                   *)
(*                                                                         *)
(* A turn is one message of the user.  In it the model calls tools, one    *)
(* batch after another; the graph's ToolNode runs the calls of a batch in  *)
(* threads, so their steps interleave.  Which tools it calls, with which   *)
(* ids and which token of the conversation, is the model's choice: nothing *)
(* is assumed of it.  The process may die between any two steps.           *)
(*                                                                         *)
(* Turns of a conversation do not overlap (SessionLane).  Left out: the    *)
(* ten-minute expiry, the clock and the closed set of confirmation phrases *)
(* (a message is or is not a confirmation); a refusal for any of these is  *)
(* among the refusals CheckConfirmation allows at any time.                *)
(***************************************************************************)
EXTENDS Integers, FiniteSets

CONSTANTS
    Mails,        \* what a staging call can ask for: sets of message ids
    None,         \* no value
    MaxTurns,     \* bound: turns
    MaxCalls,     \* bound: tool calls
    MaxParallel,  \* calls in one batch
    MaxFaults,    \* bound: crashes and failed database or Gmail calls
    MaxLost       \* bound: turns whose reply does not reach the user

ASSUME ParameterAssumption ==
    /\ None \notin Mails
    /\ None \notin Nat
    /\ MaxTurns \in Nat /\ MaxCalls \in Nat /\ MaxParallel \in Nat
    /\ MaxFaults \in Nat /\ MaxLost \in Nat

VARIABLES
    pending,      \* the latest pending_delete snapshot in the database
    turn,         \* the turn in progress: its turn_seq and the user's own words
    preview,      \* pending_preview of its collector
    calls,        \* its tool calls that still run
    staged,       \* _staged of the session
    lastTurn,     \* _last_turn of the session
    seq,          \* turns begun
    made,         \* tool calls begun; a token is the number of the call that made it
    offers,       \* history: snapshots stored
    shown,        \* history: what the reply of the turn before showed the user
    deleted,      \* history: deletions sent to Gmail
    faults, lost  \* counters for the bounds

vars == <<pending, turn, preview, calls, staged, lastTurn, seq, made, offers, shown,
          deleted, faults, lost>>

\* The user's words: a yes from the closed set, a request to delete, anything
\* else (a forwarded message is blank, which is neither).
Text == {"confirm", "delete", "other"}
Turn == [seq : Nat, text : Text]
ASSUME NoneIsNoTurn == None \notin Turn
Offer == [token : Nat, mails : Mails, turn : Nat, alone : BOOLEAN]
Stage == [n : Nat, step : {"store", "mark", "note"}, mails : Mails, alone : BOOLEAN]
Confirm == [n : Nat, step : {"check", "delete", "clear"}, token : Nat, offer : Offer \cup {None}]
Deletion == [turn : Nat, text : Text, offer : Offer, shown : Mails \cup {None}]

TypeOK ==
    /\ pending \in Offer \cup {None}
    /\ turn \in Turn \cup {None}
    /\ preview \in Mails \cup {None}
    /\ calls \in SUBSET (Stage \cup Confirm)
    /\ staged \in Nat \cup {None}
    /\ lastTurn \in Nat \cup {None}
    /\ seq \in Nat
    /\ made \in Nat
    /\ offers \in SUBSET Offer
    /\ shown \in Mails \cup {None}
    /\ deleted \in SUBSET Deletion
    /\ faults \in Nat
    /\ lost \in Nat

Init ==
    /\ pending = None
    /\ turn = None
    /\ preview = None
    /\ calls = {}
    /\ staged = None
    /\ lastTurn = None
    /\ seq = 0
    /\ made = 0
    /\ offers = {}
    /\ shown = None
    /\ deleted = {}
    /\ faults = 0
    /\ lost = 0

Fault == faults < MaxFaults /\ faults' = faults + 1
NoFault == UNCHANGED faults

----------------------------------------------------------------------------
(* Turns.                                                                  *)

BeginTurn(text) ==
    /\ turn = None
    /\ seq < MaxTurns
    /\ seq' = seq + 1
    /\ turn' = [seq |-> seq + 1, text |-> text]
    /\ preview' = None
    /\ UNCHANGED <<pending, calls, staged, lastTurn, made, offers, shown, deleted, faults, lost>>

\* clear_pending: _staged is popped and a "cleared" snapshot stored, which may
\* fail unnoticed.
ClearPending == /\ staged' = None
                /\ \/ pending' = None /\ NoFault
                   \/ Fault /\ UNCHANGED pending

\* Faulty variant: the end of a turn does not look at an older offer.
OnTurnEndKeeps == /\ lastTurn' = turn.seq
                  /\ UNCHANGED <<staged, pending, faults>>

\* Faulty variant: the turn is recorded only when an offer was staged.
OnTurnEndIfStaged == IF staged # None /\ staged < turn.seq
                     THEN ClearPending /\ lastTurn' = turn.seq
                     ELSE UNCHANGED <<staged, pending, faults, lastTurn>>

\* on_turn_end: an offer of an earlier turn that was not used is withdrawn.
OnTurnEnd ==
    /\ lastTurn' = turn.seq
    /\ IF staged # None /\ staged < turn.seq
       THEN ClearPending
       ELSE UNCHANGED <<staged, pending, faults>>

\* The turn ends.  Its reply carries the preview, unless the turn failed or
\* the reply was not delivered.
EndTurn ==
    /\ turn # None
    /\ calls = {}
    /\ OnTurnEnd
    /\ turn' = None
    /\ \/ shown' = preview /\ UNCHANGED lost
       \/ lost < MaxLost /\ lost' = lost + 1 /\ shown' = None
    /\ UNCHANGED <<preview, calls, seq, made, offers, deleted>>

\* The process dies: _staged, _last_turn and the turn are gone.
Crash ==
    /\ Fault
    /\ turn' = None
    /\ preview' = None
    /\ calls' = {}
    /\ staged' = None
    /\ lastTurn' = None
    /\ shown' = IF turn = None THEN shown ELSE None
    /\ UNCHANGED <<pending, seq, made, offers, deleted, lost>>

----------------------------------------------------------------------------
(* Tool calls.                                                             *)

\* Two staging calls of one batch are in each other's way; history: alone.
\* delete_emails with ids, delete_emails_by_query with a query.  Without the
\* user's own word of deleting, nothing is staged (has_delete_intent).
NewStage(n, mails, alone) == [n |-> n, step |-> "store", mails |-> mails, alone |-> alone]
NewConfirm(n, token) == [n |-> n, step |-> "check", token |-> token, offer |-> None]
Callable(n, alone) ==
    {NewStage(n, mails, alone) : mails \in IF turn.text = "delete" THEN Mails ELSE {}}
      \cup {NewConfirm(n, o.token) : o \in offers}

\* The model's next message calls tools: a batch the ToolNode runs in parallel.
CallTools ==
    /\ turn # None
    /\ calls = {}
    /\ \E k \in 1..MaxParallel :
         /\ made + k <= MaxCalls
         /\ made' = made + k
         /\ \E batch \in [1..k -> UNION {Callable(made + j, k = 1) : j \in 1..k}] :
              /\ \A j \in 1..k : batch[j].n = made + j
              /\ calls' = {batch[j] : j \in 1..k}
    /\ UNCHANGED <<pending, turn, preview, staged, lastTurn, seq, offers, shown, deleted,
                   faults, lost>>

Advance(c, d) == calls' = (calls \ {c}) \cup {d}
Return(c) == calls' = calls \ {c}

\* create_pending: the snapshot is stored, or the call ends and says so.
StorePending(c) ==
    /\ c \in calls
    /\ c.step = "store"
    /\ LET offer == [token |-> c.n, mails |-> c.mails, turn |-> turn.seq, alone |-> c.alone]
       IN \/ /\ NoFault
             /\ pending' = offer
             /\ offers' = offers \cup {offer}
             /\ Advance(c, [c EXCEPT !.step = "mark"])
          \/ /\ Fault
             /\ Return(c)
             /\ UNCHANGED <<pending, offers>>
    /\ UNCHANGED <<turn, preview, staged, lastTurn, seq, made, shown, deleted, lost>>

MarkStaged(c) ==
    /\ c \in calls
    /\ c.step = "mark"
    /\ staged' = turn.seq
    /\ Advance(c, [c EXCEPT !.step = "note"])
    /\ UNCHANGED <<pending, turn, preview, lastTurn, seq, made, offers, shown, deleted, faults, lost>>

\* Faulty variant: the reply shows the first offer of the turn only.
NotePreviewOnce(c) ==
    /\ c \in calls
    /\ c.step = "note"
    /\ preview' = IF preview = None THEN c.mails ELSE preview
    /\ Return(c)
    /\ UNCHANGED <<pending, turn, staged, lastTurn, seq, made, offers, shown, deleted, faults, lost>>

\* Faulty variant: the reply shows the token instead of the e-mails.
NotePreviewToken(c) ==
    /\ c \in calls
    /\ c.step = "note"
    /\ preview' = c.n
    /\ Return(c)
    /\ UNCHANGED <<pending, turn, staged, lastTurn, seq, made, offers, shown, deleted, faults, lost>>

\* note_pending_created
NotePreview(c) ==
    /\ c \in calls
    /\ c.step = "note"
    /\ preview' = c.mails
    /\ Return(c)
    /\ UNCHANGED <<pending, turn, staged, lastTurn, seq, made, offers, shown, deleted, faults, lost>>

\* Faulty variant: any later turn may confirm.
AcceptsAnyLater(c) ==
    /\ pending # None
    /\ pending.token = c.token
    /\ turn.seq > pending.turn
    /\ turn.text = "confirm"

\* check_confirmation: the latest snapshot, its token, a later turn, and the
\* very next one, and a message that is a plain yes.
Accepts(c) ==
    /\ pending # None
    /\ pending.token = c.token
    /\ turn.seq > pending.turn
    /\ lastTurn = pending.turn
    /\ turn.text = "confirm"

CheckConfirmation(c) ==
    /\ c \in calls
    /\ c.step = "check"
    /\ \/ Return(c)
       \/ Accepts(c) /\ Advance(c, [c EXCEPT !.step = "delete", !.offer = pending])
    /\ UNCHANGED <<pending, turn, preview, staged, lastTurn, seq, made, offers, shown, deleted,
                   faults, lost>>

\* _execute_delete: exactly the ids of the snapshot that was checked.  Gmail
\* may fail; the call goes on in any case.
ExecuteDelete(c) ==
    /\ c \in calls
    /\ c.step = "delete"
    /\ \/ /\ NoFault
          /\ deleted' = deleted \cup {[turn |-> turn.seq, text |-> turn.text,
                                       offer |-> c.offer, shown |-> shown]}
       \/ /\ Fault
          /\ UNCHANGED deleted
    /\ Advance(c, [c EXCEPT !.step = "clear"])
    /\ UNCHANGED <<pending, turn, preview, staged, lastTurn, seq, made, offers, shown, lost>>

ClearAfterDelete(c) ==
    /\ c \in calls
    /\ c.step = "clear"
    /\ ClearPending
    /\ Return(c)
    /\ UNCHANGED <<turn, preview, lastTurn, seq, made, offers, shown, deleted, lost>>

----------------------------------------------------------------------------
Tool(c) ==
    \/ StorePending(c)
    \/ MarkStaged(c)
    \/ NotePreview(c)
    \/ CheckConfirmation(c)
    \/ ExecuteDelete(c)
    \/ ClearAfterDelete(c)

Next ==
    \/ \E text \in Text : BeginTurn(text)
    \/ CallTools
    \/ \E c \in calls : Tool(c)
    \/ EndTurn
    \/ Crash

Spec == Init /\ [][Next]_vars

----------------------------------------------------------------------------
(* Properties.                                                             *)

\* Whatever tools the model calls, with whatever ids and tokens, and whatever
\* fails or dies: e-mails are deleted only in a turn in which the user said
\* yes, and only a set that was staged in the turn right before it, where the
\* user had spoken of deleting.  A deletion is never confirmed by the turn that
\* staged it, nor by a yes that answers something else.
DeletesOnlyWhatWasOffered ==
    \A d \in deleted :
        /\ d.text = "confirm"
        /\ d.offer \in offers
        /\ d.turn = d.offer.turn + 1

\* An offer the next turn did not take up is withdrawn: after that turn no
\* stored token is left, also when the turn confirmed one offer and staged
\* another at the same time.  (A crash or a failed write may leave the row; it
\* can no longer be confirmed.)
OfferWithdrawn ==
    turn = None /\ faults = 0 /\ pending # None => pending.turn = seq

\* The inductive form: a turn that may still delete an offer, or a process that
\* would accept its token, is in the turn right after the one that stored it.
Confirming(c) == c.step = "delete"
GuardInv ==
    /\ DeletesOnlyWhatWasOffered
    /\ pending # None => pending \in offers /\ pending.turn <= seq
    /\ lastTurn # None => lastTurn = IF turn = None THEN seq ELSE seq - 1
    /\ turn # None => turn.seq = seq
    /\ calls # {} => turn # None
    /\ \A c \in calls : Confirming(c) =>
          turn.text = "confirm" /\ c.offer \in offers /\ seq = c.offer.turn + 1

\* "exactly the previewed emails are deleted": what goes to the trash is what
\* the reply before the user's yes showed.  It is true of an offer staged in a
\* batch of its own, if the reply arrived, however many offers the turn staged
\* before it; of two calls of one batch the offer stored can be one's and the
\* preview the other's.
PreviewedWhenAlone ==
    \A d \in deleted : d.offer.alone /\ d.shown # None => d.shown = d.offer.mails

\* Offers from their staging to their end.
OffersExact == GuardInv /\ OfferWithdrawn /\ PreviewedWhenAlone
=============================================================================
