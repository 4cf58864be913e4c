------------------------- MODULE DeletionGuardProofs ------------------------
(* What DeletionGuard promises, for any number of turns, calls, batches,    *)
(* faults and sets of e-mails; what Ingest takes of the messages that come   *)
(* from outside, for any hooks, messages and clocks; and what ContactFiles   *)
(* keeps of them, for any appenders, learners and crashes.                   *)
EXTENDS DeletionGuard, Integers, Sequences, FiniteSetTheorems, SequenceTheorems,
        NaturalsInduction, WellFoundedInduction, TLAPS

\* The parts of Ingest and ContactFiles.
CONSTANTS Hooks, Batches, Messages, MaxAge, MaxPer, MaxSeen, MaxTime, MaxPosts,
          Message, TimeOf, Appender, Learner, LockKey, MaxWindow, MaxEdits, MaxRuns, MaxCrashes
VARIABLES now, seen, hook, activity, executed, timeline, queued, taken, missed, forgotten,
          posts, failures,
          paired, logged, lidDir, history, profile, appender, learner, label, merge,
          notes, late, cut, shared, unsafe, arrived, runs, crashes
In == INSTANCE Ingest WITH lost <- missed, faults <- failures
Fi == INSTANCE ContactFiles WITH timeline <- logged

\* A call is a staging call or a confirming one, and its step says which.
LEMMA StepKind ==
    ASSUME TypeOK, NEW c \in calls
    PROVE  /\ c.step \in {"store", "mark", "note"} => c \in Stage
           /\ c.step \in {"check", "delete", "clear"} => c \in Confirm
  BY DEF TypeOK, Stage, Confirm

LEMMA InitType == ASSUME Init PROVE TypeOK
  BY DEF Init, TypeOK

\* Clearing an offer keeps the types of what it changes.
LEMMA ClearType ==
    ASSUME TypeOK, ClearPending
    PROVE  /\ pending' \in Offer \cup {None}
           /\ staged' \in Nat \cup {None}
           /\ faults' \in Nat
  BY ParameterAssumption DEF TypeOK, ClearPending, Fault, NoFault

\* Every call of a new batch is a record of one of the two kinds.
LEMMA BatchType ==
    ASSUME TypeOK, turn # None, NEW n \in Nat, NEW alone \in BOOLEAN,
           NEW c \in Callable(n, alone)
    PROVE  c \in Stage \cup Confirm /\ c.step \in {"store", "check"}
<1>1. CASE c \in {NewStage(n, mails, alone) :
                    mails \in IF turn.text = "delete" THEN Mails ELSE {}}
  BY <1>1 DEF NewStage, Stage
<1>2. CASE c \in {NewConfirm(n, o.token) : o \in offers}
  BY <1>2 DEF NewConfirm, Confirm, TypeOK, Offer
<1> QED
  BY <1>1, <1>2 DEF Callable

LEMMA CallsType ==
    ASSUME TypeOK, CallTools
    PROVE  /\ calls' \in SUBSET (Stage \cup Confirm)
           /\ \A c \in calls' : c.step \in {"store", "check"}
           /\ made' \in Nat
<1>1. PICK k \in 1..MaxParallel :
        /\ made' = made + k
        /\ \E batch \in [1..k -> UNION {Callable(made + j, k = 1) : j \in 1..k}] :
             calls' = {batch[j] : j \in 1..k}
  BY DEF CallTools
<1>2. k \in Nat /\ made \in Nat
  BY ParameterAssumption DEF TypeOK
<1>3. PICK batch \in [1..k -> UNION {Callable(made + j, k = 1) : j \in 1..k}] :
        calls' = {batch[j] : j \in 1..k}
  BY <1>1
<1>4. ASSUME NEW c \in calls'
      PROVE  c \in Stage \cup Confirm /\ c.step \in {"store", "check"}
  <2>1. PICK i \in 1..k : c = batch[i]
    BY <1>3
  <2>2. PICK j \in 1..k : c \in Callable(made + j, k = 1)
    BY <1>3, <2>1
  <2>3. made + j \in Nat /\ (k = 1) \in BOOLEAN
    BY <1>2
  <2>4. turn # None
    BY DEF CallTools
  <2> QED
    BY <2>2, <2>3, <2>4, BatchType
<1> QED
  BY <1>1, <1>2, <1>4

\* A call runs inside a turn (a part of GuardInv), so its turn is a record.
LEMMA CallInTurn ==
    ASSUME TypeOK, GuardInv, NEW c \in calls
    PROVE  turn \in Turn /\ turn.seq \in Nat
  BY DEF TypeOK, GuardInv, Turn

LEMMA NextType == ASSUME TypeOK, GuardInv, [Next]_vars PROVE TypeOK'
<1> USE ParameterAssumption
<1>1. ASSUME NEW text \in Text, BeginTurn(text) PROVE TypeOK'
  BY <1>1 DEF TypeOK, BeginTurn, Turn
<1>2. ASSUME CallTools PROVE TypeOK'
  <2>1. UNCHANGED <<pending, turn, preview, staged, lastTurn, seq, offers, shown, deleted,
                    faults, lost>>
    BY <1>2 DEF CallTools
  <2> QED
    BY <1>2, <2>1, CallsType DEF TypeOK
<1>3. ASSUME NEW c \in calls, Tool(c) PROVE TypeOK'
  <2>0. turn \in Turn /\ turn.seq \in Nat
    BY CallInTurn
  <2>1. CASE StorePending(c)
    <3>1. c \in Stage
      BY <2>1, StepKind DEF StorePending
    <3>2. [token |-> c.n, mails |-> c.mails, turn |-> turn.seq, alone |-> c.alone] \in Offer
      BY <2>0, <3>1 DEF Stage, Offer
    <3>3. [c EXCEPT !.step = "mark"] \in Stage
      BY <3>1 DEF Stage
    <3> QED
      BY <2>1, <3>2, <3>3 DEF TypeOK, StorePending, Advance, Return, Fault, NoFault
  <2>2. CASE MarkStaged(c)
    <3>1. c \in Stage
      BY <2>2, StepKind DEF MarkStaged
    <3>2. [c EXCEPT !.step = "note"] \in Stage
      BY <3>1 DEF Stage
    <3> QED
      BY <2>0, <2>2, <3>2 DEF TypeOK, MarkStaged, Advance
  <2>3. CASE NotePreview(c)
    BY <2>3, StepKind DEF TypeOK, NotePreview, Return, Stage
  <2>4. CASE CheckConfirmation(c)
    <3>1. c \in Confirm
      BY <2>4, StepKind DEF CheckConfirmation
    <3>2. CASE Return(c)
      BY <2>4, <3>2 DEF TypeOK, CheckConfirmation, Return
    <3>3. CASE Accepts(c) /\ Advance(c, [c EXCEPT !.step = "delete", !.offer = pending])
      <4>1. [c EXCEPT !.step = "delete", !.offer = pending] \in Confirm
        BY <3>1 DEF Confirm, TypeOK
      <4> QED
        BY <2>4, <3>3, <4>1 DEF TypeOK, CheckConfirmation, Advance
    <3> QED
      BY <2>4, <3>2, <3>3 DEF CheckConfirmation
  <2>5. CASE ExecuteDelete(c)
    <3>1. c \in Confirm /\ c.offer \in offers
      BY <2>5, StepKind DEF ExecuteDelete, GuardInv, Confirming
    <3>2. c.offer \in Offer
      BY <3>1 DEF TypeOK
    <3>3. [turn |-> turn.seq, text |-> turn.text, offer |-> c.offer, shown |-> shown] \in Deletion
      BY <2>0, <3>2 DEF TypeOK, Turn, Deletion
    <3>4. [c EXCEPT !.step = "clear"] \in Confirm
      BY <3>1 DEF Confirm
    <3> QED
      BY <2>5, <3>3, <3>4 DEF TypeOK, ExecuteDelete, Advance, Fault, NoFault
  <2>6. CASE ClearAfterDelete(c)
    BY <2>6, ClearType DEF TypeOK, ClearAfterDelete, Return
  <2> QED
    BY <1>3, <2>1, <2>2, <2>3, <2>4, <2>5, <2>6 DEF Tool
<1>4. ASSUME EndTurn PROVE TypeOK'
  <2>1. turn \in Turn
    BY <1>4 DEF TypeOK, EndTurn
  <2> QED
    BY <1>4, <2>1, ClearType DEF TypeOK, EndTurn, OnTurnEnd, Turn
<1>5. ASSUME Crash PROVE TypeOK'
  BY <1>5 DEF TypeOK, Crash, Fault
<1>6. ASSUME UNCHANGED vars PROVE TypeOK'
  BY <1>6 DEF TypeOK, vars
<1> QED
  BY <1>1, <1>2, <1>3, <1>4, <1>5, <1>6 DEF Next

----------------------------------------------------------------------------
(* The guard.                                                              *)

LEMMA InitGuard == ASSUME Init PROVE GuardInv
  BY DEF Init, GuardInv, DeletesOnlyWhatWasOffered

\* No batch is confirming when it is called: a check comes first.
LEMMA GuardCallTools == ASSUME TypeOK, GuardInv, CallTools PROVE GuardInv'
<1>1. \A c \in calls' : ~ Confirming(c)
  BY CallsType DEF Confirming
<1>2. turn # None /\ UNCHANGED <<pending, turn, lastTurn, seq, offers, deleted>>
  BY DEF CallTools
<1> QED
  BY <1>1, <1>2 DEF GuardInv, DeletesOnlyWhatWasOffered, Confirming

\* A step of a call keeps the guard: the check is the only way into "delete".
LEMMA GuardTool ==
    ASSUME TypeOK, GuardInv, NEW c \in calls, Tool(c)
    PROVE  GuardInv'
<1>0. turn \in Turn /\ turn.seq = seq /\ seq \in Nat /\ turn # None
  BY CallInTurn DEF GuardInv, TypeOK
<1>1. CASE StorePending(c)
  <2>1. c.step = "store" /\ c \in Stage
    BY <1>1, StepKind DEF StorePending
  <2>2. UNCHANGED <<turn, lastTurn, seq, deleted>> /\ offers \subseteq offers'
    BY <1>1 DEF StorePending
  <2>3. pending' # None => pending' \in offers' /\ pending'.turn <= seq'
    BY <1>0, <1>1 DEF StorePending, GuardInv
  <2>4. \A d \in calls' : Confirming(d) => d \in calls
    BY <1>1, <2>1 DEF StorePending, Advance, Return, Confirming, Stage
  <2> QED
    BY <1>0, <2>2, <2>3, <2>4 DEF GuardInv, DeletesOnlyWhatWasOffered, Confirming
<1>2. CASE MarkStaged(c)
  <2>1. \A d \in calls' : Confirming(d) => d \in calls
    BY <1>2, StepKind DEF MarkStaged, Advance, Confirming, Stage
  <2> QED
    BY <1>0, <1>2, <2>1 DEF GuardInv, DeletesOnlyWhatWasOffered, Confirming, MarkStaged
<1>3. CASE NotePreview(c)
  BY <1>0, <1>3 DEF GuardInv, DeletesOnlyWhatWasOffered, Confirming, NotePreview, Return
<1>4. CASE CheckConfirmation(c)
  <2>1. UNCHANGED <<pending, turn, lastTurn, seq, offers, deleted>>
    BY <1>4 DEF CheckConfirmation
  <2>2. CASE Return(c)
    BY <1>0, <2>1, <2>2 DEF GuardInv, DeletesOnlyWhatWasOffered, Confirming, Return
  <2>3. CASE Accepts(c) /\ Advance(c, [c EXCEPT !.step = "delete", !.offer = pending])
    <3>1. pending \in offers /\ pending.turn \in Nat
      BY <2>3 DEF Accepts, GuardInv, TypeOK, Offer
    <3>2. seq = pending.turn + 1 /\ turn.text = "confirm"
      BY <1>0, <2>3, <3>1, ParameterAssumption DEF Accepts, GuardInv
    <3>3. c \in Confirm
      BY <1>4, StepKind DEF CheckConfirmation
    <3>4. ASSUME NEW d \in calls', Confirming(d)
          PROVE  turn.text = "confirm" /\ d.offer \in offers /\ seq = d.offer.turn + 1
      <4>1. CASE d \in calls
        BY <3>4, <4>1 DEF GuardInv
      <4>2. CASE d = [c EXCEPT !.step = "delete", !.offer = pending]
        BY <3>1, <3>2, <3>3, <4>2 DEF Confirm
      <4> QED
        BY <2>3, <4>1, <4>2 DEF Advance
    <3> QED
      BY <1>0, <2>1, <3>4 DEF GuardInv, DeletesOnlyWhatWasOffered, Confirming
  <2> QED
    BY <1>4, <2>2, <2>3 DEF CheckConfirmation
<1>5. CASE ExecuteDelete(c)
  <2>1. Confirming(c) /\ c \in Confirm
    BY <1>5, StepKind DEF ExecuteDelete, Confirming
  <2>2. turn.text = "confirm" /\ c.offer \in offers /\ seq = c.offer.turn + 1
    BY <2>1 DEF GuardInv
  <2>3. UNCHANGED <<pending, turn, lastTurn, seq, offers>>
    BY <1>5 DEF ExecuteDelete
  <2>4. DeletesOnlyWhatWasOffered'
    BY <1>0, <1>5, <2>2, <2>3 DEF ExecuteDelete, GuardInv, DeletesOnlyWhatWasOffered
  <2>5. \A d \in calls' : Confirming(d) => d \in calls
    BY <1>5, <2>1 DEF ExecuteDelete, Advance, Confirming, Confirm
  <2> QED
    BY <1>0, <2>3, <2>4, <2>5 DEF GuardInv, Confirming
<1>6. CASE ClearAfterDelete(c)
  BY <1>0, <1>6 DEF GuardInv, DeletesOnlyWhatWasOffered, Confirming, ClearAfterDelete,
                    ClearPending, Return
<1> QED
  BY <1>1, <1>2, <1>3, <1>4, <1>5, <1>6 DEF Tool

LEMMA NextGuard == ASSUME TypeOK, GuardInv, [Next]_vars PROVE GuardInv'
<1>1. ASSUME NEW text \in Text, BeginTurn(text) PROVE GuardInv'
  <2>1. calls = {} /\ UNCHANGED <<pending, calls, lastTurn, offers, deleted>>
    BY <1>1 DEF BeginTurn, GuardInv
  <2>2. seq \in Nat /\ seq' = seq + 1 /\ turn' # None /\ turn'.seq = seq'
    <3>1. turn' = [seq |-> seq + 1, text |-> text] /\ turn = None
      BY <1>1 DEF BeginTurn
    <3> QED
      BY <1>1, <3>1, NoneIsNoTurn DEF BeginTurn, TypeOK, Turn
  <2>3. pending # None => pending \in offers /\ pending.turn \in Nat
    BY DEF GuardInv, TypeOK, Offer
  <2> QED
    BY <1>1, <2>1, <2>2, <2>3 DEF BeginTurn, GuardInv, DeletesOnlyWhatWasOffered, Confirming
<1>2. ASSUME CallTools PROVE GuardInv'
  BY <1>2, GuardCallTools
<1>3. ASSUME NEW c \in calls, Tool(c) PROVE GuardInv'
  BY <1>3, GuardTool
<1>4. ASSUME EndTurn PROVE GuardInv'
  BY <1>4 DEF EndTurn, OnTurnEnd, ClearPending, GuardInv, DeletesOnlyWhatWasOffered, Confirming
<1>5. ASSUME Crash PROVE GuardInv'
  BY <1>5 DEF Crash, GuardInv, DeletesOnlyWhatWasOffered, Confirming
<1>6. ASSUME UNCHANGED vars PROVE GuardInv'
  BY <1>6 DEF vars, GuardInv, DeletesOnlyWhatWasOffered, Confirming
<1> QED
  BY <1>1, <1>2, <1>3, <1>4, <1>5, <1>6 DEF Next

\* Both halves hold of every reachable state: each needs the other.
LEMMA Inductive == Spec => [](TypeOK /\ GuardInv)
<1>1. Init => TypeOK /\ GuardInv
  BY InitType, InitGuard
<1>2. TypeOK /\ GuardInv /\ [Next]_vars => (TypeOK /\ GuardInv)'
  BY NextType, NextGuard
<1> QED
  BY <1>1, <1>2, PTL DEF Spec

\* The variables keep their types, whatever the model calls and whatever fails.
THEOREM TypeCorrect == Spec => []TypeOK
  BY Inductive, PTL

\* The inductive form of the guard of write_guard.check_confirmation.
THEOREM GuardHolds == Spec => []GuardInv
  BY Inductive, PTL

\* E-mails are deleted only in a turn in which the user said yes, and only a
\* set staged in the turn right before it: for any number of parallel calls,
\* crashes and failed writes.
THEOREM DeletionGuarded == Spec => []DeletesOnlyWhatWasOffered
<1>1. GuardInv => DeletesOnlyWhatWasOffered
  BY DEF GuardInv
<1> QED
  BY <1>1, GuardHolds, PTL

----------------------------------------------------------------------------
(* Offers from their staging to their end.                                 *)

Staging(c) == c.step \in {"store", "mark", "note"}
Stored(c) == c.step \in {"mark", "note"}

\* While nothing has failed, an offer is known to the session, or about to be; one of an
\* earlier turn is there for the end of this turn to withdraw.
KnownOffer ==
    /\ staged # None => staged <= seq
    /\ faults = 0 /\ pending # None =>
         /\ staged # None \/ \E c \in calls : c.step = "mark"
         /\ turn # None /\ pending.turn < seq => staged # None /\ staged < seq
         /\ turn = None => pending.turn = seq

\* A staging call that is alone has its batch to itself; the offer in the database is one
\* of this turn while a call that stored one still runs, and is that call's if it is alone.
OwnOffer ==
    \A c \in calls :
        /\ Staging(c) /\ c.alone => calls = {c}
        /\ Stored(c) /\ pending # None =>
             /\ pending.turn = seq /\ pending.alone = c.alone
             /\ c.alone => pending.mails = c.mails

\* What the reply will show, what it showed, and what a confirming call may delete.
ShownOffer ==
    /\ turn # None /\ pending # None /\ pending.alone /\ pending.turn = seq =>
         preview = pending.mails \/ \E c \in calls : Stored(c)
    /\ pending # None /\ pending.alone /\ shown # None
         /\ pending.turn = (IF turn = None THEN seq ELSE seq - 1) => shown = pending.mails
    /\ \A c \in calls : Confirming(c) /\ c.offer.alone /\ shown # None => shown = c.offer.mails
    /\ PreviewedWhenAlone

OfferInv == KnownOffer /\ OwnOffer /\ ShownOffer

LEMMA InitOffer == ASSUME Init PROVE OfferInv
  BY DEF Init, OfferInv, KnownOffer, OwnOffer, ShownOffer, PreviewedWhenAlone

\* Only a call that stores adds an offer to withdraw, and clearing fails only by a fault.
LEMMA OfferCallTools == ASSUME TypeOK, GuardInv, OfferInv, CallTools PROVE OfferInv'
<1>1. /\ turn # None /\ calls = {}
      /\ UNCHANGED <<pending, turn, preview, staged, seq, shown, deleted, faults>>
  BY DEF CallTools
<1>2. \A c \in calls' : ~Stored(c) /\ ~Confirming(c)
  BY CallsType DEF Stored, Confirming
<1>3. ASSUME NEW c \in calls', Staging(c), c.alone
      PROVE  calls' = {c}
  <2>1. PICK k \in 1..MaxParallel :
          \E batch \in [1..k -> UNION {Callable(made + j, k = 1) : j \in 1..k}] :
            calls' = {batch[j] : j \in 1..k}
    BY DEF CallTools
  <2>2. PICK batch \in [1..k -> UNION {Callable(made + j, k = 1) : j \in 1..k}] :
          calls' = {batch[j] : j \in 1..k}
    BY <2>1
  <2>3. PICK i \in 1..k : c = batch[i]
    BY <1>3, <2>2
  <2>4. PICK j \in 1..k : c \in Callable(made + j, k = 1)
    BY <2>2, <2>3
  <2>5. c.step = "check" \/ c.alone = (k = 1)
    <3>1. CASE c \in {NewStage(made + j, mails, k = 1) :
                        mails \in IF turn.text = "delete" THEN Mails ELSE {}}
      BY <3>1 DEF NewStage
    <3>2. CASE c \in {NewConfirm(made + j, o.token) : o \in offers}
      BY <3>2 DEF NewConfirm
    <3> QED
      BY <2>4, <3>1, <3>2 DEF Callable
  <2>6. k = 1
    BY <1>3, <2>5 DEF Staging
  <2> QED
    BY <2>2, <2>3, <2>6
<1>4. KnownOffer'
  BY <1>1 DEF OfferInv, KnownOffer
<1>5. OwnOffer'
  BY <1>2, <1>3 DEF OwnOffer
<1>6. ShownOffer'
  BY <1>1, <1>2 DEF OfferInv, ShownOffer, PreviewedWhenAlone
<1> QED
  BY <1>4, <1>5, <1>6 DEF OfferInv

LEMMA OfferStore ==
    ASSUME TypeOK, GuardInv, OfferInv, NEW c \in calls, StorePending(c)
    PROVE  OfferInv'
<1>0. turn \in Turn /\ turn.seq = seq /\ seq \in Nat /\ turn # None /\ faults \in Nat
  BY CallInTurn DEF GuardInv, TypeOK
<1>1. c.step = "store" /\ c \in Stage
  BY StepKind DEF StorePending
<1>2. UNCHANGED <<turn, preview, staged, seq, shown, deleted>>
  BY DEF StorePending
<1>3. CASE Fault /\ Return(c) /\ UNCHANGED pending
  <2>1. faults' # 0 /\ calls' = calls \ {c}
    BY <1>0, <1>3 DEF Fault, Return
  <2>2. KnownOffer'
    BY <1>2, <2>1 DEF OfferInv, KnownOffer
  <2>3. OwnOffer'
    BY <1>2, <1>3, <2>1 DEF OfferInv, OwnOffer, Staging, Stored
  <2>4. ShownOffer'
    BY <1>1, <1>2, <1>3, <2>1 DEF OfferInv, ShownOffer, PreviewedWhenAlone, Stored, Confirming
  <2> QED
    BY <2>2, <2>3, <2>4 DEF OfferInv
<1>4. CASE /\ NoFault
           /\ pending' = [token |-> c.n, mails |-> c.mails, turn |-> turn.seq, alone |-> c.alone]
           /\ Advance(c, [c EXCEPT !.step = "mark"])
  <2> DEFINE d == [c EXCEPT !.step = "mark"]
  <2>1. d.step = "mark" /\ d.alone = c.alone /\ d.mails = c.mails
    BY <1>1 DEF Stage
  <2>2. pending'.mails = c.mails /\ pending'.turn = seq /\ pending'.alone = c.alone
    BY <1>0, <1>4
  <2>3. calls' = (calls \ {c}) \cup {d} /\ faults' = faults
    BY <1>4 DEF Advance, NoFault
  <2> HIDE DEF d
  <2>4. KnownOffer'
    BY <1>0, <1>2, <2>1, <2>2, <2>3 DEF OfferInv, KnownOffer
  <2>5. ASSUME NEW b \in calls, b # c, Staging(b)
        PROVE  ~b.alone /\ ~c.alone
    BY <1>1, <2>5 DEF OfferInv, OwnOffer, Staging
  <2>6. c.alone \in BOOLEAN /\ \A b \in calls : Staging(b) => b.alone \in BOOLEAN
    BY <1>1, StepKind DEF Stage, Staging
  <2>7. OwnOffer'
    <3>1. ASSUME NEW b \in calls', Staging(b), b.alone
          PROVE  calls' = {b}
      <4>1. CASE b = d
        <5>1. calls = {c}
          BY <1>1, <2>1, <3>1, <4>1 DEF OfferInv, OwnOffer, Staging
        <5> QED
          BY <2>3, <4>1, <5>1
      <4>2. CASE b # d
        BY <2>3, <2>5, <3>1, <4>2
      <4> QED
        BY <4>1, <4>2
    <3>2. ASSUME NEW b \in calls', Stored(b)
          PROVE  pending'.alone = b.alone /\ (b.alone => pending'.mails = b.mails)
      <4>1. CASE b = d
        BY <2>1, <2>2, <4>1
      <4>2. CASE b # d
        <5>1. b \in calls /\ b # c /\ Staging(b)
          BY <2>3, <3>2, <4>2 DEF Staging, Stored
        <5>2. ~b.alone /\ ~c.alone
          BY <2>5, <5>1
        <5> QED
          BY <2>2, <2>6, <5>1, <5>2
      <4> QED
        BY <4>1, <4>2
    <3> QED
      BY <1>2, <2>2, <3>1, <3>2 DEF OwnOffer
  <2>8. ShownOffer'
    <3>1. \E b \in calls' : Stored(b)
      BY <2>1, <2>3 DEF Stored
    <3>2. pending'.turn # seq - 1
      BY <1>0, <2>2
    <3>3. \A b \in calls' : Confirming(b) => b \in calls
      BY <2>1, <2>3 DEF Confirming
    <3> QED
      BY <1>0, <1>2, <3>1, <3>2, <3>3 DEF OfferInv, ShownOffer, PreviewedWhenAlone
  <2> QED
    BY <2>4, <2>7, <2>8 DEF OfferInv
<1> QED
  BY <1>3, <1>4 DEF StorePending

LEMMA OfferTool ==
    ASSUME TypeOK, GuardInv, OfferInv, NEW c \in calls, Tool(c)
    PROVE  OfferInv'
<1> USE DEF OfferInv
<1>0. turn \in Turn /\ turn.seq = seq /\ seq \in Nat /\ turn # None /\ faults \in Nat
  BY CallInTurn DEF GuardInv, TypeOK
<1>1. CASE StorePending(c)
  BY <1>1, OfferStore
<1>2. CASE MarkStaged(c)
  <2> DEFINE d == [c EXCEPT !.step = "note"]
  <2>1. c.step = "mark" /\ c \in Stage
    BY <1>2, StepKind DEF MarkStaged
  <2>2. d.step = "note" /\ d.alone = c.alone /\ d.mails = c.mails
    BY <2>1 DEF Stage
  <2>3. calls' = (calls \ {c}) \cup {d} /\ staged' = seq
    BY <1>0, <1>2 DEF MarkStaged, Advance
  <2>4. UNCHANGED <<pending, turn, preview, seq, shown, deleted, faults>>
    BY <1>2 DEF MarkStaged
  <2> HIDE DEF d
  <2>5. pending # None => pending.turn = seq
    BY <2>1 DEF OwnOffer, Stored
  <2>6. KnownOffer'
    BY <1>0, <2>3, <2>4, <2>5, ParameterAssumption DEF KnownOffer
  <2>7. OwnOffer'
    <3>1. ASSUME NEW b \in calls', Staging(b), b.alone
          PROVE  calls' = {b}
      BY <2>1, <2>2, <2>3, <3>1 DEF OwnOffer, Staging
    <3>2. ASSUME NEW b \in calls', Stored(b), pending' # None
          PROVE  /\ pending'.turn = seq' /\ pending'.alone = b.alone
                 /\ b.alone => pending'.mails = b.mails
      BY <2>1, <2>2, <2>3, <2>4, <3>2 DEF OwnOffer, Stored
    <3> QED
      BY <3>1, <3>2 DEF OwnOffer
  <2>8. ShownOffer'
    <3>1. \E b \in calls' : Stored(b)
      BY <2>2, <2>3 DEF Stored
    <3>2. \A b \in calls' : Confirming(b) => b \in calls
      BY <2>2, <2>3 DEF Confirming
    <3> QED
      BY <2>4, <3>1, <3>2 DEF ShownOffer, PreviewedWhenAlone
  <2> QED
    BY <2>6, <2>7, <2>8
<1>3. CASE NotePreview(c)
  <2>1. c.step = "note" /\ calls' = calls \ {c} /\ preview' = c.mails
    BY <1>3 DEF NotePreview, Return
  <2>2. UNCHANGED <<pending, turn, staged, seq, shown, deleted, faults>>
    BY <1>3 DEF NotePreview
  <2>3. pending # None /\ pending.alone => pending.mails = c.mails
    BY <2>1 DEF OwnOffer, Stored
  <2>4. KnownOffer'
    BY <2>1, <2>2 DEF KnownOffer
  <2>5. OwnOffer'
    BY <2>1, <2>2 DEF OwnOffer, Staging, Stored
  <2>6. ShownOffer'
    BY <2>1, <2>2, <2>3 DEF ShownOffer, PreviewedWhenAlone
  <2> QED
    BY <2>4, <2>5, <2>6
<1>4. CASE CheckConfirmation(c)
  <2>0. c.step = "check" /\ c \in Confirm
    BY <1>4, StepKind DEF CheckConfirmation
  <2>1. UNCHANGED <<pending, turn, preview, staged, seq, shown, deleted, faults>>
    BY <1>4 DEF CheckConfirmation
  <2>2. CASE Return(c)
    <3>1. calls' = calls \ {c}
      BY <2>2 DEF Return
    <3> QED
      BY <2>0, <2>1, <3>1 DEF KnownOffer, OwnOffer, ShownOffer, PreviewedWhenAlone, Staging, Stored
  <2>3. CASE Accepts(c) /\ Advance(c, [c EXCEPT !.step = "delete", !.offer = pending])
    <3> DEFINE d == [c EXCEPT !.step = "delete", !.offer = pending]
    <3>1. d.step = "delete" /\ d.offer = pending
      BY <2>0 DEF Confirm
    <3>2. calls' = (calls \ {c}) \cup {d}
      BY <2>3 DEF Advance
    <3> HIDE DEF d
    <3>3. pending \in offers /\ pending.turn \in Nat /\ pending # None
      BY <2>3 DEF Accepts, GuardInv, TypeOK, Offer
    <3>4. pending.turn = seq - 1
      BY <1>0, <2>3, <3>3, ParameterAssumption DEF Accepts, GuardInv
    <3>5. KnownOffer'
      BY <2>0, <2>1, <3>2 DEF KnownOffer
    <3>6. OwnOffer'
      BY <2>0, <2>1, <3>1, <3>2 DEF OwnOffer, Staging, Stored
    <3>7. pending.alone /\ shown # None => shown = pending.mails
      BY <1>0, <3>3, <3>4 DEF ShownOffer
    <3>8. ShownOffer'
      BY <2>0, <2>1, <3>1, <3>2, <3>7 DEF ShownOffer, PreviewedWhenAlone, Stored, Confirming
    <3> QED
      BY <3>5, <3>6, <3>8
  <2> QED
    BY <1>4, <2>2, <2>3 DEF CheckConfirmation
<1>5. CASE ExecuteDelete(c)
  <2> DEFINE d == [c EXCEPT !.step = "clear"]
  <2>1. c.step = "delete" /\ c \in Confirm
    BY <1>5, StepKind DEF ExecuteDelete
  <2>2. d.step = "clear"
    BY <2>1 DEF Confirm
  <2>3. /\ calls' = (calls \ {c}) \cup {d}
        /\ UNCHANGED <<pending, turn, preview, staged, seq, shown>>
        /\ faults' = faults \/ faults' # 0
    BY <1>0, <1>5 DEF ExecuteDelete, Advance, Fault, NoFault
  <2> HIDE DEF d
  <2>4. KnownOffer'
    BY <2>1, <2>3 DEF KnownOffer
  <2>5. OwnOffer'
    BY <2>1, <2>2, <2>3 DEF OwnOffer, Staging, Stored
  <2>6. c.offer.alone /\ shown # None => shown = c.offer.mails
    BY <2>1 DEF ShownOffer, Confirming
  <2>7. PreviewedWhenAlone'
    <3> DEFINE new == [turn |-> turn.seq, text |-> turn.text, offer |-> c.offer, shown |-> shown]
    <3>1. new.offer = c.offer /\ new.shown = shown
      OBVIOUS
    <3>2. deleted' = deleted \/ deleted' = deleted \cup {new}
      BY <1>5 DEF ExecuteDelete
    <3> HIDE DEF new
    <3> QED
      BY <2>6, <3>1, <3>2 DEF ShownOffer, PreviewedWhenAlone
  <2>8. ShownOffer'
    BY <2>1, <2>2, <2>3, <2>7 DEF ShownOffer, Stored, Confirming
  <2> QED
    BY <2>4, <2>5, <2>8
<1>6. CASE ClearAfterDelete(c)
  <2>1. c.step = "clear" /\ calls' = calls \ {c} /\ staged' = None
    BY <1>6 DEF ClearAfterDelete, ClearPending, Return
  <2>2. UNCHANGED <<turn, preview, seq, shown, deleted>>
    BY <1>6 DEF ClearAfterDelete
  <2>3. pending' = None \/ (pending' = pending /\ faults' # 0)
    BY <1>0, <1>6 DEF ClearAfterDelete, ClearPending, Fault
  <2> QED
    BY <2>1, <2>2, <2>3 DEF KnownOffer, OwnOffer, ShownOffer, PreviewedWhenAlone, Staging,
                            Stored, Confirming
<1> QED
  BY <1>1, <1>2, <1>3, <1>4, <1>5, <1>6 DEF Tool

LEMMA NextOffer == ASSUME TypeOK, GuardInv, OfferInv, [Next]_vars PROVE OfferInv'
<1> USE DEF OfferInv
<1>0. seq \in Nat /\ faults \in Nat /\ staged \in Nat \cup {None}
  BY DEF TypeOK
<1>1. ASSUME NEW text \in Text, BeginTurn(text)
      PROVE  OfferInv'
  <2>1. calls = {} /\ turn = None
    BY <1>1 DEF BeginTurn, GuardInv
  <2>2. UNCHANGED <<pending, calls, staged, shown, deleted, faults>> /\ seq' = seq + 1
    BY <1>1 DEF BeginTurn
  <2>3. turn' # None
    <3>1. turn' = [seq |-> seq + 1, text |-> text]
      BY <1>1 DEF BeginTurn
    <3> QED
      BY <1>0, <1>1, <3>1, NoneIsNoTurn DEF Turn
  <2>4. pending # None => pending.turn \in Nat /\ pending.turn <= seq
    BY DEF GuardInv, TypeOK, Offer
  <2>5. KnownOffer'
    BY <1>0, <2>1, <2>2, <2>3 DEF KnownOffer
  <2>6. OwnOffer'
    BY <2>1, <2>2 DEF OwnOffer
  <2>7. ShownOffer'
    BY <1>0, <2>1, <2>2, <2>3, <2>4 DEF ShownOffer, PreviewedWhenAlone
  <2> QED
    BY <2>5, <2>6, <2>7
<1>2. ASSUME CallTools
      PROVE  OfferInv'
  BY <1>2, OfferCallTools
<1>3. ASSUME NEW c \in calls, Tool(c)
      PROVE  OfferInv'
  BY <1>3, OfferTool
<1>4. ASSUME EndTurn
      PROVE  OfferInv'
  <2>1. /\ turn # None /\ turn.seq = seq /\ calls = {} /\ turn' = None
        /\ shown' = preview \/ shown' = None
        /\ UNCHANGED <<preview, calls, seq, deleted>>
    BY <1>4 DEF EndTurn, GuardInv
  <2>2. pending # None => pending.turn \in Nat /\ pending.turn <= seq
    BY DEF GuardInv, TypeOK, Offer
  <2>3. \/ /\ staged # None /\ staged < seq /\ staged' = None
           /\ pending' = None \/ (pending' = pending /\ faults' # 0)
        \/ ~(staged # None /\ staged < seq) /\ UNCHANGED <<staged, pending, faults>>
    BY <1>0, <1>4, <2>1 DEF EndTurn, OnTurnEnd, ClearPending, Fault
  <2>4. KnownOffer'
    BY <1>0, <2>1, <2>2, <2>3 DEF KnownOffer
  <2>5. OwnOffer'
    BY <2>1 DEF OwnOffer
  <2>6. pending' = None \/ pending' = pending
    BY <2>3
  <2>7. ShownOffer'
    BY <2>1, <2>6 DEF ShownOffer, PreviewedWhenAlone
  <2> QED
    BY <2>4, <2>5, <2>7
<1>5. ASSUME Crash
      PROVE  OfferInv'
  <2>1. faults' # 0 /\ calls' = {} /\ staged' = None /\ turn' = None
    BY <1>0, <1>5 DEF Crash, Fault
  <2>2. UNCHANGED <<pending, seq, deleted>> /\ shown' = IF turn = None THEN shown ELSE None
    BY <1>5 DEF Crash
  <2> QED
    BY <2>1, <2>2 DEF KnownOffer, OwnOffer, ShownOffer, PreviewedWhenAlone
<1>6. ASSUME UNCHANGED vars
      PROVE  OfferInv'
  BY <1>6 DEF vars, KnownOffer, OwnOffer, ShownOffer, PreviewedWhenAlone
<1> QED
  BY <1>1, <1>2, <1>3, <1>4, <1>5, <1>6 DEF Next

\* An offer nobody took up is withdrawn by the turn after it, and what is deleted is what
\* the reply before the yes showed, if the offer was staged alone (write_guard.on_turn_end,
\* email_tool.delete_emails); with it the guard itself.
THEOREM OffersExactAlways == Spec => []OffersExact
<1>1. Init => TypeOK /\ GuardInv /\ OfferInv
  BY InitType, InitGuard, InitOffer
<1>2. TypeOK /\ GuardInv /\ OfferInv /\ [Next]_vars => (TypeOK /\ GuardInv /\ OfferInv)'
  BY NextType, NextGuard, NextOffer
<1>3. GuardInv /\ OfferInv => OffersExact
  BY DEF OfferInv, KnownOffer, ShownOffer, OfferWithdrawn, OffersExact
<1> QED
  BY <1>1, <1>2, <1>3, PTL DEF Spec

----------------------------------------------------------------------------
(* Rows in order, Ordering.                                                  *)

\* Where the members of a finite set are ordered (b[i] are those up to i), each has a
\* number, from 1 on.
LEMMA Ranked ==
    ASSUME NEW I, IsFiniteSet(I), NEW b \in [I -> SUBSET I],
           \A i \in I : i \in b[i],
           \A i, j \in I : i \in b[j] \/ j \in b[i],
           \A i, j \in I : i \in b[j] => b[i] \subseteq b[j],
           \A i, j \in I : i \in b[j] /\ j \in b[i] => i = j
    PROVE  /\ Cardinality(I) \in Nat
           /\ \A i \in I : Cardinality(b[i]) \in 1..Cardinality(I)
           /\ \A k \in 1..Cardinality(I) : \E i \in I : Cardinality(b[i]) = k
           /\ \A i, j \in I : Cardinality(b[i]) <= Cardinality(b[j]) => i \in b[j]
<1> DEFINE n == Cardinality(I)
           g == [i \in I |-> Cardinality(b[i])]
<1>1. n \in Nat
  BY FS_CardinalityType
<1>2. ASSUME NEW i \in I
      PROVE  IsFiniteSet(b[i]) /\ Cardinality(b[i]) \in 1..n
  <2>1. IsFiniteSet(b[i]) /\ Cardinality(b[i]) \in Nat /\ Cardinality(b[i]) <= n
    BY FS_Subset, FS_CardinalityType
  <2>2. Cardinality(b[i]) # 0
    BY <2>1, FS_EmptySet
  <2> QED
    BY <1>1, <2>1, <2>2
<1>3. ASSUME NEW i \in I, NEW j \in I, i \in b[j], i # j
      PROVE  Cardinality(b[i]) < Cardinality(b[j])
  <2>1. b[i] \subseteq b[j] /\ b[i] # b[j]
    BY <1>3
  <2>2. Cardinality(b[i]) <= Cardinality(b[j]) /\ Cardinality(b[i]) # Cardinality(b[j])
    BY <1>2, <2>1, FS_Subset
  <2> QED
    BY <1>1, <1>2, <2>2
<1>4. \A i, j \in I : Cardinality(b[i]) <= Cardinality(b[j]) => i \in b[j]
  <2> SUFFICES ASSUME NEW i \in I, NEW j \in I, Cardinality(b[i]) <= Cardinality(b[j]),
                      i \notin b[j]
               PROVE  FALSE
    OBVIOUS
  <2>1. j \in b[i] /\ i # j
    OBVIOUS
  <2>2. Cardinality(b[j]) < Cardinality(b[i])
    BY <1>3, <2>1
  <2> QED
    BY <1>2, <2>2
<1>5. g \in Injection(I, 1..n)
  <2>1. g \in [I -> 1..n]
    BY <1>2
  <2>2. ASSUME NEW i \in I, NEW j \in I, g[i] = g[j]
        PROVE  i = j
    <3>1. Cardinality(b[i]) = Cardinality(b[j])
      BY <2>2
    <3>2. i \in b[j] /\ j \in b[i]
      BY <1>1, <1>2, <1>4, <3>1
    <3> QED
      BY <3>2
  <2> QED
    BY <2>1, <2>2 DEF Injection, IsInjective
<1>6. IsFiniteSet(1..n) /\ Cardinality(1..n) = n
  BY <1>1, FS_Interval
<1>7. g \in Surjection(I, 1..n)
  BY <1>5, <1>6, FS_Injection
<1>8. \A k \in 1..n : \E i \in I : g[i] = k
  BY <1>7 DEF Surjection
<1> QED
  BY <1>1, <1>2, <1>4, <1>8

LEMMA SameNumber == ASSUME NEW S PROVE In!Cardinality(S) = Cardinality(S)
  BY DEF In!Cardinality, Cardinality

\* f lists the places of I, each once, in the order that b gives them.
Lists(f, I, b) ==
    /\ \A k \in DOMAIN f : f[k] \in I
    /\ \A i \in I : \E k \in DOMAIN f : f[k] = i
    /\ \A k, l \in DOMAIN f : k <= l => f[k] \in b[f[l]]
    /\ \A k, l \in DOMAIN f : f[k] = f[l] => k = l

\* What InOrder gives is such a list.
LEMMA Listed ==
    ASSUME NEW I, IsFiniteSet(I), NEW b \in [I -> SUBSET I],
           \A i \in I : i \in b[i],
           \A i, j \in I : i \in b[j] \/ j \in b[i],
           \A i, j \in I : i \in b[j] => b[i] \subseteq b[j],
           \A i, j \in I : i \in b[j] /\ j \in b[i] => i = j,
           NEW f, DOMAIN f = 1..Cardinality(I),
           \A k \in DOMAIN f : f[k] = CHOOSE i \in I : Cardinality(b[i]) = k
    PROVE  Cardinality(I) \in Nat /\ Lists(f, I, b)
<1>1. /\ Cardinality(I) \in Nat
      /\ \A i \in I : Cardinality(b[i]) \in 1..Cardinality(I)
      /\ \A k \in 1..Cardinality(I) : \E i \in I : Cardinality(b[i]) = k
      /\ \A i, j \in I : Cardinality(b[i]) <= Cardinality(b[j]) => i \in b[j]
  BY ONLY Ranked, IsFiniteSet(I), b \in [I -> SUBSET I],
           \A i \in I : i \in b[i],
           \A i, j \in I : i \in b[j] \/ j \in b[i],
           \A i, j \in I : i \in b[j] => b[i] \subseteq b[j],
           \A i, j \in I : i \in b[j] /\ j \in b[i] => i = j
<1>2. \A k \in DOMAIN f : f[k] \in I /\ Cardinality(b[f[k]]) = k
  BY <1>1
<1>3. \A i \in I : \E k \in DOMAIN f : f[k] = i
  <2> TAKE i \in I
  <2>1. Cardinality(b[i]) \in DOMAIN f
    BY <1>1
  <2>2. f[Cardinality(b[i])] \in I
    BY <1>2, <2>1
  <2>3. Cardinality(b[f[Cardinality(b[i])]]) = Cardinality(b[i])
    BY <1>2, <2>1
  <2>4. f[Cardinality(b[i])] = i
    BY <1>1, <2>1, <2>2, <2>3
  <2> QED
    BY <2>1, <2>4
<1>4. \A k, l \in DOMAIN f : k <= l => f[k] \in b[f[l]]
  BY <1>1, <1>2
<1> QED
  BY <1>1, <1>2, <1>3, <1>4 DEF Lists

\* The places of a sequence, in their order.
Upwards(I) == [i \in I |-> {j \in I : j <= i}]

\* What Pick gives are the rows at the places asked for, in their order.
LEMMA PickedRows ==
    ASSUME NEW S, NEW s \in Seq(S), NEW I, I \subseteq DOMAIN s
    PROVE  LET q == In!Pick(s, I) IN
             /\ q \in Seq(S)
             /\ \E f : /\ Lists(f, I, Upwards(I)) /\ DOMAIN f = DOMAIN q
                       /\ \A k \in DOMAIN q : q[k] = s[f[k]]
<1> DEFINE b == Upwards(I)
           f == [k \in 1..In!Cardinality(I) |->
                    CHOOSE i \in I : In!Cardinality({j \in I : j <= i}) = k]
           q == [k \in DOMAIN f |-> s[f[k]]]
<1>1. In!Pick(s, I) = q
  BY DEF In!Pick, In!InOrder
<1>2. Len(s) \in Nat /\ DOMAIN s = 1..Len(s) /\ \A i \in 1..Len(s) : s[i] \in S
  BY LenProperties, ElementOfSeq
<1>3. IsFiniteSet(I)
  <2>1. IsFiniteSet(1..Len(s))
    BY <1>2, FS_Interval
  <2> QED
    BY <1>2, <2>1, FS_Subset
<1>4. \A i \in I : i \in Nat
  BY <1>2
<1>5. /\ b \in [I -> SUBSET I]
      /\ \A i, j \in I : i \in b[j] <=> i <= j
  BY DEF Upwards
<1>6. /\ \A i \in I : i \in b[i]
      /\ \A i, j \in I : i \in b[j] \/ j \in b[i]
      /\ \A i, j \in I : i \in b[j] => b[i] \subseteq b[j]
      /\ \A i, j \in I : i \in b[j] /\ j \in b[i] => i = j
  <2>1. \A i, j, k \in I : i <= j /\ j <= k => i <= k
    BY <1>4
  <2>2. \A i, j \in I : i \in b[j] => b[i] \subseteq b[j]
    BY <1>5, <2>1
  <2> QED
    BY <1>4, <1>5, <2>2
<1>7. DOMAIN f = 1..Cardinality(I)
  BY SameNumber
<1>8. ASSUME NEW k \in DOMAIN f
      PROVE  f[k] = CHOOSE i \in I : Cardinality(b[i]) = k
  <2>1. \A i \in I : In!Cardinality({j \in I : j <= i}) = Cardinality(b[i])
    BY SameNumber DEF Upwards
  <2> QED
    BY <2>1
<1>9. Cardinality(I) \in Nat /\ Lists(f, I, b)
  <2> HIDE DEF b, f
  <2> QED
    BY ONLY <1>3, <1>5, <1>6, <1>7, <1>8, Listed
<1>10. q \in Seq(S)
  <2>1. q \in [1..Cardinality(I) -> S]
    <3> HIDE DEF f
    <3> QED
      BY <1>2, <1>7, <1>9 DEF Lists
  <2> HIDE DEF q
  <2> QED
    BY ONLY <1>9, <2>1, SeqDef
<1> QED
  BY <1>1, <1>9, <1>10

\* The messages have numbers for times.
Stamped == \A i \in DOMAIN Messages : Messages[i].ts \in Int

\* The places of a payload in the order of a stable sort, the newest first.
Downwards(s) ==
    [i \in DOMAIN s |->
        {j \in DOMAIN s : \/ Messages[s[j]].ts > Messages[s[i]].ts
                          \/ ~(Messages[s[i]].ts > Messages[s[j]].ts) /\ j <= i}]

\* NewestFirst gives the messages of a payload, each as often, none before a newer one.
LEMMA SortedRows ==
    ASSUME Stamped, NEW s \in Seq(In!Ids)
    PROVE  LET q == In!NewestFirst(s) IN
             /\ q \in Seq(In!Ids) /\ Len(q) = Len(s)
             /\ \E f : /\ Lists(f, DOMAIN s, Downwards(s)) /\ DOMAIN f = DOMAIN q
                       /\ \A k \in DOMAIN q : q[k] = s[f[k]]
<1> DEFINE D == DOMAIN s
           b == Downwards(s)
           f == [k \in 1..In!Cardinality(D) |->
                    CHOOSE i \in D : In!Cardinality(
                        {j \in D : \/ Messages[s[j]].ts > Messages[s[i]].ts
                                   \/ ~(Messages[s[i]].ts > Messages[s[j]].ts) /\ j <= i}) = k]
           q == [k \in DOMAIN f |-> s[f[k]]]
<1>1. In!NewestFirst(s) = q
  BY DEF In!NewestFirst, In!StableSort, In!InOrder
<1>2. Len(s) \in Nat /\ D = 1..Len(s) /\ \A i \in 1..Len(s) : s[i] \in In!Ids
  BY LenProperties, ElementOfSeq
<1>3. IsFiniteSet(D) /\ Cardinality(D) = Len(s)
  <2>1. \A n \in Nat : IsFiniteSet(1..n) /\ Cardinality(1..n) = n
    BY FS_Interval
  <2> QED
    BY <1>2, <2>1
<1>4. \A i \in D : i \in Nat /\ Messages[s[i]].ts \in Int
  BY <1>2 DEF Stamped, In!Ids
<1>5. /\ b \in [D -> SUBSET D]
      /\ \A i, j \in D : i \in b[j] <=>
           \/ Messages[s[i]].ts > Messages[s[j]].ts
           \/ ~(Messages[s[j]].ts > Messages[s[i]].ts) /\ i <= j
  BY DEF Downwards
<1>6. /\ \A i \in D : i \in b[i]
      /\ \A i, j \in D : i \in b[j] \/ j \in b[i]
      /\ \A i, j \in D : i \in b[j] => b[i] \subseteq b[j]
      /\ \A i, j \in D : i \in b[j] /\ j \in b[i] => i = j
  <2> DEFINE t == [i \in D |-> Messages[s[i]].ts]
  <2>1. \A i \in D : i \in Nat /\ t[i] \in Int
    BY <1>4
  <2>2. \A i, j \in D : i \in b[j] <=> t[i] > t[j] \/ (~(t[j] > t[i]) /\ i <= j)
    BY <1>5
  <2> HIDE DEF t, b
  <2>3. \A i, j, k \in D : i \in b[j] /\ j \in b[k] => i \in b[k]
    BY <2>1, <2>2
  <2>4. \A i, j \in D : i \in b[j] => b[i] \subseteq b[j]
    BY <1>5, <2>3
  <2> QED
    BY <2>1, <2>2, <2>4
<1>7. DOMAIN f = 1..Cardinality(D)
  BY SameNumber
<1>8. ASSUME NEW k \in DOMAIN f
      PROVE  f[k] = CHOOSE i \in D : Cardinality(b[i]) = k
  <2>1. \A i \in D : In!Cardinality(
                       {j \in D : \/ Messages[s[j]].ts > Messages[s[i]].ts
                                  \/ ~(Messages[s[i]].ts > Messages[s[j]].ts) /\ j <= i})
                     = Cardinality(b[i])
    BY SameNumber DEF Downwards
  <2> QED
    BY <2>1
<1>9. Cardinality(D) \in Nat /\ Lists(f, D, b)
  <2> HIDE DEF b, f, D
  <2> QED
    BY ONLY <1>3, <1>5, <1>6, <1>7, <1>8, Listed
<1>10. q \in Seq(In!Ids) /\ Len(q) = Len(s)
  <2>1. q \in [1..Cardinality(D) -> In!Ids]
    <3> HIDE DEF f
    <3> QED
      BY <1>2, <1>7, <1>9 DEF Lists
  <2> HIDE DEF q
  <2>2. q \in Seq(In!Ids)
    BY ONLY <1>9, <2>1, SeqDef
  <2>3. Len(q) = Cardinality(D)
    BY ONLY <1>9, <2>1, <2>2, LenProperties
  <2> QED
    BY <1>3, <2>2, <2>3
<1> QED
  BY <1>1, <1>9, <1>10

----------------------------------------------------------------------------
(* Sequences of ids.                                                         *)

Has(s, i) == \E k \in DOMAIN s : s[k] = i
Once(s) == \A k, l \in DOMAIN s : s[k] = s[l] => k = l

LEMMA Placed ==
    ASSUME NEW S, NEW s \in Seq(S)
    PROVE  /\ Len(s) \in Nat /\ DOMAIN s = 1..Len(s)
           /\ \A k \in DOMAIN s : k \in Nat /\ s[k] \in S
           /\ s = <<>> <=> DOMAIN s = {}
<1>1. Len(s) \in Nat /\ DOMAIN s = 1..Len(s) /\ s \in [1..Len(s) -> S]
  BY LenProperties
<1>2. s # <<>> => Len(s) # 0
  BY EmptySeq
<1>3. s = <<>> => DOMAIN s = {}
  OBVIOUS
<1>4. Len(s) # 0 => 1 \in DOMAIN s
  BY <1>1
<1> QED
  BY <1>1, <1>2, <1>3, <1>4

\* A sequence of one.
LEMMA Single ==
    ASSUME NEW S, NEW i \in S
    PROVE  /\ <<i>> \in Seq(S) /\ <<i>> # <<>> /\ Len(<<i>>) = 1
           /\ \A x : Has(<<i>>, x) <=> x = i
BY DEF Has

\* The first and the rest.
LEMMA FirstAndRest ==
    ASSUME NEW S, NEW s \in Seq(S), s # <<>>
    PROVE  /\ Head(s) \in S /\ Head(s) = s[1] /\ 1 \in DOMAIN s
           /\ Tail(s) \in Seq(S)
           /\ \A k \in DOMAIN Tail(s) : k + 1 \in DOMAIN s /\ Tail(s)[k] = s[k + 1]
           /\ \A k \in DOMAIN s : k = 1 \/ (k - 1 \in DOMAIN Tail(s) /\ Tail(s)[k - 1] = s[k])
<1> DEFINE n == Len(s)
           r == Tail(s)
<1>1. n \in Nat /\ DOMAIN s = 1..n /\ n # 0
  BY Placed, EmptySeq
<1>2. /\ Head(s) \in S /\ r \in Seq(S) /\ Len(r) = n - 1
      /\ \A i \in 1..Len(r) : r[i] = s[i + 1]
  BY HeadTailProperties
<1>3. Head(s) = s[1]
  OBVIOUS
<1>4. DOMAIN r = 1..Len(r)
  BY <1>2, Placed
<1> HIDE DEF n, r
<1>5. DOMAIN r = 1..(n - 1)
  BY <1>2, <1>4
<1>6. \A k \in DOMAIN r : k + 1 \in DOMAIN s /\ r[k] = s[k + 1]
  BY <1>1, <1>2, <1>4, <1>5
<1>7. \A k \in DOMAIN s : k = 1 \/ (k - 1 \in DOMAIN r /\ k = (k - 1) + 1)
  BY <1>1, <1>5
<1>8. \A k \in DOMAIN s : k = 1 \/ (k - 1 \in DOMAIN r /\ r[k - 1] = s[k])
  BY <1>6, <1>7
<1> QED
  BY <1>1, <1>2, <1>3, <1>6, <1>8 DEF r

LEMMA Rest ==
    ASSUME NEW S, NEW s \in Seq(S), s # <<>>
    PROVE  /\ \A i : Has(s, i) <=> i = Head(s) \/ Has(Tail(s), i)
           /\ Once(s) => Once(Tail(s)) /\ ~Has(Tail(s), Head(s))
<1>1. /\ Head(s) = s[1] /\ 1 \in DOMAIN s
      /\ \A k \in DOMAIN Tail(s) : k + 1 \in DOMAIN s /\ Tail(s)[k] = s[k + 1]
      /\ \A k \in DOMAIN s : k = 1 \/ (k - 1 \in DOMAIN Tail(s) /\ Tail(s)[k - 1] = s[k])
  BY FirstAndRest
<1>2. \A k \in DOMAIN Tail(s) : k \in Nat /\ k >= 1
  BY FirstAndRest, Placed
<1> HIDE DEF Has
<1>3. \A i : Has(s, i) <=> i = Head(s) \/ Has(Tail(s), i)
  BY <1>1 DEF Has
<1>4. ASSUME Once(s)
      PROVE  Once(Tail(s)) /\ ~Has(Tail(s), Head(s))
  <2>1. ASSUME NEW k \in DOMAIN Tail(s), NEW l \in DOMAIN Tail(s), Tail(s)[k] = Tail(s)[l]
        PROVE  k = l
    <3>1. k + 1 \in DOMAIN s /\ l + 1 \in DOMAIN s /\ s[k + 1] = s[l + 1]
      BY <1>1, <2>1
    <3>2. k + 1 = l + 1
      BY <1>4, <3>1 DEF Once
    <3> QED
      BY ONLY <1>2, <3>2, k \in DOMAIN Tail(s), l \in DOMAIN Tail(s)
  <2>2. ASSUME NEW k \in DOMAIN Tail(s), Tail(s)[k] = Head(s)
        PROVE  FALSE
    <3>1. k + 1 \in DOMAIN s /\ s[k + 1] = s[1]
      BY <1>1, <2>2
    <3>2. k + 1 = 1
      BY <1>1, <1>4, <3>1 DEF Once
    <3> QED
      BY ONLY <1>2, <3>2, k \in DOMAIN Tail(s)
  <2> QED
    BY <2>1, <2>2 DEF Once, Has
<1> QED
  BY <1>3, <1>4

\* The rows from m to n of a sequence.
LEMMA Stretch ==
    ASSUME NEW S, NEW s \in Seq(S), NEW m \in Int, NEW n \in Int, 1 <= m, n <= Len(s)
    PROVE  LET q == SubSeq(s, m, n) IN
             /\ q \in Seq(S) /\ Len(q) = IF m <= n THEN n - m + 1 ELSE 0
             /\ \A k \in DOMAIN q : m + k - 1 \in DOMAIN s /\ q[k] = s[m + k - 1]
             /\ \A k \in DOMAIN s : m <= k /\ k <= n =>
                  k - m + 1 \in DOMAIN q /\ q[k - m + 1] = s[k]
             /\ Once(s) => Once(q)
<1> DEFINE w == Len(s)
           q == SubSeq(s, m, n)
<1>1. w \in Nat /\ DOMAIN s = 1..w /\ \A k \in DOMAIN s : s[k] \in S
  BY Placed
<1>2. n <= w
  OBVIOUS
<1> HIDE DEF w
<1>3. \A k \in m..n : s[k] \in S
  BY <1>1, <1>2
<1>4. /\ q \in Seq(S) /\ Len(q) = IF m <= n THEN n - m + 1 ELSE 0
      /\ \A k \in 1..(n - m + 1) : q[k] = s[m + k - 1]
  BY <1>3, SubSeqProperties
<1>5. DOMAIN q = 1..Len(q)
  BY <1>4, Placed
<1> HIDE DEF q
<1>6. DOMAIN q = 1..(n - m + 1)
  BY <1>4, <1>5
<1>7. \A k \in DOMAIN q : k \in Nat /\ m + k - 1 \in DOMAIN s /\ q[k] = s[m + k - 1]
  BY <1>1, <1>2, <1>4, <1>6
<1>8. ASSUME NEW k \in DOMAIN s, m <= k, k <= n
      PROVE  k - m + 1 \in DOMAIN q /\ q[k - m + 1] = s[k]
  <2>1. k - m + 1 \in 1..(n - m + 1) /\ m + (k - m + 1) - 1 = k
    BY <1>1, <1>8
  <2> QED
    BY <1>6, <1>7, <2>1
<1>9. ASSUME Once(s), NEW k \in DOMAIN q, NEW l \in DOMAIN q, q[k] = q[l]
      PROVE  k = l
  <2>1. m + k - 1 = m + l - 1
    BY <1>7, <1>9 DEF Once
  <2>2. k \in Nat /\ l \in Nat
    BY <1>7
  <2> QED
    BY ONLY m \in Int, <2>1, <2>2
<1> QED
  BY <1>4, <1>7, <1>8, <1>9 DEF q, Once

\* The rows picked are those at the places asked for.
LEMMA PickedOnes ==
    ASSUME NEW S, NEW s \in Seq(S), NEW I, I \subseteq DOMAIN s
    PROVE  LET q == In!Pick(s, I) IN
             /\ q \in Seq(S)
             /\ \A x : Has(q, x) <=> \E i \in I : s[i] = x
             /\ (\A i, j \in I : s[i] = s[j] => i = j) => Once(q)
<1> DEFINE q == In!Pick(s, I)
<1>1. q \in Seq(S)
  BY PickedRows
<1>2. PICK f : /\ Lists(f, I, Upwards(I)) /\ DOMAIN f = DOMAIN q
               /\ \A k \in DOMAIN q : q[k] = s[f[k]]
  BY PickedRows
<1> HIDE DEF q
<1>3. \A x : Has(q, x) <=> \E i \in I : s[i] = x
  BY <1>2 DEF Has, Lists
<1>4. (\A i, j \in I : s[i] = s[j] => i = j) => Once(q)
  BY <1>2 DEF Once, Lists
<1> QED
  BY <1>1, <1>3, <1>4 DEF q

\* Of places in a sequence one is the last.
LEMMA LastPlace ==
    ASSUME NEW n \in Nat, NEW P, P # {}, P \subseteq 1..n
    PROVE  \E k \in P : \A l \in P : l <= k
<1> DEFINE T == {n - x : x \in P}
           R == {ss \in Nat \X Nat : ss[1] < ss[2]}
<1>1. \A x \in P : n - x \in Nat /\ x \in Nat
  OBVIOUS
<1>2. T \subseteq Nat /\ T # {}
  BY <1>1
<1>3. IsWellFoundedOn(R, Nat)
  BY NatLessThanWellFounded DEF OpToRel
<1> HIDE DEF T, R
<1>4. PICK m \in T : \A k \in T : <<k, m>> \notin R
  BY <1>2, <1>3, WFMin
<1>5. \A k \in T : k \in Nat /\ m \in Nat /\ ~(k < m)
  BY <1>2, <1>4 DEF R
<1>6. PICK k \in P : m = n - k
  BY DEF T
<1>7. ASSUME NEW l \in P
      PROVE  l <= k
  <2>1. n - l \in T
    BY DEF T
  <2>2. ~(n - l < n - k)
    BY <1>5, <1>6, <2>1
  <2> QED
    BY <1>1, <2>2
<1> QED
  BY <1>7

\* What the file holds after an update: every id once, the last of the new ones last.
LEMMA Updated ==
    ASSUME NEW s \in Seq(In!Ids), NEW ids \in Seq(In!Ids)
    PROVE  LET q == In!Update(s, ids) IN
             /\ q \in Seq(In!Ids) /\ Once(q)
             /\ \A x : Has(q, x) <=> Has(s, x) \/ Has(ids, x)
             /\ ids # <<>> => q # <<>> /\ q[Len(q)] = ids[Len(ids)]
<1> DEFINE all == s \o ids
           D == DOMAIN all
           I == {k \in D : \A l \in D : l > k => all[l] # all[k]}
           q == In!Pick(all, I)
           n == Len(s)
           m == Len(ids)
<1>1. In!Update(s, ids) = q
  BY DEF In!Update
<1>2. /\ n \in Nat /\ DOMAIN s = 1..n
      /\ m \in Nat /\ DOMAIN ids = 1..m /\ (ids # <<>> => m # 0)
  BY Placed, EmptySeq
<1>3. /\ all \in Seq(In!Ids) /\ Len(all) = n + m
      /\ \A k \in 1..(n + m) : all[k] = IF k <= n THEN s[k] ELSE ids[k - n]
  BY Zenon, ConcatProperties
<1> HIDE DEF all, n, m
<1>4. D = 1..(n + m) /\ n + m \in Nat
  BY <1>2, <1>3, Placed
<1>5. /\ q \in Seq(In!Ids)
      /\ \A x : Has(q, x) <=> \E k \in I : all[k] = x
      /\ (\A k, l \in I : all[k] = all[l] => k = l) => Once(q)
  <2>1. I \subseteq D
    OBVIOUS
  <2> HIDE DEF I
  <2> QED
    BY <1>3, <2>1, PickedOnes
<1>6. Once(q)
  <2>1. ASSUME NEW k \in I, NEW l \in I, all[k] = all[l]
        PROVE  k = l
    <3>1. k \in D /\ l \in D /\ ~(l > k) /\ ~(k > l)
      BY <2>1
    <3>2. k \in Nat /\ l \in Nat
      BY <1>4, <3>1
    <3> QED
      BY <3>1, <3>2
  <2> HIDE DEF I, q
  <2> QED
    BY <1>5, <2>1
<1>7. ASSUME NEW x, Has(all, x)
      PROVE  \E k \in I : all[k] = x
  <2> DEFINE P == {k \in D : all[k] = x}
  <2>1. P # {} /\ P \subseteq 1..(n + m)
    BY <1>4, <1>7 DEF Has
  <2>2. PICK k \in P : \A l \in P : l <= k
    <3> HIDE DEF P
    <3> QED
      BY <1>4, <2>1, LastPlace
  <2>3. ASSUME NEW l \in D, l > k
        PROVE  all[l] # all[k]
    <3>1. l \notin P
      BY <1>4, <2>2, <2>3
    <3> QED
      BY <2>2, <3>1
  <2> QED
    BY <2>2, <2>3
<1>8. \A x : Has(all, x) <=> Has(s, x) \/ Has(ids, x)
  <2> TAKE x
  <2>1. ASSUME NEW k \in D, all[k] = x
        PROVE  Has(s, x) \/ Has(ids, x)
    <3>1. CASE k <= n
      <4>1. k \in 1..n /\ s[k] = x
        BY <1>2, <1>3, <1>4, <2>1, <3>1
      <4> QED
        BY <1>2, <4>1 DEF Has
    <3>2. CASE ~(k <= n)
      <4>1. k - n \in 1..m /\ ids[k - n] = x
        BY <1>2, <1>3, <1>4, <2>1, <3>2
      <4> QED
        BY <1>2, <4>1 DEF Has
    <3> QED
      BY <3>1, <3>2
  <2>2. ASSUME NEW k \in DOMAIN s, s[k] = x
        PROVE  Has(all, x)
    <3>1. k \in D /\ all[k] = x
      BY <1>2, <1>3, <1>4, <2>2
    <3> QED
      BY <3>1 DEF Has
  <2>3. ASSUME NEW k \in DOMAIN ids, ids[k] = x
        PROVE  Has(all, x)
    <3>1. k + n \in D /\ all[k + n] = x
      <4>1. k \in 1..m /\ k + n \in 1..(n + m) /\ ~(k + n <= n) /\ (k + n) - n = k
        BY <1>2, <2>3
      <4> QED
        BY <1>3, <1>4, <2>3, <4>1
    <3> QED
      BY <3>1 DEF Has
  <2> QED
    BY <2>1, <2>2, <2>3 DEF Has
<1>9. \A x : Has(q, x) <=> Has(s, x) \/ Has(ids, x)
  <2>1. \A x : (\E k \in I : all[k] = x) => Has(all, x)
    BY DEF Has
  <2> HIDE DEF I, q
  <2> QED
    BY <1>5, <1>7, <1>8, <2>1
<1>10. ASSUME ids # <<>>
       PROVE  q # <<>> /\ q[Len(q)] = ids[m]
  <2>1. n + m \in D /\ all[n + m] = ids[m] /\ \A l \in D : l <= n + m
    <3>1. n + m \in 1..(n + m) /\ ~(n + m <= n) /\ (n + m) - n = m
      BY <1>2, <1>10
    <3> QED
      BY <1>2, <1>3, <1>4, <3>1
  <2>2. n + m \in I
    BY <1>2, <2>1, <1>4
  <2>3. PICK f : /\ Lists(f, I, Upwards(I)) /\ DOMAIN f = DOMAIN q
                 /\ \A k \in DOMAIN q : q[k] = all[f[k]]
    <3>1. I \subseteq DOMAIN all
      OBVIOUS
    <3> HIDE DEF I
    <3> QED
      BY <1>3, <3>1, PickedRows
  <2>4. \A k \in I : k <= n + m /\ k \in Nat
    BY <1>4, <2>1
  <2> HIDE DEF I, q
  <2>5. PICK k \in DOMAIN q : f[k] = n + m
    BY <2>2, <2>3 DEF Lists
  <2>6. Len(q) \in DOMAIN q /\ k <= Len(q)
    BY <1>5, Placed
  <2>7. f[k] \in I /\ f[Len(q)] \in I /\ f[k] <= f[Len(q)]
    BY <2>3, <2>5, <2>6 DEF Lists, Upwards
  <2>8. f[Len(q)] = n + m
    BY <2>4, <2>5, <2>7
  <2> QED
    BY <2>1, <2>3, <2>6, <2>8
<1> QED
  BY <1>1, <1>5, <1>6, <1>9, <1>10 DEF m

\* What is saved of the ids: no others, no more than fit, and the last one in any case.
LEMMA Saved ==
    ASSUME MaxSeen \in Nat \ {0}, NEW s \in Seq(In!Ids)
    PROVE  LET q == In!Newest(s) IN
             /\ q \in Seq(In!Ids) /\ Len(q) <= MaxSeen
             /\ \A x : Has(q, x) => Has(s, x)
             /\ Once(s) => Once(q)
             /\ s # <<>> => Has(q, s[Len(s)])
<1> DEFINE n == Len(s)
           m == n - MaxSeen + 1
           q == SubSeq(s, m, n)
<1>1. n \in Nat /\ DOMAIN s = 1..n /\ (s # <<>> => n # 0)
  BY Placed, EmptySeq
<1>2. CASE n > MaxSeen
  <2>1. In!Newest(s) = q
    BY <1>2 DEF In!Newest
  <2>2. m \in Int /\ n \in Int /\ 1 <= m /\ m <= n /\ n - m + 1 = MaxSeen
    BY <1>1, <1>2
  <2>3. n <= Len(s)
    BY <1>1
  <2> HIDE DEF n, m
  <2>4. /\ q \in Seq(In!Ids) /\ Len(q) = n - m + 1
        /\ \A k \in DOMAIN q : m + k - 1 \in DOMAIN s /\ q[k] = s[m + k - 1]
        /\ \A k \in DOMAIN s : m <= k /\ k <= n =>
             k - m + 1 \in DOMAIN q /\ q[k - m + 1] = s[k]
        /\ Once(s) => Once(q)
    BY <2>2, <2>3, Stretch
  <2> HIDE DEF q
  <2>5. \A x : Has(q, x) => Has(s, x)
    BY <2>4 DEF Has
  <2>6. n \in DOMAIN s
    BY <1>1, <2>2
  <2>7. Has(q, s[n])
    <3>1. m <= n /\ n <= n
      BY <2>2
    <3>2. n - m + 1 \in DOMAIN q /\ q[n - m + 1] = s[n]
      BY <2>4, <2>6, <3>1
    <3> QED
      BY <3>2 DEF Has
  <2>8. Len(q) <= MaxSeen
    BY <2>2, <2>4
  <2> QED
    BY <2>1, <2>4, <2>5, <2>7, <2>8 DEF n
<1>3. CASE ~(n > MaxSeen)
  <2>1. In!Newest(s) = s
    BY <1>3 DEF In!Newest
  <2>2. s # <<>> => n \in DOMAIN s
    BY <1>1
  <2> QED
    BY <1>1, <1>3, <2>1, <2>2 DEF Has
<1> QED
  BY <1>2, <1>3

\* What the filter keeps: the newest of what it is given, at most MaxPer.
LEMMA KeptNewest ==
    ASSUME Stamped, MaxPer \in Nat, NEW s \in Seq(In!Ids)
    PROVE  LET q == In!Keep(s) IN
             /\ q \in Seq(In!Ids)
             /\ \A x : Has(q, x) => Has(s, x)
             /\ \A x : Has(s, x) =>
                  Has(q, x) \/ \A k \in DOMAIN q : Messages[q[k]].ts >= Messages[x].ts
<1> DEFINE r == In!NewestFirst(s)
           n == IF Len(s) < MaxPer THEN Len(s) ELSE MaxPer
           q == SubSeq(r, 1, n)
<1>1. r \in Seq(In!Ids) /\ Len(r) = Len(s)
  BY SortedRows
<1>2. PICK f : /\ Lists(f, DOMAIN s, Downwards(s)) /\ DOMAIN f = DOMAIN r
               /\ \A k \in DOMAIN r : r[k] = s[f[k]]
  BY SortedRows
<1>3. In!Keep(s) = q
  BY DEF In!Keep
<1>4. Len(s) \in Nat /\ DOMAIN s = 1..Len(s) /\ n \in Nat /\ n <= Len(r)
  BY <1>1, Placed
<1>5. DOMAIN r = 1..Len(r) /\ \A k \in DOMAIN r : r[k] \in In!Ids
  BY <1>1, Placed
<1> HIDE DEF r, n
<1>6. /\ q \in Seq(In!Ids)
      /\ \A k \in DOMAIN q : 1 + k - 1 \in DOMAIN r /\ q[k] = r[1 + k - 1]
      /\ \A k \in DOMAIN r : 1 <= k /\ k <= n => k - 1 + 1 \in DOMAIN q /\ q[k - 1 + 1] = r[k]
      /\ DOMAIN q = 1..n
  <2>1. /\ q \in Seq(In!Ids) /\ Len(q) = IF 1 <= n THEN n - 1 + 1 ELSE 0
        /\ \A k \in DOMAIN q : 1 + k - 1 \in DOMAIN r /\ q[k] = r[1 + k - 1]
        /\ \A k \in DOMAIN r : 1 <= k /\ k <= n => k - 1 + 1 \in DOMAIN q /\ q[k - 1 + 1] = r[k]
    <3>1. 1 \in Int /\ n \in Int /\ 1 <= 1 /\ n <= Len(r)
      BY <1>4
    <3> QED
      BY <1>1, <3>1, Stretch
  <2>2. DOMAIN q = 1..Len(q)
    BY <2>1, Placed
  <2> HIDE DEF q
  <2>3. Len(q) = n
    BY <1>4, <2>1
  <2> QED
    BY <2>1, <2>2, <2>3
<1> HIDE DEF q
<1>7. \A k \in DOMAIN q : k \in DOMAIN r /\ q[k] = r[k] /\ k <= n
  BY <1>4, <1>6
<1>8. \A x : Has(q, x) => Has(s, x)
  BY <1>2, <1>7 DEF Has, Lists
<1>9. ASSUME NEW x, Has(s, x), ~Has(q, x), NEW k \in DOMAIN q
      PROVE  Messages[q[k]].ts >= Messages[x].ts
  <2>1. PICK i \in DOMAIN s : s[i] = x
    BY <1>9 DEF Has
  <2>2. PICK l \in DOMAIN r : f[l] = i
    BY <1>2 DEF Lists
  <2>3. r[l] = x
    BY <1>2, <2>1, <2>2
  <2>4. ~(l <= n)
    <3>1. ASSUME l <= n
          PROVE  FALSE
      <4>1. 1 <= l /\ l - 1 + 1 = l
        BY <1>1, <1>4, <1>5
      <4>2. l \in DOMAIN q /\ q[l] = x
        BY <1>6, <2>3, <3>1, <4>1
      <4> QED
        BY <1>9, <4>2 DEF Has
    <3> QED
      BY <3>1
  <2>5. k <= l
    BY <1>1, <1>4, <1>5, <1>7, <2>4
  <2>6. f[k] \in DOMAIN s /\ f[k] \in Downwards(s)[f[l]] /\ q[k] = s[f[k]]
    BY <1>2, <1>7, <2>5 DEF Lists
  <2>7. \/ Messages[s[f[k]]].ts > Messages[s[i]].ts
        \/ ~(Messages[s[i]].ts > Messages[s[f[k]]].ts)
    BY <2>2, <2>6 DEF Downwards
  <2>8. Messages[s[f[k]]].ts \in Int /\ Messages[s[i]].ts \in Int
    <3>1. s[f[k]] \in In!Ids /\ s[i] \in In!Ids
      BY <2>6, Placed
    <3> QED
      BY <3>1 DEF Stamped, In!Ids
  <2> QED
    BY <2>1, <2>6, <2>7, <2>8
<1> QED
  BY <1>3, <1>6, <1>8, <1>9

----------------------------------------------------------------------------
(* The webhook, Ingest.                                                      *)

\* The values of the constants: payloads hold messages, some file is kept.
IngestSound ==
    /\ IsFiniteSet(Hooks) /\ Batches \subseteq Seq(In!Ids) /\ Stamped
    /\ MaxAge \in Int /\ MaxPer \in Nat /\ MaxSeen \in Nat \ {0}
    /\ MaxTime \in Nat /\ MaxPosts \in Nat /\ MaxFaults \in Nat

Places == {"idle", "control", "claim", "execute", "filter", "filtered", "process", "queue"}
Request == [pc : Places, batch : Seq(In!Ids), todo : Seq(In!Ids), file : Seq(In!Ids)]
HookTypes == hook \in [Hooks -> Request]

\* What a filter may keep, at time t, of messages not in a file.
OfContact(i) ==
    Messages[i].chat = "contact" /\ ~Messages[i].echo /\ ~Messages[i].fromMe
Fits(i, file, t) == In!IsIngested(i) /\ OfContact(i) /\ Messages[i].ts >= t - MaxAge /\ ~Has(file, i)

\* What a request holds is what its place says: commands, or messages of contacts that
\* were kept, the newest; and its copy of the file names only what was taken (tk).
HandRight(r, tk, t) ==
    /\ r.pc \in {"control", "claim", "execute"} =>
         \A k \in DOMAIN r.todo : In!IsCommand(r.todo[k])
    /\ r.pc \in {"claim", "execute"} => r.todo # <<>>
    /\ r.pc \in {"filtered", "process", "queue"} =>
         \A k \in DOMAIN r.todo : OfContact(r.todo[k])
    /\ \A i : Has(r.file, i) => i \in tk \/ In!IsCommand(i)
    /\ r.pc = "filtered" =>
         \A k \in DOMAIN r.todo, i \in In!Ids :
            Has(r.batch, i) /\ Fits(i, r.file, t) =>
              Has(r.todo, i) \/ Messages[r.todo[k]].ts >= Messages[i].ts
HandsRight == \A h \in Hooks : HandRight(hook[h], taken, now)

\* A command is being run, or was, as often as it was claimed, and each claim beyond
\* the first had the file lose it.
Obeying(i, hs) == {h \in Hooks : hs[h].pc = "execute" /\ Head(hs[h].todo) = i}
InFile(s, i) == IF Has(s, i) THEN 1 ELSE 0
ClaimsPaid ==
    \A i \in In!Ids : executed[i] + Cardinality(Obeying(i, hook)) <= forgotten[i] + InFile(seen, i)

\* What was kept is finished, in hand, or lost.
Finished(i) == i \in timeline /\ (Messages[i].commits => i \in queued)
InHandOf(i, r) ==
    /\ Has(r.todo, i)
    /\ r.pc = "process" \/ (r.pc = "queue" /\ i \in timeline)
KeptInHand ==
    \A i \in taken \ missed : Finished(i) \/ \E h \in Hooks : InHandOf(i, hook[h])

SeenTaken == \A i : Has(seen, i) => i \in taken \/ In!IsCommand(i)

IngestInv ==
    In!TypeOK /\ HandsRight /\ ClaimsPaid /\ In!OnlyTheOwner /\ KeptInHand /\ SeenTaken

LEMMA Members == ASSUME NEW s, NEW i PROVE i \in In!ToSet(s) <=> Has(s, i)
BY DEF In!ToSet, Has

LEMMA PassesFits ==
    ASSUME NEW i, NEW file
    PROVE  Fits(i, file, now) <=> In!IsIngested(i) /\ In!Passes(i, file)
BY Members DEF Fits, OfContact, In!Passes, In!IsIngested

LEMMA TypesAre ==
    ASSUME In!TypeOK
    PROVE  /\ HookTypes
           /\ now \in Nat /\ posts \in Nat /\ failures \in Nat
           /\ seen \in Seq(In!Ids) /\ Once(seen)
           /\ executed \in [In!Ids -> Nat] /\ forgotten \in [In!Ids -> Nat]
BY DEF In!TypeOK, HookTypes, Request, Places, In!IsInjective, Once

\* An older file, an older clock or fewer taken ask no more of a request.
LEMMA StillRight ==
    ASSUME NEW r, NEW tk, NEW tk2, NEW t, NEW t2, t \in Int, t2 \in Int, t <= t2,
           tk \subseteq tk2, MaxAge \in Int, Stamped, HandRight(r, tk, t)
    PROVE  HandRight(r, tk2, t2)
<1>1. \A i \in In!Ids : \A file : Fits(i, file, t2) => Fits(i, file, t)
  BY DEF Fits, Stamped, In!Ids
<1> HIDE DEF Fits
<1> QED
  BY <1>1 DEF HandRight

\* A step of one request.
LEMMA OneHand ==
    ASSUME IngestSound, HookTypes, HandsRight, now \in Nat, NEW h \in Hooks, NEW r \in Request,
           hook' = [hook EXCEPT ![h] = r], UNCHANGED now, taken \subseteq taken',
           HandRight(r, taken', now)
    PROVE  HandsRight' /\ HookTypes' /\ hook'[h] = r /\ \A g \in Hooks : g # h => hook'[g] = hook[g]
<1>1. /\ hook' \in [Hooks -> Request] /\ hook'[h] = r
      /\ \A g \in Hooks : g # h => hook'[g] = hook[g]
  BY DEF HookTypes
<1>2. \A g \in Hooks : HandRight(hook'[g], taken', now)
  <2> TAKE g \in Hooks
  <2>1. HandRight(hook[g], taken, now)
    BY DEF HandsRight
  <2>2. HandRight(hook[g], taken', now)
    BY ONLY <2>1, StillRight, now \in Nat, taken \subseteq taken', IngestSound DEF IngestSound
  <2> QED
    BY <1>1, <2>2
<1> QED
  BY <1>1, <1>2 DEF HandsRight, HookTypes

\* The requests that run a command are a number.
LEMMA ObeyingCounted ==
    ASSUME IngestSound, NEW hs, NEW i
    PROVE  /\ IsFiniteSet(Obeying(i, hs)) /\ Cardinality(Obeying(i, hs)) \in Nat
           /\ \A S \in SUBSET Obeying(i, hs) : Cardinality(S) <= Cardinality(Obeying(i, hs))
<1>1. Obeying(i, hs) \subseteq Hooks /\ IsFiniteSet(Hooks)
  BY DEF Obeying, IngestSound
<1>2. IsFiniteSet(Obeying(i, hs))
  BY <1>1, FS_Subset
<1> HIDE DEF Obeying
<1> QED
  BY <1>2, FS_Subset, FS_CardinalityType

\* What the file loses is counted.
Counted == \A i \in In!Ids : forgotten[i] + InFile(seen, i) <= forgotten'[i] + InFile(seen', i)

\* Steps that run nothing and claim nothing for the message i.
LEMMA NoClaimOf ==
    ASSUME IngestSound, In!TypeOK, ClaimsPaid, NEW i \in In!Ids, forgotten' \in [In!Ids -> Nat],
           Counted, executed'[i] = executed[i], Obeying(i, hook') \subseteq Obeying(i, hook)
    PROVE  executed'[i] + Cardinality(Obeying(i, hook')) <= forgotten'[i] + InFile(seen', i)
<1>1. /\ Cardinality(Obeying(i, hook')) \in Nat /\ Cardinality(Obeying(i, hook)) \in Nat
      /\ Cardinality(Obeying(i, hook')) <= Cardinality(Obeying(i, hook))
  BY ObeyingCounted
<1>2. executed[i] + Cardinality(Obeying(i, hook)) <= forgotten[i] + InFile(seen, i)
  BY DEF ClaimsPaid
<1>3. forgotten[i] + InFile(seen, i) <= forgotten'[i] + InFile(seen', i)
  BY DEF Counted
<1>4. /\ executed[i] \in Nat /\ forgotten[i] \in Nat /\ InFile(seen, i) \in Nat
      /\ forgotten'[i] \in Nat /\ InFile(seen', i) \in Nat
  BY TypesAre DEF InFile
<1> QED
  BY <1>1, <1>2, <1>3, <1>4

LEMMA NoClaim ==
    ASSUME IngestSound, In!TypeOK, ClaimsPaid, UNCHANGED <<executed, forgotten, seen>>,
           \A g \in Hooks : hook'[g].pc = "execute" => hook'[g] = hook[g]
    PROVE  ClaimsPaid'
<1>1. Counted /\ forgotten' \in [In!Ids -> Nat]
  <2>1. forgotten \in [In!Ids -> Nat] /\ \A i : InFile(seen, i) \in Nat
    BY TypesAre DEF InFile
  <2> QED
    BY <2>1 DEF Counted
<1>2. \A i \in In!Ids : Obeying(i, hook') \subseteq Obeying(i, hook)
  BY DEF Obeying
<1> QED
  BY <1>1, <1>2, NoClaimOf DEF ClaimsPaid

\* Steps that keep nothing new: what was in hand stays so, is finished or is lost.
LEMMA KeptOn ==
    ASSUME KeptInHand, UNCHANGED taken, missed \subseteq missed',
           timeline \subseteq timeline', queued \subseteq queued',
           \A g \in Hooks : \A i : InHandOf(i, hook[g]) =>
              InHandOf(i, hook[g])' \/ Finished(i)' \/ i \in missed'
    PROVE  KeptInHand'
BY DEF KeptInHand, Finished

\* Steps that only turn a request to other work.
LEMMA Turned ==
    ASSUME IngestSound, IngestInv, NEW h \in Hooks, NEW r \in Request,
           hook' = [hook EXCEPT ![h] = r], HandRight(r, taken, now), r.pc # "execute",
           \A i : InHandOf(i, hook[h]) => InHandOf(i, r),
           UNCHANGED <<now, seen, In!stores, forgotten, failures>>, posts' \in 0..MaxPosts
    PROVE  IngestInv'
<1>1. /\ In!TypeOK /\ HandsRight /\ ClaimsPaid /\ In!OnlyTheOwner /\ KeptInHand /\ SeenTaken
      /\ HookTypes /\ now \in Nat
  BY TypesAre DEF IngestInv
<1>2. UNCHANGED <<now, seen, forgotten, failures, activity, executed, timeline, queued, taken, missed>>
  BY DEF In!stores
<1>3. /\ HandsRight' /\ HookTypes' /\ hook'[h] = r
      /\ \A g \in Hooks : g # h => hook'[g] = hook[g]
  BY <1>1, <1>2, OneHand
<1>4. In!TypeOK'
  BY <1>1, <1>2, <1>3 DEF In!TypeOK, HookTypes, Request, Places
<1>5. ClaimsPaid'
  BY <1>1, <1>2, <1>3, NoClaim
<1>6. In!OnlyTheOwner' /\ SeenTaken'
  BY <1>1, <1>2 DEF In!OnlyTheOwner, SeenTaken
<1>7. KeptInHand'
  <2>1. \A g \in Hooks : \A i : InHandOf(i, hook[g]) => InHandOf(i, hook[g])'
    BY <1>2, <1>3 DEF InHandOf
  <2> QED
    BY <1>1, <1>2, <2>1, KeptOn
<1> QED
  BY <1>3, <1>4, <1>5, <1>6, <1>7 DEF IngestInv

LEMMA IngestStarts == ASSUME IngestSound, In!Init PROVE IngestInv
<1>1. <<>> \in Seq(In!Ids) /\ Len(<<>>) = 0 /\ DOMAIN <<>> = {}
  OBVIOUS
<1>2. \A h \in Hooks : hook[h] = [pc |-> "idle", batch |-> <<>>, todo |-> <<>>, file |-> <<>>]
  BY DEF In!Init, In!Idle
<1>3. In!TypeOK
  <2>1. hook \in [Hooks -> Request]
    BY <1>1 DEF In!Init, In!Idle, Request, Places
  <2> QED
    BY <1>1, <2>1 DEF In!Init, In!TypeOK, Request, Places, In!IsInjective, IngestSound
<1>4. HandsRight
  BY <1>1, <1>2 DEF HandsRight, HandRight, Has
<1>5. ClaimsPaid
  <2> SUFFICES ASSUME NEW i \in In!Ids
               PROVE  executed[i] + Cardinality(Obeying(i, hook)) <= forgotten[i] + InFile(seen, i)
    BY DEF ClaimsPaid
  <2>1. Obeying(i, hook) = {}
    BY <1>2 DEF Obeying
  <2>2. executed[i] = 0 /\ forgotten[i] = 0 /\ InFile(seen, i) \in Nat
    BY DEF In!Init, InFile
  <2> QED
    BY <2>1, <2>2, FS_EmptySet
<1>6. In!OnlyTheOwner /\ KeptInHand /\ SeenTaken
  BY <1>1 DEF In!Init, In!OnlyTheOwner, KeptInHand, SeenTaken, Has
<1> QED
  BY <1>3, <1>4, <1>5, <1>6 DEF IngestInv

\* What a request may find of the file.
LEMMA CopiesRight ==
    ASSUME In!TypeOK, SeenTaken, NEW h, NEW file \in In!Copies(h)
    PROVE  file \in Seq(In!Ids) /\ \A i : Has(file, i) => i \in taken \/ In!IsCommand(i)
<1>1. file = seen \/ file = <<>>
  BY DEF In!Copies
<1>2. <<>> \in Seq(In!Ids) /\ \A i : ~Has(<<>>, i)
  BY DEF Has
<1> QED
  BY <1>1, <1>2, TypesAre DEF SeenTaken

LEMMA Posted ==
    ASSUME IngestSound, IngestInv, NEW h \in Hooks, NEW b \in Batches, In!Post(h, b)
    PROVE  IngestInv'
<1> DEFINE I == {k \in DOMAIN b : In!IsCommand(b[k])}
           q == In!Pick(b, I)
           r == [In!Idle EXCEPT !.pc = "control", !.batch = b, !.todo = q]
<1>1. hook' = [hook EXCEPT ![h] = r]
  BY DEF In!Post, In!Those
<1>2. b \in Seq(In!Ids) /\ <<>> \in Seq(In!Ids)
  BY DEF IngestSound
<1>3. q \in Seq(In!Ids) /\ \A x : Has(q, x) => In!IsCommand(x)
  <2>1. I \subseteq DOMAIN b /\ \A i \in I : In!IsCommand(b[i])
    OBVIOUS
  <2> HIDE DEF I
  <2>2. q \in Seq(In!Ids) /\ \A x : Has(q, x) <=> \E i \in I : b[i] = x
    BY <1>2, <2>1, PickedOnes
  <2> HIDE DEF q
  <2> QED
    BY <2>1, <2>2
<1> HIDE DEF q
<1>4. r \in Request /\ r.pc = "control" /\ r.todo = q /\ r.file = <<>>
  BY <1>2, <1>3 DEF Request, Places, In!Idle
<1> HIDE DEF r
<1>5. HandRight(r, taken, now)
  BY <1>3, <1>4 DEF HandRight, Has
<1>6. \A i : InHandOf(i, hook[h]) => InHandOf(i, r)
  BY DEF InHandOf, In!Post
<1>7. posts' \in 0..MaxPosts
  <2>1. posts \in Nat /\ MaxPosts \in Nat /\ posts < MaxPosts /\ posts' = posts + 1
    BY TypesAre DEF IngestInv, IngestSound, In!Post
  <2> QED
    BY <2>1
<1>8. UNCHANGED <<now, seen, In!stores, forgotten, failures>>
  BY DEF In!Post, In!stores
<1> QED
  BY <1>1, <1>4, <1>5, <1>6, <1>7, <1>8, Turned

\* A request that looks up a command in the file.
LEMMA ClaimLoaded ==
    ASSUME IngestSound, IngestInv, NEW h \in Hooks, In!ClaimLoad(h)
    PROVE  IngestInv'
<1>1. PICK file \in In!Copies(h) :
        hook' = IF Head(hook[h].todo) \in In!ToSet(file)
                THEN [hook EXCEPT ![h].todo = Tail(@)]
                ELSE [hook EXCEPT ![h].pc = "claim", ![h].file = file]
  BY DEF In!ClaimLoad
<1>2. PICK c : c = hook[h]
  OBVIOUS
<1>3. /\ c \in Request /\ HandRight(c, taken, now)
      /\ c.pc = "control" /\ c.todo # <<>> /\ c.todo \in Seq(In!Ids)
      /\ posts' \in 0..MaxPosts /\ UNCHANGED <<now, seen, In!stores, forgotten, failures>>
      /\ file \in Seq(In!Ids) /\ \A i : Has(file, i) => i \in taken \/ In!IsCommand(i)
  <2>1. c \in Request /\ HandRight(c, taken, now)
    BY <1>2, TypesAre DEF IngestInv, HandsRight, HookTypes
  <2>2. c.todo \in Seq(In!Ids)
    BY <2>1 DEF Request
  <2> QED
    BY <1>2, <2>1, <2>2, CopiesRight DEF IngestInv, In!ClaimLoad, In!stores, In!TypeOK
<1>4. CASE Head(c.todo) \in In!ToSet(file)
  <2> DEFINE r == [c EXCEPT !.todo = Tail(c.todo)]
  <2>1. hook' = [hook EXCEPT ![h] = r]
    BY <1>1, <1>2, <1>4
  <2>2. /\ Tail(c.todo) \in Seq(In!Ids)
        /\ \A k \in DOMAIN Tail(c.todo) : k + 1 \in DOMAIN c.todo /\ Tail(c.todo)[k] = c.todo[k + 1]
    BY <1>3, FirstAndRest
  <2>3. r \in Request /\ r.pc = "control" /\ r.todo = Tail(c.todo) /\ r.file = c.file
    BY <1>3, <2>2 DEF Request, Places
  <2> HIDE DEF r
  <2>4. HandRight(r, taken, now)
    BY <1>3, <2>2, <2>3 DEF HandRight
  <2>5. \A i : InHandOf(i, hook[h]) => InHandOf(i, r)
    BY <1>2, <1>3 DEF InHandOf
  <2> QED
    BY <1>3, <2>1, <2>3, <2>4, <2>5, Turned
<1>5. CASE Head(c.todo) \notin In!ToSet(file)
  <2> DEFINE r == [c EXCEPT !.pc = "claim", !.file = file]
  <2>1. hook' = [hook EXCEPT ![h] = r]
    BY <1>1, <1>2, <1>5
  <2>2. r \in Request /\ r.pc = "claim" /\ r.todo = c.todo /\ r.file = file
    BY <1>3 DEF Request, Places
  <2> HIDE DEF r
  <2>3. HandRight(r, taken, now)
    BY <1>3, <2>2 DEF HandRight
  <2>4. \A i : InHandOf(i, hook[h]) => InHandOf(i, r)
    BY <1>2, <1>3 DEF InHandOf
  <2> QED
    BY <1>3, <2>1, <2>2, <2>3, <2>4, Turned
<1> QED
  BY <1>4, <1>5

LEMMA Answered ==
    ASSUME IngestSound, IngestInv, NEW h \in Hooks, In!Answer(h)
    PROVE  IngestInv'
<1> DEFINE r == [pc |-> "idle", batch |-> <<>>, todo |-> <<>>, file |-> <<>>]
<1>1. hook' = [hook EXCEPT ![h] = r]
  BY DEF In!Answer, In!Idle
<1>2. r \in Request /\ HandRight(r, taken, now) /\ r.pc # "execute"
  BY DEF Request, Places, HandRight, Has
<1>3. \A i : ~InHandOf(i, hook[h])
  BY DEF In!Answer, InHandOf, Has
<1>4. posts' \in 0..MaxPosts /\ UNCHANGED <<now, seen, In!stores, forgotten, failures>>
  BY DEF In!Answer, In!stores, IngestInv, In!TypeOK
<1> HIDE DEF r
<1> QED
  BY <1>1, <1>2, <1>3, <1>4, Turned

LEMMA Tracked ==
    ASSUME IngestSound, IngestInv, NEW h \in Hooks, In!Track(h)
    PROVE  IngestInv'
<1>1. PICK c : c = hook[h]
  OBVIOUS
<1>2. c \in Request /\ HandRight(c, taken, now) /\ c.pc = "control" /\ c.batch \in Seq(In!Ids)
  <2>1. c \in Request /\ HandRight(c, taken, now)
    BY <1>1, TypesAre DEF IngestInv, HandsRight, HookTypes
  <2> QED
    BY <1>1, <2>1 DEF In!Track, Request
<1>3. /\ In!TypeOK /\ HandsRight /\ ClaimsPaid /\ In!OnlyTheOwner /\ KeptInHand /\ SeenTaken
      /\ HookTypes /\ now \in Nat
  BY TypesAre DEF IngestInv
<1>4. /\ UNCHANGED <<now, seen, executed, timeline, queued, taken, missed, forgotten, posts>>
      /\ c.todo = <<>>
  BY <1>1 DEF In!Track
<1> DEFINE r == [c EXCEPT !.pc = "filter"]
<1>5. hook' = [hook EXCEPT ![h] = r]
  BY <1>1 DEF In!Track
<1>6. r \in Request /\ r.pc = "filter" /\ r.todo = c.todo /\ r.file = c.file
  BY <1>2 DEF Request, Places
<1> HIDE DEF r
<1>7. HandRight(r, taken, now)
  BY <1>2, <1>6 DEF HandRight
<1>8. /\ HandsRight' /\ HookTypes' /\ hook'[h] = r
      /\ \A g \in Hooks : g # h => hook'[g] = hook[g]
  BY <1>3, <1>4, <1>5, <1>6, <1>7, OneHand
<1>9. /\ activity' \subseteq In!Ids /\ failures' \in 0..MaxFaults
      /\ \A i \in activity' : i \in activity \/ Messages[i].chat \in {"contact", "group"}
  <2>1. CASE /\ activity' = activity \cup
                  {i \in In!ToSet(hook[h].batch) : Messages[i].chat \in {"contact", "group"}}
             /\ UNCHANGED failures
    <3>1. \A i \in In!ToSet(hook[h].batch) : i \in In!Ids
      BY <1>1, <1>2 DEF In!ToSet
    <3> QED
      BY <1>3, <2>1, <3>1 DEF In!TypeOK
  <2>2. CASE failures < MaxFaults /\ failures' = failures + 1 /\ UNCHANGED activity
    <3>1. failures \in 0..MaxFaults /\ MaxFaults \in Nat /\ activity \subseteq In!Ids
      BY <1>3 DEF In!TypeOK, IngestSound
    <3> QED
      BY <2>2, <3>1
  <2> QED
    BY <2>1, <2>2 DEF In!Track
<1>10. In!TypeOK'
  BY <1>3, <1>4, <1>8, <1>9 DEF In!TypeOK, HookTypes, Request, Places
<1>11. ClaimsPaid'
  BY <1>3, <1>4, <1>6, <1>8, NoClaim
<1>12. In!OnlyTheOwner' /\ SeenTaken'
  BY <1>3, <1>4, <1>9 DEF In!OnlyTheOwner, SeenTaken
<1>13. KeptInHand'
  <2>1. \A g \in Hooks : \A i : InHandOf(i, hook[g]) => InHandOf(i, hook[g])'
    BY <1>1, <1>2, <1>4, <1>8 DEF InHandOf
  <2> QED
    BY <1>3, <1>4, <2>1, KeptOn
<1> QED
  BY <1>8, <1>10, <1>11, <1>12, <1>13 DEF IngestInv

\* What the filter is offered, and what passes it.
LEMMA Offered ==
    ASSUME IngestSound, NEW b \in Seq(In!Ids), NEW file
    PROVE  LET a == In!Pick(b, {k \in DOMAIN b : In!IsIngested(b[k])})
               q == In!Keep(In!Pick(a, {k \in DOMAIN a : In!Passes(a[k], file)}))
           IN
             /\ q \in Seq(In!Ids)
             /\ \A k \in DOMAIN q : OfContact(q[k])
             /\ \A k \in DOMAIN q, i \in In!Ids :
                  Has(b, i) /\ Fits(i, file, now) =>
                    Has(q, i) \/ Messages[q[k]].ts >= Messages[i].ts
<1> DEFINE I == {k \in DOMAIN b : In!IsIngested(b[k])}
           a == In!Pick(b, I)
           J == {k \in DOMAIN a : In!Passes(a[k], file)}
           s == In!Pick(a, J)
           q == In!Keep(s)
<1>3. a \in Seq(In!Ids) /\ \A x : Has(a, x) <=> Has(b, x) /\ In!IsIngested(x)
  <2>1. I \subseteq DOMAIN b /\ \A x : (\E i \in I : b[i] = x) <=> Has(b, x) /\ In!IsIngested(x)
    BY DEF Has
  <2> HIDE DEF I
  <2> QED
    BY <2>1, PickedOnes
<1> HIDE DEF a
<1>4. s \in Seq(In!Ids) /\ \A x : Has(s, x) <=> Has(a, x) /\ In!Passes(x, file)
  <2>1. J \subseteq DOMAIN a /\ \A x : (\E i \in J : a[i] = x) <=> Has(a, x) /\ In!Passes(x, file)
    BY DEF Has
  <2> HIDE DEF J
  <2> QED
    BY <1>3, <2>1, PickedOnes
<1> HIDE DEF s
<1>5. \A x : Has(s, x) <=> Has(b, x) /\ Fits(x, file, now)
  BY <1>3, <1>4, PassesFits
<1>6. /\ q \in Seq(In!Ids)
      /\ \A x : Has(q, x) => Has(s, x)
      /\ \A x : Has(s, x) => Has(q, x) \/ \A k \in DOMAIN q : Messages[q[k]].ts >= Messages[x].ts
  BY <1>4, KeptNewest DEF IngestSound
<1> HIDE DEF q
<1>7. \A k \in DOMAIN q : Has(q, q[k])
  BY DEF Has
<1>8. \A x, k : Fits(x, file, now) => OfContact(x)
  BY DEF Fits
<1>9. \A k \in DOMAIN q : OfContact(q[k])
  BY <1>5, <1>6, <1>7, <1>8
<1>10. \A k \in DOMAIN q, i \in In!Ids :
         Has(b, i) /\ Fits(i, file, now) => Has(q, i) \/ Messages[q[k]].ts >= Messages[i].ts
  BY <1>5, <1>6
<1> QED
  BY <1>6, <1>9, <1>10 DEF q, s, a

LEMMA FilterLoaded ==
    ASSUME IngestSound, IngestInv, NEW h \in Hooks, In!FilterLoad(h)
    PROVE  IngestInv'
<1>1. PICK c : c = hook[h]
  OBVIOUS
<1> DEFINE offered == In!Those(c.batch, In!IsIngested)
           q(file) == In!Keep(In!Those(offered, LAMBDA i : In!Passes(i, file)))
           r(file) == [c EXCEPT !.pc = "filtered", !.file = file, !.todo = q(file)]
<1>2. PICK file \in In!Copies(h) :
        hook' = [hook EXCEPT ![h] = IF offered = <<>> THEN In!Idle ELSE r(file)]
  BY <1>1 DEF In!FilterLoad
<1>3. /\ c \in Request /\ c.pc = "filter" /\ c.batch \in Seq(In!Ids)
      /\ posts' \in 0..MaxPosts /\ UNCHANGED <<now, seen, In!stores, forgotten, failures>>
      /\ file \in Seq(In!Ids) /\ \A i : Has(file, i) => i \in taken \/ In!IsCommand(i)
  <2>1. c \in Request
    BY <1>1, TypesAre DEF IngestInv, HookTypes
  <2>2. c.batch \in Seq(In!Ids)
    BY <2>1 DEF Request
  <2> QED
    BY <1>1, <2>1, <2>2, CopiesRight DEF IngestInv, In!FilterLoad, In!stores, In!TypeOK
<1>4. \A i : ~InHandOf(i, hook[h])
  BY <1>1, <1>3 DEF InHandOf
<1>5. CASE offered = <<>>
  <2> DEFINE idle == In!Idle
  <2>1. idle \in Request /\ HandRight(idle, taken, now) /\ idle.pc # "execute"
    BY DEF Request, Places, HandRight, Has, In!Idle
  <2>2. hook' = [hook EXCEPT ![h] = idle]
    BY <1>2, <1>5
  <2> HIDE DEF idle
  <2> QED
    BY <1>3, <1>4, <2>1, <2>2, Turned
<1>6. CASE offered # <<>>
  <2> DEFINE z == r(file)
  <2>1. hook' = [hook EXCEPT ![h] = z]
    BY <1>2, <1>6
  <2>2. /\ q(file) \in Seq(In!Ids)
        /\ \A k \in DOMAIN q(file) : OfContact(q(file)[k])
        /\ \A k \in DOMAIN q(file), i \in In!Ids :
             Has(c.batch, i) /\ Fits(i, file, now) =>
               Has(q(file), i) \/ Messages[q(file)[k]].ts >= Messages[i].ts
    <3>1. q(file) = LET a == In!Pick(c.batch, {k \in DOMAIN c.batch : In!IsIngested(c.batch[k])})
                    IN  In!Keep(In!Pick(a, {k \in DOMAIN a : In!Passes(a[k], file)}))
      BY DEF In!Those
    <3> HIDE DEF q
    <3> QED
      BY <1>3, <3>1, Offered
  <2> HIDE DEF q
  <2>3. /\ z \in Request /\ z.pc = "filtered" /\ z.todo = q(file) /\ z.file = file
        /\ z.batch = c.batch
    BY <1>3, <2>2 DEF Request, Places
  <2> HIDE DEF z
  <2>4. HandRight(z, taken, now)
    BY <1>3, <2>2, <2>3 DEF HandRight
  <2> QED
    BY <1>3, <1>4, <2>1, <2>3, <2>4, Turned
<1> QED
  BY <1>5, <1>6

\* The timeline of what was kept, and of it what commits.
LEMMA Processed ==
    ASSUME IngestSound, IngestInv, NEW h \in Hooks, In!Process(h)
    PROVE  IngestInv'
<1>1. PICK c : c = hook[h]
  OBVIOUS
<1>2. c \in Request /\ HandRight(c, taken, now) /\ c.pc = "process" /\ c.todo \in Seq(In!Ids)
  <2>1. c \in Request /\ HandRight(c, taken, now)
    BY <1>1, TypesAre DEF IngestInv, HandsRight, HookTypes
  <2> QED
    BY <1>1, <2>1 DEF In!Process, Request
<1>3. /\ In!TypeOK /\ HandsRight /\ ClaimsPaid /\ In!OnlyTheOwner /\ KeptInHand /\ SeenTaken
      /\ HookTypes /\ now \in Nat
  BY TypesAre DEF IngestInv
<1> DEFINE I == {k \in DOMAIN c.todo : Messages[c.todo[k]].commits}
           q == In!Pick(c.todo, I)
           r == [c EXCEPT !.pc = "queue", !.todo = q]
<1>4. /\ UNCHANGED <<now, seen, activity, executed, queued, taken, missed, forgotten, posts, failures>>
      /\ timeline' = timeline \cup In!ToSet(c.todo)
  BY <1>1 DEF In!Process
<1>5. hook' = [hook EXCEPT ![h] = r]
  BY <1>1 DEF In!Process, In!Those
<1>6. q \in Seq(In!Ids) /\ \A x : Has(q, x) <=> Has(c.todo, x) /\ Messages[x].commits
  <2>1. I \subseteq DOMAIN c.todo /\ \A x : (\E i \in I : c.todo[i] = x) <=> Has(c.todo, x) /\ Messages[x].commits
    BY DEF Has
  <2> HIDE DEF I
  <2> QED
    BY <1>2, <2>1, PickedOnes
<1> HIDE DEF q
<1>7. r \in Request /\ r.pc = "queue" /\ r.todo = q /\ r.file = c.file
  BY <1>2, <1>6 DEF Request, Places
<1> HIDE DEF r
<1>8. \A x : Has(c.todo, x) => OfContact(x) /\ x \in In!Ids
  <2>1. \A k \in DOMAIN c.todo : OfContact(c.todo[k]) /\ c.todo[k] \in In!Ids
    BY <1>2 DEF HandRight
  <2> QED
    BY <2>1 DEF Has
<1>9. HandRight(r, taken, now)
  <2>1. \A k \in DOMAIN q : Has(q, q[k])
    BY DEF Has
  <2> QED
    BY <1>2, <1>6, <1>7, <1>8, <2>1 DEF HandRight
<1>10. /\ HandsRight' /\ HookTypes' /\ hook'[h] = r
       /\ \A g \in Hooks : g # h => hook'[g] = hook[g]
  BY <1>3, <1>4, <1>5, <1>7, <1>9, OneHand
<1>11. \A i : i \in timeline' <=> i \in timeline \/ Has(c.todo, i)
  BY <1>4, Members
<1>12. In!TypeOK'
  BY <1>3, <1>4, <1>8, <1>10, <1>11 DEF In!TypeOK, HookTypes, Request, Places
<1>13. ClaimsPaid'
  BY <1>3, <1>4, <1>7, <1>10, NoClaim
<1>14. In!OnlyTheOwner' /\ SeenTaken'
  BY <1>3, <1>4, <1>8, <1>11 DEF In!OnlyTheOwner, SeenTaken, OfContact
<1>15. KeptInHand'
  <2>1. ASSUME NEW g \in Hooks, NEW i, InHandOf(i, hook[g])
        PROVE  InHandOf(i, hook[g])' \/ Finished(i)'
    <3>1. CASE g = h
      <4>1. Has(c.todo, i) /\ i \in timeline'
        BY <1>1, <1>11, <2>1, <3>1 DEF InHandOf
      <4>2. CASE Messages[i].commits
        BY <1>6, <1>7, <1>10, <3>1, <4>1, <4>2 DEF InHandOf
      <4>3. CASE ~Messages[i].commits
        BY <4>1, <4>3 DEF Finished
      <4> QED
        BY <4>2, <4>3
    <3>2. CASE g # h
      BY <1>4, <1>10, <2>1, <3>2 DEF InHandOf
    <3> QED
      BY <3>1, <3>2
  <2> QED
    BY <1>3, <1>4, <2>1, KeptOn
<1> QED
  BY <1>10, <1>12, <1>13, <1>14, <1>15 DEF IngestInv

LEMMA QueuedOne ==
    ASSUME IngestSound, IngestInv, NEW h \in Hooks, In!Queue(h)
    PROVE  IngestInv'
<1>1. PICK c : c = hook[h]
  OBVIOUS
<1>2. /\ c \in Request /\ HandRight(c, taken, now) /\ c.pc = "queue"
      /\ c.todo \in Seq(In!Ids) /\ c.todo # <<>>
  <2>1. c \in Request /\ HandRight(c, taken, now)
    BY <1>1, TypesAre DEF IngestInv, HandsRight, HookTypes
  <2> QED
    BY <1>1, <2>1 DEF In!Queue, Request
<1>3. /\ In!TypeOK /\ HandsRight /\ ClaimsPaid /\ In!OnlyTheOwner /\ KeptInHand /\ SeenTaken
      /\ HookTypes /\ now \in Nat
  BY TypesAre DEF IngestInv
<1> DEFINE q == Tail(c.todo)
           r == [c EXCEPT !.todo = q]
           i0 == Head(c.todo)
<1>4. /\ UNCHANGED <<now, seen, activity, executed, timeline, taken, missed, forgotten, posts, failures>>
      /\ queued' = queued \cup {i0}
  BY <1>1 DEF In!Queue
<1>5. hook' = [hook EXCEPT ![h] = r]
  BY <1>1 DEF In!Queue
<1>6. /\ q \in Seq(In!Ids) /\ i0 \in In!Ids /\ OfContact(i0)
      /\ \A k \in DOMAIN q : OfContact(q[k])
      /\ \A x : Has(c.todo, x) <=> x = i0 \/ Has(q, x)
  <2>1. /\ q \in Seq(In!Ids) /\ i0 \in In!Ids /\ i0 = c.todo[1] /\ 1 \in DOMAIN c.todo
        /\ \A k \in DOMAIN q : k + 1 \in DOMAIN c.todo /\ q[k] = c.todo[k + 1]
    BY <1>2, FirstAndRest
  <2>2. \A x : Has(c.todo, x) <=> x = i0 \/ Has(q, x)
    BY <1>2, Rest
  <2> HIDE DEF q, i0
  <2> QED
    BY <1>2, <2>1, <2>2 DEF HandRight
<1> HIDE DEF q, i0
<1>7. r \in Request /\ r.pc = "queue" /\ r.todo = q /\ r.file = c.file
  BY <1>2, <1>6 DEF Request, Places
<1> HIDE DEF r
<1>8. HandRight(r, taken, now)
  BY <1>2, <1>6, <1>7 DEF HandRight
<1>9. /\ HandsRight' /\ HookTypes' /\ hook'[h] = r
      /\ \A g \in Hooks : g # h => hook'[g] = hook[g]
  BY <1>3, <1>4, <1>5, <1>7, <1>8, OneHand
<1>10. In!TypeOK'
  BY <1>3, <1>4, <1>6, <1>9 DEF In!TypeOK, HookTypes, Request, Places
<1>11. ClaimsPaid'
  BY <1>3, <1>4, <1>7, <1>9, NoClaim
<1>12. In!OnlyTheOwner' /\ SeenTaken'
  BY <1>3, <1>4, <1>6 DEF In!OnlyTheOwner, SeenTaken, OfContact
<1>13. KeptInHand'
  <2>1. ASSUME NEW g \in Hooks, NEW i, InHandOf(i, hook[g])
        PROVE  InHandOf(i, hook[g])' \/ Finished(i)'
    <3>1. CASE g = h
      <4>1. (i = i0 \/ Has(q, i)) /\ i \in timeline
        BY <1>1, <1>2, <1>6, <2>1, <3>1 DEF InHandOf
      <4> QED
        BY <1>4, <1>7, <1>9, <3>1, <4>1 DEF InHandOf, Finished
    <3>2. CASE g # h
      BY <1>4, <1>9, <2>1, <3>2 DEF InHandOf
    <3> QED
      BY <3>1, <3>2
  <2> QED
    BY <1>3, <1>4, <2>1, KeptOn
<1> QED
  BY <1>9, <1>10, <1>11, <1>12, <1>13 DEF IngestInv

LEMMA IdleRight ==
    ASSUME NEW t
    PROVE In!Idle \in Request /\ HandRight(In!Idle, taken', t) /\ In!Idle.pc = "idle"
BY DEF Request, Places, HandRight, Has, In!Idle

\* An insert raised: what the request still held is lost.
LEMMA GivenUp ==
    ASSUME IngestSound, IngestInv, NEW h \in Hooks, In!QueueFails(h)
    PROVE  IngestInv'
<1>1. /\ In!TypeOK /\ HandsRight /\ ClaimsPaid /\ In!OnlyTheOwner /\ KeptInHand /\ SeenTaken
      /\ HookTypes /\ now \in Nat
  BY TypesAre DEF IngestInv
<1>2. /\ UNCHANGED <<now, seen, activity, executed, timeline, queued, taken, forgotten, posts>>
      /\ hook' = [hook EXCEPT ![h] = In!Idle]
      /\ missed' = missed \cup In!ToSet(hook[h].todo) /\ failures < MaxFaults /\ failures' = failures + 1
  BY DEF In!QueueFails
<1>3. /\ HandsRight' /\ HookTypes' /\ hook'[h] = In!Idle
      /\ \A g \in Hooks : g # h => hook'[g] = hook[g]
  BY <1>1, <1>2, IdleRight, OneHand
<1>4. \A i : i \in missed' <=> i \in missed \/ Has(hook[h].todo, i)
  BY <1>2, Members
<1>5. In!TypeOK'
  <2>1. failures \in 0..MaxFaults /\ MaxFaults \in Nat
    BY <1>1 DEF In!TypeOK, IngestSound
  <2>2. failures' \in 0..MaxFaults
    BY <1>2, <2>1
  <2>3. hook[h].todo \in Seq(In!Ids)
    BY <1>1 DEF HookTypes, Request
  <2>4. \A i : Has(hook[h].todo, i) => i \in In!Ids
    BY <2>3, Placed DEF Has
  <2> QED
    BY <1>1, <1>2, <1>3, <1>4, <2>2, <2>4 DEF In!TypeOK, HookTypes, Request, Places
<1>6. ClaimsPaid'
  BY <1>1, <1>2, <1>3, IdleRight, NoClaim
<1>7. In!OnlyTheOwner' /\ SeenTaken'
  BY <1>1, <1>2 DEF In!OnlyTheOwner, SeenTaken
<1>8. KeptInHand'
  <2>1. \A g \in Hooks : \A i : InHandOf(i, hook[g]) => InHandOf(i, hook[g])' \/ i \in missed'
    BY <1>2, <1>3, <1>4 DEF InHandOf
  <2> QED
    BY <1>1, <1>2, <1>4, <2>1, KeptOn
<1> QED
  BY <1>3, <1>5, <1>6, <1>7, <1>8 DEF IngestInv

\* The agent stops: what its requests had kept and not finished is lost.
LEMMA Restarted ==
    ASSUME IngestSound, IngestInv, In!Restart
    PROVE  IngestInv'
<1>1. /\ In!TypeOK /\ HandsRight /\ ClaimsPaid /\ In!OnlyTheOwner /\ KeptInHand /\ SeenTaken
      /\ HookTypes /\ now \in Nat
  BY TypesAre DEF IngestInv
<1>2. /\ UNCHANGED <<now, seen, activity, executed, timeline, queued, taken, forgotten, posts>>
      /\ hook' = [h \in Hooks |-> In!Idle] /\ failures < MaxFaults /\ failures' = failures + 1
  BY DEF In!Restart
<1>3. /\ \A g \in Hooks : \A i : InHandOf(i, hook[g]) => i \in missed'
      /\ missed \subseteq missed'
      /\ \A i \in missed' : i \in missed \/ \E g \in Hooks : Has(hook[g].todo, i)
  BY Members DEF In!Restart, InHandOf
<1>4. HandsRight' /\ HookTypes' /\ \A g \in Hooks : hook'[g] = In!Idle
  <2>1. \A g \in Hooks : hook'[g] = In!Idle
    BY <1>2
  <2>2. HookTypes'
    BY <1>2, IdleRight DEF HookTypes
  <2> QED
    BY <2>1, <2>2, IdleRight DEF HandsRight
<1>5. In!TypeOK'
  <2>1. failures \in 0..MaxFaults /\ MaxFaults \in Nat
    BY <1>1 DEF In!TypeOK, IngestSound
  <2>2. failures' \in 0..MaxFaults
    BY <1>2, <2>1
  <2>3. \A g \in Hooks : hook[g].todo \in Seq(In!Ids)
    BY <1>1 DEF HookTypes, Request
  <2>4. \A g \in Hooks : \A i : Has(hook[g].todo, i) => i \in In!Ids
    BY <2>3, Placed DEF Has
  <2>5. missed' \subseteq In!Ids
    BY <1>1, <1>3, <2>4 DEF In!TypeOK
  <2> QED
    BY <1>1, <1>2, <1>4, <2>2, <2>5 DEF In!TypeOK, HookTypes, Request, Places
<1>6. ClaimsPaid'
  BY <1>1, <1>2, <1>4, IdleRight, NoClaim
<1>7. In!OnlyTheOwner' /\ SeenTaken'
  BY <1>1, <1>2 DEF In!OnlyTheOwner, SeenTaken
<1>8. KeptInHand'
  BY <1>1, <1>2, <1>3, KeptOn
<1> QED
  BY <1>4, <1>5, <1>6, <1>7, <1>8 DEF IngestInv

LEMMA Ticked ==
    ASSUME IngestSound, IngestInv, In!Tick
    PROVE  IngestInv'
<1>1. /\ In!TypeOK /\ HandsRight /\ ClaimsPaid /\ In!OnlyTheOwner /\ KeptInHand /\ SeenTaken
      /\ HookTypes
  BY TypesAre DEF IngestInv
<1>2. /\ UNCHANGED <<seen, hook, activity, executed, timeline, queued, taken, missed, forgotten, posts, failures>>
      /\ now < MaxTime /\ now' = now + 1
  BY DEF In!Tick, In!stores
<1>3. now \in 0..MaxTime /\ MaxTime \in Nat
  BY <1>1 DEF In!TypeOK, IngestSound
<1>4. now' \in 0..MaxTime /\ now \in Int /\ now' \in Int /\ now <= now'
  BY <1>2, <1>3
<1>5. In!TypeOK'
  BY <1>1, <1>2, <1>4 DEF In!TypeOK
<1>6. HandsRight'
  <2>1. ASSUME NEW h \in Hooks
        PROVE  HandRight(hook[h], taken, now')
    <3>1. HandRight(hook[h], taken, now) /\ MaxAge \in Int /\ Stamped /\ taken \subseteq taken
      BY <1>1 DEF HandsRight, IngestSound
    <3> QED
      BY ONLY <1>4, <3>1, StillRight
  <2> QED
    BY <1>2, <2>1 DEF HandsRight
<1>7. ClaimsPaid'
  BY <1>1, <1>2, NoClaim
<1>8. In!OnlyTheOwner' /\ SeenTaken' /\ KeptInHand'
  BY <1>1, <1>2 DEF In!OnlyTheOwner, SeenTaken, KeptInHand, Finished, InHandOf
<1> QED
  BY <1>5, <1>6, <1>7, <1>8 DEF IngestInv

\* The claim is written: the command's id stands in the file, and if it stood there
\* already that claim is counted.
LEMMA Claimed ==
    ASSUME IngestSound, IngestInv, NEW h \in Hooks, In!ClaimSave(h)
    PROVE  IngestInv'
<1>1. PICK c : c = hook[h]
  OBVIOUS
<1>2. /\ c \in Request /\ HandRight(c, taken, now) /\ c.pc = "claim"
      /\ c.todo \in Seq(In!Ids) /\ c.todo # <<>> /\ c.file \in Seq(In!Ids)
  <2>1. c \in Request /\ HandRight(c, taken, now)
    BY <1>1, TypesAre DEF IngestInv, HandsRight, HookTypes
  <2> QED
    BY <1>1, <2>1 DEF In!ClaimSave, Request, HandRight
<1>3. /\ In!TypeOK /\ HandsRight /\ ClaimsPaid /\ In!OnlyTheOwner /\ KeptInHand /\ SeenTaken
      /\ HookTypes /\ now \in Nat
      /\ seen \in Seq(In!Ids) /\ executed \in [In!Ids -> Nat] /\ forgotten \in [In!Ids -> Nat]
  BY TypesAre DEF IngestInv
<1> DEFINE i0 == Head(c.todo)
           u == In!Update(c.file, <<i0>>)
           r == [c EXCEPT !.pc = "execute", !.file = <<>>]
<1>4. /\ UNCHANGED <<now, activity, executed, timeline, queued, taken, missed, posts, failures>>
      /\ seen' = In!Newest(u)
      /\ forgotten' = [j \in In!Ids |-> forgotten[j] +
           (IF j \in In!ToSet(seen) /\ (j = i0 \/ j \notin In!ToSet(seen')) THEN 1 ELSE 0)]
  BY <1>1 DEF In!ClaimSave, In!stores
<1>5. hook' = [hook EXCEPT ![h] = r]
  BY <1>1 DEF In!ClaimSave
<1>6. i0 \in In!Ids /\ In!IsCommand(i0)
  BY <1>2, FirstAndRest DEF HandRight
<1>7. r \in Request /\ r.pc = "execute" /\ r.todo = c.todo /\ r.file = <<>>
  <2>1. <<>> \in Seq(In!Ids)
    OBVIOUS
  <2> QED
    BY <1>2, <2>1 DEF Request, Places
<1> HIDE DEF r, i0
<1>8. HandRight(r, taken, now)
  BY <1>2, <1>7 DEF HandRight, Has
<1>9. /\ HandsRight' /\ HookTypes' /\ hook'[h] = r
      /\ \A g \in Hooks : g # h => hook'[g] = hook[g]
  BY <1>3, <1>4, <1>5, <1>7, <1>8, OneHand
<1>10. /\ u \in Seq(In!Ids) /\ Once(u)
       /\ \A x : Has(u, x) <=> Has(c.file, x) \/ x = i0
       /\ u # <<>> /\ u[Len(u)] = i0
  <2>1. /\ <<i0>> \in Seq(In!Ids) /\ <<i0>> # <<>> /\ Len(<<i0>>) = 1 /\ <<i0>>[1] = i0
        /\ \A x : Has(<<i0>>, x) <=> x = i0
    BY <1>6, Single
  <2> QED
    BY <1>2, <2>1, Updated
<1> HIDE DEF u
<1>11. /\ seen' \in Seq(In!Ids) /\ Len(seen') <= MaxSeen /\ Once(seen') /\ Has(seen', i0)
       /\ \A x : Has(seen', x) => Has(c.file, x) \/ x = i0
  <2>1. MaxSeen \in Nat \ {0}
    BY DEF IngestSound
  <2> QED
    BY <1>4, <1>10, <2>1, Saved
<1>12. /\ forgotten' \in [In!Ids -> Nat]
       /\ \A j \in In!Ids : forgotten'[j] = forgotten[j] +
            (IF Has(seen, j) /\ (j = i0 \/ ~Has(seen', j)) THEN 1 ELSE 0)
  BY <1>3, <1>4, Members
<1>13. In!TypeOK'
  <2>1. UNCHANGED <<now, posts, failures, activity, executed, timeline, queued, taken, missed>>
    BY <1>4
  <2>2. In!IsInjective(seen)'
    BY <1>11 DEF In!IsInjective, Once
  <2> QED
    BY <1>3, <1>9, <1>11, <1>12, <2>1, <2>2 DEF In!TypeOK, HookTypes, Request, Places
<1>14. ClaimsPaid'
  <2> SUFFICES ASSUME NEW j \in In!Ids
               PROVE  executed'[j] + Cardinality(Obeying(j, hook')) <= forgotten'[j] + InFile(seen', j)
    BY DEF ClaimsPaid
  <2>1. CASE j = i0
    <3>1. Obeying(j, hook') = Obeying(j, hook) \cup {h} /\ h \notin Obeying(j, hook)
      BY <1>1, <1>2, <1>7, <1>9, <2>1 DEF Obeying, i0
    <3>2. /\ IsFiniteSet(Obeying(j, hook)) /\ Cardinality(Obeying(j, hook)) \in Nat
      BY ObeyingCounted
    <3>3. Cardinality(Obeying(j, hook')) = Cardinality(Obeying(j, hook)) + 1
      BY <3>1, <3>2, FS_AddElement
    <3>4. executed[j] + Cardinality(Obeying(j, hook)) <= forgotten[j] + InFile(seen, j)
      BY <1>3 DEF ClaimsPaid
    <3>5. InFile(seen', j) = 1 /\ forgotten'[j] = forgotten[j] + InFile(seen, j) /\ executed'[j] = executed[j]
      BY <1>4, <1>11, <1>12, <2>1 DEF InFile
    <3>6. executed[j] \in Nat /\ forgotten[j] \in Nat /\ InFile(seen, j) \in Nat
      BY <1>3 DEF InFile
    <3> QED
      BY <3>2, <3>3, <3>4, <3>5, <3>6
  <2>2. CASE j # i0
    <3>1. Obeying(j, hook') \subseteq Obeying(j, hook)
      BY <1>7, <1>9, <2>2 DEF Obeying, i0
    <3>2. /\ Cardinality(Obeying(j, hook')) \in Nat /\ Cardinality(Obeying(j, hook)) \in Nat
          /\ Cardinality(Obeying(j, hook')) <= Cardinality(Obeying(j, hook))
      BY <3>1, ObeyingCounted
    <3>3. executed[j] + Cardinality(Obeying(j, hook)) <= forgotten[j] + InFile(seen, j)
      BY <1>3 DEF ClaimsPaid
    <3>4. executed'[j] = executed[j] /\ executed[j] \in Nat /\ forgotten[j] \in Nat
      BY <1>3, <1>4
    <3>5. /\ InFile(seen, j) \in Nat /\ InFile(seen', j) \in Nat /\ forgotten'[j] \in Nat
          /\ forgotten[j] + InFile(seen, j) <= forgotten'[j] + InFile(seen', j)
      BY <1>12, <2>2, <3>4 DEF InFile
    <3> QED
      BY <3>2, <3>3, <3>4, <3>5
  <2> QED
    BY <2>1, <2>2
<1>15. In!OnlyTheOwner'
  BY <1>3, <1>4 DEF In!OnlyTheOwner
<1>16. SeenTaken'
  BY <1>2, <1>4, <1>6, <1>11 DEF SeenTaken, HandRight
<1>17. KeptInHand'
  <2>1. \A g \in Hooks : \A i : InHandOf(i, hook[g]) => InHandOf(i, hook[g])'
    BY <1>1, <1>2, <1>4, <1>9 DEF InHandOf
  <2> QED
    BY <1>3, <1>4, <2>1, KeptOn
<1> QED
  BY <1>9, <1>13, <1>14, <1>15, <1>16, <1>17 DEF IngestInv

LEMMA Executed ==
    ASSUME IngestSound, IngestInv, NEW h \in Hooks, In!Execute(h)
    PROVE  IngestInv'
<1>1. PICK c : c = hook[h]
  OBVIOUS
<1>2. /\ c \in Request /\ HandRight(c, taken, now) /\ c.pc = "execute"
      /\ c.todo \in Seq(In!Ids) /\ c.todo # <<>>
  <2>1. c \in Request /\ HandRight(c, taken, now)
    BY <1>1, TypesAre DEF IngestInv, HandsRight, HookTypes
  <2> QED
    BY <1>1, <2>1 DEF In!Execute, Request, HandRight
<1>3. /\ In!TypeOK /\ HandsRight /\ ClaimsPaid /\ In!OnlyTheOwner /\ KeptInHand /\ SeenTaken
      /\ HookTypes /\ now \in Nat
      /\ executed \in [In!Ids -> Nat] /\ forgotten \in [In!Ids -> Nat]
  BY TypesAre DEF IngestInv
<1> DEFINE i0 == Head(c.todo)
           q == Tail(c.todo)
           r == [c EXCEPT !.pc = "control", !.todo = q]
<1>4. /\ UNCHANGED <<now, seen, activity, timeline, queued, taken, missed, forgotten, posts, failures>>
      /\ executed' = [executed EXCEPT ![i0] = executed[i0] + 1]
  BY <1>1 DEF In!Execute
<1>5. hook' = [hook EXCEPT ![h] = r]
  BY <1>1 DEF In!Execute
<1>6. /\ i0 \in In!Ids /\ In!IsCommand(i0)
      /\ q \in Seq(In!Ids) /\ \A k \in DOMAIN q : In!IsCommand(q[k])
  BY <1>2, FirstAndRest DEF HandRight
<1> HIDE DEF q
<1>7. r \in Request /\ r.pc = "control" /\ r.todo = q /\ r.file = c.file
  BY <1>2, <1>6 DEF Request, Places
<1> HIDE DEF r, i0
<1>8. HandRight(r, taken, now)
  BY <1>2, <1>6, <1>7 DEF HandRight
<1>9. /\ HandsRight' /\ HookTypes' /\ hook'[h] = r
      /\ \A g \in Hooks : g # h => hook'[g] = hook[g]
  BY <1>3, <1>4, <1>5, <1>7, <1>8, OneHand
<1>10. executed' \in [In!Ids -> Nat]
  BY <1>3, <1>4, <1>6
<1>11. In!TypeOK'
  BY <1>3, <1>4, <1>9, <1>10 DEF In!TypeOK, HookTypes, Request, Places
<1>12. ClaimsPaid'
  <2> SUFFICES ASSUME NEW j \in In!Ids
               PROVE  executed'[j] + Cardinality(Obeying(j, hook')) <= forgotten[j] + InFile(seen, j)
    BY <1>4 DEF ClaimsPaid
  <2>1. CASE j = i0
    <3>1. Obeying(j, hook') = Obeying(j, hook) \ {h} /\ h \in Obeying(j, hook)
      BY <1>1, <1>2, <1>7, <1>9, <2>1 DEF Obeying, i0
    <3>2. IsFiniteSet(Obeying(j, hook)) /\ Cardinality(Obeying(j, hook)) \in Nat
      BY ObeyingCounted
    <3>3. Cardinality(Obeying(j, hook')) = Cardinality(Obeying(j, hook)) - 1
      BY <3>1, <3>2, FS_RemoveElement
    <3>4. executed[j] + Cardinality(Obeying(j, hook)) <= forgotten[j] + InFile(seen, j)
      BY <1>3 DEF ClaimsPaid
    <3>5. executed'[j] = executed[j] + 1 /\ executed[j] \in Nat /\ forgotten[j] \in Nat /\ InFile(seen, j) \in Nat
      BY <1>3, <1>4, <2>1 DEF InFile
    <3> QED
      BY <3>2, <3>3, <3>4, <3>5
  <2>2. CASE j # i0
    <3>1. Obeying(j, hook') \subseteq Obeying(j, hook)
      BY <1>7, <1>9 DEF Obeying
    <3>2. /\ Cardinality(Obeying(j, hook')) \in Nat /\ Cardinality(Obeying(j, hook)) \in Nat
          /\ Cardinality(Obeying(j, hook')) <= Cardinality(Obeying(j, hook))
      BY <3>1, ObeyingCounted
    <3>3. executed[j] + Cardinality(Obeying(j, hook)) <= forgotten[j] + InFile(seen, j)
      BY <1>3 DEF ClaimsPaid
    <3>4. executed'[j] = executed[j] /\ executed[j] \in Nat /\ forgotten[j] \in Nat /\ InFile(seen, j) \in Nat
      BY <1>3, <1>4, <2>2 DEF InFile
    <3> QED
      BY <3>2, <3>3, <3>4
  <2> QED
    BY <2>1, <2>2
<1>13. In!OnlyTheOwner' /\ SeenTaken'
  <2>1. \A i \in In!Ids : executed'[i] > 0 => executed[i] > 0 \/ i = i0
    BY <1>3, <1>4
  <2> QED
    BY <1>3, <1>4, <1>6, <2>1 DEF In!OnlyTheOwner, SeenTaken, In!IsCommand
<1>14. KeptInHand'
  <2>1. \A g \in Hooks : \A i : InHandOf(i, hook[g]) => InHandOf(i, hook[g])'
    BY <1>1, <1>2, <1>4, <1>9 DEF InHandOf
  <2> QED
    BY <1>3, <1>4, <2>1, KeptOn
<1> QED
  BY <1>9, <1>11, <1>12, <1>13, <1>14 DEF IngestInv

\* What the filter kept is marked as seen and is in the request's hands from then on.
LEMMA FilterMarked ==
    ASSUME IngestSound, IngestInv, NEW h \in Hooks, In!FilterSave(h)
    PROVE  IngestInv'
<1>1. PICK c : c = hook[h]
  OBVIOUS
<1>2. /\ c \in Request /\ HandRight(c, taken, now) /\ c.pc = "filtered"
      /\ c.todo \in Seq(In!Ids) /\ c.file \in Seq(In!Ids)
  <2>1. c \in Request /\ HandRight(c, taken, now)
    BY <1>1, TypesAre DEF IngestInv, HandsRight, HookTypes
  <2> QED
    BY <1>1, <2>1 DEF In!FilterSave, Request
<1>3. /\ In!TypeOK /\ HandsRight /\ ClaimsPaid /\ In!OnlyTheOwner /\ KeptInHand /\ SeenTaken
      /\ HookTypes /\ now \in Nat
      /\ seen \in Seq(In!Ids) /\ executed \in [In!Ids -> Nat] /\ forgotten \in [In!Ids -> Nat]
  BY TypesAre DEF IngestInv
<1> DEFINE u == In!Update(c.file, c.todo)
           r == IF c.todo = <<>> THEN In!Idle ELSE [c EXCEPT !.pc = "process", !.file = <<>>]
<1>4. /\ UNCHANGED <<now, activity, executed, timeline, queued, missed, posts, failures>>
      /\ taken' = taken \cup In!ToSet(c.todo)
      /\ seen' = In!Newest(u)
      /\ forgotten' = [i \in In!Ids |-> forgotten[i] +
           (IF i \in In!ToSet(seen) /\ i \notin In!ToSet(In!Newest(u)) THEN 1 ELSE 0)]
  BY <1>1 DEF In!FilterSave, In!Save
<1>5. hook' = [hook EXCEPT ![h] = r]
  BY <1>1 DEF In!FilterSave
<1>6. \A i : i \in taken' <=> i \in taken \/ Has(c.todo, i)
  BY <1>4, Members
<1>7. /\ r \in Request /\ r.pc \in {"idle", "process"} /\ \A i : ~Has(r.file, i)
      /\ c.todo = <<>> => r.todo = <<>>
      /\ c.todo # <<>> => r.pc = "process" /\ r.todo = c.todo
  <2>1. CASE c.todo = <<>>
    BY <2>1 DEF Request, Places, In!Idle, Has
  <2>2. CASE c.todo # <<>>
    <3> DEFINE z == [c EXCEPT !.pc = "process", !.file = <<>>]
    <3>1. z \in Request /\ z.pc = "process" /\ z.file = <<>> /\ z.todo = c.todo
      <4>1. <<>> \in Seq(In!Ids)
        OBVIOUS
      <4> QED
        BY <1>2, <4>1 DEF Request, Places
    <3>2. r = z
      BY <2>2
    <3> HIDE DEF z, r
    <3> QED
      BY <2>2, <3>1, <3>2 DEF Has
  <2> QED
    BY <2>1, <2>2
<1> HIDE DEF r
<1>8. HandRight(r, taken', now)
  <2>1. CASE c.todo = <<>>
    BY <1>7, <2>1 DEF HandRight
  <2>2. CASE c.todo # <<>>
    BY <1>2, <1>7, <2>2 DEF HandRight
  <2> QED
    BY <2>1, <2>2
<1>9. taken \subseteq taken'
  BY <1>4
<1>10. /\ HandsRight' /\ HookTypes' /\ hook'[h] = r
       /\ \A g \in Hooks : g # h => hook'[g] = hook[g]
  BY <1>3, <1>4, <1>5, <1>7, <1>8, <1>9, OneHand
<1>11. /\ u \in Seq(In!Ids) /\ Once(u)
       /\ \A x : Has(u, x) <=> Has(c.file, x) \/ Has(c.todo, x)
  BY <1>2, Updated
<1> HIDE DEF u
<1>12. /\ seen' \in Seq(In!Ids) /\ Len(seen') <= MaxSeen /\ Once(seen')
       /\ \A x : Has(seen', x) => Has(c.file, x) \/ Has(c.todo, x)
  <2>1. MaxSeen \in Nat \ {0}
    BY DEF IngestSound
  <2> QED
    BY <1>4, <1>11, <2>1, Saved
<1>13. /\ forgotten' \in [In!Ids -> Nat]
       /\ \A i \in In!Ids : forgotten'[i] = forgotten[i] +
            (IF Has(seen, i) /\ ~Has(seen', i) THEN 1 ELSE 0)
  BY <1>3, <1>4, Members
<1>14. In!TypeOK'
  <2>1. UNCHANGED <<now, posts, failures, activity, executed, timeline, queued, missed>>
    BY <1>4
  <2>2. In!IsInjective(seen)'
    BY <1>12 DEF In!IsInjective, Once
  <2>3. \A i \in taken' : i \in In!Ids
    BY <1>2, <1>3, <1>6, Placed DEF In!TypeOK, Has
  <2> QED
    BY <1>3, <1>10, <1>12, <1>13, <2>1, <2>2, <2>3 DEF In!TypeOK, HookTypes, Request, Places
<1>15. ClaimsPaid'
  <2>1. Counted
    <3>1. \A i \in In!Ids : forgotten[i] \in Nat
      BY <1>3
    <3> QED
      BY <1>13, <3>1 DEF Counted, InFile
  <2>2. \A i \in In!Ids : Obeying(i, hook') \subseteq Obeying(i, hook)
    BY <1>7, <1>10 DEF Obeying
  <2> QED
    BY <1>3, <1>4, <1>13, <2>1, <2>2, NoClaimOf DEF ClaimsPaid
<1>16. In!OnlyTheOwner'
  BY <1>3, <1>4 DEF In!OnlyTheOwner
<1>17. SeenTaken'
  BY <1>2, <1>6, <1>12 DEF SeenTaken, HandRight
<1>18. KeptInHand'
  <2> SUFFICES ASSUME NEW i \in taken' \ missed
               PROVE  Finished(i) \/ \E g \in Hooks : InHandOf(i, hook'[g])
    BY <1>4 DEF KeptInHand, Finished, InHandOf
  <2>1. CASE Has(c.todo, i)
    <3>1. c.todo # <<>>
      BY <2>1 DEF Has
    <3> QED
      BY <1>7, <1>10, <2>1, <3>1 DEF InHandOf
  <2>2. CASE ~Has(c.todo, i)
    <3>1. Finished(i) \/ \E g \in Hooks : InHandOf(i, hook[g])
      BY <1>3, <1>6, <2>2 DEF KeptInHand
    <3>2. ~InHandOf(i, hook[h])
      BY <1>1, <1>2 DEF InHandOf
    <3> QED
      BY <1>10, <3>1, <3>2
  <2> QED
    BY <2>1, <2>2
<1> QED
  BY <1>10, <1>14, <1>15, <1>16, <1>17, <1>18 DEF IngestInv

LEMMA IngestSteps == ASSUME IngestSound, IngestInv, [In!Next]_(In!vars) PROVE IngestInv'
<1>1. ASSUME NEW h \in Hooks, In!HookStep(h)
      PROVE  IngestInv'
  BY <1>1, Posted, ClaimLoaded, Claimed, Executed, Tracked, FilterLoaded, FilterMarked,
     Processed, QueuedOne, GivenUp, Answered DEF In!HookStep
<1>2. CASE UNCHANGED In!vars
  <2>1. /\ UNCHANGED <<now, seen, hook, activity, executed, timeline, queued, taken, missed,
                       forgotten, posts, failures>>
    BY <1>2 DEF In!vars
  <2>2. UNCHANGED <<HandsRight, KeptInHand, SeenTaken>>
    BY <2>1 DEF HandsRight, KeptInHand, Finished, InHandOf, SeenTaken
  <2>3. UNCHANGED <<ClaimsPaid, In!OnlyTheOwner>>
    BY <2>1 DEF ClaimsPaid, In!OnlyTheOwner
  <2>4. In!TypeOK'
    BY <2>1 DEF IngestInv, In!TypeOK
  <2> QED
    BY <2>2, <2>3, <2>4 DEF IngestInv
<1> QED
  BY <1>1, <1>2, Restarted, Ticked DEF In!Next

\* What the invariant says of the properties.
LEMMA IngestGood == ASSUME IngestSound, IngestInv PROVE In!IngestRight
<1>1. /\ In!TypeOK /\ HandsRight /\ ClaimsPaid /\ In!OnlyTheOwner /\ KeptInHand /\ SeenTaken
      /\ HookTypes /\ now \in Nat
      /\ executed \in [In!Ids -> Nat] /\ forgotten \in [In!Ids -> Nat]
  BY TypesAre DEF IngestInv
<1>2. In!CommandOnce
  <2> SUFFICES ASSUME NEW i \in In!Ids
               PROVE  executed[i] <= 1 + forgotten[i]
    BY DEF In!CommandOnce
  <2>1. executed[i] + Cardinality(Obeying(i, hook)) <= forgotten[i] + InFile(seen, i)
    BY <1>1 DEF ClaimsPaid
  <2>2. Cardinality(Obeying(i, hook)) \in Nat
    BY ObeyingCounted
  <2>3. executed[i] \in Nat /\ forgotten[i] \in Nat /\ InFile(seen, i) \in {0, 1}
    BY <1>1 DEF InFile
  <2> QED
    BY <2>1, <2>2, <2>3
<1>3. In!KeptIsFinished
  BY <1>1 DEF In!KeptIsFinished, KeptInHand, Finished, InHandOf
<1>4. In!SeenWasTaken
  BY <1>1, Members DEF In!SeenWasTaken, SeenTaken
<1>5. In!NewestKept
  <2> SUFFICES ASSUME NEW h \in Hooks, hook[h].pc = "filtered", NEW i \in In!ToSet(hook[h].todo),
                      NEW j \in In!ToSet(hook[h].batch) \ In!ToSet(hook[h].todo),
                      In!IsIngested(j), In!Passes(j, hook[h].file)
               PROVE  Messages[i].ts >= Messages[j].ts
    BY DEF In!NewestKept
  <2>1. hook[h].batch \in Seq(In!Ids)
    BY <1>1 DEF HookTypes, Request
  <2>2. Has(hook[h].todo, i) /\ Has(hook[h].batch, j) /\ ~Has(hook[h].todo, j)
    BY Members
  <2>3. j \in In!Ids
    BY <2>1, <2>2, Placed DEF Has
  <2>4. Fits(j, hook[h].file, now)
    BY PassesFits
  <2>5. PICK k \in DOMAIN hook[h].todo : hook[h].todo[k] = i
    BY <2>2 DEF Has
  <2>6. HandRight(hook[h], taken, now)
    BY <1>1 DEF HandsRight
  <2> QED
    BY <2>2, <2>3, <2>4, <2>5, <2>6 DEF HandRight
<1> QED
  BY <1>1, <1>2, <1>3, <1>4, <1>5 DEF In!IngestRight

\* The webhook's records have their types; the file of seen ids never holds an id twice
\* nor more ids than it may, whatever the requests do to it between each other's read
\* and write.
THEOREM IngestTypes == ASSUME IngestSound PROVE In!Spec => []In!TypeOK
<1>1. In!Init => IngestInv
  BY IngestStarts
<1>2. IngestInv /\ [In!Next]_(In!vars) => IngestInv'
  BY IngestSteps
<1>3. IngestInv => In!TypeOK
  BY DEF IngestInv
<1>4. QED
  BY <1>1, <1>2, <1>3, PTL DEF In!Spec

\* Whatever is posted, however often and in whatever order the requests interleave: a
\* command is run once unless the file lost its id; only the owner's is; what was marked
\* as seen is finished or was lost to a fault; nothing set aside is marked; and a full
\* webhook gives up its oldest messages.
THEOREM IngestRightAlways == ASSUME IngestSound PROVE In!Spec => []In!IngestRight
<1>1. In!Init => IngestInv
  BY IngestStarts
<1>2. IngestInv /\ [In!Next]_(In!vars) => IngestInv'
  BY IngestSteps
<1>3. IngestInv => In!IngestRight
  BY IngestGood
<1>4. QED
  BY <1>1, <1>2, <1>3, PTL DEF In!Spec

----------------------------------------------------------------------------
(* The files of a contact, ContactFiles.                                     *)

\* The values of the constants: times come after the stamp of a new profile, a window
\* holds something, the user may write.
FilesSound ==
    /\ IsFiniteSet(Message) /\ TimeOf \in [Message -> Nat \ {0}]
    /\ MaxWindow \in Nat \ {0} /\ MaxEdits \in Nat \ {0}

\* The message stands in a sequence once at most.
OnceOf(s, m) == \A k, l \in DOMAIN s : s[k] = m /\ s[l] = m => k = l

LEMMA RowMembers == ASSUME NEW s, NEW m PROVE m \in Fi!ToSet(s) <=> Has(s, m)
BY DEF Fi!ToSet, Has

LEMMA SameCount == ASSUME NEW S PROVE Fi!Cardinality(S) = Cardinality(S)
BY DEF Fi!Cardinality, Cardinality

LEMMA SamePick == ASSUME NEW s, NEW I PROVE Fi!Pick(s, I) = In!Pick(s, I)
<1> DEFINE f == [k \in 1..Fi!Cardinality(I) |->
                    CHOOSE i \in I : Fi!Cardinality({j \in I : j <= i}) = k]
           g == [k \in 1..In!Cardinality(I) |->
                    CHOOSE i \in I : In!Cardinality({j \in I : j <= i}) = k]
<1>1. Fi!Pick(s, I) = [k \in DOMAIN f |-> s[f[k]]]
  BY DEF Fi!Pick, Fi!InOrder
<1>2. In!Pick(s, I) = [k \in DOMAIN g |-> s[g[k]]]
  BY DEF In!Pick, In!InOrder
<1>3. Fi!Cardinality(I) = In!Cardinality(I)
  BY SameCount, SameNumber
<1>4. DOMAIN f = DOMAIN g
  BY <1>3
<1>5. ASSUME NEW k \in DOMAIN g
      PROVE  f[k] = g[k]
  <2>1. \A i \in I : Fi!Cardinality({j \in I : j <= i}) = In!Cardinality({j \in I : j <= i})
    BY SameCount, SameNumber
  <2>2. f[k] = CHOOSE i \in I : Fi!Cardinality({j \in I : j <= i}) = k
    BY <1>3, <1>5
  <2>3. g[k] = CHOOSE i \in I : In!Cardinality({j \in I : j <= i}) = k
    BY <1>5
  <2> HIDE DEF f, g
  <2> QED
    BY <2>1, <2>2, <2>3
<1> HIDE DEF f, g
<1> QED
  BY <1>1, <1>2, <1>4, <1>5

\* The rows by time, as sort leaves them, and the places they come from.
ByTime(s) == Fi!StableSort(s, LAMBDA x, y : TimeOf[x] < TimeOf[y])
Sooner(s) ==
    [i \in DOMAIN s |->
        {j \in DOMAIN s : \/ TimeOf[s[j]] < TimeOf[s[i]]
                          \/ ~(TimeOf[s[i]] < TimeOf[s[j]]) /\ j <= i}]

LEMMA TimedRows ==
    ASSUME FilesSound, NEW s \in Seq(Message)
    PROVE  LET q == ByTime(s) IN
             /\ q \in Seq(Message) /\ Len(q) = Len(s)
             /\ \E f : /\ Lists(f, DOMAIN s, Sooner(s)) /\ DOMAIN f = DOMAIN q
                       /\ \A k \in DOMAIN q : q[k] = s[f[k]]
<1> DEFINE D == DOMAIN s
           b == Sooner(s)
           f == [k \in 1..Fi!Cardinality(D) |->
                    CHOOSE i \in D : Fi!Cardinality(
                        {j \in D : \/ TimeOf[s[j]] < TimeOf[s[i]]
                                   \/ ~(TimeOf[s[i]] < TimeOf[s[j]]) /\ j <= i}) = k]
           q == [k \in DOMAIN f |-> s[f[k]]]
<1>1. ByTime(s) = q
  BY DEF ByTime, Fi!StableSort, Fi!InOrder
<1>2. Len(s) \in Nat /\ D = 1..Len(s) /\ \A i \in 1..Len(s) : s[i] \in Message
  BY LenProperties, ElementOfSeq
<1>3. IsFiniteSet(D) /\ Cardinality(D) = Len(s)
  <2>1. \A n \in Nat : IsFiniteSet(1..n) /\ Cardinality(1..n) = n
    BY FS_Interval
  <2> QED
    BY <1>2, <2>1
<1>4. \A i \in D : i \in Nat /\ TimeOf[s[i]] \in Nat
  BY <1>2 DEF FilesSound
<1>5. /\ b \in [D -> SUBSET D]
      /\ \A i, j \in D : i \in b[j] <=>
           \/ TimeOf[s[i]] < TimeOf[s[j]]
           \/ ~(TimeOf[s[j]] < TimeOf[s[i]]) /\ i <= j
  BY DEF Sooner
<1>6. /\ \A i \in D : i \in b[i]
      /\ \A i, j \in D : i \in b[j] \/ j \in b[i]
      /\ \A i, j \in D : i \in b[j] => b[i] \subseteq b[j]
      /\ \A i, j \in D : i \in b[j] /\ j \in b[i] => i = j
  <2> DEFINE t == [i \in D |-> TimeOf[s[i]]]
  <2>1. \A i \in D : i \in Nat /\ t[i] \in Int
    BY <1>4
  <2>2. \A i, j \in D : i \in b[j] <=> t[i] < t[j] \/ (~(t[j] < t[i]) /\ i <= j)
    BY <1>5
  <2> HIDE DEF t, b
  <2>3. \A i, j, k \in D : i \in b[j] /\ j \in b[k] => i \in b[k]
    BY <2>1, <2>2
  <2>4. \A i, j \in D : i \in b[j] => b[i] \subseteq b[j]
    BY <1>5, <2>3
  <2> QED
    BY <2>1, <2>2, <2>4
<1>7. DOMAIN f = 1..Cardinality(D)
  BY SameCount
<1>8. ASSUME NEW k \in DOMAIN f
      PROVE  f[k] = CHOOSE i \in D : Cardinality(b[i]) = k
  <2>1. \A i \in D : Fi!Cardinality(
                       {j \in D : \/ TimeOf[s[j]] < TimeOf[s[i]]
                                  \/ ~(TimeOf[s[i]] < TimeOf[s[j]]) /\ j <= i})
                     = Cardinality(b[i])
    BY SameCount DEF Sooner
  <2> QED
    BY <2>1
<1>9. Cardinality(D) \in Nat /\ Lists(f, D, b)
  <2> HIDE DEF b, f, D
  <2> QED
    BY ONLY <1>3, <1>5, <1>6, <1>7, <1>8, Listed
<1>10. q \in Seq(Message) /\ Len(q) = Len(s)
  <2>1. q \in [1..Cardinality(D) -> Message]
    <3> HIDE DEF f
    <3> QED
      BY <1>2, <1>7, <1>9 DEF Lists
  <2> HIDE DEF q
  <2>2. q \in Seq(Message)
    BY ONLY <1>9, <2>1, SeqDef
  <2>3. Len(q) = Cardinality(D)
    BY ONLY <1>9, <2>1, <2>2, LenProperties
  <2> QED
    BY <1>3, <2>2, <2>3
<1> QED
  BY <1>1, <1>9, <1>10

\* Sorting keeps every row, as often, and puts none after a later one.
LEMMA Timed ==
    ASSUME FilesSound, NEW s \in Seq(Message)
    PROVE  LET q == ByTime(s) IN
             /\ q \in Seq(Message) /\ Len(q) = Len(s)
             /\ \A m : Has(q, m) <=> Has(s, m)
             /\ \A m : OnceOf(s, m) => OnceOf(q, m)
             /\ \A k, l \in DOMAIN q : k <= l => TimeOf[q[k]] <= TimeOf[q[l]]
<1> DEFINE q == ByTime(s)
<1>1. q \in Seq(Message) /\ Len(q) = Len(s)
  BY TimedRows
<1>2. PICK f : /\ Lists(f, DOMAIN s, Sooner(s)) /\ DOMAIN f = DOMAIN q
               /\ \A k \in DOMAIN q : q[k] = s[f[k]]
  BY TimedRows
<1> HIDE DEF q
<1>3. \A m : Has(q, m) <=> Has(s, m)
  BY <1>2 DEF Has, Lists
<1>4. \A m : OnceOf(s, m) => OnceOf(q, m)
  BY <1>2 DEF OnceOf, Lists
<1>5. ASSUME NEW k \in DOMAIN q, NEW l \in DOMAIN q, k <= l
      PROVE  TimeOf[q[k]] <= TimeOf[q[l]]
  <2>1. f[k] \in DOMAIN s /\ f[l] \in DOMAIN s /\ f[k] \in Sooner(s)[f[l]]
    BY <1>2, <1>5 DEF Lists
  <2>2. TimeOf[s[f[k]]] < TimeOf[s[f[l]]] \/ ~(TimeOf[s[f[l]]] < TimeOf[s[f[k]]])
    BY <2>1 DEF Sooner
  <2>3. TimeOf[s[f[k]]] \in Nat /\ TimeOf[s[f[l]]] \in Nat
    <3>1. s[f[k]] \in Message /\ s[f[l]] \in Message
      BY <2>1, Placed
    <3> QED
      BY <3>1 DEF FilesSound
  <2> QED
    BY <1>2, <2>2, <2>3
<1> QED
  BY <1>1, <1>3, <1>4, <1>5 DEF q

\* What is asked about of the rows newer than a stamp: none older than the last of them
\* is left out, and of its very second only what was cut off.
LEMMA Windowed ==
    ASSUME FilesSound, logged[Fi!Dir] \in Seq(Message), NEW stamp \in Nat,
           NEW w, w = Fi!Window(stamp), w # <<>>
    PROVE  /\ w \in Seq(Message) /\ Fi!Last(w) \in Message
           /\ Fi!CutOff(stamp) \subseteq Message
           /\ \A m \in Message :
                Has(logged[Fi!Dir], m) /\ TimeOf[m] <= TimeOf[Fi!Last(w)] =>
                  TimeOf[m] <= stamp \/ Has(w, m) \/ m \in Fi!CutOff(stamp)
<1> DEFINE rows == logged[Fi!Dir]
           I == {i \in DOMAIN rows : TimeOf[rows[i]] > stamp}
           q == Fi!Newer(stamp)
           r == ByTime(q)
           n == IF Len(r) < MaxWindow THEN Len(r) ELSE MaxWindow
<1>1. q \in Seq(Message) /\ \A m : Has(q, m) <=> Has(rows, m) /\ TimeOf[m] > stamp
  <2>1. q = In!Pick(rows, I)
    BY SamePick DEF Fi!Newer
  <2>2. I \subseteq DOMAIN rows /\ \A m : (\E i \in I : rows[i] = m) <=> Has(rows, m) /\ TimeOf[m] > stamp
    BY DEF Has
  <2> HIDE DEF I, q, rows
  <2>3. rows \in Seq(Message)
    BY DEF rows
  <2> QED
    BY <2>1, <2>2, <2>3, PickedOnes
<1> HIDE DEF q
<1>2. /\ r \in Seq(Message)
      /\ \A m : Has(r, m) <=> Has(q, m)
      /\ \A k, l \in DOMAIN r : k <= l => TimeOf[r[k]] <= TimeOf[r[l]]
  BY <1>1, Timed
<1>3. w = SubSeq(r, 1, n)
  BY Zenon DEF Fi!Window, Fi!Upto, ByTime, q
<1> HIDE DEF r
<1>4. Len(r) \in Nat /\ DOMAIN r = 1..Len(r) /\ n \in Nat /\ n <= Len(r)
  BY <1>2, Placed DEF FilesSound
<1> HIDE DEF n
<1>5. /\ w \in Seq(Message) /\ Len(w) = IF 1 <= n THEN n - 1 + 1 ELSE 0
      /\ \A k \in DOMAIN w : 1 + k - 1 \in DOMAIN r /\ w[k] = r[1 + k - 1]
      /\ \A k \in DOMAIN r : 1 <= k /\ k <= n => k - 1 + 1 \in DOMAIN w /\ w[k - 1 + 1] = r[k]
  <2>1. 1 \in Int /\ n \in Int /\ 1 <= 1 /\ n <= Len(r)
    BY <1>4
  <2> QED
    BY <1>2, <1>3, <2>1, Stretch
<1>6. DOMAIN w = 1..Len(w) /\ Len(w) \in Nat /\ Len(w) # 0
  BY <1>5, Placed, EmptySeq
<1>7. 1 <= n /\ Len(w) = n
  BY <1>4, <1>5, <1>6
<1>8. n \in DOMAIN w /\ n \in DOMAIN r /\ w[n] = r[n]
  BY <1>4, <1>5, <1>6, <1>7
<1>9. Fi!Last(w) = r[n] /\ Fi!Last(w) \in Message
  BY <1>2, <1>7, <1>8, Placed DEF Fi!Last
<1>10. Fi!CutOff(stamp) = {m \in Fi!ToSet(q) \ Fi!ToSet(w) : TimeOf[m] = TimeOf[Fi!Last(w)]}
  BY DEF Fi!CutOff, q
<1>11. Fi!CutOff(stamp) \subseteq Message
  BY <1>1, <1>10, RowMembers, Placed DEF Has
<1>12. ASSUME NEW m \in Message, Has(rows, m), TimeOf[m] <= TimeOf[Fi!Last(w)],
              ~(TimeOf[m] <= stamp), ~Has(w, m)
       PROVE  m \in Fi!CutOff(stamp)
  <2>1. TimeOf[m] \in Nat /\ TimeOf[Fi!Last(w)] \in Nat
    BY <1>9 DEF FilesSound
  <2>2. Has(q, m)
    BY <1>1, <1>12, <2>1
  <2>3. PICK l \in DOMAIN r : r[l] = m
    BY <1>2, <2>2 DEF Has
  <2>4. ~(l <= n)
    <3>1. ASSUME l <= n
          PROVE  FALSE
      <4>1. 1 <= l /\ l - 1 + 1 = l
        BY <1>4
      <4>2. l \in DOMAIN w /\ w[l] = m
        BY <1>5, <2>3, <3>1, <4>1
      <4> QED
        BY <1>12, <4>2 DEF Has
    <3> QED
      BY <3>1
  <2>5. TimeOf[r[n]] <= TimeOf[r[l]]
    <3>1. n <= l
      BY <1>4, <2>4
    <3> QED
      BY <1>2, <1>8, <3>1
  <2>6. TimeOf[m] = TimeOf[Fi!Last(w)]
    BY <1>9, <1>12, <2>1, <2>3, <2>5
  <2> QED
    BY <1>10, <1>12, <2>2, <2>6, RowMembers
<1> QED
  BY <1>5, <1>9, <1>11, <1>12

\* The rows of two timelines: those of both, none twice on account of the merge.
LEMMA MergedRows ==
    ASSUME FilesSound, NEW s \in Seq(Message), NEW extra \in Seq(Message)
    PROVE  LET q == Fi!Merged(s, extra) IN
             /\ q \in Seq(Message)
             /\ \A m : Has(q, m) <=> Has(s, m) \/ Has(extra, m)
             /\ \A m : OnceOf(s, m) => OnceOf(q, m)
<1> DEFINE I == {i \in DOMAIN extra :
                   extra[i] \notin Fi!ToSet(s) /\ \A j \in DOMAIN extra : j < i => extra[j] # extra[i]}
           p == In!Pick(extra, I)
           all == s \o p
           n == Len(s)
           l == Len(p)
<1>1. Fi!Merged(s, extra) = ByTime(all)
  BY SamePick, Zenon DEF Fi!Merged, ByTime
<1>2. DOMAIN extra = 1..Len(extra) /\ Len(extra) \in Nat
  BY Placed
<1>3. /\ p \in Seq(Message) /\ Once(p)
      /\ \A m : Has(p, m) <=> Has(extra, m) /\ ~Has(s, m)
  <2>1. I \subseteq DOMAIN extra
    OBVIOUS
  <2>2. \A i, j \in I : extra[i] = extra[j] => i = j
    <3>1. ASSUME NEW i \in I, NEW j \in I, extra[i] = extra[j]
          PROVE  i = j
      <4>1. i \in Nat /\ j \in Nat /\ i \in DOMAIN extra /\ j \in DOMAIN extra /\ ~(i < j) /\ ~(j < i)
        BY <1>2, <3>1
      <4> QED
        BY <4>1
    <3> QED
      BY <3>1
  <2>3. ASSUME NEW m, Has(extra, m), ~Has(s, m)
        PROVE  \E i \in I : extra[i] = m
    <3> DEFINE Q == {i \in DOMAIN extra : extra[i] = m}
    <3>1. PICK i \in Q : \A j \in Q : ~(j < i)
      <4>1. IsWellFoundedOn({ss \in Nat \X Nat : ss[1] < ss[2]}, Nat)
        BY NatLessThanWellFounded DEF OpToRel
      <4>2. Q \subseteq Nat /\ Q # {}
        BY <1>2, <2>3 DEF Has
      <4> DEFINE R == {ss \in Nat \X Nat : ss[1] < ss[2]}
      <4> HIDE DEF Q, R
      <4>3. PICK i \in Q : \A j \in Q : <<j, i>> \notin R
        BY <4>1, <4>2, WFMin DEF R
      <4> QED
        BY <4>2, <4>3 DEF R
    <3>2. i \in I
      BY <2>3, <3>1, RowMembers
    <3> QED
      BY <3>1, <3>2
  <2>4. \A m : (\E i \in I : extra[i] = m) => Has(extra, m) /\ ~Has(s, m)
    BY RowMembers DEF Has
  <2> HIDE DEF I
  <2> QED
    BY <2>1, <2>2, <2>3, <2>4, PickedOnes
<1> HIDE DEF p
<1>4. n \in Nat /\ DOMAIN s = 1..n /\ l \in Nat /\ DOMAIN p = 1..l
  BY <1>3, Placed
<1>5. /\ all \in Seq(Message) /\ Len(all) = n + l
      /\ \A k \in 1..(n + l) : all[k] = IF k <= n THEN s[k] ELSE p[k - n]
  BY <1>3, Zenon, ConcatProperties
<1> HIDE DEF all, n, l
<1>6. DOMAIN all = 1..(n + l) /\ n + l \in Nat
  BY <1>4, <1>5, Placed
<1>7. \A k \in DOMAIN all :
        \/ k <= n /\ k \in DOMAIN s /\ all[k] = s[k]
        \/ ~(k <= n) /\ k - n \in DOMAIN p /\ all[k] = p[k - n]
  BY <1>4, <1>5, <1>6
<1>8. /\ \A k \in DOMAIN s : k \in DOMAIN all /\ all[k] = s[k]
      /\ \A k \in DOMAIN p : k + n \in DOMAIN all /\ all[k + n] = p[k]
  <2>1. \A k \in 1..l : k + n \in 1..(n + l) /\ ~(k + n <= n) /\ (k + n) - n = k
    BY <1>4
  <2> QED
    BY <1>4, <1>5, <1>6, <2>1
<1>9. \A m : Has(all, m) <=> Has(s, m) \/ Has(p, m)
  BY <1>7, <1>8 DEF Has
<1>10. ASSUME NEW m, OnceOf(s, m)
       PROVE  OnceOf(all, m)
  <2>1. ASSUME NEW j \in DOMAIN all, NEW k \in DOMAIN all, all[j] = m, all[k] = m
        PROVE  j = k
    <3>1. j \in Nat /\ k \in Nat
      BY <1>6
    <3>2. CASE j <= n /\ k <= n
      BY <1>7, <1>10, <2>1, <3>2 DEF OnceOf
    <3>3. CASE ~(j <= n) /\ ~(k <= n)
      <4>1. j - n \in DOMAIN p /\ k - n \in DOMAIN p /\ p[j - n] = p[k - n]
        BY <1>7, <2>1, <3>3
      <4>2. j - n = k - n
        BY <1>3, <4>1 DEF Once
      <4> QED
        BY <1>4, <3>1, <4>2
    <3>4. ASSUME NEW x \in DOMAIN all, NEW y \in DOMAIN all, all[x] = m, all[y] = m, x <= n, ~(y <= n)
          PROVE  FALSE
      <4>1. Has(s, m) /\ Has(p, m)
        BY <1>7, <3>4 DEF Has
      <4> QED
        BY <1>3, <4>1
    <3> QED
      BY <2>1, <3>2, <3>3, <3>4
  <2> QED
    BY <2>1 DEF OnceOf
<1>11. LET q == ByTime(all) IN
         /\ q \in Seq(Message)
         /\ \A m : Has(q, m) <=> Has(all, m)
         /\ \A m : OnceOf(all, m) => OnceOf(q, m)
  BY <1>5, Timed
<1> QED
  BY <1>1, <1>3, <1>9, <1>10, <1>11

Dirs == {"phone", "lid"}
Job == [todo : Seq(Message), ids : SUBSET Message]
Learning == [at : {"idle", "asked", "write"}, base : Fi!Profile, window : Seq(Message),
             cut : SUBSET Message, dir : Dirs, kept : Fi!Profile]
Naming == [at : {"idle", "read", "truncated"}, dir : Dirs, base : Fi!Profile]
FileTypes ==
    /\ paired \in BOOLEAN
    /\ logged \in [Dirs -> Seq(Message)]
    /\ lidDir \in {"open", "merged", "none"}
    /\ history \in 0..1
    /\ profile \in [Dirs -> Fi!Profile]
    /\ appender \in [Appender -> Job]
    /\ learner \in [Learner -> Learning]
    /\ label \in Naming
    /\ merge \in {"idle", "timeline", "profile"}
    /\ notes \in [Dirs -> 1..MaxEdits]
    /\ late \subseteq arrived
    /\ arrived \subseteq Message
    /\ \A a \in Appender : Fi!Busy(a) => appender[a].todo # <<>>
    /\ \A l \in Learner : learner[l].at # "idle" => learner[l].window # <<>>

\* Where the files are.
Filed ==
    /\ ~paired => logged["phone"] = <<>>
    /\ lidDir # "open" => paired
    /\ merge # "idle" =>
         lidDir = "open" /\ paired /\ \A m : Has(logged["lid"], m) => Has(logged["phone"], m)
    /\ \A d \in Dirs : \A m : Has(logged[d], m) => m \in arrived

\* The facts are those of the rows up to a stamp.
Knows(learned, stamp, rows, excused) ==
    \A m \in Message :
        Has(rows, m) /\ m \notin excused /\ TimeOf[m] <= stamp => m \in learned
LearnerKnows(r, rows, excused) ==
    r.at # "idle" =>
        Knows(r.base.learned \cup Fi!ToSet(r.window), TimeOf[Fi!Last(r.window)], rows,
              excused \cup r.cut)

\* Whatever may be written over the profile knows as much as its stamp says.
Known ==
    /\ Knows(profile[Fi!Dir].learned, profile[Fi!Dir].stamp, logged[Fi!Dir], late \cup cut)
    /\ Knows(label.base.learned, label.base.stamp, logged[Fi!Dir], late \cup cut)
    /\ \A l \in Learner : LearnerKnows(learner[l], logged[Fi!Dir], late \cup cut)

\* A message only one appender holds is recorded once.
HeldOnce(hold, rows, m) ==
    \A a \in Appender : Has(hold[a].todo, m) =>
        /\ m \in hold[a].ids \/ ~Has(rows, m)
        /\ \A b \in Appender \ {a} : ~Has(hold[b].todo, m)
RecordedOnce ==
    /\ \A a \in Appender : Once(appender[a].todo)
    /\ \A m \in Message \ shared :
         /\ \A d \in Dirs : OnceOf(logged[d], m)
         /\ HeldOnce(appender, logged[Fi!Dir], m)

\* Whatever may be written over the profile holds the user's last notes.
Noted ==
    unsafe \/ /\ \A d \in Dirs : \/ profile[d] = Fi!Torn /\ label.at = "truncated" /\ label.dir = d
                                 \/ profile[d].notes = notes[d]
              /\ label.at # "idle" => label.base.notes = notes[label.dir]
              /\ \A l \in Learner : learner[l].at = "write" => learner[l].kept.notes = notes[learner[l].dir]

FilesInv == FileTypes /\ Filed /\ Known /\ RecordedOnce /\ Noted /\ Fi!NothingLost

LEMMA DirsHere == Fi!Dir \in Dirs /\ (paired => Fi!Dir = "phone") /\ (~paired => Fi!Dir = "lid")
BY DEF Fi!Dir, Dirs

\* More rows, each among those before, excused, or later than the stamp.
LEMMA KnowsStill ==
    ASSUME NEW learned, NEW stamp, NEW rows, NEW rows2, NEW ex, NEW ex2,
           Knows(learned, stamp, rows, ex), ex \subseteq ex2,
           \A m \in Message : Has(rows2, m) => Has(rows, m) \/ m \in ex2 \/ ~(TimeOf[m] <= stamp)
    PROVE  Knows(learned, stamp, rows2, ex2)
BY DEF Knows

\* Steps that leave the timelines alone.
LEMMA FiledStays ==
    ASSUME FilesInv, UNCHANGED <<paired, logged, lidDir, merge, appender, shared, arrived>>
    PROVE  Filed' /\ RecordedOnce' /\ Fi!NothingLost' /\ UNCHANGED Fi!Dir
<1>1. UNCHANGED Fi!Dir
  BY DEF Fi!Dir
<1>2. Filed' /\ Fi!NothingLost'
  BY DEF FilesInv, Filed, Fi!NothingLost
<1>3. RecordedOnce'
  BY <1>1 DEF FilesInv, RecordedOnce, HeldOnce
<1> QED
  BY <1>1, <1>2, <1>3

\* Steps that leave the profile and its writers alone.
LEMMA NotedStays ==
    ASSUME FilesInv, UNCHANGED <<profile, learner, label, notes, unsafe>>
    PROVE  Noted'
BY DEF FilesInv, Noted

LEMMA FilesStart == ASSUME FilesSound, Fi!Init PROVE FilesInv
<1>1. /\ <<>> \in Seq(Message) /\ \A m : ~Has(<<>>, m)
      /\ Once(<<>>) /\ \A m : OnceOf(<<>>, m)
  BY DEF Has, Once, OnceOf
<1>2. Fi!Torn \in Fi!Profile /\ Fi!Fresh \in Fi!Profile /\ 1 \in 1..MaxEdits
  <2>1. MaxEdits \in Nat /\ 1 <= MaxEdits /\ 0 \in 0..MaxEdits /\ 1 \in 0..MaxEdits
    BY DEF FilesSound
  <2> QED
    BY <2>1 DEF Fi!Torn, Fi!Fresh, Fi!Profile
<1>3. /\ logged = [d \in Dirs |-> <<>>] /\ profile = [d \in Dirs |-> Fi!Fresh]
      /\ notes = [d \in Dirs |-> 1]
  BY DEF Fi!Init, Dirs
<1>4. FileTypes
  <2>1. Fi!NoAppender \in Job /\ Fi!NoLearner \in Learning /\ Fi!NoLabel \in Naming
    BY <1>1, <1>2 DEF Fi!NoAppender, Fi!NoLearner, Fi!NoLabel, Job, Learning, Naming, Dirs
  <2>2. \A l \in Learner : learner[l].at = "idle"
    BY DEF Fi!Init, Fi!NoLearner
  <2>3. \A a \in Appender : ~Fi!Busy(a)
    BY DEF Fi!Init, Fi!Busy
  <2>4. /\ logged \in [Dirs -> Seq(Message)] /\ profile \in [Dirs -> Fi!Profile]
        /\ notes \in [Dirs -> 1..MaxEdits]
    BY <1>1, <1>2, <1>3
  <2> QED
    BY <2>1, <2>2, <2>3, <2>4 DEF Fi!Init, FileTypes
<1>5. \A d \in Dirs : logged[d] = <<>>
  BY <1>3
<1>6. Filed /\ Fi!NothingLost
  BY <1>1, <1>5 DEF Fi!Init, Filed, Fi!NothingLost, Dirs
<1>7. Known
  BY <1>1, <1>5, DirsHere DEF Known, Knows, LearnerKnows
<1>8. RecordedOnce
  <2>1. \A a \in Appender : appender[a].todo = <<>>
    BY DEF Fi!Init, Fi!NoAppender
  <2> QED
    BY <1>1, <1>5, <2>1 DEF RecordedOnce, HeldOnce
<1>9. Noted
  <2>1. \A d \in Dirs : profile[d].notes = notes[d]
    BY <1>3 DEF Fi!Fresh, Fi!Torn
  <2>2. label.at = "idle" /\ \A l \in Learner : learner[l].at = "idle"
    BY DEF Fi!Init, Fi!NoLabel, Fi!NoLearner
  <2> QED
    BY <2>1, <2>2 DEF Noted
<1> QED
  BY <1>4, <1>6, <1>7, <1>8, <1>9 DEF FilesInv

\* The parts of the types that a step on the timelines leaves alone.
fileRest == <<paired, logged, lidDir, history, profile, learner, label, merge, notes, late, cut,
              unsafe, arrived>>

\* A webhook or a backfill takes up messages.
LEMMA Collected ==
    ASSUME FilesSound, FilesInv, NEW a \in Appender, NEW todo \in Seq(Message),
           Once(todo), todo # <<>>, Fi!Collect(a, todo), UNCHANGED fileRest
    PROVE  FilesInv'
<1> DEFINE job == [todo |-> todo, ids |-> Fi!ToSet(logged[Fi!Dir])]
<1>1. /\ FileTypes /\ Filed /\ Known /\ RecordedOnce /\ Noted /\ Fi!NothingLost
      /\ UNCHANGED <<paired, logged, lidDir, history, profile, learner, label, merge, notes,
                     late, cut, unsafe, arrived>>
  BY DEF FilesInv, fileRest
<1>2. /\ appender' = [appender EXCEPT ![a] = job]
      /\ shared \subseteq shared'
  BY DEF Fi!Collect
<1>3. \A b \in Appender \ {a} : \A m : Has(todo, m) /\ Has(appender[b].todo, m) => m \in shared'
  <2> TAKE b \in Appender \ {a}
  <2> TAKE m
  <2> HAVE Has(todo, m) /\ Has(appender[b].todo, m)
  <2>1. m \in Fi!ToSet(todo) \cap Fi!ToSet(appender[b].todo)
    BY RowMembers
  <2> QED
    BY <2>1 DEF Fi!Collect
<1>4. /\ job \in Job /\ job.todo = todo /\ \A m : m \in job.ids <=> Has(logged[Fi!Dir], m)
  <2>1. logged[Fi!Dir] \in Seq(Message)
    BY <1>1, DirsHere DEF FileTypes
  <2>2. \A m \in Fi!ToSet(logged[Fi!Dir]) : m \in Message
    BY <2>1 DEF Fi!ToSet
  <2> QED
    BY <2>2, RowMembers DEF Job
<1> HIDE DEF job
<1>5. /\ appender' \in [Appender -> Job] /\ appender'[a] = job
      /\ \A b \in Appender : b # a => appender'[b] = appender[b]
  BY <1>1, <1>2, <1>4 DEF FileTypes
<1>6. FileTypes'
  <2>1. \A b \in Appender : Fi!Busy(b)' => appender'[b].todo # <<>>
    BY <1>1, <1>4, <1>5 DEF FileTypes, Fi!Busy
  <2> QED
    BY <1>1, <1>5, <2>1 DEF FileTypes
<1>7. UNCHANGED Fi!Dir
  BY <1>1 DEF Fi!Dir
<1>8. Filed' /\ Fi!NothingLost' /\ Known' /\ Noted'
  BY <1>1, <1>7 DEF Filed, Fi!NothingLost, Known, Noted
<1>9. RecordedOnce'
  <2>1. \A b \in Appender : Once(appender'[b].todo)
    BY <1>1, <1>4, <1>5 DEF RecordedOnce
  <2>2. ASSUME NEW m \in Message \ shared'
        PROVE  /\ \A d \in Dirs : OnceOf(logged[d], m)
               /\ HeldOnce(appender', logged[Fi!Dir], m)
    <3>1. (\A d \in Dirs : OnceOf(logged[d], m)) /\ HeldOnce(appender, logged[Fi!Dir], m)
      BY <1>1, <1>2, <2>2 DEF RecordedOnce
    <3>2. HeldOnce(appender', logged[Fi!Dir], m)
      BY <1>3, <1>4, <1>5, <2>2, <3>1 DEF HeldOnce
    <3> QED
      BY <3>1, <3>2
  <2> QED
    BY <1>1, <1>7, <2>1, <2>2 DEF RecordedOnce
<1> QED
  BY <1>6, <1>8, <1>9 DEF FilesInv

\* What is taken up is one message, or messages listed in some order.
LEMMA ListedOnce ==
    ASSUME FilesSound, NEW ms \in (SUBSET Message) \ {{}}, NEW todo \in Fi!Listings(ms)
    PROVE  todo \in Seq(Message) /\ Once(todo) /\ todo # <<>>
<1>1. IsFiniteSet(ms) /\ Cardinality(ms) \in Nat /\ Cardinality(ms) # 0
  <2>1. IsFiniteSet(ms)
    <3>1. IsFiniteSet(Message) /\ ms \in SUBSET Message
      BY DEF FilesSound
    <3> QED
      BY <3>1, FS_Subset
  <2>2. Cardinality(ms) \in Nat
    BY <2>1, FS_CardinalityType
  <2>3. Cardinality(ms) # 0
    BY <2>1, FS_EmptySet
  <2> QED
    BY <2>1, <2>2, <2>3
<1>2. todo \in [1..Cardinality(ms) -> ms] /\ Once(todo)
  BY SameCount DEF Fi!Listings, Fi!IsInjective, Once
<1>3. todo \in [1..Cardinality(ms) -> Message]
  BY <1>2
<1>4. todo \in Seq(Message)
  BY ONLY <1>1, <1>3, SeqDef
<1>5. 1 \in DOMAIN todo
  BY <1>1, <1>2
<1> QED
  BY <1>2, <1>4, <1>5, Placed

LEMMA TakenUp ==
    ASSUME FilesSound, FilesInv, NEW a \in Appender,
           \/ \E m \in Message : Fi!Record(a, m)
           \/ \E ms \in (SUBSET Message) \ {{}} : Fi!Backfill(a, ms) \/ Fi!BackfillFromLog(a, ms)
    PROVE  FilesInv'
<1>1. UNCHANGED fileRest
  BY DEF Fi!Record, Fi!Backfill, Fi!BackfillFromLog, fileRest
<1>2. ASSUME NEW m \in Message, Fi!Record(a, m)
      PROVE  FilesInv'
  <2>1. /\ <<m>> \in Seq(Message) /\ <<m>> # <<>> /\ Once(<<m>>)
        /\ Fi!Collect(a, <<m>>)
    BY <1>2, Single DEF Fi!Record, Once
  <2> QED
    BY <1>1, <2>1, Collected
<1>3. ASSUME NEW ms \in (SUBSET Message) \ {{}}, Fi!Backfill(a, ms) \/ Fi!BackfillFromLog(a, ms)
      PROVE  FilesInv'
  <2>1. PICK todo \in Fi!Listings(ms) : Fi!Collect(a, todo)
    BY <1>3 DEF Fi!Backfill, Fi!BackfillFromLog, Fi!NewestFirst, Fi!OldestFirst
  <2> QED
    BY <1>1, <2>1, ListedOnce, Collected
<1> QED
  BY <1>2, <1>3

\* A message is appended unless the appender saw its id.
LEMMA AppendedOne ==
    ASSUME FilesSound, FilesInv, NEW a \in Appender, Fi!AppendNext(a)
    PROVE  FilesInv'
<1>1. /\ FileTypes /\ Filed /\ Known /\ RecordedOnce /\ Noted /\ Fi!NothingLost
  BY DEF FilesInv
<1>2. UNCHANGED <<paired, lidDir, history, profile, learner, label, merge, notes, cut, shared, unsafe>>
  BY DEF Fi!AppendNext
<1>3. PICK todo, m, rest : todo = appender[a].todo /\ m = Head(todo) /\ rest = Tail(todo)
  OBVIOUS
<1>4. /\ todo \in Seq(Message) /\ todo # <<>> /\ appender[a].ids \in SUBSET Message
      /\ appender[a] \in Job /\ merge = "idle"
  BY <1>1, <1>3 DEF FileTypes, Job, Fi!AppendNext
<1>5. /\ m \in Message /\ rest \in Seq(Message) /\ Once(rest) /\ ~Has(rest, m)
      /\ \A x : Has(todo, x) <=> x = m \/ Has(rest, x)
  <2>1. Once(todo)
    BY <1>1, <1>3 DEF RecordedOnce
  <2>2. m \in Message /\ rest \in Seq(Message)
    BY <1>3, <1>4, FirstAndRest
  <2> QED
    BY <1>3, <1>4, <2>1, <2>2, Rest
<1> DEFINE d0 == Fi!Dir
           rows == logged[d0]
           more == Append(rows, m)
<1>6. d0 \in Dirs /\ rows \in Seq(Message) /\ UNCHANGED d0
  BY <1>1, <1>2, DirsHere DEF FileTypes, Fi!Dir
<1>7. /\ more \in Seq(Message)
      /\ \A x : Has(more, x) <=> Has(rows, x) \/ x = m
      /\ \A x : OnceOf(rows, x) /\ (x # m \/ ~Has(rows, m)) => OnceOf(more, x)
  <2> DEFINE n == Len(rows)
  <2>1. n \in Nat /\ DOMAIN rows = 1..n
    BY <1>6, Placed
  <2> HIDE DEF rows, d0
  <2>2. /\ more \in Seq(Message) /\ Len(more) = n + 1
        /\ \A k \in 1..n : more[k] = rows[k]
        /\ more[n + 1] = m
    BY <1>5, <1>6, AppendProperties
  <2> HIDE DEF more, n
  <2>3. DOMAIN more = 1..(n + 1)
    BY <2>2, Placed
  <2>4. \A k \in DOMAIN more : (k \in DOMAIN rows /\ more[k] = rows[k]) \/ (k = n + 1 /\ more[k] = m)
    BY <2>1, <2>2, <2>3
  <2>5. n + 1 \in DOMAIN more /\ \A k \in DOMAIN rows : k \in DOMAIN more /\ more[k] = rows[k]
    BY <2>1, <2>2, <2>3
  <2> QED
    BY <2>2, <2>4, <2>5 DEF Has, OnceOf
<1>8. \/ m \in appender[a].ids /\ UNCHANGED <<logged, late, arrived>>
      \/ /\ m \notin appender[a].ids
         /\ logged' = [logged EXCEPT ![d0] = more]
         /\ arrived' = arrived \cup {m}
         /\ late' = IF m \notin Fi!ToSet(rows) /\ \E t \in Fi!StampAhead : t >= TimeOf[m]
                    THEN late \cup {m} ELSE late
  BY <1>3 DEF Fi!AppendNext, Fi!Seen
<1>9. appender' = [appender EXCEPT ![a] = IF rest = <<>> THEN Fi!NoAppender ELSE [@ EXCEPT !.todo = rest]]
  BY <1>3 DEF Fi!AppendNext
<1> HIDE DEF more, rows, d0
<1>10. /\ logged' \in [Dirs -> Seq(Message)]
       /\ \A d \in Dirs \ {d0} : logged'[d] = logged[d]
       /\ \/ m \in appender[a].ids /\ UNCHANGED <<logged, late, arrived>>
          \/ /\ m \notin appender[a].ids /\ logged'[d0] = more
             /\ arrived' = arrived \cup {m}
             /\ late' = IF m \notin Fi!ToSet(rows) /\ \E t \in Fi!StampAhead : t >= TimeOf[m]
                        THEN late \cup {m} ELSE late
  BY <1>1, <1>6, <1>7, <1>8 DEF FileTypes
<1>11. PICK job : /\ appender' = [appender EXCEPT ![a] = job] /\ job \in Job
                  /\ job.todo = rest
                  /\ rest = <<>> => job = Fi!NoAppender
                  /\ rest # <<>> => job.ids = appender[a].ids
  <2>1. CASE rest = <<>>
    <3>1. Fi!NoAppender \in Job /\ Fi!NoAppender.todo = <<>>
      BY <1>5, <2>1 DEF Fi!NoAppender, Job
    <3> QED
      BY <1>9, <2>1, <3>1
  <2>2. CASE rest # <<>>
    <3> DEFINE job == [appender[a] EXCEPT !.todo = rest]
    <3>1. job \in Job /\ job.todo = rest /\ job.ids = appender[a].ids
      BY <1>4, <1>5 DEF Job
    <3>2. appender' = [appender EXCEPT ![a] = job]
      BY <1>9, <2>2
    <3> HIDE DEF job
    <3> QED
      BY <2>2, <3>1, <3>2
  <2> QED
    BY <2>1, <2>2
<1>12. /\ appender' \in [Appender -> Job] /\ appender'[a] = job
       /\ \A b \in Appender : b # a => appender'[b] = appender[b]
  BY <1>1, <1>11 DEF FileTypes
<1>13. FileTypes'
  <2>1. \A b \in Appender : Fi!Busy(b)' => appender'[b].todo # <<>>
    BY <1>1, <1>11, <1>12 DEF FileTypes, Fi!Busy
  <2>2. late' \subseteq arrived' /\ arrived' \subseteq Message
    BY <1>1, <1>5, <1>10 DEF FileTypes
  <2> QED
    BY <1>1, <1>2, <1>10, <1>12, <2>1, <2>2 DEF FileTypes
<1>14. Filed' /\ Fi!NothingLost'
  <2>1. Has(logged'[d0], m) \/ UNCHANGED <<logged, arrived>>
    BY <1>7, <1>10
  <2>2. \A d \in Dirs : \A x : Has(logged'[d], x) <=> Has(logged[d], x) \/ (d = d0 /\ x = m /\ Has(logged'[d0], m))
    BY <1>6, <1>7, <1>10 DEF rows
  <2>3. \A x : x \in arrived' <=> x \in arrived \/ (x = m /\ Has(logged'[d0], m))
    <3>1. m \in appender[a].ids /\ UNCHANGED <<logged, arrived>> /\ Has(logged[d0], m) => m \in arrived
      BY <1>1, <1>6 DEF Filed
    <3> QED
      BY <1>7, <1>10, <3>1
  <2>4. Filed'
    <3>1. ~paired => d0 = "lid"
      BY DirsHere DEF d0
    <3>2. ~paired => logged'["phone"] = <<>>
      BY <1>1, <1>10, <3>1 DEF Filed, Dirs
    <3>3. \A d \in Dirs : \A x : Has(logged'[d], x) => x \in arrived'
      BY <1>1, <2>2, <2>3 DEF Filed
    <3> QED
      BY <1>1, <1>2, <1>4, <3>2, <3>3 DEF Filed
  <2>5. Fi!NothingLost'
    <3>1. \A x \in arrived : Has(logged["phone"], x) \/ (lidDir # "merged" /\ Has(logged["lid"], x))
      BY <1>1, RowMembers DEF Fi!NothingLost
    <3>2. d0 = "phone" \/ (d0 = "lid" /\ lidDir # "merged")
      BY <1>1, DirsHere DEF d0, Filed
    <3>3. \A x \in arrived' : Has(logged'["phone"], x) \/ (lidDir # "merged" /\ Has(logged'["lid"], x))
      BY <2>2, <2>3, <3>1, <3>2 DEF Dirs
    <3> QED
      BY <1>2, <3>3, RowMembers DEF Fi!NothingLost
  <2> QED
    BY <2>4, <2>5
<1>15. Known'
  <2>1. \A x \in Message, t \in Fi!StampAhead :
          Has(logged'[d0], x) => Has(rows, x) \/ x \in late' \/ ~(TimeOf[x] <= t)
    <3> TAKE x \in Message, t \in Fi!StampAhead
    <3> HAVE Has(logged'[d0], x)
    <3>1. CASE m \in appender[a].ids
      BY <1>10, <3>1 DEF rows
    <3>2. CASE m \notin appender[a].ids
      <4>1. Has(rows, x) \/ x = m
        BY <1>7, <1>10, <3>2
      <4>2. CASE x = m /\ ~Has(rows, m)
        <5>1. m \notin Fi!ToSet(rows)
          BY <4>2, RowMembers
        <5>2. CASE TimeOf[m] <= t
          <6>1. t >= TimeOf[m]
            BY <5>2
          <6> QED
            BY <1>10, <3>2, <4>2, <5>1, <6>1
        <5> QED
          BY <4>2, <5>2
      <4> QED
        BY <4>1, <4>2
    <3> QED
      BY <3>1, <3>2
  <2>2. late \subseteq late' /\ UNCHANGED cut
    BY <1>2, <1>10
  <2>3. /\ profile[d0].stamp \in Fi!StampAhead /\ label.base.stamp \in Fi!StampAhead
        /\ \A l \in Learner : learner[l].at # "idle" =>
             TimeOf[Fi!Last(learner[l].window)] \in Fi!StampAhead
    BY DEF Fi!StampAhead, d0
  <2>4. Knows(profile[d0].learned, profile[d0].stamp, logged'[d0], late' \cup cut)
    <3>1. Knows(profile[d0].learned, profile[d0].stamp, rows, late \cup cut)
      BY <1>1 DEF Known, rows, d0
    <3> QED
      BY <2>1, <2>2, <2>3, <3>1, KnowsStill
  <2>5. Knows(label.base.learned, label.base.stamp, logged'[d0], late' \cup cut)
    <3>1. Knows(label.base.learned, label.base.stamp, rows, late \cup cut)
      BY <1>1 DEF Known, rows, d0
    <3> QED
      BY <2>1, <2>2, <2>3, <3>1, KnowsStill
  <2>6. ASSUME NEW l \in Learner
        PROVE  LearnerKnows(learner[l], logged'[d0], late' \cup cut)
    <3> SUFFICES ASSUME learner[l].at # "idle"
                 PROVE  Knows(learner[l].base.learned \cup Fi!ToSet(learner[l].window),
                              TimeOf[Fi!Last(learner[l].window)], logged'[d0],
                              (late' \cup cut) \cup learner[l].cut)
      BY DEF LearnerKnows
    <3>1. Knows(learner[l].base.learned \cup Fi!ToSet(learner[l].window),
                TimeOf[Fi!Last(learner[l].window)], rows, (late \cup cut) \cup learner[l].cut)
      BY <1>1 DEF Known, LearnerKnows, rows, d0
    <3> QED
      BY <2>1, <2>2, <2>3, <3>1, KnowsStill
  <2> QED
    BY <1>2, <1>6, <2>4, <2>5, <2>6 DEF Known, d0
<1>16. RecordedOnce'
  <2>1. \A b \in Appender : Once(appender'[b].todo)
    BY <1>1, <1>5, <1>11, <1>12 DEF RecordedOnce
  <2>2. ASSUME NEW x \in Message \ shared
        PROVE  /\ \A d \in Dirs : OnceOf(logged'[d], x)
               /\ HeldOnce(appender', logged'[d0], x)
    <3>1. (\A d \in Dirs : OnceOf(logged[d], x)) /\ HeldOnce(appender, rows, x)
      BY <1>1 DEF RecordedOnce, rows, d0
    <3>2. x = m => m \in appender[a].ids \/ ~Has(rows, m)
      BY <1>3, <1>5, <3>1 DEF HeldOnce
    <3>3. \A d \in Dirs : OnceOf(logged'[d], x)
      <4> TAKE d \in Dirs
      <4>1. CASE d = d0
        BY <1>6, <1>7, <1>10, <3>1, <3>2, <4>1 DEF rows
      <4>2. CASE d # d0
        BY <1>10, <3>1, <4>2
      <4> QED
        BY <4>1, <4>2
    <3>4. HeldOnce(appender', logged'[d0], x)
      <4> SUFFICES ASSUME NEW b \in Appender, Has(appender'[b].todo, x)
                   PROVE  /\ x \in appender'[b].ids \/ ~Has(logged'[d0], x)
                          /\ \A c \in Appender \ {b} : ~Has(appender'[c].todo, x)
        BY DEF HeldOnce
      <4>1. \A c \in Appender : Has(appender'[c].todo, x) => Has(appender[c].todo, x)
        BY <1>3, <1>5, <1>11, <1>12
      <4>2. /\ x \in appender[b].ids \/ ~Has(rows, x)
            /\ \A c \in Appender \ {b} : ~Has(appender[c].todo, x)
        BY <3>1, <4>1 DEF HeldOnce
      <4>3. \A c \in Appender \ {b} : ~Has(appender'[c].todo, x)
        BY <4>1, <4>2
      <4>4. x # m
        <5>1. Has(appender[a].todo, m)
          BY <1>3, <1>5
        <5>2. ~Has(appender'[a].todo, m)
          BY <1>5, <1>11, <1>12
        <5> QED
          BY <4>2, <5>1, <5>2
      <4>5. Has(logged'[d0], x) => Has(rows, x)
        BY <1>7, <1>10, <4>4 DEF rows
      <4>6. appender'[b].ids = appender[b].ids
        <5>1. ~Has(<<>>, x)
          BY DEF Has
        <5> QED
          BY <1>11, <1>12, <5>1
      <4> QED
        BY <4>2, <4>3, <4>5, <4>6
    <3> QED
      BY <3>3, <3>4
  <2> QED
    BY <1>2, <1>6, <2>1, <2>2 DEF RecordedOnce, d0
<1>17. Noted'
  BY <1>2, NotedStays
<1> QED
  BY <1>13, <1>14, <1>15, <1>16, <1>17 DEF FilesInv

\* Steps that leave the appenders, the profile's writers and what they know alone.
LEMMA Paired == ASSUME FilesSound, FilesInv, Fi!LearnPair PROVE FilesInv'
<1>1. /\ FileTypes /\ Filed /\ Known /\ RecordedOnce /\ Noted /\ Fi!NothingLost
      /\ ~paired /\ paired' /\ merge = "idle"
      /\ UNCHANGED <<logged, lidDir, history, profile, appender, learner, label, merge,
                     notes, late, cut, unsafe, arrived>>
  BY DEF FilesInv, Fi!LearnPair
<1>2. paired' \in BOOLEAN
  BY DEF Fi!LearnPair
<1>3. FileTypes'
  BY <1>1, <1>2 DEF FileTypes, Fi!Busy
<1>4. Fi!Dir' = "phone" /\ logged["phone"] = <<>> /\ \A m : ~Has(<<>>, m)
  BY <1>1 DEF Fi!Dir, Filed, Has
<1>5. Filed' /\ Fi!NothingLost'
  BY <1>1 DEF Filed, Fi!NothingLost
<1>6. Known'
  BY <1>1, <1>4 DEF Known, Knows, LearnerKnows
<1>7. RecordedOnce'
  <2>1. shared \subseteq shared'
    BY DEF Fi!LearnPair
  <2>2. \A m : ~Has(logged'["phone"], m)
    BY <1>1, <1>4
  <2>3. \A a \in Appender : \A m : Has(appender[a].todo, m) => m \in shared'
    BY RowMembers DEF Fi!LearnPair
  <2> QED
    BY <1>1, <1>4, <2>1, <2>2, <2>3 DEF RecordedOnce, HeldOnce
<1>8. Noted'
  BY <1>1, NotedStays
<1> QED
  BY <1>3, <1>5, <1>6, <1>7, <1>8 DEF FilesInv

\* A step of one learner.
LEMMA OneLearner ==
    ASSUME FileTypes, NEW l \in Learner, NEW r \in Learning, learner' = [learner EXCEPT ![l] = r],
           r.at # "idle" => r.window # <<>>
    PROVE  /\ learner' \in [Learner -> Learning] /\ learner'[l] = r
           /\ \A x \in Learner : x # l => learner'[x] = learner[x]
           /\ \A x \in Learner : learner'[x].at # "idle" => learner'[x].window # <<>>
BY DEF FileTypes

LEMMA IdleLearner ==
    ASSUME FilesSound
    PROVE  Fi!NoLearner \in Learning /\ Fi!NoLearner.at = "idle" /\ Fi!Torn \in Fi!Profile
<1>1. Fi!Torn \in Fi!Profile
  <2>1. 0 \in 0..MaxEdits
    BY DEF FilesSound
  <2> QED
    BY <2>1 DEF Fi!Torn, Fi!Profile
<1>2. <<>> \in Seq(Message)
  OBVIOUS
<1> QED
  BY <1>1, <1>2 DEF Fi!NoLearner, Learning, Dirs

\* A learner asks a model about a window.
LEMMA Asked ==
    ASSUME FilesSound, FilesInv, NEW l \in Learner, Fi!ReadAndAsk(l)
    PROVE  FilesInv'
<1>1. /\ FileTypes /\ Filed /\ Known /\ RecordedOnce /\ Noted /\ Fi!NothingLost
      /\ UNCHANGED <<paired, logged, lidDir, history, profile, appender, label, merge,
                     notes, late, cut, shared, unsafe, arrived>>
  BY DEF FilesInv, Fi!ReadAndAsk, Fi!logs
<1>2. PICK base, w, off : /\ base = profile[Fi!Dir] /\ w = Fi!Window(base.stamp)
                          /\ off = Fi!CutOff(base.stamp)
  OBVIOUS
<1>3. /\ base \in Fi!Profile /\ base.stamp \in Nat /\ base.learned \subseteq Message
      /\ logged[Fi!Dir] \in Seq(Message)
  <2>1. base \in Fi!Profile /\ logged[Fi!Dir] \in Seq(Message)
    BY <1>1, <1>2, DirsHere DEF FileTypes
  <2>2. base.stamp \in Nat
    BY <2>1 DEF Fi!Profile, FilesSound
  <2> QED
    BY <2>1, <2>2 DEF Fi!Profile
<1>4. w # <<>>
  BY <1>2 DEF Fi!ReadAndAsk
<1>5. /\ w \in Seq(Message) /\ Fi!Last(w) \in Message /\ off \subseteq Message
      /\ \A m \in Message :
           Has(logged[Fi!Dir], m) /\ TimeOf[m] <= TimeOf[Fi!Last(w)] =>
             TimeOf[m] <= base.stamp \/ Has(w, m) \/ m \in off
  BY <1>2, <1>3, <1>4, Windowed
<1> DEFINE r == [Fi!NoLearner EXCEPT !.at = "asked", !.base = base, !.window = w, !.cut = off]
<1>6. learner' = [learner EXCEPT ![l] = r]
  BY <1>2 DEF Fi!ReadAndAsk
<1>7. /\ r \in Learning /\ r.at = "asked" /\ r.base = base /\ r.window = w /\ r.cut = off
  BY <1>3, <1>5, IdleLearner DEF Learning, Fi!NoLearner, Dirs
<1> HIDE DEF r
<1>8. /\ learner' \in [Learner -> Learning] /\ learner'[l] = r
      /\ \A x \in Learner : x # l => learner'[x] = learner[x]
      /\ \A x \in Learner : learner'[x].at # "idle" => learner'[x].window # <<>>
  BY <1>1, <1>4, <1>6, <1>7, OneLearner
<1>9. FileTypes'
  BY <1>1, <1>8 DEF FileTypes, Fi!Busy
<1>10. Filed' /\ RecordedOnce' /\ Fi!NothingLost' /\ UNCHANGED Fi!Dir
  BY <1>1, FiledStays
<1>11. Known'
  <2>1. Knows(base.learned \cup Fi!ToSet(w), TimeOf[Fi!Last(w)], logged[Fi!Dir], (late \cup cut) \cup off)
    <3>1. Knows(base.learned, base.stamp, logged[Fi!Dir], late \cup cut)
      BY <1>1, <1>2 DEF Known
    <3> QED
      BY <1>5, <3>1, RowMembers DEF Knows
  <2>2. LearnerKnows(r, logged[Fi!Dir], late \cup cut)
    BY <1>7, <2>1 DEF LearnerKnows
  <2> QED
    BY <1>1, <1>8, <1>10, <2>2 DEF Known
<1>12. Noted'
  BY <1>1, <1>7, <1>8 DEF Noted
<1> QED
  BY <1>9, <1>10, <1>11, <1>12 DEF FilesInv

LEMMA Unanswered ==
    ASSUME FilesSound, FilesInv, NEW l \in Learner, Fi!NoAnswer(l)
    PROVE  FilesInv'
<1>1. /\ FileTypes /\ Filed /\ Known /\ RecordedOnce /\ Noted /\ Fi!NothingLost
      /\ UNCHANGED <<paired, logged, lidDir, history, profile, appender, label, merge,
                     notes, late, cut, shared, unsafe, arrived>>
  BY DEF FilesInv, Fi!NoAnswer, Fi!logs
<1>2. /\ learner' \in [Learner -> Learning] /\ learner'[l] = Fi!NoLearner
      /\ \A x \in Learner : x # l => learner'[x] = learner[x]
      /\ \A x \in Learner : learner'[x].at # "idle" => learner'[x].window # <<>>
  BY <1>1, IdleLearner, OneLearner DEF Fi!NoAnswer
<1>3. FileTypes'
  BY <1>1, <1>2 DEF FileTypes, Fi!Busy
<1>4. Filed' /\ RecordedOnce' /\ Fi!NothingLost' /\ UNCHANGED Fi!Dir
  BY <1>1, FiledStays
<1>5. Known' /\ Noted'
  BY <1>1, <1>2, <1>4, IdleLearner DEF Known, LearnerKnows, Noted
<1> QED
  BY <1>3, <1>4, <1>5 DEF FilesInv

\* The answer came: the profile is read again for what it must keep.
LEMMA AnswerCame ==
    ASSUME FilesSound, FilesInv, NEW l \in Learner, Fi!Answered(l)
    PROVE  FilesInv'
<1>1. /\ FileTypes /\ Filed /\ Known /\ RecordedOnce /\ Noted /\ Fi!NothingLost
      /\ UNCHANGED <<paired, logged, lidDir, history, profile, appender, label, merge,
                     notes, late, cut, shared, arrived>>
      /\ unsafe' = (unsafe \/ profile[Fi!Dir] = Fi!Torn)
  BY DEF FilesInv, Fi!Answered
<1>2. PICK c : c = learner[l]
  OBVIOUS
<1>3. /\ c \in Learning /\ c.at = "asked" /\ c.window # <<>>
      /\ Fi!Dir \in Dirs /\ profile[Fi!Dir] \in Fi!Profile
  BY <1>1, <1>2, DirsHere DEF FileTypes, Fi!Answered
<1> DEFINE r == [c EXCEPT !.at = "write", !.dir = Fi!Dir, !.kept = profile[Fi!Dir]]
<1>4. learner' = [learner EXCEPT ![l] = r]
  BY <1>2 DEF Fi!Answered, Fi!Kept
<1>5. /\ r \in Learning /\ r.at = "write" /\ r.base = c.base /\ r.window = c.window
      /\ r.cut = c.cut /\ r.dir = Fi!Dir /\ r.kept = profile[Fi!Dir]
  BY <1>3 DEF Learning
<1> HIDE DEF r
<1>6. /\ learner' \in [Learner -> Learning] /\ learner'[l] = r
      /\ \A x \in Learner : x # l => learner'[x] = learner[x]
      /\ \A x \in Learner : learner'[x].at # "idle" => learner'[x].window # <<>>
  BY <1>1, <1>3, <1>4, <1>5, OneLearner
<1>7. FileTypes'
  BY <1>1, <1>6 DEF FileTypes, Fi!Busy
<1>8. Filed' /\ RecordedOnce' /\ Fi!NothingLost' /\ UNCHANGED Fi!Dir
  BY <1>1, FiledStays
<1>9. Known'
  <2>1. LearnerKnows(c, logged[Fi!Dir], late \cup cut)
    BY <1>1, <1>2 DEF Known
  <2>2. LearnerKnows(r, logged[Fi!Dir], late \cup cut)
    BY <1>3, <1>5, <2>1 DEF LearnerKnows
  <2> QED
    BY <1>1, <1>6, <1>8, <2>2 DEF Known
<1>10. Noted'
  <2> SUFFICES ASSUME ~unsafe, profile[Fi!Dir] # Fi!Torn
               PROVE  Noted'
    BY <1>1 DEF Noted
  <2>1. r.kept.notes = notes[r.dir]
    BY <1>1, <1>3, <1>5 DEF Noted
  <2>2. \A d \in Dirs : \/ profile[d] = Fi!Torn /\ label.at = "truncated" /\ label.dir = d
                        \/ profile[d].notes = notes[d]
    BY <1>1 DEF Noted
  <2>3. \A x \in Learner : learner'[x].at = "write" => learner'[x].kept.notes = notes[learner'[x].dir]
    BY <1>1, <1>6, <2>1 DEF Noted
  <2> QED
    BY <1>1, <2>2, <2>3 DEF Noted
<1> QED
  BY <1>7, <1>8, <1>9, <1>10 DEF FilesInv

\* The profile as another writes it.
LEMMA OneProfile ==
    ASSUME FileTypes, NEW d \in Dirs, NEW p \in Fi!Profile, profile' = [profile EXCEPT ![d] = p]
    PROVE  /\ profile' \in [Dirs -> Fi!Profile] /\ profile'[d] = p
           /\ \A x \in Dirs : x # d => profile'[x] = profile[x]
BY DEF FileTypes

\* The learner replaces the profile.
LEMMA Replaced ==
    ASSUME FilesSound, FilesInv, NEW l \in Learner, Fi!ReplaceProfile(l)
    PROVE  FilesInv'
<1>1. /\ FileTypes /\ Filed /\ Known /\ RecordedOnce /\ Noted /\ Fi!NothingLost
      /\ UNCHANGED <<paired, logged, lidDir, history, appender, label, merge,
                     notes, late, shared, unsafe, arrived>>
  BY DEF FilesInv, Fi!ReplaceProfile
<1>2. PICK c : c = learner[l]
  OBVIOUS
<1>3. /\ c \in Learning /\ c.at = "write" /\ c.window # <<>> /\ c.window \in Seq(Message)
      /\ c.dir \in Dirs /\ c.kept \in Fi!Profile /\ c.base.learned \subseteq Message
  <2>1. c \in Learning /\ c.at = "write" /\ c.window # <<>>
    BY <1>1, <1>2 DEF FileTypes, Fi!ReplaceProfile
  <2> QED
    BY <2>1 DEF Learning, Fi!Profile
<1>4. Fi!Last(c.window) \in Message /\ Fi!ToSet(c.window) \subseteq Message
  <2>1. Len(c.window) \in DOMAIN c.window
    BY <1>3, Placed, EmptySeq
  <2>2. \A k \in DOMAIN c.window : c.window[k] \in Message
    BY <1>3, Placed
  <2> QED
    BY <2>1, <2>2 DEF Fi!Last, Fi!ToSet
<1> DEFINE p == [c.kept EXCEPT !.learned = c.base.learned \cup Fi!ToSet(c.window),
                               !.stamp = TimeOf[Fi!Last(c.window)]]
<1>5. profile' = [profile EXCEPT ![c.dir] = p]
  BY <1>2 DEF Fi!ReplaceProfile, Fi!Rewritten, Fi!Learnt
<1>6. /\ p \in Fi!Profile /\ p.learned = c.base.learned \cup Fi!ToSet(c.window)
      /\ p.stamp = TimeOf[Fi!Last(c.window)] /\ p.notes = c.kept.notes
  BY <1>3, <1>4 DEF Fi!Profile
<1> HIDE DEF p
<1>7. /\ profile' \in [Dirs -> Fi!Profile] /\ profile'[c.dir] = p
      /\ \A x \in Dirs : x # c.dir => profile'[x] = profile[x]
  BY <1>1, <1>3, <1>5, <1>6, OneProfile
<1>8. /\ learner' \in [Learner -> Learning] /\ learner'[l] = Fi!NoLearner
      /\ \A x \in Learner : x # l => learner'[x] = learner[x]
      /\ \A x \in Learner : learner'[x].at # "idle" => learner'[x].window # <<>>
  BY <1>1, IdleLearner, OneLearner DEF Fi!ReplaceProfile
<1>9. FileTypes'
  BY <1>1, <1>7, <1>8 DEF FileTypes, Fi!Busy
<1>10. Filed' /\ RecordedOnce' /\ Fi!NothingLost' /\ UNCHANGED Fi!Dir
  BY <1>1, FiledStays
<1>11. cut' = cut \cup c.cut
  BY <1>2 DEF Fi!ReplaceProfile
<1>12. Known'
  <2>1. LearnerKnows(c, logged[Fi!Dir], late \cup cut)
    BY <1>1, <1>2 DEF Known
  <2>2. Knows(p.learned, p.stamp, logged[Fi!Dir], (late \cup cut) \cup c.cut)
    BY <1>3, <1>6, <2>1 DEF LearnerKnows
  <2>3. Knows(profile'[Fi!Dir].learned, profile'[Fi!Dir].stamp, logged[Fi!Dir], late \cup cut')
    <3>1. CASE Fi!Dir = c.dir
      BY <1>7, <1>11, <2>2, <3>1 DEF Knows
    <3>2. CASE Fi!Dir # c.dir
      BY <1>1, <1>7, <1>11, <3>2, DirsHere DEF Known, Knows
    <3> QED
      BY <3>1, <3>2
  <2>4. Knows(label.base.learned, label.base.stamp, logged[Fi!Dir], late \cup cut')
    BY <1>1, <1>11 DEF Known, Knows
  <2>5. ASSUME NEW x \in Learner
        PROVE  LearnerKnows(learner'[x], logged[Fi!Dir], late \cup cut')
    <3>1. CASE x = l
      BY <1>8, <3>1, IdleLearner DEF LearnerKnows
    <3>2. CASE x # l
      <4>1. LearnerKnows(learner[x], logged[Fi!Dir], late \cup cut)
        BY <1>1 DEF Known
      <4>2. learner'[x] = learner[x]
        BY <1>8, <3>2
      <4> QED
        BY <1>11, <4>1, <4>2 DEF LearnerKnows, Knows
    <3> QED
      BY <3>1, <3>2
  <2> QED
    BY <1>1, <1>10, <2>3, <2>4, <2>5 DEF Known
<1>13. Noted'
  <2> SUFFICES ASSUME ~unsafe
               PROVE  Noted'
    BY <1>1 DEF Noted
  <2>1. p.notes = notes[c.dir]
    BY <1>1, <1>2, <1>3, <1>6 DEF Noted
  <2>2. \A d \in Dirs : \/ profile'[d] = Fi!Torn /\ label.at = "truncated" /\ label.dir = d
                        \/ profile'[d].notes = notes[d]
    BY <1>1, <1>7, <2>1 DEF Noted
  <2> QED
    BY <1>1, <1>8, <2>2, IdleLearner DEF Noted
<1> QED
  BY <1>9, <1>10, <1>12, <1>13 DEF FilesInv

\* The label is read, truncated and written.
LEMMA LabelRead == ASSUME FilesSound, FilesInv, Fi!LabelReads PROVE FilesInv'
<1>1. /\ FileTypes /\ Filed /\ Known /\ RecordedOnce /\ Noted /\ Fi!NothingLost
      /\ UNCHANGED <<paired, logged, lidDir, history, profile, appender, learner, merge,
                     notes, late, cut, shared, unsafe, arrived>>
      /\ label.at = "idle"
  BY DEF FilesInv, Fi!LabelReads, Fi!logs
<1>2. /\ label' \in Naming /\ label'.at = "read" /\ label'.dir = Fi!Dir
      /\ label'.base = profile[Fi!Dir]
  <2>1. Fi!Dir \in Dirs /\ profile[Fi!Dir] \in Fi!Profile
    BY <1>1, DirsHere DEF FileTypes
  <2> QED
    BY <2>1 DEF Fi!LabelReads, Naming
<1>3. FileTypes'
  BY <1>1, <1>2 DEF FileTypes, Fi!Busy
<1>4. Filed' /\ RecordedOnce' /\ Fi!NothingLost' /\ UNCHANGED Fi!Dir
  BY <1>1, FiledStays
<1>5. Known'
  BY <1>1, <1>2, <1>4 DEF Known
<1>6. Noted'
  <2> SUFFICES ASSUME ~unsafe
               PROVE  Noted'
    BY <1>1 DEF Noted
  <2>1. \A d \in Dirs : profile[d].notes = notes[d]
    BY <1>1 DEF Noted
  <2>2. label'.base.notes = notes[label'.dir]
    BY <1>2, <2>1, DirsHere
  <2>3. \A x \in Learner : learner[x].at = "write" => learner[x].kept.notes = notes[learner[x].dir]
    BY <1>1 DEF Noted
  <2> QED
    BY <1>1, <2>1, <2>2, <2>3 DEF Noted
<1> QED
  BY <1>3, <1>4, <1>5, <1>6 DEF FilesInv

LEMMA LabelTorn == ASSUME FilesSound, FilesInv, Fi!LabelTruncates PROVE FilesInv'
<1>1. /\ FileTypes /\ Filed /\ Known /\ RecordedOnce /\ Noted /\ Fi!NothingLost
      /\ UNCHANGED <<paired, logged, lidDir, history, appender, learner, merge,
                     notes, late, cut, shared, unsafe, arrived>>
      /\ label.at = "read"
  BY DEF FilesInv, Fi!LabelTruncates, Fi!logs
<1>2. label \in Naming /\ label.dir \in Dirs
  BY <1>1 DEF FileTypes, Naming
<1>3. /\ label' \in Naming /\ label'.at = "truncated" /\ label'.dir = label.dir
      /\ label'.base = label.base
  BY <1>2 DEF Fi!LabelTruncates, Naming
<1>4. Fi!Torn \in Fi!Profile
  BY IdleLearner
<1>5. /\ profile' \in [Dirs -> Fi!Profile] /\ profile'[label.dir] = Fi!Torn
      /\ \A x \in Dirs : x # label.dir => profile'[x] = profile[x]
  BY <1>1, <1>2, <1>4, OneProfile DEF Fi!LabelTruncates
<1>6. FileTypes'
  BY <1>1, <1>3, <1>5 DEF FileTypes, Fi!Busy
<1>7. Filed' /\ RecordedOnce' /\ Fi!NothingLost' /\ UNCHANGED Fi!Dir
  BY <1>1, FiledStays
<1>8. Known'
  <2>1. Knows(Fi!Torn.learned, Fi!Torn.stamp, logged[Fi!Dir], late \cup cut)
    <3>1. \A m \in Message : ~(TimeOf[m] <= 0)
      BY DEF FilesSound
    <3> QED
      BY <3>1 DEF Knows, Fi!Torn
  <2>2. Knows(profile'[Fi!Dir].learned, profile'[Fi!Dir].stamp, logged[Fi!Dir], late \cup cut)
    BY <1>1, <1>5, <2>1, DirsHere DEF Known
  <2> QED
    BY <1>1, <1>3, <1>7, <2>2 DEF Known
<1>9. Noted'
  <2> SUFFICES ASSUME ~unsafe
               PROVE  Noted'
    BY <1>1 DEF Noted
  <2>1. \A d \in Dirs : profile[d].notes = notes[d]
    BY <1>1 DEF Noted
  <2>2. \A d \in Dirs : \/ profile'[d] = Fi!Torn /\ label'.at = "truncated" /\ label'.dir = d
                        \/ profile'[d].notes = notes[d]
    BY <1>2, <1>3, <1>5, <2>1
  <2>3. label'.base.notes = notes[label'.dir]
    BY <1>1, <1>3 DEF Noted
  <2>4. \A x \in Learner : learner[x].at = "write" => learner[x].kept.notes = notes[learner[x].dir]
    BY <1>1 DEF Noted
  <2> QED
    BY <1>1, <2>2, <2>3, <2>4 DEF Noted
<1> QED
  BY <1>6, <1>7, <1>8, <1>9 DEF FilesInv

LEMMA IdleLabel ==
    ASSUME FilesSound
    PROVE  /\ Fi!NoLabel \in Naming /\ Fi!NoLabel.at = "idle"
           /\ \A rows, excused : Knows(Fi!NoLabel.base.learned, Fi!NoLabel.base.stamp, rows, excused)
<1>1. Fi!NoLabel \in Naming
  BY IdleLearner DEF Fi!NoLabel, Naming, Dirs
<1>2. \A m \in Message : ~(TimeOf[m] <= 0)
  BY DEF FilesSound
<1> QED
  BY <1>1, <1>2 DEF Fi!NoLabel, Fi!Torn, Knows

LEMMA LabelWritten == ASSUME FilesSound, FilesInv, Fi!LabelWrites PROVE FilesInv'
<1>1. /\ FileTypes /\ Filed /\ Known /\ RecordedOnce /\ Noted /\ Fi!NothingLost
      /\ UNCHANGED <<paired, logged, lidDir, history, appender, learner, merge,
                     notes, late, cut, shared, unsafe, arrived>>
      /\ label.at = "truncated" /\ label' = Fi!NoLabel
  BY DEF FilesInv, Fi!LabelWrites, Fi!logs
<1>2. label.dir \in Dirs /\ label.base \in Fi!Profile
  BY <1>1 DEF FileTypes, Naming
<1>3. /\ profile' \in [Dirs -> Fi!Profile] /\ profile'[label.dir] = label.base
      /\ \A x \in Dirs : x # label.dir => profile'[x] = profile[x]
  BY <1>1, <1>2, OneProfile DEF Fi!LabelWrites
<1>4. FileTypes'
  BY <1>1, <1>3, IdleLabel DEF FileTypes, Fi!Busy
<1>5. Filed' /\ RecordedOnce' /\ Fi!NothingLost' /\ UNCHANGED Fi!Dir
  BY <1>1, FiledStays
<1>6. Known'
  <2>1. Knows(profile'[Fi!Dir].learned, profile'[Fi!Dir].stamp, logged[Fi!Dir], late \cup cut)
    BY <1>1, <1>3, DirsHere DEF Known
  <2> QED
    BY <1>1, <1>5, <2>1, IdleLabel DEF Known
<1>7. Noted'
  <2> SUFFICES ASSUME ~unsafe
               PROVE  Noted'
    BY <1>1 DEF Noted
  <2>1. \A d \in Dirs : d # label.dir => profile[d].notes = notes[d]
    BY <1>1 DEF Noted
  <2>2. label.base.notes = notes[label.dir]
    BY <1>1 DEF Noted
  <2>3. \A d \in Dirs : profile'[d].notes = notes[d]
    BY <1>3, <2>1, <2>2
  <2>4. \A x \in Learner : learner[x].at = "write" => learner[x].kept.notes = notes[learner[x].dir]
    BY <1>1 DEF Noted
  <2> QED
    BY <1>1, <2>3, <2>4, IdleLabel DEF Noted
<1> QED
  BY <1>4, <1>5, <1>6, <1>7 DEF FilesInv

\* The user writes in the profile.
LEMMA Edited == ASSUME FilesSound, FilesInv, Fi!Edit PROVE FilesInv'
<1> DEFINE d0 == Fi!Dir
<1>1. /\ FileTypes /\ Filed /\ Known /\ RecordedOnce /\ Noted /\ Fi!NothingLost
      /\ UNCHANGED <<paired, logged, lidDir, history, appender, learner, label, merge,
                     late, cut, shared, arrived>>
      /\ profile[d0] # Fi!Torn /\ notes[d0] < MaxEdits
      /\ notes' = [notes EXCEPT ![d0] = @ + 1]
      /\ unsafe' = (unsafe \/ Fi!Rewriting(d0))
  BY DEF FilesInv, Fi!Edit
<1>2. d0 \in Dirs /\ profile[d0] \in Fi!Profile /\ notes[d0] \in 1..MaxEdits
  BY <1>1, DirsHere DEF FileTypes
<1>3. notes[d0] + 1 \in 1..MaxEdits /\ notes[d0] + 1 \in 0..MaxEdits
  BY <1>1, <1>2 DEF FilesSound
<1>4. PICK n : n = notes[d0] + 1
  OBVIOUS
<1> DEFINE p == [profile[d0] EXCEPT !.notes = n]
<1>5. profile' = [profile EXCEPT ![d0] = p]
  BY <1>4 DEF Fi!Edit
<1>6. p \in Fi!Profile /\ p.learned = profile[d0].learned /\ p.stamp = profile[d0].stamp /\ p.notes = n
  BY <1>2, <1>3, <1>4 DEF Fi!Profile
<1>7. /\ notes' \in [Dirs -> 1..MaxEdits] /\ notes'[d0] = n
      /\ \A d \in Dirs : d # d0 => notes'[d] = notes[d]
  BY <1>1, <1>2, <1>3, <1>4 DEF FileTypes
<1> HIDE DEF p
<1>8. /\ profile' \in [Dirs -> Fi!Profile] /\ profile'[d0] = p
      /\ \A x \in Dirs : x # d0 => profile'[x] = profile[x]
  BY <1>1, <1>2, <1>5, <1>6, OneProfile
<1>9. FileTypes'
  BY <1>1, <1>7, <1>8 DEF FileTypes, Fi!Busy
<1>10. Filed' /\ RecordedOnce' /\ Fi!NothingLost' /\ UNCHANGED d0
  BY <1>1, FiledStays
<1>11. Known'
  BY <1>1, <1>6, <1>8, <1>10 DEF Known
<1>12. Noted'
  <2> SUFFICES ASSUME ~unsafe, ~Fi!Rewriting(d0)
               PROVE  Noted'
    BY <1>1 DEF Noted
  <2>1. /\ label.at = "idle" \/ label.dir # d0
        /\ \A x \in Learner : learner[x].at = "write" => learner[x].dir # d0
    BY DEF Fi!Rewriting
  <2>2. \A d \in Dirs : \/ profile'[d] = Fi!Torn /\ label.at = "truncated" /\ label.dir = d
                        \/ profile'[d].notes = notes'[d]
    <3>1. \A d \in Dirs : \/ profile[d] = Fi!Torn /\ label.at = "truncated" /\ label.dir = d
                          \/ profile[d].notes = notes[d]
      BY <1>1 DEF Noted
    <3> QED
      BY <1>6, <1>7, <1>8, <3>1
  <2>3. label.at # "idle" => label.base.notes = notes'[label.dir]
    <3>1. label.dir \in Dirs
      BY <1>1 DEF FileTypes, Naming
    <3> QED
      BY <1>1, <1>7, <2>1, <3>1 DEF Noted
  <2>4. \A x \in Learner : learner[x].at = "write" => learner[x].kept.notes = notes'[learner[x].dir]
    <3>1. \A x \in Learner : learner[x].dir \in Dirs
      BY <1>1 DEF FileTypes, Learning
    <3> QED
      BY <1>1, <1>7, <2>1, <3>1 DEF Noted
  <2> QED
    BY <1>1, <2>2, <2>3, <2>4 DEF Noted
<1> QED
  BY <1>9, <1>10, <1>11, <1>12 DEF FilesInv

\* Merging the @lid's files into the phone's: nothing else runs.
LEMMA Quiet ==
    ASSUME FilesSound, FilesInv, Fi!Idle
    PROVE  /\ \A a \in Appender : \A m : ~Has(appender[a].todo, m)
           /\ \A l \in Learner : learner[l].at = "idle"
           /\ label.at = "idle"
<1>1. \A a \in Appender : appender[a].todo = <<>>
  BY DEF Fi!Idle, Fi!Busy, Fi!NoAppender
<1>2. \A m : ~Has(<<>>, m)
  BY DEF Has
<1> QED
  BY <1>1, <1>2 DEF Fi!Idle

LEMMA TimelinesMerged == ASSUME FilesSound, FilesInv, Fi!MergeTimelines PROVE FilesInv'
<1>1. /\ FileTypes /\ Filed /\ Known /\ RecordedOnce /\ Noted /\ Fi!NothingLost
      /\ UNCHANGED <<paired, lidDir, history, profile, appender, learner, label,
                     notes, cut, shared, unsafe, arrived>>
      /\ lidDir = "open" /\ paired /\ Fi!Idle /\ merge' = "timeline"
  BY DEF FilesInv, Fi!MergeTimelines
<1>2. PICK s, extra, q : s = logged["phone"] /\ extra = logged["lid"] /\ q = Fi!Merged(s, extra)
  OBVIOUS
<1>3. s \in Seq(Message) /\ extra \in Seq(Message)
  BY <1>1, <1>2 DEF FileTypes, Dirs
<1>4. /\ q \in Seq(Message)
      /\ \A m : Has(q, m) <=> Has(s, m) \/ Has(extra, m)
      /\ \A m : OnceOf(s, m) => OnceOf(q, m)
  BY <1>2, <1>3, MergedRows
<1>5. logged' = [logged EXCEPT !["phone"] = q]
  BY <1>2 DEF Fi!MergeTimelines
<1>6. /\ logged' \in [Dirs -> Seq(Message)] /\ logged'["phone"] = q /\ logged'["lid"] = extra
  BY <1>1, <1>2, <1>4, <1>5 DEF FileTypes, Dirs
<1>7. late' = late \cup {m \in Fi!ToSet(extra) \ Fi!ToSet(s) :
                            \E t \in Fi!StampAhead : t >= TimeOf[m]}
  BY <1>2 DEF Fi!MergeTimelines
<1>8. \A m : Has(s, m) \/ Has(extra, m) => m \in arrived
  BY <1>1, <1>2 DEF Filed, Dirs
<1>9. Fi!Dir = "phone" /\ Fi!Dir' = "phone"
  BY <1>1 DEF Fi!Dir
<1>10. FileTypes'
  <2>1. late' \subseteq arrived'
    BY <1>1, <1>7, <1>8, RowMembers DEF FileTypes
  <2> QED
    BY <1>1, <1>6, <2>1 DEF FileTypes, Fi!Busy
<1>11. Filed' /\ Fi!NothingLost'
  <2>1. Filed'
    BY <1>1, <1>4, <1>6, <1>8 DEF Filed, Dirs
  <2>2. Fi!NothingLost'
    BY <1>1, <1>2, <1>4, <1>6, RowMembers DEF Fi!NothingLost
  <2> QED
    BY <2>1, <2>2
<1>12. Known'
  <2>1. ASSUME NEW learned, NEW t \in Fi!StampAhead, NEW excused,
               late \subseteq excused, Knows(learned, t, s, excused)
        PROVE  Knows(learned, t, q, excused \cup late')
    <3>1. ASSUME NEW m \in Message, Has(q, m), ~Has(s, m), TimeOf[m] <= t
          PROVE  m \in late'
      <4>1. m \in Fi!ToSet(extra) \ Fi!ToSet(s)
        BY <1>4, <3>1, RowMembers
      <4>2. t >= TimeOf[m]
        BY <3>1
      <4> QED
        BY <1>7, <4>1, <4>2
    <3> QED
      BY <2>1, <3>1, KnowsStill
  <2>2. profile["phone"].stamp \in Fi!StampAhead /\ label.base.stamp \in Fi!StampAhead
    BY <1>9 DEF Fi!StampAhead
  <2>3. /\ Knows(profile["phone"].learned, profile["phone"].stamp, s, late \cup cut)
        /\ Knows(label.base.learned, label.base.stamp, s, late \cup cut)
    BY <1>1, <1>2, <1>9 DEF Known
  <2>4. (late \cup cut) \cup late' = late' \cup cut
    BY <1>7
  <2>5. /\ Knows(profile["phone"].learned, profile["phone"].stamp, q, late' \cup cut)
        /\ Knows(label.base.learned, label.base.stamp, q, late' \cup cut)
    BY <2>1, <2>2, <2>3, <2>4
  <2>6. \A l \in Learner : LearnerKnows(learner[l], q, late' \cup cut)
    BY <1>1, Quiet DEF LearnerKnows
  <2> QED
    BY <1>1, <1>6, <1>9, <2>5, <2>6 DEF Known
<1>13. RecordedOnce'
  <2>1. \A a \in Appender : Once(appender[a].todo)
    BY <1>1 DEF RecordedOnce
  <2>2. ASSUME NEW m \in Message \ shared
        PROVE  (\A d \in Dirs : OnceOf(logged'[d], m)) /\ HeldOnce(appender, q, m)
    <3>1. \A d \in Dirs : OnceOf(logged[d], m)
      BY <1>1 DEF RecordedOnce
    <3>2. \A d \in Dirs : OnceOf(logged'[d], m)
      BY <1>2, <1>4, <1>6, <3>1 DEF Dirs
    <3>3. HeldOnce(appender, q, m)
      BY <1>1, Quiet DEF HeldOnce
    <3> QED
      BY <3>2, <3>3
  <2> QED
    BY <1>1, <1>6, <1>9, <2>1, <2>2 DEF RecordedOnce
<1>14. Noted'
  BY <1>1, NotedStays
<1> QED
  BY <1>10, <1>11, <1>12, <1>13, <1>14 DEF FilesInv

LEMMA ProfileMerged == ASSUME FilesSound, FilesInv, Fi!MergeProfile PROVE FilesInv'
<1>1. /\ FileTypes /\ Filed /\ Known /\ RecordedOnce /\ Noted /\ Fi!NothingLost
      /\ UNCHANGED <<paired, logged, lidDir, profile, appender, learner, label,
                     notes, late, cut, shared, unsafe, arrived>>
      /\ merge = "timeline" /\ merge' = "profile" /\ history' = Fi!HistoryWith(history)
  BY DEF FilesInv, Fi!MergeProfile, Fi!logs
<1>2. history' \in 0..1
  BY <1>1 DEF FileTypes, Fi!HistoryWith
<1>3. FileTypes'
  BY <1>1, <1>2 DEF FileTypes, Fi!Busy
<1>4. UNCHANGED Fi!Dir
  BY <1>1 DEF Fi!Dir
<1>5. Filed' /\ Fi!NothingLost' /\ Known' /\ RecordedOnce'
  BY <1>1, <1>4 DEF Filed, Fi!NothingLost, Known, RecordedOnce
<1>6. Noted'
  BY <1>1, NotedStays
<1> QED
  BY <1>3, <1>5, <1>6 DEF FilesInv

LEMMA DirRenamed == ASSUME FilesSound, FilesInv, Fi!RenameDir PROVE FilesInv'
<1>1. /\ FileTypes /\ Filed /\ Known /\ RecordedOnce /\ Noted /\ Fi!NothingLost
      /\ UNCHANGED <<paired, logged, history, profile, appender, learner, label,
                     notes, late, cut, shared, unsafe, arrived>>
      /\ merge = "profile" /\ merge' = "idle" /\ lidDir' = "merged"
  BY DEF FilesInv, Fi!RenameDir, Fi!logs
<1>2. FileTypes'
  BY <1>1 DEF FileTypes, Fi!Busy
<1>3. UNCHANGED Fi!Dir
  BY <1>1 DEF Fi!Dir
<1>4. paired /\ \A m : Has(logged["lid"], m) => Has(logged["phone"], m)
  BY <1>1 DEF Filed
<1>5. Filed' /\ Known' /\ RecordedOnce'
  BY <1>1, <1>3, <1>4 DEF Filed, Known, RecordedOnce
<1>6. Fi!NothingLost'
  BY <1>1, <1>4, RowMembers DEF Fi!NothingLost
<1>7. Noted'
  BY <1>1, NotedStays
<1> QED
  BY <1>2, <1>5, <1>6, <1>7 DEF FilesInv

\* The process stops: the files stay.
LEMMA FilesStay == ASSUME FilesSound, FilesInv, Fi!Crash PROVE FilesInv'
<1>1. /\ FileTypes /\ Filed /\ Known /\ RecordedOnce /\ Noted /\ Fi!NothingLost
      /\ UNCHANGED <<paired, logged, lidDir, history, profile, notes, late, cut, shared, arrived>>
      /\ appender' = [a \in Appender |-> Fi!NoAppender]
      /\ learner' = [l \in Learner |-> Fi!NoLearner]
      /\ label' = Fi!NoLabel /\ merge' = "idle"
      /\ unsafe' = (unsafe \/ label.at = "truncated")
  BY DEF FilesInv, Fi!Crash
<1>2. Fi!NoAppender \in Job /\ Fi!NoAppender.todo = <<>>
  BY DEF Fi!NoAppender, Job
<1>3. /\ appender' \in [Appender -> Job] /\ \A a \in Appender : appender'[a].todo = <<>> /\ ~Fi!Busy(a)'
      /\ learner' \in [Learner -> Learning] /\ \A l \in Learner : learner'[l].at = "idle"
  BY <1>1, <1>2, IdleLearner DEF Fi!Busy
<1>4. FileTypes'
  BY <1>1, <1>3, IdleLabel DEF FileTypes
<1>5. UNCHANGED Fi!Dir
  BY <1>1 DEF Fi!Dir
<1>6. Filed' /\ Fi!NothingLost'
  BY <1>1 DEF Filed, Fi!NothingLost
<1>7. Known'
  BY <1>1, <1>3, <1>5, IdleLabel DEF Known, LearnerKnows
<1>8. RecordedOnce'
  <2>1. Once(<<>>) /\ \A m : ~Has(<<>>, m)
    BY DEF Once, Has
  <2> QED
    BY <1>1, <1>3, <1>5, <2>1 DEF RecordedOnce, HeldOnce
<1>9. Noted'
  <2> SUFFICES ASSUME ~unsafe, label.at # "truncated"
               PROVE  Noted'
    BY <1>1 DEF Noted
  <2>1. \A d \in Dirs : profile[d].notes = notes[d]
    BY <1>1 DEF Noted
  <2> QED
    BY <1>1, <1>3, <2>1, IdleLabel DEF Noted
<1> QED
  BY <1>4, <1>6, <1>7, <1>8, <1>9 DEF FilesInv

\* FilesInv is kept by every step.
LEMMA FilesSteps == ASSUME FilesSound, FilesInv, [Fi!Next]_Fi!vars PROVE FilesInv'
<1>1. CASE \E a \in Appender, m \in Message : Fi!Record(a, m)
  BY <1>1, TakenUp
<1>2. CASE \E a \in Appender, ms \in (SUBSET Message) \ {{}} :
             Fi!Backfill(a, ms) \/ Fi!BackfillFromLog(a, ms)
  BY <1>2, TakenUp
<1>3. CASE \E a \in Appender : Fi!AppendNext(a)
  BY <1>3, AppendedOne
<1>4. CASE Fi!LearnPair
  BY <1>4, Paired
<1>5. CASE \E l \in Learner : \/ Fi!LearnBatch(l) \/ Fi!LearnNow(l) \/ Fi!NoAnswer(l)
                              \/ Fi!Answered(l) \/ Fi!ReplaceProfile(l)
  BY <1>5, Asked, Unanswered, AnswerCame, Replaced DEF Fi!LearnBatch, Fi!LearnNow
<1>6. CASE Fi!LabelReads \/ Fi!LabelTruncates \/ Fi!LabelWrites
  BY <1>6, LabelRead, LabelTorn, LabelWritten
<1>7. CASE Fi!Edit
  BY <1>7, Edited
<1>8. CASE Fi!MergeTimelines \/ Fi!MergeProfile \/ Fi!RenameDir
  BY <1>8, TimelinesMerged, ProfileMerged, DirRenamed
<1>9. CASE Fi!Crash
  BY <1>9, FilesStay
<1>10. CASE UNCHANGED Fi!vars
  <2>1. UNCHANGED <<paired, logged, lidDir, history, profile, appender, learner, label, merge,
                    notes, late, cut, shared, unsafe, arrived>>
    BY <1>10 DEF Fi!vars
  <2>2. Filed' /\ RecordedOnce' /\ Fi!NothingLost' /\ UNCHANGED Fi!Dir
    BY <2>1, FiledStays
  <2>3. FileTypes'
    BY <2>1 DEF FilesInv, FileTypes, Fi!Busy
  <2>4. Known' /\ Noted'
    BY <2>1, <2>2 DEF FilesInv, Known, Noted
  <2> QED
    BY <2>2, <2>3, <2>4 DEF FilesInv
<1> QED
  BY <1>1, <1>2, <1>3, <1>4, <1>5, <1>6, <1>7, <1>8, <1>9, <1>10 DEF Fi!Next

\* FilesInv holds only where the properties do.
LEMMA FilesGood == ASSUME FilesSound, FilesInv PROVE Fi!TypeOK /\ Fi!FilesRight
<1>1. /\ FileTypes /\ Filed /\ Known /\ RecordedOnce /\ Noted /\ Fi!NothingLost
  BY DEF FilesInv
<1>2. Fi!TypeOK
  <2>1. /\ \A l \in Learner : learner[l].at \in {"idle", "asked", "write"}
        /\ label.at \in {"idle", "read", "truncated"}
    BY <1>1 DEF FileTypes, Learning, Naming
  <2> QED
    BY <1>1, <2>1 DEF FileTypes, Dirs, Fi!TypeOK
<1>3. Fi!LearnedUpToStamp
  <2> SUFFICES ASSUME NEW m \in Fi!ToSet(logged[Fi!Dir]) \ (late \cup cut),
                      TimeOf[m] <= profile[Fi!Dir].stamp
               PROVE  m \in profile[Fi!Dir].learned
    BY DEF Fi!LearnedUpToStamp
  <2>1. Has(logged[Fi!Dir], m)
    BY RowMembers
  <2>2. m \in Message
    <3>1. logged[Fi!Dir] \in Seq(Message)
      BY <1>1, DirsHere DEF FileTypes
    <3> QED
      BY <2>1, <3>1, Placed DEF Has
  <2> QED
    BY <1>1, <2>1, <2>2 DEF Known, Knows
<1>4. Fi!NotesKeptUnlessTorn
  BY <1>1 DEF Noted, Fi!NotesKeptUnlessTorn, Dirs
<1>5. Fi!OnceInTimeline
  <2> SUFFICES ASSUME NEW m \in Message \ shared, NEW d \in Dirs
               PROVE  Fi!Cardinality({i \in DOMAIN logged[d] : logged[d][i] = m}) <= 1
    BY DEF Fi!OnceInTimeline, Dirs
  <2> DEFINE S == {i \in DOMAIN logged[d] : logged[d][i] = m}
  <2>1. \A i, j \in S : i = j
    BY <1>1 DEF RecordedOnce, OnceOf
  <2> HIDE DEF S
  <2>2. Cardinality(S) <= 1
    <3>1. CASE S = {}
      BY <3>1, FS_EmptySet
    <3>2. CASE S # {}
      <4>1. PICK i : S = {i}
        BY <2>1, <3>2
      <4>2. Cardinality({i}) = 1
        BY FS_Singleton
      <4> QED
        BY <4>1, <4>2
    <3> QED
      BY <3>1, <3>2
  <2>3. Fi!Cardinality(S) = Cardinality(S)
    BY SameCount
  <2> QED
    BY <2>2, <2>3 DEF S
<1> QED
  BY <1>1, <1>2, <1>3, <1>4, <1>5 DEF Fi!FilesRight

\* The files of a contact have their types always, however webhooks, backfills, learners,
\* labels, edits, merges and crashes meet: every profile written is a whole profile or the
\* truncated one, and every row is a message that arrived.
THEOREM FilesTypes == ASSUME FilesSound PROVE Fi!Spec => []Fi!TypeOK
<1>1. Fi!Init => FilesInv
  BY FilesStart
<1>2. FilesInv /\ [Fi!Next]_Fi!vars => FilesInv'
  BY FilesSteps
<1>3. FilesInv => Fi!TypeOK
  BY FilesGood
<1> QED
  BY <1>1, <1>2, <1>3, PTL DEF Fi!Spec

\* For any number of messages of any times, appenders, learners and crashes, and any size
\* of the window: the profile never claims with its stamp more than was learned, the user's
\* notes outlive every other writer, no message stands twice in a timeline, and none that
\* arrived is lost by a merge (contact_knowledge.py, contact_filesystem.py), with the
\* exceptions FilesRight names.
THEOREM FilesRightAlways == ASSUME FilesSound PROVE Fi!Spec => []Fi!FilesRight
<1>1. Fi!Init => FilesInv
  BY FilesStart
<1>2. FilesInv /\ [Fi!Next]_Fi!vars => FilesInv'
  BY FilesSteps
<1>3. FilesInv => Fi!FilesRight
  BY FilesGood
<1> QED
  BY <1>1, <1>2, <1>3, PTL DEF Fi!Spec
=============================================================================
