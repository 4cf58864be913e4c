---------------------------- MODULE NoticeProofs ----------------------------
(* What EVI tells its user unasked, for values of the constants of any size: *)
(* the warning of a broken integration (Probe, with OncePerDay), the notice  *)
(* of a slow tool (SlowAck), the outages a briefing names (SourceStatus),    *)
(* and the sending of one message (Outbound); with what those who write such *)
(* texts may spend on a model (SpendCap).  The five parts share nothing but  *)
(* this module.                                                              *)
EXTENDS Probe, Sequences, FiniteSets, FiniteSetTheorems, TLAPS

CONSTANTS RunId, MaxTimers, Source, WhatsApp, MaxRecords, Attempts

VARIABLES pending, toolsAt, running, timer, acked, closed, timers, turn, chat,
          decided, gap, raced
Ack == INSTANCE SlowAck

VARIABLES status, sights, brief, failed, left, connection, banner, covered, records
Src == INSTANCE SourceStatus

VARIABLES asked, bad, form, stage, attempt, result, refused, late, copies, unheard
Out == INSTANCE Outbound

CONSTANTS Caller, Process, Homes, None, Cap, MaxCost, MaxCalls, MaxFaults
VARIABLES today, home, useDb, table, mem, call, charged, unknown, twice, posts, faults
Pay == INSTANCE SpendCap WITH Proc <- Process, day <- today

----------------------------------------------------------------------------
(* The warnings, Probe.                                                      *)

\* The bounds; a chat may have any number of turns, a probe any number of checks.
Bounded == MaxDay \in Nat \ {0} /\ MaxRuns \in Nat /\ MaxMisfires \in Nat

\* Between a successful claim and its end.
Owning == {"send", "mark", "release"}
Owns(p) == at[p] \in Owning

\* Whoever is past the look works on a slot, an owner on a claimed one.
OnSlot ==
    \A p \in Proc : /\ at[p] = "claim" \/ Owns(p) => slot[p] \in Slot
                    /\ Owns(p) => slot[p] \in claims

\* No slot has two owners.
OwnersApart ==
    \A p, q \in Proc : Owns(p) /\ Owns(q) /\ slot[p] = slot[q] => p = q

Excused(s) == warned[s] = 0 \/ s \in unsure

\* A slot that can still be warned of has no warning out that counts.
StillSilent ==
    /\ \A s \in Slot \ claims : Excused(s)
    /\ \A p \in Proc : at[p] \in {"send", "release"} => Excused(slot[p])

\* Who is to mark the warning has sent it.
MarkAfterSend == \A p \in Proc : at[p] = "mark" => warned[slot[p]] > 0

ProbeInv ==
    TypeOK /\ OnSlot /\ OwnersApart /\ StillSilent /\ MarkAfterSend /\ WarningsExact

\* The slots as OncePerDay sees them; who is about to give its claim back no
\* longer holds it.
Worked(where, a, work) == {work[p] : p \in {q \in Proc : a[q] = where}}
View(a, work, rows) ==
    [s \in Slot |-> IF s \in Worked("send", a, work) THEN "held"
                   ELSE IF s \in Worked("mark", a, work) THEN "sent"
                   ELSE IF s \in rows \ Worked("release", a, work) THEN "done" ELSE "free"]
SlotState == View(at, slot, claims)
Abstract == INSTANCE OncePerDay WITH Slots <- Slot, state <- SlotState
ImplementsOncePerDay == Abstract!Spec

----------------------------------------------------------------------------
\* The state of a slot with an owner says where the owner is.
LEMMA OwnedView ==
    ASSUME NEW a, NEW work, NEW rows, NEW p \in Proc,
           a[p] \in Owning, work[p] \in Slot,
           \A q \in Proc : a[q] \in Owning /\ work[q] = work[p] => q = p
    PROVE  /\ a[p] = "send" => View(a, work, rows)[work[p]] = "held"
           /\ a[p] = "mark" => View(a, work, rows)[work[p]] = "sent"
           /\ a[p] = "release" => View(a, work, rows)[work[p]] = "free"
<1>1. \A where \in Owning : work[p] \in Worked(where, a, work) <=> a[p] = where
  BY DEF Worked, Owning
<1>2. View(a, work, rows)[work[p]] =
        IF a[p] = "send" THEN "held" ELSE IF a[p] = "mark" THEN "sent"
        ELSE IF work[p] \in rows /\ a[p] # "release" THEN "done" ELSE "free"
  BY <1>1 DEF View, Owning
<1> QED
  BY <1>2

\* That of a slot without one, whether it is claimed.
LEMMA FreeView ==
    ASSUME NEW a, NEW work, NEW rows, NEW s \in Slot,
           \A q \in Proc : a[q] \in Owning => work[q] # s
    PROVE  View(a, work, rows)[s] = IF s \in rows THEN "done" ELSE "free"
<1>1. \A where \in Owning : s \notin Worked(where, a, work)
  BY DEF Worked
<1> QED
  BY <1>1 DEF View, Owning

\* Another slot is not seen to change.
LEMMA SameView ==
    ASSUME NEW s \in Slot,
           \A q \in Proc : /\ Owns(q) /\ slot[q] = s => at'[q] = at[q] /\ slot'[q] = s
                           /\ Owns(q)' /\ slot'[q] = s => at'[q] = at[q] /\ slot[q] = s,
           s \in claims' <=> s \in claims
    PROVE  SlotState'[s] = SlotState[s]
<1>1. \A where \in Owning : s \in Worked(where, at, slot) <=> s \in Worked(where, at', slot')
  BY DEF Worked, Owns
<1>2. SlotState'[s] = View(at', slot', claims')[s]
  BY DEF SlotState
<1> QED
  BY <1>1, <1>2 DEF SlotState, View, Owning

\* A step seen at one slot is an update of that slot.
LEMMA OneSlot ==
    ASSUME NEW s \in Slot, NEW x, SlotState'[s] = x,
           \A r \in Slot : r # s => SlotState'[r] = SlotState[r]
    PROVE  SlotState' = [SlotState EXCEPT ![s] = x]
<1>1. /\ SlotState = [r \in Slot |-> SlotState[r]]
      /\ SlotState' = [r \in Slot |-> SlotState'[r]]
  BY DEF SlotState, View
<1> QED
  BY <1>1

\* Who stops working is at none of these.
LEMMA DoneAside ==
    ASSUME NEW p \in Proc, TypeOK, Done(p)
    PROVE  /\ at' \in [Proc -> {"idle", "look", "claim", "send", "mark", "release"}]
           /\ at'[p] \notin Owning \cup {"claim"}
           /\ \A q \in Proc : q # p => at'[q] = at[q]
BY DEF TypeOK, Done, Proceed, Owning

----------------------------------------------------------------------------
\* The steps that touch no owner, claim or warning.
Aside ==
    /\ TypeOK'
    /\ \A p \in Proc : /\ Owns(p)' <=> Owns(p)
                       /\ Owns(p) => at'[p] = at[p] /\ slot'[p] = slot[p]
                       /\ at'[p] = "claim" => slot'[p] \in Slot
    /\ UNCHANGED <<claims, warned, unsure, dropped>>

\* They keep the invariant and change no slot.
LEMMA AsideStep ==
    ASSUME ProbeInv, Aside
    PROVE  ProbeInv' /\ UNCHANGED SlotState
<1>1. OnSlot' /\ OwnersApart' /\ StillSilent' /\ MarkAfterSend'
  BY DEF ProbeInv, Aside, OnSlot, OwnersApart, StillSilent, MarkAfterSend, Excused, Owns,
         Owning
<1>2. Owned' = Owned
  BY DEF Aside, Owned, Owns, Owning
<1>3. WarningsExact'
  BY <1>2 DEF ProbeInv, Aside, WarningsExact, WarnedOnce, ClaimMeansWarned
<1>4. \A s \in Slot : SlotState'[s] = SlotState[s]
  BY SameView DEF Aside
<1>5. SlotState' = SlotState
  BY <1>4 DEF SlotState, View
<1> QED
  BY <1>1, <1>3, <1>5 DEF Aside, ProbeInv

LEMMA QuietSteps ==
    ASSUME Bounded, ProbeInv,
           \/ StartProbe \/ NextDay
           \/ \E c \in Check, ok \in CheckResult : RunCheck(c, ok)
           \/ \E t \in Turn, c \in Check : TurnFails(t, c)
    PROVE  Aside
<1>1. CASE StartProbe
  BY <1>1 DEF StartProbe, ProbeInv, TypeOK, OnSlot, Aside, Owns, Owning, Proc, Bounded
<1>2. CASE NextDay
  BY <1>2 DEF NextDay, notice, ProbeInv, TypeOK, OnSlot, Aside, Owns, Owning, Proc, Bounded
<1>3. ASSUME NEW c \in Check, NEW ok \in CheckResult, RunCheck(c, ok)
      PROVE  Aside
  <2>1. at[Job] = "look" /\ Job \in Proc /\ <<day, c>> \in Slot
    BY <1>3 DEF RunCheck, Runs, Proc, ProbeInv, TypeOK, Slot
  <2>2. CASE ~ok /\ c # Telegram
    BY <1>3, <2>1, <2>2
    DEF RunCheck, Proceed, ProbeInv, TypeOK, OnSlot, Aside, Owns, Owning
  <2>3. CASE ~(~ok /\ c # Telegram)
    BY <1>3, <2>1, <2>3
    DEF RunCheck, Proceed, ProbeInv, TypeOK, OnSlot, Aside, Owns, Owning
  <2> QED
    BY <2>2, <2>3
<1>4. ASSUME NEW t \in Turn, NEW c \in Check, TurnFails(t, c)
      PROVE  Aside
  <2>1. t \in Proc /\ <<day, c>> \in Slot
    BY DEF Proc, ProbeInv, TypeOK, Slot
  <2> QED
    BY <1>4, <2>1 DEF TurnFails, Proceed, ProbeInv, TypeOK, OnSlot, Aside, Owns, Owning
<1> QED
  BY <1>1, <1>2, <1>3, <1>4

----------------------------------------------------------------------------
\* A claim that is lost or fails changes nothing; one that is won takes a free
\* slot.
LEMMA ClaimStep ==
    ASSUME Bounded, ProbeInv, NEW p \in Proc, Claim(p)
    PROVE  ProbeInv' /\ [Abstract!Next]_SlotState
<1> DEFINE s == slot[p]
<1>1. /\ s \in Slot /\ at[p] = "claim"
      /\ UNCHANGED <<day, slot, todo, jobs, flagged, warned, unsure, dropped>>
  BY DEF Claim, ProbeInv, OnSlot
<1>2. misfires' \in 0..MaxMisfires
  BY DEF Claim, NoFault, Fault, ProbeInv, TypeOK, Bounded
<1>3. CASE UNCHANGED claims /\ Done(p)
  <2>1. TypeOK'
    BY <1>1, <1>2, <1>3, DoneAside DEF ProbeInv, TypeOK
  <2>2. Aside
    BY <1>1, <1>3, <2>1, DoneAside DEF Aside, ProbeInv, OnSlot, Owns, Owning
  <2> QED
    BY <2>2, AsideStep
<1>4. CASE s \notin claims /\ claims' = claims \cup {s} /\ Proceed(p, "send")
  <2>1. at' = [at EXCEPT ![p] = "send"] /\ at'[p] = "send" /\ slot' = slot
    BY <1>1, <1>4 DEF Proceed, ProbeInv, TypeOK
  <2>2. TypeOK'
    BY <1>1, <1>2, <1>4, <2>1 DEF ProbeInv, TypeOK
  <2>3. \A q \in Proc : Owns(q) => slot[q] # s
    BY <1>4 DEF ProbeInv, OnSlot
  <2>4. \A q \in Proc : q # p => at'[q] = at[q]
    BY <2>1
  <2>5. OnSlot' /\ OwnersApart'
    BY <1>1, <1>4, <2>1, <2>3, <2>4 DEF ProbeInv, OnSlot, OwnersApart, Owns, Owning
  <2>6. Excused(s) /\ StillSilent' /\ MarkAfterSend'
    BY <1>1, <1>4, <2>1, <2>4 DEF ProbeInv, StillSilent, MarkAfterSend, Excused
  <2>7. Owned' = Owned \cup {s}
    BY <1>1, <2>1, <2>4 DEF Owned
  <2>8. WarningsExact'
    BY <1>1, <1>4, <2>7 DEF ProbeInv, WarningsExact, WarnedOnce, ClaimMeansWarned
  <2>9. SlotState[s] = "free"
    BY <1>1, <1>4, <2>3, FreeView DEF SlotState, Owns
  <2>10. SlotState'[s] = "held"
    <3>1. \A q \in Proc : at'[q] \in Owning /\ slot'[q] = slot'[p] => q = p
      BY <2>1, <2>5 DEF OwnersApart, Owns, Owning
    <3>2. at'[p] \in Owning /\ slot'[p] \in Slot /\ at'[p] = "send" /\ slot'[p] = s
      BY <1>1, <2>1 DEF Owning
    <3>3. SlotState'[slot'[p]] = "held"
      BY <3>1, <3>2, OwnedView DEF SlotState
    <3> QED
      BY <3>2, <3>3
  <2>11. \A r \in Slot : r # s => SlotState'[r] = SlotState[r]
    <3> SUFFICES ASSUME NEW r \in Slot, r # s
                 PROVE  SlotState'[r] = SlotState[r]
      OBVIOUS
    <3>1. \A q \in Proc : slot[q] = r => at'[q] = at[q]
      BY <2>4
    <3>2. r \in claims' <=> r \in claims
      BY <1>4
    <3> QED
      BY <2>1, <3>1, <3>2, SameView
  <2>12. Abstract!Take(s)
    BY <1>1, <2>9, <2>10, <2>11, OneSlot DEF Abstract!Take
  <2> QED
    BY <1>1, <2>2, <2>5, <2>6, <2>8, <2>12 DEF ProbeInv, Abstract!Next
<1> QED
  BY <1>3, <1>4 DEF Claim, Free

\* What the steps of an owner have in common: it stays with its slot or leaves
\* it, and the others stay where they are.
OwnerMoves(p) ==
    /\ \A q \in Proc : q # p => at'[q] = at[q]
    /\ slot' = slot
    /\ TypeOK'
    /\ claims' \subseteq claims /\ claims \ {slot[p]} \subseteq claims'
    /\ \A s \in Slot \ {slot[p]} :
          warned'[s] = warned[s] /\ (s \in unsure' <=> s \in unsure)
    /\ dropped \subseteq dropped'

\* Such a step is seen at its slot alone, and what it keeps is to be shown of
\* that slot.
LEMMA OwnerStep ==
    ASSUME ProbeInv, NEW p \in Proc, Owns(p), OwnerMoves(p),
           at'[p] # "claim",
           Owns(p)' => slot[p] \in claims',
           slot[p] \notin claims' => Excused(slot[p])',
           at'[p] \in {"send", "release"} => Excused(slot[p])',
           at'[p] = "mark" => warned'[slot[p]] > 0,
           warned'[slot[p]] <= 1 \/ slot[p] \in unsure',
           slot[p] \in claims' /\ ~Owns(p)'
              => warned'[slot[p]] > 0 \/ slot[p] \in dropped'
    PROVE  /\ ProbeInv'
           /\ slot[p] \in Slot
           /\ \A r \in Slot : r # slot[p] => SlotState'[r] = SlotState[r]
           /\ at[p] = "send" => SlotState[slot[p]] = "held"
           /\ at[p] = "mark" => SlotState[slot[p]] = "sent"
           /\ at[p] = "release" => SlotState[slot[p]] = "free"
           /\ at'[p] = "send" => SlotState'[slot[p]] = "held"
           /\ at'[p] = "mark" => SlotState'[slot[p]] = "sent"
           /\ at'[p] = "release" => SlotState'[slot[p]] = "free"
           /\ ~Owns(p)' => SlotState'[slot[p]] = IF slot[p] \in claims' THEN "done" ELSE "free"
<1> DEFINE s == slot[p]
<1>1. /\ s \in Slot /\ slot' = slot /\ s \in claims
      /\ \A q \in Proc : q # p => at'[q] = at[q]
  BY DEF ProbeInv, OnSlot, OwnerMoves
<1>2. \A q \in Proc : q # p /\ Owns(q) => slot[q] # s
  BY DEF ProbeInv, OwnersApart
<1>3. OnSlot'
  BY <1>1, <1>2 DEF ProbeInv, OnSlot, OwnerMoves, Owns, Owning
<1>4. OwnersApart'
  BY <1>1, <1>2 DEF ProbeInv, OwnersApart, Owns
<1>5. StillSilent'
  BY <1>1, <1>2, <1>3 DEF ProbeInv, StillSilent, OnSlot, OwnerMoves, Excused, Owns, Owning
<1>6. MarkAfterSend'
  BY <1>1, <1>2, <1>3 DEF ProbeInv, MarkAfterSend, OnSlot, OwnerMoves, Owns, Owning
<1>7. WarningsExact'
  <2>1. ASSUME NEW r \in Slot PROVE warned'[r] <= 1 \/ r \in unsure'
    BY <2>1 DEF ProbeInv, WarningsExact, WarnedOnce, OwnerMoves
  <2>2. ASSUME NEW r \in claims', r \notin Owned', r # s
        PROVE  warned'[r] > 0 \/ r \in dropped'
    <3>1. r \in claims /\ r \in Slot
      BY <2>2 DEF OwnerMoves, ProbeInv, TypeOK
    <3>2. r \notin Owned
      BY <1>1, <2>2 DEF Owned
    <3> QED
      BY <2>2, <3>1, <3>2 DEF ProbeInv, WarningsExact, ClaimMeansWarned, OwnerMoves
  <2>3. s \in claims' /\ s \notin Owned' => ~Owns(p)'
    BY <1>1 DEF Owned, Owns, Owning
  <2> QED
    BY <2>1, <2>2, <2>3 DEF WarningsExact, WarnedOnce, ClaimMeansWarned
<1>8. \A r \in Slot : r # s => SlotState'[r] = SlotState[r]
  <2> SUFFICES ASSUME NEW r \in Slot, r # s
               PROVE  SlotState'[r] = SlotState[r]
    OBVIOUS
  <2>1. \A q \in Proc : slot[q] = r => at'[q] = at[q]
    BY <1>1
  <2>2. r \in claims' <=> r \in claims
    BY DEF OwnerMoves
  <2> QED
    BY <1>1, <2>1, <2>2, SameView
<1>9. /\ at[p] = "send" => SlotState[s] = "held"
      /\ at[p] = "mark" => SlotState[s] = "sent"
      /\ at[p] = "release" => SlotState[s] = "free"
  BY <1>1, <1>2, OwnedView DEF SlotState, Owns
<1>10. Owns(p)' => /\ at'[p] = "send" => SlotState'[s] = "held"
                   /\ at'[p] = "mark" => SlotState'[s] = "sent"
                   /\ at'[p] = "release" => SlotState'[s] = "free"
  BY <1>1, <1>4, OwnedView DEF SlotState, Owns, OwnersApart
<1>11. ~Owns(p)' => SlotState'[s] = IF s \in claims' THEN "done" ELSE "free"
  BY <1>1, <1>2, FreeView DEF SlotState, Owns
<1> QED
  BY <1>1, <1>3, <1>4, <1>5, <1>6, <1>7, <1>8, <1>9, <1>10, <1>11
  DEF ProbeInv, OwnerMoves, Owns, Owning

\* A warning that leaves is delivered; a send that failed gives the slot up.
LEMMA SendStep ==
    ASSUME Bounded, ProbeInv, NEW p \in Proc, Send(p)
    PROVE  ProbeInv' /\ [Abstract!Next]_SlotState
<1> DEFINE s == slot[p]
<1>1. /\ at[p] = "send" /\ Owns(p) /\ s \in Slot /\ s \in claims /\ Excused(s)
      /\ UNCHANGED <<day, slot, todo, jobs, claims, flagged, dropped>>
  BY DEF Send, ProbeInv, OnSlot, StillSilent, Owns, Owning
<1>2. misfires' \in 0..MaxMisfires
  BY DEF Send, NoFault, Fault, ProbeInv, TypeOK, Bounded
<1>3. PICK b \in {"mark", "release"} : at' = [at EXCEPT ![p] = b]
  BY DEF Send, Proceed, AfterFailure
<1>4. at'[p] = b /\ \A q \in Proc : q # p => at'[q] = at[q]
  BY <1>3 DEF ProbeInv, TypeOK
<1>5. /\ at' \in [Proc -> {"idle", "look", "claim", "send", "mark", "release"}]
      /\ warned' \in [Slot -> Nat] /\ unsure' \subseteq Slot
      /\ warned[s] \in Nat
      /\ \A r \in Slot \ {s} : warned'[r] = warned[r] /\ (r \in unsure' <=> r \in unsure)
  BY <1>1, <1>3 DEF Send, ProbeInv, TypeOK
<1>6. OwnerMoves(p)
  BY <1>1, <1>2, <1>4, <1>5 DEF OwnerMoves, ProbeInv, TypeOK
<1>7. CASE b = "mark"
  <2>1. warned'[s] = warned[s] + 1 /\ unsure' = unsure
    BY <1>1, <1>4, <1>7 DEF Send, Proceed, AfterFailure, ProbeInv, TypeOK
  <2>2. /\ ProbeInv' /\ SlotState[s] = "held" /\ SlotState'[s] = "sent"
        /\ \A r \in Slot : r # s => SlotState'[r] = SlotState[r]
    BY <1>1, <1>4, <1>5, <1>6, <1>7, <2>1, OwnerStep DEF Excused, Owns, Owning
  <2>3. Abstract!Deliver(s)
    BY <1>1, <2>2, OneSlot DEF Abstract!Deliver
  <2> QED
    BY <1>1, <2>2, <2>3 DEF Abstract!Next
<1>8. CASE b = "release"
  <2>1. (warned'[s] = warned[s] /\ unsure' = unsure) \/ s \in unsure'
    BY <1>1, <1>4, <1>8 DEF Send, Proceed, AfterFailure, ProbeInv, TypeOK
  <2>2. Excused(s)' /\ (warned'[s] <= 1 \/ s \in unsure')
    BY <1>1, <1>5, <2>1 DEF Excused
  <2>3. /\ ProbeInv' /\ SlotState[s] = "held" /\ SlotState'[s] = "free"
        /\ \A r \in Slot : r # s => SlotState'[r] = SlotState[r]
    BY <1>1, <1>4, <1>6, <1>8, <2>2, OwnerStep DEF Owns, Owning
  <2>4. Abstract!GiveUp(s)
    BY <1>1, <2>3, OneSlot DEF Abstract!GiveUp
  <2> QED
    BY <1>1, <2>3, <2>4 DEF Abstract!Next
<1> QED
  BY <1>7, <1>8

\* A warning written down settles its slot; one that could not be is given up.
LEMMA MarkStep ==
    ASSUME Bounded, ProbeInv, NEW p \in Proc, Mark(p)
    PROVE  ProbeInv' /\ [Abstract!Next]_SlotState
<1> DEFINE s == slot[p]
<1>1. /\ at[p] = "mark" /\ Owns(p) /\ s \in Slot /\ s \in claims /\ warned[s] > 0
      /\ UNCHANGED <<day, slot, todo, jobs, claims, warned, dropped>>
  BY DEF Mark, ProbeInv, OnSlot, MarkAfterSend, Owns, Owning
<1>2. misfires' \in 0..MaxMisfires /\ flagged' \subseteq Slot /\ unsure' \subseteq Slot
  BY <1>1 DEF Mark, NoFault, Fault, ProbeInv, TypeOK, Bounded
<1>3. warned[s] <= 1 \/ s \in unsure
  BY <1>1 DEF ProbeInv, WarningsExact, WarnedOnce
<1>4. CASE Done(p) /\ UNCHANGED unsure
  <2>1. OwnerMoves(p)
    BY <1>1, <1>2, <1>4, DoneAside DEF OwnerMoves, ProbeInv, TypeOK
  <2>2. at'[p] \notin Owning /\ at'[p] # "claim"
    BY <1>4, DoneAside DEF ProbeInv
  <2>3. /\ ProbeInv' /\ SlotState[s] = "sent" /\ SlotState'[s] = "done"
        /\ \A r \in Slot : r # s => SlotState'[r] = SlotState[r]
    BY <1>1, <1>3, <1>4, <2>1, <2>2, OwnerStep DEF Owns, Owning
  <2>4. Abstract!Settle(s)
    BY <1>1, <2>3, OneSlot DEF Abstract!Settle
  <2> QED
    BY <1>1, <2>3, <2>4 DEF Abstract!Next
<1>5. CASE Proceed(p, "release") /\ unsure' = unsure \cup {s}
  <2>1. at' = [at EXCEPT ![p] = "release"] /\ at'[p] = "release"
    BY <1>5 DEF Proceed, ProbeInv, TypeOK
  <2>2. OwnerMoves(p)
    BY <1>1, <1>2, <1>5, <2>1 DEF OwnerMoves, ProbeInv, TypeOK
  <2>3. Excused(s)'
    BY <1>1, <1>5 DEF Excused
  <2>4. /\ ProbeInv' /\ SlotState[s] = "sent" /\ SlotState'[s] = "free"
        /\ \A r \in Slot : r # s => SlotState'[r] = SlotState[r]
    BY <1>1, <1>5, <2>1, <2>2, <2>3, OwnerStep DEF Owns, Owning
  <2>5. Abstract!GiveUp(s)
    BY <1>1, <2>4, OneSlot DEF Abstract!GiveUp
  <2> QED
    BY <1>1, <2>4, <2>5 DEF Abstract!Next
<1> QED
  BY <1>4, <1>5 DEF Mark, AfterFailure

\* A claim given back changes nothing that is seen; one that cannot be stays.
LEMMA ReleaseStep ==
    ASSUME Bounded, ProbeInv, NEW p \in Proc, Release(p)
    PROVE  ProbeInv' /\ [Abstract!Next]_SlotState
<1> DEFINE s == slot[p]
<1>1. /\ at[p] = "release" /\ Owns(p) /\ s \in Slot /\ s \in claims /\ Excused(s)
      /\ UNCHANGED <<day, slot, todo, jobs, flagged, warned, unsure>>
      /\ Done(p)
  BY DEF Release, ProbeInv, OnSlot, StillSilent, Owns, Owning
<1>2. /\ misfires' \in 0..MaxMisfires /\ claims' \subseteq claims
      /\ claims \ {s} \subseteq claims' /\ dropped \subseteq dropped' /\ dropped' \subseteq Slot
  BY <1>1 DEF Release, NoFault, Fault, ProbeInv, TypeOK, Bounded
<1>3. s \in claims' => s \in dropped'
  BY DEF Release
<1>4. at'[p] \notin Owning /\ at'[p] # "claim"
  BY <1>1, DoneAside DEF ProbeInv
<1>5. OwnerMoves(p)
  BY <1>1, <1>2, DoneAside DEF OwnerMoves, ProbeInv, TypeOK
<1>6. Excused(s)' /\ (warned'[s] <= 1 \/ s \in unsure')
  BY <1>1 DEF Excused, ProbeInv, WarningsExact, WarnedOnce
<1>7. /\ ProbeInv' /\ SlotState[s] = "free"
      /\ SlotState'[s] = IF s \in claims' THEN "done" ELSE "free"
      /\ \A r \in Slot : r # s => SlotState'[r] = SlotState[r]
  BY <1>1, <1>3, <1>4, <1>5, <1>6, OwnerStep DEF Owns, Owning
<1>8. CASE s \in claims'
  <2>1. Abstract!Settle(s)
    BY <1>1, <1>7, <1>8, OneSlot DEF Abstract!Settle
  <2> QED
    BY <1>1, <1>7, <2>1 DEF Abstract!Next
<1>9. CASE s \notin claims'
  <2>1. SlotState' = SlotState
    BY <1>7, <1>9 DEF SlotState, View
  <2> QED
    BY <1>7, <2>1
<1> QED
  BY <1>8, <1>9

\* A restart drops the claims in hand and settles their slots.
LEMMA RestartStep ==
    ASSUME Bounded, ProbeInv, Restart
    PROVE  ProbeInv' /\ [Abstract!Next]_SlotState
<1>1. /\ at' = [p \in Proc |-> "idle"] /\ slot' = [p \in Proc |-> NoSlot]
      /\ UNCHANGED <<day, jobs, claims, flagged, warned, unsure>>
      /\ dropped' = dropped \cup Owned /\ todo' = {}
  BY DEF Restart
<1>2. Owned \subseteq Slot /\ Owned' = {}
  BY <1>1 DEF Owned, ProbeInv, OnSlot, Owns, Owning
<1>3. misfires' \in 0..MaxMisfires
  BY DEF Restart, Fault, ProbeInv, TypeOK, Bounded
<1>4. TypeOK'
  BY <1>1, <1>2, <1>3 DEF ProbeInv, TypeOK
<1>5. OnSlot' /\ OwnersApart' /\ StillSilent' /\ MarkAfterSend'
  BY <1>1 DEF ProbeInv, OnSlot, OwnersApart, StillSilent, MarkAfterSend, Excused, Owns, Owning
<1>6. WarningsExact'
  BY <1>1, <1>2 DEF ProbeInv, WarningsExact, WarnedOnce, ClaimMeansWarned
<1>7. ASSUME NEW s \in Slot
      PROVE  SlotState'[s] = IF s \in claims THEN "done" ELSE "free"
  BY <1>1, FreeView DEF SlotState, Owning
<1>8. ASSUME NEW s \in Slot, SlotState[s] = "done" PROVE s \in claims
  BY <1>8 DEF SlotState, View
<1>9. Abstract!Restart
  <2>1. SlotState' = [s \in Slot |-> SlotState'[s]]
    BY DEF SlotState, View
  <2>2. \A s \in Slot : SlotState'[s] = IF SlotState[s] = "done" \/ s \in claims
                                        THEN "done" ELSE "free"
    BY <1>7, <1>8
  <2>3. claims \in SUBSET Slot
    BY DEF ProbeInv, TypeOK
  <2>4. SlotState' = [s \in Slot |-> IF SlotState[s] = "done" \/ s \in claims
                                      THEN "done" ELSE "free"]
    BY <2>1, <2>2
  <2> QED
    BY <2>3, <2>4 DEF Abstract!Restart
<1> QED
  BY <1>4, <1>5, <1>6, <1>9 DEF ProbeInv, Abstract!Next

----------------------------------------------------------------------------
LEMMA ProbeInit ==
    ASSUME Bounded, Init
    PROVE  ProbeInv /\ Abstract!Init
<1>1. \A p \in Proc : at[p] = "idle"
  BY DEF Init
<1>2. TypeOK
  BY DEF Init, TypeOK, Bounded
<1>3. OnSlot /\ OwnersApart /\ StillSilent /\ MarkAfterSend
  BY <1>1 DEF Init, OnSlot, OwnersApart, StillSilent, MarkAfterSend, Excused, Owns, Owning
<1>4. WarningsExact
  BY DEF Init, WarningsExact, WarnedOnce, ClaimMeansWarned
<1>5. \A s \in Slot : SlotState[s] = "free"
  BY <1>1, FreeView DEF Init, SlotState, Owning
<1>6. SlotState = [s \in Slot |-> "free"]
  BY <1>5 DEF SlotState, View
<1> QED
  BY <1>2, <1>3, <1>4, <1>6 DEF ProbeInv, Abstract!Init

LEMMA ProbeNext ==
    ASSUME Bounded, ProbeInv, [Next]_vars
    PROVE  ProbeInv' /\ [Abstract!Next]_SlotState
<1>1. CASE Restart
  BY <1>1, RestartStep
<1>2. ASSUME NEW p \in Proc, Claim(p) \/ Send(p) \/ Mark(p) \/ Release(p)
      PROVE  ProbeInv' /\ [Abstract!Next]_SlotState
  BY <1>2, ClaimStep, SendStep, MarkStep, ReleaseStep
<1>3. CASE \/ StartProbe \/ NextDay
           \/ \E c \in Check, ok \in CheckResult : RunCheck(c, ok)
           \/ \E t \in Turn, c \in Check : TurnFails(t, c)
  BY <1>3, QuietSteps, AsideStep
<1>4. CASE UNCHANGED vars
  <2>1. Aside
    BY <1>4 DEF vars, notice, Aside, ProbeInv, TypeOK, OnSlot, Owns
  <2> QED
    BY <2>1, AsideStep
<1> QED
  BY <1>1, <1>2, <1>3, <1>4 DEF Next

\* The types of probe.py's claims and of the histories kept of them.
THEOREM WarningTypes == ASSUME Bounded PROVE Spec => []TypeOK
<1>1. ProbeInv => TypeOK
  BY DEF ProbeInv
<1> QED
  BY <1>1, ProbeInit, ProbeNext, PTL DEF Spec

\* "One warning per integration per day" (_notify of probe.py), however many
\* turns race with the probe: a second one needs a first that went out and could
\* not be written down; and a claim that silences the day was warned of, or its
\* owner died or could not give it back.
THEOREM WarningsExactAlways == ASSUME Bounded PROVE Spec => []WarningsExact
<1>1. ProbeInv => WarningsExact
  BY DEF ProbeInv
<1> QED
  BY <1>1, ProbeInit, ProbeNext, PTL DEF Spec

\* The claims of probe_notified are a OncePerDay: the claim takes the slot, the
\* warning delivers it, the mark settles it, a release gives it up, and a
\* restart settles what was in hand.
THEOREM RefinesOncePerDay == ASSUME Bounded PROVE Spec => ImplementsOncePerDay
BY ProbeInit, ProbeNext, PTL DEF Spec, ImplementsOncePerDay, Abstract!Spec

----------------------------------------------------------------------------
(* The notice of a slow tool, SlowAck.                                       *)

\* Of the timers only the current one is armed, none while no tool runs, until
\* a notice went out or the turn is over.
Tracked ==
    ~closed /\ ~acked => /\ \A t \in Ack!Timer : timers[t] = "armed" => t = timer
                         /\ running = {} => timer = 0

\* A timer that decided is sending or has sent; it decided for the turn, once.
Decisions ==
    /\ \A t \in decided : timers[t] \in {"sending", "over"}
    /\ \/ ~acked /\ decided = {}
       \/ acked /\ \E t \in Ack!Timer : decided = {t}

\* A timer of a gap in which it had not gone off can do nothing any more.
GapsOver ==
    /\ \A t \in gap : timers[t] # "new"
    /\ \A t \in gap \ raced : timers[t] \in {"sending", "over"} \/ closed \/ acked

AckInv ==
    /\ Ack!TypeOK /\ Tracked /\ Decisions /\ GapsOver /\ decided \cap gap \subseteq raced
    /\ running \subseteq toolsAt /\ (turn = "open" => ~closed) /\ (~closed => turn = "open")

LEMMA AckTools ==
    ASSUME MaxTimers \in Nat, AckInv, NEW k \in RunId, Ack!ToolStarted(k)
    PROVE  AckInv'
<1>1. /\ ~closed
      /\ UNCHANGED <<acked, closed, turn, chat, decided, gap, raced>>
      /\ pending' = pending \ {k} /\ toolsAt' = toolsAt \cup {k}
  BY DEF Ack!ToolStarted, AckInv
<1>2. CASE UNCHANGED <<running, timer, timers>>
  BY <1>1, <1>2 DEF AckInv, Ack!TypeOK, Tracked, Decisions, GapsOver
<1>3. CASE ~acked /\ running' = running \cup {k} /\ timer # 0 /\ UNCHANGED <<timer, timers>>
  BY <1>1, <1>3 DEF AckInv, Ack!TypeOK, Tracked, Decisions, GapsOver
<1>4. ASSUME ~acked, running' = running \cup {k}, timer = 0,
             NEW t \in Ack!Unused, timer' = t, timers' = [timers EXCEPT ![t] = "armed"]
      PROVE  AckInv'
  <2>1. /\ t \in Ack!Timer /\ timers[t] = "new" /\ t \notin gap /\ t \notin decided
        /\ timers' \in [Ack!Timer -> Ack!TimerState] /\ t \in 0..MaxTimers
        /\ timers'[t] = "armed" /\ \A u \in Ack!Timer : u # t => timers'[u] = timers[u]
    BY <1>4 DEF Ack!Unused, Ack!Timer, Ack!TimerState, AckInv, Ack!TypeOK, GapsOver, Decisions
  <2>2. \A u \in Ack!Timer : timers[u] # "armed"
    BY <1>1, <1>4 DEF AckInv, Tracked, Ack!Timer
  <2>3. Tracked'
    BY <1>1, <1>4, <2>1, <2>2 DEF Tracked
  <2>4. Decisions' /\ GapsOver'
    BY <1>1, <1>4, <2>1 DEF AckInv, Decisions, GapsOver, Ack!TypeOK
  <2> QED
    BY <1>1, <1>4, <2>1, <2>3, <2>4 DEF AckInv, Ack!TypeOK
<1> QED
  BY <1>1, <1>2, <1>3, <1>4 DEF Ack!ToolStarted

\* The timer of the last tool is cancelled, and the others are over, going off
\* or without effect.
LEMMA AckCancel ==
    ASSUME MaxTimers \in Nat, AckInv, Ack!CancelTimer, Ack!NoToolLeft,
           UNCHANGED <<acked, chat, decided, pending>>, running' = {}, toolsAt' \subseteq toolsAt,
           UNCHANGED <<closed, turn>> \/ (turn' = "closed" /\ closed' = TRUE)
    PROVE  AckInv'
<1>1. /\ timer' = 0 /\ gap' = gap \cup Ack!Live
      /\ raced' = raced \cup {t \in Ack!Live : timers[t] = "off"}
      /\ timers' \in [Ack!Timer -> Ack!TimerState]
      /\ \A t \in Ack!Timer : \/ timers'[t] = timers[t] /\ (timers[t] = "armed" => t # timer)
                              \/ timers[t] = "armed" /\ timers'[t] = "over"
  BY DEF Ack!CancelTimer, Ack!NoToolLeft, Ack!Cancelled, AckInv, Ack!TypeOK, Ack!Timer, Ack!TimerState
<1>2. ~closed /\ ~acked => \A t \in Ack!Timer : timers'[t] # "armed"
  BY <1>1 DEF AckInv, Tracked
<1>3. Ack!Live \subseteq Ack!Timer /\ gap \subseteq Ack!Timer /\ decided \subseteq Ack!Timer
  BY DEF Ack!Live, AckInv, Ack!TypeOK
<1>4. Tracked'
  BY <1>1, <1>2 DEF Tracked
<1>5. Decisions'
  BY <1>1, <1>3 DEF AckInv, Decisions
<1>6. GapsOver'
  BY <1>1, <1>2, <1>3 DEF AckInv, GapsOver, Ack!Live
<1>7. decided \cap gap' \subseteq raced'
  BY <1>1 DEF AckInv, Decisions, Ack!Live
<1>8. Ack!TypeOK'
  <2>1. decided' \cup gap' \cup raced' \subseteq Ack!Timer
    BY <1>1, <1>3 DEF AckInv, Ack!TypeOK
  <2>2. /\ pending' \subseteq RunId /\ toolsAt' \subseteq RunId /\ running' \subseteq RunId
        /\ timer' \in 0..MaxTimers /\ acked' \in BOOLEAN /\ chat' \in Seq({"ack", "answer"})
    BY <1>1 DEF AckInv, Ack!TypeOK
  <2>3. closed' \in BOOLEAN /\ turn' \in {"open", "closed", "answered"}
    BY DEF AckInv, Ack!TypeOK
  <2> QED
    BY <1>1, <2>1, <2>2, <2>3 DEF Ack!TypeOK
<1> QED
  BY <1>1, <1>4, <1>5, <1>6, <1>7, <1>8 DEF AckInv, Ack!TypeOK

LEMMA AckTimers ==
    ASSUME MaxTimers \in Nat, AckInv, NEW t \in Ack!Timer,
           Ack!GoesOff(t) \/ Ack!Fire(t) \/ Ack!Send(t)
    PROVE  AckInv' /\ Ack!DueWhenSent
<1>1. /\ UNCHANGED <<pending, toolsAt, running, closed, turn, gap, raced>>
      /\ \E s \in Ack!TimerState \ {"new", "armed"} : timers' = [timers EXCEPT ![t] = s]
      /\ timers[t] \in {"armed", "off", "sending"}
      /\ (timers[t] = "armed") = (timers'[t] = "off")
      /\ timers' \in [Ack!Timer -> Ack!TimerState]
      /\ \A u \in Ack!Timer : u # t => timers'[u] = timers[u]
  BY DEF Ack!GoesOff, Ack!Fire, Ack!Send, Ack!TimerState, AckInv, Ack!TypeOK
<1>2. chat' \in Seq({"ack", "answer"})
  BY DEF Ack!GoesOff, Ack!Fire, Ack!Send, AckInv, Ack!TypeOK
<1>3. gap \subseteq Ack!Timer /\ decided \subseteq Ack!Timer /\ timers'[t] # "new"
  BY <1>1 DEF AckInv, Ack!TypeOK
<1>4. CASE Ack!GoesOff(t) \/ Ack!Send(t)
  <2>1. UNCHANGED <<timer, acked, decided>>
    BY <1>4 DEF Ack!GoesOff, Ack!Send
  <2>2. \/ timers[t] = "armed" /\ timers'[t] = "off"
        \/ timers[t] = "sending" /\ timers'[t] = "over"
    BY <1>1, <1>4 DEF Ack!GoesOff, Ack!Send, AckInv, Ack!TypeOK
  <2>3. Tracked' /\ Decisions' /\ GapsOver' /\ Ack!DueWhenSent
    BY <1>1, <1>3, <2>1, <2>2
    DEF AckInv, Tracked, Decisions, GapsOver, Ack!DueWhenSent
  <2> QED
    BY <1>1, <1>2, <2>1, <2>3 DEF AckInv, Ack!TypeOK
<1>5. CASE Ack!Fire(t)
  <2>1. timers[t] = "off" /\ timer' = 0
    BY <1>5 DEF Ack!Fire
  <2>2. CASE Ack!Due
    <3>1. /\ acked' = TRUE /\ decided' = {t} /\ timers'[t] = "sending"
          /\ ~closed /\ ~acked /\ running # {}
      BY <1>5, <2>2 DEF Ack!Fire, Ack!Due, AckInv, Ack!TypeOK, Decisions
    <3>2. t \notin gap \ raced
      BY <2>1, <3>1 DEF AckInv, GapsOver
    <3>3. Tracked' /\ Decisions' /\ GapsOver' /\ Ack!DueWhenSent
      BY <1>1, <1>3, <2>1, <3>1
      DEF AckInv, Tracked, Decisions, GapsOver, Ack!DueWhenSent
    <3> QED
      BY <1>1, <1>2, <2>1, <3>1, <3>2, <3>3 DEF AckInv, Ack!TypeOK
  <2>3. CASE ~Ack!Due
    <3>1. UNCHANGED <<acked, decided>> /\ timers'[t] = "over"
      BY <1>5, <2>3 DEF Ack!Fire, AckInv, Ack!TypeOK
    <3>2. ~closed /\ ~acked => \A u \in Ack!Timer : timers[u] # "armed"
      BY <2>3 DEF AckInv, Tracked, Ack!Due, Ack!Timer
    <3>3. Tracked' /\ Decisions' /\ GapsOver' /\ Ack!DueWhenSent
      BY <1>1, <1>3, <2>1, <3>1, <3>2
      DEF AckInv, Tracked, Decisions, GapsOver, Ack!DueWhenSent
    <3> QED
      BY <1>1, <1>2, <2>1, <3>1, <3>3 DEF AckInv, Ack!TypeOK
  <2> QED
    BY <2>2, <2>3
<1> QED
  BY <1>4, <1>5

LEMMA AckNext ==
    ASSUME MaxTimers \in Nat, AckInv, [Ack!Next]_Ack!vars
    PROVE  AckInv' /\ (Ack!DueWhenSent \/ UNCHANGED Ack!vars)
<1>1. ASSUME NEW k \in RunId, Ack!ToolStarted(k)
      PROVE  AckInv' /\ Ack!DueWhenSent
  <2>1. \A t \in Ack!Timer : timers'[t] = timers[t] \/ timers'[t] = "armed"
    BY <1>1 DEF Ack!ToolStarted, Ack!Unused, AckInv, Ack!TypeOK
  <2> QED
    BY <1>1, <2>1, AckTools DEF Ack!DueWhenSent
<1>2. ASSUME Ack!CancelTimer
      PROVE  Ack!DueWhenSent
  BY <1>2 DEF Ack!CancelTimer, Ack!Cancelled, Ack!DueWhenSent, AckInv, Ack!TypeOK
<1>3. ASSUME NEW k \in RunId, Ack!ToolEnded(k)
      PROVE  AckInv' /\ Ack!DueWhenSent
  <2>1. CASE running' = {}
    BY <1>2, <1>3, <2>1, AckCancel DEF Ack!ToolEnded
  <2>2. CASE running' # {}
    BY <1>3, <2>2
    DEF Ack!ToolEnded, AckInv, Ack!TypeOK, Tracked, Decisions, GapsOver, Ack!DueWhenSent
  <2> QED
    BY <2>1, <2>2
<1>4. CASE Ack!EndTurn
  BY <1>2, <1>4, AckCancel DEF Ack!EndTurn
<1>5. CASE Ack!Answer
  BY <1>5
  DEF Ack!Answer, AckInv, Ack!TypeOK, Tracked, Decisions, GapsOver, Ack!DueWhenSent
<1>6. CASE UNCHANGED Ack!vars
  BY <1>6 DEF Ack!vars, AckInv, Ack!TypeOK, Tracked, Decisions, GapsOver
<1> QED
  BY <1>1, <1>3, <1>4, <1>5, <1>6, AckTimers DEF Ack!Next

LEMMA AckInit ==
    ASSUME MaxTimers \in Nat, Ack!Init
    PROVE  AckInv
<1>1. chat \in Seq({"ack", "answer"})
  BY DEF Ack!Init
<1>2. timer \in 0..MaxTimers /\ timers \in [Ack!Timer -> Ack!TimerState]
  BY DEF Ack!Init, Ack!TimerState
<1>3. Ack!TypeOK
  BY <1>1, <1>2 DEF Ack!Init, Ack!TypeOK
<1> QED
  BY <1>3 DEF Ack!Init, AckInv, Tracked, Decisions, GapsOver

\* Tools that start and end in parallel, stale timers that go off, and a turn that
\* raises with tools running: at most one notice a turn ("at most once per turn",
\* slow_ack.py), for a tool that ran through the delay unless the timer had gone
\* off before the gap, decided on while the turn was open and a tool at work.
THEOREM AckRightAlways == ASSUME MaxTimers \in Nat PROVE Ack!Spec => Ack!AckRight
<1>1. AckInv => Ack!AckOnce /\ Ack!AckDue
  BY DEF AckInv, Decisions, Ack!AckOnce, Ack!AckDue
<1>2. Ack!Init => AckInv
  BY AckInit
<1>3. AckInv /\ [Ack!Next]_Ack!vars => AckInv'
  BY AckNext
<1>4. AckInv /\ [Ack!Next]_Ack!vars => [Ack!DueWhenSent]_Ack!vars
  BY AckNext
<1> QED
  BY <1>1, <1>2, <1>3, <1>4, PTL DEF Ack!Spec, Ack!AckRight

----------------------------------------------------------------------------
(* The state of the sources, SourceStatus.                                   *)

\* What the probe, /health and the briefing leave in the table: a source that is
\* up was recorded up last, one that is down is down since the first failure
\* after that.
LastOk == \A s \in Source : status[s].ok => records[s] = << >> \/ records[s][Len(records[s])]
TableInv ==
    /\ status \in [Source -> [ok : BOOLEAN, reason : Src!Reason, since : Nat]]
    /\ records \in [Source -> Seq(BOOLEAN)]
    /\ LastOk /\ Src!SinceIsFirst

SrcInv == Src!TypeOK /\ TableInv /\ covered \subseteq banner

LEMMA MaxIs ==
    ASSUME NEW S \in SUBSET Nat, NEW m \in S, \A n \in S : m >= n
    PROVE  Src!Max(S) = m
<1> DEFINE x == Src!Max(S)
<1>1. x \in S /\ \A n \in S : x >= n
  BY DEF Src!Max
<1> HIDE DEF x
<1>2. x \in Nat /\ m \in Nat /\ x >= m /\ m >= x
  BY <1>1
<1>3. x = m
  BY <1>2
<1> QED
  BY <1>3 DEF x

\* Every writer of the table keeps it so.
LEMMA RecordedKeeps ==
    ASSUME TableInv, NEW s \in Source, NEW ok \in BOOLEAN, NEW why \in Src!Reason,
           Src!Recorded(s, ok, why)
    PROVE  TableInv'
<1> DEFINE n == Len(records[s])
           Oks(r) == {j \in DOMAIN r : r[j]}
<1>1. /\ records[s] \in Seq(BOOLEAN) /\ n \in Nat /\ status[s].since \in Nat
      /\ status[s].ok \in BOOLEAN
  BY DEF TableInv
<1>2. /\ records'[s] = Append(records[s], ok) /\ records' \in [Source -> Seq(BOOLEAN)]
      /\ \A t \in Source : t # s => records'[t] = records[t]
  BY <1>1 DEF Src!Recorded, TableInv
<1>3. /\ Len(records'[s]) = n + 1 /\ records'[s][n + 1] = ok /\ DOMAIN records'[s] = 1..(n + 1)
      /\ \A j \in 1..n : records'[s][j] = records[s][j]
  BY <1>1, <1>2
<1>4. \A t \in Source : t # s => status'[t] = status[t]
  BY DEF Src!Recorded, TableInv
<1>5. status'[s] = IF ok THEN [ok |-> TRUE, reason |-> "none", since |-> 0]
                   ELSE [ok |-> FALSE, reason |-> why, since |-> Src!Since(s)]
  BY DEF Src!Recorded, TableInv
<1>6. Src!Since(s) \in Nat
  BY <1>1 DEF Src!Since
<1>7. status' \in [Source -> [ok : BOOLEAN, reason : Src!Reason, since : Nat]]
  <2>1. status'[s] \in [ok : BOOLEAN, reason : Src!Reason, since : Nat]
    BY <1>5, <1>6 DEF Src!Reason
  <2>2. status' = [status EXCEPT ![s] = status'[s]]
    BY DEF Src!Recorded, TableInv
  <2> QED
    BY <2>1, <2>2 DEF TableInv
<1>8. LastOk'
  BY <1>2, <1>3, <1>4, <1>5 DEF TableInv, LastOk
<1>9. ~ok => Oks(records'[s]) = Oks(records[s])
  <2>1. DOMAIN records[s] = 1..n
    BY <1>1
  <2>2. ASSUME ~ok, NEW j \in Nat
        PROVE  j \in Oks(records'[s]) <=> j \in Oks(records[s])
    BY <1>3, <2>1, <2>2
  <2>3. Oks(records'[s]) \subseteq Nat /\ Oks(records[s]) \subseteq Nat
    BY <1>3, <2>1
  <2> QED
    BY <2>2, <2>3
<1>10. ASSUME ~ok
       PROVE  Src!Since(s) = 1 + (IF Oks(records[s]) = {} THEN 0 ELSE Src!Max(Oks(records[s])))
  <2>1. CASE ~status[s].ok
    BY <2>1 DEF Src!Since, TableInv, Src!SinceIsFirst
  <2>2. CASE status[s].ok /\ records[s] = << >>
    BY <2>2, <1>1 DEF Src!Since
  <2>3. CASE status[s].ok /\ records[s] # << >>
    <3>1. n \in Oks(records[s]) /\ Oks(records[s]) \subseteq Nat /\ \A j \in Oks(records[s]) : n >= j
      BY <1>1, <2>3 DEF TableInv, LastOk
    <3>2. Src!Max(Oks(records[s])) = n
      BY <3>1, MaxIs
    <3> QED
      BY <1>1, <2>3, <3>1, <3>2 DEF Src!Since
  <2> QED
    BY <1>1, <2>1, <2>2, <2>3
<1>11. Src!SinceIsFirst'
  <2> SUFFICES ASSUME NEW t \in Source, ~status'[t].ok
               PROVE  status'[t].since =
                        1 + (IF Oks(records'[t]) = {} THEN 0 ELSE Src!Max(Oks(records'[t])))
    BY DEF Src!SinceIsFirst, Src!Max
  <2>1. CASE t = s
    BY <1>5, <1>9, <1>10, <2>1
  <2>2. CASE t # s
    BY <1>2, <1>4, <2>2 DEF TableInv, Src!SinceIsFirst
  <2> QED
    BY <2>1, <2>2
<1> QED
  BY <1>2, <1>7, <1>8, <1>11 DEF TableInv

LEMMA SrcNext ==
    ASSUME SrcInv, [Src!Next]_Src!vars
    PROVE  SrcInv'
<1> USE DEF SrcInv
<1>1. ASSUME UNCHANGED <<status, records>> PROVE TableInv'
  BY <1>1 DEF TableInv, LastOk, Src!SinceIsFirst, Src!Max
<1>2. ASSUME NEW s \in Source, Src!RecordLook(s) PROVE SrcInv'
  <2>1. TableInv'
    <3>1. PICK why \in {"oauth", "disconnected"} : Src!Recorded(s, sights[s] = "up", why)
      BY <1>2 DEF Src!RecordLook
    <3>2. why \in Src!Reason /\ (sights[s] = "up") \in BOOLEAN
      BY DEF Src!Reason
    <3> QED
      BY <3>1, <3>2, RecordedKeeps
  <2> QED
    BY <1>2, <2>1 DEF Src!RecordLook, Src!TypeOK, TableInv
<1>3. ASSUME NEW s \in Source, Src!RecordSection(s) PROVE SrcInv'
  <2>1. /\ UNCHANGED <<sights, failed, connection, banner, covered>>
        /\ left' \subseteq left /\ brief' \in {"list", "record"}
    BY <1>3 DEF Src!RecordSection
  <2>2. \/ \E ok \in BOOLEAN, why \in Src!Reason : Src!Recorded(s, ok, why)
        \/ UNCHANGED <<status, records>>
    <3>1. {"error", "disconnected"} \subseteq Src!Reason
      BY DEF Src!Reason
    <3>2. (s \notin failed) \in BOOLEAN /\ (connection = "open") \in BOOLEAN /\ FALSE \in BOOLEAN
      OBVIOUS
    <3> QED
      BY <1>3, <3>1, <3>2 DEF Src!RecordSection
  <2>3. TableInv'
    BY <1>1, <2>2, RecordedKeeps
  <2> QED
    BY <2>1, <2>3 DEF Src!TypeOK, TableInv
<1>4. ASSUME NEW s \in Source, Src!LoseLook(s) \/ \E r \in {"up", "down"} : Src!Look(s, r)
      PROVE  SrcInv'
  BY <1>1, <1>4 DEF Src!LoseLook, Src!Look, Src!TypeOK
<1>5. ASSUME NEW f \in SUBSET Source, NEW w \in {"open", "close", "unknown"}, Src!Collect(f, w)
      PROVE  SrcInv'
  BY <1>1, <1>5 DEF Src!Collect, Src!TypeOK
<1>6. CASE Src!NoBanner
  BY <1>1, <1>6 DEF Src!NoBanner, Src!TypeOK
<1>7. CASE Src!ListDown
  BY <1>1, <1>7 DEF Src!ListDown, Src!Covered, Src!Down, Src!TypeOK
<1>8. CASE UNCHANGED Src!vars
  BY <1>1, <1>8 DEF Src!vars, Src!TypeOK
<1> QED
  BY <1>2, <1>3, <1>4, <1>5, <1>6, <1>7, <1>8 DEF Src!Next

LEMMA SrcInit ==
    ASSUME Src!Init
    PROVE  SrcInv
<1>1. records \in [Source -> Seq(BOOLEAN)]
  BY DEF Src!Init
<1> QED
  BY <1>1 DEF Src!Init, SrcInv, Src!TypeOK, Src!Reason, TableInv, LastOk, Src!SinceIsFirst

\* Three writers that look first and record later (probe.py, health.py, briefing.py):
\* the "since" of the banner is the first failure recorded after the last success,
\* and a failed section leaves the word only to a banner that names its source.
THEOREM OutagesToldAlways == Src!Spec => []Src!OutagesTold
<1>1. SrcInv => Src!OutagesTold
  BY DEF SrcInv, TableInv, Src!OutagesTold, Src!NoSilentSection
<1>2. Src!Init => SrcInv
  BY SrcInit
<1>3. SrcInv /\ [Src!Next]_Src!vars => SrcInv'
  BY SrcNext
<1> QED
  BY <1>1, <1>2, <1>3, PTL DEF Src!Spec

----------------------------------------------------------------------------
(* One message on its way out, Outbound.                                     *)

\* The form follows the stages: a keyboard that was refused is gone, and plain
\* text has no formatting left to refuse.
OutInv ==
    /\ Out!TypeOK
    /\ copies \in Nat /\ unheard \in Nat
    /\ bad \subseteq {"format", "keyboard", "chat"} /\ asked \subseteq {"format", "keyboard"}
    /\ stage = "full" => form = asked
    /\ stage = "bare" => "keyboard" \notin form
    /\ stage = "plain" => "format" \notin form
    /\ Out!SendRight

LEMMA OutNext ==
    ASSUME Attempts \in Nat \ {0}, OutInv, [Out!Next]_Out!vars
    PROVE  OutInv'
<1> USE DEF OutInv, Out!TypeOK, Out!SendRight, Out!RepeatedOnlyUnheard,
            Out!NotLostForLooks, Out!LooksKept, Out!Parts
<1>1. CASE Out!Deliver
  BY <1>1 DEF Out!Deliver
<1>2. ASSUME NEW arrived \in BOOLEAN, Out!Fail(arrived)
      PROVE  OutInv'
  BY <1>2 DEF Out!Fail
<1>3. ASSUME NEW reason \in {"format", "keyboard", "chat", "busy"}, Out!Refuse(reason)
      PROVE  OutInv'
  <2>1. /\ result = "none" /\ UNCHANGED <<asked, bad, copies, unheard>>
        /\ refused' = refused \cup {reason}
        /\ late' = (late \/ (reason = "keyboard" /\ stage = "plain"))
        /\ reason \in form \cup {"chat", "busy"}
    BY <1>3 DEF Out!Refuse
  <2>2. CASE stage = "full" /\ reason = "keyboard"
    BY <1>3, <2>1, <2>2 DEF Out!Refuse, Out!AfterRefusal
  <2>3. CASE stage # "plain" /\ reason = "format"
    <3>1. /\ form' = form \ {"format"} /\ stage' = "plain" /\ attempt' = 1
          /\ result' = result
      BY <1>3, <2>3 DEF Out!Refuse, Out!AfterRefusal
    <3>2. asked' \ form' \subseteq refused'
      BY <2>1, <2>3, <3>1
    <3> QED
      BY <2>1, <3>1, <3>2
  <2>4. CASE ~(stage = "full" /\ reason = "keyboard") /\ ~(stage # "plain" /\ reason = "format")
    <3>1. result' = "refused" /\ UNCHANGED <<form, stage, attempt>>
      BY <1>3, <2>4 DEF Out!Refuse, Out!AfterRefusal
    <3>2. reason = "keyboard" => stage = "plain"
      BY <2>1, <2>4
    <3>3. reason # "format"
      BY <2>1, <2>4
    <3>4. Out!NotLostForLooks'
      BY <2>1, <3>1, <3>2, <3>3
    <3> QED
      BY <2>1, <3>1, <3>4
  <2> QED
    BY <2>2, <2>3, <2>4
<1>4. CASE UNCHANGED Out!vars
  BY <1>4 DEF Out!vars
<1> QED
  BY <1>1, <1>2, <1>3, <1>4 DEF Out!Next

\* A message that Telegram may refuse for its looks, that is retried after errors and
\* whose answer may be lost (send_result.py, telegram_notify.py) arrives twice only if
\* an answer was lost, is given up only for its chat, for a busy server or for a
\* keyboard refused last, and loses only what was refused.
THEOREM SendRightAlways == ASSUME Attempts \in Nat \ {0} PROVE Out!Spec => []Out!SendRight
<1>1. Out!Init => OutInv
  BY DEF Out!Init, OutInv, Out!TypeOK, Out!SendRight, Out!RepeatedOnlyUnheard,
         Out!NotLostForLooks, Out!LooksKept, Out!Parts
<1>2. OutInv => Out!SendRight
  BY DEF OutInv
<1>3. OutInv /\ [Out!Next]_Out!vars => OutInv'
  BY OutNext
<1> QED
  BY <1>1, <1>2, <1>3, PTL DEF Out!Spec

----------------------------------------------------------------------------
(* The limit on paid calls, SpendCap.                                        *)

\* Sums of naturals: as many pairs as units.
Units(S, f) == UNION {{x} \X (1..f[x]) : x \in S}
Amount(S, f) == Cardinality(Units(S, f))
Summable(S, f) == IsFiniteSet(S) /\ \A x \in S : f[x] \in Nat

LEMMA InUnits ==
    ASSUME NEW S, NEW f, NEW u
    PROVE  u \in Units(S, f) <=> \E x \in S : \E k \in 1..f[x] : u = <<x, k>>
BY DEF Units

LEMMA FiniteAmount ==
    ASSUME NEW S, NEW f, Summable(S, f)
    PROVE  IsFiniteSet(Units(S, f)) /\ Amount(S, f) \in Nat
<1> DEFINE g == [x \in S |-> {x} \X (1..f[x])]
           T == {{x} \X (1..f[x]) : x \in S}
<1>1. g \in Surjection(S, T)
  BY DEF Surjection
<1>2. IsFiniteSet(T)
  <2> HIDE DEF g, T
  <2> QED
    BY <1>1, FS_Surjection DEF Summable
<1>3. ASSUME NEW x \in S
      PROVE  IsFiniteSet({x} \X (1..f[x]))
  <2>1. 1 \in Int /\ f[x] \in Int
    BY DEF Summable
  <2>2. IsFiniteSet(1..f[x])
    BY <2>1, FS_Interval
  <2>3. IsFiniteSet({x})
    BY FS_Singleton
  <2> QED
    BY <2>2, <2>3, FS_Product
<1>4. \A U \in T : IsFiniteSet(U)
  BY <1>3
<1> HIDE DEF T
<1>5. IsFiniteSet(UNION T)
  BY <1>2, <1>4, FS_UNION
<1>6. IsFiniteSet(Units(S, f))
  BY <1>5 DEF Units, T
<1> QED
  BY <1>6, FS_CardinalityType DEF Amount

LEMMA SameAmount ==
    ASSUME NEW S, NEW f, NEW g, \A x \in S : f[x] = g[x]
    PROVE  Amount(S, f) = Amount(S, g)
<1>1. \A u : u \in Units(S, f) <=> u \in Units(S, g)
  <2>1. \A u : u \in Units(S, f) <=> \E x \in S : \E k \in 1..f[x] : u = <<x, k>>
    BY InUnits
  <2>2. \A u : u \in Units(S, g) <=> \E x \in S : \E k \in 1..g[x] : u = <<x, k>>
    BY InUnits
  <2> QED
    BY <2>1, <2>2
<1>2. Units(S, f) = Units(S, g)
  BY <1>1
<1> QED
  BY <1>2 DEF Amount

\* Where a part of the set holds all of it.
LEMMA PartAmount ==
    ASSUME NEW S, NEW T \in SUBSET S, NEW f, \A x \in S \ T : f[x] = 0
    PROVE  Amount(S, f) = Amount(T, f)
<1>1. \A u : u \in Units(S, f) <=> u \in Units(T, f)
  <2>1. \A u : u \in Units(S, f) <=> \E x \in S : \E k \in 1..f[x] : u = <<x, k>>
    BY InUnits
  <2>2. \A u : u \in Units(T, f) <=> \E x \in T : \E k \in 1..f[x] : u = <<x, k>>
    BY InUnits
  <2>3. \A x \in S \ T : \A k : k \notin 1..f[x]
    OBVIOUS
  <2> QED
    BY <2>1, <2>2, <2>3
<1>2. Units(S, f) = Units(T, f)
  BY <1>1
<1> QED
  BY <1>2 DEF Amount

LEMMA NoAmount == ASSUME NEW S, NEW f, \A x \in S : f[x] = 0 PROVE Amount(S, f) = 0
<1>1. Amount(S, f) = Amount({}, f)
  BY PartAmount
<1>2. Units({}, f) = {}
  BY InUnits
<1> QED
  BY <1>1, <1>2, FS_EmptySet DEF Amount

\* The sum of two functions.
LEMMA AddedAmounts ==
    ASSUME NEW S, NEW f, NEW g, NEW h, Summable(S, f), Summable(S, g),
           \A x \in S : h[x] = f[x] + g[x]
    PROVE  Summable(S, h) /\ Amount(S, h) = Amount(S, f) + Amount(S, g)
<1> DEFINE F == Units(S, f)
           G == Units(S, g)
           H == Units(S, h)
           M == {<<u[1], u[2] + f[u[1]]>> : u \in G}
           b == [u \in G |-> <<u[1], u[2] + f[u[1]]>>]
<1>1. \A x \in S : f[x] \in Nat /\ g[x] \in Nat /\ h[x] = f[x] + g[x]
  BY DEF Summable
<1>2. Summable(S, h)
  BY <1>1 DEF Summable
<1>3. IsFiniteSet(F) /\ IsFiniteSet(G)
  BY FiniteAmount
<1>4. \A u \in G : u = <<u[1], u[2]>> /\ u[1] \in S /\ u[2] \in 1..g[u[1]]
  BY InUnits
<1>5. b \in Bijection(G, M)
  <2> HIDE DEF G
  <2>1. b \in [G -> M] /\ \A t \in M : \E u \in G : b[u] = t
    OBVIOUS
  <2>2. ASSUME NEW u \in G, NEW v \in G, b[u] = b[v]
        PROVE  u = v
    <3>1. u[1] = v[1] /\ u[2] + f[u[1]] = v[2] + f[v[1]]
      BY <2>2
    <3>2. u[2] = v[2]
      BY <1>1, <1>4, <3>1
    <3> QED
      BY <1>4, <3>1, <3>2
  <2> HIDE DEF b, M
  <2> QED
    BY <2>1, <2>2 DEF Bijection, Injection, Surjection, IsInjective
<1>6. IsFiniteSet(M) /\ Cardinality(M) = Cardinality(G)
  <2> HIDE DEF M, b, G
  <2>1. ExistsBijection(G, M)
    BY <1>5 DEF ExistsBijection
  <2> QED
    BY <1>3, <2>1, FS_Bijection
<1>7. \A m : m \in M <=> \E x \in S : \E k \in 1..g[x] : m = <<x, k + f[x]>>
  <2>1. ASSUME NEW x \in S, NEW k \in 1..g[x]
        PROVE  <<x, k + f[x]>> \in M
    <3>1. <<x, k>> \in G
      BY InUnits
    <3> QED
      BY <3>1
  <2>2. ASSUME NEW u \in G
        PROVE  \E x \in S : \E k \in 1..g[x] : <<u[1], u[2] + f[u[1]]>> = <<x, k + f[x]>>
    BY <1>4
  <2> HIDE DEF G
  <2> QED
    BY <2>1, <2>2
<1> HIDE DEF M
<1>8. H = F \cup M
  <2>1. ASSUME NEW x \in S, NEW k
        PROVE  k \in 1..h[x] <=> k \in 1..f[x] \/ \E j \in 1..g[x] : k = j + f[x]
    <3>1. ASSUME k \in 1..h[x], ~(k \in 1..f[x])
          PROVE  k - f[x] \in 1..g[x] /\ k = (k - f[x]) + f[x]
      BY <1>1, <3>1
    <3> QED
      BY <1>1, <3>1
  <2>2. \A u : u \in H <=> u \in F \/ u \in M
    BY <1>7, <2>1, InUnits
  <2> QED
    BY <2>2
<1>9. F \cap M = {}
  <2> SUFFICES ASSUME NEW u \in F, u \in M
               PROVE  FALSE
    OBVIOUS
  <2>1. PICK x \in S : \E k \in 1..f[x] : u = <<x, k>>
    BY InUnits
  <2>2. PICK y \in S : \E j \in 1..g[y] : u = <<y, j + f[y]>>
    BY <1>7
  <2>3. \E k \in 1..f[x] : \E j \in 1..g[x] : k = j + f[x]
    BY <2>1, <2>2
  <2> QED
    BY <1>1, <2>3
<1> HIDE DEF F, G, H
<1>10. Cardinality(F \cup M) = Cardinality(F) + Cardinality(M) - Cardinality(F \cap M)
  BY <1>3, <1>6, FS_Union
<1>11. Cardinality(F) \in Nat /\ Cardinality(M) \in Nat /\ Cardinality(F \cap M) = 0
  BY <1>3, <1>6, <1>9, FS_CardinalityType, FS_EmptySet
<1>12. Cardinality(H) = Cardinality(F) + Cardinality(G)
  BY <1>6, <1>8, <1>10, <1>11
<1> QED
  BY <1>2, <1>12 DEF Amount, F, G, H

\* One summand.
LEMMA OneAmount ==
    ASSUME NEW S, NEW f, NEW x \in S, Summable(S, f), \A y \in S \ {x} : f[y] = 0
    PROVE  Amount(S, f) = f[x]
<1>1. Amount(S, f) = Amount({x}, f)
  BY PartAmount
<1>2. Units({x}, f) = {x} \X (1..f[x])
  BY DEF Units
<1>3. f[x] \in Nat
  BY DEF Summable
<1>4. IsFiniteSet({x}) /\ Cardinality({x}) = 1
  BY FS_Singleton
<1>5. IsFiniteSet(1..f[x]) /\ Cardinality(1..f[x]) = f[x]
  <2>1. 1 \in Int /\ f[x] \in Int
    BY <1>3
  <2>2. /\ IsFiniteSet(1..f[x])
        /\ Cardinality(1..f[x]) = IF 1 > f[x] THEN 0 ELSE f[x] - 1 + 1
    BY <2>1, FS_Interval
  <2> QED
    BY <1>3, <2>2
<1>6. Cardinality({x} \X (1..f[x])) = Cardinality({x}) * Cardinality(1..f[x])
  BY <1>4, <1>5, FS_Product
<1>7. Cardinality(Units({x}, f)) = 1 * f[x]
  BY <1>2, <1>4, <1>5, <1>6
<1> QED
  BY <1>1, <1>3, <1>7 DEF Amount

\* A summand that grows or shrinks.
LEMMA MoreAmount ==
    ASSUME NEW S, NEW f, NEW g, NEW x \in S, NEW k \in Nat, Summable(S, f),
           g[x] = f[x] + k, \A y \in S \ {x} : g[y] = f[y]
    PROVE  Summable(S, g) /\ Amount(S, g) = Amount(S, f) + k
<1> DEFINE h == [y \in S |-> IF y = x THEN k ELSE 0]
<1>1. Summable(S, h) /\ h[x] = k /\ \A y \in S \ {x} : h[y] = 0
  BY DEF Summable
<1>2. \A y \in S : f[y] \in Nat
  BY DEF Summable
<1>3. \A y \in S : g[y] = f[y] + h[y]
  <2>1. \A y \in S \ {x} : f[y] + 0 = f[y]
    BY <1>2
  <2> QED
    BY <1>1, <2>1
<1> HIDE DEF h
<1>4. Amount(S, h) = k
  BY <1>1, OneAmount
<1> QED
  BY <1>1, <1>3, <1>4, AddedAmounts

\* Bounded summands.
LEMMA BoundedAmount ==
    ASSUME NEW S, NEW T \in SUBSET S, NEW f, NEW b \in Nat, Summable(S, f),
           \A x \in T : f[x] <= b, \A x \in S \ T : f[x] = 0
    PROVE  Amount(S, f) <= b * Cardinality(T)
<1>1. IsFiniteSet(T) /\ IsFiniteSet(1..b) /\ Cardinality(1..b) = b
  <2>1. IsFiniteSet(T)
    BY FS_Subset DEF Summable
  <2>2. 1 \in Int /\ b \in Int
    OBVIOUS
  <2>3. /\ IsFiniteSet(1..b)
        /\ Cardinality(1..b) = IF 1 > b THEN 0 ELSE b - 1 + 1
    BY <2>2, FS_Interval
  <2> QED
    BY <2>1, <2>3
<1>2. IsFiniteSet(T \X (1..b)) /\ Cardinality(T \X (1..b)) = Cardinality(T) * b
  BY <1>1, FS_Product
<1>3. Units(T, f) \in SUBSET (T \X (1..b))
  <2>1. ASSUME NEW x \in T, NEW k \in 1..f[x]
        PROVE  <<x, k>> \in T \X (1..b)
    <3>1. f[x] \in Nat /\ f[x] <= b
      BY DEF Summable
    <3> QED
      BY <3>1
  <2> QED
    BY <2>1, InUnits
<1>4. Cardinality(Units(T, f)) <= Cardinality(T) * b
  BY <1>2, <1>3, FS_Subset
<1>5. Amount(S, f) = Amount(T, f) /\ Cardinality(T) \in Nat
  BY <1>1, PartAmount, FS_CardinalityType
<1>6. Cardinality(T) * b = b * Cardinality(T)
  BY <1>5
<1> QED
  BY <1>4, <1>5, <1>6 DEF Amount

LEMMA TotalAmount == ASSUME NEW S, NEW f PROVE Pay!Total(S, f) = Amount(S, f)
BY DEF Pay!Total, Pay!Cardinality, Cardinality, Amount, Units

\* The values of the constants: callers belong to processes, and the limit lets something
\* through.
MoneySound ==
    /\ IsFiniteSet(Caller) /\ IsFiniteSet(Process) /\ Homes \subseteq [Caller -> Process]
    /\ Cap \in Nat \ {0} /\ MaxCost \in Nat /\ MaxDay \in Nat \ {0}

PayDays == 1..MaxDay
PayCall == [pc : {"idle", "try", "read", "post", "record"}, via : {"paid", "free", None},
            next : {"paid", "free", None}, on : {0} \cup PayDays, seen : Nat, cost : 0..MaxCost]

\* What the memories hold of a day, what calls are about to record, who may still post,
\* and what one process does not know of.
HeldOn(m, d) == Amount(Process, [p \in Process |-> m[p][d]])
InFlight(k) == Amount(Caller, [c \in Caller |-> k[c].cost])
TableSays(t, d) == IF useDb THEN t[d] ELSE 0
Ready(k, t) ==
    {c \in Caller : \/ k[c].pc = "post"
                    \/ k[c].pc = "read" /\ TableSays(t, k[c].on) + k[c].seen < Cap}
Unseen(m, u, d) == u[d] + IF Pay!Alone THEN 0 ELSE HeldOn(m, d)

PayTypes ==
    /\ today \in PayDays /\ home \in Homes /\ useDb \in BOOLEAN
    /\ table \in [PayDays -> Nat] /\ mem \in [Process -> [PayDays -> Nat]]
    /\ call \in [Caller -> PayCall]
    /\ charged \in [PayDays -> Nat] /\ unknown \in [PayDays -> Nat] /\ twice \in Nat

\* Costs are held while they are recorded only; days to come, tables of nobody and
\* memories of processes without callers are empty.
PayShape ==
    /\ \A c \in Caller : /\ call[c].pc = "read" => call[c].on \in PayDays
                         /\ call[c].pc # "record" => call[c].cost = 0
    /\ \A d \in PayDays :
         /\ d > today => charged[d] = 0
         /\ ~useDb => table[d] = 0
         /\ \A p \in Process : (\A c \in Caller : home[c] # p) => mem[p][d] = 0

\* What was charged today is in a counter, about to be, or unknown.
CountersKnow ==
    charged[today] <= table[today] + HeldOn(mem, today) + InFlight(call) + unknown[today]

\* Whoever may still post has his call's cost left.
Within ==
    /\ charged[today] + MaxCost * Cardinality(Ready(call, table))
         < Cap + MaxCost * Cardinality(Caller) + Unseen(mem, unknown, today)
    /\ \A d \in PayDays :
         charged[d] < Cap + MaxCost * Cardinality(Caller) + Unseen(mem, unknown, d)

Balance ==
    Amount(PayDays, table) + Amount(PayDays, [d \in PayDays |-> HeldOn(mem, d)])
      + InFlight(call) + Amount(PayDays, unknown)
    = Amount(PayDays, charged) + twice

PayInv == PayTypes /\ PayShape /\ CountersKnow /\ Within /\ Balance

\* The sums are of naturals.
LEMMA Sums ==
    ASSUME MoneySound
    PROVE  /\ \A f \in [PayDays -> Nat] : Summable(PayDays, f) /\ Amount(PayDays, f) \in Nat
           /\ \A m \in [Process -> [PayDays -> Nat]], d \in PayDays :
                Summable(Process, [p \in Process |-> m[p][d]]) /\ HeldOn(m, d) \in Nat
           /\ \A m \in [Process -> [PayDays -> Nat]] : [d \in PayDays |-> HeldOn(m, d)] \in [PayDays -> Nat]
           /\ \A k \in [Caller -> PayCall] :
                Summable(Caller, [c \in Caller |-> k[c].cost]) /\ InFlight(k) \in Nat
           /\ Cardinality(Caller) \in Nat
<1>1. IsFiniteSet(PayDays)
  <2>1. 1 \in Int /\ MaxDay \in Int
    BY DEF MoneySound
  <2> QED
    BY <2>1, FS_Interval DEF PayDays
<1>2. \A f \in [PayDays -> Nat] : Summable(PayDays, f)
  BY <1>1 DEF Summable
<1>3. \A m \in [Process -> [PayDays -> Nat]], d \in PayDays : Summable(Process, [p \in Process |-> m[p][d]])
  BY DEF Summable, MoneySound
<1>4. \A k \in [Caller -> PayCall] : Summable(Caller, [c \in Caller |-> k[c].cost])
  <2>1. \A r \in PayCall : r.cost \in Nat
    BY DEF PayCall, MoneySound
  <2> QED
    BY <2>1 DEF Summable, MoneySound
<1>5. \A m \in [Process -> [PayDays -> Nat]], d \in PayDays : HeldOn(m, d) \in Nat
  BY <1>3, FiniteAmount DEF HeldOn
<1>6. \A k \in [Caller -> PayCall] : InFlight(k) \in Nat
  BY <1>4, FiniteAmount DEF InFlight
<1>7. Cardinality(Caller) \in Nat
  BY FS_CardinalityType DEF MoneySound
<1> QED
  BY <1>2, <1>3, <1>4, <1>5, <1>6, <1>7, FiniteAmount

\* The products of the bound.
LEMMA Times ==
    ASSUME NEW m \in Nat, NEW a \in Nat, NEW b \in Nat
    PROVE  /\ m * a \in Nat /\ m * (a + b) = m * a + m * b
           /\ a <= b => m * a <= m * b
<1>1. m * a \in Nat /\ m * b \in Nat /\ m * (a + b) = m * a + m * b
  OBVIOUS
<1>2. ASSUME a <= b
      PROVE  m * a <= m * b
  <2>1. PICK k \in Nat : b = a + k
    <3>1. b - a \in Nat /\ b = a + (b - a)
      BY <1>2
    <3> QED
      BY <3>1
  <2>2. m * b = m * a + m * k /\ m * k \in Nat
    BY <2>1
  <2> QED
    BY <1>1, <2>2
<1> QED
  BY <1>1, <1>2

\* Fewer who may post.
LEMMA FewerReady ==
    ASSUME MoneySound, NEW R \in SUBSET Caller, NEW Q \in SUBSET R
    PROVE  /\ Cardinality(R) \in Nat /\ Cardinality(Q) \in Nat
           /\ Cardinality(Q) <= Cardinality(R)
           /\ MaxCost * Cardinality(Q) \in Nat
           /\ MaxCost * Cardinality(R) \in Nat
           /\ MaxCost * Cardinality(Q) <= MaxCost * Cardinality(R)
           /\ \A c \in R \ Q :
                MaxCost * Cardinality(Q) + MaxCost <= MaxCost * Cardinality(R)
<1>1. IsFiniteSet(Caller) /\ MaxCost \in Nat
  BY DEF MoneySound
<1>2. IsFiniteSet(R)
  BY <1>1, FS_Subset
<1>3. IsFiniteSet(Q) /\ Cardinality(Q) <= Cardinality(R)
  BY <1>2, FS_Subset
<1>4. Cardinality(R) \in Nat /\ Cardinality(Q) \in Nat
  BY <1>2, <1>3, FS_CardinalityType
<1>5. MaxCost * Cardinality(Q) \in Nat /\ MaxCost * Cardinality(R) \in Nat
      /\ MaxCost * Cardinality(Q) <= MaxCost * Cardinality(R)
  BY <1>1, <1>3, <1>4, Times
<1>6. ASSUME NEW c \in R \ Q
      PROVE  MaxCost * Cardinality(Q) + MaxCost <= MaxCost * Cardinality(R)
  <2>1. /\ IsFiniteSet(R \ {c}) /\ Cardinality(R \ {c}) = Cardinality(R) - 1
    BY <1>2, FS_RemoveElement
  <2>2. Cardinality(Q) <= Cardinality(R \ {c})
    <3>1. Q \in SUBSET (R \ {c})
      BY <1>6
    <3> QED
      BY <2>1, <3>1, FS_Subset
  <2>3. Cardinality(Q) + 1 <= Cardinality(R) /\ Cardinality(Q) + 1 \in Nat
    BY <1>4, <2>1, <2>2
  <2>4. MaxCost * (Cardinality(Q) + 1) <= MaxCost * Cardinality(R)
    BY <1>1, <1>4, <2>3, Times
  <2>5. MaxCost * (Cardinality(Q) + 1) = MaxCost * Cardinality(Q) + MaxCost * 1
    BY <1>1, <1>4, Times
  <2>6. MaxCost * 1 = MaxCost
    BY <1>1
  <2> QED
    BY <1>1, <1>5, <2>4, <2>5, <2>6
<1> QED
  BY <1>3, <1>4, <1>5, <1>6

\* A step of one call.
LEMMA CallMoves ==
    ASSUME PayTypes, PayShape, NEW c \in Caller, NEW r \in PayCall, call' = [call EXCEPT ![c] = r],
           r.pc = "read" => r.on \in PayDays, r.pc # "record" => r.cost = 0
    PROVE  /\ call' \in [Caller -> PayCall] /\ call'[c] = r
           /\ \A e \in Caller : e # c => call'[e] = call[e]
           /\ \A e \in Caller : /\ call'[e].pc = "read" => call'[e].on \in PayDays
                                /\ call'[e].pc # "record" => call'[e].cost = 0
BY DEF PayTypes, PayShape

LEMMA NobodyCalls ==
    ASSUME MoneySound
    PROVE  Pay!Idle \in PayCall /\ Pay!Idle.pc = "idle" /\ Pay!Idle.cost = 0
BY DEF MoneySound, Pay!Idle, PayCall

\* A call that costs nothing before nor after its step, and may post only if it might
\* before or the limit leaves room for it.
LEMMA CallOnly ==
    ASSUME MoneySound, PayInv, NEW c \in Caller, NEW r \in PayCall,
           call' = [call EXCEPT ![c] = r], r.cost = 0, call[c].cost = 0,
           r.pc = "read" => r.on \in PayDays, r.pc # "record",
           UNCHANGED <<today, home, useDb, table, mem, charged, unknown, twice>>,
           \/ r.pc \notin {"read", "post"} \/ c \notin Ready(call', table)
           \/ c \in Ready(call, table)
           \/ charged[today] < Cap + InFlight(call) + Unseen(mem, unknown, today)
    PROVE  PayInv'
<1>1. /\ PayTypes /\ PayShape /\ CountersKnow /\ Within /\ Balance
  BY DEF PayInv
<1>2. /\ call' \in [Caller -> PayCall] /\ call'[c] = r
      /\ \A e \in Caller : e # c => call'[e] = call[e]
      /\ \A e \in Caller : /\ call'[e].pc = "read" => call'[e].on \in PayDays
                           /\ call'[e].pc # "record" => call'[e].cost = 0
  BY <1>1, CallMoves
<1>3. PayTypes' /\ PayShape'
  BY <1>1, <1>2 DEF PayTypes, PayShape
<1>4. InFlight(call') = InFlight(call)
  <2>1. \A e \in Caller : call'[e].cost = call[e].cost
    BY <1>2
  <2>2. \A e \in Caller : [x \in Caller |-> call'[x].cost][e] = [x \in Caller |-> call[x].cost][e]
    BY <2>1
  <2> QED
    BY <2>2, SameAmount DEF InFlight
<1>5. CountersKnow' /\ Balance'
  <2>1. CountersKnow'
    BY <1>1, <1>4 DEF CountersKnow
  <2>2. Balance'
    BY <1>1, <1>4 DEF Balance
  <2> QED
    BY <2>1, <2>2
<1> DEFINE Q == Ready(call', table)
           R == Ready(call, table)
<1>6. Q \in SUBSET Caller /\ R \in SUBSET Caller
  BY DEF Ready
<1>7. \A e \in Q : e \in R \/ e = c
  BY <1>2 DEF Ready
<1>8. \A e \in Q : call'[e].cost = 0
  BY <1>2 DEF Ready
<1>9. charged[today] \in Nat /\ Unseen(mem, unknown, today) \in Nat /\ Cap \in Nat
  <2>1. charged[today] \in Nat /\ unknown[today] \in Nat /\ HeldOn(mem, today) \in Nat
    BY <1>1, Sums DEF PayTypes
  <2> QED
    BY <2>1 DEF Unseen, MoneySound
<1>10. c \in Q => r.pc \in {"read", "post"}
  BY <1>2 DEF Ready
<1> HIDE DEF Q, R
<1>11. charged[today] + MaxCost * Cardinality(Q)
         < Cap + MaxCost * Cardinality(Caller) + Unseen(mem, unknown, today)
  <2>1. CASE Q \subseteq R
    <3>1. /\ MaxCost * Cardinality(Q) \in Nat /\ MaxCost * Cardinality(R) \in Nat
          /\ MaxCost * Cardinality(Q) <= MaxCost * Cardinality(R)
      BY <1>6, <2>1, FewerReady
    <3>2. charged[today] + MaxCost * Cardinality(R)
            < Cap + MaxCost * Cardinality(Caller) + Unseen(mem, unknown, today)
      BY <1>1 DEF Within, R
    <3>3. MaxCost * Cardinality(Caller) \in Nat
      <4>1. Caller \in SUBSET Caller
        OBVIOUS
      <4> QED
        BY <4>1, FewerReady
    <3> QED
      BY <1>9, <3>1, <3>2, <3>3
  <2>2. CASE ~(Q \subseteq R)
    <3>1. charged[today] < Cap + InFlight(call') + Unseen(mem, unknown, today)
      BY <1>4, <1>7, <1>10, <2>2 DEF Q, R
    <3> DEFINE T == Caller \ Q
    <3>2. /\ IsFiniteSet(Caller) /\ Cardinality(T) = Cardinality(Caller) - Cardinality(Q)
          /\ T \in SUBSET Caller
      <4>1. IsFiniteSet(Caller) /\ Caller \cap Q = Q
        BY <1>6 DEF MoneySound
      <4> QED
        BY <4>1, FS_Difference
    <3>3. InFlight(call') <= MaxCost * Cardinality(T)
      <4>1. \A e \in T : [x \in Caller |-> call'[x].cost][e] <= MaxCost
        BY <1>2 DEF PayCall, MoneySound
      <4>2. \A e \in Caller \ T : [x \in Caller |-> call'[x].cost][e] = 0
        BY <1>8
      <4>3. Summable(Caller, [x \in Caller |-> call'[x].cost]) /\ MaxCost \in Nat
        BY <1>2, Sums DEF MoneySound
      <4> HIDE DEF T
      <4> QED
        BY <3>2, <4>1, <4>2, <4>3, BoundedAmount DEF InFlight
    <3> HIDE DEF T
    <3>4. /\ Cardinality(T) \in Nat /\ Cardinality(Q) \in Nat /\ Cardinality(Caller) \in Nat
      BY <1>6, <3>2, FS_Subset, FS_CardinalityType
    <3>5. MaxCost * Cardinality(T) + MaxCost * Cardinality(Q) = MaxCost * Cardinality(Caller)
      <4>1. MaxCost \in Nat /\ Cardinality(T) + Cardinality(Q) = Cardinality(Caller)
        BY <3>2, <3>4 DEF MoneySound
      <4> QED
        BY <3>4, <4>1, Times
    <3>6. /\ MaxCost * Cardinality(T) \in Nat /\ MaxCost * Cardinality(Q) \in Nat
          /\ InFlight(call') \in Nat
      BY <1>2, <1>6, <3>2, FewerReady, Sums
    <3> QED
      BY <1>9, <3>1, <3>3, <3>5, <3>6
  <2> QED
    BY <2>1, <2>2
<1>12. /\ UNCHANGED Pay!Alone
  BY DEF Pay!Alone
<1>13. Within'
  BY <1>1, <1>11, <1>12 DEF Within, Q, Ready, TableSays, Unseen
<1> QED
  BY <1>3, <1>5, <1>13 DEF PayInv

\* An attempt ends, with or without an answer.
LEMMA Ended ==
    ASSUME MoneySound, PayTypes, NEW c \in Caller,
           call' = Pay!Answered(c) \/ call' = Pay!NoAnswer(c)
    PROVE  \E r \in PayCall :
             r.cost = 0 /\ r.pc \in {"idle", "try"} /\ call' = [call EXCEPT ![c] = r]
<1>1. call[c].next \in {"paid", "free", None}
  BY DEF PayTypes, PayCall
<1>2. CASE call' = Pay!Answered(c)
  BY <1>2, NobodyCalls DEF Pay!Answered
<1>3. CASE call' = Pay!NoAnswer(c) /\ call[c].next # None
  <2>1. PICK via : via = call[c].next
    OBVIOUS
  <2> DEFINE r == [Pay!Idle EXCEPT !.pc = "try", !.via = via]
  <2>2. r \in PayCall /\ r.cost = 0 /\ r.pc = "try"
    BY <1>1, <2>1, NobodyCalls DEF PayCall, Pay!Idle
  <2>3. call' = [call EXCEPT ![c] = r]
    BY <1>3, <2>1 DEF Pay!NoAnswer
  <2> HIDE DEF r
  <2> QED
    BY <2>2, <2>3
<1>4. CASE call' = Pay!NoAnswer(c) /\ call[c].next = None
  BY <1>4, NobodyCalls DEF Pay!NoAnswer
<1> QED
  BY <1>2, <1>3, <1>4

\* The steps of a call before it has cost anything.
LEMMA Looks ==
    ASSUME MoneySound, PayInv, NEW c \in Caller,
           \/ \E via \in {"paid", "free"}, next \in {"paid", "free", None} : Pay!Begin(c, via, next)
           \/ Pay!TryFree(c) \/ Pay!Refused(c)
    PROVE  PayInv'
<1>1. /\ PayTypes /\ PayShape
      /\ UNCHANGED <<today, home, useDb, table, mem, charged, unknown, twice>>
      /\ call[c].pc \in {"idle", "try", "post"}
  BY DEF PayInv, Pay!Begin, Pay!TryFree, Pay!Refused, Pay!history
<1>2. call[c].cost = 0 /\ call[c].next \in {"paid", "free", None}
  BY <1>1 DEF PayTypes, PayShape, PayCall
<1>3. PICK r \in PayCall : r.cost = 0 /\ r.pc \in {"idle", "try"} /\ call' = [call EXCEPT ![c] = r]
  <2>1. ASSUME NEW via \in {"paid", "free"}, NEW next \in {"paid", "free", None}, Pay!Begin(c, via, next)
        PROVE  \E r \in PayCall :
                 r.cost = 0 /\ r.pc \in {"idle", "try"} /\ call' = [call EXCEPT ![c] = r]
    <3> DEFINE r == [Pay!Idle EXCEPT !.pc = "try", !.via = via, !.next = next]
    <3>1. r \in PayCall /\ r.cost = 0 /\ r.pc = "try"
      BY NobodyCalls DEF PayCall, Pay!Idle
    <3>2. call' = [call EXCEPT ![c] = r]
      BY <2>1 DEF Pay!Begin
    <3> HIDE DEF r
    <3> QED
      BY <3>1, <3>2
  <2>2. CASE Pay!TryFree(c) \/ Pay!Refused(c)
    BY <1>1, <2>2, Ended DEF Pay!TryFree, Pay!Refused
  <2> QED
    BY <2>1, <2>2
<1> QED
  BY <1>1, <1>2, <1>3, CallOnly

\* The date and the own memory are read.
LEMMA MemoryRead ==
    ASSUME MoneySound, PayInv, NEW c \in Caller, Pay!ReadMemory(c)
    PROVE  PayInv'
<1>1. /\ PayTypes /\ PayShape /\ CountersKnow
      /\ UNCHANGED <<today, home, useDb, table, mem, charged, unknown, twice>>
      /\ call[c].pc = "try"
  BY DEF PayInv, Pay!ReadMemory, Pay!history
<1>2. PICK k, seen : k = call[c] /\ seen = mem[home[c]][today]
  OBVIOUS
<1>3. k \in PayCall /\ k.cost = 0 /\ today \in PayDays /\ seen \in Nat /\ home[c] \in Process
  BY <1>1, <1>2 DEF PayTypes, PayShape, MoneySound
<1> DEFINE r == [k EXCEPT !.pc = "read", !.on = today, !.seen = seen]
<1>4. call' = [call EXCEPT ![c] = r]
  BY <1>2 DEF Pay!ReadMemory
<1>5. r \in PayCall /\ r.pc = "read" /\ r.cost = 0 /\ r.on = today /\ r.seen = seen
  BY <1>3 DEF PayCall
<1> HIDE DEF r
<1>6. /\ charged[today] \in Nat /\ table[today] \in Nat /\ unknown[today] \in Nat
      /\ HeldOn(mem, today) \in Nat /\ InFlight(call) \in Nat /\ Cap \in Nat
  BY <1>1, Sums DEF PayTypes, MoneySound
<1>7. TableSays(table, today) = table[today]
  BY <1>1 DEF TableSays, PayTypes, PayShape
<1>8. Pay!Alone => HeldOn(mem, today) = seen
  <2> SUFFICES ASSUME Pay!Alone
               PROVE  HeldOn(mem, today) = seen
    OBVIOUS
  <2> DEFINE f == [p \in Process |-> mem[p][today]]
  <2>1. \A p \in Process \ {home[c]} : f[p] = 0
    <3>1. \A p \in Process \ {home[c]} : \A e \in Caller : home[e] # p
      BY DEF Pay!Alone
    <3> QED
      BY <1>1, <1>3, <3>1 DEF PayShape
  <2>2. Summable(Process, f) /\ f[home[c]] = seen
    BY <1>1, <1>2, <1>3, Sums DEF PayTypes
  <2> HIDE DEF f
  <2>3. Amount(Process, f) = seen
    BY <1>3, <2>1, <2>2, OneAmount
  <2> QED
    BY <2>3 DEF HeldOn, f
<1>9. \/ TableSays(table, today) + seen >= Cap
      \/ charged[today] < Cap + InFlight(call) + Unseen(mem, unknown, today)
  <2>1. charged[today] <= table[today] + HeldOn(mem, today) + InFlight(call) + unknown[today]
    BY <1>1 DEF CountersKnow
  <2>2. CASE Pay!Alone
    BY <1>3, <1>6, <1>7, <1>8, <2>1, <2>2 DEF Unseen
  <2>3. CASE ~Pay!Alone
    BY <1>3, <1>6, <1>7, <2>1, <2>3 DEF Unseen
  <2> QED
    BY <2>2, <2>3
<1>10. CASE TableSays(table, today) + seen >= Cap
  <2>1. c \notin Ready(call', table)
    <3>1. call'[c] = r
      BY <1>1, <1>3, <1>4, <1>5, CallMoves
    <3>2. ~(TableSays(table, today) + seen < Cap)
      BY <1>3, <1>6, <1>7, <1>10
    <3> QED
      BY <1>5, <3>1, <3>2 DEF Ready
  <2> QED
    BY <1>1, <1>2, <1>3, <1>4, <1>5, <2>1, CallOnly
<1>11. CASE charged[today] < Cap + InFlight(call) + Unseen(mem, unknown, today)
  BY <1>1, <1>2, <1>3, <1>4, <1>5, <1>11, CallOnly
<1> QED
  BY <1>9, <1>10, <1>11

\* Whoever passes the limit might pass it when he read.
LEMMA CapChecked ==
    ASSUME MoneySound, PayInv, NEW c \in Caller, Pay!CheckCap(c)
    PROVE  PayInv'
<1>1. /\ PayTypes /\ PayShape
      /\ UNCHANGED <<today, home, useDb, table, mem, charged, unknown, twice>>
      /\ call[c].pc = "read"
  BY DEF PayInv, Pay!CheckCap, Pay!history
<1>2. call[c] \in PayCall /\ call[c].cost = 0
  BY <1>1 DEF PayTypes, PayShape
<1>3. CASE call' = Pay!Answered(c)
  <2>1. PICK r \in PayCall : r.cost = 0 /\ r.pc \in {"idle", "try"} /\ call' = [call EXCEPT ![c] = r]
    BY <1>1, <1>3, Ended
  <2> QED
    BY <1>1, <1>2, <2>1, CallOnly
<1>4. CASE Pay!SpentToday(c) < Cap /\ call' = [call EXCEPT ![c].pc = "post"]
  <2>1. c \in Ready(call, table)
    BY <1>1, <1>4 DEF Ready, TableSays, Pay!SpentToday
  <2>2. PICK k : k = call[c]
    OBVIOUS
  <2> DEFINE r == [k EXCEPT !.pc = "post"]
  <2>3. call' = [call EXCEPT ![c] = r]
    BY <1>4, <2>2
  <2>4. r \in PayCall /\ r.pc = "post" /\ r.cost = 0
    BY <1>2, <2>2 DEF PayCall
  <2> HIDE DEF r
  <2> QED
    BY <1>1, <1>2, <2>1, <2>3, <2>4, CallOnly
<1> QED
  BY <1>3, <1>4 DEF Pay!CheckCap

\* A new day.
LEMMA DayBegins == ASSUME MoneySound, PayInv, Pay!Midnight PROVE PayInv'
<1>1. /\ PayTypes /\ PayShape /\ CountersKnow /\ Within /\ Balance
      /\ UNCHANGED <<home, useDb, table, mem, call, charged, unknown, twice>>
      /\ today < MaxDay /\ today' = today + 1
  BY DEF PayInv, Pay!Midnight, Pay!history
<1>2. today \in PayDays /\ today' \in PayDays /\ today < today'
  BY <1>1 DEF PayTypes, PayDays, MoneySound
<1>3. PayTypes'
  BY <1>1, <1>2 DEF PayTypes
<1>4. charged[today'] = 0
  BY <1>1, <1>2 DEF PayShape
<1>5. PayShape'
  <2>1. \A d \in PayDays : d > today' => d > today
    BY <1>1, <1>2 DEF PayDays
  <2> QED
    BY <1>1, <2>1 DEF PayShape
<1>6. /\ table[today'] \in Nat /\ unknown[today'] \in Nat /\ HeldOn(mem, today') \in Nat
      /\ InFlight(call) \in Nat
  BY <1>1, <1>2, Sums DEF PayTypes
<1>7. CountersKnow'
  <2>1. 0 <= table[today'] + HeldOn(mem, today') + InFlight(call) + unknown[today']
    BY <1>6
  <2> QED
    BY <1>1, <1>4, <2>1 DEF CountersKnow
<1>8. Balance'
  BY <1>1 DEF Balance
<1>9. Within'
  <2> DEFINE R == Ready(call, table)
  <2>1. R \in SUBSET Caller /\ Caller \in SUBSET Caller
    BY DEF Ready
  <2>2. /\ MaxCost * Cardinality(R) \in Nat /\ MaxCost * Cardinality(Caller) \in Nat
        /\ MaxCost * Cardinality(R) <= MaxCost * Cardinality(Caller)
    <3> HIDE DEF R
    <3> QED
      BY <2>1, FewerReady
  <2>3. Unseen(mem, unknown, today') \in Nat /\ Cap \in Nat \ {0}
    BY <1>6 DEF Unseen, MoneySound
  <2> HIDE DEF R
  <2>4. 0 + MaxCost * Cardinality(R) < Cap + MaxCost * Cardinality(Caller) + Unseen(mem, unknown, today')
    BY <2>2, <2>3
  <2>5. UNCHANGED Pay!Alone
    BY <1>1 DEF Pay!Alone
  <2> QED
    BY <1>1, <1>4, <2>4, <2>5 DEF Within, R, Ready, TableSays, Unseen
<1> QED
  BY <1>3, <1>5, <1>7, <1>8, <1>9 DEF PayInv

\* The cost of one call changes.
LEMMA CostChanges ==
    ASSUME MoneySound, PayTypes, NEW c \in Caller, call' \in [Caller -> PayCall],
           \A e \in Caller : e # c => call'[e] = call[e]
    PROVE  InFlight(call') + call[c].cost = InFlight(call) + call'[c].cost
<1> DEFINE f == [x \in Caller |-> call[x].cost]
           g == [x \in Caller |-> call'[x].cost]
           z == [x \in Caller |-> IF x = c THEN 0 ELSE f[x]]
<1>1. /\ call \in [Caller -> PayCall] /\ Summable(Caller, f) /\ Summable(Caller, g)
      /\ \A x \in Caller : f[x] \in Nat /\ g[x] \in Nat
  <2>1. call \in [Caller -> PayCall]
    BY DEF PayTypes
  <2>2. Summable(Caller, f) /\ Summable(Caller, g)
    BY <2>1, Sums
  <2> QED
    BY <2>1, <2>2 DEF Summable
<1>2. Summable(Caller, z) /\ z[c] = 0 /\ \A x \in Caller \ {c} : z[x] = f[x] /\ z[x] = g[x]
  BY <1>1 DEF Summable
<1>3. f[c] = call[c].cost /\ g[c] = call'[c].cost
  OBVIOUS
<1> HIDE DEF f, g, z
<1>4. f[c] = z[c] + f[c] /\ g[c] = z[c] + g[c] /\ f[c] \in Nat /\ g[c] \in Nat
  BY <1>1, <1>2
<1>5. Amount(Caller, f) = Amount(Caller, z) + f[c]
  <2>1. f[c] \in Nat /\ f[c] = z[c] + f[c] /\ \A y \in Caller \ {c} : f[y] = z[y]
    BY <1>2, <1>4
  <2>2. Summable(Caller, z) /\ c \in Caller
    BY <1>2
  <2> QED
    BY ONLY <2>1, <2>2, MoreAmount
<1>6. Amount(Caller, g) = Amount(Caller, z) + g[c]
  BY <1>2, <1>4, MoreAmount
<1>7. Amount(Caller, z) \in Nat
  BY <1>2, FiniteAmount
<1> QED
  BY <1>3, <1>4, <1>5, <1>6, <1>7 DEF InFlight, f, g

\* A request: its cost is about to be recorded, or unknown.
LEMMA Posted ==
    ASSUME MoneySound, PayInv, NEW c \in Caller, NEW k \in 0..MaxCost, Pay!Post(c, k)
    PROVE  PayInv'
<1>1. /\ PayTypes /\ PayShape /\ CountersKnow /\ Within /\ Balance
      /\ UNCHANGED <<today, home, useDb, table, mem, twice>>
      /\ call[c].pc = "post"
      /\ charged' = [charged EXCEPT ![today] = @ + k]
  BY DEF PayInv, Pay!Post
<1>2. call[c] \in PayCall /\ call[c].cost = 0 /\ today \in PayDays /\ k \in Nat
  BY <1>1 DEF PayTypes, PayShape, MoneySound
<1>3. PICK r \in PayCall, j \in Nat :
        /\ call' = [call EXCEPT ![c] = r]
        /\ r.pc \in {"idle", "try", "record"} /\ (r.pc # "record" => r.cost = 0)
        /\ unknown' = [unknown EXCEPT ![today] = @ + j]
        /\ r.cost + j = k
  <2>1. ASSUME NEW q, q \in {0, k}, call' = [call EXCEPT ![c].pc = "record", ![c].cost = q]
        PROVE  \E r \in PayCall : call' = [call EXCEPT ![c] = r] /\ r.pc = "record" /\ r.cost = q
    <3>1. PICK b : b = call[c]
      OBVIOUS
    <3> DEFINE r == [b EXCEPT !.pc = "record", !.cost = q]
    <3>2. r \in PayCall /\ r.pc = "record" /\ r.cost = q
      BY <1>2, <2>1, <3>1 DEF PayCall, MoneySound
    <3>3. call' = [call EXCEPT ![c] = r]
      BY <2>1, <3>1
    <3> HIDE DEF r
    <3> QED
      BY <3>2, <3>3
  <2>2. \A d \in PayDays : unknown[d] \in Nat
    BY <1>1 DEF PayTypes
  <2>3. unknown = [unknown EXCEPT ![today] = @ + 0]
    BY <1>1, <1>2, <2>2 DEF PayTypes
  <2>4. CASE call' = [call EXCEPT ![c].pc = "record", ![c].cost = k] /\ UNCHANGED unknown
    <3>1. PICK r \in PayCall : call' = [call EXCEPT ![c] = r] /\ r.pc = "record" /\ r.cost = k
      BY <2>1, <2>4
    <3>2. r.cost + 0 = k
      BY <1>2, <3>1
    <3> QED
      BY <2>3, <2>4, <3>1, <3>2
  <2>5. CASE /\ call' = [call EXCEPT ![c].pc = "record", ![c].cost = 0]
             /\ unknown' = [unknown EXCEPT ![today] = @ + k]
    <3>1. PICK r \in PayCall : call' = [call EXCEPT ![c] = r] /\ r.pc = "record" /\ r.cost = 0
      BY <2>1, <2>5
    <3>2. r.cost + k = k
      BY <1>2, <3>1
    <3> QED
      BY <1>2, <2>5, <3>1, <3>2
  <2>6. CASE call' = Pay!NoAnswer(c) /\ unknown' = [unknown EXCEPT ![today] = @ + k]
    <3>1. PICK r \in PayCall : r.cost = 0 /\ r.pc \in {"idle", "try"} /\ call' = [call EXCEPT ![c] = r]
      BY <1>1, <2>6, Ended
    <3>2. r.cost + k = k
      BY <1>2, <3>1
    <3> QED
      BY <1>2, <2>6, <3>1, <3>2
  <2> QED
    BY <2>4, <2>5, <2>6 DEF Pay!Post
<1>4. /\ call' \in [Caller -> PayCall] /\ call'[c] = r
      /\ \A e \in Caller : e # c => call'[e] = call[e]
      /\ \A e \in Caller : /\ call'[e].pc = "read" => call'[e].on \in PayDays
                           /\ call'[e].pc # "record" => call'[e].cost = 0
  BY <1>1, <1>3, CallMoves
<1>5. /\ charged' \in [PayDays -> Nat] /\ charged'[today] = charged[today] + k
      /\ \A d \in PayDays \ {today} : charged'[d] = charged[d]
      /\ unknown' \in [PayDays -> Nat] /\ unknown'[today] = unknown[today] + j
      /\ \A d \in PayDays \ {today} : unknown'[d] = unknown[d]
  <2>1. charged[today] \in Nat /\ unknown[today] \in Nat
    BY <1>1, <1>2 DEF PayTypes
  <2>2. charged[today] + k \in Nat /\ unknown[today] + j \in Nat
    BY <1>2, <2>1
  <2> QED
    BY <1>1, <1>2, <1>3, <2>2 DEF PayTypes
<1>6. PayTypes'
  BY <1>1, <1>4, <1>5 DEF PayTypes
<1>7. PayShape'
  <2>1. \A d \in PayDays : d > today => d # today
    BY <1>2 DEF PayDays
  <2>2. \A d \in PayDays : d > today => charged'[d] = 0
    BY <1>1, <1>5, <2>1 DEF PayShape
  <2> QED
    BY <1>1, <1>4, <2>2 DEF PayShape
<1>8. /\ charged[today] \in Nat /\ table[today] \in Nat /\ unknown[today] \in Nat
      /\ HeldOn(mem, today) \in Nat /\ InFlight(call) \in Nat /\ InFlight(call') \in Nat
      /\ Cap \in Nat /\ r.cost \in Nat
  <2>1. r.cost \in Nat /\ Cap \in Nat
    BY <1>3 DEF PayCall, MoneySound
  <2>2. /\ HeldOn(mem, today) \in Nat /\ InFlight(call) \in Nat /\ InFlight(call') \in Nat
    BY <1>1, <1>2, <1>4, Sums DEF PayTypes
  <2> QED
    BY <1>1, <1>2, <2>1, <2>2 DEF PayTypes
<1>9. InFlight(call') = InFlight(call) + r.cost
  <2>1. InFlight(call') + 0 = InFlight(call) + r.cost
    BY <1>1, <1>2, <1>4, CostChanges
  <2> QED
    BY <1>8, <2>1
<1>10. CountersKnow'
  <2>1. charged[today] <= table[today] + HeldOn(mem, today) + InFlight(call) + unknown[today]
    BY <1>1 DEF CountersKnow
  <2>2. charged[today] + k
          <= table[today] + HeldOn(mem, today) + InFlight(call') + (unknown[today] + j)
    BY <1>2, <1>3, <1>8, <1>9, <2>1
  <2> QED
    BY <1>1, <1>5, <2>2 DEF CountersKnow
<1>11. Balance'
  <2>1. Amount(PayDays, charged') = Amount(PayDays, charged) + k
    <3>1. Summable(PayDays, charged)
      BY <1>1, Sums DEF PayTypes
    <3> QED
      BY <1>2, <1>5, <3>1, MoreAmount
  <2>2. Amount(PayDays, unknown') = Amount(PayDays, unknown) + j
    <3>1. Summable(PayDays, unknown)
      BY <1>1, Sums DEF PayTypes
    <3> QED
      <4>1. /\ today \in PayDays /\ j \in Nat /\ unknown'[today] = unknown[today] + j
            /\ \A d \in PayDays \ {today} : unknown'[d] = unknown[d]
        BY <1>2, <1>5
      <4>2. PICK f, g : f = unknown /\ g = unknown'
        OBVIOUS
      <4>3. Summable(PayDays, f)
        BY <3>1, <4>2
      <4>4. PICK x \in PayDays, m \in Nat : x = today /\ m = j
        BY <4>1
      <4>5. g[x] = f[x] + m /\ \A d \in PayDays \ {x} : g[d] = f[d]
        BY <4>1, <4>2, <4>4
      <4>6. Amount(PayDays, g) = Amount(PayDays, f) + m
        BY ONLY <4>3, <4>5, MoreAmount
      <4> QED
        BY <4>2, <4>4, <4>6
  <2> DEFINE a == Amount(PayDays, table)
             b == Amount(PayDays, [d \in PayDays |-> HeldOn(mem, d)])
             u == Amount(PayDays, unknown)
             v == Amount(PayDays, charged)
  <2>3. a \in Nat /\ b \in Nat /\ u \in Nat /\ v \in Nat /\ twice \in Nat
    BY <1>1, Sums DEF PayTypes
  <2>4. a + b + InFlight(call) + u = v + twice
    BY <1>1 DEF Balance
  <2>5. Amount(PayDays, unknown') = u + j /\ Amount(PayDays, charged') = v + k
    BY <2>1, <2>2
  <2> HIDE DEF a, b, u, v
  <2>6. a + b + InFlight(call') + (u + j) = (v + k) + twice
    BY <1>2, <1>3, <1>8, <1>9, <2>3, <2>4
  <2> QED
    BY <1>1, <2>5, <2>6 DEF Balance, a, b
<1>12. Within'
  <2> DEFINE R == Ready(call, table)
             Q == Ready(call', table)
  <2>1. R \in SUBSET Caller /\ Q \in SUBSET R /\ c \in R \ Q
    BY <1>1, <1>3, <1>4 DEF Ready
  <2>2. MaxCost * Cardinality(Q) \in Nat /\ MaxCost * Cardinality(R) \in Nat
        /\ MaxCost * Cardinality(Q) + MaxCost <= MaxCost * Cardinality(R)
    <3> HIDE DEF Q, R
    <3> QED
      BY <2>1, FewerReady
  <2>3. MaxCost * Cardinality(Caller) \in Nat
    <3>1. Caller \in SUBSET Caller
      OBVIOUS
    <3> QED
      BY <3>1, FewerReady
  <2>4. charged[today] + MaxCost * Cardinality(R)
          < Cap + MaxCost * Cardinality(Caller) + Unseen(mem, unknown, today)
    BY <1>1 DEF Within
  <2> HIDE DEF Q, R
  <2>5. UNCHANGED Pay!Alone
    BY <1>1 DEF Pay!Alone
  <2>6. /\ Unseen(mem, unknown', today) = Unseen(mem, unknown, today) + j
        /\ Unseen(mem, unknown, today) \in Nat
    BY <1>3, <1>5, <1>8 DEF Unseen
  <2>7. charged'[today] + MaxCost * Cardinality(Q)
          < Cap + MaxCost * Cardinality(Caller) + Unseen(mem, unknown', today)
    <3>1. k <= MaxCost /\ MaxCost \in Nat
      BY DEF MoneySound
    <3> QED
      BY <1>2, <1>3, <1>5, <1>8, <2>2, <2>3, <2>4, <2>6, <3>1
  <2>8. \A d \in PayDays \ {today} :
          charged'[d] < Cap + MaxCost * Cardinality(Caller) + Unseen(mem, unknown', d)
    BY <1>1, <1>5 DEF Within, Unseen
  <2>9. charged'[today] < Cap + MaxCost * Cardinality(Caller) + Unseen(mem, unknown', today)
    <3>1. charged'[today] \in Nat /\ Unseen(mem, unknown', today) \in Nat
      BY <1>2, <1>3, <1>5, <1>8, <2>6
    <3> QED
      BY <1>8, <2>2, <2>3, <2>7, <3>1
  <2> QED
    BY <1>1, <2>5, <2>7, <2>8, <2>9 DEF Within, Q, Ready, TableSays, Unseen
<1> QED
  BY <1>6, <1>7, <1>10, <1>11, <1>12 DEF PayInv

\* The usage is recorded: in the table, in the memory, or in both.
LEMMA UsageRecorded ==
    ASSUME MoneySound, PayInv, NEW c \in Caller, Pay!Record(c)
    PROVE  PayInv'
<1>1. /\ PayTypes /\ PayShape /\ CountersKnow /\ Within /\ Balance
      /\ UNCHANGED <<today, home, useDb, charged, unknown>>
      /\ call[c].pc = "record"
  BY DEF PayInv, Pay!Record
<1>2. PICK k, p : k = call[c].cost /\ p = home[c]
  OBVIOUS
<1>3. k \in 0..MaxCost /\ k \in Nat /\ p \in Process /\ today \in PayDays
  BY <1>1, <1>2 DEF PayTypes, PayCall, MoneySound
<1>4. PICK r \in PayCall : r.cost = 0 /\ r.pc \in {"idle", "try"} /\ call' = [call EXCEPT ![c] = r]
  BY <1>1, Ended DEF Pay!Record
<1>5. /\ call' \in [Caller -> PayCall] /\ call'[c] = r
      /\ \A e \in Caller : e # c => call'[e] = call[e]
      /\ \A e \in Caller : /\ call'[e].pc = "read" => call'[e].on \in PayDays
                           /\ call'[e].pc # "record" => call'[e].cost = 0
  BY <1>1, <1>4, CallMoves
<1>6. PICK i \in Nat, j \in Nat, t \in Nat :
        /\ i + j = k + t /\ twice' = twice + t
        /\ table' = [table EXCEPT ![today] = table[today] + i]
        /\ mem' = [mem EXCEPT ![p] = [mem[p] EXCEPT ![today] = mem[p][today] + j]]
        /\ i = 0 \/ useDb
  <2>1. table[today] \in Nat /\ mem[p][today] \in Nat /\ twice \in Nat /\ mem[p] \in [PayDays -> Nat]
    BY <1>1, <1>3 DEF PayTypes
  <2>2. table = [table EXCEPT ![today] = table[today] + 0]
    BY <1>1, <2>1 DEF PayTypes
  <2>3. mem = [mem EXCEPT ![p] = [mem[p] EXCEPT ![today] = mem[p][today] + 0]]
    <3>1. mem[p] = [mem[p] EXCEPT ![today] = mem[p][today] + 0]
      BY <2>1
    <3> QED
      BY <1>1, <3>1 DEF PayTypes
  <2>4. CASE useDb /\ Pay!InTable(c) /\ UNCHANGED <<mem, twice>>
    <3>1. k + 0 = k + 0 /\ 0 \in Nat /\ twice' = twice + 0
      BY <1>3, <2>1, <2>4
    <3> QED
      BY <1>2, <1>3, <2>3, <2>4, <3>1 DEF Pay!InTable
  <2>5. CASE Pay!InMemory(c) /\ UNCHANGED <<table, twice>>
    <3>1. 0 + k = k + 0 /\ 0 \in Nat /\ twice' = twice + 0
      BY <1>3, <2>1, <2>5
    <3> QED
      BY <1>2, <1>3, <2>2, <2>5, <3>1 DEF Pay!InMemory
  <2>6. CASE useDb /\ Pay!InTable(c) /\ Pay!InMemory(c) /\ twice' = twice + call[c].cost
    BY <1>2, <1>3, <2>6 DEF Pay!InTable, Pay!InMemory
  <2> QED
    BY <2>4, <2>5, <2>6 DEF Pay!Record, Pay!RecordUsage
<1>7. /\ table' \in [PayDays -> Nat] /\ table'[today] = table[today] + i
      /\ \A d \in PayDays \ {today} : table'[d] = table[d]
  <2>1. table[today] + i \in Nat
    BY <1>1, <1>3 DEF PayTypes
  <2> QED
    BY <1>1, <1>3, <1>6, <2>1 DEF PayTypes
<1>8. /\ mem' \in [Process -> [PayDays -> Nat]] /\ mem'[p][today] = mem[p][today] + j
      /\ \A d \in PayDays \ {today} : mem'[p][d] = mem[p][d]
      /\ \A q \in Process \ {p} : mem'[q] = mem[q]
  <2>1. PICK own : own = [mem[p] EXCEPT ![today] = mem[p][today] + j]
    OBVIOUS
  <2>2. mem[p] \in [PayDays -> Nat] /\ mem[p][today] + j \in Nat
    BY <1>1, <1>3 DEF PayTypes
  <2>3. /\ own \in [PayDays -> Nat] /\ own[today] = mem[p][today] + j
        /\ \A d \in PayDays \ {today} : own[d] = mem[p][d]
    BY <1>3, <2>1, <2>2
  <2>4. mem' = [mem EXCEPT ![p] = own] /\ mem \in [Process -> [PayDays -> Nat]]
    BY <1>1, <1>6, <2>1 DEF PayTypes
  <2> QED
    BY <1>3, <2>3, <2>4
<1>9. PayTypes'
  <2>1. twice' \in Nat
    BY <1>1, <1>6 DEF PayTypes
  <2> QED
    BY <1>1, <1>5, <1>7, <1>8, <2>1 DEF PayTypes
<1>10. PayShape'
  <2>1. \A d \in PayDays : ~useDb => table'[d] = 0
    <3> SUFFICES ASSUME NEW d \in PayDays, ~useDb
                 PROVE  table'[d] = 0
      OBVIOUS
    <3>1. table[d] = 0 /\ table[today] = 0 /\ i = 0
      BY <1>1, <1>3, <1>6 DEF PayShape
    <3> QED
      BY <1>7, <3>1
  <2>2. \A q \in Process, d \in PayDays : (\A e \in Caller : home[e] # q) => mem'[q][d] = 0
    BY <1>1, <1>2, <1>8 DEF PayShape
  <2> QED
    BY <1>1, <1>5, <2>1, <2>2 DEF PayShape
<1>11. /\ HeldOn(mem', today) = HeldOn(mem, today) + j
       /\ \A d \in PayDays \ {today} : HeldOn(mem', d) = HeldOn(mem, d)
  <2>1. ASSUME NEW d \in PayDays \ {today}
        PROVE  HeldOn(mem', d) = HeldOn(mem, d)
    <3>1. \A q \in Process : [x \in Process |-> mem'[x][d]][q] = [x \in Process |-> mem[x][d]][q]
      BY <1>8
    <3> QED
      BY <3>1, SameAmount DEF HeldOn
  <2>2. HeldOn(mem', today) = HeldOn(mem, today) + j
    <3> DEFINE f == [x \in Process |-> mem[x][today]]
               g == [x \in Process |-> mem'[x][today]]
    <3>1. Summable(Process, f)
      BY <1>1, <1>3, Sums DEF PayTypes
    <3>2. j \in Nat /\ g[p] = f[p] + j /\ \A q \in Process \ {p} : g[q] = f[q]
      BY <1>3, <1>8
    <3> HIDE DEF f, g
    <3>3. Amount(Process, g) = Amount(Process, f) + j
      BY ONLY <1>3, <3>1, <3>2, MoreAmount
    <3> QED
      BY <3>3 DEF HeldOn, f, g
  <2> QED
    BY <2>1, <2>2
<1>12. /\ charged[today] \in Nat /\ table[today] \in Nat /\ unknown[today] \in Nat
       /\ HeldOn(mem, today) \in Nat /\ InFlight(call) \in Nat /\ InFlight(call') \in Nat
       /\ Cap \in Nat
  <2>1. /\ HeldOn(mem, today) \in Nat /\ InFlight(call) \in Nat /\ InFlight(call') \in Nat
    BY <1>1, <1>3, <1>5, Sums DEF PayTypes
  <2> QED
    BY <1>1, <1>3, <2>1 DEF PayTypes, MoneySound
<1>13. InFlight(call') + k = InFlight(call)
  <2>1. InFlight(call') + k = InFlight(call) + 0
    BY <1>1, <1>2, <1>4, <1>5, CostChanges
  <2> QED
    BY <1>12, <2>1
<1>14. CountersKnow'
  <2>1. charged[today] <= table[today] + HeldOn(mem, today) + InFlight(call) + unknown[today]
    BY <1>1 DEF CountersKnow
  <2>2. charged[today]
          <= (table[today] + i) + (HeldOn(mem, today) + j) + InFlight(call') + unknown[today]
    BY <1>3, <1>6, <1>12, <1>13, <2>1
  <2> QED
    BY <1>1, <1>7, <1>11, <2>2 DEF CountersKnow
<1>15. Balance'
  <2> DEFINE f == [d \in PayDays |-> HeldOn(mem, d)]
             g == [d \in PayDays |-> HeldOn(mem', d)]
             a == Amount(PayDays, table)
             b == Amount(PayDays, f)
             u == Amount(PayDays, unknown)
             v == Amount(PayDays, charged)
  <2>1. Summable(PayDays, table) /\ Summable(PayDays, f)
    BY <1>1, Sums DEF PayTypes
  <2>2. Amount(PayDays, table') = a + i
    BY <1>3, <1>7, <2>1, MoreAmount
  <2>3. Amount(PayDays, g) = b + j
    <3>1. today \in PayDays /\ j \in Nat /\ g[today] = f[today] + j /\ \A d \in PayDays \ {today} : g[d] = f[d]
      BY <1>3, <1>11
    <3> HIDE DEF f, g
    <3>2. PICK x \in PayDays, m \in Nat : x = today /\ m = j
      BY <3>1
    <3>3. PICK then, now : then = f /\ now = g
      OBVIOUS
    <3>4. Summable(PayDays, then)
      BY <2>1, <3>3
    <3>5. now[x] = then[x] + m /\ \A d \in PayDays \ {x} : now[d] = then[d]
      BY <3>1, <3>2, <3>3
    <3>6. Amount(PayDays, now) = Amount(PayDays, then) + m
      BY ONLY <3>4, <3>5, MoreAmount
    <3> QED
      BY <3>2, <3>3, <3>6 DEF b
  <2>4. a \in Nat /\ b \in Nat /\ u \in Nat /\ v \in Nat /\ twice \in Nat
    BY <1>1, Sums DEF PayTypes
  <2>5. a + b + InFlight(call) + u = v + twice
    BY <1>1 DEF Balance
  <2> HIDE DEF a, b, u, v
  <2>6. (a + i) + (b + j) + InFlight(call') + u = v + (twice + t)
    BY <1>3, <1>6, <1>12, <1>13, <2>4, <2>5
  <2> QED
    BY <1>1, <1>6, <2>2, <2>3, <2>6 DEF Balance, u, v
<1>16. Within'
  <2> DEFINE R == Ready(call, table)
             Q == Ready(call', table')
  <2>1. R \in SUBSET Caller /\ Q \in SUBSET R
    <3>1. ASSUME NEW e \in Q
          PROVE  e \in R
      <4>1. e # c /\ call'[e] = call[e]
        BY <1>4, <1>5, <3>1 DEF Ready
      <4>2. CASE call[e].pc = "post"
        BY <4>2 DEF Ready
      <4>3. CASE call[e].pc = "read" /\ TableSays(table', call[e].on) + call[e].seen < Cap
        <5>1. call[e].on \in PayDays /\ call[e].seen \in Nat
          <6>1. e \in Caller /\ call[e] \in PayCall
            BY <1>1, <3>1 DEF PayTypes, Ready
          <6> QED
            BY <1>1, <4>3, <6>1 DEF PayShape, PayCall
        <5>2. /\ TableSays(table, call[e].on) \in Nat /\ TableSays(table', call[e].on) \in Nat
              /\ TableSays(table, call[e].on) <= TableSays(table', call[e].on)
          <6>1. /\ table[call[e].on] \in Nat /\ table'[call[e].on] \in Nat
                /\ table[call[e].on] <= table'[call[e].on]
            <7>1. CASE call[e].on = today
              BY <1>1, <1>3, <1>7, <7>1 DEF PayTypes
            <7>2. CASE call[e].on # today
              BY <1>1, <1>7, <5>1, <7>2 DEF PayTypes
            <7> QED
              BY <7>1, <7>2
          <6> QED
            BY <1>1, <6>1 DEF TableSays
        <5>3. TableSays(table, call[e].on) + call[e].seen < Cap
          BY <1>12, <4>3, <5>1, <5>2
        <5> QED
          BY <4>3, <5>3 DEF Ready
      <4> QED
        BY <1>1, <3>1, <4>1, <4>2, <4>3 DEF Ready
    <3> QED
      BY <3>1 DEF Ready
  <2>2. MaxCost * Cardinality(Q) \in Nat /\ MaxCost * Cardinality(R) \in Nat
        /\ MaxCost * Cardinality(Q) <= MaxCost * Cardinality(R)
    <3> HIDE DEF Q, R
    <3> QED
      BY <2>1, FewerReady
  <2>3. MaxCost * Cardinality(Caller) \in Nat
    <3>1. Caller \in SUBSET Caller
      OBVIOUS
    <3> QED
      BY <3>1, FewerReady
  <2>4. charged[today] + MaxCost * Cardinality(R)
          < Cap + MaxCost * Cardinality(Caller) + Unseen(mem, unknown, today)
    BY <1>1 DEF Within
  <2> HIDE DEF Q, R
  <2>5. UNCHANGED Pay!Alone
    BY <1>1 DEF Pay!Alone
  <2>6. /\ Unseen(mem, unknown, today) \in Nat /\ Unseen(mem', unknown, today) \in Nat
        /\ Unseen(mem, unknown, today) <= Unseen(mem', unknown, today)
    BY <1>6, <1>11, <1>12 DEF Unseen
  <2>7. charged[today] + MaxCost * Cardinality(Q)
          < Cap + MaxCost * Cardinality(Caller) + Unseen(mem', unknown, today)
    BY <1>12, <2>2, <2>3, <2>4, <2>6
  <2>8. \A d \in PayDays \ {today} :
          charged[d] < Cap + MaxCost * Cardinality(Caller) + Unseen(mem', unknown, d)
    BY <1>1, <1>11 DEF Within, Unseen
  <2>9. charged[today] < Cap + MaxCost * Cardinality(Caller) + Unseen(mem', unknown, today)
    BY <1>12, <2>2, <2>3, <2>6, <2>7
  <2> QED
    BY <1>1, <2>5, <2>7, <2>8, <2>9 DEF Within, Q, Ready, TableSays, Unseen
<1> QED
  BY <1>9, <1>10, <1>14, <1>15, <1>16 DEF PayInv

\* What a process takes with it is no longer held.
LEMMA MemoryGone ==
    ASSUME MoneySound, NEW p \in Process, NEW m \in [Process -> [PayDays -> Nat]],
           NEW n \in [Process -> [PayDays -> Nat]], n = [m EXCEPT ![p] = [d \in PayDays |-> 0]]
    PROVE  \A d \in PayDays : HeldOn(m, d) = HeldOn(n, d) + m[p][d]
<1> SUFFICES ASSUME NEW d \in PayDays
             PROVE  HeldOn(m, d) = HeldOn(n, d) + m[p][d]
  OBVIOUS
<1> DEFINE f == [q \in Process |-> m[q][d]]
           g == [q \in Process |-> n[q][d]]
<1>1. Summable(Process, f) /\ Summable(Process, g)
  BY Sums
<1>2. g[p] = 0 /\ \A q \in Process \ {p} : f[q] = g[q]
  OBVIOUS
<1>3. f[p] = m[p][d] /\ f[p] \in Nat
  OBVIOUS
<1> HIDE DEF f, g
<1>4. f[p] = g[p] + f[p]
  BY <1>2, <1>3
<1>5. PICK k \in Nat : k = f[p]
  BY <1>3
<1>6. f[p] = g[p] + k
  BY <1>4, <1>5
<1>7. Amount(Process, f) = Amount(Process, g) + k
  BY ONLY <1>1, <1>2, <1>6, MoreAmount
<1> QED
  BY <1>3, <1>5, <1>7 DEF HeldOn, f, g

\* A process dies: what it held and was about to record is unknown from now on.
LEMMA ProcessDies == ASSUME MoneySound, PayInv, NEW p \in Process, Pay!Crash(p) PROVE PayInv'
<1> DEFINE T == {c \in Caller : home[c] = p}
           cost == [c \in Caller |-> call[c].cost]
           rest == [c \in Caller |-> call'[c].cost]
           gone == [c \in Caller |-> IF home[c] = p THEN call[c].cost ELSE 0]
           dead == [d \in PayDays |-> mem[p][d]]
           due == [d \in PayDays |-> IF d = today THEN Amount(T, cost) ELSE 0]
           lost == [d \in PayDays |-> dead[d] + due[d]]
<1>1. /\ PayTypes /\ PayShape /\ CountersKnow /\ Within /\ Balance
      /\ UNCHANGED <<today, home, useDb, table, charged, twice>>
      /\ mem' = [mem EXCEPT ![p] = [d \in PayDays |-> 0]]
      /\ call' = [c \in Caller |-> IF home[c] = p THEN Pay!Idle ELSE call[c]]
  BY DEF PayInv, Pay!Crash, Pay!Days, PayDays
<1>2. /\ today \in PayDays /\ mem \in [Process -> [PayDays -> Nat]]
      /\ mem' \in [Process -> [PayDays -> Nat]]
      /\ call \in [Caller -> PayCall] /\ call' \in [Caller -> PayCall]
  <2>1. mem' \in [Process -> [PayDays -> Nat]]
    BY <1>1 DEF PayTypes
  <2>2. call' \in [Caller -> PayCall]
    BY <1>1, NobodyCalls DEF PayTypes
  <2> QED
    BY <1>1, <2>1, <2>2 DEF PayTypes
<1>3. T \in SUBSET Caller /\ Summable(Caller, cost) /\ Summable(Caller, rest) /\ Summable(T, cost)
  <2>1. Summable(Caller, cost) /\ Summable(Caller, rest)
    BY <1>2, Sums
  <2>2. IsFiniteSet(T)
    BY FS_Subset DEF MoneySound
  <2> QED
    BY <2>1, <2>2 DEF Summable
<1>4. /\ InFlight(call) = InFlight(call') + Amount(T, cost) /\ Amount(T, cost) \in Nat
      /\ InFlight(call') \in Nat /\ InFlight(call) \in Nat
  <2>1. Summable(Caller, gone) /\ \A c \in Caller : cost[c] = rest[c] + gone[c]
    <3>1. \A c \in Caller : cost[c] \in Nat
      BY <1>3 DEF Summable
    <3>2. \A c \in Caller : rest[c] = IF home[c] = p THEN 0 ELSE cost[c]
      BY <1>1, NobodyCalls
    <3>3. \A c \in Caller : gone[c] = IF home[c] = p THEN cost[c] ELSE 0
      OBVIOUS
    <3> HIDE DEF cost, rest, gone
    <3> QED
      BY <1>3, <3>1, <3>2, <3>3 DEF Summable
  <2>2. /\ \A c \in T : gone[c] = cost[c]
        /\ \A c \in Caller \ T : gone[c] = 0
    OBVIOUS
  <2> HIDE DEF cost, rest, gone, T
  <2>3. Amount(Caller, cost) = Amount(Caller, rest) + Amount(Caller, gone)
    BY <1>3, <2>1, AddedAmounts
  <2>4. Amount(Caller, gone) = Amount(T, gone)
    BY <1>3, <2>2, PartAmount
  <2>5. Amount(T, gone) = Amount(T, cost)
    BY <2>2, SameAmount
  <2>6. Amount(T, cost) \in Nat
    BY <1>3, FiniteAmount
  <2>7. InFlight(call') \in Nat /\ InFlight(call) \in Nat
    BY <1>2, Sums
  <2> QED
    BY <2>3, <2>4, <2>5, <2>6, <2>7 DEF InFlight, cost, rest
<1>5. \A d \in PayDays : HeldOn(mem, d) = HeldOn(mem', d) + mem[p][d]
  BY <1>1, <1>2, MemoryGone
<1>6. /\ \A d \in PayDays : dead[d] = mem[p][d] /\ dead[d] \in Nat
      /\ dead \in [PayDays -> Nat]
  BY <1>2
<1>7. /\ due \in [PayDays -> Nat] /\ due[today] = Amount(T, cost)
      /\ \A d \in PayDays \ {today} : due[d] = 0
  <2> HIDE DEF T, cost
  <2> QED
    BY <1>2, <1>4
<1>8. /\ lost \in [PayDays -> Nat]
      /\ \A d \in PayDays : lost[d] = dead[d] + due[d] /\ lost[d] \in Nat
  <2>1. \A d \in PayDays : dead[d] \in Nat /\ due[d] \in Nat
    BY <1>6, <1>7
  <2> HIDE DEF dead, due
  <2>2. \A d \in PayDays : dead[d] + due[d] \in Nat
    BY <2>1
  <2> QED
    BY <2>2
<1>9. \A d \in PayDays : Pay!Lost(p, d) = lost[d]
  <2>1. Pay!Total(T, cost) = Amount(T, cost)
    BY TotalAmount
  <2> QED
    BY <2>1 DEF Pay!Lost, Pay!CostOf
<1>10. unknown' = [d \in PayDays |-> unknown[d] + lost[d]]
  BY <1>9 DEF Pay!Crash, Pay!Days, PayDays
<1> HIDE DEF cost, rest, gone, dead, due, lost
<1>11. /\ unknown \in [PayDays -> Nat] /\ unknown' \in [PayDays -> Nat]
       /\ \A d \in PayDays : unknown'[d] = unknown[d] + lost[d]
  <2>1. unknown \in [PayDays -> Nat]
    BY <1>1 DEF PayTypes
  <2>2. \A d \in PayDays : unknown[d] + lost[d] \in Nat
    BY <1>8, <2>1
  <2> QED
    BY <1>10, <2>1, <2>2
<1>12. PayTypes'
  BY <1>1, <1>2, <1>11 DEF PayTypes
<1>13. PayShape'
  <2>1. \A c \in Caller : /\ call'[c].pc = "read" => call'[c].on \in PayDays
                          /\ call'[c].pc # "record" => call'[c].cost = 0
    BY <1>1, NobodyCalls DEF PayShape
  <2>2. \A d \in PayDays : \A q \in Process : (\A c \in Caller : home[c] # q) => mem'[q][d] = 0
    BY <1>1, <1>2 DEF PayShape
  <2> QED
    BY <1>1, <2>1, <2>2 DEF PayShape
<1>14. \A d \in PayDays : /\ charged[d] \in Nat /\ table[d] \in Nat /\ unknown[d] \in Nat
                          /\ HeldOn(mem, d) \in Nat /\ HeldOn(mem', d) \in Nat
                          /\ dead[d] \in Nat /\ due[d] \in Nat
                          /\ unknown'[d] = unknown[d] + (dead[d] + due[d])
                          /\ HeldOn(mem, d) = HeldOn(mem', d) + dead[d]
  BY <1>1, <1>2, <1>5, <1>6, <1>7, <1>8, <1>11, Sums DEF PayTypes
<1>15. CountersKnow'
  <2>1. charged[today] <= table[today] + HeldOn(mem, today) + InFlight(call) + unknown[today]
    BY <1>1 DEF CountersKnow
  <2>2. charged[today] <= table[today] + HeldOn(mem', today) + InFlight(call') + unknown'[today]
    BY <1>2, <1>4, <1>7, <1>14, <2>1
  <2> QED
    BY <1>1, <2>2 DEF CountersKnow
<1>16. Balance'
  <2> DEFINE held == [d \in PayDays |-> HeldOn(mem, d)]
             kept == [d \in PayDays |-> HeldOn(mem', d)]
  <2>1. /\ Summable(PayDays, held) /\ Summable(PayDays, kept) /\ Summable(PayDays, dead)
        /\ Summable(PayDays, due) /\ Summable(PayDays, lost) /\ Summable(PayDays, unknown)
    <3>1. held \in [PayDays -> Nat] /\ kept \in [PayDays -> Nat]
      BY <1>2, Sums
    <3> QED
      BY <1>6, <1>7, <1>8, <1>11, <3>1, Sums
  <2>2. \A d \in PayDays : held[d] = kept[d] + dead[d]
    BY <1>14
  <2> HIDE DEF held, kept
  <2>3. Amount(PayDays, held) = Amount(PayDays, kept) + Amount(PayDays, dead)
    BY <2>1, <2>2, AddedAmounts
  <2>4. Amount(PayDays, lost) = Amount(PayDays, dead) + Amount(PayDays, due)
    BY <1>8, <2>1, AddedAmounts
  <2>5. Amount(PayDays, due) = due[today]
    BY <1>2, <1>7, <2>1, OneAmount
  <2>6. Amount(PayDays, unknown') = Amount(PayDays, unknown) + Amount(PayDays, lost)
    BY <1>11, <2>1, AddedAmounts
  <2>7. /\ Amount(PayDays, kept) \in Nat /\ Amount(PayDays, dead) \in Nat
        /\ Amount(PayDays, due) \in Nat /\ Amount(PayDays, unknown) \in Nat
    BY <2>1, FiniteAmount
  <2>8. Amount(PayDays, table) \in Nat /\ Amount(PayDays, charged) \in Nat /\ twice \in Nat
    BY <1>1, Sums DEF PayTypes
  <2>9. Amount(PayDays, table) + Amount(PayDays, held) + InFlight(call) + Amount(PayDays, unknown)
        = Amount(PayDays, charged) + twice
    BY <1>1 DEF Balance, held
  <2>10. Amount(PayDays, table) + Amount(PayDays, kept) + InFlight(call') + Amount(PayDays, unknown')
         = Amount(PayDays, charged) + twice
    BY <1>4, <1>7, <2>3, <2>4, <2>5, <2>6, <2>7, <2>8, <2>9
  <2> QED
    BY <1>1, <2>10 DEF Balance, kept
<1>17. Within'
  <2> DEFINE R == Ready(call, table)
             Q == Ready(call', table)
  <2>1. R \in SUBSET Caller /\ Q \in SUBSET R
    BY <1>1, NobodyCalls DEF Ready
  <2>2. /\ MaxCost * Cardinality(Q) \in Nat /\ MaxCost * Cardinality(R) \in Nat
        /\ MaxCost * Cardinality(Q) <= MaxCost * Cardinality(R)
    <3> HIDE DEF Q, R
    <3> QED
      BY <2>1, FewerReady
  <2>3. MaxCost * Cardinality(Caller) \in Nat /\ Cap \in Nat
    <3>1. Caller \in SUBSET Caller
      OBVIOUS
    <3> QED
      BY <3>1, FewerReady DEF MoneySound
  <2> HIDE DEF Q, R
  <2>4. UNCHANGED Pay!Alone
    BY <1>1 DEF Pay!Alone
  <2>5. \A d \in PayDays : /\ Unseen(mem, unknown, d) \in Nat /\ Unseen(mem', unknown', d) \in Nat
                           /\ Unseen(mem, unknown, d) <= Unseen(mem', unknown', d)
    <3> SUFFICES ASSUME NEW d \in PayDays
                 PROVE  /\ Unseen(mem, unknown, d) \in Nat /\ Unseen(mem', unknown', d) \in Nat
                        /\ Unseen(mem, unknown, d) <= Unseen(mem', unknown', d)
      OBVIOUS
    <3>1. CASE Pay!Alone
      BY <1>14, <3>1 DEF Unseen
    <3>2. CASE ~Pay!Alone
      BY <1>14, <3>2 DEF Unseen
    <3> QED
      BY <3>1, <3>2
  <2>6. charged[today] + MaxCost * Cardinality(Q)
          < Cap + MaxCost * Cardinality(Caller) + Unseen(mem', unknown', today)
    <3>1. charged[today] + MaxCost * Cardinality(R)
            < Cap + MaxCost * Cardinality(Caller) + Unseen(mem, unknown, today)
      BY <1>1 DEF Within, R
    <3> QED
      BY <1>2, <1>14, <2>2, <2>3, <2>5, <3>1
  <2>7. \A d \in PayDays :
          charged[d] < Cap + MaxCost * Cardinality(Caller) + Unseen(mem', unknown', d)
    <3> SUFFICES ASSUME NEW d \in PayDays
                 PROVE  charged[d] < Cap + MaxCost * Cardinality(Caller) + Unseen(mem', unknown', d)
      OBVIOUS
    <3>1. charged[d] < Cap + MaxCost * Cardinality(Caller) + Unseen(mem, unknown, d)
      BY <1>1 DEF Within
    <3> QED
      BY <1>14, <2>3, <2>5, <3>1
  <2> QED
    BY <1>1, <2>4, <2>6, <2>7 DEF Within, Q, Ready, TableSays, Unseen
<1> QED
  BY <1>12, <1>13, <1>15, <1>16, <1>17 DEF PayInv

\* Nothing is charged or counted in the beginning.
LEMMA PayStarts == ASSUME MoneySound, Pay!Init PROVE PayInv
<1>1. /\ today = 1 /\ home \in Homes /\ useDb \in BOOLEAN
      /\ table = [d \in PayDays |-> 0] /\ mem = [p \in Process |-> [d \in PayDays |-> 0]]
      /\ call = [c \in Caller |-> Pay!Idle]
      /\ charged = [d \in PayDays |-> 0] /\ unknown = [d \in PayDays |-> 0] /\ twice = 0
  BY DEF Pay!Init, Pay!Days, PayDays
<1>2. today \in PayDays
  BY <1>1 DEF PayDays, MoneySound
<1>3. PayTypes
  BY <1>1, <1>2, NobodyCalls DEF PayTypes
<1>4. PayShape
  BY <1>1, NobodyCalls DEF PayShape
<1>5. \A d \in PayDays : charged[d] = 0 /\ table[d] = 0 /\ unknown[d] = 0
  BY <1>1
<1>6. InFlight(call) = 0
  <2>1. \A c \in Caller : [x \in Caller |-> call[x].cost][c] = 0
    BY <1>1, NobodyCalls
  <2> QED
    BY <2>1, NoAmount DEF InFlight
<1>7. \A d \in PayDays : HeldOn(mem, d) = 0
  <2> SUFFICES ASSUME NEW d \in PayDays
               PROVE  HeldOn(mem, d) = 0
    OBVIOUS
  <2>1. \A p \in Process : [q \in Process |-> mem[q][d]][p] = 0
    BY <1>1
  <2> QED
    BY <2>1, NoAmount DEF HeldOn
<1>8. CountersKnow
  BY <1>2, <1>5, <1>6, <1>7 DEF CountersKnow
<1>9. Balance
  <2>1. Amount(PayDays, table) = 0 /\ Amount(PayDays, charged) = 0 /\ Amount(PayDays, unknown) = 0
    BY <1>5, NoAmount
  <2>2. Amount(PayDays, [d \in PayDays |-> HeldOn(mem, d)]) = 0
    <3>1. \A d \in PayDays : [e \in PayDays |-> HeldOn(mem, e)][d] = 0
      BY <1>7
    <3> QED
      BY <3>1, NoAmount
  <2> QED
    BY <1>1, <1>6, <2>1, <2>2 DEF Balance
<1>10. Within
  <2>1. \A d \in PayDays : Unseen(mem, unknown, d) = 0
    BY <1>5, <1>7 DEF Unseen
  <2>2. Ready(call, table) = {}
    BY <1>1, NobodyCalls DEF Ready
  <2>3. MaxCost * Cardinality(Ready(call, table)) = 0
    BY <2>2, FS_EmptySet DEF MoneySound
  <2>4. MaxCost * Cardinality(Caller) \in Nat
    <3>1. Caller \in SUBSET Caller
      OBVIOUS
    <3> QED
      BY <3>1, FewerReady
  <2>5. 0 + 0 < Cap + MaxCost * Cardinality(Caller) + 0
    BY <2>4 DEF MoneySound
  <2>6. 0 < Cap + MaxCost * Cardinality(Caller) + 0
    BY <2>5
  <2> QED
    BY <1>2, <1>5, <2>1, <2>3, <2>5, <2>6 DEF Within
<1> QED
  BY <1>3, <1>4, <1>8, <1>9, <1>10 DEF PayInv

LEMMA PaySteps == ASSUME MoneySound, PayInv, [Pay!Next]_(Pay!vars) PROVE PayInv'
<1>1. CASE UNCHANGED Pay!vars
  <2>1. UNCHANGED <<today, home, useDb, table, mem, call, charged, unknown, twice>>
    BY <1>1 DEF Pay!vars
  <2> QED
    BY <2>1 DEF PayInv, PayTypes, PayShape, CountersKnow, Within, Balance, HeldOn, InFlight, Ready,
                TableSays, Unseen, Pay!Alone
<1>2. CASE Pay!Midnight
  BY <1>2, DayBegins
<1>3. ASSUME NEW c \in Caller,
             \/ \E via \in {"paid", "free"}, next \in {"paid", "free", None} : Pay!Begin(c, via, next)
             \/ Pay!TryFree(c) \/ Pay!Refused(c)
      PROVE  PayInv'
  BY <1>3, Looks
<1>4. ASSUME NEW c \in Caller, Pay!ReadMemory(c)
      PROVE  PayInv'
  BY <1>4, MemoryRead
<1>5. ASSUME NEW c \in Caller, Pay!CheckCap(c)
      PROVE  PayInv'
  BY <1>5, CapChecked
<1>6. ASSUME NEW c \in Caller, Pay!Record(c)
      PROVE  PayInv'
  BY <1>6, UsageRecorded
<1>7. ASSUME NEW c \in Caller, NEW k \in Pay!Costs, Pay!Post(c, k)
      PROVE  PayInv'
  BY <1>7, Posted DEF Pay!Costs
<1>8. ASSUME NEW p \in Process, Pay!Crash(p)
      PROVE  PayInv'
  BY <1>8, ProcessDies
<1> QED
  BY <1>1, <1>2, <1>3, <1>4, <1>5, <1>6, <1>7, <1>8 DEF Pay!Next

\* What the invariant says of the property.
LEMMA PayGood == ASSUME MoneySound, PayInv PROVE Pay!TypeOK /\ Pay!SpendRight
<1>1. PayTypes /\ Within /\ Balance
  BY DEF PayInv
<1>2. Pay!TypeOK
  BY <1>1 DEF Pay!TypeOK, PayTypes, PayCall, Pay!Days, PayDays
<1>3. \A d \in PayDays : Pay!InMemories(d) = HeldOn(mem, d)
  BY TotalAmount DEF Pay!InMemories, HeldOn
<1>4. Pay!BudgetKept
  <2> SUFFICES ASSUME NEW d \in PayDays
               PROVE  charged[d] < Cap + Pay!Cardinality(Caller) * MaxCost + Pay!Untold(d)
    BY DEF Pay!BudgetKept, Pay!Days, PayDays
  <2>1. Pay!Cardinality(Caller) = Cardinality(Caller)
    BY DEF Pay!Cardinality, Cardinality
  <2>2. Cardinality(Caller) * MaxCost = MaxCost * Cardinality(Caller)
    <3>1. Cardinality(Caller) \in Nat /\ MaxCost \in Nat
      BY Sums DEF MoneySound
    <3> QED
      BY <3>1
  <2>3. Pay!Untold(d) = Unseen(mem, unknown, d)
    BY <1>3 DEF Pay!Untold, Unseen
  <2>4. charged[d] < Cap + MaxCost * Cardinality(Caller) + Unseen(mem, unknown, d)
    BY <1>1 DEF Within
  <2> QED
    BY <2>1, <2>2, <2>3, <2>4
<1>5. Pay!Accounted
  <2> DEFINE a == Amount(PayDays, table)
             b == Amount(PayDays, [d \in PayDays |-> HeldOn(mem, d)])
             u == Amount(PayDays, unknown)
             v == Amount(PayDays, charged)
  <2>1. /\ a \in Nat /\ b \in Nat /\ u \in Nat /\ v \in Nat /\ twice \in Nat
        /\ InFlight(call) \in Nat
    BY <1>1, Sums DEF PayTypes
  <2>2. a + b + InFlight(call) + u = v + twice
    BY <1>1 DEF Balance
  <2>3. Pay!Total(PayDays, [d \in PayDays |-> Pay!InMemories(d)]) = b
    <3>1. [d \in PayDays |-> Pay!InMemories(d)] = [d \in PayDays |-> HeldOn(mem, d)]
      BY <1>3
    <3> QED
      BY <3>1, TotalAmount
  <2>4. /\ Pay!Total(PayDays, table) = a /\ Pay!Total(PayDays, charged) = v
        /\ Pay!Total(PayDays, unknown) = u
    BY TotalAmount
  <2>5. Pay!Total(Caller, Pay!CostOf) = InFlight(call)
    BY TotalAmount DEF Pay!CostOf, InFlight
  <2> HIDE DEF a, b, u, v
  <2>6. a + b + InFlight(call) = v - u + twice
    BY <2>1, <2>2
  <2> QED
    BY <2>3, <2>4, <2>5, <2>6 DEF Pay!Accounted, Pay!Days, PayDays
<1> QED
  BY <1>2, <1>4, <1>5 DEF Pay!SpendRight

\* Paid calls: the counters hold what they hold, callers are where they can be.
THEOREM SpendTypes == ASSUME MoneySound PROVE Pay!Spec => []Pay!TypeOK
<1>1. Pay!Init => PayInv
  BY PayStarts
<1>2. PayInv /\ [Pay!Next]_(Pay!vars) => PayInv'
  BY PaySteps
<1>3. PayInv => Pay!TypeOK
  BY PayGood
<1> QED
  BY <1>1, <1>2, <1>3, PTL DEF Pay!Spec

\* The daily limit (services/llm_structured.py): whatever calls overlap, over midnight, lost
\* answers, failed writes and crashes, a day is charged less than the limit, one call of
\* each thread and what no counter was told of; and the counters hold what was charged,
\* once, and less only what was lost.
THEOREM SpendRightAlways == ASSUME MoneySound PROVE Pay!Spec => []Pay!SpendRight
<1>1. Pay!Init => PayInv
  BY PayStarts
<1>2. PayInv /\ [Pay!Next]_(Pay!vars) => PayInv'
  BY PaySteps
<1>3. PayInv => Pay!SpendRight
  BY PayGood
<1> QED
  BY <1>1, <1>2, <1>3, PTL DEF Pay!Spec
=============================================================================
