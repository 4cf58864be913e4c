--------------------------- MODULE BriefingProofs ---------------------------
(* The briefing, for any number of requests, taps, days and kinds, any       *)
(* items, ages, faults and users: its job implements OncePerDay and repeats  *)
(* a slot's message only as often as a fault hid it; the row of a slot is    *)
(* honest; and taps and replies act once, on what their message shows.  And  *)
(* its layout: the rule of volume, whatever the sources hold.                *)
EXTENDS Briefing, FiniteSetTheorems, SequenceTheorems, NaturalsInduction, WellFoundedInduction, TLAPS

\* What the proofs need of the types; `R' stands for whatever a job lists.
JobRec(R) == [pc : {"idle", "assemble", "send", "record", "store"},
              slot : Slots \cup {<<0, "none">>}, claimed : BOOLEAN, refs : R,
              ok : BOOLEAN, msg : R, hasId : BOOLEAN]
RowRec == [ok : BOOLEAN, at : Int, replied : BOOLEAN, feedback : Thumbs \cup {"none"},
           there : BOOLEAN]
JobShape(jobs) == \E R : jobs \in [Jobs -> JobRec(R)]
Typed(rec) == \E R : rec \in JobRec(R)

Shape ==
  /\ now \in Nat /\ day \in 1..MaxDay
  /\ row \in [Slots -> RowRec]
  /\ JobShape(job)
  /\ unforced \in [Slots -> Nat] /\ excused \in [Slots -> Nat]

\* Whoever is at work holds the lock of the job and works on a slot.
LockHeld == \A j \in Jobs : job[j].pc # "idle" => jobLock = j /\ job[j].slot \in Slots

RowSound == \A s \in Slots : row[s].ok => row[s].there

JobInv == Shape /\ LockHeld /\ RowSound

\* The steps that leave the job and its row's verdict alone.
Aside ==
  /\ now' \in Nat /\ day' \in 1..MaxDay
  /\ row' \in [Slots -> RowRec]
  /\ \A s \in Slots : row'[s].ok = row[s].ok /\ row'[s].there = row[s].there
  /\ UNCHANGED <<job, jobLock, unforced, excused>>

----------------------------------------------------------------------------
\* Updates of a job keep its shape.
LEMMA JobUpdate ==
    ASSUME NEW jobs, JobShape(jobs), NEW j \in Jobs, NEW rec, Typed(rec)
    PROVE  JobShape([jobs EXCEPT ![j] = rec])
<1>1. PICK R : jobs \in [Jobs -> JobRec(R)]
  BY DEF JobShape
<1> PICK S : rec \in JobRec(S)
  BY DEF Typed
<1>2. JobRec(R) \subseteq JobRec(R \cup S) /\ JobRec(S) \subseteq JobRec(R \cup S)
  BY DEF JobRec
<1>3. [jobs EXCEPT ![j] = rec] \in [Jobs -> JobRec(R \cup S)]
  BY <1>1, <1>2
<1> QED
  BY <1>3 DEF JobShape

LEMMA IdleTyped == Typed(IdleJob)
<1>1. IdleJob \in JobRec({<<>>, 0})
  BY DEF IdleJob, JobRec
<1> QED
  BY <1>1 DEF Typed

\* The other steps are asides.
LEMMA TapAside ==
    ASSUME JobInv, NEW t \in Tappers, TapStep(t)
    PROVE  Aside
<1> USE DEF Aside, JobInv, Shape
<1>1. ASSUME NEW m \in DOMAIN shown, NEW n \in Numbers, NEW act \in {"rm", "no"}, Tap(t, m, n, act)
      PROVE  Aside
  BY <1>1 DEF Tap, ghostVars, snapVars
<1>2. ASSUME NEW n \in Numbers, NEW act \in {"rm", "no"}, Reply(t, n, act)
      PROVE  Aside
  BY <1>2 DEF Reply, ghostVars, snapVars
<1>3. CASE TapRemind(t)
  BY <1>3 DEF TapRemind, ghostVars
<1>4. CASE TapAct(t)
  BY <1>4 DEF TapAct, EndTap, ghostVars
<1>5. CASE TapActFails(t)
  BY <1>5 DEF TapActFails, ghostVars
<1>6. CASE TapSave(t)
  <2>1. row' = [row EXCEPT ![<<tap[t].snap.day, tap[t].kind>>] = Replied(<<tap[t].snap.day, tap[t].kind>>)]
    BY <1>6 DEF TapSave
  <2>2. \A s \in Slots : Replied(s) \in RowRec /\ Replied(s).ok = row[s].ok /\ Replied(s).there = row[s].there
    BY DEF Replied, RowRec
  <2>3. UNCHANGED <<now, day, job, jobLock, unforced, excused>>
    BY <1>6 DEF TapSave, ghostVars
  <2> QED
    BY <2>1, <2>2, <2>3
<1>7. CASE TapSaveFails(t)
  BY <1>7 DEF TapSaveFails, ghostVars
<1> QED
  BY <1>1, <1>2, <1>3, <1>4, <1>5, <1>6, <1>7 DEF TapStep

LEMMA WorldAside ==
    ASSUME JobInv, Next,
           ~\E j \in Jobs : JobStep(j), ~\E t \in Tappers : TapStep(t), ~Restart
    PROVE  Aside
<1> USE DEF Aside, JobInv, Shape
<1>1. ASSUME NEW m \in DOMAIN shown, NEW v \in Thumbs, Feedback(m, v)
      PROVE  Aside
  <2> DEFINE s == <<shown[m].day, shown[m].kind>>
  <2>1. row' = [row EXCEPT ![s].feedback = v]
    BY <1>1 DEF Feedback
  <2>2. s \in Slots => [row[s] EXCEPT !.feedback = v] \in RowRec
    BY DEF RowRec
  <2>3. UNCHANGED <<now, day, job, jobLock, unforced, excused>>
    BY <1>1 DEF Feedback, ghostVars
  <2> HIDE DEF s
  <2> QED
    BY <2>1, <2>2, <2>3 DEF RowRec
<1>2. CASE UserWrites
  <2>1. row' = [s \in Slots |-> IF row[s].ok /\ row[s].at >= now - Window
                                THEN [row[s] EXCEPT !.replied = TRUE] ELSE row[s]]
    BY <1>2 DEF UserWrites
  <2>2. \A s \in Slots : /\ [row[s] EXCEPT !.replied = TRUE] \in RowRec
                         /\ [row[s] EXCEPT !.replied = TRUE].ok = row[s].ok
                         /\ [row[s] EXCEPT !.replied = TRUE].there = row[s].there
    BY DEF RowRec
  <2>3. UNCHANGED <<now, day, job, jobLock, unforced, excused>>
    BY <1>2 DEF UserWrites, ghostVars
  <2> QED
    BY <2>1, <2>2, <2>3
<1>3. ASSUME NEW n \in Numbers, ToolConfirm(n)
      PROVE  Aside
  BY <1>3 DEF ToolConfirm, ghostVars
<1>4. ASSUME NEW i \in ItemSet, Arrive(i)
      PROVE  Aside
  BY <1>4 DEF Arrive, ghostVars
<1>5. CASE Tick
  BY <1>5 DEF Tick, ghostVars
<1>6. CASE NextDay
  BY <1>6, BriefingAssumption DEF NextDay, ghostVars
<1> QED
  BY <1>1, <1>2, <1>3, <1>4, <1>5, <1>6 DEF Next

----------------------------------------------------------------------------
\* How the abstract specification sees a slot when one job at most is at work.
View(rec, sent, s) ==
  IF sent THEN "done"
  ELSE IF rec.claimed /\ rec.slot = s /\ rec.pc = "record" /\ rec.ok THEN "sent"
  ELSE IF rec.claimed /\ rec.slot = s /\ rec.pc \in {"assemble", "send", "record"} THEN "held"
  ELSE "free"

\* The three clauses of SlotState, for any jobs and rows.
At(jobs, s) == {i \in Jobs : jobs[i].claimed /\ jobs[i].slot = s
                               /\ jobs[i].pc \in {"assemble", "send", "record"}}
SeenAs(jobs, sent, s) ==
  IF sent THEN "done"
  ELSE IF \E i \in At(jobs, s) : jobs[i].pc = "record" /\ jobs[i].ok THEN "sent"
  ELSE IF At(jobs, s) # {} THEN "held" ELSE "free"

LEMMA OneAtWork ==
    ASSUME NEW jobs, NEW sent, NEW j \in Jobs, NEW s,
           \A i \in Jobs \ {j} : jobs[i].pc = "idle"
    PROVE  SeenAs(jobs, sent, s) = View(jobs[j], sent, s)
<1>1. \A i \in At(jobs, s) : i = j
  BY DEF At
<1>2. j \in At(jobs, s) <=> jobs[j].claimed /\ jobs[j].slot = s
                              /\ jobs[j].pc \in {"assemble", "send", "record"}
  BY DEF At
<1>3. (\E i \in At(jobs, s) : jobs[i].pc = "record" /\ jobs[i].ok)
        <=> j \in At(jobs, s) /\ jobs[j].pc = "record" /\ jobs[j].ok
  BY <1>1
<1>4. At(jobs, s) # {} <=> j \in At(jobs, s)
  BY <1>1
<1> QED
  BY <1>2, <1>3, <1>4 DEF SeenAs, View

\* A job starts only when none is at work, and works alone.
LEMMA Alone ==
    ASSUME JobInv, NEW j \in Jobs, jobLock = Nobody \/ job[j].pc # "idle"
    PROVE  \A i \in Jobs \ {j} : job[i].pc = "idle"
  BY BriefingAssumption DEF JobInv, LockHeld

LEMMA SlotStateIs ==
    SlotState = [s \in Slots |-> SeenAs(job, row[s].ok, s)]
  BY DEF SlotState, SeenAs, Holder, At

\* What a step of the one job at work does to the invariant and to the slots.
LEMMA OneMoves ==
    ASSUME JobInv, NEW j \in Jobs, \A i \in Jobs \ {j} : job[i].pc = "idle",
           NEW rec, Typed(rec), job' = [job EXCEPT ![j] = rec],
           rec.pc = "idle" \/ (jobLock' = j /\ rec.slot \in Slots)
    PROVE  /\ JobShape(job') /\ LockHeld' /\ job'[j] = rec
           /\ \A i \in Jobs \ {j} : job'[i].pc = "idle"
           /\ SlotState = [s \in Slots |-> View(job[j], row[s].ok, s)]
           /\ SlotState' = [s \in Slots |-> View(rec, row'[s].ok, s)]
<1>1. JobShape(job')
  BY JobUpdate DEF JobInv, Shape
<1>2. job'[j] = rec /\ \A i \in Jobs \ {j} : job'[i] = job[i]
  BY DEF JobInv, Shape, JobShape
<1>3. LockHeld'
  BY <1>2 DEF LockHeld
<1>4. \A i \in Jobs \ {j} : job'[i].pc = "idle"
  BY <1>2
<1>5. \A s \in Slots : SeenAs(job, row[s].ok, s) = View(job[j], row[s].ok, s)
  BY OneAtWork
<1>6. \A s \in Slots : SeenAs(job', row'[s].ok, s) = View(job'[j], row'[s].ok, s)
  <2> DEFINE next == job'
  <2>1. \A i \in Jobs \ {j} : next[i].pc = "idle"
    BY <1>4
  <2> HIDE DEF next
  <2>2. ASSUME NEW s \in Slots
        PROVE  SeenAs(next, row'[s].ok, s) = View(next[j], row'[s].ok, s)
    <3>1. \A sent : SeenAs(next, sent, s) = View(next[j], sent, s)
      BY <2>1, OneAtWork
    <3> QED
      BY <3>1
  <2> QED
    BY <2>2 DEF next
<1>7. SlotState' = [s \in Slots |-> SeenAs(job', row'[s].ok, s)]
  BY DEF SlotState, SeenAs, Holder, At
<1>8. SlotState' = [s \in Slots |-> View(rec, row'[s].ok, s)]
  BY <1>6, <1>7, <1>2
<1>9. SlotState = [s \in Slots |-> View(job[j], row[s].ok, s)]
  BY <1>5, SlotStateIs
<1> QED
  BY <1>1, <1>2, <1>3, <1>4, <1>8, <1>9

----------------------------------------------------------------------------
\* What may become of one slot in a step.
Allowed(v, w) ==
  \/ v = w
  \/ v = "free" /\ w = "held"
  \/ v = "held" /\ w = "sent"
  \/ v # "done" /\ w = "done"
  \/ v \in {"held", "sent"} /\ w = "free"

LEMMA OneSlot ==
    ASSUME NEW old, SlotState = [s \in Slots |-> old[s]],
           NEW new, SlotState' = [s \in Slots |-> new[s]],
           NEW at \in Slots, \A s \in Slots \ {at} : new[s] = old[s],
           Allowed(old[at], new[at])
    PROVE  [Abstract!Next]_SlotState
<1>1. SlotState' = [SlotState EXCEPT ![at] = new[at]] /\ SlotState[at] = old[at]
  OBVIOUS
<1>2. CASE new[at] = old[at]
  BY <1>2
<1>3. CASE old[at] = "free" /\ new[at] = "held"
  BY <1>1, <1>3 DEF Abstract!Next, Abstract!Take
<1>4. CASE old[at] = "held" /\ new[at] = "sent"
  BY <1>1, <1>4 DEF Abstract!Next, Abstract!Deliver
<1>5. CASE old[at] # "done" /\ new[at] = "done"
  BY <1>1, <1>5 DEF Abstract!Next, Abstract!Settle
<1>6. CASE old[at] \in {"held", "sent"} /\ new[at] = "free"
  BY <1>1, <1>6 DEF Abstract!Next, Abstract!GiveUp
<1> QED
  BY <1>2, <1>3, <1>4, <1>5, <1>6 DEF Allowed

\* A slot nobody has settled or delivered since its last fault has a message to spare.
Accounted ==
  \A s \in Slots :
    /\ unforced[s] <= 1 + excused[s]
    /\ SlotState[s] \in {"free", "held"} => unforced[s] <= excused[s]
    /\ \A j \in Jobs : job[j].claimed /\ job[j].slot = s /\ job[j].pc \in {"assemble", "send"}
                       => unforced[s] <= excused[s]

\* The same for one slot, when the only job at work is `rec'.
Balanced(rec, sent, u, e, s) ==
  /\ u <= 1 + e
  /\ View(rec, sent, s) \in {"free", "held"} => u <= e
  /\ rec.claimed /\ rec.slot = s /\ rec.pc \in {"assemble", "send"} => u <= e

BriefingInv == JobInv /\ Accounted

\* A job that works on no other slot.
OnlyOn(rec, s) == rec.pc = "idle" \/ rec.slot = s

LEMMA JobMoves ==
    ASSUME BriefingInv, NEW j \in Jobs, \A i \in Jobs \ {j} : job[i].pc = "idle",
           NEW rec, Typed(rec), job' = [job EXCEPT ![j] = rec],
           rec.pc = "idle" \/ jobLock' = j,
           NEW at \in Slots, OnlyOn(rec, at), OnlyOn(job[j], at),
           \A s \in Slots \ {at} : /\ row'[s].ok = row[s].ok
                                   /\ unforced'[s] = unforced[s] /\ excused'[s] = excused[s],
           Allowed(View(job[j], row[at].ok, at), View(rec, row'[at].ok, at)),
           Balanced(job[j], row[at].ok, unforced[at], excused[at], at)
             => Balanced(rec, row'[at].ok, unforced'[at], excused'[at], at)
    PROVE  JobShape(job') /\ LockHeld' /\ Accounted' /\ [Abstract!Next]_SlotState
<1> DEFINE old == [s \in Slots |-> View(job[j], row[s].ok, s)]
           new == [s \in Slots |-> View(rec, row'[s].ok, s)]
<1>1. /\ JobShape(job') /\ LockHeld' /\ job'[j] = rec
      /\ \A i \in Jobs \ {j} : job'[i].pc = "idle"
      /\ SlotState = old /\ SlotState' = new
  <2>1. JobInv /\ (rec.pc = "idle" \/ (jobLock' = j /\ rec.slot \in Slots))
    BY DEF BriefingInv, OnlyOn
  <2> HIDE DEF old, new
  <2>2. /\ JobShape(job') /\ LockHeld' /\ job'[j] = rec
        /\ \A i \in Jobs \ {j} : job'[i].pc = "idle"
        /\ SlotState = [s \in Slots |-> View(job[j], row[s].ok, s)]
        /\ SlotState' = [s \in Slots |-> View(rec, row'[s].ok, s)]
    BY <2>1, OneMoves
  <2> QED
    BY <2>2 DEF old, new
<1>2. \A s \in Slots \ {at} : new[s] = old[s]
  BY DEF View, OnlyOn
<1>3. [Abstract!Next]_SlotState
  <2>1. old[at] = View(job[j], row[at].ok, at) /\ new[at] = View(rec, row'[at].ok, at)
    OBVIOUS
  <2>2. SlotState = [s \in Slots |-> old[s]] /\ SlotState' = [s \in Slots |-> new[s]]
    <3>1. old = [s \in Slots |-> old[s]] /\ new = [s \in Slots |-> new[s]]
      OBVIOUS
    <3> HIDE DEF old, new
    <3> QED
      BY <1>1, <3>1
  <2>3. Allowed(old[at], new[at])
    BY <2>1
  <2> HIDE DEF old, new
  <2> QED
    BY <1>2, <2>2, <2>3, OneSlot
<1>4. \A s \in Slots : Balanced(job[j], row[s].ok, unforced[s], excused[s], s)
  BY <1>1 DEF BriefingInv, Accounted, Balanced
<1>5. \A s \in Slots : Balanced(rec, row'[s].ok, unforced'[s], excused'[s], s)
  BY <1>4 DEF Balanced, View, OnlyOn
<1>6. Accounted'
  <2>1. ASSUME NEW s \in Slots
        PROVE  /\ unforced'[s] <= 1 + excused'[s]
               /\ SlotState'[s] \in {"free", "held"} => unforced'[s] <= excused'[s]
    BY <1>1, <1>5 DEF Balanced
  <2>2. ASSUME NEW s \in Slots, NEW i \in Jobs,
               job'[i].claimed /\ job'[i].slot = s /\ job'[i].pc \in {"assemble", "send"}
        PROVE  unforced'[s] <= excused'[s]
    <3>1. i = j
      BY <1>1, <2>2
    <3> QED
      BY <1>1, <1>5, <2>2, <3>1 DEF Balanced
  <2> QED
    BY <2>1, <2>2 DEF Accounted
<1> QED
  BY <1>1, <1>3, <1>6

----------------------------------------------------------------------------
\* The steps of a job.
LEMMA Begins ==
    ASSUME BriefingInv, NEW j \in Jobs, NEW at \in Slots, NEW c \in BOOLEAN,
           JobFree(j), Go(j, at, c), UNCHANGED <<now, day, unforced>>,
           row' \in [Slots -> RowRec], excused' \in [Slots -> Nat],
           \A s \in Slots : row'[s].ok = row[s].ok /\ (row[s].there => row'[s].there),
           \A s \in Slots \ {at} : excused'[s] = excused[s],
           \/ ~c /\ excused'[at] = excused[at]
           \/ ~row[at].ok /\ excused'[at] = excused[at]
           \/ excused'[at] = excused[at] + 1
    PROVE  BriefingInv' /\ [Abstract!Next]_SlotState
<1> DEFINE rec == [IdleJob EXCEPT !.pc = "assemble", !.slot = at, !.claimed = c]
<1>1. row \in [Slots -> RowRec] /\ unforced \in [Slots -> Nat] /\ excused \in [Slots -> Nat]
  BY DEF BriefingInv, JobInv, Shape
<1>2. rec \in JobRec({<<>>, 0})
  BY DEF IdleJob, JobRec
<1>3. Typed(rec) /\ rec.pc = "assemble" /\ rec.slot = at /\ rec.claimed = c
  BY <1>2 DEF Typed, IdleJob
<1>4. job[j].pc = "idle" /\ jobLock = Nobody /\ jobLock' = j /\ job' = [job EXCEPT ![j] = rec]
  BY DEF JobFree, Go
<1> HIDE DEF rec
<1>5. \A i \in Jobs \ {j} : job[i].pc = "idle"
  BY <1>4, Alone DEF BriefingInv
<1>6. unforced[at] \in Nat /\ excused[at] \in Nat /\ row[at].ok \in BOOLEAN
  BY <1>1 DEF RowRec
<1>7. Allowed(View(job[j], row[at].ok, at), View(rec, row'[at].ok, at))
  BY <1>3, <1>4 DEF Allowed, View
<1>8. Balanced(job[j], row[at].ok, unforced[at], excused[at], at)
        => Balanced(rec, row'[at].ok, unforced'[at], excused'[at], at)
  BY <1>3, <1>4, <1>6 DEF Balanced, View
<1>9. JobShape(job') /\ LockHeld' /\ Accounted' /\ [Abstract!Next]_SlotState
  BY <1>3, <1>4, <1>5, <1>7, <1>8, JobMoves DEF OnlyOn
<1>10. RowSound'
  BY DEF BriefingInv, JobInv, RowSound
<1> QED
  BY <1>9, <1>10 DEF BriefingInv, JobInv, Shape

LEMMA Starts ==
    ASSUME BriefingInv, NEW j \in Jobs, NEW k \in Kinds,
           StartClaimed(j, k) \/ StartUnclaimed(j, k) \/ StartForced(j, k)
    PROVE  BriefingInv' /\ [Abstract!Next]_SlotState
<1> DEFINE at == <<day, k>>
<1>1. at \in Slots /\ now \in Nat /\ row \in [Slots -> RowRec]
      /\ unforced \in [Slots -> Nat] /\ excused \in [Slots -> Nat]
  BY DEF BriefingInv, JobInv, Shape, Slots
<1>2. CASE StartClaimed(j, k)
  <2>1. row' = [row EXCEPT ![at] = Claimed(at)] /\ CanClaim(at)
        /\ JobFree(j) /\ Go(j, at, TRUE) /\ UNCHANGED <<now, day, unforced, excused>>
    BY <1>2 DEF StartClaimed, ghostVars
  <2> HIDE DEF at
  <2>2. Claimed(at) \in RowRec /\ Claimed(at).ok = row[at].ok /\ Claimed(at).there
    <3>1. row[at] \in RowRec
      BY <1>1
    <3>2. now \in Int
      BY <1>1
    <3> QED
      BY <3>1, <3>2 DEF Claimed, RowRec
  <2>3. ~row[at].ok
    BY <1>1, <2>1 DEF CanClaim, BriefingInv, JobInv, RowSound
  <2>4. row' \in [Slots -> RowRec] /\ excused' \in [Slots -> Nat]
        /\ \A s \in Slots : row'[s].ok = row[s].ok /\ (row[s].there => row'[s].there)
    BY <1>1, <2>1, <2>2
  <2> QED
    BY <1>1, <2>1, <2>3, <2>4, Begins
<1>3. CASE StartUnclaimed(j, k)
  <2>1. excused' = [excused EXCEPT ![at] = @ + 1] /\ JobFree(j) /\ Go(j, at, TRUE)
        /\ UNCHANGED <<now, day, row, unforced>>
    BY <1>3 DEF StartUnclaimed
  <2> HIDE DEF at
  <2>2. excused' \in [Slots -> Nat] /\ excused'[at] = excused[at] + 1
        /\ \A s \in Slots \ {at} : excused'[s] = excused[s]
    BY <1>1, <2>1
  <2> QED
    BY <1>1, <2>1, <2>2, Begins
<1>4. CASE StartForced(j, k)
  <2>1. JobFree(j) /\ Go(j, at, FALSE) /\ UNCHANGED <<now, day, row, unforced, excused>>
    BY <1>4 DEF StartForced, ghostVars
  <2> HIDE DEF at
  <2> QED
    BY <1>1, <2>1, Begins
<1> QED
  BY <1>2, <1>3, <1>4

\* A step of the job at work, on its own slot.
LEMMA Works ==
    ASSUME BriefingInv, NEW j \in Jobs, job[j].pc # "idle", NEW at \in Slots, job[j].slot = at,
           NEW rec, Typed(rec), job' = [job EXCEPT ![j] = rec],
           rec.pc = "idle" \/ jobLock' = jobLock, OnlyOn(rec, at),
           UNCHANGED <<now, day>>, row' \in [Slots -> RowRec], RowSound',
           unforced' \in [Slots -> Nat], excused' \in [Slots -> Nat],
           \A s \in Slots \ {at} : /\ row'[s].ok = row[s].ok
                                   /\ unforced'[s] = unforced[s] /\ excused'[s] = excused[s],
           Allowed(View(job[j], row[at].ok, at), View(rec, row'[at].ok, at)),
           Balanced(job[j], row[at].ok, unforced[at], excused[at], at)
             => Balanced(rec, row'[at].ok, unforced'[at], excused'[at], at)
    PROVE  BriefingInv' /\ [Abstract!Next]_SlotState
<1>1. \A i \in Jobs \ {j} : job[i].pc = "idle"
  BY Alone DEF BriefingInv
<1>2. rec.pc = "idle" \/ jobLock' = j
  BY DEF BriefingInv, JobInv, LockHeld
<1>3. OnlyOn(job[j], at) /\ OnlyOn(rec, at)
  BY DEF OnlyOn
<1>4. JobShape(job') /\ LockHeld' /\ Accounted' /\ [Abstract!Next]_SlotState
  BY <1>1, <1>2, <1>3, JobMoves
<1> QED
  BY <1>4 DEF BriefingInv, JobInv, Shape

\* What is known of the job at work and its slot.
LEMMA AtWork ==
    ASSUME BriefingInv, NEW j \in Jobs, job[j].pc # "idle"
    PROVE  /\ jobLock = j /\ job[j].slot \in Slots
           /\ \E R : job \in [Jobs -> JobRec(R)] /\ job[j] \in JobRec(R)
           /\ row \in [Slots -> RowRec] /\ row[job[j].slot] \in RowRec
           /\ unforced \in [Slots -> Nat] /\ excused \in [Slots -> Nat]
           /\ unforced[job[j].slot] \in Nat /\ excused[job[j].slot] \in Nat
           /\ now \in Nat /\ RowSound
<1>1. jobLock = j /\ job[j].slot \in Slots
  BY DEF BriefingInv, JobInv, LockHeld
<1> QED
  BY <1>1 DEF BriefingInv, JobInv, Shape, JobShape

LEMMA AssembleStep ==
    ASSUME BriefingInv, NEW j \in Jobs, NEW down, Assemble(j, down)
    PROVE  BriefingInv' /\ [Abstract!Next]_SlotState
<1> DEFINE listed == Listed(down)
           rec == [job[j] EXCEPT !.pc = "send", !.refs = listed]
<1>1. job[j].pc = "assemble" /\ UNCHANGED <<now, day, row, jobLock, unforced, excused>>
      /\ job' = [job EXCEPT ![j].pc = "send", ![j].refs = listed]
  BY DEF Assemble, ghostVars
<1> HIDE DEF listed
<1>2. PICK R : job \in [Jobs -> JobRec(R)] /\ job[j] \in JobRec(R)
  BY <1>1, AtWork
<1>3. job' = [job EXCEPT ![j] = rec]
  BY <1>1, <1>2 DEF JobRec
<1>4. rec \in JobRec(R \cup {listed})
  BY <1>2 DEF JobRec
<1>5. Typed(rec) /\ rec.pc = "send" /\ rec.slot = job[j].slot /\ rec.claimed = job[j].claimed
  BY <1>2, <1>4 DEF Typed, JobRec
<1> HIDE DEF rec
<1>6. ASSUME NEW at \in Slots, job[j].slot = at
      PROVE  /\ Allowed(View(job[j], row[at].ok, at), View(rec, row'[at].ok, at))
             /\ Balanced(job[j], row[at].ok, unforced[at], excused[at], at)
                  => Balanced(rec, row'[at].ok, unforced'[at], excused'[at], at)
  BY <1>1, <1>5 DEF Allowed, View, Balanced
<1>7. row' \in [Slots -> RowRec] /\ RowSound'
      /\ unforced' \in [Slots -> Nat] /\ excused' \in [Slots -> Nat]
  BY <1>1, AtWork DEF RowSound
<1>8. job[j].slot \in Slots /\ OnlyOn(rec, job[j].slot)
  BY <1>1, <1>5, AtWork DEF OnlyOn
<1> QED
  BY <1>1, <1>3, <1>5, <1>6, <1>7, <1>8, Works

\* One more message of the slot counts when its job holds a claim.
LEMMA Counted ==
    ASSUME BriefingInv, NEW j \in Jobs, job[j].pc # "idle", Delivered(j)
    PROVE  LET at == job[j].slot IN
           /\ unforced' \in [Slots -> Nat]
           /\ unforced'[at] = unforced[at] + (IF job[j].claimed THEN 1 ELSE 0)
           /\ \A s \in Slots \ {at} : unforced'[s] = unforced[s]
<1> DEFINE at == job[j].slot
           n == unforced[at] + (IF job[j].claimed THEN 1 ELSE 0)
<1>1. at \in Slots /\ unforced \in [Slots -> Nat]
  BY AtWork
<1>2. n \in Nat
  BY <1>1
<1>3. unforced' = [unforced EXCEPT ![at] = n]
  BY DEF Delivered
<1> HIDE DEF n, at
<1>4. unforced' \in [Slots -> Nat] /\ unforced'[at] = n
      /\ \A s \in Slots \ {at} : unforced'[s] = unforced[s]
  BY <1>1, <1>2, <1>3
<1> QED
  BY <1>4 DEF n, at

\* A fault counted for one slot.
LEMMA Excused ==
    ASSUME NEW old \in [Slots -> Nat], NEW at \in Slots, NEW new, new = [old EXCEPT ![at] = @ + 1]
    PROVE  /\ new \in [Slots -> Nat] /\ new[at] = old[at] + 1
           /\ \A s \in Slots \ {at} : new[s] = old[s]
  OBVIOUS

LEMMA SendWorksStep ==
    ASSUME BriefingInv, NEW j \in Jobs, NEW hasId \in BOOLEAN, SendWorks(j, hasId)
    PROVE  BriefingInv' /\ [Abstract!Next]_SlotState
<1> DEFINE id == Len(shown) + 1
           at == job[j].slot
           rec == [job[j] EXCEPT !.pc = "record", !.ok = TRUE, !.msg = id, !.hasId = hasId]
<1>1. job[j].pc = "send" /\ UNCHANGED <<now, day, row, jobLock, excused>> /\ Delivered(j)
      /\ job' = [job EXCEPT ![j].pc = "record", ![j].ok = TRUE, ![j].msg = id, ![j].hasId = hasId]
  BY DEF SendWorks
<1> HIDE DEF id
<1>2. PICK R : job \in [Jobs -> JobRec(R)] /\ job[j] \in JobRec(R)
  BY <1>1, AtWork
<1>3. job' = [job EXCEPT ![j] = rec]
  BY <1>1, <1>2 DEF JobRec
<1>4. rec \in JobRec(R \cup {id})
  BY <1>2 DEF JobRec
<1>5. /\ Typed(rec) /\ rec.pc = "record" /\ rec.ok
      /\ rec.slot = at /\ rec.claimed = job[j].claimed /\ rec.claimed \in BOOLEAN
  BY <1>2, <1>4 DEF Typed, JobRec
<1> HIDE DEF rec
<1>6. at \in Slots /\ row \in [Slots -> RowRec] /\ RowSound /\ excused \in [Slots -> Nat]
      /\ unforced[at] \in Nat /\ excused[at] \in Nat
  BY <1>1, AtWork
<1>7. /\ unforced' \in [Slots -> Nat]
      /\ unforced'[at] = unforced[at] + (IF job[j].claimed THEN 1 ELSE 0)
      /\ \A s \in Slots \ {at} : unforced'[s] = unforced[s]
  BY <1>1, Counted
<1>8. row' \in [Slots -> RowRec] /\ RowSound' /\ excused' \in [Slots -> Nat]
  BY <1>1, <1>6 DEF RowSound
<1>9. Allowed(View(job[j], row[at].ok, at), View(rec, row'[at].ok, at))
  BY <1>1, <1>5 DEF Allowed, View
<1>10. Balanced(job[j], row[at].ok, unforced[at], excused[at], at)
         => Balanced(rec, row'[at].ok, unforced'[at], excused'[at], at)
  BY <1>1, <1>5, <1>6, <1>7 DEF Balanced, View
<1>11. /\ job[j].slot = at /\ OnlyOn(rec, at) /\ job[j].pc # "idle"
       /\ UNCHANGED <<now, day>> /\ jobLock' = jobLock
       /\ \A s \in Slots \ {at} : /\ row'[s].ok = row[s].ok
                                /\ unforced'[s] = unforced[s] /\ excused'[s] = excused[s]
  BY <1>1, <1>5, <1>7 DEF OnlyOn
<1> HIDE DEF at
<1> QED
  BY <1>3, <1>5, <1>6, <1>7, <1>8, <1>9, <1>10, <1>11, Works

\* A send that failed, or whose answer was lost.
LEMMA SendLost ==
    ASSUME BriefingInv, NEW j \in Jobs, SendFails(j) \/ SendAnswerLost(j)
    PROVE  BriefingInv' /\ [Abstract!Next]_SlotState
<1> DEFINE at == job[j].slot
           rec == [job[j] EXCEPT !.pc = "record", !.ok = FALSE]
<1>1. job[j].pc = "send" /\ UNCHANGED <<now, day, row, jobLock>>
      /\ job' = [job EXCEPT ![j].pc = "record", ![j].ok = FALSE]
  BY DEF SendFails, SendAnswerLost
<1>2. PICK R : job \in [Jobs -> JobRec(R)] /\ job[j] \in JobRec(R)
  BY <1>1, AtWork
<1>3. job' = [job EXCEPT ![j] = rec]
  BY <1>1, <1>2 DEF JobRec
<1>4. rec \in JobRec(R)
  BY <1>2 DEF JobRec
<1>5. /\ Typed(rec) /\ rec.pc = "record" /\ ~rec.ok
      /\ rec.slot = at /\ rec.claimed = job[j].claimed /\ rec.claimed \in BOOLEAN
  BY <1>2, <1>4 DEF Typed, JobRec
<1> HIDE DEF rec
<1>6. at \in Slots /\ row \in [Slots -> RowRec] /\ RowSound
      /\ unforced \in [Slots -> Nat] /\ excused \in [Slots -> Nat]
      /\ unforced[at] \in Nat /\ excused[at] \in Nat
  BY <1>1, AtWork
<1>7. /\ unforced' \in [Slots -> Nat] /\ excused' \in [Slots -> Nat]
      /\ \A s \in Slots \ {at} : unforced'[s] = unforced[s] /\ excused'[s] = excused[s]
      /\ \/ unforced'[at] = unforced[at] /\ excused'[at] = excused[at]
         \/ unforced'[at] = unforced[at] + (IF job[j].claimed THEN 1 ELSE 0)
            /\ excused'[at] = excused[at] + 1
  <2>1. CASE SendFails(j)
    BY <1>6, <2>1 DEF SendFails, ghostVars
  <2>2. CASE SendAnswerLost(j)
    <3>1. Delivered(j) /\ excused' = [excused EXCEPT ![at] = @ + 1]
      BY <2>2 DEF SendAnswerLost
    <3>2. /\ unforced' \in [Slots -> Nat]
          /\ unforced'[at] = unforced[at] + (IF job[j].claimed THEN 1 ELSE 0)
          /\ \A s \in Slots \ {at} : unforced'[s] = unforced[s]
      BY <1>1, <3>1, Counted
    <3> HIDE DEF at
    <3>3. /\ excused' \in [Slots -> Nat] /\ excused'[at] = excused[at] + 1
          /\ \A s \in Slots \ {at} : excused'[s] = excused[s]
      BY <1>6, <3>1, Excused
    <3> QED
      BY <3>2, <3>3
  <2> QED
    BY <2>1, <2>2
<1>8. row' \in [Slots -> RowRec] /\ RowSound'
  BY <1>1, <1>6 DEF RowSound
<1>9. Allowed(View(job[j], row[at].ok, at), View(rec, row'[at].ok, at))
  BY <1>1, <1>5 DEF Allowed, View
<1>10. Balanced(job[j], row[at].ok, unforced[at], excused[at], at)
         => Balanced(rec, row'[at].ok, unforced'[at], excused'[at], at)
  BY <1>1, <1>5, <1>6, <1>7 DEF Balanced, View
<1>11. /\ job[j].slot = at /\ OnlyOn(rec, at) /\ job[j].pc # "idle"
       /\ UNCHANGED <<now, day>> /\ jobLock' = jobLock
       /\ \A s \in Slots \ {at} : /\ row'[s].ok = row[s].ok
                                /\ unforced'[s] = unforced[s] /\ excused'[s] = excused[s]
  BY <1>1, <1>5, <1>7 DEF OnlyOn
<1> HIDE DEF at
<1> QED
  BY <1>3, <1>5, <1>6, <1>7, <1>8, <1>9, <1>10, <1>11, Works

\* A job that is done, or has only its snapshot left to store, holds no slot.
LEMMA Finishes ==
    ASSUME BriefingInv, NEW j \in Jobs, job[j].pc \in {"record", "store"},
           (AfterRecord(j) /\ job[j].pc = "record") \/ EndJob(j)
    PROVE  \E rec : /\ Typed(rec) /\ job' = [job EXCEPT ![j] = rec] /\ rec.pc \in {"idle", "store"}
                   /\ (rec.pc = "idle" \/ jobLock' = jobLock) /\ OnlyOn(rec, job[j].slot)
<1>1. CASE job' = [job EXCEPT ![j] = IdleJob]
  <2>1. IdleJob.pc = "idle"
    BY DEF IdleJob
  <2> QED
    BY <1>1, <2>1, IdleTyped DEF OnlyOn
<1>2. CASE job' = [job EXCEPT ![j].pc = "store"] /\ UNCHANGED jobLock
  <2> DEFINE rec == [job[j] EXCEPT !.pc = "store"]
  <2>1. PICK R : job \in [Jobs -> JobRec(R)] /\ job[j] \in JobRec(R)
    BY AtWork
  <2>2. rec \in JobRec(R) /\ rec.pc = "store" /\ rec.slot = job[j].slot
    BY <2>1 DEF JobRec
  <2>3. job' = [job EXCEPT ![j] = rec]
    BY <1>2
  <2> HIDE DEF rec
  <2> QED
    BY <1>2, <2>2, <2>3 DEF Typed, OnlyOn
<1> QED
  BY <1>1, <1>2 DEF AfterRecord, EndJob

LEMMA RecordStep ==
    ASSUME BriefingInv, NEW j \in Jobs, Record(j)
    PROVE  BriefingInv' /\ [Abstract!Next]_SlotState
<1> DEFINE at == job[j].slot
           new == Recorded(at, job[j].ok)
<1>1. /\ job[j].pc = "record" /\ AfterRecord(j) /\ UNCHANGED <<now, day, unforced, excused>>
      /\ row' = [row EXCEPT ![at] = new]
  BY DEF Record
<1>2. PICK rec : /\ Typed(rec) /\ job' = [job EXCEPT ![j] = rec] /\ rec.pc \in {"idle", "store"}
                 /\ (rec.pc = "idle" \/ jobLock' = jobLock) /\ OnlyOn(rec, at)
  BY <1>1, Finishes
<1>3. /\ at \in Slots /\ row \in [Slots -> RowRec] /\ row[at] \in RowRec /\ RowSound
      /\ unforced \in [Slots -> Nat] /\ excused \in [Slots -> Nat]
      /\ unforced[at] \in Nat /\ excused[at] \in Nat /\ now \in Int
  BY <1>1, AtWork
<1>4. PICK R : job[j] \in JobRec(R)
  BY <1>1, AtWork
<1>5. job[j].ok \in BOOLEAN /\ row[at].ok \in BOOLEAN /\ row[at].at \in Int
      /\ row[at].replied \in BOOLEAN
  BY <1>3, <1>4 DEF JobRec, RowRec
<1>6. new \in RowRec /\ new.there /\ new.ok = (row[at].ok \/ job[j].ok)
  <2> DEFINE when == IF job[j].ok \/ ~row[at].there THEN now
                     ELSE IF row[at].ok THEN row[at].at ELSE LongAgo
             mark == IF job[j].ok THEN FALSE ELSE row[at].replied
             sent == row[at].ok \/ job[j].ok
  <2>1. when \in Int /\ mark \in BOOLEAN /\ sent \in BOOLEAN
    <3>1. LongAgo \in Int
      BY DEF LongAgo
    <3>2. when \in Int
      BY <1>3, <1>5, <3>1
    <3>3. mark \in BOOLEAN
      BY <1>5
    <3>4. sent \in BOOLEAN
      BY <1>5
    <3> QED
      BY <3>2, <3>3, <3>4
  <2>2. new = [row[at] EXCEPT !.there = TRUE, !.ok = sent, !.at = when, !.replied = mark]
    BY <1>3 DEF Recorded, RowRec
  <2> HIDE DEF when, mark, sent, new
  <2>3. new \in RowRec /\ new.there /\ new.ok = sent
    BY <1>3, <2>1, <2>2 DEF RowRec
  <2> QED
    BY <2>3 DEF sent
<1> HIDE DEF new
<1>7. job[j].slot = at
  OBVIOUS
<1> HIDE DEF at
<1>8. /\ row' \in [Slots -> RowRec] /\ RowSound' /\ row'[at] = new
      /\ \A s \in Slots \ {at} : row'[s] = row[s]
  BY <1>1, <1>3, <1>6 DEF RowSound
<1>9. Allowed(View(job[j], row[at].ok, at), View(rec, row'[at].ok, at))
  BY <1>1, <1>2, <1>5, <1>6, <1>8 DEF Allowed, View
<1>10. Balanced(job[j], row[at].ok, unforced[at], excused[at], at)
         => Balanced(rec, row'[at].ok, unforced'[at], excused'[at], at)
  BY <1>1, <1>2, <1>3, <1>5, <1>6, <1>8 DEF Balanced, View
<1>11. /\ OnlyOn(rec, at) /\ job[j].pc # "idle" /\ UNCHANGED <<now, day>>
       /\ unforced' \in [Slots -> Nat] /\ excused' \in [Slots -> Nat]
       /\ \A s \in Slots \ {at} : /\ row'[s].ok = row[s].ok
                                /\ unforced'[s] = unforced[s] /\ excused'[s] = excused[s]
  BY <1>1, <1>2, <1>3, <1>8
<1> QED
  BY <1>2, <1>3, <1>7, <1>8, <1>9, <1>10, <1>11, Works

LEMMA EndStep ==
    ASSUME BriefingInv, NEW j \in Jobs, RecordFails(j) \/ Store(j) \/ StoreFails(j)
    PROVE  BriefingInv' /\ [Abstract!Next]_SlotState
<1> DEFINE at == job[j].slot
<1>1. /\ job[j].pc \in {"record", "store"} /\ UNCHANGED <<now, day, row, unforced>>
      /\ (AfterRecord(j) /\ job[j].pc = "record") \/ EndJob(j)
  BY DEF RecordFails, Store, StoreFails, ghostVars
<1>2. PICK rec : /\ Typed(rec) /\ job' = [job EXCEPT ![j] = rec] /\ rec.pc \in {"idle", "store"}
                 /\ (rec.pc = "idle" \/ jobLock' = jobLock) /\ OnlyOn(rec, at)
  BY <1>1, Finishes
<1>3. /\ at \in Slots /\ row \in [Slots -> RowRec] /\ RowSound
      /\ unforced \in [Slots -> Nat] /\ excused \in [Slots -> Nat]
      /\ unforced[at] \in Nat /\ excused[at] \in Nat
  BY <1>1, AtWork
<1>4. \/ job[j].pc = "record" /\ excused' = [excused EXCEPT ![at] = @ + 1]
      \/ job[j].pc = "store" /\ excused' = excused
  BY DEF RecordFails, Store, StoreFails, ghostVars
<1>5. job[j].slot = at
  OBVIOUS
<1> HIDE DEF at
<1>6. /\ excused' \in [Slots -> Nat] /\ \A s \in Slots \ {at} : excused'[s] = excused[s]
      /\ \/ job[j].pc = "record" /\ excused'[at] = excused[at] + 1
         \/ job[j].pc = "store" /\ excused'[at] = excused[at]
  BY <1>3, <1>4, Excused
<1>7. row' \in [Slots -> RowRec] /\ RowSound' /\ unforced' \in [Slots -> Nat]
  BY <1>1, <1>3 DEF RowSound
<1>8. Allowed(View(job[j], row[at].ok, at), View(rec, row'[at].ok, at))
  BY <1>1, <1>2 DEF Allowed, View
<1>9. Balanced(job[j], row[at].ok, unforced[at], excused[at], at)
        => Balanced(rec, row'[at].ok, unforced'[at], excused'[at], at)
  BY <1>1, <1>2, <1>3, <1>6 DEF Balanced, View
<1>10. /\ OnlyOn(rec, at) /\ job[j].pc # "idle" /\ UNCHANGED <<now, day>>
       /\ \A s \in Slots \ {at} : /\ row'[s].ok = row[s].ok
                                /\ unforced'[s] = unforced[s] /\ excused'[s] = excused[s]
  BY <1>1, <1>2, <1>6
<1> QED
  BY <1>2, <1>3, <1>5, <1>6, <1>7, <1>8, <1>9, <1>10, Works

----------------------------------------------------------------------------
\* A restart: whoever was at work gives up.
LEMMA RestartStep ==
    ASSUME BriefingInv, Restart
    PROVE  BriefingInv' /\ [Abstract!Next]_SlotState
<1> DEFINE Recording(s) == {j \in Jobs : job[j].pc = "record" /\ job[j].slot = s}
<1>1. /\ UNCHANGED <<now, day, row, unforced>> /\ job' = [j \in Jobs |-> IdleJob]
      /\ excused' = [s \in Slots |-> excused[s] + Cardinality(Recording(s))]
  BY DEF Restart
<1>2. ASSUME NEW s \in Slots
      PROVE  /\ Cardinality(Recording(s)) \in Nat
             /\ Recording(s) # {} => Cardinality(Recording(s)) = 1
  <2>1. CASE Recording(s) = {}
    <3>1. Cardinality({}) = 0
      BY FS_EmptySet
    <3> HIDE DEF Recording
    <3> QED
      BY <2>1, <3>1
  <2>2. CASE Recording(s) # {}
    <3>1. Recording(s) = {jobLock}
      BY <2>2 DEF BriefingInv, JobInv, LockHeld
    <3>2. Cardinality({jobLock}) = 1
      BY FS_Singleton
    <3> HIDE DEF Recording
    <3> QED
      BY <3>1, <3>2
  <2> QED
    BY <2>1, <2>2
<1>3. \A j \in Jobs : job'[j] = IdleJob /\ job'[j].pc = "idle"
  BY <1>1 DEF IdleJob
<1>4. JobShape(job') /\ LockHeld'
  <2>1. PICK R : IdleJob \in JobRec(R)
    BY IdleTyped DEF Typed
  <2>2. job' \in [Jobs -> JobRec(R)]
    BY <1>1, <2>1
  <2> QED
    BY <1>3, <2>2 DEF JobShape, LockHeld
<1>5. unforced \in [Slots -> Nat] /\ excused \in [Slots -> Nat] /\ row \in [Slots -> RowRec]
  BY DEF BriefingInv, JobInv, Shape
<1> HIDE DEF Recording
<1>6. excused' \in [Slots -> Nat] /\ \A s \in Slots : excused'[s] = excused[s] + Cardinality(Recording(s))
  BY <1>1, <1>2, <1>5
<1>7. \A s \in Slots : SlotState'[s] = IF row[s].ok THEN "done" ELSE "free"
  BY <1>1, <1>3 DEF SlotState, Holder
<1>8. \A s \in Slots : SlotState[s] = "done" <=> row[s].ok
  BY DEF SlotState
<1>9. \A s \in Slots : SlotState[s] \in {"free", "held"} \/ row[s].ok \/ Recording(s) # {}
  BY DEF SlotState, Holder, Recording
<1>10. Accounted'
  <2>1. ASSUME NEW s \in Slots
        PROVE  /\ unforced'[s] <= 1 + excused'[s]
               /\ SlotState'[s] \in {"free", "held"} => unforced'[s] <= excused'[s]
    <3>1. /\ unforced'[s] = unforced[s] /\ unforced[s] \in Nat /\ excused[s] \in Nat
          /\ unforced[s] <= 1 + excused[s]
          /\ SlotState[s] \in {"free", "held"} => unforced[s] <= excused[s]
      BY <1>1, <1>5 DEF BriefingInv, Accounted
    <3> QED
      BY <1>2, <1>6, <1>7, <1>9, <3>1
  <2> QED
    BY <1>3, <2>1 DEF Accounted
<1>11. Abstract!Restart
  <2>1. SlotState' = [s \in Slots |-> SlotState'[s]]
    BY DEF SlotState
  <2>2. \A s \in Slots : SlotState'[s] = IF SlotState[s] = "done" THEN "done" ELSE "free"
    BY <1>7, <1>8
  <2>3. PICK left \in SUBSET Slots : left = {}
    OBVIOUS
  <2>4. SlotState' = [s \in Slots |-> IF SlotState[s] = "done" \/ s \in left
                                     THEN "done" ELSE "free"]
    BY <2>1, <2>2, <2>3
  <2> QED
    BY <2>4 DEF Abstract!Restart
<1>12. RowSound'
  BY <1>1 DEF BriefingInv, JobInv, RowSound
<1> QED
  BY <1>1, <1>4, <1>5, <1>6, <1>10, <1>11, <1>12 DEF BriefingInv, JobInv, Shape, Abstract!Next

\* A step aside changes no slot.
LEMMA AsideStep ==
    ASSUME BriefingInv, Aside
    PROVE  BriefingInv' /\ [Abstract!Next]_SlotState
<1>1. SlotState' = SlotState
  BY DEF Aside, SlotState, Holder
<1>2. Accounted'
  BY <1>1 DEF Aside, BriefingInv, Accounted
<1>3. RowSound' /\ LockHeld' /\ Shape'
  BY DEF Aside, BriefingInv, JobInv, Shape, RowSound, LockHeld
<1> QED
  BY <1>1, <1>2, <1>3 DEF BriefingInv, JobInv

LEMMA BriefingInit ==
    ASSUME Init
    PROVE  BriefingInv /\ Abstract!Init
<1>1. \A j \in Jobs : job[j] = IdleJob /\ job[j].pc = "idle"
  BY DEF Init, IdleJob
<1>2. \A s \in Slots : row[s] = NoRow /\ ~row[s].ok
  BY DEF Init, NoRow
<1>3. SlotState = [s \in Slots |-> "free"]
  BY <1>1, <1>2 DEF SlotState, Holder
<1>4. JobShape(job)
  <2>1. PICK R : IdleJob \in JobRec(R)
    BY IdleTyped DEF Typed
  <2>2. job \in [Jobs -> JobRec(R)]
    BY <2>1 DEF Init
  <2> QED
    BY <2>2 DEF JobShape
<1>5. Shape
  <2>1. NoRow \in RowRec
    BY DEF NoRow, RowRec
  <2> QED
    BY <1>4, <2>1, BriefingAssumption DEF Init, Shape
<1>6. Accounted
  BY <1>1, <1>3 DEF Init, Accounted
<1>7. LockHeld /\ RowSound
  BY <1>1, <1>2 DEF LockHeld, RowSound
<1> QED
  BY <1>3, <1>5, <1>6, <1>7 DEF BriefingInv, JobInv, Abstract!Init

LEMMA BriefingStep ==
    ASSUME BriefingInv, Next
    PROVE  BriefingInv' /\ [Abstract!Next]_SlotState
<1>1. ASSUME NEW j \in Jobs, JobStep(j)
      PROVE  BriefingInv' /\ [Abstract!Next]_SlotState
  BY <1>1, Starts, AssembleStep, SendWorksStep, SendLost, RecordStep, EndStep DEF JobStep
<1>2. ASSUME NEW t \in Tappers, TapStep(t)
      PROVE  BriefingInv' /\ [Abstract!Next]_SlotState
  BY <1>2, TapAside, AsideStep DEF BriefingInv
<1>3. CASE ~(\E j \in Jobs : JobStep(j)) /\ ~(\E t \in Tappers : TapStep(t)) /\ ~Restart
  BY <1>3, WorldAside, AsideStep DEF BriefingInv
<1> QED
  BY <1>1, <1>2, <1>3, RestartStep

\* The invariant holds for every number of requests, days, items, users and faults.
THEOREM BriefingAlways == Spec => []BriefingInv
<1>1. BriefingInv /\ UNCHANGED vars => BriefingInv'
  <2>1. ASSUME UNCHANGED vars
        PROVE  UNCHANGED <<now, day, row, job, jobLock, unforced, excused, SlotState>>
    BY <2>1 DEF vars, SlotState, Holder
  <2>2. ASSUME BriefingInv, UNCHANGED <<now, day, row, job, jobLock, unforced, excused, SlotState>>
        PROVE  Shape' /\ LockHeld' /\ RowSound' /\ Accounted'
    BY <2>2 DEF BriefingInv, JobInv, Shape, LockHeld, RowSound, Accounted
  <2> QED
    BY <2>1, <2>2 DEF BriefingInv, JobInv
<1> QED
  BY BriefingInit, BriefingStep, <1>1, PTL DEF Spec

\* A day's briefing goes out once, and once more for each fault that hid it, whoever
\* asks and retries, and whatever is tapped meanwhile.
THEOREM SentOnceAlways == Spec => []SentOnce
<1>1. BriefingInv => SentOnce
  BY DEF BriefingInv, Accounted, SentOnce
<1> QED
  BY BriefingAlways, <1>1, PTL

\* The briefing's claim, send and record are a once-a-day message.
THEOREM BriefingRefines == Spec => OncePerDaySpec
<1>1. BriefingInv /\ Next => [Abstract!Next]_SlotState
  BY BriefingStep
<1>2. UNCHANGED vars => UNCHANGED SlotState
  BY DEF vars, SlotState, Holder
<1>3. BriefingInv /\ [Next]_vars => [Abstract!Next]_SlotState
  BY <1>1, <1>2
<1> QED
  BY BriefingInit, BriefingAlways, <1>3, PTL DEF Spec, OncePerDaySpec, Abstract!Spec

----------------------------------------------------------------------------
\* What a briefing lists, as a recursion over Items: it is one of their sequences.

\* What the function Listed is defined by asks of each of its values.
NextListed(f, n, down) ==
  IF n = 0 THEN <<>>
  ELSE IF status[Items[n]] = "live" /\ KindOf[Items[n]] \notin down
       THEN Append(f[n - 1], Items[n]) ELSE f[n - 1]
UpTo(f, n, down) ==
  /\ f = [i \in 0..n |-> NextListed(f, i, down)]
  /\ \A i \in 0..n : f[i] \in Seq(ItemSet) /\ Len(f[i]) <= i

LEMMA Least ==
    ASSUME NEW T, T \subseteq Nat, T # {}
    PROVE  \E x \in T : \A y \in T : x <= y
<1> DEFINE R == {ss \in Nat \X Nat : ss[1] < ss[2]}
<1>1. IsWellFoundedOn(R, Nat)
  BY NatLessThanWellFounded DEF OpToRel
<1> HIDE DEF R
<1>2. PICK m \in T : \A k \in T : <<k, m>> \notin R
  BY <1>1, WFMin
<1>3. \A k \in T : k \in Nat /\ m \in Nat /\ ~(k < m)
  BY <1>2 DEF R
<1> QED
  BY <1>3

\* Such a function exists up to every place, or there were a least one it does not reach.
LEMMA UpToExists ==
    ASSUME NEW down, NEW n \in 0..Len(Items)
    PROVE  \E f : UpTo(f, n, down)
<1> DEFINE T == {k \in 0..Len(Items) : ~ \E f : UpTo(f, k, down)}
<1>1. Items \in Seq(ItemSet) /\ Len(Items) \in Nat
  BY ItemsAssumption, LenProperties
<1>2. SUFFICES ASSUME T # {} PROVE FALSE
  OBVIOUS
<1>3. PICK m \in T : \A y \in T : m <= y
  <2>1. T \subseteq Nat
    BY <1>1
  <2> HIDE DEF T
  <2> QED
    BY <1>2, <2>1, Least
<1>4. m \in 0..Len(Items) /\ ~ \E f : UpTo(f, m, down)
  OBVIOUS
<1>5. CASE m = 0
  <2> DEFINE f == [i \in 0..0 |-> <<>>]
  <2>1. f = [i \in 0..0 |-> NextListed(f, i, down)]
    BY DEF NextListed
  <2>2. \A i \in 0..0 : f[i] \in Seq(ItemSet) /\ Len(f[i]) <= i
    <3>1. <<>> \in Seq(ItemSet) /\ Len(<<>>) = 0
      BY EmptySeq
    <3> QED
      BY <3>1
  <2> HIDE DEF f
  <2> QED
    BY <1>4, <1>5, <2>1, <2>2 DEF UpTo
<1>6. CASE m # 0
  <2>1. m - 1 \in 0..Len(Items) /\ m - 1 \notin T
    BY <1>1, <1>3, <1>4, <1>6
  <2>2. PICK g : UpTo(g, m - 1, down)
    BY <2>1
  <2> DEFINE last == NextListed(g, m, down)
             f == [i \in 0..m |-> IF i = m THEN last ELSE g[i]]
  <2>3. last \in Seq(ItemSet) /\ Len(last) <= m
    <3>1. g[m - 1] \in Seq(ItemSet) /\ Len(g[m - 1]) <= m - 1
      BY <1>1, <1>4, <1>6, <2>2 DEF UpTo
    <3>2. Items[m] \in ItemSet
      BY <1>1, <1>4, <1>6, ElementOfSeq
    <3>3. /\ Append(g[m - 1], Items[m]) \in Seq(ItemSet)
          /\ Len(Append(g[m - 1], Items[m])) = Len(g[m - 1]) + 1
      BY <3>1, <3>2, AppendProperties
    <3>4. Len(g[m - 1]) \in Nat
      BY <3>1, LenProperties
    <3> QED
      BY <1>4, <1>6, <3>1, <3>3, <3>4 DEF NextListed
  <2>4. \A i \in 0..m-1 : g[i] = NextListed(g, i, down) /\ g[i] \in Seq(ItemSet) /\ Len(g[i]) <= i
    BY <2>2 DEF UpTo
  <2>5. \A i \in 0..m-1 : f[i] = g[i]
    BY <1>1, <1>4
  <2>6. f[m] = last
    BY <1>1, <1>4
  <2>7. \A i \in 0..m : f[i] = NextListed(f, i, down)
    <3>1. ASSUME NEW i \in 0..m-1
          PROVE  f[i] = NextListed(f, i, down)
      <4>1. f[i] = NextListed(g, i, down)
        BY <2>4, <2>5
      <4>2. i # 0 => f[i - 1] = g[i - 1]
        BY <1>1, <1>4, <2>5
      <4> HIDE DEF f
      <4> QED
        BY <4>1, <4>2 DEF NextListed
    <3>2. f[m] = NextListed(f, m, down)
      <4>1. f[m - 1] = g[m - 1]
        BY <1>1, <1>4, <1>6, <2>5
      <4>2. f[m] = NextListed(g, m, down)
        BY <2>6
      <4> HIDE DEF f, last
      <4> QED
        BY <1>6, <4>1, <4>2 DEF NextListed
    <3> HIDE DEF f
    <3> QED
      BY <1>1, <1>4, <3>1, <3>2
  <2>8. \A i \in 0..m : f[i] \in Seq(ItemSet) /\ Len(f[i]) <= i
    <3> HIDE DEF last
    <3>1. \A i \in 0..m : i = m \/ i \in 0..m-1
      BY <1>1, <1>4
    <3> QED
      BY <2>3, <2>4, <2>5, <2>6, <3>1
  <2>9. f = [i \in 0..m |-> NextListed(f, i, down)]
    <3>1. f = [i \in 0..m |-> f[i]]
      OBVIOUS
    <3> HIDE DEF f
    <3> QED
      BY <2>7, <3>1
  <2> HIDE DEF f
  <2> QED
    BY <1>4, <2>8, <2>9 DEF UpTo
<1> QED
  BY <1>5, <1>6

\* A list is a sequence of the items, no longer than they are.
Refs == {r \in Seq(ItemSet) : Len(r) <= Len(Items)}

LEMMA ListedIsRefs ==
    ASSUME NEW down
    PROVE  Listed(down) \in Refs
<1> DEFINE N == Len(Items)
           h == CHOOSE g : g = [n \in 0..N |->
                  IF n = 0 THEN <<>>
                  ELSE IF status[Items[n]] = "live" /\ KindOf[Items[n]] \notin down
                       THEN Append(g[n - 1], Items[n]) ELSE g[n - 1]]
<1>1. N \in Nat
  BY ItemsAssumption, LenProperties
<1>2. PICK f : UpTo(f, N, down)
  BY <1>1, UpToExists
<1>3. h = [n \in 0..N |->
             IF n = 0 THEN <<>>
             ELSE IF status[Items[n]] = "live" /\ KindOf[Items[n]] \notin down
                  THEN Append(h[n - 1], Items[n]) ELSE h[n - 1]]
  BY <1>2 DEF UpTo, NextListed
<1>4. Listed(down) = h[N]
  BY DEF Listed
<1> HIDE DEF h
<1>5. \A n \in 0..N : h[n] = NextListed(h, n, down)
  BY <1>3 DEF NextListed
<1>6. \A n \in 0..N : f[n] = NextListed(f, n, down)
  BY <1>2 DEF UpTo
<1>7. {n \in 0..N : h[n] # f[n]} = {}
  <2> DEFINE T == {n \in 0..N : h[n] # f[n]}
  <2> SUFFICES ASSUME T # {} PROVE FALSE
    OBVIOUS
  <2>1. PICK m \in T : \A y \in T : m <= y
    <3>1. T \subseteq Nat
      BY <1>1
    <3> HIDE DEF T
    <3> QED
      BY <3>1, Least
  <2>2. m \in 0..N /\ h[m] # f[m]
    OBVIOUS
  <2>3. m # 0 => m - 1 \in 0..N /\ h[m - 1] = f[m - 1]
    BY <1>1, <2>1, <2>2
  <2>4. NextListed(h, m, down) = NextListed(f, m, down)
    BY <2>3 DEF NextListed
  <2> QED
    BY <1>5, <1>6, <2>2, <2>4
<1>8. h[N] = f[N] /\ N \in 0..N
  BY <1>1, <1>7
<1>9. f[N] \in Seq(ItemSet) /\ Len(f[N]) <= N
  BY <1>2, <1>8 DEF UpTo
<1> QED
  BY <1>4, <1>8, <1>9 DEF Refs

----------------------------------------------------------------------------
\* The chat and the jobs that write to it.

ShownRec == [kind : Kinds, day : 1..MaxDay, refs : Refs]

\* Sent, and its snapshot not stored yet.
Delivering(r) == r.pc \in {"record", "store"} /\ r.ok

ToStore(r, chat) ==
  /\ r.msg \in DOMAIN chat /\ r.hasId \in BOOLEAN
  /\ chat[r.msg] = [kind |-> r.slot[2], day |-> r.slot[1], refs |-> r.refs]

WellMade(r, chat) ==
  /\ r.refs \in Refs
  /\ r.pc \in {"assemble", "send"} => Len(chat) < MaxMsgs
  /\ r.pc = "store" => r.ok
  /\ Delivering(r) => ToStore(r, chat)

Chat ==
  /\ shown \in Seq(ShownRec) /\ Len(shown) <= MaxMsgs
  /\ \A j \in Jobs : WellMade(job[j], shown)

\* What a step may do to the chat, and which snapshot a job may have left to store.
ChatGrows ==
  /\ \A m \in DOMAIN shown : m \in DOMAIN shown' /\ shown'[m] = shown[m]
  /\ \A m \in DOMAIN shown' : m \in DOMAIN shown \/ m = Len(shown) + 1
  /\ \A j \in Jobs : Delivering(job'[j]) =>
       \/ Delivering(job[j]) /\ job'[j].msg = job[j].msg
       \/ job'[j].msg = Len(shown) + 1

LEMMA NoRefs == <<>> \in Refs /\ Len(Items) \in Nat
  BY ItemsAssumption, LenProperties, EmptySeq DEF Refs

LEMMA RefsOf ==
    ASSUME NEW r \in Refs
    PROVE  /\ DOMAIN r \subseteq Numbers /\ DOMAIN r = 1..Len(r) /\ Len(r) \in Nat
           /\ \A n \in DOMAIN r : r[n] \in ItemSet
<1>1. r \in Seq(ItemSet) /\ Len(r) <= Len(Items) /\ Len(Items) \in Nat
  BY NoRefs DEF Refs
<1>2. Len(r) \in Nat /\ DOMAIN r = 1..Len(r) /\ r \in [1..Len(r) -> ItemSet]
  BY <1>1, LenProperties
<1> QED
  BY <1>1, <1>2 DEF Numbers

LEMMA ShownIs ==
    ASSUME Chat
    PROVE  /\ Len(shown) \in Nat /\ DOMAIN shown = 1..Len(shown) /\ DOMAIN shown \subseteq Msgs
           /\ \A m \in DOMAIN shown : shown[m] \in ShownRec
<1>1. shown \in Seq(ShownRec) /\ Len(shown) <= MaxMsgs /\ MaxMsgs \in Nat
  BY BriefingAssumption DEF Chat
<1>2. Len(shown) \in Nat /\ DOMAIN shown = 1..Len(shown) /\ shown \in [1..Len(shown) -> ShownRec]
  BY <1>1, LenProperties
<1> QED
  BY <1>1, <1>2 DEF Msgs

LEMMA OthersKeepChat ==
    ASSUME Next, ~(\E j \in Jobs : JobStep(j)), ~Restart
    PROVE  UNCHANGED <<shown, job, jobLock, forcedFirst>>
<1>1. ASSUME NEW t \in Tappers, TapStep(t)
      PROVE  UNCHANGED <<shown, job, jobLock, forcedFirst>>
  BY <1>1 DEF TapStep, Tap, Reply, TapRemind, TapAct, TapActFails, TapSave, TapSaveFails, ghostVars
<1> QED
  BY <1>1 DEF Next, Feedback, UserWrites, ToolConfirm, Arrive, Tick, NextDay, ghostVars

LEMMA JobsKeepTaps ==
    ASSUME NEW j \in Jobs, JobStep(j)
    PROVE  UNCHANGED <<status, tapVars>> /\ (Store(j) \/ UNCHANGED snapVars)
  BY DEF JobStep, StartClaimed, StartUnclaimed, StartForced, Assemble, SendWorks, SendFails,
         SendAnswerLost, Record, RecordFails, Store, StoreFails

\* A step of the one job at work.
LEMMA ChatMoves ==
    ASSUME JobInv, Chat, NEW j \in Jobs, \A i \in Jobs \ {j} : job[i].pc = "idle",
           NEW rec, job' = [job EXCEPT ![j] = rec],
           shown' = shown \/ \E e \in ShownRec : shown' = Append(shown, e) /\ Len(shown) < MaxMsgs,
           WellMade(rec, shown'),
           Delivering(rec) => \/ Delivering(job[j]) /\ rec.msg = job[j].msg
                              \/ rec.msg = Len(shown) + 1
    PROVE  Chat' /\ ChatGrows
<1>1. job'[j] = rec /\ \A i \in Jobs \ {j} : job'[i] = job[i]
  BY DEF JobInv, Shape, JobShape
<1>2. /\ Len(shown) \in Nat /\ MaxMsgs \in Nat /\ DOMAIN shown = 1..Len(shown)
      /\ shown \in Seq(ShownRec) /\ Len(shown) <= MaxMsgs
  BY ShownIs, BriefingAssumption DEF Chat
<1>3. /\ shown' \in Seq(ShownRec) /\ Len(shown') <= MaxMsgs
      /\ \A m \in DOMAIN shown : m \in DOMAIN shown' /\ shown'[m] = shown[m]
      /\ \A m \in DOMAIN shown' : m \in DOMAIN shown \/ m = Len(shown) + 1
  <2>1. CASE shown' = shown
    BY <1>2, <2>1
  <2>2. CASE \E e \in ShownRec : shown' = Append(shown, e) /\ Len(shown) < MaxMsgs
    <3> PICK e \in ShownRec : shown' = Append(shown, e) /\ Len(shown) < MaxMsgs
      BY <2>2
    <3> DEFINE new == Append(shown, e)
    <3>1. /\ new \in Seq(ShownRec) /\ Len(new) = Len(shown) + 1
          /\ \A m \in 1..Len(shown) : new[m] = shown[m]
      <4>1. shown \in Seq(ShownRec)
        BY <1>2
      <4> QED
        BY <4>1, AppendProperties
    <3>2. DOMAIN new = 1..Len(new)
      BY <3>1, LenProperties
    <3> HIDE DEF new
    <3>3. shown' = new
      BY DEF new
    <3> QED
      BY <1>2, <3>1, <3>2, <3>3
  <2> QED
    BY <2>1, <2>2
<1>4. ASSUME NEW i \in Jobs
      PROVE  WellMade(job'[i], shown')
  <2>1. CASE i = j
    BY <1>1, <2>1
  <2>2. CASE i # j
    <3>1. job'[i] = job[i] /\ job[i].pc = "idle" /\ job[i].refs \in Refs
      BY <1>1, <2>2 DEF Chat, WellMade
    <3> QED
      BY <3>1 DEF WellMade, Delivering
  <2> QED
    BY <2>1, <2>2
<1>5. ASSUME NEW i \in Jobs, Delivering(job'[i])
      PROVE  \/ Delivering(job[i]) /\ job'[i].msg = job[i].msg
             \/ job'[i].msg = Len(shown) + 1
  BY <1>1, <1>5 DEF Delivering
<1> QED
  BY <1>3, <1>4, <1>5 DEF Chat, ChatGrows

\* The job at work and its fields.
LEMMA JobFields ==
    ASSUME JobInv, NEW j \in Jobs
    PROVE  /\ \E R : job[j] \in JobRec(R)
           /\ job[j].pc # "idle" => /\ \A i \in Jobs \ {j} : job[i].pc = "idle"
                                    /\ job[j].slot \in Slots
  BY Alone DEF JobInv, Shape, JobShape, LockHeld

\* What Telegram shows is what the job assembled.
LEMMA DeliveredIs ==
    ASSUME JobInv, Chat, NEW j \in Jobs, job[j].pc = "send", Delivered(j)
    PROVE  LET e == [kind |-> job[j].slot[2], day |-> job[j].slot[1], refs |-> job[j].refs] IN
           /\ e \in ShownRec /\ shown' = Append(shown, e) /\ Len(shown) < MaxMsgs
           /\ Len(shown) + 1 \in DOMAIN shown' /\ shown'[Len(shown) + 1] = e
<1> DEFINE e == [kind |-> job[j].slot[2], day |-> job[j].slot[1], refs |-> job[j].refs]
           new == Append(shown, e)
<1>1. job[j].slot \in Slots /\ WellMade(job[j], shown) /\ shown \in Seq(ShownRec)
  BY JobFields DEF Chat
<1>2. e \in ShownRec
  BY <1>1 DEF Slots, ShownRec, WellMade
<1>3. shown' = new /\ Len(shown) < MaxMsgs
  BY <1>1 DEF Delivered, WellMade
<1> HIDE DEF e
<1>4. /\ new \in Seq(ShownRec) /\ Len(new) = Len(shown) + 1 /\ new[Len(shown) + 1] = e
  BY <1>1, <1>2, AppendProperties
<1>5. DOMAIN new = 1..Len(new) /\ Len(shown) \in Nat
  BY <1>1, <1>4, LenProperties
<1>6. Len(shown) + 1 \in DOMAIN new
  BY <1>4, <1>5
<1>7. shown' = Append(shown, e)
  BY <1>3
<1> HIDE DEF new
<1> QED
  BY <1>2, <1>3, <1>4, <1>6, <1>7 DEF e

LEMMA ChatStarts ==
    ASSUME JobInv, Chat, NEW j \in Jobs, NEW s, NEW c,
           JobFree(j), Len(shown) < MaxMsgs, Go(j, s, c), shown' = shown
    PROVE  Chat' /\ ChatGrows
<1> DEFINE rec == [IdleJob EXCEPT !.pc = "assemble", !.slot = s, !.claimed = c]
<1>1. rec.pc = "assemble" /\ rec.refs = <<>> /\ job' = [job EXCEPT ![j] = rec]
  BY DEF IdleJob, Go
<1>2. \A i \in Jobs \ {j} : job[i].pc = "idle"
  BY Alone DEF JobFree
<1> HIDE DEF rec
<1>3. WellMade(rec, shown')
  BY <1>1, NoRefs DEF WellMade, Delivering
<1>4. ~Delivering(rec)
  BY <1>1 DEF Delivering
<1> QED
  BY <1>1, <1>2, <1>3, <1>4, ChatMoves

LEMMA ChatAssembles ==
    ASSUME JobInv, Chat, NEW j \in Jobs, NEW down, Assemble(j, down)
    PROVE  Chat' /\ ChatGrows
<1> DEFINE listed == Listed(down)
           rec == [job[j] EXCEPT !.pc = "send", !.refs = listed]
<1>1. job[j].pc = "assemble" /\ shown' = shown
      /\ job' = [job EXCEPT ![j].pc = "send", ![j].refs = listed]
  BY DEF Assemble, ghostVars
<1>2. listed \in Refs
  BY ListedIsRefs
<1> HIDE DEF listed
<1>3. PICK R : job[j] \in JobRec(R)
  BY JobFields
<1>4. job' = [job EXCEPT ![j] = rec]
  BY <1>1 DEF JobInv, Shape, JobShape, JobRec
<1>5. rec.pc = "send" /\ rec.refs = listed
  BY <1>3 DEF JobRec
<1>6. \A i \in Jobs \ {j} : job[i].pc = "idle"
  BY <1>1, JobFields
<1> HIDE DEF rec
<1>7. WellMade(rec, shown') /\ ~Delivering(rec)
  BY <1>1, <1>2, <1>5 DEF WellMade, Delivering, Chat
<1> QED
  BY <1>1, <1>4, <1>6, <1>7, ChatMoves

LEMMA ChatSends ==
    ASSUME JobInv, Chat, NEW j \in Jobs, NEW hasId \in BOOLEAN, SendWorks(j, hasId)
    PROVE  Chat' /\ ChatGrows
<1> DEFINE id == Len(shown) + 1
           e == [kind |-> job[j].slot[2], day |-> job[j].slot[1], refs |-> job[j].refs]
           rec == [job[j] EXCEPT !.pc = "record", !.ok = TRUE, !.msg = id, !.hasId = hasId]
<1>1. job[j].pc = "send" /\ Delivered(j)
      /\ job' = [job EXCEPT ![j].pc = "record", ![j].ok = TRUE, ![j].msg = id, ![j].hasId = hasId]
  BY DEF SendWorks
<1>2. /\ e \in ShownRec /\ shown' = Append(shown, e) /\ Len(shown) < MaxMsgs
      /\ id \in DOMAIN shown' /\ shown'[id] = e
  BY <1>1, DeliveredIs
<1>3. PICK R : job[j] \in JobRec(R)
  BY JobFields
<1>4. job' = [job EXCEPT ![j] = rec]
  BY <1>1 DEF JobInv, Shape, JobShape, JobRec
<1>5. /\ rec.pc = "record" /\ rec.ok /\ rec.msg = id /\ rec.hasId = hasId
      /\ rec.slot = job[j].slot /\ rec.refs = job[j].refs
  BY <1>3 DEF JobRec
<1>6. \A i \in Jobs \ {j} : job[i].pc = "idle"
  BY <1>1, JobFields
<1> HIDE DEF rec
<1>7. rec.refs \in Refs
  BY <1>5 DEF Chat, WellMade
<1>8. ToStore(rec, shown')
  BY <1>2, <1>5 DEF ToStore
<1>9. WellMade(rec, shown') /\ rec.msg = Len(shown) + 1
  BY <1>5, <1>7, <1>8 DEF WellMade
<1> HIDE DEF e
<1> QED
  BY <1>2, <1>4, <1>6, <1>9, ChatMoves

LEMMA ChatLoses ==
    ASSUME JobInv, Chat, NEW j \in Jobs, SendFails(j) \/ SendAnswerLost(j)
    PROVE  Chat' /\ ChatGrows
<1> DEFINE rec == [job[j] EXCEPT !.pc = "record", !.ok = FALSE]
<1>1. job[j].pc = "send" /\ job' = [job EXCEPT ![j].pc = "record", ![j].ok = FALSE]
      /\ (shown' = shown \/ Delivered(j))
  BY DEF SendFails, SendAnswerLost, ghostVars
<1>2. shown' = shown \/ \E e \in ShownRec : shown' = Append(shown, e) /\ Len(shown) < MaxMsgs
  BY <1>1, DeliveredIs
<1>3. PICK R : job[j] \in JobRec(R)
  BY JobFields
<1>4. job' = [job EXCEPT ![j] = rec]
  BY <1>1 DEF JobInv, Shape, JobShape, JobRec
<1>5. rec.pc = "record" /\ ~rec.ok /\ rec.refs = job[j].refs
  BY <1>3 DEF JobRec
<1>6. \A i \in Jobs \ {j} : job[i].pc = "idle"
  BY <1>1, JobFields
<1> HIDE DEF rec
<1>7. WellMade(rec, shown') /\ ~Delivering(rec)
  BY <1>5 DEF WellMade, Delivering, Chat
<1> QED
  BY <1>2, <1>4, <1>6, <1>7, ChatMoves

\* Recording and storing: the job keeps what it has to store, or is done.
LEMMA ChatEnds ==
    ASSUME JobInv, Chat, NEW j \in Jobs, Record(j) \/ RecordFails(j) \/ Store(j) \/ StoreFails(j)
    PROVE  Chat' /\ ChatGrows
<1>1. job[j].pc \in {"record", "store"} /\ shown' = shown
      /\ ((AfterRecord(j) /\ job[j].pc = "record") \/ EndJob(j))
  BY DEF Record, RecordFails, Store, StoreFails, ghostVars
<1>2. \A i \in Jobs \ {j} : job[i].pc = "idle"
  BY <1>1, JobFields
<1>3. CASE job' = [job EXCEPT ![j] = IdleJob]
  <2>1. WellMade(IdleJob, shown') /\ ~Delivering(IdleJob)
    BY NoRefs DEF WellMade, Delivering, IdleJob
  <2> QED
    BY <1>1, <1>2, <1>3, <2>1, ChatMoves
<1>4. CASE job[j].pc = "record" /\ job[j].ok /\ job' = [job EXCEPT ![j].pc = "store"]
  <2> DEFINE rec == [job[j] EXCEPT !.pc = "store"]
  <2>1. PICK R : job[j] \in JobRec(R)
    BY JobFields
  <2>2. /\ rec.pc = "store" /\ rec.ok /\ rec.msg = job[j].msg /\ rec.hasId = job[j].hasId
        /\ rec.slot = job[j].slot /\ rec.refs = job[j].refs
    BY <1>4, <2>1 DEF JobRec
  <2>3. job' = [job EXCEPT ![j] = rec]
    BY <1>4
  <2> HIDE DEF rec
  <2>4. Delivering(job[j]) /\ WellMade(job[j], shown)
    BY <1>4 DEF Delivering, Chat
  <2>5. WellMade(rec, shown')
    BY <1>1, <2>2, <2>4 DEF WellMade, ToStore
  <2> QED
    BY <1>1, <1>2, <2>2, <2>3, <2>4, <2>5, ChatMoves
<1> QED
  BY <1>1, <1>3, <1>4 DEF AfterRecord, EndJob

LEMMA ChatStep ==
    ASSUME JobInv, Chat, Next
    PROVE  Chat' /\ ChatGrows
<1>1. ASSUME NEW j \in Jobs, JobStep(j)
      PROVE  Chat' /\ ChatGrows
  <2>1. ASSUME NEW k \in Kinds, StartClaimed(j, k) \/ StartUnclaimed(j, k) \/ StartForced(j, k)
        PROVE  Chat' /\ ChatGrows
    <3>1. /\ JobFree(j) /\ Len(shown) < MaxMsgs /\ shown' = shown
          /\ \E c : Go(j, <<day, k>>, c)
      BY <2>1 DEF StartClaimed, StartUnclaimed, StartForced, ghostVars
    <3> QED
      BY <3>1, ChatStarts
  <2>2. ASSUME NEW down, Assemble(j, down)
        PROVE  Chat' /\ ChatGrows
    BY <2>2, ChatAssembles
  <2> QED
    BY <1>1, <2>1, <2>2, ChatSends, ChatLoses, ChatEnds DEF JobStep
<1>2. CASE Restart
  <2>1. job' = [i \in Jobs |-> IdleJob] /\ shown' = shown
    BY <1>2 DEF Restart
  <2>2. WellMade(IdleJob, shown') /\ ~Delivering(IdleJob)
    BY NoRefs DEF WellMade, Delivering, IdleJob
  <2> QED
    BY <2>1, <2>2 DEF Chat, ChatGrows
<1>3. CASE ~(\E j \in Jobs : JobStep(j)) /\ ~Restart
  BY <1>3, OthersKeepChat DEF Chat, ChatGrows
<1> QED
  BY <1>1, <1>2, <1>3

----------------------------------------------------------------------------
\* The snapshots, and the taps that hold one.

SnapRec == [msg : 0..MaxMsgs, hasId : BOOLEAN, day : 0..MaxDay, refs : Refs,
            done : SUBSET Numbers, reminded : SUBSET Numbers]
TapRec == [pc : {"idle", "act", "save"}, msg : Nat, n : Nat, act : {"none", "rm", "no"},
           kind : Kinds \cup {"none"}, snap : SnapRec]

\* A snapshot says what its message shows.
SnapTrue(s, k, chat) ==
  /\ s \in SnapRec /\ s.done \cup s.reminded \subseteq DOMAIN s.refs
  /\ s.msg = 0 => s = NoSnap
  /\ s.msg # 0 => /\ s.msg \in DOMAIN chat
                  /\ chat[s.msg] = [kind |-> k, day |-> s.day, refs |-> s.refs]

\* A tap works on a snapshot of its message that offered the action.
TapWell(r, chat) ==
  /\ r.pc \in {"act", "save"} /\ r.kind \in Kinds /\ r.act \in {"rm", "no"}
  /\ SnapTrue(r.snap, r.kind, chat) /\ r.snap.msg # 0 /\ r.msg \in {0, r.snap.msg}
  /\ r.n \in DOMAIN r.snap.refs
  /\ r.act = "rm" => r.n \notin r.snap.reminded

Held ==
  /\ tap \in [Tappers -> TapRec] /\ buttonLock \in Tappers \cup {Nobody}
  /\ \A t \in Tappers : IF tap[t].pc = "idle" THEN tap[t] = IdleTap
                        ELSE buttonLock = t /\ TapWell(tap[t], shown)

\* What a job has yet to store, no snapshot says.
Stored ==
  /\ latest \in [Kinds -> SnapRec] /\ \A k \in Kinds : SnapTrue(latest[k], k, shown)
  /\ lastKind \in Kinds \cup {"none"} /\ known \subseteq Msgs
  /\ \A j \in Jobs : Delivering(job[j]) =>
       /\ \A k \in Kinds : latest[k].msg # job[j].msg
       /\ \A t \in Tappers : tap[t].pc # "idle" => tap[t].snap.msg # job[j].msg

SnapsInv == Held /\ Stored

LEMMA NoSnapTrue ==
    ASSUME NEW k, NEW chat
    PROVE  NoSnap \in SnapRec /\ SnapTrue(NoSnap, k, chat) /\ DOMAIN NoSnap.refs = {} /\ NoSnap.msg = 0
<1>1. NoSnap \in SnapRec
  BY NoRefs, BriefingAssumption DEF NoSnap, SnapRec
<1>2. NoSnap.msg = 0 /\ NoSnap.done = {} /\ NoSnap.reminded = {} /\ NoSnap.refs = <<>>
  BY DEF NoSnap
<1> HIDE DEF NoSnap
<1> QED
  BY <1>1, <1>2 DEF SnapTrue

LEMMA IdleTapIs == IdleTap \in TapRec /\ IdleTap.pc = "idle"
  BY NoSnapTrue DEF IdleTap, TapRec

\* A longer chat contradicts no snapshot.
LEMMA SnapStays ==
    ASSUME ChatGrows, NEW s, NEW k, SnapTrue(s, k, shown)
    PROVE  SnapTrue(s, k, shown')
  BY DEF ChatGrows, SnapTrue

LEMMA TapStays ==
    ASSUME ChatGrows, NEW r, TapWell(r, shown)
    PROVE  TapWell(r, shown')
  BY SnapStays DEF TapWell

\* What a delivering job is about to store is newer than any snapshot.
LEMMA FreshStays ==
    ASSUME Chat, SnapsInv, ChatGrows, NEW j \in Jobs, Delivering(job'[j])
    PROVE  /\ \A k \in Kinds : latest[k].msg # job'[j].msg
           /\ \A t \in Tappers : tap[t].pc # "idle" => tap[t].snap.msg # job'[j].msg
<1>1. Len(shown) \in Nat /\ DOMAIN shown = 1..Len(shown)
  BY ShownIs
<1>2. CASE Delivering(job[j]) /\ job'[j].msg = job[j].msg
  BY <1>2 DEF SnapsInv, Stored
<1>3. CASE job'[j].msg = Len(shown) + 1
  <2>1. ASSUME NEW s, NEW k, SnapTrue(s, k, shown)
        PROVE  s.msg # Len(shown) + 1
    BY <1>1, <2>1 DEF SnapTrue
  <2> QED
    BY <1>3, <2>1 DEF SnapsInv, Stored, Held, TapWell
<1> QED
  BY <1>2, <1>3 DEF ChatGrows

\* A step that touches neither snapshots nor taps.
LEMMA SnapsQuiet ==
    ASSUME Chat, SnapsInv, ChatGrows, UNCHANGED <<latest, lastKind, known, tap, buttonLock>>
    PROVE  SnapsInv'
<1>1. Held'
  BY TapStays DEF SnapsInv, Held
<1>2. \A k \in Kinds : SnapTrue(latest'[k], k, shown')
  BY SnapStays DEF SnapsInv, Stored
<1>3. ASSUME NEW j \in Jobs, Delivering(job'[j])
      PROVE  /\ \A k \in Kinds : latest'[k].msg # job'[j].msg
             /\ \A t \in Tappers : tap'[t].pc # "idle" => tap'[t].snap.msg # job'[j].msg
  BY <1>3, FreshStays
<1>4. Stored'
  BY <1>2, <1>3 DEF SnapsInv, Stored
<1> QED
  BY <1>1, <1>4 DEF SnapsInv

\* A step of the tap that has, or gets, the button lock.
LEMMA TapMoves ==
    ASSUME Held, NEW t \in Tappers, buttonLock = Nobody \/ tap[t].pc # "idle",
           NEW rec \in TapRec, tap' = [tap EXCEPT ![t] = rec], shown' = shown,
           \/ rec = IdleTap /\ buttonLock' \in Tappers \cup {Nobody}
           \/ TapWell(rec, shown) /\ buttonLock' = t
    PROVE  /\ Held' /\ tap'[t] = rec
           /\ \A u \in Tappers \ {t} : tap[u].pc = "idle" /\ tap'[u] = tap[u]
<1>1. Nobody \notin Tappers
  BY BriefingAssumption
<1>2. \A u \in Tappers \ {t} : tap[u].pc = "idle" /\ tap[u] = IdleTap
  BY <1>1 DEF Held
<1>3. tap'[t] = rec /\ tap' \in [Tappers -> TapRec] /\ \A u \in Tappers \ {t} : tap'[u] = tap[u]
  BY DEF Held
<1>4. TapWell(rec, shown) => rec.pc # "idle"
  BY DEF TapWell
<1>5. ASSUME NEW u \in Tappers
      PROVE  IF tap'[u].pc = "idle" THEN tap'[u] = IdleTap
             ELSE buttonLock' = u /\ TapWell(tap'[u], shown')
  <2>1. CASE u = t
    BY <1>3, <1>4, <2>1, IdleTapIs
  <2>2. CASE u # t
    BY <1>2, <1>3, <2>2, IdleTapIs
  <2> QED
    BY <2>1, <2>2
<1> QED
  BY <1>2, <1>3, <1>5 DEF Held

\* The snapshots when only a tap moved.
LEMMA StoredAfterTap ==
    ASSUME SnapsInv, NEW t \in Tappers, NEW rec,
           tap'[t] = rec, \A u \in Tappers \ {t} : tap'[u] = tap[u],
           UNCHANGED <<latest, lastKind, known, shown, job>>,
           \/ rec.pc = "idle"
           \/ tap[t].pc # "idle" /\ rec.snap = tap[t].snap
           \/ \E k \in Kinds : rec.snap = latest[k]
    PROVE  Stored'
<1>1. ASSUME NEW j \in Jobs, Delivering(job'[j]), NEW u \in Tappers, tap'[u].pc # "idle"
      PROVE  tap'[u].snap.msg # job'[j].msg
  BY <1>1 DEF SnapsInv, Stored
<1> QED
  BY <1>1 DEF SnapsInv, Stored

\* The snapshot a tap or a reply reads is the stored one.
LEMMA OfferedIs ==
    ASSUME SnapsInv, NEW k \in Kinds, NEW n, NEW act,
           Offers(TodaySnapshot(k), k, n, act)
    PROVE  /\ TodaySnapshot(k) = latest[k] /\ latest[k].msg # 0 /\ n \in DOMAIN latest[k].refs
           /\ act = "rm" => n \notin latest[k].reminded
<1>1. n \in DOMAIN TodaySnapshot(k).refs /\ (act = "rm" => n \notin TodaySnapshot(k).reminded)
  BY DEF Offers, Remindable, Actionable
<1>2. DOMAIN NoSnap.refs = {}
  BY NoSnapTrue
<1> QED
  BY <1>1, <1>2 DEF TodaySnapshot

\* A tap or a reply begins.
LEMMA TapOpens ==
    ASSUME Chat, SnapsInv, NEW t \in Tappers, NEW n \in Numbers, NEW act \in {"rm", "no"},
           \/ \E m \in DOMAIN shown : Tap(t, m, n, act)
           \/ Reply(t, n, act)
    PROVE  \E k \in Kinds : \E m \in {0, latest[k].msg} :
              LET rec == [pc |-> "act", msg |-> m, n |-> n, act |-> act, kind |-> k, snap |-> latest[k]] IN
              /\ tap' = [tap EXCEPT ![t] = rec] /\ rec \in TapRec /\ TapWell(rec, shown)
              /\ tap[t].pc = "idle" /\ buttonLock = Nobody /\ buttonLock' = t
<1>1. ASSUME NEW k \in Kinds, NEW m \in {0, latest[k].msg},
             tap' = [tap EXCEPT ![t] = [pc |-> "act", msg |-> m, n |-> n, act |-> act,
                                        kind |-> k, snap |-> TodaySnapshot(k)]],
             Offers(TodaySnapshot(k), k, n, act), tap[t].pc = "idle", TakeButtons(t)
      PROVE  LET rec == [pc |-> "act", msg |-> m, n |-> n, act |-> act, kind |-> k, snap |-> latest[k]] IN
             /\ tap' = [tap EXCEPT ![t] = rec] /\ rec \in TapRec /\ TapWell(rec, shown)
             /\ tap[t].pc = "idle" /\ buttonLock = Nobody /\ buttonLock' = t
  <2> DEFINE rec == [pc |-> "act", msg |-> m, n |-> n, act |-> act, kind |-> k, snap |-> latest[k]]
  <2>1. /\ TodaySnapshot(k) = latest[k] /\ latest[k].msg # 0 /\ n \in DOMAIN latest[k].refs
        /\ act = "rm" => n \notin latest[k].reminded
    BY <1>1, OfferedIs
  <2>2. /\ latest[k] \in SnapRec /\ SnapTrue(latest[k], k, shown) /\ latest[k].msg \in Nat
        /\ n \in Nat
    BY BriefingAssumption, NoRefs DEF SnapsInv, Stored, SnapRec, Numbers
  <2>3. rec \in TapRec
    BY <2>2 DEF TapRec
  <2>4. TapWell(rec, shown)
    BY <2>1, <2>2 DEF TapWell
  <2> QED
    BY <1>1, <2>1, <2>3, <2>4 DEF TakeButtons
<1>2. CASE Reply(t, n, act)
  <2>1. PICK k \in Kinds :
           /\ Offers(TodaySnapshot(k), k, n, act) /\ tap[t].pc = "idle" /\ TakeButtons(t)
           /\ tap' = [tap EXCEPT ![t] = [pc |-> "act", msg |-> 0, n |-> n, act |-> act,
                                         kind |-> k, snap |-> TodaySnapshot(k)]]
    BY <1>2 DEF Reply
  <2> QED
    BY <1>1, <2>1
<1>3. ASSUME NEW m \in DOMAIN shown, Tap(t, m, n, act)
      PROVE  \E k \in Kinds :
                /\ Offers(TodaySnapshot(k), k, n, act) /\ tap[t].pc = "idle" /\ TakeButtons(t)
                /\ m = latest[k].msg
                /\ tap' = [tap EXCEPT ![t] = [pc |-> "act", msg |-> m, n |-> n, act |-> act,
                                              kind |-> k, snap |-> TodaySnapshot(k)]]
  <2> DEFINE k == shown[m].kind
  <2>1. k \in Kinds
    BY ShownIs DEF ShownRec
  <2>2. /\ Offers(TodaySnapshot(k), k, n, act) /\ tap[t].pc = "idle" /\ TakeButtons(t)
        /\ TodaySnapshot(k).msg = m
        /\ tap' = [tap EXCEPT ![t] = [pc |-> "act", msg |-> m, n |-> n, act |-> act,
                                      kind |-> k, snap |-> TodaySnapshot(k)]]
    BY <1>3 DEF Tap, SameMessage
  <2> HIDE DEF k
  <2>3. TodaySnapshot(k) = latest[k]
    BY <2>1, <2>2, OfferedIs
  <2> QED
    BY <2>1, <2>2, <2>3
<1>4. CASE \E m \in DOMAIN shown : Tap(t, m, n, act)
  BY <1>1, <1>3, <1>4
<1> QED
  BY <1>2, <1>4, <1>1

\* A tap that has the lock, and the snapshot it would store.
LEMMA TapAtWork ==
    ASSUME Held, NEW t \in Tappers, tap[t].pc # "idle"
    PROVE  tap[t] \in TapRec /\ TapWell(tap[t], shown) /\ buttonLock = t
  BY DEF Held

LEMMA TickedIs ==
    ASSUME Held, NEW t \in Tappers, tap[t].pc # "idle"
    PROVE  /\ SnapTrue(Ticked(t), tap[t].kind, shown) /\ Ticked(t).msg = tap[t].snap.msg
           /\ Ticked(t).refs = tap[t].snap.refs
           /\ Ticked(t).done = (IF tap[t].act = "rm" THEN tap[t].snap.done
                                ELSE tap[t].snap.done \cup {tap[t].n})
           /\ Ticked(t).reminded = (IF tap[t].act = "rm" THEN tap[t].snap.reminded \cup {tap[t].n}
                                    ELSE tap[t].snap.reminded)
<1> DEFINE s == tap[t].snap
           n == tap[t].n
           done == IF tap[t].act = "rm" THEN s.done ELSE s.done \cup {n}
           reminded == IF tap[t].act = "rm" THEN s.reminded \cup {n} ELSE s.reminded
           new == [s EXCEPT !.done = done, !.reminded = reminded]
<1>1. s \in SnapRec /\ SnapTrue(s, tap[t].kind, shown) /\ s.msg # 0 /\ n \in DOMAIN s.refs
  BY TapAtWork DEF TapWell, TapRec
<1>2. DOMAIN s.refs \subseteq Numbers
  BY <1>1, RefsOf DEF SnapRec
<1>3. Ticked(t) = new
  BY <1>1 DEF Ticked, SnapRec
<1>4. done \subseteq DOMAIN s.refs /\ reminded \subseteq DOMAIN s.refs
  BY <1>1 DEF SnapTrue
<1> HIDE DEF done, reminded
<1>5. /\ new \in SnapRec /\ new.msg = s.msg /\ new.refs = s.refs /\ new.day = s.day
      /\ new.done = done /\ new.reminded = reminded
  BY <1>1, <1>2, <1>4 DEF SnapRec
<1> HIDE DEF new, s, n
<1>6. SnapTrue(new, tap[t].kind, shown)
  BY <1>1, <1>4, <1>5 DEF SnapTrue
<1> QED
  BY <1>3, <1>5, <1>6 DEF s, n, done, reminded

LEMMA SnapsOpen ==
    ASSUME Chat, SnapsInv, NEW t \in Tappers, NEW n \in Numbers, NEW act \in {"rm", "no"},
           (\E m \in DOMAIN shown : Tap(t, m, n, act)) \/ Reply(t, n, act)
    PROVE  SnapsInv'
<1>1. UNCHANGED <<latest, lastKind, known, shown, job>>
  BY DEF Tap, Reply, snapVars, ghostVars
<1>2. PICK k \in Kinds : \E m \in {0, latest[k].msg} :
              LET rec == [pc |-> "act", msg |-> m, n |-> n, act |-> act, kind |-> k, snap |-> latest[k]] IN
              /\ tap' = [tap EXCEPT ![t] = rec] /\ rec \in TapRec /\ TapWell(rec, shown)
              /\ tap[t].pc = "idle" /\ buttonLock = Nobody /\ buttonLock' = t
  BY TapOpens
<1>3. PICK rec \in TapRec : /\ tap' = [tap EXCEPT ![t] = rec] /\ TapWell(rec, shown)
                            /\ buttonLock = Nobody /\ buttonLock' = t /\ rec.snap = latest[k]
  BY <1>2
<1>4. Held' /\ tap'[t] = rec /\ \A u \in Tappers \ {t} : tap'[u] = tap[u]
  BY <1>1, <1>3, TapMoves DEF SnapsInv
<1>5. Stored'
  BY <1>1, <1>3, <1>4, StoredAfterTap
<1> QED
  BY <1>4, <1>5 DEF SnapsInv

\* The action was done, and is to be saved; or the tap is over.
LEMMA TapGoesOn ==
    ASSUME SnapsInv, NEW t \in Tappers, tap[t].pc # "idle", UNCHANGED <<shown, job>>,
           \/ tap' = [tap EXCEPT ![t].pc = "save"] /\ UNCHANGED buttonLock
           \/ EndTap(t)
    PROVE  /\ Held' /\ \A u \in Tappers \ {t} : tap[u].pc = "idle" /\ tap'[u] = tap[u]
           /\ UNCHANGED <<latest, lastKind, known>> => Stored'
           /\ \/ tap'[t] = IdleTap
              \/ tap'[t] = [tap[t] EXCEPT !.pc = "save"]
<1>1. CASE tap' = [tap EXCEPT ![t].pc = "save"] /\ UNCHANGED buttonLock
  <2> DEFINE rec == [tap[t] EXCEPT !.pc = "save"]
  <2>1. tap[t] \in TapRec /\ TapWell(tap[t], shown) /\ buttonLock' = t
    BY <1>1, TapAtWork DEF SnapsInv
  <2>2. /\ rec \in TapRec /\ rec.pc = "save" /\ rec.msg = tap[t].msg /\ rec.n = tap[t].n
        /\ rec.act = tap[t].act /\ rec.kind = tap[t].kind /\ rec.snap = tap[t].snap
    BY <2>1 DEF TapRec
  <2>3. tap' = [tap EXCEPT ![t] = rec]
    BY <1>1
  <2>4. rec = [tap[t] EXCEPT !.pc = "save"]
    OBVIOUS
  <2> HIDE DEF rec
  <2>5. TapWell(rec, shown)
    BY <2>1, <2>2 DEF TapWell
  <2>6. Held' /\ tap'[t] = rec /\ \A u \in Tappers \ {t} : tap[u].pc = "idle" /\ tap'[u] = tap[u]
    BY <2>1, <2>2, <2>3, <2>5, TapMoves DEF SnapsInv
  <2>7. UNCHANGED <<latest, lastKind, known>> => Stored'
    BY <2>2, <2>6, StoredAfterTap
  <2> QED
    BY <2>4, <2>6, <2>7
<1>2. CASE EndTap(t)
  <2>1. IdleTap \in TapRec /\ IdleTap.pc = "idle"
    BY IdleTapIs
  <2>2. tap' = [tap EXCEPT ![t] = IdleTap] /\ buttonLock' = Nobody
    BY <1>2 DEF EndTap
  <2>3. Held' /\ tap'[t] = IdleTap /\ \A u \in Tappers \ {t} : tap[u].pc = "idle" /\ tap'[u] = tap[u]
    BY <2>1, <2>2, TapMoves DEF SnapsInv
  <2>4. UNCHANGED <<latest, lastKind, known>> => Stored'
    BY <2>1, <2>3, StoredAfterTap
  <2> QED
    BY <2>3, <2>4
<1> QED
  BY <1>1, <1>2

\* What a tap does with the lock in its hands.
TapDoes(t) == TapRemind(t) \/ TapAct(t) \/ TapActFails(t) \/ TapSave(t) \/ TapSaveFails(t)

LEMMA TapDoesIs ==
    ASSUME NEW t \in Tappers, TapDoes(t)
    PROVE  /\ tap[t].pc # "idle" /\ UNCHANGED <<shown, job, known>>
           /\ \/ tap' = [tap EXCEPT ![t].pc = "save"] /\ UNCHANGED buttonLock
              \/ EndTap(t)
           /\ TapSave(t) \/ UNCHANGED snapVars
  BY DEF TapDoes, TapRemind, TapAct, TapActFails, TapSave, TapSaveFails, ghostVars, snapVars

LEMMA SnapsTap ==
    ASSUME SnapsInv, NEW t \in Tappers, TapDoes(t)
    PROVE  SnapsInv'
<1>1. /\ tap[t].pc # "idle" /\ UNCHANGED <<shown, job, known>>
      /\ TapSave(t) \/ UNCHANGED snapVars
      /\ Held' /\ \A u \in Tappers \ {t} : tap[u].pc = "idle" /\ tap'[u] = tap[u]
      /\ UNCHANGED <<latest, lastKind, known>> => Stored'
  BY TapDoesIs, TapGoesOn
<1>2. CASE UNCHANGED snapVars
  BY <1>1, <1>2 DEF snapVars, SnapsInv
<1>3. CASE TapSave(t)
  <2> DEFINE k == tap[t].kind
             new == Ticked(t)
  <2>1. k \in Kinds /\ tap[t].snap.msg # 0
    BY <1>1, TapAtWork DEF SnapsInv, TapWell
  <2>2. SnapTrue(new, k, shown) /\ new.msg = tap[t].snap.msg /\ new \in SnapRec
    BY <1>1, TickedIs DEF SnapsInv, SnapTrue
  <2>3. latest' = [latest EXCEPT ![k] = new] /\ lastKind' = k
    BY <1>3 DEF TapSave
  <2>4. tap'[t].pc = "idle"
    <3>1. tap' = [tap EXCEPT ![t] = IdleTap] /\ tap \in [Tappers -> TapRec]
      BY <1>3 DEF TapSave, EndTap, SnapsInv, Held
    <3> QED
      BY <3>1, IdleTapIs
  <2> HIDE DEF k, new
  <2>5. latest' \in [Kinds -> SnapRec] /\ \A i \in Kinds : SnapTrue(latest'[i], i, shown')
    BY <1>1, <2>1, <2>2, <2>3 DEF SnapsInv, Stored
  <2>6. ASSUME NEW j \in Jobs, Delivering(job'[j])
        PROVE  /\ \A i \in Kinds : latest'[i].msg # job'[j].msg
               /\ \A u \in Tappers : tap'[u].pc # "idle" => tap'[u].snap.msg # job'[j].msg
    <3>1. Delivering(job[j]) /\ job'[j] = job[j]
      BY <1>1, <2>6
    <3>2. new.msg # job[j].msg /\ \A i \in Kinds : latest[i].msg # job[j].msg
      BY <1>1, <2>2, <3>1 DEF SnapsInv, Stored
    <3>3. \A i \in Kinds : latest'[i] = IF i = k THEN new ELSE latest[i]
      BY <2>3 DEF SnapsInv, Stored
    <3> QED
      BY <1>1, <2>4, <3>1, <3>2, <3>3
  <2>7. Stored'
    BY <1>1, <2>1, <2>3, <2>5, <2>6 DEF SnapsInv, Stored
  <2> QED
    BY <1>1, <2>7 DEF SnapsInv
<1> QED
  BY <1>1, <1>2, <1>3

\* A job stores the snapshot of what it sent.
StoredNew(j) ==
  [msg |-> job[j].msg, hasId |-> job[j].hasId, day |-> job[j].slot[1],
   refs |-> job[j].refs, done |-> {}, reminded |-> {}]

LEMMA StoreIs ==
    ASSUME JobInv, Chat, NEW j \in Jobs, Store(j)
    PROVE  LET k == job[j].slot[2] IN
           /\ k \in Kinds /\ latest' = [latest EXCEPT ![k] = StoredNew(j)] /\ lastKind' = k
           /\ SnapTrue(StoredNew(j), k, shown) /\ job[j].msg \in Msgs /\ Delivering(job[j])
           /\ known' \subseteq known \cup {job[j].msg}
           /\ job' = [job EXCEPT ![j] = IdleJob] /\ \A i \in Jobs : ~Delivering(job'[i])
           /\ UNCHANGED <<shown, status, tap, buttonLock, made, slips>>
<1> DEFINE k == job[j].slot[2]
           s == StoredNew(j)
<1>1. /\ job[j].pc = "store" /\ latest' = [latest EXCEPT ![k] = s] /\ lastKind' = k
      /\ known' \subseteq known \cup {job[j].msg} /\ job' = [job EXCEPT ![j] = IdleJob]
      /\ UNCHANGED <<shown, status, tap, buttonLock, made, slips>>
  BY DEF Store, StoredNew, EndJob, tapVars, ghostVars
<1>2. job[j].slot \in Slots /\ \A i \in Jobs \ {j} : job[i].pc = "idle"
  BY <1>1, JobFields
<1>3. WellMade(job[j], shown)
  BY DEF Chat
<1>4. Delivering(job[j]) /\ ToStore(job[j], shown) /\ job[j].refs \in Refs
  BY <1>1, <1>3 DEF WellMade, Delivering
<1>5. k \in Kinds /\ job[j].slot[1] \in 1..MaxDay
  BY <1>2 DEF Slots
<1>6. job[j].msg \in DOMAIN shown /\ job[j].msg \in Msgs
  BY <1>4, ShownIs DEF ToStore
<1>7. s \in SnapRec
  BY <1>4, <1>5, <1>6 DEF SnapRec, StoredNew, Msgs, ToStore
<1>8. SnapTrue(s, k, shown)
  <2>1. s.msg = job[j].msg /\ s.day = job[j].slot[1] /\ s.refs = job[j].refs
        /\ s.done = {} /\ s.reminded = {}
    BY DEF StoredNew
  <2>2. s.msg # 0
    BY <1>6, <2>1 DEF Msgs
  <2> HIDE DEF s
  <2> QED
    BY <1>4, <1>7, <2>1, <2>2 DEF SnapTrue, ToStore
<1>9. \A i \in Jobs : ~Delivering(job'[i])
  <2>1. \A i \in Jobs : job'[i].pc = "idle"
    BY <1>1, <1>2 DEF JobInv, Shape, JobShape, IdleJob
  <2> QED
    BY <2>1 DEF Delivering
<1> HIDE DEF s
<1> QED
  BY <1>1, <1>4, <1>5, <1>6, <1>8, <1>9 DEF s

LEMMA SnapsStore ==
    ASSUME JobInv, Chat, SnapsInv, NEW j \in Jobs, Store(j)
    PROVE  SnapsInv'
<1> DEFINE k == job[j].slot[2]
           s == StoredNew(j)
<1>1. /\ k \in Kinds /\ latest' = [latest EXCEPT ![k] = s] /\ lastKind' = k
      /\ SnapTrue(s, k, shown) /\ job[j].msg \in Msgs /\ Delivering(job[j])
      /\ known' \subseteq known \cup {job[j].msg} /\ \A i \in Jobs : ~Delivering(job'[i])
      /\ UNCHANGED <<shown, tap, buttonLock>>
  BY StoreIs
<1> HIDE DEF s, k
<1>2. s \in SnapRec
  BY <1>1 DEF SnapTrue
<1>3. latest' \in [Kinds -> SnapRec] /\ \A i \in Kinds : SnapTrue(latest'[i], i, shown')
  BY <1>1, <1>2 DEF SnapsInv, Stored
<1>4. Stored'
  BY <1>1, <1>3 DEF SnapsInv, Stored
<1>5. Held'
  BY <1>1 DEF SnapsInv, Held
<1> QED
  BY <1>4, <1>5 DEF SnapsInv

LEMMA SnapsRestart ==
    ASSUME SnapsInv, Restart
    PROVE  SnapsInv'
<1>1. /\ tap' = [t \in Tappers |-> IdleTap] /\ buttonLock' = Nobody
      /\ job' = [j \in Jobs |-> IdleJob] /\ UNCHANGED <<shown, latest, lastKind, known>>
  BY DEF Restart, snapVars
<1>2. Held'
  BY <1>1, IdleTapIs DEF Held
<1>3. \A j \in Jobs : ~Delivering(job'[j])
  BY <1>1 DEF Delivering, IdleJob
<1>4. Stored'
  BY <1>1, <1>3 DEF SnapsInv, Stored
<1> QED
  BY <1>2, <1>4 DEF SnapsInv

\* The steps of the user and of the world besides.
WorldStep ==
  \/ \E m \in DOMAIN shown, v \in Thumbs : Feedback(m, v)
  \/ UserWrites \/ (\E n \in Numbers : ToolConfirm(n)) \/ (\E i \in ItemSet : Arrive(i))
  \/ Tick \/ NextDay

LEMMA WorldKeeps ==
    ASSUME WorldStep
    PROVE  UNCHANGED <<shown, job, jobLock, forcedFirst, latest, lastKind, known, tap, buttonLock,
                       made, slips, faults>>
  BY DEF WorldStep, Feedback, UserWrites, ToolConfirm, Arrive, Tick, NextDay, snapVars, tapVars, ghostVars

LEMMA NextIs ==
    ASSUME Next
    PROVE  \/ \E j \in Jobs : Store(j)
           \/ \E j \in Jobs : JobStep(j) /\ ~Store(j)
           \/ \E t \in Tappers, n \in Numbers, act \in {"rm", "no"} :
                 (\E m \in DOMAIN shown : Tap(t, m, n, act)) \/ Reply(t, n, act)
           \/ \E t \in Tappers : TapDoes(t)
           \/ WorldStep
           \/ Restart
  BY DEF Next, JobStep, TapStep, TapDoes, WorldStep

LEMMA SnapsStep ==
    ASSUME JobInv, Chat, SnapsInv, Next
    PROVE  SnapsInv'
<1>1. ASSUME NEW j \in Jobs, JobStep(j), ~Store(j)
      PROVE  SnapsInv'
  BY <1>1, JobsKeepTaps, ChatStep, SnapsQuiet DEF snapVars, tapVars
<1>2. CASE WorldStep
  BY <1>2, WorldKeeps, ChatStep, SnapsQuiet
<1> QED
  BY <1>1, <1>2, NextIs, SnapsStore, SnapsOpen, SnapsTap, SnapsRestart

----------------------------------------------------------------------------
\* A tick means done.

Statuses == status \in [ItemSet -> {"later", "live", "gone"}]
Gone(s, n, states) == states[s.refs[n]] = "gone"
AllGone(s, states) == \A n \in s.done : Gone(s, n, states)
TapGone(r, states) == /\ AllGone(r.snap, states)
                      /\ r.pc = "save" /\ r.act = "no" => Gone(r.snap, r.n, states)

Ticks ==
  /\ Statuses
  /\ \A k \in Kinds : AllGone(latest[k], status)
  /\ \A t \in Tappers : tap[t].pc # "idle" => TapGone(tap[t], status)

\* What is handled stays handled.
GoneStays == Statuses' /\ \A i \in ItemSet : status[i] = "gone" => status'[i] = "gone"

LEMMA StatusStep ==
    ASSUME Statuses, Next
    PROVE  GoneStays
<1>1. \/ UNCHANGED status
      \/ \E i : status' = [status EXCEPT ![i] = "gone"]
      \/ \E i \in ItemSet : status[i] = "later" /\ status' = [status EXCEPT ![i] = "live"]
  <2>1. ASSUME NEW j \in Jobs, JobStep(j)
        PROVE  UNCHANGED status
    BY <2>1, JobsKeepTaps
  <2>2. ASSUME NEW t \in Tappers, TapDoes(t)
        PROVE  UNCHANGED status \/ \E i : status' = [status EXCEPT ![i] = "gone"]
    BY <2>2 DEF TapDoes, TapRemind, TapAct, TapActFails, TapSave, TapSaveFails
  <2>3. ASSUME NEW t \in Tappers, NEW n \in Numbers, NEW act \in {"rm", "no"},
               (\E m \in DOMAIN shown : Tap(t, m, n, act)) \/ Reply(t, n, act)
        PROVE  UNCHANGED status
    BY <2>3 DEF Tap, Reply
  <2>4. CASE Restart
    BY <2>4 DEF Restart
  <2>5. CASE WorldStep
    BY <2>5 DEF WorldStep, Feedback, UserWrites, ToolConfirm, Arrive, Tick, NextDay
  <2> QED
    BY <2>1, <2>2, <2>3, <2>4, <2>5, NextIs DEF JobStep
<1> QED
  BY <1>1 DEF Statuses, GoneStays

LEMMA GoneLater ==
    ASSUME GoneStays, NEW s, NEW k, NEW chat, SnapTrue(s, k, chat)
    PROVE  /\ \A n \in DOMAIN s.refs : Gone(s, n, status) => Gone(s, n, status')
           /\ AllGone(s, status) => AllGone(s, status')
<1>1. s.done \subseteq DOMAIN s.refs /\ \A n \in DOMAIN s.refs : s.refs[n] \in ItemSet
  BY RefsOf DEF SnapTrue, SnapRec
<1> QED
  BY <1>1 DEF Gone, AllGone, GoneStays

LEMMA TapGoneLater ==
    ASSUME GoneStays, NEW r, NEW chat, TapWell(r, chat), TapGone(r, status)
    PROVE  TapGone(r, status')
  BY GoneLater DEF TapWell, TapGone

\* Enough for the ticks: what is new in the snapshots and in the taps is right.
LEMMA TicksFrom ==
    ASSUME SnapsInv, Ticks, GoneStays,
           \A k \in Kinds : latest'[k] = latest[k] \/ AllGone(latest'[k], status'),
           \A t \in Tappers : \/ tap'[t] = tap[t] \/ tap'[t].pc = "idle"
                              \/ TapGone(tap'[t], status')
    PROVE  Ticks'
<1>1. ASSUME NEW k \in Kinds
      PROVE  AllGone(latest'[k], status')
  <2>1. AllGone(latest[k], status')
    BY GoneLater DEF SnapsInv, Stored, Ticks
  <2> QED
    BY <2>1
<1>2. ASSUME NEW t \in Tappers, tap'[t].pc # "idle"
      PROVE  TapGone(tap'[t], status')
  <2>1. CASE tap'[t] = tap[t]
    BY <1>2, <2>1, TapGoneLater DEF SnapsInv, Held, Ticks
  <2> QED
    BY <1>2, <2>1
<1> QED
  BY <1>1, <1>2 DEF Ticks, GoneStays

LEMMA TicksStep ==
    ASSUME JobInv, Chat, SnapsInv, Ticks, Next
    PROVE  Ticks'
<1> USE StatusStep DEF Ticks
<1>1. ASSUME NEW j \in Jobs, Store(j)
      PROVE  Ticks'
  <2>1. latest' = [latest EXCEPT ![job[j].slot[2]] = StoredNew(j)] /\ tap' = tap
    BY <1>1, StoreIs
  <2>2. AllGone(StoredNew(j), status')
    BY DEF AllGone, StoredNew
  <2>3. latest \in [Kinds -> SnapRec]
    BY DEF SnapsInv, Stored
  <2>4. \A k \in Kinds : latest'[k] = latest[k] \/ latest'[k] = StoredNew(j)
    BY <2>1, <2>3
  <2> QED
    BY <2>1, <2>2, <2>4, TicksFrom
<1>2. ASSUME NEW j \in Jobs, JobStep(j), ~Store(j)
      PROVE  Ticks'
  BY <1>2, JobsKeepTaps, TicksFrom DEF snapVars, tapVars
<1>3. ASSUME NEW t \in Tappers, NEW n \in Numbers, NEW act \in {"rm", "no"},
             (\E m \in DOMAIN shown : Tap(t, m, n, act)) \/ Reply(t, n, act)
      PROVE  Ticks'
  <2>1. UNCHANGED <<latest, status>>
    BY <1>3 DEF Tap, Reply, snapVars
  <2>2. PICK k \in Kinds : \E m \in {0, latest[k].msg} :
              LET rec == [pc |-> "act", msg |-> m, n |-> n, act |-> act, kind |-> k, snap |-> latest[k]] IN
              /\ tap' = [tap EXCEPT ![t] = rec] /\ rec \in TapRec /\ TapWell(rec, shown)
              /\ tap[t].pc = "idle" /\ buttonLock = Nobody /\ buttonLock' = t
    BY <1>3, TapOpens
  <2>3. PICK rec : tap' = [tap EXCEPT ![t] = rec] /\ rec.snap = latest[k] /\ rec.pc = "act"
    <3>1. PICK m \in {0, latest[k].msg} :
             tap' = [tap EXCEPT ![t] = [pc |-> "act", msg |-> m, n |-> n, act |-> act,
                                        kind |-> k, snap |-> latest[k]]]
      BY <2>2
    <3> DEFINE rec == [pc |-> "act", msg |-> m, n |-> n, act |-> act, kind |-> k, snap |-> latest[k]]
    <3>2. tap' = [tap EXCEPT ![t] = rec] /\ rec.snap = latest[k] /\ rec.pc = "act"
      BY <3>1
    <3> HIDE DEF rec
    <3> QED
      BY <3>2
  <2>4. TapGone(rec, status')
    BY <2>1, <2>3 DEF TapGone
  <2>5. \A u \in Tappers : tap'[u] = tap[u] \/ tap'[u] = rec
    BY <2>3 DEF SnapsInv, Held
  <2> QED
    BY <1>3, <2>1, <2>4, <2>5, TicksFrom
<1>4. ASSUME NEW t \in Tappers, TapDoes(t)
      PROVE  Ticks'
  <2>1. /\ tap[t].pc # "idle" /\ \A u \in Tappers \ {t} : tap'[u] = tap[u]
        /\ tap'[t] = IdleTap \/ tap'[t] = [tap[t] EXCEPT !.pc = "save"]
    BY <1>4, TapDoesIs, TapGoesOn
  <2>2. tap[t] \in TapRec /\ TapWell(tap[t], shown) /\ TapGone(tap[t], status')
    BY <1>4, <2>1, TapAtWork, TapGoneLater DEF SnapsInv
  <2>3. TapSave(t) \/ latest' = latest
    BY <1>4, TapDoesIs DEF snapVars
  <2>4. CASE TapSave(t)
    <3>1. /\ latest' = [latest EXCEPT ![tap[t].kind] = Ticked(t)] /\ status' = status
          /\ tap' = [tap EXCEPT ![t] = IdleTap] /\ tap[t].pc = "save"
      BY <2>4 DEF TapSave, EndTap
    <3>2. AllGone(Ticked(t), status')
      <4>1. /\ Ticked(t).refs = tap[t].snap.refs /\ tap[t].act \in {"rm", "no"}
            /\ Ticked(t).done = (IF tap[t].act = "rm" THEN tap[t].snap.done
                                 ELSE tap[t].snap.done \cup {tap[t].n})
        BY <2>1, <2>2, TickedIs DEF SnapsInv, TapWell
      <4> QED
        BY <2>2, <3>1, <4>1 DEF TapGone, AllGone, Gone
    <3>3. \A k \in Kinds : latest'[k] = latest[k] \/ latest'[k] = Ticked(t)
      BY <3>1 DEF SnapsInv, Stored
    <3>4. tap'[t].pc = "idle"
      BY <3>1, IdleTapIs DEF SnapsInv, Held
    <3> QED
      BY <1>4, <2>1, <3>2, <3>3, <3>4, TicksFrom
  <2>5. CASE latest' = latest /\ tap'[t] = IdleTap
    BY <1>4, <2>1, <2>5, IdleTapIs, TicksFrom
  <2>6. CASE latest' = latest /\ tap'[t] = [tap[t] EXCEPT !.pc = "save"] /\ tap[t].pc # "save"
    <3> DEFINE rec == [tap[t] EXCEPT !.pc = "save"]
    <3>1. rec.pc = "save" /\ rec.act = tap[t].act /\ rec.snap = tap[t].snap /\ rec.n = tap[t].n
      BY <2>2 DEF TapRec
    <3>2. TapRemind(t) \/ TapAct(t) \/ tap' = [tap EXCEPT ![t] = IdleTap]
      BY <1>4, <2>6 DEF TapDoes, TapActFails, TapSave, TapSaveFails, EndTap
    <3>3. CASE TapRemind(t)
      <4>1. TapGone(rec, status')
        BY <2>2, <3>1, <3>3 DEF TapRemind, TapGone
      <4> QED
        BY <1>4, <2>1, <2>6, <4>1, TicksFrom
    <3>4. CASE TapAct(t) /\ ~EndTap(t)
      <4>1. status' = [status EXCEPT ![tap[t].snap.refs[tap[t].n]] = "gone"]
        BY <3>4 DEF TapAct
      <4>2. tap[t].snap.refs[tap[t].n] \in ItemSet
        BY <2>2, RefsOf DEF TapWell, SnapTrue, SnapRec
      <4>3. Gone(rec.snap, rec.n, status')
        BY <3>1, <4>1, <4>2 DEF Gone, Statuses
      <4>4. TapGone(rec, status')
        BY <2>2, <3>1, <4>3 DEF TapGone
      <4> QED
        BY <1>4, <2>1, <2>6, <4>4, TicksFrom
    <3>5. CASE tap' = [tap EXCEPT ![t] = IdleTap]
      <4>1. tap'[t].pc = "idle"
        BY <3>5, IdleTapIs DEF SnapsInv, Held
      <4> QED
        BY <1>4, <2>1, <2>6, <4>1, TicksFrom
    <3> QED
      BY <3>2, <3>3, <3>4, <3>5 DEF EndTap
  <2>7. CASE latest' = latest /\ tap'[t] = [tap[t] EXCEPT !.pc = "save"] /\ tap[t].pc = "save"
    <3>1. tap'[t] = tap[t]
      BY <2>2, <2>7 DEF TapRec
    <3> QED
      BY <1>4, <2>1, <2>7, <3>1, TicksFrom
  <2> QED
    BY <2>1, <2>3, <2>4, <2>5, <2>6, <2>7
<1>5. CASE WorldStep
  BY <1>5, WorldKeeps, TicksFrom
<1>6. CASE Restart
  <2>1. latest' = latest /\ \A t \in Tappers : tap'[t] = IdleTap
    BY <1>6 DEF Restart, snapVars
  <2> QED
    BY <2>1, IdleTapIs, TicksFrom
<1> QED
  BY <1>1, <1>2, <1>3, <1>4, <1>5, <1>6, NextIs

----------------------------------------------------------------------------
\* One reminder for each number of a message, and one more for each slip.

\* A reminder made by a tap that has not saved its snapshot.
Unsaved(taps, m, n) ==
  \E t \in Tappers : taps[t].pc = "save" /\ taps[t].act = "rm" /\ taps[t].snap.msg = m /\ taps[t].n = n

\* What a snapshot still offers has a reminder to spare.
Spare(s, taps, mades, slip) ==
  \A n \in Numbers \ s.reminded :
    s.msg # 0 /\ ~Unsaved(taps, s.msg, n) => mades[s.msg][n] <= slip

MadeInv ==
  /\ made \in [Msgs -> [Numbers -> Nat]] /\ slips \in Nat
  /\ \A m \in Msgs, n \in Numbers : made[m][n] <= 1 + slips
  /\ \A k \in Kinds : Spare(latest[k], tap, made, slips)
  /\ \A t \in Tappers : tap[t].pc # "idle" => Spare(tap[t].snap, tap, made, slips)
  /\ \A m \in Msgs, n \in Numbers :
       m \notin DOMAIN shown \/ (\E j \in Jobs : Delivering(job[j]) /\ job[j].msg = m)
         => made[m][n] = 0

\* A step that makes no reminder, and forgets an unsaved one only for a slip.
LEMMA MadeKept ==
    ASSUME Chat, SnapsInv, MadeInv, ChatGrows, made' = made, slips' \in Nat, slips <= slips',
           \A m, n : Unsaved(tap, m, n) => Unsaved(tap', m, n) \/ slips < slips',
           \A k \in Kinds : latest'[k] = latest[k] \/ Spare(latest'[k], tap', made, slips'),
           \A t \in Tappers : \/ tap'[t].pc = "idle"
                              \/ tap[t].pc # "idle" /\ tap'[t].snap = tap[t].snap
                              \/ \E k \in Kinds : tap'[t].snap = latest[k]
    PROVE  MadeInv'
<1>1. /\ made \in [Msgs -> [Numbers -> Nat]] /\ slips \in Nat
      /\ \A m \in Msgs, n \in Numbers : made[m][n] <= 1 + slips /\ made[m][n] \in Nat
  BY DEF MadeInv
<1>2. ASSUME NEW s \in SnapRec, Spare(s, tap, made, slips)
      PROVE  Spare(s, tap', made, slips')
  <2>1. ASSUME NEW n \in Numbers \ s.reminded, s.msg # 0, ~Unsaved(tap', s.msg, n)
        PROVE  made[s.msg][n] <= slips'
    <3>1. s.msg \in Msgs
      BY <2>1 DEF SnapRec, Msgs
    <3>2. made[s.msg][n] \in Nat /\ made[s.msg][n] <= 1 + slips
      BY <1>1, <3>1
    <3>3. CASE slips < slips'
      BY <1>1, <3>2, <3>3
    <3>4. CASE ~Unsaved(tap, s.msg, n)
      <4>1. made[s.msg][n] <= slips
        BY <1>2, <2>1, <3>4 DEF Spare
      <4> QED
        BY <1>1, <3>2, <4>1
    <3> QED
      BY <2>1, <3>3, <3>4
  <2> QED
    BY <2>1 DEF Spare
<1>3. /\ \A k \in Kinds : latest[k] \in SnapRec /\ Spare(latest[k], tap, made, slips)
      /\ \A t \in Tappers : /\ tap[t].snap \in SnapRec
                            /\ tap[t].pc # "idle" => Spare(tap[t].snap, tap, made, slips)
  BY DEF SnapsInv, Stored, Held, TapRec, MadeInv
<1>4. \A k \in Kinds : Spare(latest'[k], tap', made, slips')
  BY <1>2, <1>3
<1>5. \A t \in Tappers : tap'[t].pc # "idle" => Spare(tap'[t].snap, tap', made, slips')
  BY <1>2, <1>3
<1>6. \A m \in Msgs, n \in Numbers : made[m][n] <= 1 + slips'
  BY <1>1
<1>7. ASSUME NEW m \in Msgs, NEW n \in Numbers,
             m \notin DOMAIN shown' \/ (\E j \in Jobs : Delivering(job'[j]) /\ job'[j].msg = m)
      PROVE  made[m][n] = 0
  <2>1. m \notin DOMAIN shown \/ (\E j \in Jobs : Delivering(job[j]) /\ job[j].msg = m)
    BY <1>7, ShownIs DEF ChatGrows
  <2> QED
    BY <2>1 DEF MadeInv
<1> QED
  BY <1>1, <1>4, <1>5, <1>6, <1>7 DEF MadeInv

\* With the lock in one tap's hands, only that tap can have a reminder to save.
LEMMA UnsavedIs ==
    ASSUME NEW taps, NEW t \in Tappers, \A u \in Tappers \ {t} : taps[u].pc = "idle",
           NEW m, NEW n
    PROVE  Unsaved(taps, m, n) <=> /\ taps[t].pc = "save" /\ taps[t].act = "rm"
                                   /\ taps[t].snap.msg = m /\ taps[t].n = n
  BY DEF Unsaved

\* The snapshot of another kind is of another message.
LEMMA KindsApart ==
    ASSUME NEW s, NEW k, NEW r, NEW i, NEW chat,
           SnapTrue(s, k, chat), SnapTrue(r, i, chat), s.msg = r.msg, s.msg # 0
    PROVE  i = k
  BY DEF SnapTrue

LEMMA MadeRemind ==
    ASSUME JobInv, Chat, SnapsInv, MadeInv, NEW t \in Tappers, TapRemind(t)
    PROVE  MadeInv'
<1> DEFINE m == tap[t].snap.msg
           n == tap[t].n
<1>1. /\ tap[t].pc = "act" /\ tap[t].act = "rm" /\ tap' = [tap EXCEPT ![t].pc = "save"]
      /\ made' = [made EXCEPT ![m][n] = @ + 1]
      /\ UNCHANGED <<latest, slips, shown, job, buttonLock>>
  BY DEF TapRemind, snapVars, ghostVars
<1>2. tap[t] \in TapRec /\ TapWell(tap[t], shown)
  BY <1>1, TapAtWork DEF SnapsInv
<1>3. m \in DOMAIN shown /\ m \in Msgs /\ n \in Numbers /\ n \notin tap[t].snap.reminded /\ m # 0
  BY <1>1, <1>2, ShownIs, RefsOf DEF TapWell, SnapTrue, SnapRec
<1>4. /\ \A u \in Tappers \ {t} : tap[u].pc = "idle" /\ tap'[u] = tap[u]
      /\ tap'[t] = IdleTap \/ tap'[t] = [tap[t] EXCEPT !.pc = "save"]
  BY <1>1, TapGoesOn
<1>5. tap'[t].pc = "save" /\ tap'[t].act = "rm" /\ tap'[t].snap = tap[t].snap /\ tap'[t].n = n
  BY <1>1, <1>2 DEF TapRec, SnapsInv, Held
<1>6. \A i, x : ~Unsaved(tap, i, x)
  BY <1>1, <1>4, UnsavedIs
<1>7. \A i, x : Unsaved(tap', i, x) <=> i = m /\ x = n
  <2> DEFINE taps == tap'
  <2>1. /\ \A u \in Tappers \ {t} : taps[u].pc = "idle"
        /\ taps[t].pc = "save" /\ taps[t].act = "rm" /\ taps[t].snap.msg = m /\ taps[t].n = n
    BY <1>4, <1>5
  <2> HIDE DEF taps, m, n
  <2>2. \A i, x : Unsaved(taps, i, x) <=> i = m /\ x = n
    BY <2>1, UnsavedIs
  <2> QED
    BY <2>2 DEF taps
<1>8. made \in [Msgs -> [Numbers -> Nat]] /\ slips \in Nat
  BY DEF MadeInv
<1>9. made[m][n] <= slips
  BY <1>1, <1>3, <1>6 DEF MadeInv, Spare
<1> HIDE DEF m, n
<1>10. /\ made' \in [Msgs -> [Numbers -> Nat]]
       /\ \A i \in Msgs, x \in Numbers :
            made'[i][x] = IF i = m /\ x = n THEN made[i][x] + 1 ELSE made[i][x]
  BY <1>1, <1>3, <1>8
<1>11. \A i \in Msgs, x \in Numbers : made'[i][x] <= 1 + slips'
  BY <1>1, <1>8, <1>9, <1>10 DEF MadeInv
<1>12. ASSUME NEW s \in SnapRec, Spare(s, tap, made, slips)
       PROVE  Spare(s, tap', made', slips')
  <2>1. ASSUME NEW x \in Numbers \ s.reminded, s.msg # 0, ~Unsaved(tap', s.msg, x)
        PROVE  made'[s.msg][x] <= slips'
    <3>1. s.msg \in Msgs
      BY <2>1 DEF SnapRec, Msgs
    <3>2. made[s.msg][x] <= slips
      BY <1>6, <1>12, <2>1 DEF Spare
    <3>3. made'[s.msg][x] = made[s.msg][x]
      BY <1>7, <1>10, <2>1, <3>1
    <3> QED
      BY <1>1, <3>2, <3>3
  <2> QED
    BY <2>1 DEF Spare
<1>13. /\ \A k \in Kinds : Spare(latest'[k], tap', made', slips')
       /\ \A u \in Tappers : tap'[u].pc # "idle" => Spare(tap'[u].snap, tap', made', slips')
  <2>1. \A k \in Kinds : latest[k] \in SnapRec /\ Spare(latest[k], tap, made, slips)
    BY DEF SnapsInv, Stored, MadeInv
  <2>2. tap[t].snap \in SnapRec /\ Spare(tap[t].snap, tap, made, slips)
    BY <1>1, <1>2 DEF TapRec, MadeInv
  <2>3. \A k \in Kinds : Spare(latest[k], tap', made', slips')
    BY <1>12, <2>1
  <2>4. Spare(tap[t].snap, tap', made', slips')
    BY <1>12, <2>2
  <2>5. \A u \in Tappers : tap'[u].pc # "idle" => tap'[u].snap = tap[t].snap
    BY <1>4, <1>5
  <2>6. latest' = latest
    BY <1>1
  <2>7. \A k \in Kinds : Spare(latest'[k], tap', made', slips')
    BY <2>3, <2>6
  <2>8. ASSUME NEW u \in Tappers, tap'[u].pc # "idle"
        PROVE  Spare(tap'[u].snap, tap', made', slips')
    BY <2>4, <2>5, <2>8
  <2> QED
    BY <2>7, <2>8
<1>14. ASSUME NEW i \in Msgs, NEW x \in Numbers,
              i \notin DOMAIN shown' \/ (\E j \in Jobs : Delivering(job'[j]) /\ job'[j].msg = i)
       PROVE  made'[i][x] = 0
  <2>1. i \notin DOMAIN shown \/ (\E j \in Jobs : Delivering(job[j]) /\ job[j].msg = i)
    BY <1>1, <1>14
  <2>2. i # m
    BY <1>1, <1>3, <2>1 DEF SnapsInv, Stored, m
  <2> QED
    BY <1>10, <2>1, <2>2 DEF MadeInv
<1> QED
  BY <1>1, <1>8, <1>10, <1>11, <1>13, <1>14 DEF MadeInv

LEMMA MadeSave ==
    ASSUME JobInv, Chat, SnapsInv, MadeInv, NEW t \in Tappers, TapSave(t)
    PROVE  MadeInv'
<1> DEFINE m == tap[t].snap.msg
           n == tap[t].n
           new == Ticked(t)
<1>1. /\ tap[t].pc = "save" /\ latest' = [latest EXCEPT ![tap[t].kind] = new] /\ EndTap(t)
      /\ UNCHANGED <<made, slips, shown, job>>
  BY DEF TapSave, ghostVars
<1>2. tap[t] \in TapRec /\ TapWell(tap[t], shown)
  BY <1>1, TapAtWork DEF SnapsInv
<1>3. \A u \in Tappers \ {t} : tap[u].pc = "idle" /\ tap'[u] = tap[u]
  BY <1>1, TapGoesOn
<1>4. tap'[t].pc = "idle"
  BY <1>1, IdleTapIs DEF EndTap, SnapsInv, Held
<1>5. \A u \in Tappers : tap'[u].pc = "idle"
  BY <1>3, <1>4
<1>6. /\ SnapTrue(new, tap[t].kind, shown) /\ new.msg = m
      /\ new.reminded = (IF tap[t].act = "rm" THEN tap[t].snap.reminded \cup {n}
                         ELSE tap[t].snap.reminded)
  BY <1>1, TickedIs DEF SnapsInv
<1>7. tap[t].kind \in Kinds /\ m # 0 /\ Spare(tap[t].snap, tap, made, slips)
  BY <1>1, <1>2 DEF TapWell, MadeInv
<1>8. \A i, x : Unsaved(tap, i, x) <=> tap[t].act = "rm" /\ i = m /\ x = n
  BY <1>1, <1>3, UnsavedIs
<1> HIDE DEF new
<1>9. Spare(new, tap', made, slips)
  <2>1. ASSUME NEW x \in Numbers \ new.reminded
        PROVE  made[m][x] <= slips
    <3>1. x \in Numbers \ tap[t].snap.reminded /\ ~Unsaved(tap, m, x)
      BY <1>6, <1>8, <2>1
    <3> QED
      BY <1>7, <3>1 DEF Spare
  <2> QED
    BY <1>6, <2>1 DEF Spare
<1>10. ASSUME NEW k \in Kinds, k # tap[t].kind
       PROVE  Spare(latest[k], tap', made, slips)
  <2>1. SnapTrue(latest[k], k, shown) /\ Spare(latest[k], tap, made, slips)
    BY DEF SnapsInv, Stored, MadeInv
  <2>2. latest[k].msg # 0 => latest[k].msg # m
    BY <1>2, <1>10, <2>1, KindsApart DEF TapWell
  <2>3. \A x : latest[k].msg # 0 => ~Unsaved(tap, latest[k].msg, x)
    BY <1>8, <2>2
  <2> QED
    BY <2>1, <2>3 DEF Spare
<1>11. \A k \in Kinds : Spare(latest'[k], tap', made, slips)
  <2>1. \A k \in Kinds : latest'[k] = IF k = tap[t].kind THEN new ELSE latest[k]
    BY <1>1 DEF SnapsInv, Stored
  <2> QED
    BY <1>9, <1>10, <2>1
<1> QED
  BY <1>1, <1>5, <1>11 DEF MadeInv

LEMMA MadeRestart ==
    ASSUME JobInv, Chat, SnapsInv, MadeInv, Restart
    PROVE  MadeInv'
<1> DEFINE Saving == {t \in Tappers : tap[t].pc = "save"}
<1>1. /\ slips' = slips + Cardinality(Saving) /\ UNCHANGED <<made, latest, shown>>
      /\ tap' = [t \in Tappers |-> IdleTap] /\ slips \in Nat
  BY DEF Restart, snapVars, MadeInv
<1>2. Cardinality(Saving) \in Nat /\ (Saving # {} => Cardinality(Saving) > 0)
  <2>1. Cardinality({}) = 0
    BY FS_EmptySet
  <2>2. CASE Saving # {}
    <3>1. Saving = {buttonLock}
      BY <2>2 DEF SnapsInv, Held
    <3>2. Cardinality({buttonLock}) = 1
      BY FS_Singleton
    <3> HIDE DEF Saving
    <3> QED
      BY <3>1, <3>2
  <2> HIDE DEF Saving
  <2> QED
    BY <2>1, <2>2
<1>3. \A m, n : Unsaved(tap, m, n) => Saving # {}
  BY DEF Unsaved
<1> HIDE DEF Saving
<1>4. slips' \in Nat /\ slips <= slips' /\ (Saving # {} => slips < slips')
  BY <1>1, <1>2
<1>5. \A t \in Tappers : tap'[t].pc = "idle"
  BY <1>1, IdleTapIs
<1>6. ChatGrows
  BY ChatStep DEF Next
<1>7. \A m, n : Unsaved(tap, m, n) => Unsaved(tap', m, n) \/ slips < slips'
  BY <1>3, <1>4
<1>8. \A k \in Kinds : latest'[k] = latest[k]
  BY <1>1
<1> QED
  BY <1>1, <1>4, <1>5, <1>6, <1>7, <1>8, MadeKept

LEMMA MadeStep ==
    ASSUME JobInv, Chat, SnapsInv, MadeInv, Next
    PROVE  MadeInv'
<1> slips \in Nat /\ ChatGrows
  BY ChatStep DEF MadeInv
<1>1. ASSUME NEW j \in Jobs, Store(j)
      PROVE  MadeInv'
  <2> DEFINE k == job[j].slot[2]
             new == StoredNew(j)
  <2>1. /\ k \in Kinds /\ latest' = [latest EXCEPT ![k] = new] /\ job[j].msg \in Msgs
        /\ Delivering(job[j]) /\ UNCHANGED <<tap, made, slips>>
    BY <1>1, StoreIs
  <2>2. new.msg = job[j].msg
    BY DEF StoredNew
  <2> HIDE DEF new, k
  <2>3. \A n \in Numbers : made[job[j].msg][n] = 0
    BY <2>1 DEF MadeInv
  <2>4. Spare(new, tap', made, slips')
    <3>1. \A n \in Numbers : made[new.msg][n] <= slips
      BY <2>2, <2>3
    <3> QED
      BY <2>1, <3>1 DEF Spare
  <2>5. \A i \in Kinds : latest'[i] = latest[i] \/ latest'[i] = new
    BY <2>1 DEF SnapsInv, Stored
  <2>6. \A i \in Kinds : latest'[i] = latest[i] \/ Spare(latest'[i], tap', made, slips')
    BY <2>4, <2>5
  <2>7. \A m, n : Unsaved(tap, m, n) => Unsaved(tap', m, n)
    BY <2>1
  <2>8. slips' = slips /\ made' = made /\ tap' = tap
    BY <2>1
  <2> QED
    BY <2>6, <2>7, <2>8, MadeKept
<1>2. ASSUME NEW j \in Jobs, JobStep(j), ~Store(j)
      PROVE  MadeInv'
  BY <1>2, JobsKeepTaps, MadeKept DEF snapVars, tapVars
<1>3. CASE WorldStep
  BY <1>3, WorldKeeps, MadeKept
<1>4. ASSUME NEW t \in Tappers, NEW n \in Numbers, NEW act \in {"rm", "no"},
             (\E m \in DOMAIN shown : Tap(t, m, n, act)) \/ Reply(t, n, act)
      PROVE  MadeInv'
  <2>1. UNCHANGED <<latest, made, slips>>
    BY <1>4 DEF Tap, Reply, snapVars
  <2>2. PICK k \in Kinds : \E m \in {0, latest[k].msg} :
              LET rec == [pc |-> "act", msg |-> m, n |-> n, act |-> act, kind |-> k, snap |-> latest[k]] IN
              /\ tap' = [tap EXCEPT ![t] = rec] /\ rec \in TapRec /\ TapWell(rec, shown)
              /\ tap[t].pc = "idle" /\ buttonLock = Nobody /\ buttonLock' = t
    BY <1>4, TapOpens
  <2>3. PICK rec : tap' = [tap EXCEPT ![t] = rec] /\ rec.snap = latest[k] /\ tap[t].pc = "idle"
    <3>1. PICK m \in {0, latest[k].msg} :
             /\ tap' = [tap EXCEPT ![t] = [pc |-> "act", msg |-> m, n |-> n, act |-> act,
                                           kind |-> k, snap |-> latest[k]]]
             /\ tap[t].pc = "idle"
      BY <2>2
    <3> DEFINE rec == [pc |-> "act", msg |-> m, n |-> n, act |-> act, kind |-> k, snap |-> latest[k]]
    <3>2. tap' = [tap EXCEPT ![t] = rec] /\ rec.snap = latest[k] /\ tap[t].pc = "idle"
      BY <3>1
    <3> HIDE DEF rec
    <3> QED
      BY <3>2
  <2>4. \A u \in Tappers : tap'[u] = IF u = t THEN rec ELSE tap[u]
    BY <2>3 DEF SnapsInv, Held
  <2>5. \A m, x : Unsaved(tap, m, x) => Unsaved(tap', m, x)
    BY <2>3, <2>4 DEF Unsaved
  <2>6. \A u \in Tappers : \/ tap'[u].pc = "idle"
                           \/ tap[u].pc # "idle" /\ tap'[u].snap = tap[u].snap
                           \/ tap'[u].snap = latest[k]
    BY <2>3, <2>4
  <2> QED
    BY <2>1, <2>5, <2>6, MadeKept
<1>5. ASSUME NEW t \in Tappers, TapDoes(t), ~TapRemind(t), ~TapSave(t)
      PROVE  MadeInv'
  <2>1. /\ tap[t].pc # "idle" /\ UNCHANGED snapVars
        /\ \/ tap' = [tap EXCEPT ![t].pc = "save"] /\ UNCHANGED buttonLock
           \/ EndTap(t)
        /\ \A u \in Tappers \ {t} : tap[u].pc = "idle" /\ tap'[u] = tap[u]
        /\ tap'[t] = IdleTap \/ tap'[t] = [tap[t] EXCEPT !.pc = "save"]
    BY <1>5, TapDoesIs, TapGoesOn
  <2>2. /\ made' = made
        /\ \/ tap[t].pc = "act" /\ slips' = slips
           \/ slips' = slips + 1
    BY <1>5 DEF TapDoes, TapAct, TapActFails, TapSaveFails
  <2>3. tap[t] \in TapRec
    BY <2>1, TapAtWork DEF SnapsInv
  <2>4. tap'[t].pc = "idle" \/ tap'[t].snap = tap[t].snap
    <3>1. [tap[t] EXCEPT !.pc = "save"].snap = tap[t].snap
      BY <2>3 DEF TapRec
    <3> QED
      BY <2>1, <3>1, IdleTapIs
  <2>5. tap[t].pc = "act" => \A m, n : ~Unsaved(tap, m, n)
    BY <2>1, UnsavedIs
  <2>6. latest' = latest
    BY <2>1 DEF snapVars
  <2>7. /\ slips' \in Nat /\ slips <= slips'
        /\ \A m, n : Unsaved(tap, m, n) => slips < slips'
    BY <2>2, <2>5
  <2> QED
    BY <2>1, <2>2, <2>4, <2>6, <2>7, MadeKept
<1> QED
  BY <1>1, <1>2, <1>3, <1>4, <1>5, MadeRemind, MadeSave, MadeRestart, NextIs

----------------------------------------------------------------------------
\* What the row of a slot says.

\* An unsent slot is in the hands of a job, or can be claimed.
Claimable ==
  \A s \in Slots :
    row[s].there /\ ~row[s].ok /\ faults = 0 /\ ~forcedFirst[s] =>
      \/ row[s].at < now - Stale
      \/ \E j \in Jobs : job[j].pc \in {"assemble", "send", "record"} /\ job[j].slot = s

Limits == now \in 0..MaxTime /\ faults \in 0..MaxFaults /\ forcedFirst \in [Slots -> BOOLEAN]

RowsInv == SentIsTrue /\ RepliedWasSent /\ Claimable /\ Limits

\* At work on a slot: its row waits for this job.
Working(r, s) == r.pc \in {"assemble", "send", "record"} /\ r.slot = s

LEMMA SentStays ==
    ASSUME SentIsTrue, ChatGrows, NEW s \in Slots, row[s].ok
    PROVE  \E m \in DOMAIN shown' : <<shown'[m].day, shown'[m].kind>> = s
  BY DEF SentIsTrue, ChatGrows

\* A step that changes no row's verdict, claim or age, and lets no slot go without a fault.
LEMMA RowsKept ==
    ASSUME JobInv, RowsInv, ChatGrows, Limits', now <= now', faults <= faults',
           forcedFirst' = forcedFirst,
           \A s \in Slots : /\ row'[s].ok = row[s].ok /\ row'[s].there = row[s].there
                            /\ row'[s].at = row[s].at
                            /\ row'[s].replied => row[s].replied \/ row[s].ok,
           \A j \in Jobs, s \in Slots : faults' = 0 /\ Working(job[j], s) => Working(job'[j], s)
    PROVE  RowsInv'
<1>1. now \in Nat /\ now' \in Nat /\ faults \in Nat /\ faults' \in Nat
      /\ row \in [Slots -> RowRec] /\ Stale \in Nat
  BY BriefingAssumption DEF Limits, RowsInv, JobInv, Shape
<1>2. SentIsTrue'
  BY SentStays DEF RowsInv, SentIsTrue
<1>3. RepliedWasSent'
  BY DEF RowsInv, RepliedWasSent
<1>4. Claimable'
  <2>1. ASSUME NEW s \in Slots, row'[s].there, ~row'[s].ok, faults' = 0, ~forcedFirst'[s]
        PROVE  \/ row'[s].at < now' - Stale
               \/ \E j \in Jobs : job'[j].pc \in {"assemble", "send", "record"} /\ job'[j].slot = s
    <3>1. \/ row[s].at < now - Stale
          \/ \E j \in Jobs : Working(job[j], s)
      BY <1>1, <2>1 DEF RowsInv, Claimable, Working
    <3>2. row[s].at \in Int
      BY <1>1 DEF RowRec
    <3>3. CASE row[s].at < now - Stale
      BY <1>1, <3>2, <3>3
    <3>4. CASE \E j \in Jobs : Working(job[j], s)
      BY <2>1, <3>4 DEF Working
    <3> QED
      BY <3>1, <3>3, <3>4
  <2> QED
    BY <2>1 DEF Claimable
<1> QED
  BY <1>2, <1>3, <1>4 DEF RowsInv

\* Steps of the taps, of the user and of the world.
LEMMA RowsAside ==
    ASSUME JobInv, Chat, RowsInv, Next, ~(\E j \in Jobs : JobStep(j)), ~Restart
    PROVE  RowsInv'
<1>1. ASSUME NEW s \in Slots
      PROVE  /\ row'[s].at = row[s].at
             /\ row'[s].replied => row[s].replied \/ row[s].ok
  <2>1. row \in [Slots -> RowRec] /\ row[s] \in RowRec
    BY DEF JobInv, Shape
  <2>2. CASE row' = row
    BY <2>2
  <2>3. CASE UserWrites
    <3>1. row'[s] = row[s] \/ (row[s].ok /\ row'[s] = [row[s] EXCEPT !.replied = TRUE])
      BY <2>3 DEF UserWrites
    <3> QED
      BY <2>1, <3>1 DEF RowRec
  <2>4. CASE \E m \in DOMAIN shown, v \in Thumbs : Feedback(m, v)
    <3>1. row'[s] = row[s] \/ \E v : row'[s] = [row[s] EXCEPT !.feedback = v]
      BY <2>1, <2>4 DEF Feedback
    <3> QED
      BY <2>1, <3>1 DEF RowRec
  <2>5. ASSUME NEW t \in Tappers, TapSave(t)
        PROVE  /\ row'[s].at = row[s].at
               /\ row'[s].replied => row[s].replied \/ row[s].ok
    <3> DEFINE old == row[s].replied
               mark == row[s].ok \/ old
    <3>1. row'[s] = row[s] \/ row'[s] = [row[s] EXCEPT !.replied = mark]
      BY <2>1, <2>5 DEF TapSave, Replied
    <3> HIDE DEF mark
    <3>2. [row[s] EXCEPT !.replied = mark].at = row[s].at /\ [row[s] EXCEPT !.replied = mark].replied = mark
      BY <2>1 DEF RowRec
    <3> QED
      BY <3>1, <3>2 DEF mark
  <2> DEFINE Kept == /\ row'[s].at = row[s].at
                     /\ row'[s].replied => row[s].replied \/ row[s].ok
  <2>6. ASSUME NEW t \in Tappers, TapDoes(t)
        PROVE  Kept
    <3>1. row' = row \/ TapSave(t)
      BY <2>6 DEF TapDoes, TapRemind, TapAct, TapActFails, TapSaveFails
    <3> QED
      BY <2>2, <2>5, <3>1
  <2>7. ASSUME NEW t \in Tappers, NEW n \in Numbers, NEW act \in {"rm", "no"},
               (\E m \in DOMAIN shown : Tap(t, m, n, act)) \/ Reply(t, n, act)
        PROVE  Kept
    <3>1. row' = row
      BY <2>7 DEF Tap, Reply
    <3> QED
      BY <2>2, <3>1
  <2>8. ASSUME WorldStep
        PROVE  Kept
    <3>1. \/ \E m \in DOMAIN shown, v \in Thumbs : Feedback(m, v)
          \/ UserWrites \/ row' = row
      BY <2>8 DEF WorldStep, ToolConfirm, Arrive, Tick, NextDay
    <3> QED
      BY <2>2, <2>3, <2>4, <3>1
  <2> HIDE DEF Kept
  <2>9. Kept
    BY <2>6, <2>7, <2>8, NextIs DEF JobStep
  <2> QED
    BY <2>9 DEF Kept
<1>2. Aside
  BY TapAside, WorldAside
<1>3. UNCHANGED <<shown, job, jobLock, forcedFirst>>
  BY OthersKeepChat
<1>4. Limits' /\ now <= now' /\ faults <= faults'
  <2>1. now \in 0..MaxTime /\ faults \in 0..MaxFaults /\ MaxTime \in Nat /\ MaxFaults \in Nat
    BY BriefingAssumption DEF RowsInv, Limits
  <2>2. now' = now \/ (now < MaxTime /\ now' = now + 1)
    <3>1. ASSUME NEW t \in Tappers, TapDoes(t)
          PROVE  now' = now
      BY <3>1 DEF TapDoes, TapRemind, TapAct, TapActFails, TapSave, TapSaveFails
    <3>2. ASSUME NEW t \in Tappers, NEW n \in Numbers, NEW act \in {"rm", "no"},
                 (\E m \in DOMAIN shown : Tap(t, m, n, act)) \/ Reply(t, n, act)
          PROVE  now' = now
      BY <3>2 DEF Tap, Reply
    <3>3. WorldStep => now' = now \/ (now < MaxTime /\ now' = now + 1)
      BY DEF WorldStep, Feedback, UserWrites, ToolConfirm, Arrive, Tick, NextDay
    <3> QED
      BY <3>1, <3>2, <3>3, NextIs DEF JobStep
  <2>3. faults' = faults \/ (faults < MaxFaults /\ faults' = faults + 1)
    <3>1. ASSUME NEW t \in Tappers, TapDoes(t)
          PROVE  faults' = faults \/ (faults < MaxFaults /\ faults' = faults + 1)
      BY <3>1 DEF TapDoes, TapRemind, TapAct, TapActFails, TapSave, TapSaveFails
    <3>2. ASSUME NEW t \in Tappers, NEW n \in Numbers, NEW act \in {"rm", "no"},
                 (\E m \in DOMAIN shown : Tap(t, m, n, act)) \/ Reply(t, n, act)
          PROVE  faults' = faults
      BY <3>2 DEF Tap, Reply
    <3> QED
      BY <3>1, <3>2, NextIs, WorldKeeps DEF JobStep
  <2> QED
    BY <1>3, <2>1, <2>2, <2>3 DEF Limits, RowsInv
<1>5. ChatGrows
  BY ChatStep
<1> QED
  BY <1>1, <1>2, <1>3, <1>4, <1>5, RowsKept DEF Aside

\* The steps of a job that write no row.
LEMMA RowsJob ==
    ASSUME JobInv, Chat, RowsInv, NEW j \in Jobs, JobStep(j), ~Record(j), UNCHANGED <<row, forcedFirst>>
    PROVE  RowsInv'
<1>1. UNCHANGED now /\ (faults' = faults \/ (faults < MaxFaults /\ faults' = faults + 1))
  <2>1. CASE \E down : Assemble(j, down)
    BY <2>1 DEF Assemble, RowsInv, Limits
  <2>2. CASE \E hasId \in BOOLEAN : SendWorks(j, hasId)
    BY <2>2 DEF SendWorks, RowsInv, Limits
  <2> QED
    BY <2>1, <2>2 DEF JobStep, StartClaimed, StartUnclaimed, StartForced, SendFails,
         SendAnswerLost, RecordFails, Store, StoreFails
<1>2. Limits' /\ now <= now' /\ faults <= faults' /\ now \in Nat
  <2>1. /\ now \in 0..MaxTime /\ faults \in 0..MaxFaults /\ MaxFaults \in Nat /\ MaxTime \in Nat
        /\ forcedFirst \in [Slots -> BOOLEAN]
    BY BriefingAssumption DEF RowsInv, Limits
  <2> QED
    BY <1>1, <2>1 DEF Limits
<1>3. ChatGrows
  BY ChatStep DEF Next
<1>4. ASSUME NEW i \in Jobs, NEW s \in Slots, faults' = 0, Working(job[i], s)
      PROVE  Working(job'[i], s)
  <2>1. job[j].pc # "idle" => i = j
    BY <1>4, JobFields DEF Working
  <2>2. PICK R : job \in [Jobs -> JobRec(R)]
    BY DEF JobInv, Shape, JobShape
  <2>3. ~JobFree(j)
    BY <1>4, Alone DEF JobFree, Working
  <2>4. job[j].pc # "store"
    BY <1>4, <2>1 DEF Working
  <2>5. ~RecordFails(j)
    BY <1>2, <1>4 DEF RecordFails, RowsInv, Limits
  <2>6. \/ \E down : Assemble(j, down)
        \/ \E hasId \in BOOLEAN : SendWorks(j, hasId)
        \/ SendFails(j) \/ SendAnswerLost(j)
    BY <2>3, <2>4, <2>5 DEF JobStep, StartClaimed, StartUnclaimed, StartForced, Store, StoreFails
  <2>7. i = j
    BY <2>1, <2>6 DEF Assemble, SendWorks, SendFails, SendAnswerLost
  <2>8. job'[j].pc \in {"send", "record"} /\ job'[j].slot = job[j].slot
    BY <2>2, <2>6 DEF Assemble, SendWorks, SendFails, SendAnswerLost, JobRec
  <2> QED
    BY <1>4, <2>7, <2>8 DEF Working
<1> QED
  BY <1>2, <1>3, <1>4, RowsKept DEF RowsInv, RepliedWasSent

\* A claim: the row is of the job that took it.
LEMMA RowsClaim ==
    ASSUME JobInv, Chat, RowsInv, NEW j \in Jobs, NEW k \in Kinds, StartClaimed(j, k)
    PROVE  RowsInv'
<1> DEFINE at == <<day, k>>
<1>1. /\ JobFree(j) /\ CanClaim(at) /\ row' = [row EXCEPT ![at] = Claimed(at)]
      /\ Go(j, at, TRUE) /\ UNCHANGED <<now, faults, forcedFirst>>
  BY DEF StartClaimed, ghostVars
<1>2. at \in Slots /\ row \in [Slots -> RowRec] /\ row[at] \in RowRec /\ now \in Nat
  BY DEF JobInv, Shape, Slots
<1>3. job'[j].pc = "assemble" /\ job'[j].slot = at
  BY <1>1 DEF Go, IdleJob, JobInv, Shape, JobShape
<1>4. \A i \in Jobs : job[i].pc = "idle"
  BY <1>1, Alone DEF JobFree
<1>5. ~row[at].ok
  BY <1>1, <1>2 DEF CanClaim, JobInv, RowSound
<1>6. Claimed(at).ok = row[at].ok /\ Claimed(at).replied = row[at].replied
  BY <1>2 DEF Claimed, RowRec
<1>7. ChatGrows
  BY ChatStep DEF Next, JobStep
<1> HIDE DEF at
<1>8. \A s \in Slots : /\ row'[s].ok = row[s].ok /\ row'[s].replied = row[s].replied
                       /\ s # at => row'[s] = row[s]
  BY <1>1, <1>2, <1>6
<1>9. SentIsTrue' /\ RepliedWasSent'
  BY <1>7, <1>8, SentStays DEF RowsInv, SentIsTrue, RepliedWasSent
<1>10. Claimable'
  <2>1. ASSUME NEW s \in Slots, row'[s].there, ~row'[s].ok, faults' = 0, ~forcedFirst'[s]
        PROVE  \/ row'[s].at < now' - Stale
               \/ \E i \in Jobs : job'[i].pc \in {"assemble", "send", "record"} /\ job'[i].slot = s
    <3>1. CASE s = at
      BY <1>3, <3>1
    <3>2. CASE s # at
      BY <1>1, <1>4, <1>8, <2>1, <3>2 DEF RowsInv, Claimable
    <3> QED
      BY <3>1, <3>2
  <2> QED
    BY <2>1 DEF Claimable
<1>11. Limits'
  BY <1>1 DEF RowsInv, Limits
<1> QED
  BY <1>9, <1>10, <1>11 DEF RowsInv

\* The record: a row that says sent has its message; one that does not can be claimed.
LEMMA RowsRecord ==
    ASSUME JobInv, Chat, RowsInv, NEW j \in Jobs, Record(j)
    PROVE  RowsInv'
<1> DEFINE at == job[j].slot
           new == Recorded(at, job[j].ok)
<1>1. /\ job[j].pc = "record" /\ row' = [row EXCEPT ![at] = new]
      /\ forcedFirst' = [forcedFirst EXCEPT ![at] = @ \/ ~row[at].there]
      /\ UNCHANGED <<now, faults, shown>>
  BY DEF Record
<1>2. /\ at \in Slots /\ row \in [Slots -> RowRec] /\ row[at] \in RowRec /\ now \in Nat
      /\ \A i \in Jobs \ {j} : job[i].pc = "idle"
  BY <1>1, JobFields DEF JobInv, Shape
<1>3. PICK R : job[j] \in JobRec(R)
  BY JobFields
<1>4. /\ row[at].ok \in BOOLEAN /\ row[at].there \in BOOLEAN /\ row[at].replied \in BOOLEAN
      /\ job[j].ok \in BOOLEAN
  BY <1>2, <1>3 DEF RowRec, JobRec
<1>5. /\ new.ok = (row[at].ok \/ job[j].ok)
      /\ new.replied = (IF job[j].ok THEN FALSE ELSE row[at].replied)
      /\ ~job[j].ok /\ row[at].there /\ ~row[at].ok => new.at = LongAgo
  <2> DEFINE when == IF job[j].ok \/ ~row[at].there THEN now
                     ELSE IF row[at].ok THEN row[at].at ELSE LongAgo
             mark == IF job[j].ok THEN FALSE ELSE row[at].replied
             sent == row[at].ok \/ job[j].ok
  <2>1. new = [row[at] EXCEPT !.there = TRUE, !.ok = sent, !.at = when, !.replied = mark]
    BY <1>2 DEF Recorded, RowRec
  <2>2. ~job[j].ok /\ row[at].there /\ ~row[at].ok => when = LongAgo
    OBVIOUS
  <2>3. sent = (row[at].ok \/ job[j].ok) /\ mark = (IF job[j].ok THEN FALSE ELSE row[at].replied)
    OBVIOUS
  <2> HIDE DEF new, when, mark, sent
  <2>4. new.ok = sent /\ new.at = when /\ new.replied = mark
    BY <1>2, <2>1 DEF RowRec
  <2> QED
    BY <2>2, <2>3, <2>4
<1> HIDE DEF new
<1>6. job[j].ok => \E m \in DOMAIN shown : <<shown[m].day, shown[m].kind>> = at
  <2>1. SUFFICES ASSUME job[j].ok
                 PROVE  \E m \in DOMAIN shown : <<shown[m].day, shown[m].kind>> = at
    OBVIOUS
  <2>2. ToStore(job[j], shown)
    BY <1>1, <2>1 DEF Chat, WellMade, Delivering
  <2>3. <<at[1], at[2]>> = at
    BY <1>2 DEF Slots
  <2> QED
    BY <2>2, <2>3 DEF ToStore
<1>7. job[j].slot = at
  OBVIOUS
<1> HIDE DEF at
<1>8. row'[at] = new /\ \A s \in Slots \ {at} : row'[s] = row[s]
  BY <1>1, <1>2
<1>9. SentIsTrue'
  <2>1. ASSUME NEW s \in Slots, row'[s].ok
        PROVE  \E m \in DOMAIN shown : <<shown[m].day, shown[m].kind>> = s
    BY <1>2, <1>5, <1>6, <1>8, <2>1 DEF RowsInv, SentIsTrue
  <2> QED
    BY <1>1, <2>1 DEF SentIsTrue
<1>10. RepliedWasSent'
  BY <1>4, <1>5, <1>8 DEF RowsInv, RepliedWasSent
<1>11. Claimable'
  <2>1. ASSUME NEW s \in Slots, row'[s].there, ~row'[s].ok, faults' = 0, ~forcedFirst'[s]
        PROVE  row'[s].at < now' - Stale
    <3>1. CASE s = at
      <4>4. forcedFirst \in [Slots -> BOOLEAN]
        BY DEF RowsInv, Limits
      <4>1. ~job[j].ok /\ row[at].there /\ ~row[at].ok
        BY <1>1, <1>2, <1>4, <1>5, <1>8, <2>1, <3>1, <4>4
      <4>2. row'[s].at = LongAgo /\ now' = now
        BY <1>1, <1>5, <1>8, <3>1, <4>1
      <4>3. Stale \in Nat /\ LongAgo \in Int
        BY BriefingAssumption DEF LongAgo
      <4> QED
        BY <1>2, <4>2, <4>3, StaleAssumption
    <3>2. CASE s # at
      <4>1. row'[s] = row[s] /\ ~forcedFirst[s]
        BY <1>1, <1>8, <2>1, <3>2
      <4>2. \A i \in Jobs : ~(job[i].pc \in {"assemble", "send", "record"} /\ job[i].slot = s)
        BY <1>2, <1>7, <3>2
      <4> QED
        BY <1>1, <2>1, <4>1, <4>2 DEF RowsInv, Claimable
    <3> QED
      BY <3>1, <3>2
  <2> QED
    BY <2>1 DEF Claimable
<1>12. Limits'
  BY <1>1, <1>4 DEF RowsInv, Limits
<1> QED
  BY <1>9, <1>10, <1>11, <1>12 DEF RowsInv

LEMMA RowsRestart ==
    ASSUME JobInv, Chat, RowsInv, Restart
    PROVE  RowsInv'
<1>1. /\ faults < MaxFaults /\ faults' = faults + 1 /\ UNCHANGED <<now, row, shown, forcedFirst>>
  BY DEF Restart
<1>2. Limits' /\ faults' # 0
  BY <1>1, BriefingAssumption DEF RowsInv, Limits
<1>3. SentIsTrue' /\ RepliedWasSent'
  BY <1>1 DEF RowsInv, SentIsTrue, RepliedWasSent
<1>4. Claimable'
  BY <1>2 DEF Claimable
<1> QED
  BY <1>2, <1>3, <1>4 DEF RowsInv

LEMMA RowsStep ==
    ASSUME JobInv, Chat, RowsInv, Next
    PROVE  RowsInv'
<1>1. ASSUME NEW j \in Jobs, JobStep(j)
      PROVE  RowsInv'
  <2>1. UNCHANGED <<row, forcedFirst>> \/ Record(j) \/ \E k \in Kinds : StartClaimed(j, k)
    BY <1>1 DEF JobStep, StartUnclaimed, StartForced, Assemble, SendWorks, SendFails,
         SendAnswerLost, RecordFails, Store, StoreFails, ghostVars
  <2> QED
    BY <1>1, <2>1, RowsJob, RowsRecord, RowsClaim
<1> QED
  BY <1>1, RowsAside, RowsRestart

----------------------------------------------------------------------------
\* The whole invariant.
LockTyped == jobLock \in Jobs \cup {Nobody}

LEMMA LockStep ==
    ASSUME LockTyped, Next
    PROVE  LockTyped'
<1>1. ASSUME NEW j \in Jobs, JobStep(j)
      PROVE  jobLock' \in {jobLock, j, Nobody}
  BY <1>1 DEF JobStep, StartClaimed, StartUnclaimed, StartForced, Go, Assemble, SendWorks, SendFails,
         SendAnswerLost, Record, RecordFails, AfterRecord, Store, StoreFails, EndJob
<1>2. Restart => jobLock' = Nobody
  BY DEF Restart
<1> QED
  BY <1>1, <1>2, OthersKeepChat DEF LockTyped

DeskInv == BriefingInv /\ LockTyped /\ Chat /\ SnapsInv /\ Ticks /\ MadeInv /\ RowsInv

LEMMA DeskInit == Init => DeskInv
<1> SUFFICES ASSUME Init PROVE DeskInv
  OBVIOUS
<1>1. /\ \A j \in Jobs : job[j] = IdleJob
      /\ IdleJob.pc = "idle" /\ IdleJob.refs = <<>>
  BY DEF Init, IdleJob
<1>2. \A t \in Tappers : tap[t] = IdleTap
  BY DEF Init
<1>3. \A k \in Kinds : latest[k] = NoSnap
  BY DEF Init
<1>4. shown = <<>> /\ Len(shown) = 0 /\ DOMAIN shown = {} /\ shown \in Seq(ShownRec)
  BY EmptySeq DEF Init
<1>5. Chat
  BY <1>1, <1>4, NoRefs, BriefingAssumption DEF Chat, WellMade, Delivering
<1>6. Held
  BY <1>2, IdleTapIs DEF Init, Held
<1>7. Stored
  BY <1>1, <1>3, NoSnapTrue DEF Init, Stored, Delivering
<1>8. Ticks
  <2>1. AllGone(NoSnap, status)
    BY DEF AllGone, NoSnap
  <2>2. Statuses
    BY DEF Init, Statuses
  <2> QED
    BY <1>2, <1>3, <2>1, <2>2, IdleTapIs DEF Ticks
<1>9. MadeInv
  <2>1. made = [m \in Msgs |-> [n \in Numbers |-> 0]] /\ slips = 0
    BY DEF Init
  <2>2. Spare(NoSnap, tap, made, slips)
    BY NoSnapTrue DEF Spare
  <2> QED
    BY <1>2, <1>3, <2>1, <2>2, IdleTapIs DEF MadeInv
<1>10. RowsInv
  <2>1. \A s \in Slots : row[s] = NoRow /\ ~NoRow.ok /\ ~NoRow.there /\ ~NoRow.replied
    BY DEF Init, NoRow
  <2>2. Limits
    BY BriefingAssumption DEF Init, Limits
  <2> QED
    BY <2>1, <2>2 DEF RowsInv, SentIsTrue, RepliedWasSent, Claimable
<1>11. LockTyped
  BY DEF Init, LockTyped
<1> QED
  BY <1>5, <1>6, <1>7, <1>8, <1>9, <1>10, <1>11, BriefingInit DEF DeskInv, SnapsInv

LEMMA DeskStep == DeskInv /\ [Next]_vars => DeskInv'
<1> SUFFICES ASSUME DeskInv, [Next]_vars PROVE DeskInv'
  OBVIOUS
<1>1. CASE Next
  <2>1. JobInv
    BY DEF DeskInv, BriefingInv
  <2> QED
    BY <1>1, <2>1, BriefingStep, LockStep, ChatStep, SnapsStep, TicksStep, MadeStep, RowsStep DEF DeskInv
<1>2. CASE UNCHANGED vars
  <2> USE <1>2 DEF vars
  <2>1. BriefingInv'
    <3>1. SlotState' = SlotState
      BY DEF SlotState, Holder
    <3> QED
      BY <3>1 DEF DeskInv, BriefingInv, JobInv, Shape, LockHeld, RowSound, Accounted
  <2>2. Chat' /\ SnapsInv'
    BY DEF DeskInv, Chat, SnapsInv, Held, Stored
  <2>3. Ticks' /\ MadeInv'
    BY DEF DeskInv, Ticks, Statuses, MadeInv
  <2>4. LockTyped' /\ RowsInv'
    BY DEF DeskInv, LockTyped, RowsInv, SentIsTrue, RepliedWasSent, Claimable, Limits
  <2> QED
    BY <2>1, <2>2, <2>3, <2>4 DEF DeskInv
<1> QED
  BY <1>1, <1>2

THEOREM DeskAlways == Spec => []DeskInv
  BY DeskInit, DeskStep, PTL DEF Spec

\* The tables, the jobs, the taps and the locks keep their types.
THEOREM TypeCorrect == Spec => []TypeOK
<1>1. DeskInv => TypeOK
  <2> SUFFICES ASSUME DeskInv PROVE TypeOK
    OBVIOUS
  <2>1. /\ now \in 0..MaxTime /\ day \in 1..MaxDay /\ faults \in 0..MaxFaults
        /\ status \in [ItemSet -> {"later", "live", "gone"}] /\ row \in [Slots -> RowRec]
    BY DEF DeskInv, RowsInv, Limits, BriefingInv, JobInv, Shape, Ticks, Statuses
  <2>2. SnapRec \subseteq SnapType
    BY DEF SnapRec, SnapType, Refs
  <2>3. /\ latest \in [Kinds -> SnapRec] /\ lastKind \in Kinds \cup {"none"} /\ known \subseteq Msgs
        /\ \A k \in Kinds : latest[k].done \cup latest[k].reminded \subseteq DOMAIN latest[k].refs
    BY DEF DeskInv, SnapsInv, Stored, SnapTrue
  <2>4. /\ buttonLock \in Tappers \cup {Nobody}
        /\ \A t \in Tappers : tap[t].pc \in {"idle", "act", "save"} /\ tap[t].snap \in SnapRec
    BY DEF DeskInv, SnapsInv, Held, TapRec
  <2>5. \A j \in Jobs : job[j].pc \in {"idle", "assemble", "send", "record", "store"}
    BY JobFields DEF DeskInv, BriefingInv, JobRec
  <2>6. jobLock \in Jobs \cup {Nobody}
    BY DEF DeskInv, LockTyped
  <2> QED
    BY <2>1, <2>2, <2>3, <2>4, <2>5, <2>6 DEF TypeOK, RowRec
<1> QED
  BY <1>1, DeskAlways, PTL

\* What the row of a slot says is true, and never stands in the way of a retry.
THEOREM RowHonestAlways == Spec => []RowHonest
<1>1. DeskInv => RowHonest
  <2> SUFFICES ASSUME DeskInv PROVE RowHonest
    OBVIOUS
  <2>1. jobLock = Nobody => \A j \in Jobs : job[j].pc = "idle"
    BY BriefingAssumption DEF DeskInv, BriefingInv, JobInv, LockHeld
  <2>2. Retryable
    BY <2>1 DEF DeskInv, RowsInv, Claimable, Retryable, CanClaim
  <2> QED
    BY <2>2 DEF DeskInv, RowsInv, RowHonest
<1> QED
  BY <1>1, DeskAlways, PTL

\* A tap acts on what its message shows, an item is reminded of once, a tick means done.
THEOREM TapsExactAlways == Spec => []TapsExact
<1>1. DeskInv => TapsExact
  <2> SUFFICES ASSUME DeskInv PROVE TapsExact
    OBVIOUS
  <2>1. ASSUME NEW t \in Tappers, tap[t].pc # "idle", tap[t].msg # 0
        PROVE  /\ tap[t].n \in DOMAIN shown[tap[t].msg].refs
               /\ tap[t].snap.refs[tap[t].n] = shown[tap[t].msg].refs[tap[t].n]
    <3>1. TapWell(tap[t], shown)
      BY <2>1, TapAtWork DEF DeskInv, SnapsInv
    <3>2. tap[t].msg = tap[t].snap.msg /\ shown[tap[t].msg].refs = tap[t].snap.refs
      BY <2>1, <3>1 DEF TapWell, SnapTrue
    <3> QED
      BY <3>1, <3>2 DEF TapWell
  <2>2. RemindedOnce
    BY DEF DeskInv, MadeInv, RemindedOnce
  <2>3. TickedIsDone
    BY DEF DeskInv, Ticks, AllGone, Gone, TickedIsDone
  <2> QED
    BY <2>1, <2>2, <2>3 DEF TapsExact, TapActsOnShown
<1> QED
  BY <1>1, DeskAlways, PTL

----------------------------------------------------------------------------
(* The rule of volume, BriefingLayout, whatever the sources hold.          *)
CONSTANTS Worlds, MaxLines, GroupLimit, Limit, MaxButtonRows
VARIABLES world, stage, raw, sections, next, items, free, user, model, keyboard
Lay == INSTANCE BriefingLayout

\* A section as its source gave it.
FromSource(sec, key) ==
    \E error, found, more, groupMore :
        sec = Lay!Section(key, error, found, more, groupMore) /\ (error => found = << >>)

\* The key's place in the order of what matters less.
RankOf(i) == CHOOSE r \in 1..6 : Lay!CollapseOrder[r] = Lay!Keys(world)[i]

\* The sections after some steps of the rule: those that were reached are summed up or
\* were empty, the others are as they came.
Reached(secs, src, n) ==
    /\ DOMAIN secs = DOMAIN Lay!Keys(world) /\ DOMAIN src = DOMAIN Lay!Keys(world)
    /\ secs = [i \in DOMAIN secs |-> secs[i]]
    /\ \A i \in DOMAIN Lay!Keys(world) :
         /\ FromSource(src[i], Lay!Keys(world)[i])
         /\ \/ secs[i] = src[i] /\ (RankOf(i) <= n => src[i].items = << >>)
            \/ secs[i] = Lay!Collapsed(src[i]) /\ RankOf(i) <= n

\* The last section that is summed up: the message was too long with it.
Needed(secs, src) ==
    \A i \in DOMAIN secs :
        /\ secs[i].collapsed
        /\ \A k \in DOMAIN secs : secs[k].collapsed => RankOf(k) <= RankOf(i)
        => Lay!VolumeLines([secs EXCEPT ![i] = src[i]]) > Lay!Budget

LayoutInv ==
    /\ Lay!TypeOK
    /\ stage # "done" => keyboard = << >>
    /\ stage = "collect" => sections = << >> /\ next = 0
    /\ stage # "collect" => Reached(sections, raw, next) /\ Needed(sections, raw)

LEMMA FourAndMore ==
    ASSUME NEW S, NEW a \in Seq(S), NEW b \in Seq(S), Len(a) = 4
    PROVE  /\ DOMAIN (a \o b) = 1..(4 + Len(b))
           /\ \A i \in 1..4 : (a \o b)[i] = a[i]
           /\ \A i \in 1..Len(b) : (a \o b)[4 + i] = b[i]
<1>1. /\ a \o b \in Seq(S) /\ Len(a \o b) = Len(a) + Len(b)
      /\ \A i \in 1..(Len(a) + Len(b)) :
           (a \o b)[i] = IF i <= Len(a) THEN a[i] ELSE b[i - Len(a)]
  BY ConcatProperties
<1> DEFINE c == a \o b
<1>2. c \in Seq(S) /\ Len(c) = 4 + Len(b) /\ Len(b) \in Nat
  BY <1>1, LenProperties
<1>3. \A i \in 1..(4 + Len(b)) : c[i] = IF i <= 4 THEN a[i] ELSE b[i - 4]
  BY <1>1
<1> HIDE DEF c
<1>4. DOMAIN c = 1..(4 + Len(b))
  BY <1>2, LenProperties
<1>5. \A i \in 1..4 : c[i] = a[i]
  BY <1>2, <1>3
<1>6. \A i \in 1..Len(b) : c[4 + i] = b[i]
  <2> SUFFICES ASSUME NEW i \in 1..Len(b) PROVE c[4 + i] = b[i]
    OBVIOUS
  <2>1. 4 + i \in 1..(4 + Len(b)) /\ ~(4 + i <= 4) /\ (4 + i) - 4 = i
    BY <1>2
  <2> QED
    BY <1>3, <2>1
<1> QED
  BY <1>4, <1>5, <1>6 DEF c

\* The sections, each once, and their ranks.
LEMMA KeysAre ==
    /\ DOMAIN Lay!CollapseOrder = 1..6 /\ Len(Lay!CollapseOrder) = 6
    /\ DOMAIN Lay!Keys(world) \subseteq 1..6
    /\ \A i \in DOMAIN Lay!Keys(world) :
         /\ RankOf(i) \in 1..6 /\ Lay!CollapseOrder[RankOf(i)] = Lay!Keys(world)[i]
         /\ \A r \in 1..6 : Lay!CollapseOrder[r] = Lay!Keys(world)[i] => r = RankOf(i)
    /\ \A i, j \in DOMAIN Lay!Keys(world) : RankOf(i) = RankOf(j) => i = j
<1> DEFINE K == Lay!Keys(world)
           O == Lay!CollapseOrder
           four == <<"calendar", "tasks", "email", "whatsapp">>
           two == <<"awaiting", "names">>
           none == << >>
           All == {"calendar", "tasks", "email", "whatsapp", "awaiting", "names"}
<1>1. /\ DOMAIN O = 1..6 /\ Len(O) = 6
      /\ O[1] = "email" /\ O[2] = "awaiting" /\ O[3] = "tasks"
      /\ O[4] = "calendar" /\ O[5] = "names" /\ O[6] = "whatsapp"
  BY DEF Lay!CollapseOrder
<1>2. /\ four \in Seq(All) /\ two \in Seq(All) /\ none \in Seq(All)
      /\ Len(four) = 4 /\ Len(two) = 2 /\ Len(none) = 0
      /\ four[1] = "calendar" /\ four[2] = "tasks" /\ four[3] = "email" /\ four[4] = "whatsapp"
      /\ two[1] = "awaiting" /\ two[2] = "names"
  OBVIOUS
<1>3. K = four \o two \/ K = four \o none
  BY DEF Lay!Keys
<1> HIDE DEF K, O, four, two, none, All
<1>4. DOMAIN (four \o none) = 1..4 /\ \A i \in 1..4 : (four \o none)[i] = four[i]
  <2>1. /\ DOMAIN (four \o none) = 1..(4 + Len(none))
        /\ \A i \in 1..4 : (four \o none)[i] = four[i]
    BY <1>2, FourAndMore
  <2> QED
    BY <1>2, <2>1
<1>5. /\ DOMAIN (four \o two) = 1..6 /\ \A i \in 1..4 : (four \o two)[i] = four[i]
      /\ (four \o two)[5] = two[1] /\ (four \o two)[6] = two[2]
  <2>1. /\ DOMAIN (four \o two) = 1..(4 + Len(two))
        /\ \A i \in 1..4 : (four \o two)[i] = four[i]
        /\ \A i \in 1..Len(two) : (four \o two)[4 + i] = two[i]
    <3>1. four \in Seq(All) /\ two \in Seq(All) /\ Len(four) = 4
      BY <1>2
    <3> QED
      BY ONLY <3>1, FourAndMore
  <2>2. 1 \in 1..Len(two) /\ 2 \in 1..Len(two) /\ 4 + 1 = 5 /\ 4 + 2 = 6
    BY <1>2
  <2>3. (four \o two)[4 + 1] = two[1] /\ (four \o two)[4 + 2] = two[2]
    BY <2>1, <2>2
  <2> QED
    BY <1>2, <2>1, <2>2, <2>3
<1>6. /\ DOMAIN K = 1..4 \/ DOMAIN K = 1..6
      /\ \A i \in 1..4 : K[i] = four[i]
      /\ DOMAIN K = 1..6 => K[5] = "awaiting" /\ K[6] = "names"
  <2>1. CASE K = four \o none
    <3>1. 1..4 # 1..6
      <4>1. 6 \in 1..6 /\ 6 \notin 1..4
        OBVIOUS
      <4> QED
        BY <4>1
    <3> QED
      BY <1>4, <2>1, <3>1
  <2>2. CASE K = four \o two
    BY <1>2, <1>5, <2>2
  <2> QED
    BY <1>3, <2>1, <2>2
<1>7. /\ K[1] = "calendar" /\ K[2] = "tasks" /\ K[3] = "email" /\ K[4] = "whatsapp"
  BY <1>2, <1>6
<1>8. \A q, r \in 1..6 : O[q] = O[r] => q = r
  BY <1>1
<1>9. \A i \in DOMAIN K : \E r \in 1..6 : O[r] = K[i]
  BY <1>1, <1>6, <1>7
<1>10. \A i, j \in DOMAIN K : K[i] = K[j] => i = j
  BY <1>6, <1>7
<1>11. \A i \in DOMAIN K : RankOf(i) \in 1..6 /\ O[RankOf(i)] = K[i]
  BY <1>9 DEF RankOf, K, O
<1>12. DOMAIN K \subseteq 1..6
  BY <1>6
<1> QED
  BY <1>1, <1>8, <1>10, <1>11, <1>12 DEF K, O

\* What a section is and what summing it up makes of it.
LEMMA SourceIs ==
    ASSUME NEW sec, NEW key, FromSource(sec, key)
    PROVE  /\ sec.key = key /\ sec.collapsed = FALSE /\ (sec.error => sec.items = << >>)
           /\ Lay!Collapsed(sec).key = key /\ Lay!Collapsed(sec).collapsed = TRUE
           /\ Lay!Collapsed(sec).items = << >>
BY DEF FromSource, Lay!Section, Lay!Collapsed

LEMMA RunIs == ASSUME NEW key PROVE FromSource(Lay!RunSource(world, key), key)
<1>1. CASE key \in world.down
  BY <1>1 DEF FromSource, Lay!RunSource
<1>2. CASE key \notin world.down
  <2>1. Lay!RunSource(world, key) = Lay!Limited(key, Lay!Found(world, key))
    BY <1>2 DEF Lay!RunSource
  <2>2. \E found, more, groupMore :
          Lay!Limited(key, Lay!Found(world, key)) = Lay!Section(key, FALSE, found, more, groupMore)
    BY DEF Lay!Limited
  <2> QED
    BY <2>1, <2>2 DEF FromSource
<1> QED
  BY <1>1, <1>2

LEMMA LayoutStarts == Lay!Init => LayoutInv
<1> SUFFICES ASSUME Lay!Init PROVE LayoutInv
  OBVIOUS
<1>1. /\ world \in Worlds /\ stage = "collect" /\ next = 0 /\ free = FALSE
      /\ sections = << >> /\ keyboard = << >> /\ items = << >>
  BY DEF Lay!Init
<1>2. Lay!TypeOK
  <2>1. next \in 0..Len(Lay!CollapseOrder)
    BY <1>1, KeysAre
  <2>2. DOMAIN keyboard \subseteq DOMAIN items /\ DOMAIN sections = {}
    BY <1>1
  <2> QED
    BY <1>1, <2>1, <2>2 DEF Lay!TypeOK
<1> QED
  BY <1>1, <1>2 DEF LayoutInv

\* The sections as they come.
LEMMA Collected == ASSUME LayoutInv, Lay!Collect PROVE LayoutInv'
<1> DEFINE K == Lay!Keys(world)
<1>1. /\ world' = world /\ next' = next /\ keyboard' = keyboard /\ items' = items
      /\ raw' = [i \in DOMAIN K |-> Lay!RunSource(world, K[i])] /\ sections' = raw'
      /\ free' = Lay!IsFree(raw') /\ stage' = "fit" /\ stage = "collect"
  BY DEF Lay!Collect
<1>2. PICK src : src = raw'
  OBVIOUS
<1>3. src = [i \in DOMAIN K |-> Lay!RunSource(world, K[i])]
  BY <1>1, <1>2
<1>4. \A i \in DOMAIN K : FromSource(src[i], K[i]) /\ src[i].collapsed = FALSE /\ src[i].key = K[i]
  <2> SUFFICES ASSUME NEW i \in DOMAIN K
               PROVE  FromSource(src[i], K[i]) /\ src[i].collapsed = FALSE /\ src[i].key = K[i]
    OBVIOUS
  <2>1. FromSource(Lay!RunSource(world, K[i]), K[i])
    BY RunIs
  <2>2. FromSource(src[i], K[i])
    BY <1>3, <2>1
  <2> QED
    BY <2>2, SourceIs
<1>5. Lay!TypeOK'
  <2>1. free' \in BOOLEAN
    BY <1>1 DEF Lay!IsFree
  <2>2. \A i \in DOMAIN sections' : sections'[i].key = Lay!Keys(world')[i]
    BY <1>1, <1>2, <1>3, <1>4
  <2> QED
    BY <1>1, <2>1, <2>2 DEF LayoutInv, Lay!TypeOK
<1>6. next' = 0
  BY <1>1 DEF LayoutInv
<1>7. Reached(src, src, 0)
  <2>1. \A i \in DOMAIN K : RankOf(i) \in 1..6
    BY KeysAre
  <2>2. DOMAIN src = DOMAIN K /\ src = [i \in DOMAIN src |-> src[i]]
    BY <1>3
  <2> HIDE DEF K
  <2>3. \A i \in DOMAIN K : ~(RankOf(i) <= 0)
    BY <2>1
  <2> QED
    BY <1>4, <2>2, <2>3 DEF Reached, K
<1>8. Needed(src, src)
  BY <1>3, <1>4 DEF Needed
<1>9. Reached(sections, raw, next)'
  BY <1>1, <1>2, <1>6, <1>7 DEF Reached, RankOf
<1>10. Needed(sections, raw)'
  BY <1>1, <1>2, <1>8 DEF Needed, RankOf, Lay!Budget
<1> QED
  BY <1>1, <1>5, <1>9, <1>10 DEF LayoutInv

\* A step of the rule of volume.
LEMMA CollapseStep ==
    ASSUME NEW secs, NEW src, NEW n \in 0..5, Reached(secs, src, n), Needed(secs, src),
           Lay!VolumeLines(secs) > Lay!Budget
    PROVE  LET key == Lay!CollapseOrder[n + 1]
               then == [i \in DOMAIN secs |->
                          IF Lay!Collapsible(secs[i], key) THEN Lay!Collapsed(secs[i]) ELSE secs[i]]
           IN  /\ Reached(then, src, n + 1) /\ Needed(then, src)
               /\ \A i \in DOMAIN then : then[i].key = Lay!Keys(world)[i]
<1> DEFINE K == Lay!Keys(world)
           key == Lay!CollapseOrder[n + 1]
           then == [i \in DOMAIN secs |->
                      IF Lay!Collapsible(secs[i], key) THEN Lay!Collapsed(secs[i]) ELSE secs[i]]
<1>1. /\ \A i \in DOMAIN K : /\ RankOf(i) \in 1..6
                             /\ K[i] = key <=> RankOf(i) = n + 1
      /\ \A i, j \in DOMAIN K : RankOf(i) = RankOf(j) => i = j
  <2>1. n + 1 \in 1..6
    OBVIOUS
  <2> QED
    BY <2>1, KeysAre
<1>2. DOMAIN secs = DOMAIN K /\ DOMAIN src = DOMAIN K /\ secs = [i \in DOMAIN K |-> secs[i]]
  BY DEF Reached
<1> HIDE DEF K, key
<1>3. ASSUME NEW i \in DOMAIN K
      PROVE  /\ FromSource(src[i], K[i])
             /\ src[i].key = K[i] /\ src[i].collapsed = FALSE /\ (src[i].error => src[i].items = << >>)
             /\ Lay!Collapsed(src[i]).key = K[i] /\ Lay!Collapsed(src[i]).collapsed = TRUE
             /\ Lay!Collapsed(src[i]).items = << >>
             /\ \/ secs[i] = src[i] /\ (RankOf(i) <= n => src[i].items = << >>)
                \/ secs[i] = Lay!Collapsed(src[i]) /\ RankOf(i) <= n
  <2>1. FromSource(src[i], K[i])
    BY <1>3 DEF Reached, K
  <2> QED
    BY <1>3, <2>1, SourceIs DEF Reached, K
<1>4. ASSUME NEW i \in DOMAIN K
      PROVE  \/ /\ then[i] = secs[i] /\ ~(K[i] = key /\ secs[i].items # << >>)
             \/ /\ then[i] = Lay!Collapsed(src[i]) /\ K[i] = key /\ secs[i] = src[i]
                /\ src[i].items # << >>
  <2>1. then[i] = IF Lay!Collapsible(secs[i], key) THEN Lay!Collapsed(secs[i]) ELSE secs[i]
    BY <1>2, <1>4
  <2>2. CASE Lay!Collapsible(secs[i], key)
    <3>1. secs[i].key = key /\ secs[i].items # << >> /\ ~secs[i].collapsed
      BY <2>2 DEF Lay!Collapsible
    <3>2. secs[i] = src[i] /\ K[i] = key
      BY <1>3, <1>4, <3>1
    <3> QED
      BY <2>1, <2>2, <3>1, <3>2
  <2>3. CASE ~Lay!Collapsible(secs[i], key)
    <3>1. ~(K[i] = key /\ secs[i].items # << >>)
      BY <1>3, <1>4, <2>3 DEF Lay!Collapsible
    <3> QED
      BY <2>1, <2>3, <3>1
  <2> QED
    BY <2>2, <2>3
<1>5. DOMAIN then = DOMAIN K /\ then = [i \in DOMAIN then |-> then[i]]
  BY <1>2
<1> HIDE DEF then
<1>6. ASSUME NEW i \in DOMAIN K
      PROVE  /\ then[i].key = K[i]
             /\ \/ then[i] = src[i] /\ (RankOf(i) <= n + 1 => src[i].items = << >>)
                \/ then[i] = Lay!Collapsed(src[i]) /\ RankOf(i) <= n + 1
  <2>1. RankOf(i) \in 1..6 /\ (K[i] = key <=> RankOf(i) = n + 1)
    BY <1>1, <1>6
  <2>2. RankOf(i) <= n + 1 <=> RankOf(i) <= n \/ RankOf(i) = n + 1
    BY <2>1
  <2> QED
    BY <1>3, <1>4, <1>6, <2>1, <2>2
<1>7. Reached(then, src, n + 1)
  BY <1>2, <1>3, <1>5, <1>6 DEF Reached, K
<1>8. Needed(then, src)
  <2> SUFFICES ASSUME NEW i \in DOMAIN K, then[i].collapsed,
                      \A k \in DOMAIN K : then[k].collapsed => RankOf(k) <= RankOf(i)
               PROVE  Lay!VolumeLines([then EXCEPT ![i] = src[i]]) > Lay!Budget
    BY <1>5 DEF Needed
  <2>1. CASE \E j \in DOMAIN K : then[j] # secs[j]
    <3>1. PICK j \in DOMAIN K : then[j] # secs[j]
      BY <2>1
    <3>2. /\ then[j] = Lay!Collapsed(src[j]) /\ K[j] = key /\ secs[j] = src[j]
          /\ then[j].collapsed /\ RankOf(j) = n + 1
      BY <1>1, <1>3, <1>4, <3>1
    <3>3. RankOf(i) \in 1..6 /\ RankOf(i) <= n + 1 /\ RankOf(j) <= RankOf(i)
      BY <1>1, <1>3, <1>6, <3>2
    <3>4. i = j
      <4>1. RankOf(i) = RankOf(j)
        BY <3>2, <3>3
      <4> QED
        BY <1>1, <4>1
    <3>5. \A k \in DOMAIN K : k # i => then[k] = secs[k]
      <4> SUFFICES ASSUME NEW k \in DOMAIN K, then[k] # secs[k] PROVE k = i
        OBVIOUS
      <4>1. RankOf(k) = n + 1
        BY <1>1, <1>4
      <4> QED
        BY <1>1, <3>2, <3>4, <4>1
    <3>6. [then EXCEPT ![i] = src[i]] = secs
      BY <1>2, <1>5, <3>2, <3>4, <3>5
    <3> QED
      BY <3>6
  <2>2. CASE ~\E j \in DOMAIN K : then[j] # secs[j]
    <3>1. then = secs
      BY <1>2, <1>5, <2>2
    <3> QED
      BY <1>2, <3>1 DEF Needed
  <2> QED
    BY <2>1, <2>2
<1> QED
  BY <1>5, <1>6, <1>7, <1>8 DEF then, key, K

LEMMA Collapses == ASSUME LayoutInv, Lay!Collapse PROVE LayoutInv'
<1> DEFINE key == Lay!CollapseOrder[next + 1]
           then == [i \in DOMAIN sections |->
                      IF Lay!Collapsible(sections[i], key) THEN Lay!Collapsed(sections[i])
                      ELSE sections[i]]
<1>1. /\ stage = "fit" /\ next < Len(Lay!CollapseOrder)
      /\ Lay!VolumeLines(sections) > Lay!Budget
      /\ next' = next + 1 /\ sections' = then
      /\ world' = world /\ stage' = stage /\ raw' = raw /\ items' = items /\ free' = free
      /\ keyboard' = keyboard
  BY DEF Lay!Collapse
<1>2. next \in 0..5 /\ next' \in 0..Len(Lay!CollapseOrder)
  <2>1. next \in 0..6 /\ Len(Lay!CollapseOrder) = 6
    BY KeysAre DEF LayoutInv, Lay!TypeOK
  <2> QED
    BY <1>1, <2>1
<1>3. Reached(sections, raw, next) /\ Needed(sections, raw)
  BY <1>1 DEF LayoutInv
<1>4. /\ Reached(then, raw, next + 1) /\ Needed(then, raw)
      /\ \A i \in DOMAIN then : then[i].key = Lay!Keys(world)[i]
  <2>1. PICK secs, src, n : secs = sections /\ src = raw /\ n = next
    OBVIOUS
  <2>2. n \in 0..5 /\ Reached(secs, src, n) /\ Needed(secs, src) /\ Lay!VolumeLines(secs) > Lay!Budget
    BY <1>1, <1>2, <1>3, <2>1
  <2>3. LET k == Lay!CollapseOrder[n + 1]
            after == [i \in DOMAIN secs |->
                        IF Lay!Collapsible(secs[i], k) THEN Lay!Collapsed(secs[i]) ELSE secs[i]]
        IN  /\ Reached(after, src, n + 1) /\ Needed(after, src)
            /\ \A i \in DOMAIN after : after[i].key = Lay!Keys(world)[i]
    BY ONLY <2>2, CollapseStep
  <2> QED
    BY <2>1, <2>3
<1> HIDE DEF then
<1>5. Lay!TypeOK'
  BY <1>1, <1>2, <1>4 DEF LayoutInv, Lay!TypeOK
<1>6. Reached(sections, raw, next)'
  BY <1>1, <1>4 DEF Reached, RankOf
<1>7. Needed(sections, raw)'
  BY <1>1, <1>4 DEF Needed, RankOf, Lay!Budget
<1> QED
  BY <1>1, <1>5, <1>6, <1>7 DEF LayoutInv

\* The steps that leave the sections alone; buttons are given to numbered rows.
LEMMA SectionsKept ==
    ASSUME LayoutInv, UNCHANGED <<world, raw, sections, next>>, stage # "collect",
           stage' \in {"fit", "number", "render", "done"}, free' = free,
           DOMAIN keyboard' \subseteq DOMAIN items', stage' # "done" => keyboard' = << >>
    PROVE  LayoutInv'
<1>1. Reached(sections, raw, next) /\ Needed(sections, raw)
  BY DEF LayoutInv
<1>2. world' = world /\ raw' = raw /\ sections' = sections /\ next' = next
  OBVIOUS
<1>3. Reached(sections, raw, next)'
  BY <1>1, <1>2 DEF Reached, RankOf
<1>4. Needed(sections, raw)'
  BY <1>1, <1>2 DEF Needed, RankOf, Lay!Budget
<1>5. Lay!TypeOK'
  BY <1>2 DEF LayoutInv, Lay!TypeOK
<1> QED
  BY <1>3, <1>4, <1>5 DEF LayoutInv

LEMMA ButtonsOfRows ==
    ASSUME NEW list, NEW kind PROVE DOMAIN Lay!BuildKeyboard(list, kind) \subseteq DOMAIN list
BY DEF Lay!BuildKeyboard, Lay!ActionableKinds, Lay!RemindableTitles, Lay!FirstRows

LEMMA LayoutSteps == LayoutInv /\ [Lay!Next]_(Lay!vars) => LayoutInv'
<1> SUFFICES ASSUME LayoutInv, [Lay!Next]_(Lay!vars) PROVE LayoutInv'
  OBVIOUS
<1>1. CASE Lay!Collect
  BY <1>1, Collected
<1>2. CASE Lay!Collapse
  BY <1>2, Collapses
<1>3. DOMAIN keyboard \subseteq DOMAIN items /\ (stage # "done" => keyboard = << >>)
  BY DEF LayoutInv, Lay!TypeOK
<1>4. CASE Lay!Fitted
  <2>1. /\ UNCHANGED <<world, raw, sections, next>> /\ stage = "fit" /\ stage' = "number"
        /\ free' = free /\ keyboard' = keyboard /\ items' = items
    BY <1>4 DEF Lay!Fitted
  <2> QED
    BY <1>3, <2>1, SectionsKept
<1>5. CASE Lay!Number
  <2>1. /\ UNCHANGED <<world, raw, sections, next>> /\ stage = "number" /\ stage' = "render"
        /\ free' = free /\ keyboard' = keyboard
    BY <1>5 DEF Lay!Number
  <2>2. DOMAIN keyboard' = {}
    BY <1>3, <2>1
  <2> QED
    BY <1>3, <2>1, <2>2, SectionsKept
<1>6. ASSUME NEW tip \in BOOLEAN, Lay!Render(tip) PROVE LayoutInv'
  <2>1. /\ UNCHANGED <<world, raw, sections, next>> /\ stage = "render" /\ stage' = "done"
        /\ free' = free /\ items' = items /\ keyboard' = Lay!BuildKeyboard(items, world.kind)
    BY <1>6 DEF Lay!Render
  <2>2. DOMAIN keyboard' \subseteq DOMAIN items'
    BY <2>1, ButtonsOfRows
  <2> QED
    BY <2>1, <2>2, SectionsKept
<1>7. CASE UNCHANGED Lay!vars
  <2>1. /\ UNCHANGED <<world, raw, sections, next, stage, free, items, keyboard>>
    BY <1>7 DEF Lay!vars
  <2>2. CASE stage = "collect"
    BY <2>1, <2>2 DEF LayoutInv, Lay!TypeOK
  <2>3. CASE stage # "collect"
    <3>1. stage' \in {"fit", "number", "render", "done"}
      BY <2>1, <2>3 DEF LayoutInv, Lay!TypeOK
    <3> QED
      BY <1>3, <2>1, <2>3, <3>1, SectionsKept
  <2> QED
    BY <2>2, <2>3
<1> QED
  BY <1>1, <1>2, <1>4, <1>5, <1>6, <1>7 DEF Lay!Next

LEMMA CollapsedRight == LayoutInv => Lay!TypeOK /\ Lay!CollapsedForNeed
<1> SUFFICES ASSUME LayoutInv PROVE Lay!CollapsedForNeed
  BY DEF LayoutInv
<1>1. CASE stage = "collect"
  BY <1>1 DEF LayoutInv, Lay!CollapsedForNeed
<1>2. CASE stage # "collect"
  <2> DEFINE K == Lay!Keys(world)
             Rank(sec) == CHOOSE r \in DOMAIN Lay!CollapseOrder : Lay!CollapseOrder[r] = sec.key
  <2>1. Reached(sections, raw, next) /\ Needed(sections, raw) /\ DOMAIN sections = DOMAIN K
    BY <1>2 DEF LayoutInv, Reached
  <2>2. \A i \in DOMAIN sections : Rank(sections[i]) = RankOf(i)
    <3>1. \A i \in DOMAIN sections : sections[i].key = K[i]
      BY DEF LayoutInv, Lay!TypeOK
    <3>2. DOMAIN Lay!CollapseOrder = 1..6
      BY KeysAre
    <3> QED
      BY <3>1, <3>2 DEF RankOf
  <2>3. ASSUME NEW i \in DOMAIN sections, NEW j \in DOMAIN sections, sections[i].collapsed,
               sections[j].items # << >>
        PROVE  RankOf(j) > RankOf(i)
    <3>1. /\ FromSource(raw[i], K[i]) /\ FromSource(raw[j], K[j])
          /\ sections[i] = raw[i] \/ RankOf(i) <= next
          /\ \/ sections[j] = raw[j] /\ (RankOf(j) <= next => raw[j].items = << >>)
             \/ sections[j] = Lay!Collapsed(raw[j])
      BY <2>1, <2>3 DEF Reached
    <3>2. raw[i].collapsed = FALSE /\ Lay!Collapsed(raw[j]).items = << >>
      BY <3>1, SourceIs
    <3>3. RankOf(i) <= next /\ ~(RankOf(j) <= next)
      BY <2>3, <3>1, <3>2
    <3>4. RankOf(i) \in 1..6 /\ RankOf(j) \in 1..6 /\ next \in 0..6
      BY <2>1, KeysAre DEF LayoutInv, Lay!TypeOK
    <3> QED
      BY <3>3, <3>4
  <2>4. ASSUME NEW i \in DOMAIN sections, sections[i].collapsed,
               \A k \in DOMAIN sections : sections[k].collapsed => RankOf(k) <= RankOf(i)
        PROVE  Lay!VolumeLines([sections EXCEPT ![i] = raw[i]]) > Lay!Budget
    BY <2>1, <2>4 DEF Needed
  <2> HIDE DEF Rank
  <2>5. ASSUME NEW i \in DOMAIN sections, NEW j \in DOMAIN sections, sections[i].collapsed
        PROVE  /\ sections[j].items # << >> => Rank(sections[j]) > Rank(sections[i])
               /\ (\A k \in DOMAIN sections :
                     sections[k].collapsed => Rank(sections[k]) <= Rank(sections[i]))
                    => Lay!VolumeLines([sections EXCEPT ![i] = raw[i]]) > Lay!Budget
    BY <2>2, <2>3, <2>4, <2>5
  <2> QED
    BY <2>5 DEF Lay!CollapsedForNeed, Rank
<1> QED
  BY <1>1, <1>2

\* The layout's variables have their types; a section keeps its place.
THEOREM LayoutTypes == Lay!Spec => []Lay!TypeOK
<1>1. LayoutInv => Lay!TypeOK
  BY CollapsedRight
<1> QED
  BY <1>1, LayoutStarts, LayoutSteps, PTL DEF Lay!Spec

\* fit_volume (services/briefing.py): a section is summed up only after all that matter
\* less, and only if the message would be too long with it; whatever the sources hold and
\* whatever the limits.
THEOREM CollapsedForNeedAlways == Lay!Spec => []Lay!CollapsedForNeed
<1>1. LayoutInv => Lay!CollapsedForNeed
  BY CollapsedRight
<1> QED
  BY <1>1, LayoutStarts, LayoutSteps, PTL DEF Lay!Spec
=============================================================================
