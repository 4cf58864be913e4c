--------------------------- MODULE RemindersProofs -------------------------
(* Theorems about Reminders, for any rows, processes and bounds.            *)
EXTENDS Reminders, TLAPS

(* What a tick computes stays an integer date or None.                      *)
LEMMA NextAfterFireType ==
    ASSUME NEW r \in Row, NEW t \in Int
    PROVE  NextAfterFire(r, t) \in Int \cup {None}
<1>1. \A d, a \in Int : NextOccurrence(d, a) \in Int
  BY ParameterAssumption DEF NextOccurrence
<1> QED
  BY <1>1 DEF NextAfterFire, Row

LEMMA ScheduledType ==
    ASSUME NEW r \in Row PROVE Scheduled(r) \in Int
BY DEF Scheduled, Coalesce, Row

LEMMA FinishFiredType ==
    ASSUME TypeOK, NEW i \in Id, NEW next \in Int \cup {None}, FinishFired(i, next)
    PROVE  /\ status' \in [Id -> Status]
           /\ due' \in [Id -> Int]
           /\ snoozeUntil' \in [Id -> Int \cup {None}]
           /\ delivery' \in [Id -> Delivery]
           /\ repeat' = repeat
           /\ claimedAt' = claimedAt
<1>1. CASE status[i] = "firing"
  BY <1>1 DEF FinishFired, TypeOK, Status, Delivery
<1>2. CASE status[i] # "firing"
  BY <1>2 DEF FinishFired, TypeOK
<1> QED
  BY <1>1, <1>2

(* A claim marks what is still to be recorded of the same rows, and no more.*)
LEMMA LateForIs ==
    ASSUME NEW S, NEW items \in [Proc -> SUBSET Finish], NEW q \in Proc
    PROVE  /\ LateFor(S, items) \in [Proc -> SUBSET Finish]
           /\ \A x \in LateFor(S, items)[q] : \E item \in items[q] :
                /\ x = [item EXCEPT !.late = item.late \/ item.id \in S]
                /\ x.id = item.id /\ x.next = item.next
                /\ x.late = (item.late \/ item.id \in S)
           /\ \A item \in items[q] :
                [item EXCEPT !.late = item.late \/ item.id \in S] \in LateFor(S, items)[q]
<1> DEFINE Mark(item) == [item EXCEPT !.late = item.late \/ item.id \in S]
<1>1. \A item \in Finish : /\ Mark(item) \in Finish /\ Mark(item).id = item.id
                           /\ Mark(item).next = item.next
                           /\ Mark(item).late = (item.late \/ item.id \in S)
  BY DEF Finish
<1>2. LateFor(S, items) = [r \in Proc |-> {Mark(item) : item \in items[r]}]
  BY DEF LateFor
<1> HIDE DEF Mark
<1>3. LateFor(S, items) \in [Proc -> SUBSET Finish]
  BY <1>1, <1>2
<1>4. \A x \in LateFor(S, items)[q] : \E item \in items[q] : x = Mark(item) /\ item \in Finish
  BY <1>2
<1>5. \A item \in items[q] : Mark(item) \in LateFor(S, items)[q]
  BY <1>2
<1>6. \A x \in LateFor(S, items)[q] : \E item \in items[q] :
        /\ x = Mark(item) /\ x.id = item.id /\ x.next = item.next
        /\ x.late = (item.late \/ item.id \in S)
  BY <1>1, <1>4
<1> QED
  BY <1>3, <1>5, <1>6, Zenon DEF Mark

LEMMA MarkKeepsTypes ==
    ASSUME TypeOK, NEW S \in SUBSET Id, MarkClaimed(S)
    PROVE  /\ status' \in [Id -> Status] /\ claimedAt' \in [Id -> Int]
           /\ UNCHANGED <<due, repeat, snoozeUntil>>
           /\ pendingFinish' \in [Proc -> SUBSET Finish] /\ toFlush' \in [Proc -> SUBSET Finish]
           /\ \A q \in Proc : toFlush[q] \subseteq pendingFinish[q] => toFlush'[q] \subseteq pendingFinish'[q]
<1>1. /\ pendingFinish \in [Proc -> SUBSET Finish] /\ toFlush \in [Proc -> SUBSET Finish]
      /\ pendingFinish' = LateFor(S, pendingFinish) /\ toFlush' = LateFor(S, toFlush)
  BY DEF TypeOK, MarkClaimed
<1>2. /\ pendingFinish' \in [Proc -> SUBSET Finish] /\ toFlush' \in [Proc -> SUBSET Finish]
  <2>1. CASE Proc = {}
    BY <1>1, <2>1 DEF LateFor
  <2>2. CASE Proc # {}
    BY <1>1, <2>2, LateForIs
  <2> QED
    BY <2>1, <2>2
<1>3. ASSUME NEW q \in Proc, toFlush[q] \subseteq pendingFinish[q]
      PROVE  toFlush'[q] \subseteq pendingFinish'[q]
  BY <1>1, <1>3, LateForIs
<1> QED
  BY <1>2, <1>3 DEF MarkClaimed, TypeOK, Status

(* The tables, the processes and the history keep their types: the type     *)
(* invariant of Reminders holds in every reachable state.                   *)
THEOREM TypeCorrect == Spec => []TypeOK
<1>1. Init => TypeOK
  <2> SUFFICES ASSUME Init PROVE TypeOK
    OBVIOUS
  <2>1. /\ now \in Nat /\ faults \in Nat /\ commands \in Nat
        /\ status \in [Id -> Status]
        /\ due \in [Id -> Int]
        /\ snoozeUntil \in [Id -> Int \cup {None}]
        /\ claimedAt \in [Id -> Int]
        /\ delivery \in [Id -> Delivery]
    BY DEF Init, Status, Delivery
  <2>4. overrun \in BOOLEAN /\ repeat \in [Id -> BOOLEAN]
    BY Zenon DEF Init
  <2>2. /\ pc \in [Proc -> Phase]
        /\ tickNow \in [Proc -> Int]
        /\ firedAt \in [Proc -> Int]
    BY DEF Init, Phase
  <2>3. /\ batch \in [Proc -> SUBSET Row]
        /\ pendingFinish \in [Proc -> SUBSET Finish]
        /\ toFlush \in [Proc -> SUBSET Finish]
    BY DEF Init
  <2> QED BY <2>1, <2>2, <2>3, <2>4 DEF TypeOK
<1>2. TypeOK /\ [Next]_vars => TypeOK'
  <2> SUFFICES ASSUME TypeOK, [Next]_vars PROVE TypeOK'
    OBVIOUS
  <2> USE DEF NoFault, Fault
  <2>1. CASE Clock
    BY <2>1 DEF Clock, TypeOK, table, process, Overrun, Alone
  <2>2. CASE User
    <3> PICK i \in Id :
          \/ \E d \in 0..MaxTime, rep \in BOOLEAN : CreateReminder(i, d, rep)
          \/ \E until \in 0..MaxTime : SnoozeReminder(i, until)
          \/ CompleteReminder(i)
          \/ CancelReminder(i)
      BY <2>2 DEF User
    <3> commands' \in Nat
      BY <2>2 DEF User, CreateReminder, CreateRow, SnoozeReminder, SnoozeRow,
            CompleteReminder, CompleteRow, CancelReminder, CancelRow, Command, TypeOK
    <3>1. ASSUME NEW d \in 0..MaxTime, NEW rep \in BOOLEAN, CreateReminder(i, d, rep) PROVE TypeOK'
      BY <3>1 DEF CreateReminder, CreateRow, ValidateNew, Command, TypeOK, process, Status
    <3>2. ASSUME NEW until \in 0..MaxTime, SnoozeReminder(i, until) PROVE TypeOK'
      BY <3>2 DEF SnoozeReminder, SnoozeRow, Command, TypeOK, process, Status, Delivery
    <3>3. CASE CompleteReminder(i)
      <4>1. CASE repeat[i]
        BY <3>3, <4>1 DEF CompleteReminder, CompleteRow, Command, TypeOK, process
      <4>2. CASE ~repeat[i]
        BY <3>3, <4>2 DEF CompleteReminder, CompleteRow, Command, TypeOK, process, Status
      <4> QED BY <4>1, <4>2
    <3>4. CASE CancelReminder(i)
      BY <3>4 DEF CancelReminder, CancelRow, Command, TypeOK, process, Status
    <3> QED BY <3>1, <3>2, <3>3, <3>4
  <2>3. ASSUME NEW p \in Proc, Tick(p) PROVE TypeOK'
    <3>1. CASE BeginTick(p)
      BY <3>1 DEF BeginTick, TypeOK, table, Phase
    <3>2. ASSUME NEW item \in toFlush[p], FlushItem(p, item) PROVE TypeOK'
      <4>1. item \in Finish
        BY DEF TypeOK
      <4>2. item.id \in Id /\ item.next \in Int \cup {None}
        BY <4>1 DEF Finish
      <4>3. /\ pendingFinish' \in [Proc -> SUBSET Finish]
            /\ toFlush' \in [Proc -> SUBSET Finish]
            /\ faults' \in Nat
        BY <3>2 DEF FlushItem, TypeOK
      <4>4. CASE FinishFired(item.id, item.next)
        BY <3>2, <4>2, <4>3, <4>4, FinishFiredType DEF FlushItem, TypeOK
      <4>5. CASE delivery' = Excuse({item.id}) /\ UNCHANGED table
        BY <3>2, <4>2, <4>3, <4>5 DEF FlushItem, TypeOK, table, Excuse, Delivery
      <4> QED BY <3>2, <4>4, <4>5 DEF FlushItem
    <3>3. CASE RequeueStuck(p)
      BY <3>3 DEF RequeueStuck, TypeOK, Phase, Status
    <3>4. CASE ClaimDue(p)
      <4> PICK S \in FirstDue(tickNow[p]) :
            /\ MarkClaimed(S)
            /\ batch' = [batch EXCEPT ![p] = {Snapshot(i) : i \in S}]
            /\ pc' = [pc EXCEPT ![p] = IF S = {} THEN "idle" ELSE "send"]
        BY <3>4 DEF ClaimDue
      <4>1. S \subseteq Id
        BY DEF FirstDue, DueRows
      <4>2. {Snapshot(i) : i \in S} \subseteq Row
        BY <4>1 DEF Snapshot, Row, TypeOK
      <4> QED
        BY <3>4, <4>1, <4>2, MarkKeepsTypes DEF ClaimDue, TypeOK, Phase
    <3>5. CASE ClaimFails(p)
      <4>1. CASE UNCHANGED <<table, pendingFinish, toFlush>>
        BY <3>5, <4>1 DEF ClaimFails, TypeOK, table, Phase
      <4>2. ASSUME NEW S \in FirstDue(tickNow[p]), MarkClaimed(S) PROVE TypeOK'
        <5>1. S \in SUBSET Id
          BY DEF FirstDue, DueRows
        <5> QED
          BY <3>5, <4>2, <5>1, MarkKeepsTypes DEF ClaimFails, TypeOK, Phase
      <4> QED BY <3>5, <4>1, <4>2 DEF ClaimFails
    <3>6. ASSUME NEW r \in batch[p],
                 \/ SendDelivers(p, r) \/ SendFails(p, r) \/ FinishSucceeds(p, r)
                 \/ FinishGivesUp(p, r) \/ UndoClaim(p, r)
          PROVE  TypeOK'
      <4>1. r \in Row /\ r.id \in Id
        BY DEF TypeOK, Row
      <4>2. NextAfterFire(r, firedAt[p]) \in Int \cup {None}
        BY <4>1, NextAfterFireType DEF TypeOK
      <4>3. CASE SendDelivers(p, r)
        BY <4>1, <4>3 DEF SendDelivers, TypeOK, table, Phase, Delivery
      <4>4. CASE SendFails(p, r)
        BY <4>1, <4>4 DEF SendFails, TypeOK, table, Phase, Delivery
      <4>5. CASE FinishSucceeds(p, r)
        <5>1. FinishFired(r.id, NextAfterFire(r, firedAt[p]))
          BY <4>5 DEF FinishSucceeds
        <5>2. /\ status' \in [Id -> Status]
              /\ due' \in [Id -> Int]
              /\ snoozeUntil' \in [Id -> Int \cup {None}]
              /\ delivery' \in [Id -> Delivery]
              /\ repeat' = repeat
              /\ claimedAt' = claimedAt
          BY <4>1, <4>2, <5>1, FinishFiredType
        <5> QED
          BY <4>5, <5>2 DEF FinishSucceeds, NextRow, TypeOK, Phase
      <4>6. CASE FinishGivesUp(p, r)
        <5>1. FinishItem(p, r) \in Finish
          BY <4>1, <4>2, ScheduledType DEF FinishItem, Finish, Row
        <5>2. pendingFinish' \in [Proc -> SUBSET Finish]
          BY <4>6, <5>1 DEF FinishGivesUp, TypeOK
        <5>3. CASE UNCHANGED <<table, delivery>>
          BY <4>6, <5>2, <5>3 DEF FinishGivesUp, NextRow, TypeOK, Phase, table
        <5>4. CASE FinishFired(r.id, NextAfterFire(r, firedAt[p]))
          <6>1. /\ status' \in [Id -> Status]
                /\ due' \in [Id -> Int]
                /\ snoozeUntil' \in [Id -> Int \cup {None}]
                /\ delivery' \in [Id -> Delivery]
                /\ repeat' = repeat
                /\ claimedAt' = claimedAt
            BY <4>1, <4>2, <5>4, FinishFiredType
          <6> QED
            BY <4>6, <5>2, <6>1 DEF FinishGivesUp, NextRow, TypeOK, Phase
        <5> QED BY <4>6, <5>3, <5>4 DEF FinishGivesUp
      <4>7. CASE UndoClaim(p, r)
        BY <4>1, <4>7 DEF UndoClaim, FromFiring, NextRow, TypeOK, Phase, Status, table
      <4> QED BY <3>6, <4>3, <4>4, <4>5, <4>6, <4>7
    <3> QED BY <2>3, <3>1, <3>2, <3>3, <3>4, <3>5, <3>6 DEF Tick
  <2>4. ASSUME NEW p \in Proc, Crash(p) PROVE TypeOK'
    BY <2>4 DEF Crash, TypeOK, table, Phase, Excuse, Delivery
  <2>5. ASSUME NEW p \in Proc, Start(p) PROVE TypeOK'
    BY <2>5 DEF Start, TypeOK, table, Phase
  <2>6. CASE UNCHANGED vars
    BY <2>6 DEF vars, table, process, TypeOK
  <2> QED BY <2>1, <2>2, <2>3, <2>4, <2>5, <2>6 DEF Next
<1> QED BY <1>1, <1>2, PTL DEF Spec

(* A closed reminder stays closed: every statement that changes the status  *)
(* of a row names the open statuses it accepts.                             *)
THEOREM ClosedStays == Spec => ClosedForever
<1>1. TypeOK /\ [Next]_vars =>
        [\A i \in Id : status[i] \in Closed => status'[i] = status[i]]_vars
  <2> SUFFICES ASSUME TypeOK, Next, NEW i \in Id, status[i] \in Closed
               PROVE  status'[i] = status[i]
    BY DEF vars
  <2> USE DEF TypeOK, Closed
  <2>0. \A j \in Id : \A next : FinishFired(j, next) => status'[i] = status[i]
    BY DEF FinishFired
  <2>1. CASE Clock
    BY <2>1 DEF Clock, table
  <2>2. CASE User
    BY <2>2 DEF User, CreateReminder, CreateRow, SnoozeReminder, SnoozeRow,
            CompleteReminder, CompleteRow, CancelReminder, CancelRow
  <2>3. ASSUME NEW p \in Proc, Tick(p) PROVE status'[i] = status[i]
    <3>1. CASE BeginTick(p)
      BY <3>1 DEF BeginTick, table
    <3>2. ASSUME NEW item \in toFlush[p], FlushItem(p, item) PROVE status'[i] = status[i]
      <4>1. item.id \in Id
        BY DEF Finish
      <4> QED BY <2>0, <3>2, <4>1 DEF FlushItem, table
    <3>3. CASE RequeueStuck(p)
      BY <3>3 DEF RequeueStuck, Stuck
    <3>4. ASSUME NEW S \in FirstDue(tickNow[p]), MarkClaimed(S) PROVE status'[i] = status[i]
      BY <3>4 DEF FirstDue, DueRows, MarkClaimed
    <3>5. ASSUME NEW r \in batch[p],
                 \/ SendDelivers(p, r) \/ SendFails(p, r) \/ FinishSucceeds(p, r)
                 \/ FinishGivesUp(p, r) \/ UndoClaim(p, r)
          PROVE  status'[i] = status[i]
      <4>1. r.id \in Id
        BY DEF Row
      <4> QED
        BY <2>0, <3>5, <4>1 DEF SendDelivers, SendFails, FinishSucceeds, FinishGivesUp,
                                UndoClaim, FromFiring, table
    <3> QED
      BY <2>3, <3>1, <3>2, <3>3, <3>4, <3>5 DEF Tick, ClaimDue, ClaimFails, table
  <2>4. ASSUME NEW p \in Proc, Crash(p) \/ Start(p) PROVE status'[i] = status[i]
    BY <2>4 DEF Crash, Start, table
  <2> QED BY <2>1, <2>2, <2>3, <2>4 DEF Next
<1> QED BY <1>1, TypeCorrect, PTL DEF Spec, ClosedForever

(* The rows of one batch are ordered: at most one is the head.              *)
LEMMA HeadUnique ==
    ASSUME NEW p \in Proc, batch[p] \subseteq Row, BatchShape,
           NEW r, NEW s, IsHead(p, r), IsHead(p, s)
    PROVE  r = s
<1>1. r \in batch[p] /\ s \in batch[p] /\ Before(r, s) /\ Before(s, r)
  BY DEF IsHead
<1>2. r \in Row /\ s \in Row /\ Scheduled(r) \in Int /\ Scheduled(s) \in Int
  BY <1>1, ScheduledType
<1>3. r.id \in Int /\ s.id \in Int
  <2>1. r.id \in Id /\ s.id \in Id
    BY <1>2 DEF Row
  <2>2. \A i \in Id : i \in Int
    BY IdAssumption
  <2> QED BY <2>1, <2>2
<1>4. r.id = s.id
  BY <1>1, <1>2, <1>3 DEF Before
<1> QED BY <1>1, <1>4 DEF BatchShape

(* What finish_fired leaves behind, as far as AloneInv is concerned.        *)
LEMMA FinishFiredEffect ==
    ASSUME TypeOK, NEW i \in Id, NEW next \in Int \cup {None}, FinishFired(i, next)
    PROVE  \A j \in Id :
             /\ j # i => status'[j] = status[j] /\ delivery'[j] = delivery[j]
             /\ status[i] = "firing" => delivery'[i] = "no"
             /\ status[i] # "firing" => status'[i] = status[i] /\ delivery'[i] = delivery[i]
BY DEF FinishFired, TypeOK

(* AloneInv is inductive.                                                   *)
LEMMA AloneInvStep == TypeOK /\ AloneInv /\ [Next]_vars => AloneInv'
<1> SUFFICES ASSUME TypeOK, Alone, BatchShape, Ownership, DeliveriesKnown,
                    NoUnexcusedResend, [Next]_vars
             PROVE  BatchShape' /\ Ownership' /\ DeliveriesKnown' /\ NoUnexcusedResend'
  BY DEF AloneInv, Alone
<1>1. CASE UNCHANGED <<process, status, delivery>>
  BY <1>1 DEF process, BatchShape, Ownership, DeliveriesKnown, NoUnexcusedResend,
              Known, Unrecorded, Unsent, IsHead
<1>2. CASE User
  <2> PICK i \in Id :
        \/ \E d \in 0..MaxTime, rep \in BOOLEAN : CreateReminder(i, d, rep)
        \/ \E until \in 0..MaxTime : SnoozeReminder(i, until)
        \/ CompleteReminder(i)
        \/ CancelReminder(i)
    BY <1>2 DEF User
  <2>1. UNCHANGED process
    BY <1>2 DEF User, CreateReminder, CreateRow, SnoozeReminder, SnoozeRow,
            CompleteReminder, CompleteRow, CancelReminder, CancelRow, Command
  <2>2. /\ status \in [Id -> Status]
        /\ delivery \in [Id -> Delivery]
        /\ \A p \in Proc : \A r \in batch[p] : r.id \in Id
    BY DEF TypeOK, Row
  <2>3. /\ \A j \in Id : j # i => status'[j] = status[j] /\ delivery'[j] = delivery[j]
        /\ \/ status[i] \in {"absent", "pending", "sent"} /\ delivery'[i] \in {"no", delivery[i]}
           \/ status'[i] \in {status[i], "done"} /\ delivery'[i] = delivery[i]
    <3>1. CASE \E d \in 0..MaxTime, rep \in BOOLEAN : CreateReminder(i, d, rep)
      BY <2>2, <3>1 DEF CreateReminder, CreateRow
    <3>2. CASE \E until \in 0..MaxTime : SnoozeReminder(i, until)
      BY <2>2, <3>2 DEF SnoozeReminder, SnoozeRow
    <3>3. CASE CompleteReminder(i)
      BY <2>2, <3>3 DEF CompleteReminder, CompleteRow
    <3>4. CASE CancelReminder(i)
      BY <2>2, <3>4 DEF CancelReminder, CancelRow
    <3> QED BY <3>1, <3>2, <3>3, <3>4
  <2>4. BatchShape'
    BY <2>1 DEF BatchShape, process
  <2>5. Ownership'
    BY <2>1, <2>2, <2>3 DEF Ownership, process
  <2>6. DeliveriesKnown'
    BY <2>1, <2>2, <2>3 DEF DeliveriesKnown, Known, Unrecorded, IsHead, process
  <2>7. NoUnexcusedResend'
    BY <2>1, <2>2, <2>3 DEF NoUnexcusedResend, Unsent, IsHead, process
  <2> QED BY <2>4, <2>5, <2>6, <2>7
<1>3. ASSUME NEW p \in Proc, Tick(p) \/ Crash(p) \/ Start(p)
      PROVE  BatchShape' /\ Ownership' /\ DeliveriesKnown' /\ NoUnexcusedResend'
  <2>1. \A q \in Proc : q = p
    BY DEF Alone
  <2>2. /\ status \in [Id -> Status]
        /\ delivery \in [Id -> Delivery]
        /\ pc \in [Proc -> Phase]
        /\ batch \in [Proc -> SUBSET Row]
        /\ pendingFinish \in [Proc -> SUBSET Finish]
        /\ toFlush \in [Proc -> SUBSET Finish]
        /\ firedAt \in [Proc -> Int]
        /\ \A r \in batch[p] : r \in Row /\ r.id \in Id
        /\ \A item \in pendingFinish[p] : item.id \in Id /\ item.next \in Int \cup {None}
    BY DEF TypeOK, Row, Finish
  <2>3. CASE BeginTick(p)
    <3>1. batch[p] = {}
      BY <2>3 DEF BeginTick, BatchShape
    <3>2. BatchShape'
      BY <2>1, <2>2, <2>3, <3>1 DEF BeginTick, BatchShape
    <3>3. \A i \in Id : Known(p, i) => Known(p, i)'
      BY <2>2, <2>3, <3>1 DEF BeginTick, Known, Unrecorded
    <3>4. DeliveriesKnown'
      BY <2>1, <2>3, <3>3 DEF BeginTick, DeliveriesKnown, table
    <3> QED
      BY <2>1, <2>3, <3>1, <3>2, <3>4 DEF BeginTick, Ownership, NoUnexcusedResend, Unsent
  <2>4. ASSUME NEW item \in toFlush[p], FlushItem(p, item)
        PROVE  BatchShape' /\ Ownership' /\ DeliveriesKnown' /\ NoUnexcusedResend'
    <3>1. batch[p] = {} /\ batch' = batch /\ pc' = pc /\ pc[p] = "flush"
      BY <2>4 DEF FlushItem, BatchShape
    <3>2. BatchShape'
      BY <2>1, <2>2, <2>4, <3>1 DEF FlushItem, BatchShape
    <3>3. item.id \in Id /\ item.next \in Int \cup {None}
      BY <2>2 DEF BatchShape
    <3>4. \A i \in Id : Known(p, i) => i = item.id \/ Known(p, i)'
      BY <2>2, <2>4, <3>1 DEF FlushItem, Known
    <3>5. \A i \in Id : delivery'[i] = "yes" =>
            /\ delivery[i] = "yes"
            /\ status'[i] = status[i]
            /\ status[i] = "firing" => i # item.id
      <4>1. CASE FinishFired(item.id, item.next)
        BY <2>2, <3>3, <4>1, FinishFiredEffect
      <4>2. CASE delivery' = Excuse({item.id}) /\ UNCHANGED table
        BY <2>2, <4>2 DEF Excuse, table
      <4> QED BY <2>4, <4>1, <4>2 DEF FlushItem
    <3>6. DeliveriesKnown'
      BY <2>1, <3>4, <3>5 DEF DeliveriesKnown
    <3> QED
      BY <2>1, <3>1, <3>2, <3>6 DEF Ownership, NoUnexcusedResend, Unsent
  <2>5. CASE RequeueStuck(p)
    <3>1. batch[p] = {} /\ batch' = batch
      BY <2>5 DEF RequeueStuck, BatchShape
    <3>2. BatchShape'
      BY <2>1, <2>2, <2>5, <3>1 DEF RequeueStuck, BatchShape
    <3>3. \A i \in Id : delivery[i] = "yes" => status[i] = "done"
      BY <2>1, <2>5 DEF RequeueStuck, DeliveriesKnown, Known
    <3>4. DeliveriesKnown'
      BY <2>2, <2>5, <3>3 DEF RequeueStuck, DeliveriesKnown, Stuck
    <3> QED
      BY <2>1, <3>1, <3>2, <3>4 DEF Ownership, NoUnexcusedResend, Unsent
  <2>6. CASE ClaimDue(p)
    <3> PICK S \in FirstDue(tickNow[p]) :
          /\ MarkClaimed(S)
          /\ batch' = [batch EXCEPT ![p] = {Snapshot(i) : i \in S}]
          /\ pc' = [pc EXCEPT ![p] = IF S = {} THEN "idle" ELSE "send"]
      BY <2>6 DEF ClaimDue
    <3>1. S \subseteq Id /\ \A i \in S : status[i] = "pending"
      BY DEF FirstDue, DueRows
    <3>2. \A r \in batch'[p] : r.id \in S /\ r = Snapshot(r.id)
      BY <2>2 DEF Snapshot
    <3>3. \A i \in Id : delivery[i] = "yes" => status[i] = "done"
      BY <2>1, <2>6 DEF ClaimDue, DeliveriesKnown, Known
    <3>4. BatchShape'
      BY <2>1, <2>2, <2>6, <3>1, <3>2, MarkKeepsTypes DEF ClaimDue, BatchShape
    <3>5. Ownership'
      BY <2>1, <2>2, <3>1, <3>2 DEF Ownership, MarkClaimed
    <3>6. DeliveriesKnown'
      BY <2>2, <2>6, <3>1, <3>3 DEF ClaimDue, DeliveriesKnown, MarkClaimed
    <3>7. NoUnexcusedResend'
      BY <2>1, <2>2, <2>6, <3>1, <3>2, <3>3 DEF ClaimDue, NoUnexcusedResend, Unsent
    <3> QED BY <3>4, <3>5, <3>6, <3>7
  <2>7. CASE ClaimFails(p)
    <3>1. batch[p] = {} /\ batch' = batch
      BY <2>7 DEF ClaimFails, BatchShape
    <3>2. \A i \in Id : delivery[i] = "yes" => status[i] = "done"
      BY <2>1, <2>7 DEF ClaimFails, DeliveriesKnown, Known
    <3>3. \A i \in Id : status[i] = "done" => status'[i] = "done"
      BY <2>2, <2>7 DEF ClaimFails, MarkClaimed, FirstDue, DueRows, table
    <3>4. BatchShape'
      <4>1. \E S \in SUBSET Id : UNCHANGED <<pendingFinish, toFlush>> \/ MarkClaimed(S)
        BY <2>7 DEF ClaimFails, FirstDue, DueRows
      <4> QED
        BY <2>1, <2>2, <2>7, <3>1, <4>1, MarkKeepsTypes DEF ClaimFails, BatchShape
    <3>5. DeliveriesKnown'
      BY <2>2, <2>7, <3>2, <3>3 DEF ClaimFails, DeliveriesKnown
    <3> QED
      BY <2>1, <3>1, <3>4, <3>5 DEF Ownership, NoUnexcusedResend, Unsent
  <2>8. ASSUME NEW r \in batch[p], SendDelivers(p, r) \/ SendFails(p, r)
        PROVE  BatchShape' /\ Ownership' /\ DeliveriesKnown' /\ NoUnexcusedResend'
    <3>1. /\ UNCHANGED <<batch, status, pendingFinish, toFlush>>
          /\ pc[p] = "send"
          /\ IsHead(p, r)
      BY <2>8 DEF SendDelivers, SendFails, table
    <3>2. BatchShape' /\ Ownership'
      BY <2>1, <2>2, <2>8, <3>1 DEF SendDelivers, SendFails, BatchShape, Ownership
    <3>3. \A s \in batch[p] : delivery[s.id] # "yes" /\ (s # r => s.id # r.id)
      BY <3>1 DEF NoUnexcusedResend, Unsent, BatchShape
    <3>4. IsHead(p, r)'
      BY <3>1 DEF IsHead
    <3>5. CASE SendDelivers(p, r)
      <4>1. \A i \in Id : delivery'[i] = IF i = r.id THEN "yes" ELSE delivery[i]
        BY <2>2, <3>5 DEF SendDelivers
      <4>2. pc'[p] = "finish"
        BY <2>2, <3>5 DEF SendDelivers
      <4>3. \A i \in Id : i = r.id \/ Known(p, i) => Known(p, i)'
        BY <3>1, <3>4, <4>2 DEF Known, Unrecorded
      <4>4. DeliveriesKnown'
        BY <2>1, <2>2, <3>1, <4>1, <4>3 DEF DeliveriesKnown, Ownership
      <4>5. NoUnexcusedResend'
        BY <2>1, <2>2, <3>1, <3>3, <3>4, <4>1, <4>2 DEF NoUnexcusedResend, Unsent
      <4> QED BY <3>2, <4>4, <4>5
    <3>6. CASE SendFails(p, r)
      <4>1. \A i \in Id : delivery'[i] = "yes" => delivery[i] = "yes"
        BY <2>2, <3>6 DEF SendFails
      <4>2. pc'[p] \in {"release", "fail"}
        BY <2>2, <3>6 DEF SendFails
      <4>3. \A i \in Id : Known(p, i) => Known(p, i)'
        BY <3>1, <4>2 DEF Known, Unrecorded
      <4>4. DeliveriesKnown'
        BY <2>1, <3>1, <4>1, <4>3 DEF DeliveriesKnown
      <4>5. NoUnexcusedResend'
        BY <2>1, <2>2, <3>1, <3>3, <4>1 DEF NoUnexcusedResend, Unsent
      <4> QED BY <3>2, <4>4, <4>5
    <3> QED BY <2>8, <3>5, <3>6
  <2>9. ASSUME NEW r \in batch[p],
               FinishSucceeds(p, r) \/ FinishGivesUp(p, r) \/ UndoClaim(p, r)
        PROVE  BatchShape' /\ Ownership' /\ DeliveriesKnown' /\ NoUnexcusedResend'
    <3>1. /\ IsHead(p, r)
          /\ pc[p] \in {"finish", "release", "fail"}
          /\ NextRow(p, r)
      BY <2>9 DEF FinishSucceeds, FinishGivesUp, UndoClaim
    <3>2. /\ batch'[p] = batch[p] \ {r}
          /\ pc'[p] = IF batch[p] = {r} THEN "idle" ELSE "send"
          /\ toFlush' = toFlush
      BY <2>2, <3>1 DEF NextRow
    <3>3. /\ pendingFinish[p] \subseteq pendingFinish'[p]
          /\ \A i \in Id : i \in {item.id : item \in pendingFinish[p]}
                             => i \in {item.id : item \in pendingFinish'[p]}
      BY <2>2, <2>9 DEF FinishSucceeds, FinishGivesUp, UndoClaim
    <3>4. BatchShape'
      BY <2>1, <3>2, <3>3 DEF BatchShape
    <3>5. \A s \in batch'[p] : s \in batch[p] /\ s.id # r.id
      BY <3>2 DEF BatchShape
    <3>6. r.id \in Id /\ NextAfterFire(r, firedAt[p]) \in Int \cup {None}
      BY <2>2, NextAfterFireType
    <3>7. \A i \in Id : i # r.id => status'[i] = status[i] /\ delivery'[i] = delivery[i]
      BY <2>2, <2>9, <3>6, FinishFiredEffect
         DEF FinishSucceeds, FinishGivesUp, UndoClaim, FromFiring, table
    <3>8. Ownership'
      BY <2>1, <2>2, <3>5, <3>7 DEF Ownership
    <3>9. \A s \in batch'[p] : delivery[s.id] # "yes"
      <4> SUFFICES ASSUME NEW s \in batch'[p] PROVE s \in Unsent(p)
        BY DEF NoUnexcusedResend
      <4>1. batch[p] \subseteq Row
        BY <2>2
      <4>2. ~IsHead(p, s)
        BY <3>1, <3>2, <4>1, HeadUnique
      <4> QED BY <3>5, <4>2 DEF Unsent
    <3>10. NoUnexcusedResend'
      BY <2>1, <2>2, <3>5, <3>7, <3>9 DEF NoUnexcusedResend, Unsent
    <3>11. \A i \in Id : i # r.id /\ Known(p, i) => Known(p, i)'
      <4> SUFFICES ASSUME NEW i \in Id, i # r.id, Known(p, i) PROVE Known(p, i)'
        OBVIOUS
      <4>1. i \in Unrecorded(p)
        BY <3>1 DEF Known
      <4>2. batch[p] \subseteq Row
        BY <2>2
      <4>3. i \in {item.id : item \in pendingFinish[p]}
        BY <3>1, <4>1, <4>2, HeadUnique DEF Unrecorded
      <4>4. i \in Unrecorded(p)'
        BY <3>3, <4>3 DEF Unrecorded
      <4>5. pc'[p] \in {"idle", "send"}
        BY <3>2
      <4> QED BY <4>4, <4>5 DEF Known
    <3>12. delivery'[r.id] = "yes" =>
             /\ status'[r.id] \in {"firing", "done"}
             /\ status'[r.id] = "firing" => Known(p, r.id)'
      <4>1. CASE UndoClaim(p, r)
        <5>1. r \in Unsent(p)
          BY <4>1 DEF UndoClaim, Unsent
        <5> QED BY <4>1, <5>1 DEF UndoClaim, NoUnexcusedResend
      <4>2. CASE FinishFired(r.id, NextAfterFire(r, firedAt[p]))
        BY <2>2, <3>6, <4>2, FinishFiredEffect DEF Ownership
      <4>3. CASE FinishGivesUp(p, r) /\ UNCHANGED <<table, delivery>>
        <5>1. FinishItem(p, r) \in pendingFinish'[p] /\ FinishItem(p, r).id = r.id
          BY <2>2, <4>3 DEF FinishGivesUp, FinishItem
        <5>2. r.id \in Unrecorded(p)'
          BY <5>1 DEF Unrecorded
        <5>3. pc'[p] \in {"idle", "send"}
          BY <3>2
        <5> QED BY <4>3, <5>2, <5>3 DEF Known, Ownership, table
      <4> QED BY <2>9, <4>1, <4>2, <4>3 DEF FinishSucceeds, FinishGivesUp
    <3>13. DeliveriesKnown'
      BY <2>1, <3>7, <3>11, <3>12 DEF DeliveriesKnown
    <3> QED BY <3>4, <3>8, <3>10, <3>13
  <2>10. CASE Crash(p)
    <3>1. /\ batch'[p] = {} /\ pendingFinish'[p] = {} /\ toFlush'[p] = {}
          /\ status' = status
      BY <2>2, <2>10 DEF Crash, table
    <3>2. \A i \in Id : Known(p, i) => i \in Unrecorded(p)
      BY DEF Known, Unrecorded, BatchShape
    <3>3. \A i \in Id : delivery'[i] = "yes" => delivery[i] = "yes" /\ status[i] # "firing"
      BY <2>1, <2>2, <2>10, <3>2 DEF Crash, Excuse, DeliveriesKnown
    <3>4. BatchShape' /\ Ownership' /\ NoUnexcusedResend'
      BY <2>1, <3>1 DEF BatchShape, Ownership, NoUnexcusedResend, Unsent
    <3>5. DeliveriesKnown'
      BY <3>1, <3>3 DEF DeliveriesKnown
    <3> QED BY <3>4, <3>5
  <2>11. CASE Start(p)
    <3>1. /\ batch[p] = {} /\ UNCHANGED <<batch, status, delivery, pendingFinish, toFlush>>
          /\ pc[p] = "down"
      BY <2>11 DEF Start, BatchShape, table
    <3>2. BatchShape' /\ Ownership' /\ NoUnexcusedResend'
      BY <2>1, <3>1 DEF BatchShape, Ownership, NoUnexcusedResend, Unsent
    <3>3. DeliveriesKnown'
      BY <2>1, <3>1 DEF DeliveriesKnown, Known
    <3> QED BY <3>2, <3>3
  <2> QED
    BY <1>3, <2>3, <2>4, <2>5, <2>6, <2>7, <2>8, <2>9, <2>10, <2>11 DEF Tick
<1>4. CASE Clock
  BY <1>1, <1>4 DEF Clock, table
<1>5. CASE UNCHANGED vars
  BY <1>1, <1>5 DEF vars, table
<1> QED BY <1>2, <1>3, <1>4, <1>5 DEF Next

LEMMA AloneInvHolds == Spec => []AloneInv
<1>1. Init => AloneInv
  BY DEF Init, AloneInv, BatchShape, Ownership, DeliveriesKnown, NoUnexcusedResend, Unsent
<1> QED BY <1>1, AloneInvStep, TypeCorrect, PTL DEF Spec

(* A lone loop owns what it claimed: nobody cancels, snoozes or reclaims a  *)
(* row between the claim and its finish_fired or release.                   *)
THEOREM RowsOwned == Spec => []Ownership
<1>1. AloneInv => Ownership
  BY DEF AloneInv, Ownership
<1> QED BY <1>1, AloneInvHolds, PTL

(* A lone loop never sends an occurrence twice unless a crash, a failed     *)
(* flush after a failed finish, or a send that reported failure intervened. *)
THEOREM ResendNeedsFault == Spec => []NoUnexcusedResend
<1>1. AloneInv => NoUnexcusedResend
  BY DEF AloneInv, NoUnexcusedResend
<1> QED BY <1>1, AloneInvHolds, PTL

----------------------------------------------------------------------------
(* The schedule.  What a lone process holds of a row that is still 'firing' *)
(* is what the table says, and what it is to write follows from that.       *)

Times ==
  \A p \in Proc : /\ pc[p] \in {"flush", "claim"} => tickNow[p] <= now
                  /\ pc[p] = "finish" => firedAt[p] <= now

\* Where a claimed row may move: nowhere, or on from a date that has come.
MovesOn(d, next) == next # None => next = d \/ (d <= now /\ next > d)

HandsKnow ==
  \A p \in Proc : \A r \in batch[p] :
    /\ status[r.id] = "firing" => r.due = due[r.id]
    /\ r.snooze = None => r.due <= now
    /\ pc[p] = "finish" /\ IsHead(p, r) => delivery[r.id] # "no"

Waiting ==
  \A p \in Proc : \A item \in pendingFinish[p] :
    ~item.late /\ status[item.id] = "firing" =>
      delivery[item.id] # "no" /\ MovesOn(due[item.id], item.next)

OrderInv == Times /\ HandsKnow /\ Waiting

LEMMA NextIsLater ==
    ASSUME NEW d \in Int, NEW t \in Int
    PROVE  NextOccurrence(d, t) \in Int /\ NextOccurrence(d, t) > d
<1>1. Period \in Nat /\ Period > 0
  BY ParameterAssumption
<1>2. CASE t < d
  BY <1>1, <1>2 DEF NextOccurrence
<1>3. CASE ~(t < d)
  <2> DEFINE k == (t - d) \div Period
  <2>1. k \in Int /\ k >= 0
    BY <1>1, <1>3
  <2>2. NextOccurrence(d, t) = d + Period * (k + 1)
    BY <1>3 DEF NextOccurrence
  <2> HIDE DEF k
  <2>3. Period * (k + 1) \in Int /\ Period * (k + 1) > 0
    BY <1>1, <2>1
  <2> QED
    BY <2>2, <2>3
<1> QED
  BY <1>2, <1>3

LEMMA Advance ==
    ASSUME TypeOK, NEW r \in Row, NEW t \in Int, t <= now, r.snooze = None => r.due <= now
    PROVE  MovesOn(r.due, NextAfterFire(r, t))
<1>1. r.due \in Int /\ now \in Int
  BY DEF Row, TypeOK
<1>2. NextOccurrence(r.due, t) \in Int /\ NextOccurrence(r.due, t) > r.due
  BY <1>1, NextIsLater
<1>3. CASE r.repeat /\ r.snooze # None /\ r.due > t
  BY <1>3 DEF NextAfterFire, MovesOn
<1>4. CASE r.repeat /\ ~(r.snooze # None /\ r.due > t)
  <2>1. NextAfterFire(r, t) = NextOccurrence(r.due, t)
    BY <1>4 DEF NextAfterFire
  <2>2. r.due <= now
    BY <1>1, <1>4
  <2> QED
    BY <1>2, <2>1, <2>2 DEF MovesOn
<1>5. CASE ~r.repeat
  BY <1>5 DEF NextAfterFire, MovesOn
<1> QED
  BY <1>3, <1>4, <1>5

\* No row starts firing; one that still fires keeps its date, and a delivery that was made.
RowsSettle ==
  \A j \in Id : status'[j] = "firing" =>
    status[j] = "firing" /\ due'[j] = due[j] /\ (delivery[j] # "no" => delivery'[j] # "no")

LEMMA FinishSettles ==
    ASSUME TypeOK, NEW i \in Id, NEW next \in Int \cup {None}, FinishFired(i, next)
    PROVE  RowsSettle /\ status'[i] # "firing"
BY DEF FinishFired, TypeOK, RowsSettle

\* What is still to be recorded after such a step.
LEMMA WaitingKept ==
    ASSUME TypeOK, Waiting, RowsSettle, now' \in Int, now <= now',
           NEW p \in Proc, \A x \in pendingFinish'[p] : x \in Finish,
           \A x \in pendingFinish'[p] : \/ x \in pendingFinish[p]
                                        \/ x.late
                                        \/ status'[x.id] # "firing"
                                        \/ delivery[x.id] # "no" /\ MovesOn(due[x.id], x.next)
    PROVE  \A x \in pendingFinish'[p] : ~x.late /\ status'[x.id] = "firing" =>
             delivery'[x.id] # "no" /\ MovesOn(due[x.id], x.next)'
<1> SUFFICES ASSUME NEW x \in pendingFinish'[p], ~x.late, status'[x.id] = "firing"
             PROVE  delivery'[x.id] # "no" /\ MovesOn(due[x.id], x.next)'
  OBVIOUS
<1>1. x.id \in Id /\ x.next \in Int \cup {None} /\ now \in Int
  BY DEF Finish, TypeOK
<1>2. status[x.id] = "firing" /\ due'[x.id] = due[x.id] /\ (delivery[x.id] # "no" => delivery'[x.id] # "no")
  BY <1>1 DEF RowsSettle
<1>3. delivery[x.id] # "no" /\ MovesOn(due[x.id], x.next)
  BY <1>2 DEF Waiting
<1>4. due[x.id] \in Int
  BY <1>1 DEF TypeOK
<1> QED
  BY <1>1, <1>2, <1>3, <1>4 DEF MovesOn

LEMMA OrderStep == TypeOK /\ TypeOK' /\ Alone /\ AloneInv /\ OrderInv /\ [Next]_vars => OrderInv'
<1> SUFFICES ASSUME TypeOK, TypeOK', Alone, BatchShape, Ownership, Times, HandsKnow, Waiting, [Next]_vars
             PROVE  Times' /\ HandsKnow' /\ Waiting'
  BY DEF AloneInv, OrderInv
<1>0. now \in Int /\ \A p \in Proc : \A r \in batch[p] : r \in Row /\ r.id \in Id /\ r.due \in Int
  BY DEF TypeOK, Row
<1>1. ASSUME UNCHANGED process, RowsSettle, now' \in Int, now <= now',
             \A p \in Proc : \A r \in batch[p] : status[r.id] \in {"firing", "done"} =>
               delivery'[r.id] = delivery[r.id]
      PROVE  Times' /\ HandsKnow' /\ Waiting'
  <2>1. Times'
    BY <1>0, <1>1 DEF Times, process, TypeOK
  <2>2. HandsKnow'
    <3> SUFFICES ASSUME NEW p \in Proc, NEW r \in batch[p]
                 PROVE  /\ status'[r.id] = "firing" => r.due = due'[r.id]
                        /\ r.snooze = None => r.due <= now'
                        /\ pc[p] = "finish" /\ IsHead(p, r) => delivery'[r.id] # "no"
      BY <1>1 DEF HandsKnow, process, IsHead
    <3>1. status'[r.id] = "firing" => r.due = due'[r.id]
      BY <1>0, <1>1 DEF RowsSettle, HandsKnow
    <3>2. r.snooze = None => r.due <= now'
      BY <1>0, <1>1 DEF HandsKnow
    <3> QED
      BY <1>1, <3>1, <3>2 DEF HandsKnow, Ownership
  <2>3. ASSUME NEW p \in Proc
        PROVE  \A x \in pendingFinish'[p] : ~x.late /\ status'[x.id] = "firing" =>
                 delivery'[x.id] # "no" /\ MovesOn(due[x.id], x.next)'
    <3>1. pendingFinish' = pendingFinish /\ \A x \in pendingFinish'[p] : x \in Finish
      BY <1>1 DEF process, TypeOK
    <3> QED
      BY <1>1, <3>1, WaitingKept
  <2> QED
    BY <2>1, <2>2, <2>3 DEF Waiting
<1>2. CASE Clock
  <2>1. UNCHANGED <<process, table, delivery>> /\ now' = now + 1
    BY <1>2 DEF Clock
  <2> QED
    BY <1>0, <1>1, <2>1 DEF table, RowsSettle
<1>3. CASE User
  <2>1. PICK i \in Id :
        \/ \E d \in 0..MaxTime, rep \in BOOLEAN : CreateReminder(i, d, rep)
        \/ \E until \in 0..MaxTime : SnoozeReminder(i, until)
        \/ CompleteReminder(i)
        \/ CancelReminder(i)
    BY <1>3 DEF User
  <2>2. UNCHANGED <<process, now>>
    BY <1>3 DEF User, CreateReminder, CreateRow, SnoozeReminder, SnoozeRow,
            CompleteReminder, CompleteRow, CancelReminder, CancelRow, Command
  <2>3. /\ \A j \in Id : j # i => status'[j] = status[j] /\ due'[j] = due[j] /\ delivery'[j] = delivery[j]
        /\ status'[i] = "firing" => status[i] = "firing" /\ due'[i] = due[i] /\ delivery'[i] = delivery[i]
        /\ status[i] \in {"firing", "done"} => delivery'[i] = delivery[i]
    <3>1. CASE \E d \in 0..MaxTime, rep \in BOOLEAN : CreateReminder(i, d, rep)
      BY <3>1 DEF CreateReminder, CreateRow, TypeOK
    <3>2. CASE \E until \in 0..MaxTime : SnoozeReminder(i, until)
      BY <3>2 DEF SnoozeReminder, SnoozeRow, TypeOK
    <3>3. CASE CompleteReminder(i)
      BY <3>3 DEF CompleteReminder, CompleteRow, TypeOK
    <3>4. CASE CancelReminder(i)
      BY <3>4 DEF CancelReminder, CancelRow, TypeOK
    <3> QED BY <2>1, <3>1, <3>2, <3>3, <3>4
  <2>4. RowsSettle
    BY <2>3 DEF RowsSettle
  <2> QED
    BY <1>0, <1>1, <2>2, <2>3, <2>4
<1>4. ASSUME NEW p \in Proc, Tick(p) \/ Crash(p) \/ Start(p)
      PROVE  Times' /\ HandsKnow' /\ Waiting'
  <2>1. \A q \in Proc : q = p
    BY DEF Alone
  <2>2. /\ pc \in [Proc -> Phase] /\ tickNow \in [Proc -> Int] /\ firedAt \in [Proc -> Int]
        /\ batch \in [Proc -> SUBSET Row] /\ pendingFinish \in [Proc -> SUBSET Finish]
        /\ toFlush \in [Proc -> SUBSET Finish]
        /\ status \in [Id -> Status] /\ due \in [Id -> Int] /\ delivery \in [Id -> Delivery]
        /\ \A q \in Proc : \A x \in pendingFinish'[q] : x \in Finish
    BY DEF TypeOK
  <2>3. now' = now
    BY <1>4 DEF Tick, BeginTick, FlushItem, RequeueStuck, ClaimDue, ClaimFails, SendDelivers,
         SendFails, FinishSucceeds, FinishGivesUp, UndoClaim, NextRow, Crash, Start
  \* All but a claim let the rows settle.
  <2>4. ASSUME RowsSettle, batch'[p] \subseteq batch[p],
               pc'[p] \in {"flush", "claim"} => tickNow'[p] <= now,
               pc'[p] = "finish" => firedAt'[p] <= now,
               pc'[p] = "finish" => \A r \in batch'[p] : IsHead(p, r)' => delivery'[r.id] # "no",
               \A x \in pendingFinish'[p] :
                 \/ x \in pendingFinish[p]
                 \/ status'[x.id] # "firing"
                 \/ delivery[x.id] # "no" /\ MovesOn(due[x.id], x.next)
        PROVE  Times' /\ HandsKnow' /\ Waiting'
    <3>1. Times'
      BY <1>0, <2>1, <2>2, <2>3, <2>4 DEF Times
    <3>2. HandsKnow'
      BY <1>0, <2>1, <2>3, <2>4 DEF HandsKnow, RowsSettle
    <3>3. \A x \in pendingFinish'[p] : ~x.late /\ status'[x.id] = "firing" =>
            delivery'[x.id] # "no" /\ MovesOn(due[x.id], x.next)'
      BY <1>0, <2>2, <2>3, <2>4, WaitingKept
    <3>4. Waiting'
      BY <2>1, <3>3 DEF Waiting
    <3> QED
      BY <3>1, <3>2, <3>4
  <2>5. CASE BeginTick(p)
    <3>1. UNCHANGED <<batch, pendingFinish, status, due, delivery>> /\ tickNow'[p] <= now /\ pc'[p] = "flush"
      BY <1>0, <2>2, <2>5 DEF BeginTick, table
    <3> QED
      BY <2>4, <3>1 DEF RowsSettle
  <2>6. ASSUME NEW item \in toFlush[p], FlushItem(p, item)
        PROVE  Times' /\ HandsKnow' /\ Waiting'
    <3>1. UNCHANGED <<batch, pc>> /\ pc[p] = "flush" /\ pendingFinish'[p] \subseteq pendingFinish[p]
          /\ tickNow'[p] <= now
      BY <2>2, <2>6 DEF FlushItem, Times
    <3>2. item.id \in Id /\ item.next \in Int \cup {None}
      BY <2>2 DEF Finish
    <3>3. RowsSettle
      <4>1. CASE FinishFired(item.id, item.next)
        BY <3>2, <4>1, FinishSettles
      <4>2. CASE delivery' = Excuse({item.id}) /\ UNCHANGED table
        BY <2>2, <4>2 DEF Excuse, table, RowsSettle
      <4> QED BY <2>6, <4>1, <4>2 DEF FlushItem
    <3> QED
      BY <2>4, <3>1, <3>3
  <2>7. CASE RequeueStuck(p)
    <3>1. UNCHANGED <<batch, pendingFinish, due, delivery>> /\ pc'[p] = "claim" /\ tickNow'[p] <= now
      BY <2>2, <2>7 DEF RequeueStuck, Times
    <3>2. RowsSettle
      BY <2>2, <2>7 DEF RequeueStuck, RowsSettle
    <3> QED
      BY <2>4, <3>1, <3>2
  <2>8. ASSUME NEW S \in FirstDue(tickNow[p]), MarkClaimed(S), pc[p] = "claim",
               \/ batch' = batch
               \/ batch' = [batch EXCEPT ![p] = {Snapshot(i) : i \in S}],
               pc'[p] \in {"idle", "send"}, delivery' = delivery
        PROVE  Times' /\ HandsKnow' /\ Waiting'
    <3>1. S \subseteq Id /\ \A i \in S : Effective(i) <= tickNow[p]
      BY DEF FirstDue, DueRows
    <3>2. batch[p] = {} /\ tickNow[p] <= now
      BY <2>8 DEF BatchShape, Times
    <3>3. \A r \in batch'[p] : \E i \in S : r = Snapshot(i)
      BY <2>2, <2>8, <3>2
    <3>4. Times'
      BY <2>1, <2>8 DEF Times
    <3>5. HandsKnow'
      <4> SUFFICES ASSUME NEW r \in batch'[p]
                   PROVE  r.due = due'[r.id] /\ (r.snooze = None => r.due <= now')
        BY <2>1, <2>8 DEF HandsKnow
      <4>1. PICK i \in S : r = Snapshot(i)
        BY <3>3
      <4>2. r.due = due[i] /\ r.id = i /\ r.snooze = snoozeUntil[i] /\ due' = due
        BY <2>8, <4>1 DEF Snapshot, MarkClaimed
      <4>3. r.snooze = None => r.due <= tickNow[p]
        BY <3>1, <4>1, <4>2 DEF Effective, Coalesce
      <4>4. due[i] \in Int /\ tickNow[p] \in Int
        BY <2>2, <3>1
      <4> QED
        BY <1>0, <2>3, <3>2, <4>2, <4>3, <4>4
    <3>6. ASSUME NEW x \in pendingFinish'[p], ~x.late, status'[x.id] = "firing"
          PROVE  delivery'[x.id] # "no" /\ MovesOn(due[x.id], x.next)'
      <4>1. pendingFinish' = LateFor(S, pendingFinish)
        BY <2>8 DEF MarkClaimed
      <4>2. PICK item \in pendingFinish[p] : /\ x.id = item.id /\ x.next = item.next
                                             /\ x.late = (item.late \/ item.id \in S)
        BY <2>2, <3>6, <4>1, LateForIs
      <4>3. ~item.late /\ item.id \notin S /\ item.id \in Id
        BY <2>2, <3>6, <4>2 DEF Finish
      <4>4. status'[item.id] = status[item.id] /\ due' = due
        BY <2>8, <4>3 DEF MarkClaimed
      <4>5. delivery[item.id] # "no" /\ MovesOn(due[item.id], item.next)
        BY <3>6, <4>2, <4>3, <4>4 DEF Waiting
      <4> QED
        BY <2>3, <2>8, <4>2, <4>4, <4>5 DEF MovesOn
    <3>7. Waiting'
      BY <2>1, <3>6 DEF Waiting
    <3> QED
      BY <3>4, <3>5, <3>7
  <2>9. CASE ClaimDue(p)
    <3>1. PICK S \in FirstDue(tickNow[p]) :
          /\ MarkClaimed(S)
          /\ batch' = [batch EXCEPT ![p] = {Snapshot(i) : i \in S}]
          /\ pc' = [pc EXCEPT ![p] = IF S = {} THEN "idle" ELSE "send"]
      BY <2>9 DEF ClaimDue
    <3>2. pc[p] = "claim" /\ delivery' = delivery /\ pc'[p] \in {"idle", "send"}
      BY <2>2, <2>9, <3>1 DEF ClaimDue
    <3> QED
      BY <2>8, <3>1, <3>2
  <2>10. CASE ClaimFails(p)
    <3>1. pc[p] = "claim" /\ delivery' = delivery /\ pc'[p] = "idle" /\ batch' = batch
      BY <2>2, <2>10 DEF ClaimFails
    <3>2. CASE UNCHANGED <<table, pendingFinish, toFlush>>
      BY <2>4, <3>1, <3>2 DEF table, RowsSettle
    <3>3. ASSUME NEW S \in FirstDue(tickNow[p]), MarkClaimed(S)
          PROVE  Times' /\ HandsKnow' /\ Waiting'
      BY <2>8, <3>1, <3>3
    <3> QED
      BY <2>10, <3>2, <3>3 DEF ClaimFails
  <2>11. ASSUME NEW r \in batch[p], SendDelivers(p, r) \/ SendFails(p, r)
         PROVE  Times' /\ HandsKnow' /\ Waiting'
    <3>1. UNCHANGED <<batch, status, due, pendingFinish>> /\ IsHead(p, r)
      BY <2>11 DEF SendDelivers, SendFails, table
    <3>2. batch[p] \subseteq Row /\ r.id \in Id
      BY <1>0
    <3>3. CASE SendDelivers(p, r)
      <4>1. pc'[p] = "finish" /\ firedAt'[p] = now /\ delivery' = [delivery EXCEPT ![r.id] = "yes"]
        BY <2>2, <3>3 DEF SendDelivers
      <4>2. \A s \in batch'[p] : IsHead(p, s)' => delivery'[s.id] # "no"
        <5> SUFFICES ASSUME NEW s \in batch[p], IsHead(p, s)
                     PROVE  delivery'[s.id] # "no"
          BY <3>1 DEF IsHead
        <5>1. s = r
          BY <3>1, <3>2, HeadUnique
        <5> QED
          BY <2>2, <3>2, <4>1, <5>1
      <4>3. RowsSettle
        BY <2>2, <3>1, <3>2, <4>1 DEF RowsSettle
      <4> QED
        BY <1>0, <2>4, <3>1, <4>1, <4>2, <4>3
    <3>4. CASE SendFails(p, r)
      <4>1. pc'[p] \in {"release", "fail"} /\ delivery' \in {delivery, [delivery EXCEPT ![r.id] = "excused"]}
        BY <2>2, <3>4 DEF SendFails
      <4>2. RowsSettle
        BY <2>2, <3>1, <3>2, <4>1 DEF RowsSettle
      <4> QED
        BY <2>4, <3>1, <4>1, <4>2
    <3> QED
      BY <2>11, <3>3, <3>4
  <2>12. ASSUME NEW r \in batch[p],
                FinishSucceeds(p, r) \/ FinishGivesUp(p, r) \/ UndoClaim(p, r)
         PROVE  Times' /\ HandsKnow' /\ Waiting'
    <3>1. batch'[p] = batch[p] \ {r} /\ pc'[p] \in {"idle", "send"} /\ IsHead(p, r)
      BY <2>2, <2>12 DEF FinishSucceeds, FinishGivesUp, UndoClaim, NextRow
    <3>2. r \in Row /\ r.id \in Id /\ NextAfterFire(r, firedAt[p]) \in Int \cup {None}
      BY <1>0, <2>2, NextAfterFireType
    <3>3. RowsSettle
      <4>1. CASE FinishFired(r.id, NextAfterFire(r, firedAt[p]))
        BY <3>2, <4>1, FinishSettles
      <4>2. CASE UNCHANGED <<table, delivery>>
        BY <4>2 DEF table, RowsSettle
      <4>3. CASE UndoClaim(p, r)
        <5>1. delivery' = delivery /\ due' = due
          BY <4>3 DEF UndoClaim, FromFiring, table
        <5>2. \A j \in Id : status'[j] = "firing" => status[j] = "firing"
          BY <2>2, <4>3 DEF UndoClaim, FromFiring, table
        <5> QED
          BY <5>1, <5>2 DEF RowsSettle
      <4> QED
        BY <2>12, <4>1, <4>2, <4>3 DEF FinishSucceeds, FinishGivesUp
    <3>4. \A x \in pendingFinish'[p] :
            \/ x \in pendingFinish[p]
            \/ status'[x.id] # "firing"
            \/ delivery[x.id] # "no" /\ MovesOn(due[x.id], x.next)
      <4>1. CASE FinishSucceeds(p, r) \/ UndoClaim(p, r)
        BY <4>1 DEF FinishSucceeds, UndoClaim
      <4>2. CASE FinishGivesUp(p, r)
        <5> DEFINE x == FinishItem(p, r)
        <5>1. x.id = r.id /\ x.next = NextAfterFire(r, firedAt[p])
          BY DEF FinishItem
        <5>2. pendingFinish'[p] = pendingFinish[p] \cup {x} /\ pc[p] = "finish"
          BY <2>2, <4>2 DEF FinishGivesUp
        <5> HIDE DEF x
        <5>3. CASE FinishFired(r.id, NextAfterFire(r, firedAt[p]))
          BY <3>2, <5>1, <5>2, <5>3, FinishSettles
        <5>4. CASE UNCHANGED <<table, delivery>>
          <6>1. delivery[r.id] # "no" /\ firedAt[p] <= now /\ firedAt[p] \in Int
            BY <2>2, <3>1, <5>2 DEF HandsKnow, Times
          <6>2. MovesOn(r.due, x.next)
            BY <3>2, <5>1, <6>1, Advance DEF HandsKnow
          <6>3. status[r.id] = "firing" => r.due = due[r.id]
            BY DEF HandsKnow
          <6>4. status' = status
            BY <5>4 DEF table
          <6> QED
            BY <5>1, <5>2, <6>1, <6>2, <6>3, <6>4
        <5> QED
          BY <4>2, <5>3, <5>4 DEF FinishGivesUp
      <4> QED
        BY <2>12, <4>1, <4>2
    <3> QED
      BY <2>4, <3>1, <3>3, <3>4
  <2>13. CASE Crash(p)
    <3>1. batch'[p] = {} /\ pendingFinish'[p] = {} /\ pc'[p] = "down" /\ UNCHANGED <<status, due>>
      BY <2>2, <2>13 DEF Crash, table
    <3> QED
      BY <2>1, <3>1 DEF Times, HandsKnow, Waiting
  <2>14. CASE Start(p)
    <3>1. UNCHANGED <<batch, pendingFinish, status, due, delivery>> /\ pc'[p] = "idle"
      BY <2>2, <2>14 DEF Start, table
    <3> QED
      BY <2>4, <3>1 DEF RowsSettle
  <2> QED
    BY <1>4, <2>5, <2>6, <2>7, <2>9, <2>10, <2>11, <2>12, <2>13, <2>14 DEF Tick
<1>5. CASE UNCHANGED vars
  BY <1>0, <1>1, <1>5 DEF vars, table, RowsSettle
<1> QED
  BY <1>2, <1>3, <1>4, <1>5 DEF Next

\* A step that closes no row that is 'firing' and moves no date.
Untouched ==
  \A i \in Id : /\ status[i] = "firing" => status'[i] # "sent"
                /\ status[i] # "absent" => due'[i] = due[i]

LEMMA UntouchedKeeps == Untouched => NoSilentClose /\ ScheduleKept
BY DEF Untouched, NoSilentClose, ScheduleKept

\* finish_fired with what belongs to the row's own open delivery.
LEMMA FinishKeeps ==
    ASSUME TypeOK, NEW i \in Id, NEW next \in Int \cup {None}, FinishFired(i, next),
           status[i] = "firing" => \/ LateFinish(i)
                                   \/ delivery[i] # "no" /\ MovesOn(due[i], next)
    PROVE  NoSilentClose /\ ScheduleKept
<1>1. \A j \in Id : j # i => status'[j] = status[j] /\ due'[j] = due[j]
  BY DEF FinishFired, TypeOK
<1>2. CASE status[i] # "firing"
  BY <1>1, <1>2, UntouchedKeeps DEF Untouched, FinishFired, TypeOK
<1>3. CASE status[i] = "firing" /\ LateFinish(i)
  BY <1>1, <1>3 DEF NoSilentClose, ScheduleKept
<1>4. CASE status[i] = "firing" /\ delivery[i] # "no" /\ MovesOn(due[i], next)
  <2>1. due'[i] = IF next = None THEN due[i] ELSE next
    BY <1>4 DEF FinishFired, TypeOK
  <2>2. due'[i] # due[i] => due[i] <= now /\ due'[i] > due[i]
    BY <1>4, <2>1 DEF MovesOn
  <2> QED
    BY <1>1, <1>4, <2>2 DEF NoSilentClose, ScheduleKept
<1> QED
  BY <1>2, <1>3, <1>4

LEMMA StepKeepsOccurrences ==
    TypeOK /\ Alone /\ AloneInv /\ OrderInv /\ [Next]_vars => NoSilentClose /\ ScheduleKept
<1> SUFFICES ASSUME TypeOK, Alone, BatchShape, Times, HandsKnow, Waiting, [Next]_vars
             PROVE  NoSilentClose /\ ScheduleKept
  BY DEF AloneInv, OrderInv
<1>1. CASE Clock
  BY <1>1, UntouchedKeeps DEF Untouched, Clock, table
<1>2. CASE User
  <2>1. PICK i \in Id :
        \/ \E d \in 0..MaxTime, rep \in BOOLEAN : CreateReminder(i, d, rep)
        \/ \E until \in 0..MaxTime : SnoozeReminder(i, until)
        \/ CompleteReminder(i)
        \/ CancelReminder(i)
    BY <1>2 DEF User
  <2>2. Untouched
    <3>1. CASE \E d \in 0..MaxTime, rep \in BOOLEAN : CreateReminder(i, d, rep)
      BY <3>1 DEF CreateReminder, CreateRow, TypeOK, Untouched
    <3>2. CASE \E until \in 0..MaxTime : SnoozeReminder(i, until)
      BY <3>2 DEF SnoozeReminder, SnoozeRow, TypeOK, Untouched
    <3>3. CASE CompleteReminder(i)
      BY <3>3 DEF CompleteReminder, CompleteRow, TypeOK, Untouched
    <3>4. CASE CancelReminder(i)
      BY <3>4 DEF CancelReminder, CancelRow, TypeOK, Untouched
    <3> QED BY <2>1, <3>1, <3>2, <3>3, <3>4
  <2> QED
    BY <2>2, UntouchedKeeps
<1>3. ASSUME NEW p \in Proc, NEW item \in toFlush[p], FlushItem(p, item)
      PROVE  NoSilentClose /\ ScheduleKept
  <2>1. item \in pendingFinish[p] /\ item \in Finish
    BY <1>3 DEF BatchShape, TypeOK
  <2>2. item.id \in Id /\ item.next \in Int \cup {None}
    BY <2>1 DEF Finish
  <2>3. CASE FinishFired(item.id, item.next)
    <3>1. status[item.id] = "firing" =>
            \/ LateFinish(item.id)
            \/ delivery[item.id] # "no" /\ MovesOn(due[item.id], item.next)
      BY <2>1 DEF Waiting, LateFinish
    <3> QED
      BY <2>2, <2>3, <3>1, FinishKeeps
  <2>4. CASE UNCHANGED table
    BY <2>4, UntouchedKeeps DEF Untouched, table
  <2> QED
    BY <1>3, <2>3, <2>4 DEF FlushItem
<1>4. ASSUME NEW p \in Proc, NEW r \in batch[p], FinishSucceeds(p, r) \/ FinishGivesUp(p, r)
      PROVE  NoSilentClose /\ ScheduleKept
  <2>1. /\ r \in Row /\ r.id \in Id /\ r.due \in Int /\ firedAt[p] \in Int
        /\ NextAfterFire(r, firedAt[p]) \in Int \cup {None}
    BY NextAfterFireType DEF TypeOK, Row
  <2>2. pc[p] = "finish" /\ IsHead(p, r)
    BY <1>4 DEF FinishSucceeds, FinishGivesUp
  <2>3. CASE FinishFired(r.id, NextAfterFire(r, firedAt[p]))
    <3>1. delivery[r.id] # "no" /\ firedAt[p] <= now /\ (status[r.id] = "firing" => r.due = due[r.id])
      BY <2>2 DEF HandsKnow, Times
    <3>2. MovesOn(r.due, NextAfterFire(r, firedAt[p]))
      BY <2>1, <3>1, Advance DEF HandsKnow
    <3> QED
      BY <2>1, <2>3, <3>1, <3>2, FinishKeeps
  <2>4. CASE UNCHANGED table
    BY <2>4, UntouchedKeeps DEF Untouched, table
  <2> QED
    BY <1>4, <2>3, <2>4 DEF FinishSucceeds, FinishGivesUp
<1>5. ASSUME NEW p \in Proc, NEW r \in batch[p], UndoClaim(p, r)
      PROVE  NoSilentClose /\ ScheduleKept
  <2>1. r.id \in Id /\ status \in [Id -> Status] /\ due' = due
    BY <1>5 DEF TypeOK, Row, UndoClaim, FromFiring, table
  <2>2. \A i \in Id : status[i] = "firing" => status'[i] # "sent"
    BY <1>5, <2>1 DEF UndoClaim, FromFiring, table
  <2> QED
    BY <2>1, <2>2, UntouchedKeeps DEF Untouched
<1>6. ASSUME NEW p \in Proc, RequeueStuck(p) \/ ClaimDue(p) \/ ClaimFails(p)
      PROVE  NoSilentClose /\ ScheduleKept
  <2>1. due' = due /\ status \in [Id -> Status]
    BY <1>6 DEF RequeueStuck, ClaimDue, ClaimFails, MarkClaimed, table, TypeOK
  <2>2. \A i \in Id : status[i] = "firing" => status'[i] # "sent"
    <3>1. CASE RequeueStuck(p)
      BY <2>1, <3>1 DEF RequeueStuck
    <3>2. ASSUME NEW S, MarkClaimed(S)
          PROVE  \A i \in Id : status[i] = "firing" => status'[i] # "sent"
      BY <2>1, <3>2 DEF MarkClaimed
    <3>3. CASE UNCHANGED table
      BY <3>3 DEF table
    <3> QED
      BY <1>6, <3>1, <3>2, <3>3 DEF ClaimDue, ClaimFails
  <2> QED
    BY <2>1, <2>2, UntouchedKeeps DEF Untouched
<1>7. ASSUME NEW p \in Proc,
             \/ BeginTick(p) \/ Crash(p) \/ Start(p)
             \/ \E r \in batch[p] : SendDelivers(p, r) \/ SendFails(p, r)
      PROVE  NoSilentClose /\ ScheduleKept
  BY <1>7, UntouchedKeeps DEF Untouched, BeginTick, Crash, Start, SendDelivers, SendFails, table
<1>8. CASE UNCHANGED vars
  BY <1>8, UntouchedKeeps DEF Untouched, vars, table
<1> QED
  BY <1>1, <1>2, <1>3, <1>4, <1>5, <1>6, <1>7, <1>8 DEF Next, Tick

(* With one process a claimed occurrence is closed or moved on only after   *)
(* its message reached the user, and the date of a series moves only when   *)
(* it has come and only forward, unless the finish_fired of an earlier      *)
(* claim was still waiting in _pending_finish.                              *)
THEOREM OccurrencesStay == ASSUME Alone PROVE Spec => OccurrencesKept
<1>1. Init => OrderInv
  BY DEF Init, OrderInv, Times, HandsKnow, Waiting
<1>2. TypeOK /\ TypeOK' /\ AloneInv /\ OrderInv /\ [Next]_vars => OrderInv'
  BY OrderStep
<1>3. Spec => []OrderInv
  BY <1>1, <1>2, TypeCorrect, AloneInvHolds, PTL DEF Spec
<1>4. TypeOK /\ AloneInv /\ OrderInv /\ [Next]_vars => [NoSilentClose /\ ScheduleKept]_vars
  BY StepKeepsOccurrences
<1> QED
  BY <1>3, <1>4, TypeCorrect, AloneInvHolds, PTL DEF Spec, OccurrencesKept

----------------------------------------------------------------------------
(* Several instances.  As long as none outlives its claim, a claimed row is *)
(* in one pair of hands, and a delivery of its present claim is not waiting *)
(* anywhere: finish_fired cannot release it under its holder.               *)

Apart ==
  /\ \A p \in Proc : \A r, s \in batch[p] : r.id = s.id => r = s
  /\ \A p, q \in Proc : p # q => \A r \in batch[p], s \in batch[q] : r.id # s.id
  /\ \A p \in Proc : toFlush[p] \subseteq pendingFinish[p]

HeldFirmly ==
  \A p \in Proc : \A r \in batch[p] :
    /\ status[r.id] \in {"firing", "done"}
    /\ claimedAt[r.id] = r.claimed
    /\ ~(r.claimed < now - StuckAfter)

NoneWaits ==
  \A p, q \in Proc : \A item \in pendingFinish[p] :
    ~item.late => \A r \in batch[q] : r.id # item.id

ApartInv == ~Alone /\ ~overrun => Apart /\ HeldFirmly /\ NoneWaits

LEMMA ApartStep == TypeOK /\ TypeOK' /\ ApartInv /\ [Next]_vars => ApartInv'
<1> SUFFICES ASSUME TypeOK, TypeOK', ApartInv, [Next]_vars, ~Alone, ~overrun'
             PROVE  Apart' /\ HeldFirmly' /\ NoneWaits'
  BY DEF ApartInv, Alone
<1>1. ~overrun
  <2>1. CASE Clock
    BY <2>1, Zenon DEF Clock
  <2>2. CASE User
    BY <2>2 DEF User, Command, CreateReminder, SnoozeReminder, CompleteReminder, CancelReminder
  <2>3. ASSUME NEW p \in Proc, NEW item \in toFlush[p], FlushItem(p, item)
        PROVE  ~overrun
    BY <2>3, Zenon DEF FlushItem
  <2>4. ASSUME NEW p \in Proc,
               \/ BeginTick(p) \/ RequeueStuck(p) \/ ClaimDue(p) \/ ClaimFails(p)
               \/ Crash(p) \/ Start(p)
        PROVE  ~overrun
    BY <2>4 DEF BeginTick, RequeueStuck, ClaimDue, ClaimFails, Crash, Start
  <2>5. ASSUME NEW p \in Proc, NEW r \in batch[p],
               \/ SendDelivers(p, r) \/ SendFails(p, r) \/ FinishSucceeds(p, r)
               \/ FinishGivesUp(p, r) \/ UndoClaim(p, r)
        PROVE  ~overrun
    BY <2>5 DEF SendDelivers, SendFails, FinishSucceeds, FinishGivesUp, UndoClaim, NextRow
  <2>6. CASE UNCHANGED vars
    BY <2>6 DEF vars
  <2> QED
    BY <2>1, <2>2, <2>3, <2>4, <2>5, <2>6 DEF Next, Tick
<1>2. Apart /\ HeldFirmly /\ NoneWaits
  BY <1>1 DEF ApartInv
<1>3. /\ now \in Int /\ StuckAfter \in Int
      /\ pendingFinish \in [Proc -> SUBSET Finish] /\ toFlush \in [Proc -> SUBSET Finish]
      /\ batch \in [Proc -> SUBSET Row]
      /\ status \in [Id -> Status] /\ claimedAt \in [Id -> Int]
      /\ \A p \in Proc : \A r \in batch[p] : r \in Row /\ r.id \in Id /\ r.claimed \in Int
  BY ParameterAssumption DEF TypeOK, Row
\* Nobody takes a row, and what is held of the others stays as it was.
<1>4. ASSUME \A p \in Proc : batch'[p] \subseteq batch[p] /\ toFlush'[p] \subseteq pendingFinish'[p],
             \A p \in Proc : \A r \in batch'[p] :
               status'[r.id] \in {"firing", "done"} /\ claimedAt'[r.id] = claimedAt[r.id],
             now' = now,
             \A p \in Proc : \A x \in pendingFinish'[p] :
               x \in pendingFinish[p] \/ \A q \in Proc : \A r \in batch'[q] : r.id # x.id
      PROVE  Apart' /\ HeldFirmly' /\ NoneWaits'
  <2>1. Apart'
    BY <1>2, <1>4 DEF Apart
  <2>2. HeldFirmly'
    BY <1>2, <1>4 DEF HeldFirmly
  <2>3. NoneWaits'
    BY <1>2, <1>4 DEF NoneWaits
  <2> QED
    BY <2>1, <2>2, <2>3
<1>5. CASE Clock
  <2>1. now' = now + 1 /\ UNCHANGED <<batch, pendingFinish, toFlush, status, claimedAt>>
    BY <1>5 DEF Clock, table, process
  <2>2. ~Overrun(now + 1)
    BY <1>5, Zenon DEF Clock
  <2>3. \A p \in Proc : \A r \in batch[p] : ~(r.claimed < now' - StuckAfter)
    BY <2>1, <2>2 DEF Overrun
  <2>4. HeldFirmly'
    BY <1>2, <2>1, <2>3 DEF HeldFirmly
  <2> QED
    BY <1>2, <2>1, <2>4 DEF Apart, NoneWaits
<1>6. CASE User
  <2>1. PICK i \in Id :
        \/ \E d \in 0..MaxTime, rep \in BOOLEAN : CreateReminder(i, d, rep)
        \/ \E until \in 0..MaxTime : SnoozeReminder(i, until)
        \/ CompleteReminder(i)
        \/ CancelReminder(i)
    BY <1>6 DEF User
  <2>2. UNCHANGED <<process, now, claimedAt>>
    BY <1>6 DEF User, CreateReminder, CreateRow, SnoozeReminder, SnoozeRow,
            CompleteReminder, CompleteRow, CancelReminder, CancelRow, Command
  <2>3. \A j \in Id : status[j] \in {"firing", "done"} => status'[j] \in {"firing", "done"}
    <3>1. CASE \E d \in 0..MaxTime, rep \in BOOLEAN : CreateReminder(i, d, rep)
      BY <1>3, <3>1 DEF CreateReminder, CreateRow
    <3>2. CASE \E until \in 0..MaxTime : SnoozeReminder(i, until)
      BY <1>3, <3>2 DEF SnoozeReminder, SnoozeRow
    <3>3. CASE CompleteReminder(i)
      BY <1>3, <3>3 DEF CompleteReminder, CompleteRow
    <3>4. CASE CancelReminder(i)
      BY <1>3, <3>4 DEF CancelReminder, CancelRow
    <3> QED BY <2>1, <3>1, <3>2, <3>3, <3>4
  <2> QED
    BY <1>2, <1>3, <1>4, <2>2, <2>3 DEF Apart, HeldFirmly, process
<1>7. ASSUME NEW p \in Proc, BeginTick(p) \/ Crash(p) \/ Start(p)
      PROVE  Apart' /\ HeldFirmly' /\ NoneWaits'
  <2>1. UNCHANGED <<now, status, claimedAt>>
    BY <1>7 DEF BeginTick, Crash, Start, table
  <2>2. \A q \in Proc : /\ batch'[q] \subseteq batch[q]
                        /\ pendingFinish'[q] \subseteq pendingFinish[q]
                        /\ toFlush'[q] \subseteq pendingFinish'[q]
    BY <1>2, <1>3, <1>7 DEF BeginTick, Crash, Start, Apart
  <2> QED
    BY <1>2, <1>3, <1>4, <2>1, <2>2 DEF HeldFirmly
<1>8. ASSUME NEW p \in Proc, NEW item \in toFlush[p], FlushItem(p, item)
      PROVE  Apart' /\ HeldFirmly' /\ NoneWaits'
  <2>1. ~item.late /\ item \in pendingFinish[p] /\ item \in Finish
    BY <1>2, <1>3, <1>8 DEF FlushItem, Apart
  <2>2. \A q \in Proc : \A r \in batch[q] : r.id # item.id
    BY <1>2, <2>1 DEF NoneWaits
  <2>3. /\ \A j \in Id : j # item.id => status'[j] = status[j]
        /\ claimedAt' = claimedAt /\ now' = now /\ batch' = batch
    BY <1>3, <1>8 DEF FlushItem, FinishFired, table
  <2>4. \A q \in Proc : /\ pendingFinish'[q] \subseteq pendingFinish[q]
                        /\ toFlush'[q] \subseteq pendingFinish'[q]
    BY <1>2, <1>3, <1>8 DEF FlushItem, Apart
  <2>5. \A q \in Proc : \A r \in batch'[q] : status'[r.id] \in {"firing", "done"}
    BY <1>2, <1>3, <2>2, <2>3 DEF HeldFirmly
  <2> QED
    BY <1>4, <2>3, <2>4, <2>5
<1>9. ASSUME NEW p \in Proc, RequeueStuck(p)
      PROVE  Apart' /\ HeldFirmly' /\ NoneWaits'
  <2>1. UNCHANGED <<now, batch, claimedAt, pendingFinish, toFlush>>
    BY <1>9 DEF RequeueStuck
  <2>2. \A q \in Proc : \A r \in batch[q] : ~Stuck(r.id)
    BY <1>2, <1>3 DEF HeldFirmly, Stuck
  <2>3. \A q \in Proc : \A r \in batch[q] : status'[r.id] = status[r.id]
    BY <1>3, <1>9, <2>2 DEF RequeueStuck
  <2>4. \A q \in Proc : \A r \in batch[q] : status'[r.id] \in {"firing", "done"}
    BY <1>2, <2>3 DEF HeldFirmly
  <2> QED
    BY <1>2, <1>4, <2>1, <2>4 DEF Apart
<1>10. ASSUME NEW p \in Proc, NEW S \in FirstDue(tickNow[p]), MarkClaimed(S), now' = now,
              \/ batch' = batch
              \/ batch' = [batch EXCEPT ![p] = {Snapshot(i) : i \in S}]
       PROVE  Apart' /\ HeldFirmly' /\ NoneWaits'
  <2>1. S \subseteq Id /\ \A i \in S : status[i] = "pending"
    BY DEF FirstDue, DueRows
  <2>2. /\ \A i \in S : status'[i] = "firing" /\ claimedAt'[i] = now
        /\ \A i \in Id \ S : status'[i] = status[i] /\ claimedAt'[i] = claimedAt[i]
    BY <1>10, <2>1 DEF MarkClaimed
  \* A row in hand was in hand before, or is one of the claimed.
  <2>3. \A q \in Proc : \A r \in batch'[q] :
          \/ r \in batch[q] /\ r.id \in Id \ S
          \/ q = p /\ r.id \in S /\ r.claimed = now /\ r = Snapshot(r.id)
    <3>1. \A q \in Proc : \A r \in batch[q] : r.id \in Id \ S
      BY <1>2, <1>3, <2>1 DEF HeldFirmly
    <3>2. \A i \in S : Snapshot(i).id = i /\ Snapshot(i).claimed = now
      BY DEF Snapshot
    <3> QED
      BY <1>3, <1>10, <3>1, <3>2
  <2>4. HeldFirmly'
    <3> SUFFICES ASSUME NEW q \in Proc, NEW r \in batch'[q]
                 PROVE  /\ status'[r.id] \in {"firing", "done"}
                        /\ claimedAt'[r.id] = r.claimed
                        /\ ~(r.claimed < now - StuckAfter)
      BY <1>10 DEF HeldFirmly
    <3>1. CASE r \in batch[q] /\ r.id \in Id \ S
      BY <1>2, <2>2, <3>1 DEF HeldFirmly
    <3>2. CASE r.id \in S /\ r.claimed = now
      BY <1>3, <2>2, <3>2, ParameterAssumption
    <3> QED
      BY <2>3, <3>1, <3>2
  <2>5. Apart'
    <3>1. \A q \in Proc : toFlush'[q] \subseteq pendingFinish'[q]
      BY <1>2, <1>10, <2>1, MarkKeepsTypes DEF Apart
    <3>2. \A q \in Proc : \A r, s \in batch'[q] : r.id = s.id => r = s
      BY <1>2, <2>3 DEF Apart
    <3>3. ASSUME NEW q \in Proc, NEW o \in Proc, q # o, NEW r \in batch'[q], NEW s \in batch'[o]
          PROVE  r.id # s.id
      BY <1>2, <2>3, <3>3 DEF Apart
    <3> QED
      BY <3>1, <3>2, <3>3 DEF Apart
  <2>6. ASSUME NEW q \in Proc, NEW x \in pendingFinish'[q], ~x.late, NEW o \in Proc, NEW r \in batch'[o]
        PROVE  r.id # x.id
    <3>1. pendingFinish' = LateFor(S, pendingFinish)
      BY <1>10 DEF MarkClaimed
    <3>2. PICK item \in pendingFinish[q] : x.id = item.id /\ x.late = (item.late \/ item.id \in S)
      BY <1>3, <2>6, <3>1, LateForIs
    <3>3. ~item.late /\ item.id \notin S
      BY <1>3, <2>6, <3>2 DEF Finish
    <3> QED
      BY <1>2, <2>3, <3>2, <3>3 DEF NoneWaits
  <2> QED
    BY <2>4, <2>5, <2>6 DEF NoneWaits
<1>11. ASSUME NEW p \in Proc, ClaimDue(p) \/ ClaimFails(p)
       PROVE  Apart' /\ HeldFirmly' /\ NoneWaits'
  <2>1. now' = now
    BY <1>11 DEF ClaimDue, ClaimFails
  <2>2. CASE ClaimDue(p)
    BY <1>10, <2>1, <2>2 DEF ClaimDue
  <2>3. CASE ClaimFails(p) /\ UNCHANGED <<table, pendingFinish, toFlush>>
    BY <1>2, <1>4, <2>1, <2>3 DEF ClaimFails, table, Apart, HeldFirmly
  <2>4. CASE ClaimFails(p) /\ \E S \in FirstDue(tickNow[p]) : MarkClaimed(S)
    BY <1>10, <2>1, <2>4 DEF ClaimFails
  <2> QED
    BY <1>11, <2>2, <2>3, <2>4 DEF ClaimFails
<1>12. ASSUME NEW p \in Proc, NEW r \in batch[p], SendDelivers(p, r) \/ SendFails(p, r)
       PROVE  Apart' /\ HeldFirmly' /\ NoneWaits'
  <2>1. UNCHANGED <<now, batch, status, claimedAt, pendingFinish, toFlush>>
    BY <1>12 DEF SendDelivers, SendFails, table
  <2> QED
    BY <1>2, <1>4, <2>1 DEF Apart, HeldFirmly
<1>13. ASSUME NEW p \in Proc, NEW r \in batch[p],
              FinishSucceeds(p, r) \/ FinishGivesUp(p, r) \/ UndoClaim(p, r)
       PROVE  Apart' /\ HeldFirmly' /\ NoneWaits'
  <2>1. /\ batch' = [batch EXCEPT ![p] = @ \ {r}]
        /\ now' = now /\ toFlush' = toFlush
    BY <1>13 DEF FinishSucceeds, FinishGivesUp, UndoClaim, NextRow
  <2>2. \A q \in Proc : \A s \in batch'[q] : s \in batch[q] /\ s.id # r.id
    BY <1>2, <1>3, <2>1 DEF Apart
  <2>3. /\ \A j \in Id : j # r.id => status'[j] = status[j]
        /\ claimedAt' = claimedAt
    BY <1>3, <1>13 DEF FinishSucceeds, FinishGivesUp, UndoClaim, FinishFired, FromFiring, table
  <2>4. \A q \in Proc : /\ pendingFinish[q] \subseteq pendingFinish'[q]
                        /\ \A x \in pendingFinish'[q] : x \in pendingFinish[q] \/ x.id = r.id
    BY <1>3, <1>13 DEF FinishSucceeds, FinishGivesUp, UndoClaim, FinishItem
  <2>5. \A q \in Proc : \A s \in batch'[q] : status'[s.id] \in {"firing", "done"}
    BY <1>2, <1>3, <2>2, <2>3 DEF HeldFirmly
  <2> QED
    BY <1>2, <1>4, <2>1, <2>2, <2>3, <2>4, <2>5 DEF Apart
<1>14. CASE UNCHANGED vars
  BY <1>2, <1>4, <1>14 DEF vars, table, process, Apart, HeldFirmly
<1> QED
  BY <1>5, <1>6, <1>7, <1>8, <1>9, <1>11, <1>12, <1>13, <1>14 DEF Next, Tick

(* However many instances overlap, no reminder is in two hands as long as   *)
(* none outlives requeue_stuck's five minutes at work on a claim, or keeps  *)
(* a delivery it could not record until the row is claimed again.           *)
THEOREM ExclusiveAlways == Spec => []ExclusiveUnlessOverrun
<1>1. Init => ApartInv
  BY DEF Init, ApartInv, Apart, HeldFirmly, NoneWaits
<1>2. TypeOK /\ TypeOK' /\ ApartInv /\ [Next]_vars => ApartInv'
  BY ApartStep
<1>3. ApartInv => ExclusiveUnlessOverrun
  BY DEF ApartInv, Apart, ExclusiveUnlessOverrun, Alone
<1> QED
  BY <1>1, <1>2, <1>3, TypeCorrect, PTL DEF Spec
=============================================================================
