------------------------- MODULE ConversationsProofs -------------------------
(* The state of a conversation, for any number of messages, webhook threads *)
(* and readers: whatever is repeated, reordered or merged, the two rows of  *)
(* the person hold the latest message each way, and the last                *)
(* acknowledgement.  And the names they are shown with: whoever writes,     *)
(* the address book names the person of its number and the user is obeyed.  *)
EXTENDS Conversations, FiniteSetTheorems, FunctionTheorems, TLAPS

MsgRec == [id : Nat \ {0}, jid : Jids, me : BOOLEAN, ts : Nat \ {0}, kind : InKinds \cup OutKinds]
RowRec == [inAt : Nat, inId : Nat, outAt : Nat, ackAt : Nat, judgeId : Nat,
           needs : BOOLEAN, there : BOOLEAN]
ProcRec == [pc : {"idle", "put", "join", "record", "timeline", "fold", "query", "ask"},
            msg : Nat, val : Jids]

Shape ==
  /\ now \in Nat \ {0}
  /\ row \in [Jids -> RowRec]
  /\ alias \in {Phone, None} /\ cache \in Jids \cup {None}
  /\ proc \in [Webhooks \cup Readers -> ProcRec]

\* Messages are numbered as they are written, each number once.
Numbered ==
  /\ IsFiniteSet(sent) /\ sent \subseteq MsgRec
  /\ \A m \in sent : m.id <= Cardinality(sent)
  /\ \A m, n \in sent : m.id = n.id => m = n
  /\ recorded \subseteq {m.id : m \in sent}

\* A webhook thread at work has a message.
InHand == \A w \in Webhooks : proc[w].pc # "idle" => proc[w].msg \in {m.id : m \in sent}

\* What a row names was recorded.
Sound ==
  /\ \A j \in Jids : row[j].inAt # 0 =>
       \E m \in sent : m.id = row[j].inId /\ m.id \in recorded /\ ~m.me /\ m.ts = row[j].inAt
  /\ \A j \in Jids : row[j].outAt # 0 =>
       \E m \in sent : m.id \in recorded /\ m.me /\ m.ts = row[j].outAt

\* What was recorded is no later than one of the rows.
Covers ==
  \A m \in sent : m.id \in recorded =>
    IF m.me THEN \E j \in Jids : m.ts <= row[j].outAt ELSE \E j \in Jids : m.ts <= row[j].inAt

AckExact ==
  /\ ackedAt \in Nat /\ ackedAt <= now
  /\ \A j \in Jids : row[j].ackAt <= ackedAt
  /\ \E j \in Jids : row[j].ackAt = ackedAt

ConvInv == Shape /\ Numbered /\ InHand /\ Sound /\ Covers /\ AckExact

----------------------------------------------------------------------------
\* The maximum, once it is known.
LEMMA MaxOfIs ==
    ASSUME NEW S \in SUBSET Int, NEW x \in S, \A y \in S : x >= y
    PROVE  MaxOf(S) = x
<1>1. S # {}
  OBVIOUS
<1>2. \E z \in S : \A y \in S : z >= y
  OBVIOUS
<1>3. Max(S) \in S /\ \A y \in S : Max(S) >= y
  BY <1>2 DEF Max
<1>4. Max(S) >= x /\ x >= Max(S) /\ Max(S) \in Int /\ x \in Int
  BY <1>3
<1>5. Max(S) = x
  BY <1>4
<1> QED
  BY <1>1, <1>5 DEF MaxOf

LEMMA LaterIs ==
    ASSUME NEW a \in Nat, NEW b \in Nat
    PROVE  Later(a, b) \in Nat /\ Later(a, b) >= a /\ Later(a, b) >= b /\ Later(a, b) \in {a, b}
  BY DEF Later

\* Two numbers, each 0 or in a set of positive ones they bound together, have its maximum.
LEMMA SameMax ==
    ASSUME NEW T \in SUBSET (Nat \ {0}), NEW a \in Nat, NEW b \in Nat,
           a = 0 \/ a \in T, b = 0 \/ b \in T, \A t \in T : t <= a \/ t <= b
    PROVE  MaxOf({a, b}) = MaxOf(T)
<1> DEFINE x == Later(a, b)
<1>1. x \in Nat /\ x >= a /\ x >= b /\ x \in {a, b}
  BY LaterIs
<1> HIDE DEF x
<1>2. MaxOf({a, b}) = x
  BY <1>1, MaxOfIs
<1>3. CASE T = {}
  <2>1. x = 0
    BY <1>1, <1>3
  <2> QED
    BY <1>2, <1>3, <2>1 DEF MaxOf
<1>4. CASE T # {}
  <2>1. \A t \in T : x >= t
    BY <1>1
  <2>2. x # 0
    <3>1. PICK t \in T : TRUE
      BY <1>4
    <3>2. t \in Nat /\ t > 0 /\ x >= t
      BY <2>1
    <3> QED
      BY <1>1, <3>2
  <2>3. x \in T
    BY <1>1, <2>2
  <2>4. MaxOf(T) = x
    BY <2>1, <2>3, MaxOfIs
  <2> QED
    BY <1>2, <2>4
<1> QED
  BY <1>3, <1>4

----------------------------------------------------------------------------
(* The invariant gives the property.                                       *)

LEMMA JoinedIs ==
    ASSUME Shape, NEW f \in {"inAt", "outAt", "ackAt"}
    PROVE  /\ Joined(f) = MaxOf({row[Lid][f], row[Phone][f]})
           /\ row[Lid][f] \in Nat /\ row[Phone][f] \in Nat
<1>1. {row[j][f] : j \in Jids} = {row[Lid][f], row[Phone][f]}
  BY DEF Jids
<1> QED
  BY <1>1 DEF Joined, Shape, RowRec, Jids

LEMMA InvExact == ConvInv => StateExact
<1> SUFFICES ASSUME ConvInv
             PROVE  StateExact
  OBVIOUS
<1> USE DEF ConvInv
<1>1. /\ Times(FALSE) \in SUBSET (Nat \ {0}) /\ Times(TRUE) \in SUBSET (Nat \ {0})
  BY DEF Times, Numbered, MsgRec
<1>2. Joined("inAt") = LastIn
  <2>1. \A j \in Jids : row[j].inAt = 0 \/ row[j].inAt \in Times(FALSE)
    BY DEF Sound, Times, Numbered, MsgRec
  <2>2. \A t \in Times(FALSE) : t <= row[Lid].inAt \/ t <= row[Phone].inAt
    BY DEF Covers, Times, Jids, Numbered, MsgRec
  <2> QED
    BY <1>1, <2>1, <2>2, JoinedIs, SameMax DEF LastIn, Jids
<1>3. Joined("outAt") = LastOut
  <2>1. \A j \in Jids : row[j].outAt = 0 \/ row[j].outAt \in Times(TRUE)
    BY DEF Sound, Times, Numbered, MsgRec
  <2>2. \A t \in Times(TRUE) : t <= row[Lid].outAt \/ t <= row[Phone].outAt
    BY DEF Covers, Times, Jids, Numbered, MsgRec
  <2> QED
    BY <1>1, <2>1, <2>2, JoinedIs, SameMax DEF LastOut, Jids
<1>4. Joined("ackAt") = ackedAt
  <2> DEFINE S == {row[Lid].ackAt, row[Phone].ackAt}
  <2>1. S \in SUBSET Int /\ ackedAt \in S /\ \A y \in S : ackedAt >= y
    BY JoinedIs DEF AckExact, Jids
  <2>2. Joined("ackAt") = MaxOf(S)
    BY JoinedIs
  <2> HIDE DEF S
  <2> QED
    BY <2>1, <2>2, MaxOfIs
<1> QED
  BY <1>2, <1>3, <1>4 DEF StateExact, Sound

----------------------------------------------------------------------------
(* Steps that leave the rows alone.                                        *)

\* What the invariant says of a table, the messages recorded and the last acknowledgement.
TableSound(r, done, ack) ==
  /\ r \in [Jids -> RowRec]
  /\ \A j \in Jids : r[j].inAt # 0 =>
       \E m \in sent : m.id = r[j].inId /\ m.id \in done /\ ~m.me /\ m.ts = r[j].inAt
  /\ \A j \in Jids : r[j].outAt # 0 =>
       \E m \in sent : m.id \in done /\ m.me /\ m.ts = r[j].outAt
  /\ \A m \in sent : m.id \in done =>
       IF m.me THEN \E j \in Jids : m.ts <= r[j].outAt ELSE \E j \in Jids : m.ts <= r[j].inAt
  /\ \A j \in Jids : r[j].ackAt <= ack
  /\ \E j \in Jids : r[j].ackAt = ack

\* What a step leaves of the threads.
ThreadsKept ==
  /\ alias' \in {Phone, None} /\ cache' \in Jids \cup {None}
  /\ proc' \in [Webhooks \cup Readers -> ProcRec]
  /\ InHand'

LEMMA TableStep ==
    ASSUME ConvInv, TableSound(row', recorded', ackedAt'), ThreadsKept, UNCHANGED <<now, sent>>,
           recorded' \subseteq {m.id : m \in sent}, ackedAt' \in Nat, ackedAt' <= now
    PROVE  ConvInv'
  BY DEF ConvInv, Shape, Numbered, Sound, Covers, AckExact, TableSound, ThreadsKept

LEMMA TableNow == ConvInv => TableSound(row, recorded, ackedAt)
  BY DEF ConvInv, Shape, Sound, Covers, AckExact, TableSound

LEMMA RowsStay ==
    ASSUME ConvInv, ThreadsKept, UNCHANGED <<now, sent, row, recorded, ackedAt>>
    PROVE  ConvInv'
  BY TableNow, TableStep DEF ConvInv, Numbered, AckExact

\* A thread may forget its message, or take one that was sent.
LEMMA ThreadMoves ==
    ASSUME ConvInv, NEW p \in Webhooks \cup Readers, NEW rec \in ProcRec,
           proc' = [proc EXCEPT ![p] = rec],
           p \in Webhooks /\ rec.pc # "idle" => rec.msg \in {m.id : m \in sent},
           alias' \in {Phone, None}, cache' \in Jids \cup {None}, UNCHANGED sent
    PROVE  ThreadsKept
  BY DEF ConvInv, Shape, InHand, ThreadsKept

----------------------------------------------------------------------------
(* Steps that change a table.                                              *)

\* A row with one column rewritten.
LEMMA Acked ==
    ASSUME NEW x \in RowRec, NEW at \in Nat
    PROVE  /\ [x EXCEPT !.ackAt = at, !.there = TRUE] \in RowRec
           /\ [x EXCEPT !.ackAt = at, !.there = TRUE].ackAt = at
           /\ \A f \in {"inAt", "inId", "outAt"} : [x EXCEPT !.ackAt = at, !.there = TRUE][f] = x[f]
  BY DEF RowRec

LEMMA Written ==
    ASSUME NEW x \in RowRec, NEW at \in Nat
    PROVE  /\ [x EXCEPT !.outAt = at, !.there = TRUE] \in RowRec
           /\ [x EXCEPT !.outAt = at, !.there = TRUE].outAt = at
           /\ \A f \in {"inAt", "inId", "ackAt"} : [x EXCEPT !.outAt = at, !.there = TRUE][f] = x[f]
  BY DEF RowRec

LEMMA MergeSound == ConvInv => TableSound(Merge, recorded, ackedAt)
<1> SUFFICES ASSUME ConvInv
             PROVE  TableSound(Merge, recorded, ackedAt)
  OBVIOUS
<1> DEFINE s == row[Lid]
           d == row[Phone]
           r == Merge
<1>1. TableSound(row, recorded, ackedAt)
  BY TableNow
<1>2. CASE ~row[Lid].there
  BY <1>1, <1>2 DEF Merge
<1>3. CASE row[Lid].there
  <2>1. s \in RowRec /\ d \in RowRec /\ Lid \in Jids /\ Phone \in Jids /\ Lid # Phone
    BY IdsDiffer DEF ConvInv, Shape, Jids
  <2>2. /\ r[Lid] = NoRow
        /\ r[Phone] = [d EXCEPT !.inAt = Later(d.inAt, s.inAt),
                                !.inId = IF s.inAt > d.inAt THEN s.inId ELSE d.inId,
                                !.outAt = Later(d.outAt, s.outAt),
                                !.ackAt = Later(d.ackAt, s.ackAt), !.there = TRUE]
    BY <1>3, <2>1 DEF Merge
  <2>3. /\ r[Lid].inAt = 0 /\ r[Lid].outAt = 0 /\ r[Lid].ackAt = 0 /\ r[Lid] \in RowRec
    BY <2>2 DEF NoRow, RowRec
  <2>4. /\ r[Phone].inAt = Later(d.inAt, s.inAt) /\ r[Phone].outAt = Later(d.outAt, s.outAt)
        /\ r[Phone].ackAt = Later(d.ackAt, s.ackAt)
        /\ r[Phone].inId = IF s.inAt > d.inAt THEN s.inId ELSE d.inId
        /\ r[Phone] \in RowRec
    <3> DEFINE i == Later(d.inAt, s.inAt)
               o == Later(d.outAt, s.outAt)
               a == Later(d.ackAt, s.ackAt)
               n == IF s.inAt > d.inAt THEN s.inId ELSE d.inId
               rec == [d EXCEPT !.inAt = i, !.inId = n, !.outAt = o, !.ackAt = a, !.there = TRUE]
    <3>1. i \in Nat /\ o \in Nat /\ a \in Nat /\ n \in Nat
      BY <2>1 DEF Later, RowRec
    <3>2. r[Phone] = rec
      BY <2>2
    <3> HIDE DEF i, o, a, n
    <3>3. rec \in RowRec /\ rec.inAt = i /\ rec.outAt = o /\ rec.ackAt = a /\ rec.inId = n
      BY <2>1, <3>1 DEF RowRec
    <3> HIDE DEF rec, r
    <3>4. /\ r[Phone].inAt = i /\ r[Phone].outAt = o /\ r[Phone].ackAt = a /\ r[Phone].inId = n
          /\ r[Phone] \in RowRec
      BY <3>2, <3>3
    <3> QED
      BY <3>4 DEF i, o, a, n
  <2>5. /\ s.inAt \in Nat /\ d.inAt \in Nat /\ s.outAt \in Nat /\ d.outAt \in Nat
        /\ s.ackAt \in Nat /\ d.ackAt \in Nat
    BY <2>1 DEF RowRec
  <2> DEFINE q == r[Phone]
  <2>6. /\ q.inAt >= s.inAt /\ q.inAt >= d.inAt /\ q.outAt >= s.outAt /\ q.outAt >= d.outAt
        /\ \/ q.inAt = s.inAt /\ q.inId = s.inId
           \/ q.inAt = d.inAt /\ q.inId = d.inId
        /\ q.outAt \in {s.outAt, d.outAt}
        /\ q.ackAt >= s.ackAt /\ q.ackAt >= d.ackAt /\ q.ackAt \in {s.ackAt, d.ackAt}
        /\ q.inAt \in Nat /\ q.outAt \in Nat /\ q.ackAt \in Nat
    BY <2>4, <2>5 DEF Later
  <2>7. r \in [Jids -> RowRec]
    <3>1. r = [j \in Jids |-> r[j]]
      BY <1>3 DEF Merge
    <3>2. \A j \in Jids : r[j] \in RowRec
      BY <2>3, <2>4 DEF Jids
    <3> HIDE DEF r
    <3> QED
      BY <3>1, <3>2
  <2> HIDE DEF r
  <2>8. \A j \in Jids : r[j].inAt # 0 =>
          \E m \in sent : m.id = r[j].inId /\ m.id \in recorded /\ ~m.me /\ m.ts = r[j].inAt
    BY <1>1, <2>1, <2>3, <2>6 DEF TableSound, Jids
  <2>9. \A j \in Jids : r[j].outAt # 0 =>
          \E m \in sent : m.id \in recorded /\ m.me /\ m.ts = r[j].outAt
    BY <1>1, <2>1, <2>3, <2>6 DEF TableSound, Jids
  <2>10. \A m \in sent : m.id \in recorded =>
           IF m.me THEN m.ts <= q.outAt ELSE m.ts <= q.inAt
    <3> SUFFICES ASSUME NEW m \in sent, m.id \in recorded
                 PROVE  IF m.me THEN m.ts <= q.outAt ELSE m.ts <= q.inAt
      OBVIOUS
    <3>1. m.ts \in Nat
      BY DEF ConvInv, Numbered, MsgRec
    <3>2. IF m.me THEN m.ts <= s.outAt \/ m.ts <= d.outAt ELSE m.ts <= s.inAt \/ m.ts <= d.inAt
      BY <1>1 DEF TableSound, Jids
    <3> QED
      BY <2>5, <2>6, <3>1, <3>2
  <2>11. /\ \A j \in Jids : r[j].ackAt <= ackedAt
         /\ \E j \in Jids : r[j].ackAt = ackedAt
    <3>1. /\ s.ackAt <= ackedAt /\ d.ackAt <= ackedAt /\ (s.ackAt = ackedAt \/ d.ackAt = ackedAt)
          /\ ackedAt \in Nat
      BY <1>1, <2>1 DEF TableSound, Jids, ConvInv, AckExact
    <3>2. q.ackAt = ackedAt
      BY <2>5, <2>6, <3>1
    <3> QED
      BY <2>1, <2>3, <3>1, <3>2 DEF Jids
  <2>12. \A m \in sent : m.id \in recorded =>
           IF m.me THEN \E j \in Jids : m.ts <= r[j].outAt ELSE \E j \in Jids : m.ts <= r[j].inAt
    BY <2>1, <2>10
  <2>13. TableSound(r, recorded, ackedAt)
    BY <2>7, <2>8, <2>9, <2>11, <2>12 DEF TableSound
  <2> QED
    BY <2>13 DEF r
<1> QED
  BY <1>2, <1>3

\* A verdict changes no column of the invariant.
LEMMA VerdictSound ==
    ASSUME ConvInv, NEW j \in Jids, NEW id \in Nat, NEW needs \in BOOLEAN
    PROVE  TableSound(SetVerdict(j, id, needs), recorded, ackedAt)
<1> DEFINE r == SetVerdict(j, id, needs)
<1>1. TableSound(row, recorded, ackedAt)
  BY TableNow
<1>2. r \in [Jids -> RowRec]
  BY DEF SetVerdict, ConvInv, Shape, RowRec
<1>3. \A k \in Jids : /\ r[k].inAt = row[k].inAt /\ r[k].inId = row[k].inId
                      /\ r[k].outAt = row[k].outAt /\ r[k].ackAt = row[k].ackAt
  BY DEF SetVerdict, ConvInv, Shape, RowRec
<1> HIDE DEF r
<1>4. TableSound(r, recorded, ackedAt)
  BY <1>1, <1>2, <1>3 DEF TableSound
<1> QED
  BY <1>4 DEF r

----------------------------------------------------------------------------
(* The steps.                                                              *)

\* What every thread may hold.
LEMMA InvTypes ==
    ASSUME ConvInv
    PROVE  /\ now \in Nat \ {0} /\ row \in [Jids -> RowRec]
           /\ alias \in {Phone, None} /\ cache \in Jids \cup {None}
           /\ proc \in [Webhooks \cup Readers -> ProcRec]
           /\ Idle \in ProcRec /\ Idle.pc = "idle"
           /\ Lid \in Jids /\ Phone \in Jids /\ None \notin Jids
           /\ \A m \in sent : m \in MsgRec
  BY IdsDiffer DEF ConvInv, Shape, Numbered, Idle, ProcRec, Jids

\* Threads that only change the place they are at.
LEMMA GotoKept ==
    ASSUME ConvInv, NEW p \in Webhooks \cup Readers, NEW rec \in ProcRec,
           proc' = [proc EXCEPT ![p] = rec],
           rec.pc # "idle" => proc[p].pc # "idle" /\ rec.msg = proc[p].msg,
           alias' \in {Phone, None}, cache' \in Jids \cup {None}, UNCHANGED sent
    PROVE  ThreadsKept
<1>1. p \in Webhooks /\ rec.pc # "idle" => rec.msg \in {m.id : m \in sent}
  BY DEF ConvInv, InHand
<1> QED
  BY <1>1, ThreadMoves

LEMMA Looked ==
    ASSUME ConvInv, NEW p \in Webhooks \cup Readers, NEW msg \in Nat,
           p \in Webhooks => msg \in {m.id : m \in sent},
           NEW next \in {"record", "fold"}, LookUp(p, [Idle EXCEPT !.msg = msg], next),
           UNCHANGED <<now, sent, row, alias, cache, recorded, ackedAt>>
    PROVE  ConvInv'
<1> DEFINE rec(val, pc) == [[Idle EXCEPT !.msg = msg] EXCEPT !.val = val, !.pc = pc]
<1>1. \A val \in Jids, pc \in {"record", "fold", "put"} :
        rec(val, pc) \in ProcRec /\ rec(val, pc).msg = msg
  BY DEF Idle, ProcRec
<1>2. \E val \in Jids, pc \in {"record", "fold", "put"} :
        proc' = [proc EXCEPT ![p] = rec(val, pc)]
  BY InvTypes DEF LookUp, Canonical
<1> HIDE DEF rec
<1>3. PICK val \in Jids, pc \in {"record", "fold", "put"} :
        proc' = [proc EXCEPT ![p] = rec(val, pc)]
  BY <1>2
<1>4. ThreadsKept
  BY <1>1, <1>3, ThreadMoves, InvTypes
<1> QED
  BY <1>4, RowsStay

LEMMA WriteStep ==
    ASSUME ConvInv, NEW j \in Jids, NEW me \in BOOLEAN, NEW kind \in InKinds \cup OutKinds,
           Write(j, me, kind)
    PROVE  ConvInv'
<1> DEFINE m == [id |-> Cardinality(sent) + 1, jid |-> j, me |-> me, ts |-> now, kind |-> kind]
<1>1. /\ IsFiniteSet(sent) /\ Cardinality(sent) \in Nat
      /\ \A n \in sent : n \in MsgRec /\ n.id <= Cardinality(sent)
  BY FS_CardinalityType DEF ConvInv, Numbered
<1>2. m \in MsgRec /\ m.id = Cardinality(sent) + 1 /\ m \notin sent
  BY <1>1, InvTypes DEF MsgRec
<1>3. sent' = sent \cup {m} /\ UNCHANGED <<now, row, alias, cache, proc, recorded, ackedAt>>
  BY DEF Write, history
<1> HIDE DEF m
<1>4. IsFiniteSet(sent') /\ Cardinality(sent') = Cardinality(sent) + 1
  BY <1>1, <1>2, <1>3, FS_AddElement
<1>5. \A n \in sent : n.id # m.id
  BY <1>1, <1>2 DEF MsgRec
<1>6. Numbered'
  <2>1. \A n \in sent' : n \in MsgRec /\ n.id <= Cardinality(sent')
    BY <1>1, <1>2, <1>3, <1>4 DEF MsgRec
  <2>2. \A n, k \in sent' : n.id = k.id => n = k
    BY <1>3, <1>5 DEF ConvInv, Numbered
  <2>3. recorded' \subseteq {n.id : n \in sent'}
    BY <1>3 DEF ConvInv, Numbered
  <2> QED
    BY <1>4, <2>1, <2>2, <2>3 DEF Numbered
<1>7. m.id \notin recorded
  BY <1>5 DEF ConvInv, Numbered
<1>8. Shape' /\ InHand'
  BY <1>3 DEF ConvInv, Shape, InHand
<1>9. Sound'
  BY <1>3 DEF ConvInv, Sound
<1>10. Covers' /\ AckExact'
  BY <1>3, <1>7 DEF ConvInv, Covers, AckExact
<1> QED
  BY <1>6, <1>8, <1>9, <1>10 DEF ConvInv

LEMMA AcknowledgeStep ==
    ASSUME ConvInv, NEW j \in Jids, UserAcknowledges(j)
    PROVE  ConvInv'
<1>1. /\ row' = Acknowledge(j) /\ ackedAt' = now
      /\ UNCHANGED <<now, sent, alias, cache, proc, recorded>>
  BY DEF UserAcknowledges
<1>2. ThreadsKept
  BY <1>1 DEF ConvInv, Shape, InHand, ThreadsKept
<1>3. TableSound(row, recorded, ackedAt) /\ now \in Nat /\ ackedAt \in Nat /\ ackedAt <= now
  BY TableNow DEF ConvInv, Shape, AckExact
<1>4. /\ row[j].ackAt \in Nat /\ row[j].ackAt <= now
      /\ row \in [Jids -> RowRec]
  BY <1>3 DEF TableSound, RowRec
<1>5. /\ row' \in [Jids -> RowRec] /\ row'[j].ackAt = now
      /\ \A k \in Jids : /\ row'[k].inAt = row[k].inAt /\ row'[k].inId = row[k].inId
                         /\ row'[k].outAt = row[k].outAt
                         /\ k # j => row'[k].ackAt = row[k].ackAt
  <2> DEFINE at == Later(row[j].ackAt, now)
             rec == [row[j] EXCEPT !.ackAt = at, !.there = TRUE]
  <2>1. at = now
    BY <1>3, <1>4 DEF Later
  <2>2. row' = [row EXCEPT ![j] = rec]
    BY <1>1 DEF Acknowledge
  <2> HIDE DEF at
  <2>3. /\ rec \in RowRec /\ rec.ackAt = now
        /\ rec.inAt = row[j].inAt /\ rec.inId = row[j].inId /\ rec.outAt = row[j].outAt
    <3>1. row[j] \in RowRec /\ at \in Nat
      BY <1>3, <1>4, <2>1
    <3>2. rec \in RowRec /\ rec.ackAt = at
      BY <3>1, Acked
    <3>3. rec.inAt = row[j].inAt /\ rec.inId = row[j].inId /\ rec.outAt = row[j].outAt
      OBVIOUS
    <3> QED
      BY <2>1, <3>2, <3>3
  <2> HIDE DEF rec
  <2> QED
    BY <1>4, <2>2, <2>3
<1>6. \A k \in Jids : row'[k].ackAt <= now
  BY <1>3, <1>4, <1>5 DEF TableSound, RowRec
<1>7. TableSound(row', recorded, now)
  BY <1>3, <1>5, <1>6 DEF TableSound
<1> QED
  BY <1>1, <1>2, <1>3, <1>7, TableStep DEF ConvInv, Numbered

LEMMA RecordStep ==
    ASSUME ConvInv, NEW w \in Webhooks, Record(w)
    PROVE  ConvInv'
<1> DEFINE m == Msg(proc[w].msg)
           j == proc[w].val
<1>1. proc[w].pc = "record" /\ proc[w] \in ProcRec /\ j \in Jids
  BY InvTypes DEF Record, ProcRec
<1>2. m \in sent
  BY <1>1 DEF ConvInv, InHand, Msg
<1>3. m \in MsgRec /\ m.ts \in Nat /\ m.id \in Nat /\ m.me \in BOOLEAN
  BY <1>2, InvTypes DEF MsgRec
<1>4. /\ row' = IF m.me THEN RecordOutbound(j, m) ELSE RecordInbound(j, m)
      /\ recorded' = recorded \cup {m.id}
      /\ proc' = [proc EXCEPT ![w] = IF m.me THEN [@ EXCEPT !.pc = "timeline"] ELSE Idle]
      /\ UNCHANGED <<now, sent, alias, cache, ackedAt>>
  BY DEF Record
<1> HIDE DEF m, j
<1>5. ThreadsKept
  <2> DEFINE rec == IF m.me THEN [proc[w] EXCEPT !.pc = "timeline"] ELSE Idle
  <2>1. /\ rec \in ProcRec
        /\ rec.pc # "idle" => proc[w].pc # "idle" /\ rec.msg = proc[w].msg
    BY <1>1, InvTypes DEF ProcRec
  <2>2. proc' = [proc EXCEPT ![w] = rec]
    BY <1>4
  <2> HIDE DEF rec
  <2> QED
    BY <1>4, <2>1, <2>2, GotoKept, InvTypes
<1>6. TableSound(row, recorded, ackedAt)
  BY TableNow
<1>7. \A n \in sent : n.id = m.id => n = m
  BY <1>2 DEF ConvInv, Numbered
<1>8. row[j] \in RowRec /\ row \in [Jids -> RowRec]
  BY <1>1, InvTypes
<1>9. CASE m.me
  <2>1. /\ row' \in [Jids -> RowRec] /\ row'[j].outAt = Later(row[j].outAt, m.ts)
        /\ \A k \in Jids : /\ row'[k].inAt = row[k].inAt /\ row'[k].inId = row[k].inId
                           /\ row'[k].ackAt = row[k].ackAt
                           /\ k # j => row'[k].outAt = row[k].outAt
    <3> DEFINE at == Later(row[j].outAt, m.ts)
               rec == [row[j] EXCEPT !.outAt = at, !.there = TRUE]
    <3>1. at \in Nat
      BY <1>3, <1>8, LaterIs DEF RowRec
    <3>2. row' = [row EXCEPT ![j] = rec]
      BY <1>4, <1>9 DEF RecordOutbound
    <3> HIDE DEF at
    <3>3. /\ rec \in RowRec /\ rec.outAt = at
          /\ rec.inAt = row[j].inAt /\ rec.inId = row[j].inId /\ rec.ackAt = row[j].ackAt
      BY <1>8, <3>1, Written
    <3> HIDE DEF rec
    <3>4. row'[j].outAt = at
      BY <1>1, <1>8, <3>2, <3>3
    <3> QED
      BY <1>1, <1>8, <3>2, <3>3, <3>4 DEF at
  <2>2. /\ row'[j].outAt >= m.ts /\ row'[j].outAt >= row[j].outAt
        /\ row'[j].outAt \in {row[j].outAt, m.ts}
    <3>1. row[j].outAt \in Nat
      BY <1>8 DEF RowRec
    <3> QED
      BY <1>3, <2>1, <3>1, LaterIs
  <2>3. \A k \in Jids : row'[k].outAt # 0 =>
          \E n \in sent : n.id \in recorded' /\ n.me /\ n.ts = row'[k].outAt
    BY <1>2, <1>4, <1>6, <1>9, <2>1, <2>2 DEF TableSound
  <2>4. \A n \in sent : n.id \in recorded' =>
          IF n.me THEN \E k \in Jids : n.ts <= row'[k].outAt ELSE \E k \in Jids : n.ts <= row'[k].inAt
    <3> SUFFICES ASSUME NEW n \in sent, n.id \in recorded'
                 PROVE  IF n.me THEN \E k \in Jids : n.ts <= row'[k].outAt
                                ELSE \E k \in Jids : n.ts <= row'[k].inAt
      OBVIOUS
    <3>1. CASE n = m
      BY <1>1, <1>9, <2>2, <3>1
    <3>2. CASE n.id \in recorded /\ n.me
      <4>1. PICK k \in Jids : n.ts <= row[k].outAt
        BY <1>6, <3>2 DEF TableSound
      <4>2. n.ts \in Nat /\ row[k].outAt \in Nat /\ row'[k].outAt \in Nat
        BY <1>8, <2>1, InvTypes DEF MsgRec, RowRec
      <4>3. row'[k].outAt >= row[k].outAt
        BY <2>1, <2>2, <4>2
      <4> QED
        BY <3>2, <4>1, <4>2, <4>3
    <3>3. CASE n.id \in recorded /\ ~n.me
      BY <1>6, <2>1, <3>3 DEF TableSound
    <3> QED
      BY <1>4, <1>7, <3>1, <3>2, <3>3
  <2>5. TableSound(row', recorded', ackedAt)
    BY <1>4, <1>6, <2>1, <2>3, <2>4 DEF TableSound
  <2> QED
    BY <1>2, <1>4, <1>5, <2>5, TableStep DEF ConvInv, Numbered, AckExact
<1>10. CASE ~m.me
  <2>1. /\ row' \in [Jids -> RowRec]
        /\ IF m.ts > row[j].inAt THEN row'[j].inAt = m.ts /\ row'[j].inId = m.id
           ELSE row'[j].inAt = row[j].inAt /\ row'[j].inId = row[j].inId
        /\ \A k \in Jids : /\ row'[k].outAt = row[k].outAt /\ row'[k].ackAt = row[k].ackAt
                           /\ k # j => row'[k].inAt = row[k].inAt /\ row'[k].inId = row[k].inId
    BY <1>1, <1>3, <1>4, <1>8, <1>10 DEF RecordInbound, RowRec
  <2>2. row'[j].inAt >= m.ts /\ row'[j].inAt >= row[j].inAt
    BY <1>3, <1>8, <2>1 DEF RowRec
  <2>3. \A k \in Jids : row'[k].inAt # 0 =>
          \E n \in sent : n.id = row'[k].inId /\ n.id \in recorded' /\ ~n.me /\ n.ts = row'[k].inAt
    BY <1>2, <1>4, <1>6, <1>10, <2>1 DEF TableSound
  <2>4. \A n \in sent : n.id \in recorded' =>
          IF n.me THEN \E k \in Jids : n.ts <= row'[k].outAt ELSE \E k \in Jids : n.ts <= row'[k].inAt
    <3> SUFFICES ASSUME NEW n \in sent, n.id \in recorded'
                 PROVE  IF n.me THEN \E k \in Jids : n.ts <= row'[k].outAt
                                ELSE \E k \in Jids : n.ts <= row'[k].inAt
      OBVIOUS
    <3>1. CASE n = m
      BY <1>1, <1>10, <2>2, <3>1
    <3>2. CASE n.id \in recorded /\ ~n.me
      <4>1. PICK k \in Jids : n.ts <= row[k].inAt
        BY <1>6, <3>2 DEF TableSound
      <4>2. n.ts \in Nat /\ row[k].inAt \in Nat /\ row'[k].inAt \in Nat
        BY <1>8, <2>1, InvTypes DEF MsgRec, RowRec
      <4>3. row'[k].inAt >= row[k].inAt
        BY <2>1, <2>2, <4>2
      <4> QED
        BY <3>2, <4>1, <4>2, <4>3
    <3>3. CASE n.id \in recorded /\ n.me
      BY <1>6, <2>1, <3>3 DEF TableSound
    <3> QED
      BY <1>4, <1>7, <3>1, <3>2, <3>3
  <2>5. TableSound(row', recorded', ackedAt)
    BY <1>4, <1>6, <2>1, <2>3, <2>4 DEF TableSound
  <2> QED
    BY <1>2, <1>4, <1>5, <2>5, TableStep DEF ConvInv, Numbered, AckExact
<1> QED
  BY <1>9, <1>10

LEMMA FoldStep ==
    ASSUME ConvInv, NEW r \in Readers, Fold(r)
    PROVE  ConvInv'
<1>1. proc[r].pc = "fold" /\ proc' = [proc EXCEPT ![r] = [proc[r] EXCEPT !.pc = "query"]]
  BY DEF Fold, Goto
<1>2. (row' = Merge \/ row' = row) /\ UNCHANGED <<now, sent, alias, cache, recorded, ackedAt>>
  BY DEF Fold, history
<1>3. ThreadsKept
  <2> DEFINE rec == [proc[r] EXCEPT !.pc = "query"]
  <2>1. rec \in ProcRec /\ proc[r].pc # "idle" /\ rec.msg = proc[r].msg
    BY <1>1, InvTypes DEF ProcRec
  <2> HIDE DEF rec
  <2>2. proc' = [proc EXCEPT ![r] = rec]
    BY <1>1 DEF rec
  <2> QED
    BY <1>2, <2>1, <2>2, GotoKept, InvTypes
<1>4. TableSound(row', recorded, ackedAt)
  BY <1>2, MergeSound, TableNow
<1> QED
  BY <1>2, <1>3, <1>4, TableStep DEF ConvInv, Numbered, AckExact

LEMMA JoinStep ==
    ASSUME ConvInv, NEW w \in Webhooks, JoinRows(w)
    PROVE  ConvInv'
<1> DEFINE rec == [proc[w] EXCEPT !.pc = "record", !.val = Phone]
<1>1. /\ proc[w].pc = "join" /\ row' = Merge /\ cache' = Phone
      /\ UNCHANGED <<now, sent, alias, recorded, ackedAt>>
  BY DEF JoinRows, history
<1>2. proc' = [proc EXCEPT ![w] = rec]
  BY DEF JoinRows
<1>3. rec \in ProcRec /\ rec.msg = proc[w].msg
  BY InvTypes DEF ProcRec
<1> HIDE DEF rec
<1>4. ThreadsKept
  BY <1>1, <1>2, <1>3, GotoKept, InvTypes
<1>5. TableSound(row', recorded, ackedAt)
  BY <1>1, MergeSound
<1> QED
  BY <1>1, <1>4, <1>5, TableStep DEF ConvInv, Numbered, AckExact

LEMMA JudgeStep ==
    ASSUME ConvInv, NEW r \in Readers, NEW needs \in BOOLEAN, JudgeAnswers(r, needs)
    PROVE  ConvInv'
<1>1. /\ row' = SetVerdict(proc[r].val, proc[r].msg, needs)
      /\ proc' = [proc EXCEPT ![r] = Idle]
      /\ UNCHANGED <<now, sent, alias, cache, recorded, ackedAt>>
  BY DEF JudgeAnswers
<1>2. proc[r].val \in Jids /\ proc[r].msg \in Nat
  BY InvTypes DEF ProcRec
<1>3. ThreadsKept
  BY <1>1, GotoKept, InvTypes
<1>4. TableSound(row', recorded, ackedAt)
  BY <1>1, <1>2, VerdictSound
<1> QED
  BY <1>1, <1>3, <1>4, TableStep DEF ConvInv, Numbered, AckExact

\* Steps that change neither rows nor messages.
LEMMA PutStep ==
    ASSUME ConvInv, NEW p \in Webhooks \cup Readers, PutCache(p)
    PROVE  ConvInv'
<1> DEFINE rec == [proc[p] EXCEPT !.pc = IF p \in Webhooks THEN "record" ELSE "fold"]
<1>1. /\ proc[p].pc = "put" /\ cache' = proc[p].val
      /\ UNCHANGED <<now, sent, row, alias, recorded, ackedAt>>
  BY DEF PutCache, history
<1>2. proc' = [proc EXCEPT ![p] = rec]
  BY DEF PutCache, Goto
<1>3. rec \in ProcRec /\ rec.msg = proc[p].msg /\ proc[p].val \in Jids
  BY InvTypes DEF ProcRec
<1> HIDE DEF rec
<1>4. ThreadsKept
  BY <1>1, <1>2, <1>3, GotoKept, InvTypes
<1> QED
  BY <1>1, <1>4, RowsStay

LEMMA FailsStep ==
    ASSUME ConvInv, NEW w \in Webhooks, AliasFails(w)
    PROVE  ConvInv'
<1> DEFINE rec == [proc[w] EXCEPT !.val = Canonical(Lid), !.pc = IF cache = None THEN "put" ELSE "record"]
<1>1. proc[w].pc = "join" /\ UNCHANGED <<now, sent, row, alias, cache, recorded, ackedAt>>
  BY DEF AliasFails, history
<1>2. proc' = [proc EXCEPT ![w] = rec]
  BY DEF AliasFails
<1>3. Canonical(Lid) \in Jids
  BY InvTypes DEF Canonical
<1>4. rec \in ProcRec /\ rec.msg = proc[w].msg
  BY <1>3, InvTypes DEF ProcRec
<1> HIDE DEF rec
<1>5. ThreadsKept
  BY <1>1, <1>2, <1>4, GotoKept, InvTypes
<1> QED
  BY <1>1, <1>5, RowsStay

LEMMA TimelineStep ==
    ASSUME ConvInv, NEW w \in Webhooks, AppendTimeline(w)
    PROVE  ConvInv'
<1>1. proc' = [proc EXCEPT ![w] = Idle] /\ UNCHANGED <<now, sent, row, alias, cache, recorded, ackedAt>>
  BY DEF AppendTimeline, history
<1>2. ThreadsKept
  BY <1>1, GotoKept, InvTypes
<1> QED
  BY <1>1, <1>2, RowsStay

LEMMA DeliverStep ==
    ASSUME ConvInv, NEW w \in Webhooks, NEW m \in sent, Deliver(w, m) \/ DeliverWithPair(w, m)
    PROVE  ConvInv'
<1>1. m.id \in Nat /\ m.id \in {n.id : n \in sent} /\ UNCHANGED <<now, sent, row, recorded, ackedAt>>
  BY InvTypes DEF Deliver, DeliverWithPair, history, MsgRec
<1>2. CASE Deliver(w, m) /\ m.jid = Phone
  <2> DEFINE rec == [Idle EXCEPT !.msg = m.id, !.val = Phone, !.pc = "record"]
  <2>1. proc' = [proc EXCEPT ![w] = rec] /\ UNCHANGED <<alias, cache>>
    BY <1>2 DEF Deliver
  <2>2. rec \in ProcRec /\ rec.msg = m.id
    BY <1>1, InvTypes DEF ProcRec, Idle
  <2> HIDE DEF rec
  <2>3. ThreadsKept
    BY <1>1, <2>1, <2>2, ThreadMoves, InvTypes
  <2> QED
    BY <1>1, <2>3, RowsStay
<1>3. CASE Deliver(w, m) /\ m.jid # Phone
  <2>1. LookUp(w, [Idle EXCEPT !.msg = m.id], "record") /\ UNCHANGED <<alias, cache>>
    BY <1>3 DEF Deliver
  <2> QED
    BY <1>1, <2>1, Looked
<1>4. CASE DeliverWithPair(w, m)
  <2> DEFINE rec == [Idle EXCEPT !.msg = m.id, !.pc = "join"]
  <2>1. proc' = [proc EXCEPT ![w] = rec] /\ alias' = Phone /\ UNCHANGED cache
    BY <1>4 DEF DeliverWithPair
  <2>2. rec \in ProcRec /\ rec.msg = m.id
    BY <1>1, InvTypes DEF ProcRec, Idle
  <2> HIDE DEF rec
  <2>3. ThreadsKept
    BY <1>1, <2>1, <2>2, ThreadMoves, InvTypes
  <2> QED
    BY <1>1, <2>3, RowsStay
<1> QED
  BY <1>2, <1>3, <1>4

LEMMA ReaderOnlyStep ==
    ASSUME ConvInv, NEW r \in Readers,
           BeginRead(r) \/ QueryList(r) \/ QueryJudge(r) \/ JudgeFails(r)
    PROVE  ConvInv'
<1>0. r \notin Webhooks /\ r \in Webhooks \cup Readers
  BY ThreadsDiffer
<1>1. UNCHANGED <<now, sent, row, alias, cache, recorded, ackedAt>>
  BY DEF BeginRead, QueryList, QueryJudge, JudgeFails, history
<1>2. CASE BeginRead(r) /\ row[Lid].there
  <2>1. LookUp(r, [Idle EXCEPT !.msg = 0], "fold")
    BY <1>2 DEF BeginRead, Idle
  <2> QED
    BY <1>0, <1>1, <2>1, Looked
<1>3. CASE BeginRead(r) /\ ~row[Lid].there
  <2> DEFINE rec == [proc[r] EXCEPT !.pc = "query"]
  <2>1. proc' = [proc EXCEPT ![r] = rec] /\ rec \in ProcRec
    BY <1>0, <1>3, InvTypes DEF BeginRead, Goto, ProcRec
  <2> HIDE DEF rec
  <2> QED
    BY <1>0, <1>1, <2>1, ThreadMoves, RowsStay, InvTypes
<1>4. CASE QueryList(r) \/ JudgeFails(r)
  <2>1. proc' = [proc EXCEPT ![r] = Idle]
    BY <1>4 DEF QueryList, JudgeFails
  <2> QED
    BY <1>0, <1>1, <2>1, ThreadMoves, RowsStay, InvTypes
<1>5. CASE QueryJudge(r)
  <2>1. PICK j \in Jids :
          proc' = [proc EXCEPT ![r] = [Idle EXCEPT !.pc = "ask", !.val = j, !.msg = row[j].inId]]
    BY <1>5 DEF QueryJudge, ToJudge, Collapse, DebtCandidates
  <2> DEFINE rec == [Idle EXCEPT !.pc = "ask", !.val = j, !.msg = row[j].inId]
  <2>2. row[j].inId \in Nat
    BY InvTypes DEF RowRec
  <2>3. rec \in ProcRec
    BY <2>2 DEF ProcRec, Idle
  <2>4. proc' = [proc EXCEPT ![r] = rec]
    BY <2>1
  <2> HIDE DEF rec
  <2> QED
    BY <1>0, <1>1, <2>3, <2>4, ThreadMoves, RowsStay, InvTypes
<1> QED
  BY <1>2, <1>3, <1>4, <1>5

\* Steps that touch neither rows nor threads.
LEMMA AsideStep ==
    ASSUME ConvInv,
           Tick \/ CacheExpire \/ \E j \in Jids, at \in Times(TRUE) : UserIgnores(<<j, at>>)
    PROVE  ConvInv'
<1>1. CASE Tick
  <2>1. now' = now + 1 /\ now \in Nat /\ ackedAt \in Nat /\ ackedAt <= now
    BY <1>1 DEF Tick, ConvInv, Shape, AckExact
  <2>2. UNCHANGED <<sent, row, alias, cache, proc, recorded, ackedAt>>
    BY <1>1 DEF Tick, history
  <2>3. Shape' /\ ackedAt' <= now' /\ ackedAt' \in Nat
    BY <2>1, <2>2 DEF ConvInv, Shape
  <2>4. Numbered' /\ InHand'
    BY <2>2 DEF ConvInv, Numbered, InHand
  <2>5. Sound' /\ Covers'
    BY <2>2 DEF ConvInv, Sound, Covers
  <2>6. AckExact'
    BY <2>2, <2>3 DEF ConvInv, AckExact
  <2> QED
    BY <2>3, <2>4, <2>5, <2>6 DEF ConvInv
<1>2. CASE CacheExpire \/ \E j \in Jids, at \in Times(TRUE) : UserIgnores(<<j, at>>)
  <2>1. UNCHANGED <<now, sent, row, alias, proc, recorded, ackedAt>> /\ cache' \in {cache, None}
    BY <1>2 DEF CacheExpire, UserIgnores, history
  <2>2. ThreadsKept
    BY <2>1 DEF ConvInv, Shape, InHand, ThreadsKept
  <2> QED
    BY <2>1, <2>2, RowsStay
<1> QED
  BY <1>1, <1>2

----------------------------------------------------------------------------
(* The theorem.                                                            *)

LEMMA ConvInit == Init => ConvInv
<1> SUFFICES ASSUME Init
             PROVE  ConvInv
  OBVIOUS
<1>1. /\ now = 1 /\ sent = {} /\ alias = None /\ cache = None /\ recorded = {} /\ ackedAt = 0
      /\ row = [j \in Jids |-> NoRow] /\ proc = [p \in Webhooks \cup Readers |-> Idle]
  BY DEF Init
<1>2. NoRow \in RowRec /\ NoRow.inAt = 0 /\ NoRow.outAt = 0 /\ NoRow.ackAt = 0
  BY DEF NoRow, RowRec
<1>3. Idle \in ProcRec /\ Idle.pc = "idle"
  BY DEF Idle, ProcRec, Jids
<1>4. Shape
  BY <1>1, <1>2, <1>3 DEF Shape
<1>5. Numbered /\ Covers
  BY <1>1, FS_EmptySet DEF Numbered, Covers
<1>6. InHand
  BY <1>1, <1>3 DEF InHand
<1>7. Sound
  BY <1>1, <1>2 DEF Sound
<1>8. AckExact
  BY <1>1, <1>2 DEF AckExact, Jids
<1> QED
  BY <1>4, <1>5, <1>6, <1>7, <1>8 DEF ConvInv

LEMMA ConvStep == ConvInv /\ [Next]_vars => ConvInv'
<1> SUFFICES ASSUME ConvInv, [Next]_vars
             PROVE  ConvInv'
  OBVIOUS
<1>1. CASE World
  BY <1>1, AsideStep, WriteStep, AcknowledgeStep DEF World
<1>2. ASSUME NEW w \in Webhooks, WebhookStep(w)
      PROVE  ConvInv'
  BY <1>2, PutStep, JoinStep, FailsStep, RecordStep, TimelineStep DEF WebhookStep
<1>3. ASSUME NEW w \in Webhooks, NEW m \in sent, Deliver(w, m) \/ DeliverWithPair(w, m)
      PROVE  ConvInv'
  BY <1>3, DeliverStep
<1>4. ASSUME NEW r \in Readers, ReaderStep(r)
      PROVE  ConvInv'
  BY <1>4, PutStep, FoldStep, ReaderOnlyStep, JudgeStep DEF ReaderStep
<1>5. CASE UNCHANGED vars
  <2>1. UNCHANGED <<now, sent, row, alias, cache, proc, recorded, ackedAt>>
    BY <1>5 DEF vars
  <2>2. ThreadsKept
    BY <2>1 DEF ConvInv, Shape, InHand, ThreadsKept
  <2> QED
    BY <2>1, <2>2, RowsStay
<1> QED
  BY <1>1, <1>2, <1>3, <1>4, <1>5 DEF Next

\* Whatever the number of messages, threads and readers, and however messages are
\* delivered, repeated and rows merged, the two rows of the person together hold the
\* latest message each way and the latest acknowledgement (agent/db.py,
\* record_inbound to merge_conversation_state).
THEOREM StateExactAlways == Spec => []StateExact
<1>1. Init => ConvInv
  BY ConvInit
<1>2. ConvInv /\ [Next]_vars => ConvInv'
  BY ConvStep
<1>3. ConvInv => StateExact
  BY InvExact
<1> QED
  BY <1>1, <1>2, <1>3, PTL DEF Spec

----------------------------------------------------------------------------
(* The lists.                                                              *)

\* A row that is not there holds no time; a verdict that a message needs no reply was given.
RowsSettled ==
  /\ \A j \in Jids : ~row[j].there => row[j].inAt = 0 /\ row[j].outAt = 0 /\ row[j].ackAt = 0
  /\ \A j \in Jids : row[j].judgeId # 0 /\ ~row[j].needs => row[j].judgeId \in saidNo

\* A column of the two rows is bounded by their maximum, and one of them reaches it.
LEMMA JoinedBounds ==
    ASSUME Shape, NEW f \in {"inAt", "outAt", "ackAt"}
    PROVE  /\ Joined(f) \in Nat
           /\ \A j \in Jids : row[j][f] \in Nat /\ row[j][f] <= Joined(f)
           /\ \E j \in Jids : row[j][f] = Joined(f)
<1> DEFINE a == row[Lid][f]
           b == row[Phone][f]
           x == Later(a, b)
<1>1. Joined(f) = MaxOf({a, b}) /\ a \in Nat /\ b \in Nat
  BY JoinedIs
<1> HIDE DEF a, b
<1>2. x \in Nat /\ x >= a /\ x >= b /\ x \in {a, b}
  BY <1>1, LaterIs
<1> HIDE DEF x
<1>3. MaxOf({a, b}) = x
  BY <1>1, <1>2, MaxOfIs
<1>4. Joined(f) = x /\ a <= x /\ b <= x
  BY <1>1, <1>2, <1>3
<1>5. \A j \in Jids : row[j][f] \in {a, b}
  BY DEF a, b, Jids
<1>6. \E j \in Jids : row[j][f] = x
  BY <1>2 DEF a, b, Jids
<1> QED
  BY <1>1, <1>2, <1>4, <1>5, <1>6

\* What the two rows say of the person, once the state is exact.
LEMMA RowsSay ==
    ASSUME ConvInv
    PROVE  /\ LastIn \in Nat /\ LastOut \in Nat /\ ackedAt \in Nat
           /\ \A j \in Jids : /\ row[j].inAt \in Nat /\ row[j].inAt <= LastIn
                              /\ row[j].outAt \in Nat /\ row[j].outAt <= LastOut
                              /\ row[j].ackAt \in Nat /\ row[j].ackAt <= ackedAt
           /\ \E j \in Jids : row[j].inAt = LastIn
           /\ \E j \in Jids : row[j].outAt = LastOut
           /\ \E j \in Jids : row[j].ackAt = ackedAt
<1>1. Joined("inAt") = LastIn /\ Joined("outAt") = LastOut /\ Joined("ackAt") = ackedAt
  BY InvExact DEF StateExact
<1>2. Shape
  BY DEF ConvInv
<1>3. /\ LastIn \in Nat
      /\ \A j \in Jids : row[j].inAt \in Nat /\ row[j].inAt <= LastIn
      /\ \E j \in Jids : row[j].inAt = LastIn
  BY <1>1, <1>2, JoinedBounds
<1>4. /\ LastOut \in Nat
      /\ \A j \in Jids : row[j].outAt \in Nat /\ row[j].outAt <= LastOut
      /\ \E j \in Jids : row[j].outAt = LastOut
  BY <1>1, <1>2, JoinedBounds
<1>5. /\ ackedAt \in Nat
      /\ \A j \in Jids : row[j].ackAt \in Nat /\ row[j].ackAt <= ackedAt
      /\ \E j \in Jids : row[j].ackAt = ackedAt
  BY <1>1, <1>2, JoinedBounds
<1> QED
  BY <1>3, <1>4, <1>5

\* Once the rows are folded, a row that holds a time holds all of them.
LEMMA FoldedRow ==
    ASSUME ConvInv, RowsSettled, Folded, NEW j \in Jids, row[j].there
    PROVE  row[j].inAt = LastIn /\ row[j].outAt = LastOut /\ row[j].ackAt = ackedAt
<1>1. PICK k \in Jids : ~row[k].there
  BY DEF Folded
<1>2. row[k].inAt = 0 /\ row[k].outAt = 0 /\ row[k].ackAt = 0 /\ \A i \in Jids : i = j \/ i = k
  BY <1>1, InvTypes DEF RowsSettled, Jids
<1>3. \A i \in Jids : row[i].inAt <= row[j].inAt /\ row[i].outAt <= row[j].outAt
                        /\ row[i].ackAt <= row[j].ackAt
  BY <1>2, RowsSay
<1>4. LastIn <= row[j].inAt /\ LastOut <= row[j].outAt /\ ackedAt <= row[j].ackAt
  BY <1>3, RowsSay
<1>5. row[j].inAt <= LastIn /\ row[j].outAt <= LastOut /\ row[j].ackAt <= ackedAt
  BY RowsSay
<1> QED
  BY <1>4, <1>5, RowsSay

\* The message a row names is the one numbered so.
LEMMA InKindIs ==
    ASSUME ConvInv, NEW j \in Jids, row[j].inAt # 0
    PROVE  \E m \in sent : /\ m.id = row[j].inId /\ m.id \in recorded /\ ~m.me
                           /\ m.ts = row[j].inAt /\ InKind(j) = m.kind
<1>1. PICK m \in sent : m.id = row[j].inId /\ m.id \in recorded /\ ~m.me /\ m.ts = row[j].inAt
  BY DEF ConvInv, Sound
<1>2. Msg(row[j].inId) = m
  BY <1>1 DEF Msg, ConvInv, Numbered
<1> QED
  BY <1>1, <1>2 DEF InKind

\* Who must be listed is found in the row with the latest inbound message.
LEMMA NoneHidden == ConvInv /\ RowsSettled => NoDebtHidden
<1> SUFFICES ASSUME ConvInv, RowsSettled, MustBeListed
             PROVE  Debts # {}
  BY DEF NoDebtHidden
<1>1. LastIn > LastOut /\ LastIn > ackedAt /\ Aged(LastIn, DebtAge, DebtMax)
  BY DEF MustBeListed, Unanswered
<1>2. ASSUME NEW j \in Jids, row[j].inAt = LastIn
      PROVE  j \in DebtCandidates
  BY <1>1, <1>2, RowsSay DEF DebtCandidates
<1>3. \E j \in Collapse(DebtCandidates, "inAt") : row[j].inAt = LastIn
  <2>1. CASE row[Phone].inAt = LastIn
    <3>1. Phone \in DebtCandidates
      BY <1>2, <2>1, InvTypes
    <3>2. \A k \in DebtCandidates \ {Phone} :
            row[k]["inAt"] < row[Phone]["inAt"] \/ row[k]["inAt"] = row[Phone]["inAt"]
      BY <2>1, RowsSay, InvTypes DEF DebtCandidates
    <3>3. Phone \in Collapse(DebtCandidates, "inAt")
      BY <3>1, <3>2 DEF Collapse
    <3> QED
      BY <2>1, <3>3
  <2>2. CASE row[Phone].inAt # LastIn
    <3>1. row[Lid].inAt = LastIn /\ Lid \in DebtCandidates
      BY <1>2, <2>2, RowsSay, InvTypes DEF Jids
    <3>2. \A k \in DebtCandidates \ {Lid} : row[k]["inAt"] < row[Lid]["inAt"]
      BY <2>2, <3>1, RowsSay, InvTypes DEF DebtCandidates, Jids
    <3>3. Lid \in Collapse(DebtCandidates, "inAt")
      BY <3>1, <3>2 DEF Collapse
    <3> QED
      BY <3>1, <3>3
  <2> QED
    BY <2>1, <2>2
<1>4. PICK j \in Collapse(DebtCandidates, "inAt") : row[j].inAt = LastIn
  BY <1>3
<1>5. j \in Jids /\ row[j].inAt # 0
  BY <1>1, <1>4, RowsSay DEF Collapse, DebtCandidates
<1>6. PICK m \in sent : /\ m.id = row[j].inId /\ m.id \in recorded /\ ~m.me
                        /\ m.ts = row[j].inAt /\ InKind(j) = m.kind
  BY <1>5, InKindIs
<1>7. m.kind = "request" \/ (m.kind = "remark" /\ m.id \notin saidNo)
  BY <1>4, <1>6 DEF MustBeListed, Newest
<1>8. Open(j)
  BY <1>6, <1>7 DEF Open, IsClosing, IsAcknowledgement
<1>9. ~(IsAmbiguous(InKind(j)) /\ HasVerdict(j) /\ ~row[j].needs)
  BY <1>5, <1>6, <1>7 DEF IsAmbiguous, LooksLikeRequest, HasVerdict, RowsSettled
<1> QED
  BY <1>4, <1>8, <1>9 DEF Debts

\* Who is listed has a row of a later inbound message.
LEMMA NoneFalse == ConvInv /\ RowsSettled => NoFalseDebt
<1> SUFFICES ASSUME ConvInv, RowsSettled, Folded, NEW j \in Debts
             PROVE  Unanswered
  BY DEF NoFalseDebt
<1>1. j \in Jids /\ row[j].inAt > row[j].outAt /\ row[j].inAt > row[j].ackAt
  BY DEF Debts, Collapse, DebtCandidates
<1>2. row[j].there
  BY <1>1 DEF RowsSettled
<1> QED
  BY <1>1, <1>2, FoldedRow DEF Unanswered

LEMMA SilentSound == ConvInv /\ RowsSettled => AwaitingSound
<1> SUFFICES ASSUME ConvInv, RowsSettled, Folded, NEW e \in Awaiting
             PROVE  e[2] = LastOut /\ LastOut > LastIn
  BY DEF AwaitingSound
<1>1. PICK j \in Collapse(AwaitingCandidates, "outAt") : e = <<Canonical(j), row[j].outAt>>
  BY DEF Awaiting
<1>2. j \in Jids /\ row[j].outAt > row[j].inAt /\ e[2] = row[j].outAt
  BY <1>1 DEF Collapse, AwaitingCandidates
<1>3. row[j].there
  BY <1>2 DEF RowsSettled
<1> QED
  BY <1>2, <1>3, FoldedRow

LEMMA RequestListed == ConvInv /\ RowsSettled => NewRequestListed
<1> SUFFICES ASSUME ConvInv, RowsSettled, ~row[Lid].there, LastIsRequest,
                    <<Phone, LastOut>> \notin dismissed
             PROVE  <<Phone, LastOut>> \in Awaiting
  BY DEF NewRequestListed
<1>1. LastOut > LastIn /\ Aged(LastOut, WaitAge, WaitMax) /\ timeline[Phone] # << >>
  BY DEF LastIsRequest
<1>2. row[Lid].outAt = 0 /\ row[Lid].inAt = 0 /\ row[Lid].ackAt = 0
  BY InvTypes DEF RowsSettled
<1>3. row[Phone].outAt = LastOut /\ row[Phone].inAt = LastIn
  <2>1. row[Phone].there
    BY <1>1, <1>2, RowsSay, InvTypes DEF RowsSettled, Jids
  <2> QED
    BY <2>1, FoldedRow, InvTypes DEF Folded
<1>4. AwaitingCandidates = {Phone}
  BY <1>1, <1>2, <1>3, InvTypes DEF AwaitingCandidates, Jids
<1>5. Phone \in Collapse(AwaitingCandidates, "outAt")
  BY <1>4 DEF Collapse
<1>6. LastText(Phone, LastOut) = "request"
  <2> DEFINE m == Msg(timeline[Phone][Len(timeline[Phone])])
  <2>1. m.ts = LastOut /\ m.kind = "request"
    BY DEF LastIsRequest
  <2>2. ~(m.ts < LastOut - Slack)
    BY <2>1, SlackAssumption, RowsSay
  <2> QED
    BY <1>1, <2>1, <2>2 DEF LastText
<1>7. Canonical(Phone) = Phone
  BY DEF Canonical
<1> QED
  BY <1>3, <1>5, <1>6, <1>7 DEF Awaiting, IsDismissed

LEMMA ListsFollow == ConvInv /\ RowsSettled => ListsRight
  BY NoneHidden, NoneFalse, SilentSound, RequestListed DEF ListsRight

----------------------------------------------------------------------------
(* Rows stay settled.                                                      *)

\* What RowsSettled says of a table and the answers of the judge.
Settled(r, no) ==
  /\ \A j \in Jids : ~r[j].there => r[j].inAt = 0 /\ r[j].outAt = 0 /\ r[j].ackAt = 0
  /\ \A j \in Jids : r[j].judgeId # 0 /\ ~r[j].needs => r[j].judgeId \in no

LEMMA MergeSettled == ConvInv /\ RowsSettled => Settled(Merge, saidNo)
<1> SUFFICES ASSUME ConvInv, RowsSettled
             PROVE  Settled(Merge, saidNo)
  OBVIOUS
<1> DEFINE s == row[Lid]
           d == row[Phone]
           r == Merge
<1>1. CASE ~row[Lid].there
  BY <1>1 DEF Merge, RowsSettled, Settled
<1>2. CASE row[Lid].there
  <2>1. d \in RowRec /\ Lid # Phone
    BY InvTypes, IdsDiffer
  <2>2. /\ r[Lid] = NoRow
        /\ r[Phone] = [d EXCEPT !.inAt = Later(d.inAt, s.inAt),
                                !.inId = IF s.inAt > d.inAt THEN s.inId ELSE d.inId,
                                !.outAt = Later(d.outAt, s.outAt),
                                !.ackAt = Later(d.ackAt, s.ackAt), !.there = TRUE]
    BY <1>2, <2>1, InvTypes DEF Merge
  <2>3. r[Phone].there /\ r[Phone].judgeId = d.judgeId /\ r[Phone].needs = d.needs
    BY <2>1, <2>2 DEF RowRec
  <2>4. /\ r[Lid].inAt = 0 /\ r[Lid].outAt = 0 /\ r[Lid].ackAt = 0 /\ r[Lid].judgeId = 0
    BY <2>2 DEF NoRow
  <2>5. d.judgeId # 0 /\ ~d.needs => d.judgeId \in saidNo
    BY InvTypes DEF RowsSettled
  <2> HIDE DEF r, s, d
  <2>6. Settled(r, saidNo)
    BY <2>3, <2>4, <2>5 DEF Settled, Jids
  <2> QED
    BY <2>6 DEF r
<1> QED
  BY <1>1, <1>2

\* The judge's answer names the message it is about.
LEMMA VerdictSettled ==
    ASSUME ConvInv, RowsSettled, NEW j \in Jids, NEW id \in Nat, NEW needs \in BOOLEAN
    PROVE  Settled(SetVerdict(j, id, needs), IF needs THEN saidNo ELSE saidNo \cup {id})
<1> DEFINE r == SetVerdict(j, id, needs)
<1>1. \A k \in Jids : row[k] \in RowRec
  BY InvTypes
<1>2. \A k \in Jids : /\ r[k].inAt = row[k].inAt /\ r[k].outAt = row[k].outAt
                      /\ r[k].ackAt = row[k].ackAt /\ r[k].there = row[k].there
  BY <1>1, InvTypes DEF SetVerdict, RowRec
<1>3. \A k \in Jids : \/ r[k].judgeId = row[k].judgeId /\ r[k].needs = row[k].needs
                      \/ r[k].judgeId = id /\ r[k].needs = needs
  BY <1>1, InvTypes DEF SetVerdict, RowRec
<1> HIDE DEF r
<1>4. Settled(r, IF needs THEN saidNo ELSE saidNo \cup {id})
  BY <1>2, <1>3 DEF Settled, RowsSettled
<1> QED
  BY <1>4 DEF r

\* A step that writes times and names into one row marks it as there.
LEMMA RecordSettled ==
    ASSUME ConvInv, RowsSettled, NEW w \in Webhooks, Record(w)
    PROVE  Settled(row', saidNo')
<1> DEFINE m == Msg(proc[w].msg)
           j == proc[w].val
<1>1. j \in Jids /\ row \in [Jids -> RowRec] /\ row[j] \in RowRec
  BY InvTypes DEF ProcRec
<1>2. row' = (IF m.me THEN RecordOutbound(j, m) ELSE RecordInbound(j, m)) /\ saidNo' = saidNo
  BY DEF Record
<1> HIDE DEF m, j
<1>3. \A k \in Jids : k # j => row'[k] = row[k]
  BY <1>1, <1>2 DEF RecordOutbound, RecordInbound
<1>4. /\ row'[j].there \/ row'[j] = row[j]
      /\ row'[j].judgeId = row[j].judgeId /\ row'[j].needs = row[j].needs
  <2>1. CASE m.me
    <3> DEFINE rec == [row[j] EXCEPT !.outAt = Later(row[j].outAt, m.ts), !.there = TRUE]
    <3>1. row' = [row EXCEPT ![j] = rec]
      BY <1>2, <2>1 DEF RecordOutbound
    <3>2. rec.there /\ rec.judgeId = row[j].judgeId /\ rec.needs = row[j].needs
      BY <1>1 DEF RowRec
    <3> HIDE DEF rec
    <3> QED
      BY <1>1, <3>1, <3>2
  <2>2. CASE ~m.me
    <3> DEFINE rec == [row[j] EXCEPT !.inAt = m.ts, !.inId = m.id, !.there = TRUE]
    <3>1. row' = [row EXCEPT ![j] = IF m.ts > row[j].inAt THEN rec ELSE row[j]]
      BY <1>2, <2>2 DEF RecordInbound
    <3>2. rec.there /\ rec.judgeId = row[j].judgeId /\ rec.needs = row[j].needs
      BY <1>1 DEF RowRec
    <3> HIDE DEF rec
    <3> QED
      BY <1>1, <3>1, <3>2
  <2> QED
    BY <2>1, <2>2
<1> QED
  BY <1>1, <1>2, <1>3, <1>4 DEF Settled, RowsSettled

LEMMA AckSettled ==
    ASSUME ConvInv, RowsSettled, NEW j \in Jids, UserAcknowledges(j)
    PROVE  Settled(row', saidNo')
<1> DEFINE rec == [row[j] EXCEPT !.ackAt = Later(row[j].ackAt, now), !.there = TRUE]
<1>1. row' = [row EXCEPT ![j] = rec] /\ saidNo' = saidNo
  BY DEF UserAcknowledges, Acknowledge
<1>2. row \in [Jids -> RowRec] /\ row[j] \in RowRec
  BY InvTypes
<1>3. rec.there /\ rec.judgeId = row[j].judgeId /\ rec.needs = row[j].needs
  BY <1>2 DEF RowRec
<1> HIDE DEF rec
<1> QED
  BY <1>1, <1>2, <1>3 DEF Settled, RowsSettled

LEMMA SettledStep == ConvInv /\ RowsSettled /\ [Next]_vars => RowsSettled'
<1> SUFFICES ASSUME ConvInv, RowsSettled, [Next]_vars
             PROVE  Settled(row', saidNo')
  BY DEF Settled, RowsSettled
<1>1. ASSUME UNCHANGED <<row, saidNo>>
      PROVE  Settled(row', saidNo')
  BY <1>1 DEF Settled, RowsSettled
<1>2. CASE World
  <2>1. CASE \E j \in Jids : UserAcknowledges(j)
    BY <2>1, AckSettled
  <2>2. CASE ~\E j \in Jids : UserAcknowledges(j)
    BY <1>1, <1>2, <2>2 DEF World, Tick, CacheExpire, Write, UserIgnores, history
  <2> QED
    BY <2>1, <2>2
<1>3. ASSUME NEW w \in Webhooks, WebhookStep(w)
      PROVE  Settled(row', saidNo')
  <2>1. CASE PutCache(w) \/ AliasFails(w) \/ AppendTimeline(w)
    BY <1>1, <2>1 DEF PutCache, AliasFails, AppendTimeline, history
  <2>2. CASE JoinRows(w)
    BY <2>2, MergeSettled DEF JoinRows, history
  <2>3. CASE Record(w)
    BY <2>3, RecordSettled
  <2> QED
    BY <1>3, <2>1, <2>2, <2>3 DEF WebhookStep
<1>4. ASSUME NEW w \in Webhooks, NEW m \in sent, Deliver(w, m) \/ DeliverWithPair(w, m)
      PROVE  Settled(row', saidNo')
  BY <1>1, <1>4 DEF Deliver, DeliverWithPair, history
<1>5. ASSUME NEW r \in Readers, ReaderStep(r)
      PROVE  Settled(row', saidNo')
  <2>1. CASE BeginRead(r) \/ PutCache(r) \/ QueryList(r) \/ QueryJudge(r) \/ JudgeFails(r)
    BY <1>1, <2>1 DEF BeginRead, PutCache, QueryList, QueryJudge, JudgeFails, history
  <2>2. CASE Fold(r)
    BY <1>1, <2>2, MergeSettled DEF Fold, history
  <2>3. ASSUME NEW needs \in BOOLEAN, JudgeAnswers(r, needs)
        PROVE  Settled(row', saidNo')
    <3>1. /\ row' = SetVerdict(proc[r].val, proc[r].msg, needs)
          /\ saidNo' = IF needs THEN saidNo ELSE saidNo \cup {proc[r].msg}
      BY <2>3 DEF JudgeAnswers
    <3>2. proc[r].val \in Jids /\ proc[r].msg \in Nat
      BY InvTypes DEF ProcRec
    <3> QED
      BY <3>1, <3>2, VerdictSettled
  <2> QED
    BY <1>5, <2>1, <2>2, <2>3 DEF ReaderStep
<1> QED
  BY <1>1, <1>2, <1>3, <1>4, <1>5 DEF Next, vars, history

\* The lists of a briefing and of the tools are right whenever they are read, for any
\* number of messages, threads, faults and any ages: who waits for an answer is listed,
\* who was answered or acknowledged is not, and ignoring a message silences no later one
\* (agent/services/reply_debts.py, awaiting_reply.py, debt_judge.py).
THEOREM ListsRightAlways == Spec => []ListsRight
<1>1. Init => ConvInv /\ RowsSettled
  BY ConvInit DEF Init, RowsSettled, NoRow
<1>2. ConvInv /\ RowsSettled /\ [Next]_vars => (ConvInv /\ RowsSettled)'
  BY ConvStep, SettledStep
<1>3. ConvInv /\ RowsSettled => ListsRight
  BY ListsFollow
<1> QED
  BY <1>1, <1>2, <1>3, PTL DEF Spec

----------------------------------------------------------------------------
(* Types.  The times and names of a row are bounded because they are those  *)
(* of messages.                                                             *)

Fits == now <= MaxTime /\ Cardinality(sent) <= MaxMsgs /\ \A m \in sent : m.ts <= MaxTime

\* A row without a time names no message; a verdict is on a recorded one.
NamesIn(r, done) ==
  \A j \in Jids : (r[j].inAt = 0 => r[j].inId = 0) /\ r[j].judgeId \in done \cup {0}

OnceIn(q) == q \in Seq(Ids) /\ Cardinality(ToSet(q)) = Len(q)

Asides ==
  /\ DOMAIN timeline = Jids /\ \A j \in Jids : OnceIn(timeline[j])
  /\ dismissed \subseteq Jids \X (1..MaxTime)
  /\ \A p \in Webhooks \cup Readers : proc[p].pc = "idle" => proc[p].msg = 0

\* The judge is asked about recorded messages.
Asked ==
  /\ saidNo \subseteq recorded
  /\ \A r \in Readers : proc[r].pc = "ask" => proc[r].msg \in recorded

TypesInv == Fits /\ NamesIn(row, recorded) /\ Asides /\ Asked

LEMMA SentFits ==
    ASSUME ConvInv, Fits
    PROVE  /\ \A m \in sent : m.id \in Ids /\ m.ts \in 1..MaxTime
           /\ recorded \subseteq Ids /\ recorded \subseteq {m.id : m \in sent}
<1>1. Cardinality(sent) \in Nat /\ MaxMsgs \in Nat /\ MaxTime \in Nat
  BY FS_CardinalityType, BoundsAssumption DEF ConvInv, Numbered
<1>2. \A m \in sent : m \in MsgRec /\ m.id <= Cardinality(sent) /\ m.ts <= MaxTime
  BY DEF ConvInv, Numbered, Fits
<1>3. \A m \in sent : m.id \in Nat \ {0} /\ m.ts \in Nat \ {0}
  BY <1>2 DEF MsgRec
<1>4. \A m \in sent : m.id \in Ids /\ m.ts \in 1..MaxTime
  BY <1>1, <1>2, <1>3 DEF Ids, Fits
<1> QED
  BY <1>4 DEF ConvInv, Numbered

LEMMA TypesGive == ConvInv /\ TypesInv => TypeOK
<1> SUFFICES ASSUME ConvInv, TypesInv
             PROVE  TypeOK
  OBVIOUS
<1>1. MaxMsgs \in Nat /\ MaxTime \in Nat /\ now \in 1..MaxTime
  BY BoundsAssumption, InvTypes DEF TypesInv, Fits
<1>2. /\ \A m \in sent : m.id \in Ids /\ m.ts \in 1..MaxTime
      /\ recorded \subseteq Ids /\ recorded \subseteq {m.id : m \in sent}
  BY SentFits DEF TypesInv
<1>3. sent \subseteq [id : Ids, jid : Jids, me : BOOLEAN, ts : 1..MaxTime, kind : InKinds \cup OutKinds]
  <2> SUFFICES ASSUME NEW m \in sent
               PROVE  m \in [id : Ids, jid : Jids, me : BOOLEAN, ts : 1..MaxTime,
                             kind : InKinds \cup OutKinds]
    OBVIOUS
  <2>1. m \in MsgRec /\ m.id \in Ids /\ m.ts \in 1..MaxTime
    BY <1>2, InvTypes
  <2> QED
    BY <2>1 DEF MsgRec
<1>4. ASSUME NEW j \in Jids
      PROVE  row[j] \in Row
  <2>1. row[j] \in RowRec
    BY InvTypes
  <2>2. row[j].inAt \in 0..MaxTime /\ row[j].inId \in 0..MaxMsgs
    <3>1. row[j].inAt # 0 => row[j].inAt \in 1..MaxTime /\ row[j].inId \in Ids
      BY <1>2 DEF ConvInv, Sound
    <3>2. row[j].inAt = 0 => row[j].inId = 0
      BY DEF TypesInv, NamesIn
    <3> QED
      BY <1>1, <3>1, <3>2 DEF Ids
  <2>3. row[j].outAt \in 0..MaxTime
    <3>1. row[j].outAt # 0 => row[j].outAt \in 1..MaxTime
      BY <1>2 DEF ConvInv, Sound
    <3> QED
      BY <1>1, <3>1
  <2>4. row[j].ackAt \in 0..MaxTime
    <3>1. row[j].ackAt \in Nat
      BY <2>1 DEF RowRec
    <3>2. ackedAt \in Nat /\ ackedAt <= now /\ row[j].ackAt <= ackedAt
      BY DEF ConvInv, AckExact
    <3> QED
      BY <1>1, <3>1, <3>2
  <2>5. row[j].judgeId \in 0..MaxMsgs
    <3>1. row[j].judgeId \in Ids \/ row[j].judgeId = 0
      BY <1>2 DEF TypesInv, NamesIn
    <3> QED
      BY <1>1, <3>1 DEF Ids
  <2> QED
    BY <2>1, <2>2, <2>3, <2>4, <2>5 DEF RowRec, Row
<1>5. row \in [Jids -> Row]
  BY <1>4, InvTypes
<1> QED
  BY <1>1, <1>2, <1>3, <1>5, InvTypes DEF TypeOK, TypesInv, Asides, Asked, OnceIn

LEMMA TypesInit == Init => TypesInv
<1> SUFFICES ASSUME Init
             PROVE  TypesInv
  OBVIOUS
<1>1. Fits
  BY BoundsAssumption, FS_EmptySet DEF Init, Fits
<1>2. NamesIn(row, recorded)
  BY DEF Init, NamesIn, NoRow
<1>3. OnceIn(<<>>)
  <2>1. ToSet(<<>>) = {} /\ <<>> \in Seq(Ids) /\ Len(<<>>) = 0
    BY DEF ToSet
  <2> QED
    BY <2>1, FS_EmptySet DEF OnceIn
<1>4. Asides
  BY <1>3 DEF Init, Asides, Idle
<1>5. Asked
  BY DEF Init, Asked, Idle
<1> QED
  BY <1>1, <1>2, <1>4, <1>5 DEF TypesInv

\* The rows.
LEMMA MergeNames ==
    ASSUME ConvInv, NamesIn(row, recorded)
    PROVE  NamesIn(Merge, recorded)
<1>1. CASE ~row[Lid].there
  BY <1>1 DEF Merge
<1>2. CASE row[Lid].there
  <2> DEFINE s == row[Lid]
             d == row[Phone]
             r == Merge
  <2>1. d \in RowRec /\ s \in RowRec /\ Lid # Phone
    BY InvTypes, IdsDiffer
  <2>2. /\ r[Lid] = NoRow
        /\ r[Phone] = [d EXCEPT !.inAt = Later(d.inAt, s.inAt),
                                !.inId = IF s.inAt > d.inAt THEN s.inId ELSE d.inId,
                                !.outAt = Later(d.outAt, s.outAt),
                                !.ackAt = Later(d.ackAt, s.ackAt), !.there = TRUE]
    BY <1>2, <2>1, InvTypes DEF Merge
  <2>3. /\ r[Phone].judgeId = d.judgeId /\ r[Phone].inAt = Later(d.inAt, s.inAt)
        /\ r[Phone].inId = IF s.inAt > d.inAt THEN s.inId ELSE d.inId
    BY <2>1, <2>2 DEF RowRec
  <2>4. r[Lid].inId = 0 /\ r[Lid].judgeId = 0
    BY <2>2 DEF NoRow
  <2>5. /\ d.inAt = 0 => d.inId = 0
        /\ d.judgeId \in recorded \cup {0}
    BY InvTypes DEF NamesIn
  <2>6. d.inAt \in Nat /\ s.inAt \in Nat
    BY <2>1 DEF RowRec
  <2> HIDE DEF r, s, d
  <2>7. r[Phone].inAt = 0 => r[Phone].inId = 0
    BY <2>3, <2>5, <2>6 DEF Later
  <2>8. NamesIn(r, recorded)
    BY <2>3, <2>4, <2>5, <2>7 DEF NamesIn, Jids
  <2> QED
    BY <2>8 DEF r
<1> QED
  BY <1>1, <1>2

LEMMA VerdictNames ==
    ASSUME ConvInv, NamesIn(row, recorded), NEW j \in Jids, NEW id \in recorded, NEW needs \in BOOLEAN
    PROVE  NamesIn(SetVerdict(j, id, needs), recorded)
<1> DEFINE r == SetVerdict(j, id, needs)
<1>1. \A k \in Jids : row[k] \in RowRec
  BY InvTypes
<1>2. \A k \in Jids : r[k].inAt = row[k].inAt /\ r[k].inId = row[k].inId
  BY <1>1, InvTypes DEF SetVerdict, RowRec
<1>3. \A k \in Jids : r[k].judgeId = row[k].judgeId \/ r[k].judgeId = id
  BY <1>1, InvTypes DEF SetVerdict, RowRec
<1> HIDE DEF r
<1>4. NamesIn(r, recorded)
  BY <1>2, <1>3 DEF NamesIn
<1> QED
  BY <1>4 DEF r

LEMMA RecordNames ==
    ASSUME ConvInv, NamesIn(row, recorded), NEW w \in Webhooks, Record(w)
    PROVE  NamesIn(row', recorded')
<1> DEFINE m == Msg(proc[w].msg)
           j == proc[w].val
<1>1. j \in Jids /\ row \in [Jids -> RowRec] /\ row[j] \in RowRec
  BY InvTypes DEF ProcRec
<1>2. /\ row' = IF m.me THEN RecordOutbound(j, m) ELSE RecordInbound(j, m)
      /\ recorded' = recorded \cup {m.id}
  BY DEF Record
<1>3. m.ts \in Nat
  <2>1. m \in sent
    BY DEF Record, ConvInv, InHand, Msg
  <2> QED
    BY <2>1, InvTypes DEF MsgRec
<1> HIDE DEF m, j
<1>4. \A k \in Jids : k # j => row'[k] = row[k]
  BY <1>1, <1>2 DEF RecordOutbound, RecordInbound
<1>5. /\ row'[j].judgeId = row[j].judgeId
      /\ \/ row'[j].inAt = row[j].inAt /\ row'[j].inId = row[j].inId
         \/ row'[j].inAt > row[j].inAt
  <2>1. CASE m.me
    <3> DEFINE rec == [row[j] EXCEPT !.outAt = Later(row[j].outAt, m.ts), !.there = TRUE]
    <3>1. row' = [row EXCEPT ![j] = rec]
      BY <1>2, <2>1 DEF RecordOutbound
    <3>2. rec.inAt = row[j].inAt /\ rec.inId = row[j].inId /\ rec.judgeId = row[j].judgeId
      BY <1>1 DEF RowRec
    <3> HIDE DEF rec
    <3> QED
      BY <1>1, <3>1, <3>2
  <2>2. CASE ~m.me
    <3> DEFINE rec == [row[j] EXCEPT !.inAt = m.ts, !.inId = m.id, !.there = TRUE]
    <3>1. row' = [row EXCEPT ![j] = IF m.ts > row[j].inAt THEN rec ELSE row[j]]
      BY <1>2, <2>2 DEF RecordInbound
    <3>2. rec.inAt = m.ts /\ rec.judgeId = row[j].judgeId
      BY <1>1 DEF RowRec
    <3> HIDE DEF rec
    <3> QED
      BY <1>1, <3>1, <3>2
  <2> QED
    BY <2>1, <2>2
<1>6. row[j].inAt \in Nat
  BY <1>1 DEF RowRec
<1>7. row'[j].inAt = 0 => row'[j].inId = 0
  BY <1>1, <1>5, <1>6 DEF NamesIn
<1> QED
  BY <1>1, <1>2, <1>4, <1>5, <1>7 DEF NamesIn

LEMMA AckNames ==
    ASSUME ConvInv, NamesIn(row, recorded), NEW j \in Jids, UserAcknowledges(j)
    PROVE  NamesIn(row', recorded)
<1> DEFINE rec == [row[j] EXCEPT !.ackAt = Later(row[j].ackAt, now), !.there = TRUE]
<1>1. row' = [row EXCEPT ![j] = rec]
  BY DEF UserAcknowledges, Acknowledge
<1>2. row \in [Jids -> RowRec] /\ row[j] \in RowRec
  BY InvTypes
<1>3. rec.inAt = row[j].inAt /\ rec.inId = row[j].inId /\ rec.judgeId = row[j].judgeId
  BY <1>2 DEF RowRec
<1> HIDE DEF rec
<1> QED
  BY <1>1, <1>2, <1>3 DEF NamesIn

\* A message joins a timeline once.
LEMMA JoinsOnce ==
    ASSUME NEW q, OnceIn(q), NEW i \in Ids, i \notin ToSet(q)
    PROVE  OnceIn(Append(q, i))
<1>1. q \in Seq(Ids) /\ Cardinality(ToSet(q)) = Len(q) /\ Len(q) \in Nat
  BY DEF OnceIn
<1>2. IsFiniteSet(ToSet(q))
  <2> DEFINE n == Len(q)
             f == [k \in 1..n |-> q[k]]
  <2>1. f \in Surjection(1..n, ToSet(q))
    BY <1>1 DEF Surjection, ToSet
  <2>2. n \in Int /\ 1 \in Int
    BY <1>1
  <2> HIDE DEF n
  <2>3. IsFiniteSet(1..n)
    BY <2>2, FS_Interval
  <2> QED
    BY <2>1, <2>3, FS_Surjection
<1> DEFINE a == Append(q, i)
<1>3. a \in Seq(Ids) /\ Len(a) = Len(q) + 1
  BY <1>1
<1>4. ToSet(a) = ToSet(q) \cup {i}
  <2>1. /\ DOMAIN a = 1..(Len(q) + 1) /\ DOMAIN q = 1..Len(q) /\ a[Len(q) + 1] = i
        /\ \A k \in 1..Len(q) : a[k] = q[k]
    BY <1>1
  <2> HIDE DEF a
  <2>2. \A k \in DOMAIN a : k \in DOMAIN q \/ k = Len(q) + 1
    BY <1>1, <2>1
  <2>3. Len(q) + 1 \in DOMAIN a /\ DOMAIN q \subseteq DOMAIN a
    BY <1>1, <2>1
  <2> QED
    BY <2>1, <2>2, <2>3 DEF ToSet
<1> HIDE DEF a
<1>5. Cardinality(ToSet(a)) = Cardinality(ToSet(q)) + 1
  BY <1>2, <1>4, FS_AddElement
<1>6. OnceIn(a)
  BY <1>1, <1>3, <1>5 DEF OnceIn
<1> QED
  BY <1>6 DEF a

----------------------------------------------------------------------------
(* Every step keeps the types.                                             *)

LEMMA FitsStep ==
    ASSUME ConvInv, Fits, Next
    PROVE  Fits'
<1>1. CASE Tick
  <2>1. now' = now + 1 /\ now < MaxTime /\ sent' = sent /\ now \in Nat
    BY <1>1, InvTypes DEF Tick
  <2> QED
    BY <2>1, BoundsAssumption DEF Fits
<1>2. ASSUME NEW j \in Jids, NEW me \in BOOLEAN, NEW kind \in InKinds \cup OutKinds, Write(j, me, kind)
      PROVE  Fits'
  <2> DEFINE m == [id |-> Cardinality(sent) + 1, jid |-> j, me |-> me, ts |-> now, kind |-> kind]
  <2>1. /\ IsFiniteSet(sent) /\ Cardinality(sent) \in Nat
        /\ \A n \in sent : n \in MsgRec /\ n.id <= Cardinality(sent)
    BY FS_CardinalityType DEF ConvInv, Numbered
  <2>2. m.id = Cardinality(sent) + 1 /\ m.ts = now
    OBVIOUS
  <2>3. sent' = sent \cup {m} /\ now' = now /\ Cardinality(sent) < MaxMsgs
    BY <1>2 DEF Write
  <2> HIDE DEF m
  <2>4. m \notin sent
    BY <2>1, <2>2
  <2>5. Cardinality(sent') = Cardinality(sent) + 1
    BY <2>1, <2>3, <2>4, FS_AddElement
  <2>6. Cardinality(sent') <= MaxMsgs
    BY <2>1, <2>3, <2>5, BoundsAssumption
  <2> QED
    BY <2>2, <2>3, <2>6 DEF Fits
<1>3. CASE UNCHANGED <<now, sent>>
  BY <1>3 DEF Fits
<1>4. CASE CacheExpire \/ (\E j \in Jids : UserAcknowledges(j))
           \/ (\E j \in Jids, at \in Times(TRUE) : UserIgnores(<<j, at>>))
  BY <1>3, <1>4 DEF CacheExpire, UserAcknowledges, UserIgnores
<1>5. ASSUME NEW w \in Webhooks, WebhookStep(w)
      PROVE  UNCHANGED <<now, sent>>
  BY <1>5 DEF WebhookStep, PutCache, JoinRows, AliasFails, Record, AppendTimeline
<1>6. ASSUME NEW w \in Webhooks, NEW m \in sent, Deliver(w, m) \/ DeliverWithPair(w, m)
      PROVE  UNCHANGED <<now, sent>>
  BY <1>6 DEF Deliver, DeliverWithPair
<1>7. ASSUME NEW r \in Readers, ReaderStep(r)
      PROVE  UNCHANGED <<now, sent>>
  BY <1>7 DEF ReaderStep, BeginRead, PutCache, Fold, QueryList, QueryJudge, JudgeFails, JudgeAnswers
<1> QED
  BY <1>1, <1>2, <1>3, <1>4, <1>5, <1>6, <1>7 DEF Next, World

LEMMA NamesStep ==
    ASSUME ConvInv, NamesIn(row, recorded), Asked, Next
    PROVE  NamesIn(row', recorded')
<1>1. ASSUME UNCHANGED <<row, recorded>>
      PROVE  NamesIn(row', recorded')
  BY <1>1
<1>2. CASE World
  <2>1. CASE \E j \in Jids : UserAcknowledges(j)
    <3>1. recorded' = recorded
      BY <2>1 DEF UserAcknowledges
    <3> QED
      BY <2>1, <3>1, AckNames
  <2>2. CASE ~\E j \in Jids : UserAcknowledges(j)
    BY <1>1, <1>2, <2>2 DEF World, Tick, CacheExpire, Write, UserIgnores, history
  <2> QED
    BY <2>1, <2>2
<1>3. ASSUME NEW w \in Webhooks, WebhookStep(w)
      PROVE  NamesIn(row', recorded')
  <2>1. CASE PutCache(w) \/ AliasFails(w) \/ AppendTimeline(w)
    BY <1>1, <2>1 DEF PutCache, AliasFails, AppendTimeline, history
  <2>2. CASE JoinRows(w)
    BY <2>2, MergeNames DEF JoinRows, history
  <2>3. CASE Record(w)
    BY <2>3, RecordNames
  <2> QED
    BY <1>3, <2>1, <2>2, <2>3 DEF WebhookStep
<1>4. ASSUME NEW w \in Webhooks, NEW m \in sent, Deliver(w, m) \/ DeliverWithPair(w, m)
      PROVE  NamesIn(row', recorded')
  BY <1>1, <1>4 DEF Deliver, DeliverWithPair, history
<1>5. ASSUME NEW r \in Readers, ReaderStep(r)
      PROVE  NamesIn(row', recorded')
  <2>1. CASE BeginRead(r) \/ PutCache(r) \/ QueryList(r) \/ QueryJudge(r) \/ JudgeFails(r)
    BY <1>1, <2>1 DEF BeginRead, PutCache, QueryList, QueryJudge, JudgeFails, history
  <2>2. CASE Fold(r)
    BY <1>1, <2>2, MergeNames DEF Fold, history
  <2>3. ASSUME NEW needs \in BOOLEAN, JudgeAnswers(r, needs)
        PROVE  NamesIn(row', recorded')
    <3>1. /\ row' = SetVerdict(proc[r].val, proc[r].msg, needs) /\ recorded' = recorded
          /\ proc[r].pc = "ask"
      BY <2>3 DEF JudgeAnswers
    <3>2. proc[r].val \in Jids /\ proc[r].msg \in recorded
      BY <3>1, InvTypes DEF ProcRec, Asked
    <3> QED
      BY <3>1, <3>2, VerdictNames
  <2> QED
    BY <1>5, <2>1, <2>2, <2>3 DEF ReaderStep
<1> QED
  BY <1>1, <1>2, <1>3, <1>4, <1>5 DEF Next

\* Where a thread is after a step of its own: nowhere, or at work on a message.
LEMMA ThreadStep ==
    ASSUME ConvInv, NEW p \in Webhooks \cup Readers,
           p \in Webhooks => WebhookStep(p) \/ \E m \in sent : Deliver(p, m) \/ DeliverWithPair(p, m),
           p \in Readers => ReaderStep(p)
    PROVE  /\ \A u \in (Webhooks \cup Readers) \ {p} : proc'[u] = proc[u]
           /\ proc'[p].pc = "idle" => proc'[p].msg = 0
           /\ proc'[p].pc = "ask" => proc[p].pc = "ask" \/ (p \in Readers /\ QueryJudge(p))
<1>1. proc \in [Webhooks \cup Readers -> ProcRec] /\ proc[p] \in ProcRec
  BY InvTypes
<1>2. Idle.pc = "idle" /\ Idle.msg = 0 /\ Idle \in ProcRec
  BY InvTypes DEF Idle
<1>3. PICK rec : /\ proc' = [proc EXCEPT ![p] = rec]
                 /\ rec = Idle \/ rec.pc # "idle"
                 /\ rec.pc = "ask" => p \in Readers /\ QueryJudge(p)
  <2>1. ASSUME NEW from \in ProcRec, NEW next \in {"record", "fold"}, LookUp(p, from, next)
        PROVE  \E rec : /\ proc' = [proc EXCEPT ![p] = rec]
                        /\ rec.pc \in {"record", "fold", "put"}
    <3>1. \E val, pc : /\ proc' = [proc EXCEPT ![p] = [from EXCEPT !.val = val, !.pc = pc]]
                       /\ pc \in {"record", "fold", "put"}
      BY <2>1 DEF LookUp
    <3>2. \A val, pc : [from EXCEPT !.val = val, !.pc = pc].pc = pc
      BY DEF ProcRec
    <3>3. PICK val, pc : /\ proc' = [proc EXCEPT ![p] = [from EXCEPT !.val = val, !.pc = pc]]
                         /\ pc \in {"record", "fold", "put"}
      BY <3>1
    <3> DEFINE rec == [from EXCEPT !.val = val, !.pc = pc]
    <3>4. proc' = [proc EXCEPT ![p] = rec] /\ rec.pc = pc
      BY <3>2, <3>3
    <3> HIDE DEF rec
    <3> QED
      BY <3>3, <3>4
  <2>2. ASSUME p \in Webhooks, WebhookStep(p)
        PROVE  \E rec : /\ proc' = [proc EXCEPT ![p] = rec]
                        /\ rec = Idle \/ rec.pc \in {"record", "timeline", "put"}
    <3>1. CASE PutCache(p)
      <4>1. proc' = [proc EXCEPT ![p] = [proc[p] EXCEPT !.pc = "record"]]
        BY <2>2, <3>1 DEF PutCache, Goto
      <4>2. [proc[p] EXCEPT !.pc = "record"].pc = "record"
        BY <1>1 DEF ProcRec
      <4> QED
        BY <4>1, <4>2
    <3>2. CASE JoinRows(p)
      <4>1. proc' = [proc EXCEPT ![p] = [proc[p] EXCEPT !.pc = "record", !.val = Phone]]
        BY <3>2 DEF JoinRows
      <4>2. [proc[p] EXCEPT !.pc = "record", !.val = Phone].pc = "record"
        BY <1>1 DEF ProcRec
      <4> QED
        BY <4>1, <4>2
    <3>3. CASE AliasFails(p)
      <4> DEFINE pc == IF cache = None THEN "put" ELSE "record"
      <4>1. proc' = [proc EXCEPT ![p] = [proc[p] EXCEPT !.val = Canonical(Lid), !.pc = pc]]
        BY <3>3 DEF AliasFails
      <4>2. [proc[p] EXCEPT !.val = Canonical(Lid), !.pc = pc].pc = pc
        BY <1>1 DEF ProcRec
      <4>3. pc \in {"put", "record"}
        OBVIOUS
      <4> HIDE DEF pc
      <4> QED
        BY <4>1, <4>2, <4>3
    <3>4. CASE Record(p)
      <4> DEFINE rec == IF Msg(proc[p].msg).me THEN [proc[p] EXCEPT !.pc = "timeline"] ELSE Idle
      <4>1. proc' = [proc EXCEPT ![p] = rec]
        BY <3>4 DEF Record
      <4>2. rec = Idle \/ rec.pc = "timeline"
        BY <1>1 DEF ProcRec
      <4> HIDE DEF rec
      <4> QED
        BY <4>1, <4>2
    <3>5. CASE AppendTimeline(p)
      BY <3>5 DEF AppendTimeline
    <3> QED
      BY <2>2, <3>1, <3>2, <3>3, <3>4, <3>5 DEF WebhookStep
  <2>3. ASSUME p \in Webhooks, NEW m \in sent, Deliver(p, m) \/ DeliverWithPair(p, m)
        PROVE  \E rec : /\ proc' = [proc EXCEPT ![p] = rec]
                        /\ rec.pc \in {"record", "fold", "put", "join"}
    <3>1. m.id \in Nat
      BY InvTypes DEF MsgRec
    <3>2. CASE Deliver(p, m) /\ m.jid = Phone
      <4>1. proc' = [proc EXCEPT ![p] = [Idle EXCEPT !.msg = m.id, !.val = Phone, !.pc = "record"]]
        BY <3>2 DEF Deliver
      <4>2. [Idle EXCEPT !.msg = m.id, !.val = Phone, !.pc = "record"].pc = "record"
        BY DEF Idle
      <4> QED
        BY <4>1, <4>2
    <3>3. CASE Deliver(p, m) /\ m.jid # Phone
      <4>1. LookUp(p, [Idle EXCEPT !.msg = m.id], "record")
        BY <3>3 DEF Deliver
      <4>2. [Idle EXCEPT !.msg = m.id] \in ProcRec
        BY <3>1, InvTypes DEF Idle, ProcRec
      <4> QED
        BY <2>1, <4>1, <4>2
    <3>4. CASE DeliverWithPair(p, m)
      <4>1. proc' = [proc EXCEPT ![p] = [Idle EXCEPT !.msg = m.id, !.pc = "join"]]
        BY <3>4 DEF DeliverWithPair
      <4>2. [Idle EXCEPT !.msg = m.id, !.pc = "join"].pc = "join"
        BY DEF Idle
      <4> QED
        BY <4>1, <4>2
    <3> QED
      BY <2>3, <3>2, <3>3, <3>4
  <2>4. ASSUME p \in Readers, ReaderStep(p)
        PROVE  \E rec : /\ proc' = [proc EXCEPT ![p] = rec]
                        /\ rec = Idle \/ rec.pc \in {"record", "fold", "put", "query"}
                             \/ (rec.pc = "ask" /\ QueryJudge(p))
    <3>1. CASE BeginRead(p) /\ row[Lid].there
      <4>1. LookUp(p, Idle, "fold")
        BY <3>1 DEF BeginRead
      <4> QED
        BY <1>2, <2>1, <4>1
    <3>2. CASE (BeginRead(p) /\ ~row[Lid].there) \/ Fold(p)
      <4>1. proc' = [proc EXCEPT ![p] = [proc[p] EXCEPT !.pc = "query"]]
        BY <3>2 DEF BeginRead, Fold, Goto
      <4>2. [proc[p] EXCEPT !.pc = "query"].pc = "query"
        BY <1>1 DEF ProcRec
      <4> QED
        BY <4>1, <4>2
    <3>3. CASE PutCache(p)
      <4>1. proc' = [proc EXCEPT ![p] = [proc[p] EXCEPT !.pc = "fold"]]
        BY <2>4, <3>3, ThreadsDiffer DEF PutCache, Goto
      <4>2. [proc[p] EXCEPT !.pc = "fold"].pc = "fold"
        BY <1>1 DEF ProcRec
      <4> QED
        BY <4>1, <4>2
    <3>4. CASE QueryJudge(p)
      <4>1. \E j : proc' = [proc EXCEPT ![p] = [Idle EXCEPT !.pc = "ask", !.val = j, !.msg = row[j].inId]]
        BY <3>4 DEF QueryJudge
      <4>2. \A j : [Idle EXCEPT !.pc = "ask", !.val = j, !.msg = row[j].inId].pc = "ask"
        BY DEF Idle
      <4> QED
        BY <3>4, <4>1, <4>2
    <3>5. CASE QueryList(p) \/ JudgeFails(p) \/ \E needs \in BOOLEAN : JudgeAnswers(p, needs)
      BY <3>5 DEF QueryList, JudgeFails, JudgeAnswers
    <3> QED
      BY <2>4, <3>1, <3>2, <3>3, <3>4, <3>5 DEF ReaderStep
  <2> QED
    BY <2>2, <2>3, <2>4, <1>2
<1> QED
  BY <1>1, <1>2, <1>3

LEMMA AsidesStep ==
    ASSUME ConvInv, Fits, Asides, Next
    PROVE  Asides'
<1>1. \A p \in Webhooks \cup Readers : proc'[p].pc = "idle" => proc'[p].msg = 0
  <2>1. CASE World
    BY <2>1 DEF World, Tick, CacheExpire, Write, UserIgnores, UserAcknowledges, Asides
  <2>2. ASSUME NEW w \in Webhooks, WebhookStep(w) \/ \E m \in sent : Deliver(w, m) \/ DeliverWithPair(w, m)
        PROVE  \A p \in Webhooks \cup Readers : proc'[p].pc = "idle" => proc'[p].msg = 0
    BY <2>2, ThreadStep, ThreadsDiffer DEF Asides
  <2>3. ASSUME NEW r \in Readers, ReaderStep(r)
        PROVE  \A p \in Webhooks \cup Readers : proc'[p].pc = "idle" => proc'[p].msg = 0
    BY <2>3, ThreadStep, ThreadsDiffer DEF Asides
  <2> QED
    BY <2>1, <2>2, <2>3 DEF Next
<1>2. DOMAIN timeline' = Jids /\ \A j \in Jids : OnceIn(timeline'[j])
  <2>1. CASE \E w \in Webhooks : AppendTimeline(w)
    <3>1. PICK w \in Webhooks : AppendTimeline(w)
      BY <2>1
    <3> DEFINE k == proc[w].val
               i == proc[w].msg
    <3>2. k \in Jids /\ i \in Ids
      <4>1. proc[w].pc = "timeline" /\ proc[w] \in ProcRec
        BY <3>1, InvTypes DEF AppendTimeline
      <4>2. i \in {m.id : m \in sent}
        BY <4>1 DEF ConvInv, InHand
      <4> QED
        BY <4>1, <4>2, SentFits DEF ProcRec
    <3>3. timeline' = [timeline EXCEPT ![k] =
                         IF i \in ToSet(timeline[k]) THEN timeline[k] ELSE Append(timeline[k], i)]
      BY <3>1 DEF AppendTimeline
    <3> HIDE DEF k, i
    <3>4. OnceIn(timeline[k]) /\ DOMAIN timeline = Jids
      BY <3>2 DEF Asides
    <3>5. i \notin ToSet(timeline[k]) => OnceIn(Append(timeline[k], i))
      BY <3>2, <3>4, JoinsOnce
    <3>6. OnceIn(timeline'[k]) /\ DOMAIN timeline' = Jids
          /\ \A j \in Jids \ {k} : timeline'[j] = timeline[j]
      BY <3>2, <3>3, <3>4, <3>5
    <3> QED
      BY <3>6 DEF Asides
  <2>2. CASE ~\E w \in Webhooks : AppendTimeline(w)
    <3>1. CASE World
      BY <3>1 DEF World, Tick, CacheExpire, Write, UserIgnores, UserAcknowledges, Asides
    <3>2. ASSUME NEW w \in Webhooks, WebhookStep(w) \/ \E m \in sent : Deliver(w, m) \/ DeliverWithPair(w, m)
          PROVE  timeline' = timeline
      BY <2>2, <3>2 DEF WebhookStep, PutCache, JoinRows, AliasFails, Record, Deliver, DeliverWithPair
    <3>3. ASSUME NEW r \in Readers, ReaderStep(r)
          PROVE  timeline' = timeline
      BY <3>3 DEF ReaderStep, BeginRead, PutCache, Fold, QueryList, QueryJudge, JudgeFails, JudgeAnswers
    <3> QED
      BY <3>1, <3>2, <3>3 DEF Next, Asides
  <2> QED
    BY <2>1, <2>2
<1>3. dismissed' \subseteq Jids \X (1..MaxTime)
  <2>1. CASE World
    <3>1. CASE \E j \in Jids, at \in Times(TRUE) : UserIgnores(<<j, at>>)
      <4>1. PICK j \in Jids, at \in Times(TRUE) : dismissed' = dismissed \cup {<<j, at>>}
        BY <3>1 DEF UserIgnores
      <4>2. at \in 1..MaxTime
        BY SentFits DEF Times
      <4> QED
        BY <4>1, <4>2 DEF Asides
    <3>2. CASE ~\E j \in Jids, at \in Times(TRUE) : UserIgnores(<<j, at>>)
      BY <2>1, <3>2 DEF World, Tick, CacheExpire, Write, UserAcknowledges, Asides
    <3> QED
      BY <3>1, <3>2
  <2>2. ASSUME NEW w \in Webhooks, WebhookStep(w) \/ \E m \in sent : Deliver(w, m) \/ DeliverWithPair(w, m)
        PROVE  dismissed' = dismissed
    BY <2>2 DEF WebhookStep, PutCache, JoinRows, AliasFails, Record, AppendTimeline, Deliver, DeliverWithPair
  <2>3. ASSUME NEW r \in Readers, ReaderStep(r)
        PROVE  dismissed' = dismissed
    BY <2>3 DEF ReaderStep, BeginRead, PutCache, Fold, QueryList, QueryJudge, JudgeFails, JudgeAnswers
  <2> QED
    BY <2>1, <2>2, <2>3 DEF Next, Asides
<1> QED
  BY <1>1, <1>2, <1>3 DEF Asides

LEMMA AskedStep ==
    ASSUME ConvInv, Asked, Next
    PROVE  Asked'
<1>1. recorded \subseteq recorded'
  <2>1. CASE World
    BY <2>1 DEF World, Tick, CacheExpire, Write, UserIgnores, UserAcknowledges, history
  <2>2. ASSUME NEW w \in Webhooks, WebhookStep(w) \/ \E m \in sent : Deliver(w, m) \/ DeliverWithPair(w, m)
        PROVE  recorded \subseteq recorded'
    BY <2>2 DEF WebhookStep, PutCache, JoinRows, AliasFails, Record, AppendTimeline, Deliver,
         DeliverWithPair, history
  <2>3. ASSUME NEW r \in Readers, ReaderStep(r)
        PROVE  recorded' = recorded
    BY <2>3 DEF ReaderStep, BeginRead, PutCache, Fold, QueryList, QueryJudge, JudgeFails,
         JudgeAnswers, history
  <2> QED
    BY <2>1, <2>2, <2>3 DEF Next
<1>2. saidNo' \subseteq recorded'
  <2>1. CASE World
    BY <1>1, <2>1 DEF World, Tick, CacheExpire, Write, UserIgnores, UserAcknowledges, history, Asked
  <2>2. ASSUME NEW w \in Webhooks, WebhookStep(w) \/ \E m \in sent : Deliver(w, m) \/ DeliverWithPair(w, m)
        PROVE  saidNo' = saidNo
    BY <2>2 DEF WebhookStep, PutCache, JoinRows, AliasFails, Record, AppendTimeline, Deliver,
         DeliverWithPair, history
  <2>3. ASSUME NEW r \in Readers, ReaderStep(r)
        PROVE  saidNo' \subseteq saidNo \cup recorded
    <3>1. ASSUME NEW needs \in BOOLEAN, JudgeAnswers(r, needs)
          PROVE  saidNo' \subseteq saidNo \cup recorded
      BY <3>1 DEF JudgeAnswers, Asked
    <3> QED
      BY <2>3, <3>1 DEF ReaderStep, BeginRead, PutCache, Fold, QueryList, QueryJudge, JudgeFails, history
  <2> QED
    BY <1>1, <2>1, <2>2, <2>3 DEF Next, Asked
<1>3. \A r \in Readers : proc'[r].pc = "ask" => proc'[r].msg \in recorded
  <2>1. CASE World
    BY <2>1 DEF World, Tick, CacheExpire, Write, UserIgnores, UserAcknowledges, Asked
  <2>2. ASSUME NEW w \in Webhooks, WebhookStep(w) \/ \E m \in sent : Deliver(w, m) \/ DeliverWithPair(w, m)
        PROVE  \A r \in Readers : proc'[r].pc = "ask" => proc'[r].msg \in recorded
    BY <2>2, ThreadStep, ThreadsDiffer DEF Asked
  <2>3. ASSUME NEW r \in Readers, ReaderStep(r)
        PROVE  \A u \in Readers : proc'[u].pc = "ask" => proc'[u].msg \in recorded
    <3>1. \A u \in Readers \ {r} : proc'[u] = proc[u]
      BY <2>3, ThreadStep, ThreadsDiffer
    <3>2. CASE QueryJudge(r)
      <4>1. PICK j \in ToJudge :
              proc' = [proc EXCEPT ![r] = [Idle EXCEPT !.pc = "ask", !.val = j, !.msg = row[j].inId]]
        BY <3>2 DEF QueryJudge
      <4>2. j \in Jids /\ row[j].inAt # 0
        BY <4>1 DEF ToJudge, Collapse, DebtCandidates, Aged
      <4>3. row[j].inId \in recorded
        BY <4>2 DEF ConvInv, Sound
      <4> DEFINE rec == [Idle EXCEPT !.pc = "ask", !.val = j, !.msg = row[j].inId]
      <4>4. rec.msg \in recorded
        BY <4>3 DEF Idle
      <4>5. proc' = [proc EXCEPT ![r] = rec]
        BY <4>1
      <4> HIDE DEF rec
      <4>6. proc'[r].msg \in recorded
        BY <4>4, <4>5, InvTypes
      <4> QED
        BY <3>1, <4>6 DEF Asked
    <3>3. CASE ~QueryJudge(r)
      <4>1. proc'[r].pc = "ask" => proc[r].pc = "ask"
        BY <2>3, <3>3, ThreadStep, ThreadsDiffer
      <4>2. proc[r].pc = "ask" => proc'[r].pc # "ask"
        <5>1. CASE proc[r].pc = "ask"
          <6>1. JudgeFails(r) \/ \E needs \in BOOLEAN : JudgeAnswers(r, needs)
            BY <2>3, <5>1 DEF ReaderStep, BeginRead, PutCache, Fold, QueryList, QueryJudge
          <6>2. proc' = [proc EXCEPT ![r] = Idle]
            BY <6>1 DEF JudgeFails, JudgeAnswers
          <6> QED
            BY <6>2, InvTypes DEF Idle
        <5> QED
          BY <5>1
      <4> QED
        BY <3>1, <4>1, <4>2 DEF Asked
    <3> QED
      BY <3>2, <3>3
  <2> QED
    BY <2>1, <2>2, <2>3 DEF Next
<1> QED
  BY <1>1, <1>2, <1>3 DEF Asked

LEMMA TypesStep == ConvInv /\ TypesInv /\ [Next]_vars => TypesInv'
<1> SUFFICES ASSUME ConvInv, TypesInv, [Next]_vars
             PROVE  TypesInv'
  OBVIOUS
<1>1. CASE Next
  <2>1. NamesIn(row, recorded)'
    BY <1>1, NamesStep DEF TypesInv
  <2> QED
    BY <1>1, <2>1, FitsStep, AsidesStep, AskedStep DEF TypesInv
<1>2. CASE UNCHANGED vars
  BY <1>2 DEF vars, history, TypesInv, Fits, NamesIn, Asides, Asked
<1> QED
  BY <1>1, <1>2

\* Every time and name the tables hold is one of a message that was written, a timeline
\* has a message once, and the judge has spoken only of recorded messages, for any number
\* of messages and threads.
THEOREM TypeCorrect == Spec => []TypeOK
<1>1. Init => ConvInv /\ TypesInv
  BY ConvInit, TypesInit
<1>2. ConvInv /\ TypesInv /\ [Next]_vars => (ConvInv /\ TypesInv)'
  BY ConvStep, TypesStep
<1>3. ConvInv /\ TypesInv => TypeOK
  BY TypesGive
<1> QED
  BY <1>1, <1>2, <1>3, PTL DEF Spec

----------------------------------------------------------------------------
\* The table of contacts and those who name them, Contacts, which the
\* conversations are shown with; a component of its own.
CONSTANTS
    Phones, Number, Lids, PhoneOf,       \* the jids, their numbers and the pairs
    Book, Entry,                         \* the address books and their entries
    UserName, Profile, MaxItems, MaxActs
VARIABLES registry, paired, import, tool, hook, asked, given, named, quiet, acts

Names == INSTANCE Contacts WITH Phone <- Phones, Lid <- Lids, rows <- registry

\* An address book has entries (an empty one is not imported), and no name is the
\* absence of one.
NamesSound ==
    /\ Book \in [DOMAIN Book -> Seq(Entry) \ {<< >>}]
    /\ Names!None \notin Names!Name

Labels == Profile \cup Names!Name \cup {Names!None, Names!Digits}
NamedRec == [label : Labels, display : Names!Name \cup {Names!None},
               source : {Names!None, "user", "agenda", "vcard"}, ignored : BOOLEAN]

TableTyped ==
    /\ DOMAIN registry \subseteq Names!Jid
    /\ \A j \in DOMAIN registry : registry[j] \in NamedRec

\* Who writes later holds a contact and a label.
HandsTyped ==
    /\ hook # Names!Idle => hook.label \in Labels
    /\ tool # Names!Idle => tool.label \in Labels
    /\ hook # Names!Idle => hook.jid \in Names!Jid
    /\ tool # Names!Idle => tool.jid \in Names!Jid
    /\ asked \subseteq Names!Jid /\ paired \subseteq Lids

\* An import is at an entry of a version of the book that was given.
ImportRuns ==
    import # Names!NoImport =>
        /\ import.book \in given /\ import.book \in DOMAIN Book
        /\ import.next \in 1..Len(Book[import.book])
        /\ import.source \in {"agenda", "vcard"}

\* What the user said is in the table.
UserHeard ==
    /\ \A j \in named : j \in DOMAIN registry /\ registry[j].source = "user"
    /\ \A j \in quiet : j \in DOMAIN registry /\ registry[j].ignored

ContactInv ==
    TableTyped /\ HandsTyped /\ ImportRuns /\ UserHeard /\ Names!RightPerson

\* Whether a row's name is right, for the versions of the book in a set.
NamedFrom(j, row_, books) ==
    row_.source \in {"agenda", "vcard"} =>
        \E b \in books :
            /\ \E i \in DOMAIN Book[b] : /\ Book[b][i].name = row_.display
                                         /\ \E p \in Book[b][i].phones : Names!SameLine(p, j)
            /\ \A i \in DOMAIN Book[b] :
                  (\E p \in Book[b][i].phones : Names!SameLine(p, j))
                      => Book[b][i].name = row_.display

\* What a step may do to the row of a contact: create it, or keep the name and who
\* gave it; or the user names it; or the book does, if the user has not.
KeepsName(j) ==
    /\ registry'[j].display = Names!Row(j).display
    /\ registry'[j].source = Names!Row(j).source
UserNames(j) ==
    /\ registry'[j].display \in UserName /\ registry'[j].source = "user"
    /\ tool.jid = j \/ j \in asked
BookNames(j) ==
    /\ Names!Row(j).source # "user"
    /\ NamedFrom(j, registry'[j], given)

RowStep(j) ==
    /\ registry'[j] \in NamedRec
    /\ KeepsName(j) \/ UserNames(j) \/ BookNames(j)

NamingStep ==
    /\ DOMAIN registry \subseteq DOMAIN registry' /\ DOMAIN registry' \subseteq Names!Jid
    /\ \A j \in DOMAIN registry' : RowStep(j)
    /\ given \subseteq given'
    /\ \A j \in named' : j \in named \/ (j \in DOMAIN registry' /\ registry'[j].source = "user")
    /\ \A j \in quiet' : j \in DOMAIN registry' /\ registry'[j].ignored

LEMMA NamingKeeps ==
    ASSUME NamesSound, ContactInv, NamingStep
    PROVE  TableTyped' /\ UserHeard' /\ Names!RightPerson' /\ Names!UserNamesStay
<1>1. \A j \in DOMAIN registry : Names!Row(j) = registry[j]
  BY DEF Names!Row
<1>2. \A j \in DOMAIN registry' \ DOMAIN registry : Names!Row(j).source = Names!None
  BY DEF Names!Row, Names!Blank
<1>3. TableTyped'
  BY DEF NamingStep, TableTyped, RowStep
<1>4. \A j \in named : /\ j \in DOMAIN registry /\ registry[j].source = "user"
                       /\ j \in DOMAIN registry' /\ ~BookNames(j)
                       /\ registry'[j].source = "user"
  BY <1>1 DEF ContactInv, UserHeard, NamingStep, RowStep, KeepsName, UserNames, BookNames
<1>5. UserHeard'
  BY <1>4 DEF NamingStep, UserHeard
<1>6. Names!UserNamesStay
  <2>1. ASSUME NEW j \in named, registry'[j].display # registry[j].display
        PROVE  UserNames(j)
    BY <1>1, <1>4, <2>1 DEF NamingStep, RowStep, KeepsName
  <2> QED
    BY <1>4, <2>1 DEF Names!UserNamesStay, UserNames
<1>7. ASSUME NEW j \in DOMAIN registry'
      PROVE  NamedFrom(j, registry'[j], given')
  <2>1. RowStep(j) /\ given \subseteq given'
    BY <1>7 DEF NamingStep
  <2>2. CASE KeepsName(j) /\ j \in DOMAIN registry
    <3>1. NamedFrom(j, registry[j], given)
      BY <2>2 DEF ContactInv, Names!RightPerson, NamedFrom
    <3> QED
      BY <1>1, <2>1, <2>2, <3>1 DEF KeepsName, NamedFrom
  <2>3. CASE KeepsName(j) /\ j \notin DOMAIN registry
    BY <1>2, <1>7, <2>3 DEF KeepsName, NamedFrom, Names!None
  <2>4. CASE UserNames(j)
    BY <2>4 DEF UserNames, NamedFrom
  <2>5. CASE BookNames(j)
    BY <2>1, <2>5 DEF BookNames, NamedFrom
  <2> QED
    BY <2>1, <2>2, <2>3, <2>4, <2>5 DEF RowStep
<1>8. Names!RightPerson'
  BY <1>7 DEF Names!RightPerson, NamedFrom
<1> QED
  BY <1>3, <1>5, <1>6, <1>8

\* A row that is written: the others stay.
LEMMA RowWritten ==
    ASSUME ContactInv, NEW j \in Names!Jid, NEW new, registry' = Names!With(j, new)
    PROVE  /\ DOMAIN registry' = DOMAIN registry \cup {j} /\ registry'[j] = new
           /\ DOMAIN registry' \subseteq Names!Jid
           /\ \A k \in DOMAIN registry : k # j =>
                 registry'[k] = registry[k] /\ RowStep(k)
<1>1. /\ DOMAIN registry' = DOMAIN registry \cup {j} /\ registry'[j] = new
      /\ \A k \in DOMAIN registry : k # j => registry'[k] = registry[k]
  BY DEF Names!With
<1> QED
  BY <1>1 DEF ContactInv, TableTyped, RowStep, KeepsName, Names!Row

\* A merge brings a label and a name, or leaves what was there.
LEMMA MergedIs ==
    ASSUME NamesSound, ContactInv, NEW j \in Names!Jid, NEW label \in Labels,
           NEW display \in Names!Name \cup {Names!None}, NEW source \in {"user", "agenda", "vcard", Names!None}
    PROVE  /\ Names!Row(j) \in NamedRec
           /\ Names!Merged(Names!Row(j), label, display, source) \in NamedRec
           /\ Names!Merged(Names!Row(j), label, display, source).ignored = Names!Row(j).ignored
           /\ display = Names!None =>
                 /\ Names!Merged(Names!Row(j), label, display, source).display = Names!Row(j).display
                 /\ Names!Merged(Names!Row(j), label, display, source).source = Names!Row(j).source
           /\ display # Names!None =>
                 /\ Names!Merged(Names!Row(j), label, display, source).display = display
                 /\ Names!Merged(Names!Row(j), label, display, source).source = source
<1>1. Names!Blank \in NamedRec
  BY DEF Names!Blank, NamedRec, Labels
<1>2. Names!Row(j) \in NamedRec
  BY <1>1 DEF Names!Row, ContactInv, TableTyped
<1> DEFINE r == Names!Row(j)
<1> HIDE DEF r
<1>3. r \in NamedRec
  BY <1>2 DEF r
<1>4. /\ r.label \in Labels /\ r.display \in Names!Name \cup {Names!None}
      /\ r.source \in {Names!None, "user", "agenda", "vcard"} /\ r.ignored \in BOOLEAN
  BY <1>3 DEF NamedRec
<1> QED
  BY <1>3, <1>4 DEF r, Names!Merged, NamedRec

\* The label of a contact that is shown is a label.
LEMMA LabelShown ==
    ASSUME ContactInv, NEW j \in Names!Jid
    PROVE  Names!EffectiveLabel(j) \in Labels
<1>1. \A k : Names!Row(k).display \in Labels /\ Names!Row(k).label \in Labels
  <2>1. Names!Blank \in NamedRec
    BY DEF Names!Blank, NamedRec, Labels
  <2>2. \A k : Names!Row(k) \in NamedRec
    BY <2>1 DEF ContactInv, TableTyped, Names!Row
  <2> QED
    BY <2>2 DEF NamedRec, Labels
<1>2. {Names!None, Names!Digits} \subseteq Labels
  BY DEF Labels
<1>3. Names!PairedLabel(j) \in Labels
  BY <1>1, <1>2 DEF Names!PairedLabel, Names!FirstOf
<1> QED
  BY <1>1, <1>2, <1>3 DEF Names!EffectiveLabel, Names!FirstOf

\* The label of a contact is written, by touch_contact or by the Evolution sync.
LEMMA LabelStep ==
    ASSUME NamesSound, ContactInv, NEW j \in Names!Jid, NEW label \in Labels,
           Names!Upsert(j, label, Names!None, Names!None), UNCHANGED <<given, named, quiet>>
    PROVE  NamingStep
<1>1. registry' = Names!With(j, Names!Merged(Names!Row(j), label, Names!None, Names!None))
  BY DEF Names!Upsert
<1> DEFINE new == Names!Merged(Names!Row(j), label, Names!None, Names!None)
<1>m. /\ new \in NamedRec /\ new.ignored = Names!Row(j).ignored
      /\ new.display = Names!Row(j).display /\ new.source = Names!Row(j).source
  BY MergedIs
<1>w. registry'[j] = new
  BY <1>1, RowWritten
<1>2. RowStep(j) /\ registry'[j].ignored = Names!Row(j).ignored
  <2> HIDE DEF new
  <2> QED
    BY <1>m, <1>w DEF RowStep, KeepsName
<1>3. \A k \in quiet : k \in DOMAIN registry' /\ registry'[k].ignored
  BY <1>1, <1>2, RowWritten DEF ContactInv, UserHeard, Names!Row
<1> QED
  BY <1>1, <1>2, <1>3, RowWritten DEF NamingStep

\* The user names a contact.
LEMMA AssignStep ==
    ASSUME NamesSound, ContactInv, NEW j \in Names!Jid, NEW label \in Labels, NEW name \in UserName,
           Names!Assign(j, label, name), UNCHANGED <<given, quiet>>, tool.jid = j \/ j \in asked
    PROVE  NamingStep
<1>1. /\ registry' = Names!With(j, Names!Merged(Names!Row(j), label, name, "user"))
      /\ named' = named \cup {j} /\ name \in Names!Name /\ name # Names!None
  BY DEF Names!Assign, Names!Upsert, Names!Name, NamesSound
<1> DEFINE new == Names!Merged(Names!Row(j), label, name, "user")
<1>m. /\ new \in NamedRec /\ new.ignored = Names!Row(j).ignored
      /\ new.display = name /\ new.source = "user"
  BY <1>1, MergedIs
<1>w. registry'[j] = new
  BY <1>1, RowWritten
<1>2. RowStep(j) /\ registry'[j].ignored = Names!Row(j).ignored /\ registry'[j].source = "user"
  <2> HIDE DEF new
  <2> QED
    BY <1>m, <1>w DEF RowStep, UserNames
<1>3. \A k \in quiet : k \in DOMAIN registry' /\ registry'[k].ignored
  BY <1>1, <1>2, RowWritten DEF ContactInv, UserHeard, Names!Row
<1> QED
  BY <1>1, <1>2, <1>3, RowWritten DEF NamingStep

\* The number that matched is of that very line, and no other entry has it under
\* another name.
LEMMA MatchIsRight ==
    ASSUME NamesSound, NEW b \in given, b \in DOMAIN Book, NEW i \in DOMAIN Book[b], NEW index,
           NEW j \in Names!Hits(index, Book[b][i]), ~Names!Ambiguous(Book[b], Book[b][i]),
           NEW new, new.display = Book[b][i].name
    PROVE  NamedFrom(j, new, given)
<1>1. PICK p \in Book[b][i].phones :
         Names!Key(p) = Names!Key(Number[j]) /\ Names!Compatible(p, j)
  BY DEF Names!Hits
<1>2. Names!SameLine(p, j)
  BY <1>1 DEF Names!SameLine, Names!Compatible, Names!Country
<1>3. ASSUME NEW k \in DOMAIN Book[b], NEW q \in Book[b][k].phones, Names!SameLine(q, j)
      PROVE  Book[b][k].name = Book[b][i].name
  <2>1. Names!Key(q) = Names!Key(p)
    BY <1>1, <1>3 DEF Names!SameLine
  <2>2. Names!Key(p) \in Names!Keys(Book[b][i]) /\ Names!Key(p) \in Names!Keys(Book[b][k])
    BY <2>1 DEF Names!Keys
  <2> QED
    BY <2>2 DEF Names!Ambiguous
<1> QED
  BY <1>2, <1>3 DEF NamedFrom

LEMMA EntryStep ==
    ASSUME NamesSound, ContactInv, Names!ImportEntry
    PROVE  NamingStep
<1> DEFINE b == import.book
           i == import.next
           entry == Book[b][i]
           hits == Names!Hits(import.index, entry)
<1>1. /\ b \in given /\ b \in DOMAIN Book /\ i \in DOMAIN Book[b]
      /\ import.source \in {"agenda", "vcard"}
  <2>1. b \in given /\ b \in DOMAIN Book /\ i \in 1..Len(Book[b]) /\ Book[b] \in Seq(Entry)
        /\ import.source \in {"agenda", "vcard"}
    BY DEF Names!ImportEntry, ContactInv, ImportRuns, NamesSound
  <2> QED
    BY <2>1
<1>2. UNCHANGED <<given, named, quiet>>
  BY DEF Names!ImportEntry
<1>3. ASSUME registry' = registry PROVE NamingStep
  BY <1>2, <1>3 DEF NamingStep, RowStep, KeepsName, ContactInv, TableTyped, UserHeard, Names!Row
<1>4. ASSUME NEW j \in hits, ~Names!Ambiguous(Book[b], entry), Names!StillOpen(j),
             Names!Upsert(j, Names!None, entry.name, import.source)
      PROVE  NamingStep
  <2>1. /\ registry' = Names!With(j, Names!Merged(Names!Row(j), Names!None, entry.name, import.source))
        /\ j \in Names!Jid /\ Names!None \in Labels
    BY <1>4 DEF Names!Upsert, Names!Hits, Names!Indexed, Names!Jid, Labels
  <2>2. entry.name \in Names!Name /\ entry.name # Names!None
    BY <1>1 DEF Names!Name, Names!AgendaName, NamesSound
  <2> DEFINE new == Names!Merged(Names!Row(j), Names!None, entry.name, import.source)
  <2>m. /\ new \in NamedRec /\ new.ignored = Names!Row(j).ignored
        /\ new.display = entry.name
    BY <1>1, <2>1, <2>2, MergedIs
  <2>w. registry'[j] = new
    BY <2>1, RowWritten
  <2>3. /\ registry'[j] \in NamedRec /\ registry'[j].ignored = Names!Row(j).ignored
        /\ registry'[j].display = entry.name
    <3> HIDE DEF new
    <3> QED
      BY <2>m, <2>w
  <2>4. NamedFrom(j, registry'[j], given)
    BY <1>1, <1>4, <2>3, MatchIsRight
  <2>5. Names!Row(j).source # "user"
    BY <1>4 DEF Names!StillOpen, Names!None
  <2>6. RowStep(j)
    BY <2>3, <2>4, <2>5 DEF RowStep, BookNames
  <2>7. \A k \in quiet : k \in DOMAIN registry' /\ registry'[k].ignored
    BY <2>1, <2>3, RowWritten DEF ContactInv, UserHeard, Names!Row
  <2> QED
    BY <1>2, <2>1, <2>6, <2>7, RowWritten DEF NamingStep
<1> QED
  BY <1>3, <1>4 DEF Names!ImportEntry

LEMMA ContactTable ==
    ASSUME NamesSound, ContactInv, [Names!Next]_Names!vars
    PROVE  NamingStep
<1>1. ASSUME UNCHANGED <<registry, named>>, given \subseteq given', quiet' \subseteq quiet
      PROVE  NamingStep
  BY <1>1 DEF NamingStep, RowStep, KeepsName, ContactInv, TableTyped, UserHeard, Names!Row
<1>2. ASSUME NEW j \in Names!Jid, NEW label \in Profile \cup {Names!None}, Names!TouchReads(j, label)
      PROVE  NamingStep
  BY <1>1, <1>2 DEF Names!TouchReads
<1>3. CASE Names!TouchWrites
  BY <1>3, LabelStep DEF Names!TouchWrites, ContactInv, HandsTyped
<1>4. ASSUME NEW j \in Names!Jid, NEW label \in Profile \cup {Names!Digits}, Names!SyncLabel(j, label)
      PROVE  NamingStep
  BY <1>4, LabelStep DEF Names!SyncLabel, Labels
<1>5. ASSUME NEW l \in Lids, Names!LearnPair(l) PROVE NamingStep
  BY <1>1, <1>5 DEF Names!LearnPair
<1>6. ASSUME NEW b \in DOMAIN Book, Names!Sync(b) \/ Names!ImportVcard(b) PROVE NamingStep
  BY <1>1, <1>6 DEF Names!Sync, Names!ImportVcard, Names!StartImport
<1>7. CASE Names!ImportEntry
  BY <1>7, EntryStep
<1>8. CASE Names!ImportStops
  BY <1>1, <1>8 DEF Names!ImportStops
<1>9. ASSUME NEW j \in Names!Jid, Names!ToolFinds(j) PROVE NamingStep
  BY <1>1, <1>9 DEF Names!ToolFinds
<1>10. ASSUME NEW name \in UserName, Names!ToolNames(name) PROVE NamingStep
  BY <1>10, AssignStep DEF Names!ToolNames, ContactInv, HandsTyped
<1>11. ASSUME NEW active \in SUBSET Names!Jid, Names!Ask(active) PROVE NamingStep
  BY <1>1, <1>11 DEF Names!Ask
<1>12. ASSUME NEW j \in asked, NEW name \in UserName, Names!NameReply(j, name) PROVE NamingStep
  <2>1. j \in Names!Jid /\ Names!None \in Labels
    BY DEF ContactInv, HandsTyped, Labels
  <2> QED
    BY <1>12, <2>1, AssignStep DEF Names!NameReply
<1>13. ASSUME NEW j \in asked, Names!IgnoreReply(j) PROVE NamingStep
  <2>1. j \in Names!Jid /\ Names!None \in Labels
    BY DEF ContactInv, HandsTyped, Labels
  <2>2. registry' = Names!With(j, [Names!Row(j) EXCEPT !.ignored = TRUE])
        /\ quiet' = quiet \cup {j} /\ UNCHANGED <<given, named>>
    BY <1>13 DEF Names!IgnoreReply
  <2>3. Names!Row(j) \in NamedRec
    BY <2>1, MergedIs
  <2>4. registry'[j] = [Names!Row(j) EXCEPT !.ignored = TRUE]
    BY <2>1, <2>2, RowWritten
  <2>5. RowStep(j) /\ registry'[j].ignored
    BY <2>3, <2>4 DEF RowStep, KeepsName, NamedRec
  <2>6. \A k \in quiet' : k \in DOMAIN registry' /\ registry'[k].ignored
    BY <2>1, <2>2, <2>5, RowWritten DEF ContactInv, UserHeard
  <2> QED
    BY <2>1, <2>2, <2>5, <2>6, RowWritten DEF NamingStep
<1>14. ASSUME NEW j \in Names!Jid, Names!IgnoreEnds(j) PROVE NamingStep
  <2>1. /\ j \in DOMAIN registry /\ registry' = [registry EXCEPT ![j].ignored = FALSE]
        /\ quiet' = quiet \ {j} /\ UNCHANGED <<given, named>>
    BY <1>14 DEF Names!IgnoreEnds
  <2>2. DOMAIN registry' = DOMAIN registry
        /\ registry'[j] = [registry[j] EXCEPT !.ignored = FALSE]
        /\ \A k \in DOMAIN registry : k # j => registry'[k] = registry[k]
    BY <2>1
  <2>3. registry[j] \in NamedRec /\ Names!Row(j) = registry[j]
    BY <2>1 DEF ContactInv, TableTyped, Names!Row
  <2>4. RowStep(j)
    BY <2>2, <2>3 DEF RowStep, KeepsName, NamedRec
  <2>5. \A k \in DOMAIN registry : k # j => RowStep(k)
    BY <2>2 DEF RowStep, KeepsName, Names!Row, ContactInv, TableTyped
  <2> QED
    BY <2>1, <2>2, <2>4, <2>5 DEF NamingStep, ContactInv, TableTyped, UserHeard
<1>15. CASE UNCHANGED Names!vars
  BY <1>1, <1>15 DEF Names!vars
<1> QED
  BY <1>2, <1>3, <1>4, <1>5, <1>6, <1>7, <1>8, <1>9, <1>10, <1>11, <1>12, <1>13, <1>14, <1>15
     DEF Names!Next

\* What the import, the tool, the hook and the question hold.
LEMMA ContactHands ==
    ASSUME NamesSound, ContactInv, [Names!Next]_Names!vars
    PROVE  HandsTyped' /\ ImportRuns'
<1>1. ASSUME UNCHANGED <<import, given>> PROVE ImportRuns'
  BY <1>1 DEF ContactInv, ImportRuns
<1>p. paired' \subseteq Lids
  BY DEF ContactInv, HandsTyped, Names!Next, Names!vars, Names!TouchReads, Names!TouchWrites,
         Names!SyncLabel, Names!LearnPair, Names!Sync, Names!ImportVcard, Names!StartImport,
         Names!ImportEntry, Names!ImportStops, Names!ToolFinds, Names!ToolNames, Names!Ask,
         Names!NameReply, Names!IgnoreReply, Names!IgnoreEnds
<1>2. ASSUME UNCHANGED <<hook, tool, asked>> PROVE HandsTyped'
  BY <1>2, <1>p DEF ContactInv, HandsTyped
<1>3. ASSUME NEW j \in Names!Jid, NEW label \in Profile \cup {Names!None}, Names!TouchReads(j, label)
      PROVE  HandsTyped' /\ ImportRuns'
  <2>1. PICK wanted \in {label, Names!None} : hook' = [jid |-> j, label |-> wanted]
    BY <1>3 DEF Names!TouchReads
  <2>2. hook'.jid \in Names!Jid /\ hook'.label \in Labels
    BY <2>1 DEF Labels
  <2> QED
    BY <1>1, <1>3, <2>2 DEF Names!TouchReads, ContactInv, HandsTyped
<1>4. CASE Names!TouchWrites \/ \E name \in UserName : Names!ToolNames(name)
  BY <1>1, <1>4 DEF Names!TouchWrites, Names!ToolNames, ContactInv, HandsTyped
<1>5. CASE \/ \E j \in Names!Jid, label \in Profile \cup {Names!Digits} : Names!SyncLabel(j, label)
           \/ \E l \in Lids : Names!LearnPair(l)
           \/ \E j \in Names!Jid : Names!IgnoreEnds(j)
           \/ \E j \in asked : Names!IgnoreReply(j)
           \/ \E j \in asked, name \in UserName : Names!NameReply(j, name)
           \/ UNCHANGED Names!vars
  <2>1. UNCHANGED <<import, given, hook, tool, asked>>
    BY <1>5 DEF Names!SyncLabel, Names!LearnPair, Names!IgnoreEnds, Names!IgnoreReply,
                Names!NameReply, Names!vars
  <2> QED
    BY <1>1, <1>2, <2>1
<1>6. ASSUME NEW b \in DOMAIN Book, NEW source \in {"agenda", "vcard"}, Names!StartImport(b, source)
      PROVE  HandsTyped' /\ ImportRuns'
  <2>1. /\ import'.book = b /\ import'.next = 1 /\ import'.source = source
        /\ given' = given \cup {b} /\ UNCHANGED <<hook, tool, asked>>
    BY <1>6 DEF Names!StartImport
  <2>2. 1 \in 1..Len(Book[b])
    BY DEF NamesSound
  <2> QED
    BY <1>2, <2>1, <2>2 DEF ImportRuns
<1>7. CASE Names!ImportEntry
  <2>1. UNCHANGED <<hook, tool, asked, given>>
    BY <1>7 DEF Names!ImportEntry
  <2>2. /\ import # Names!NoImport
        /\ import' = IF import.next < Len(Book[import.book])
                     THEN [import EXCEPT !.next = @ + 1] ELSE Names!NoImport
    BY <1>7 DEF Names!ImportEntry
  <2>3. Len(Book[import.book]) \in Nat /\ import.next \in 1..Len(Book[import.book])
    BY <2>2 DEF ContactInv, ImportRuns, NamesSound
  <2>4. ASSUME import' # Names!NoImport
        PROVE  /\ import'.book = import.book /\ import'.source = import.source
               /\ import'.next \in 1..Len(Book[import.book])
    BY <2>2, <2>3, <2>4
  <2> QED
    BY <1>2, <2>1, <2>2, <2>4 DEF ContactInv, ImportRuns
<1>8. CASE Names!ImportStops
  BY <1>2, <1>8 DEF Names!ImportStops, ImportRuns
<1>9. ASSUME NEW j \in Names!Jid, Names!ToolFinds(j)
      PROVE  HandsTyped' /\ ImportRuns'
  <2>1. tool'.jid \in Names!Jid /\ tool'.label \in Labels
    BY <1>9, LabelShown DEF Names!ToolFinds
  <2> QED
    BY <1>1, <1>9, <2>1 DEF Names!ToolFinds, ContactInv, HandsTyped
<1>10. ASSUME NEW active \in SUBSET Names!Jid, Names!Ask(active)
       PROVE  HandsTyped' /\ ImportRuns'
  <2>1. asked' \subseteq active
    BY <1>10 DEF Names!Ask, Names!Questions, Names!Unnamed
  <2> QED
    BY <1>1, <1>10, <2>1 DEF Names!Ask, ContactInv, HandsTyped
<1> QED
  BY <1>3, <1>4, <1>5, <1>6, <1>7, <1>8, <1>9, <1>10
  DEF Names!Next, Names!Sync, Names!ImportVcard

\* Whom the next question leaves out follows from what the user said.
LEMMA QuestionIsNew ==
    ASSUME NamesSound, ContactInv
    PROVE  Names!AsksOnlyAboutUnknown
<1> SUFFICES ASSUME NEW active \in SUBSET Names!Jid, Names!Ask(active), NEW j \in asked'
             PROVE  /\ j \notin named \cup quiet
                    /\ \A l \in paired : PhoneOf[l] = j => l \notin named
  BY DEF Names!AsksOnlyAboutUnknown
<1>1. j \in Names!Unnamed(active)
  BY DEF Names!Ask, Names!Questions
<1>2. /\ j \in DOMAIN registry /\ ~Names!HasName(registry[j]) /\ ~registry[j].ignored
      /\ \A l \in Names!LidsOf(j) \cap DOMAIN registry : ~Names!HasName(registry[l])
  BY <1>1 DEF Names!Unnamed
<1>3. \A k \in named : k \in DOMAIN registry /\ Names!HasName(registry[k])
  BY DEF ContactInv, UserHeard, Names!HasName, Names!None
<1>4. \A l \in paired : l \in Lids /\ PhoneOf[l] = j => l \in Names!LidsOf(j)
  BY DEF Names!LidsOf, Names!Direct
<1>5. paired \subseteq Lids
  BY DEF ContactInv, HandsTyped
<1> QED
  BY <1>2, <1>3, <1>4, <1>5 DEF ContactInv, UserHeard

\* Whoever overlaps - messages, the import that reads the table first, the tool, the
\* weekly question - a name from the address book is that of its line (apply_entries),
\* a name the user gave stays until he gives another (upsert_whatsapp_contact), and he
\* is not asked for a name he gave or declined to give (unnamed_candidates).
THEOREM NamesRightAlways == ASSUME NamesSound PROVE Names!Spec => Names!NamesRight
<1>1. Names!Init => ContactInv
  BY DEF Names!Init, ContactInv, TableTyped, HandsTyped, ImportRuns, UserHeard, Names!RightPerson
<1>2. ContactInv /\ [Names!Next]_Names!vars => ContactInv' /\ Names!UserNamesStay
  BY ContactTable, ContactHands, NamingKeeps DEF ContactInv
<1>3. ContactInv => Names!RightPerson
  BY DEF ContactInv
<1>4. ContactInv /\ [Names!Next]_Names!vars
        => [Names!UserNamesStay /\ Names!AsksOnlyAboutUnknown]_Names!vars
  BY <1>2, QuestionIsNew
<1> QED
  BY <1>1, <1>2, <1>3, <1>4, PTL DEF Names!Spec, Names!NamesRight
=============================================================================
