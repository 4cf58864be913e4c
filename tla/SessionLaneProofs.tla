-------------------------- MODULE SessionLaneProofs -------------------------
(* The session lane, for any number of sessions, threads and lock objects   *)
(* and any limit of the registry: two turns of a session overlap only where *)
(* a lock was dropped between its lookup and its acquisition.  And the chat *)
(* those turns serve: no update is lost, repeated or left without its reply *)
(* but by the faults that excuse it.                                        *)
EXTENDS SessionLane, WellFoundedInduction, SequenceTheorems, TLAPS

\* What the theorems take of the constants: some session, and a number of locks.
ConstantsSound == Session # {} /\ MaxLocks \in Nat

\* A registry whose locks are among the first n made, one entry a session and a lock.
Registry(q, n) ==
    /\ q \in Seq([session : Session, lock : 1..n])
    /\ \A j, k \in DOMAIN q : q[j].session = q[k].session => j = k
    /\ \A j, k \in DOMAIN q : q[j].lock = q[k].lock => j = k

Shape ==
    /\ made \in 0..MaxLocks
    /\ Registry(lanes, made)
    /\ pc \in [Thread -> {"idle", "wait", "turn"}]
    /\ session \in [Thread -> Session]
    /\ lock \in [Thread -> 0..made]
    /\ lost \subseteq 1..made
    /\ \A t \in Thread : pc[t] # "idle" => lock[t] # 0

\* A lock that was not dropped from the hands of its thread is its session's entry.
Entered ==
    \A t \in Thread : pc[t] # "idle" /\ lock[t] \notin lost =>
        \E k \in DOMAIN lanes : lanes[k].session = session[t] /\ lanes[k].lock = lock[t]

\* A lock is held by one thread.
Exclusive == \A t, u \in Thread : pc[t] = "turn" /\ pc[u] = "turn" /\ lock[t] = lock[u] => t = u

LaneInv == Shape /\ Entered /\ Exclusive

----------------------------------------------------------------------------
(* The registry.                                                           *)

\* A sequence over a set is one over a larger set.
LEMMA SeqOver ==
    ASSUME NEW K, NEW L, K \subseteq L, NEW q \in Seq(K)
    PROVE  q \in Seq(L)
<1>1. q \in [1..Len(q) -> K] /\ Len(q) \in Nat
  BY LenProperties
<1>2. q \in [1..Len(q) -> L]
  BY <1>1
<1> QED
  BY <1>1, <1>2

\* A set of natural numbers below a bound has a greatest one.
LEMMA Greatest ==
    ASSUME NEW n \in Nat, NEW S, S # {}, \A x \in S : x \in Nat /\ x <= n
    PROVE  \E x \in S : \A y \in S : y <= x
<1> DEFINE T == {n - x : x \in S}
           R == {ss \in Nat \X Nat : ss[1] < ss[2]}
<1>1. \A x \in S : n - x \in Nat
  OBVIOUS
<1>2. T \subseteq Nat /\ T # {}
  BY <1>1
<1>3. IsWellFoundedOn(R, Nat)
  BY NatLessThanWellFounded DEF OpToRel
<1> HIDE DEF T, R
<1>4. PICK m \in T : \A k \in T : <<k, m>> \notin R
  BY <1>2, <1>3, WFMin
<1>5. \A k \in T : k \in Nat /\ m \in Nat /\ ~(k < m)
  BY <1>2, <1>4 DEF R
<1>6. PICK x \in S : m = n - x
  BY DEF T
<1>7. ASSUME NEW y \in S
      PROVE  y <= x
  <2>1. n - y \in T
    BY DEF T
  <2>2. ~(n - y < n - x)
    BY <1>5, <1>6, <2>1
  <2>3. x \in Nat /\ y \in Nat
    OBVIOUS
  <2> QED
    BY <2>2, <2>3
<1> QED
  BY <1>7

\* What is left of a sequence without its first d elements.
LEMMA RestOf ==
    ASSUME NEW S, NEW q \in Seq(S), NEW d \in 0..Len(q)
    PROVE  LET r == SubSeq(q, d + 1, Len(q)) IN
             /\ r \in Seq(S) /\ DOMAIN r = 1..(Len(q) - d)
             /\ \A k \in 1..(Len(q) - d) : d + k \in 1..Len(q) /\ r[k] = q[d + k]
<1> DEFINE n == Len(q)
           r == SubSeq(q, d + 1, n)
<1>1. n \in Nat /\ DOMAIN q = 1..n /\ \A i \in 1..n : q[i] \in S
  BY LenProperties, ElementOfSeq
<1> HIDE DEF n
<1>2. d \in Nat /\ d <= n
  BY <1>1 DEF n
<1>3. d + 1 \in Int /\ n \in Int /\ \A i \in (d + 1)..n : q[i] \in S
  BY <1>1, <1>2
<1>4. /\ r \in Seq(S)
      /\ Len(r) = IF d + 1 <= n THEN n - (d + 1) + 1 ELSE 0
      /\ \A i \in 1..(n - (d + 1) + 1) : r[i] = q[(d + 1) + i - 1]
  BY <1>3, SubSeqProperties
<1>5. DOMAIN r = 1..Len(r)
  BY <1>4, LenProperties
<1> HIDE DEF r
<1>6. Len(r) = n - d
  BY <1>1, <1>2, <1>4
<1>7. ASSUME NEW k \in 1..(n - d)
      PROVE  d + k \in 1..n /\ r[k] = q[d + k]
  <2>1. k \in 1..(n - (d + 1) + 1) /\ (d + 1) + k - 1 = d + k
    BY <1>1, <1>2
  <2> QED
    BY <1>1, <1>2, <1>4, <2>1
<1>8. /\ r \in Seq(S) /\ DOMAIN r = 1..(n - d)
      /\ \A k \in 1..(n - d) : d + k \in 1..n /\ r[k] = q[d + k]
  BY <1>4, <1>5, <1>6, <1>7
<1> QED
  BY <1>8 DEF n, r

\* A sequence with element p moved to its end.
LEMMA ToTheEnd ==
    ASSUME NEW S, NEW q \in Seq(S), NEW p \in 1..Len(q)
    PROVE  LET r == Append(RemoveAt(q, p), q[p]) IN
             /\ r \in Seq(S) /\ DOMAIN r = 1..Len(q)
             /\ \A i \in 1..Len(q) :
                  r[i] = IF i < p THEN q[i] ELSE IF i < Len(q) THEN q[i + 1] ELSE q[p]
<1> DEFINE n == Len(q)
           a == SubSeq(q, 1, p - 1)
           b == SubSeq(q, p + 1, n)
           o == a \o b
           r == Append(o, q[p])
<1>1. n \in Nat /\ \A i \in 1..n : q[i] \in S
  BY LenProperties, ElementOfSeq
<1>2. p \in 1..n
  OBVIOUS
<1> HIDE DEF n
<1>3. p \in Nat /\ p >= 1 /\ p <= n
  BY <1>1, <1>2
<1>4. a \in Seq(S) /\ Len(a) = p - 1 /\ \A i \in 1..(p - 1) : a[i] = q[i]
  <2>1. 1 \in Int /\ p - 1 \in Int /\ \A i \in 1..(p - 1) : q[i] \in S
    BY <1>1, <1>3
  <2>2. /\ a \in Seq(S) /\ Len(a) = IF 1 <= p - 1 THEN p - 1 - 1 + 1 ELSE 0
        /\ \A i \in 1..(p - 1 - 1 + 1) : a[i] = q[1 + i - 1]
    BY <2>1, SubSeqProperties
  <2> HIDE DEF a
  <2>3. Len(a) = p - 1
    BY <1>3, <2>2
  <2>4. \A i \in 1..(p - 1) : i \in 1..(p - 1 - 1 + 1) /\ 1 + i - 1 = i
    BY <1>3
  <2> QED
    BY <2>2, <2>3, <2>4
<1>5. b \in Seq(S) /\ Len(b) = n - p /\ \A i \in 1..(n - p) : b[i] = q[p + i]
  <2>1. p + 1 \in Int /\ n \in Int /\ \A i \in (p + 1)..n : q[i] \in S
    BY <1>1, <1>3
  <2>2. /\ b \in Seq(S) /\ Len(b) = IF p + 1 <= n THEN n - (p + 1) + 1 ELSE 0
        /\ \A i \in 1..(n - (p + 1) + 1) : b[i] = q[(p + 1) + i - 1]
    BY <2>1, SubSeqProperties
  <2> HIDE DEF b
  <2>3. Len(b) = n - p
    BY <1>1, <1>3, <2>2
  <2>4. \A i \in 1..(n - p) : i \in 1..(n - (p + 1) + 1) /\ (p + 1) + i - 1 = p + i
    BY <1>1, <1>3
  <2> QED
    BY <2>2, <2>3, <2>4
<1> HIDE DEF a, b
<1>6. /\ o \in Seq(S) /\ Len(o) = Len(a) + Len(b)
      /\ \A i \in 1..(Len(a) + Len(b)) : o[i] = IF i <= Len(a) THEN a[i] ELSE b[i - Len(a)]
  BY <1>4, <1>5, ConcatProperties
<1> HIDE DEF o
<1>7. Len(o) = n - 1
  BY <1>1, <1>3, <1>4, <1>5, <1>6
<1>8. ASSUME NEW i \in 1..(n - 1)
      PROVE  o[i] = IF i < p THEN q[i] ELSE q[i + 1]
  <2>1. i \in 1..(Len(a) + Len(b))
    BY <1>1, <1>3, <1>4, <1>5
  <2>2. CASE i < p
    <3>1. i <= Len(a) /\ i \in 1..(p - 1)
      BY <1>3, <1>4, <2>2
    <3> QED
      BY <1>4, <1>6, <2>1, <2>2, <3>1
  <2>3. CASE ~(i < p)
    <3>1. ~(i <= Len(a)) /\ i - Len(a) \in 1..(n - p) /\ p + (i - Len(a)) = i + 1
      BY <1>1, <1>3, <1>4, <2>3
    <3> QED
      BY <1>5, <1>6, <2>1, <2>3, <3>1
  <2> QED
    BY <2>2, <2>3
<1>9. q[p] \in S
  BY <1>1, <1>2
<1>10. /\ r \in Seq(S) /\ Len(r) = Len(o) + 1
       /\ \A i \in 1..Len(o) : r[i] = o[i]
       /\ r[Len(o) + 1] = q[p]
  BY <1>6, <1>9, AppendProperties
<1>11. DOMAIN r = 1..Len(r)
  BY <1>10, LenProperties
<1> HIDE DEF r
<1>12. Len(r) = n
  BY <1>1, <1>7, <1>10
<1>13. ASSUME NEW i \in 1..n
       PROVE  r[i] = IF i < p THEN q[i] ELSE IF i < n THEN q[i + 1] ELSE q[p]
  <2>1. CASE i < n
    <3>1. i \in 1..(n - 1)
      BY <1>1, <2>1
    <3> QED
      BY <1>7, <1>8, <1>10, <2>1, <3>1
  <2>2. CASE i = n
    <3>1. i = Len(o) + 1 /\ ~(i < p) /\ ~(i < n)
      BY <1>1, <1>3, <1>7, <2>2
    <3> QED
      BY <1>10, <3>1
  <2> QED
    BY <1>1, <2>1, <2>2
<1>14. RemoveAt(q, p) = o
  BY DEF RemoveAt, o, a, b, n
<1> QED
  BY <1>10, <1>11, <1>12, <1>13, <1>14 DEF r, n

\* The eviction keeps a registry one, adds nothing to it, and keeps the entry of the
\* session asked for and every held lock.
LEMMA EvictedKeeps ==
    ASSUME NEW n \in Nat, NEW q, Registry(q, n), NEW s
    PROVE  /\ Registry(Evicted(q, s), n)
           /\ \A k \in DOMAIN Evicted(q, s) : \E i \in DOMAIN q : Evicted(q, s)[k] = q[i]
           /\ \A i \in DOMAIN q : q[i].session = s \/ Locked(q[i].lock) =>
                \E k \in DOMAIN Evicted(q, s) : Evicted(q, s)[k] = q[i]
<1> DEFINE L == [session : Session, lock : 1..n]
           Droppable(k) == q[k].session # s /\ ~Locked(q[k].lock)
           dropped == {d \in 0..Len(q) :
                         /\ d = 0 \/ d <= Len(q) - Limit
                         /\ \A k \in 1..d : Droppable(k)}
           d == CHOOSE e \in dropped : \A m \in dropped : m <= e
           r == SubSeq(q, d + 1, Len(q))
<1>1. q \in Seq(L) /\ Len(q) \in Nat /\ DOMAIN q = 1..Len(q)
  BY DEF Registry
<1>2. dropped \in SUBSET (0..Len(q)) /\ 0 \in dropped
  BY <1>1
<1> HIDE DEF dropped
<1>3. \E x \in dropped : \A y \in dropped : y <= x
  <2>1. dropped # {} /\ \A x \in dropped : x \in Nat /\ x <= Len(q)
    BY <1>1, <1>2
  <2> QED
    BY ONLY <1>1, <2>1, Greatest
<1>4. d \in dropped
  BY <1>3
<1>5. d \in 0..Len(q) /\ \A k \in 1..d : Droppable(k)
  BY <1>4 DEF dropped
<1>6. Evicted(q, s) = r
  BY DEF Evicted, dropped
<1> HIDE DEF d
<1>7. /\ r \in Seq(L) /\ DOMAIN r = 1..(Len(q) - d)
      /\ \A k \in 1..(Len(q) - d) : d + k \in 1..Len(q) /\ r[k] = q[d + k]
  BY <1>1, <1>5, RestOf
<1> HIDE DEF r, L
<1>8. \A k \in DOMAIN r : d + k \in DOMAIN q /\ r[k] = q[d + k]
  BY <1>1, <1>7
<1>9. Registry(r, n)
  <2>1. ASSUME NEW j \in DOMAIN r, NEW k \in DOMAIN r,
               r[j].session = r[k].session \/ r[j].lock = r[k].lock
        PROVE  j = k
    <3>1. /\ d + j \in DOMAIN q /\ r[j] = q[d + j]
          /\ d + k \in DOMAIN q /\ r[k] = q[d + k]
      BY <1>8
    <3>2. d + j = d + k
      BY <2>1, <3>1 DEF Registry
    <3>3. j \in Int /\ k \in Int /\ d \in Int
      BY <1>1, <1>5, <1>7
    <3> QED
      BY ONLY <3>2, <3>3
  <2> QED
    BY <1>7, <2>1 DEF Registry, L
<1>10. ASSUME NEW i \in DOMAIN q, q[i].session = s \/ Locked(q[i].lock)
       PROVE  \E k \in DOMAIN r : r[k] = q[i]
  <2>1. i \notin 1..d
    BY <1>5, <1>10
  <2>2. i - d \in DOMAIN r /\ d + (i - d) = i
    BY <1>1, <1>5, <1>7, <2>1
  <2> QED
    BY <1>8, <2>2
<1> QED
  BY <1>6, <1>8, <1>9, <1>10

\* The entry of a session asked for again moves to the end.
LEMMA MovedToEnd ==
    ASSUME NEW n \in Nat, Registry(lanes, n), NEW s \in Session, Known(s)
    PROVE  LET q == Append(Others(s), Entry(s)) IN
             /\ Registry(q, n)
             /\ Entry(s).session = s /\ Entry(s).lock \in 1..n
             /\ \E i \in DOMAIN q : q[i] = Entry(s)
             /\ \A k \in DOMAIN lanes : \E i \in DOMAIN q : q[i] = lanes[k]
             /\ \A i \in DOMAIN q : \E k \in DOMAIN lanes : q[i] = lanes[k]
<1> DEFINE L == [session : Session, lock : 1..n]
           p == Place(s)
           m == Len(lanes)
           q == Append(Others(s), Entry(s))
           from(i) == IF i < p THEN i ELSE IF i < m THEN i + 1 ELSE p
<1>1. lanes \in Seq(L) /\ m \in Nat /\ DOMAIN lanes = 1..m
  BY LenProperties DEF Registry
<1>2. p \in 1..m /\ lanes[p].session = s
  BY <1>1 DEF Known, Place
<1>3. lanes[p] = Entry(s) /\ lanes[p] \in L
  BY <1>1, <1>2, ElementOfSeq DEF Entry
<1>4. Entry(s).session = s /\ Entry(s).lock \in 1..n
  BY <1>2, <1>3
<1>5. /\ q \in Seq(L) /\ DOMAIN q = 1..m
      /\ \A i \in 1..m : q[i] = IF i < p THEN lanes[i] ELSE IF i < m THEN lanes[i + 1] ELSE lanes[p]
  <2> DEFINE r == Append(RemoveAt(lanes, p), lanes[p])
  <2>1. q = r
    BY <1>3 DEF Others
  <2>2. /\ r \in Seq(L) /\ DOMAIN r = 1..m
        /\ \A i \in 1..m : r[i] = IF i < p THEN lanes[i] ELSE IF i < m THEN lanes[i + 1] ELSE lanes[p]
    BY <1>1, <1>2, ToTheEnd
  <2> HIDE DEF r, q, p, m, L
  <2> QED
    BY <2>1, <2>2
<1> HIDE DEF q, p, m, L
<1>6. \A i \in 1..m : from(i) \in 1..m /\ q[i] = lanes[from(i)]
  BY <1>1, <1>2, <1>5
<1>7. \A i, j \in 1..m : from(i) = from(j) => i = j
  BY <1>1, <1>2
<1>8. \A k \in 1..m : \E i \in 1..m : from(i) = k
  <2> SUFFICES ASSUME NEW k \in 1..m
               PROVE  \E i \in 1..m : from(i) = k
    OBVIOUS
  <2>1. CASE k < p
    <3>1. from(k) = k
      BY <2>1
    <3> QED
      BY <3>1
  <2>2. CASE k = p
    <3>1. m \in 1..m /\ from(m) = k
      BY <1>1, <1>2, <2>2
    <3> QED
      BY <3>1
  <2>3. CASE k > p
    <3>1. k - 1 \in 1..m /\ from(k - 1) = k
      BY <1>1, <1>2, <2>3
    <3> QED
      BY <3>1
  <2> QED
    BY <1>1, <1>2, <2>1, <2>2, <2>3
<1> HIDE DEF from
<1>9. Registry(q, n)
  <2>1. ASSUME NEW j \in 1..m, NEW k \in 1..m, q[j].session = q[k].session \/ q[j].lock = q[k].lock
        PROVE  j = k
    <3>1. from(j) = from(k)
      BY <1>1, <1>6, <2>1 DEF Registry
    <3> QED
      BY <1>7, <3>1
  <2> QED
    BY <1>5, <2>1 DEF Registry, L
<1>10. /\ \A k \in DOMAIN lanes : \E i \in DOMAIN q : q[i] = lanes[k]
       /\ \A i \in DOMAIN q : \E k \in DOMAIN lanes : q[i] = lanes[k]
  BY <1>1, <1>5, <1>6, <1>8
<1>11. \E i \in DOMAIN q : q[i] = Entry(s)
  BY <1>1, <1>2, <1>3, <1>10
<1> QED
  BY <1>4, <1>9, <1>10, <1>11 DEF q

\* A new lock is entered at the end.
LEMMA EnteredAtEnd ==
    ASSUME NEW n \in Nat, Registry(lanes, n), NEW s \in Session, ~Known(s)
    PROVE  LET e == [session |-> s, lock |-> n + 1]
               q == Append(lanes, e)
           IN /\ Registry(q, n + 1)
              /\ \E i \in DOMAIN q : q[i] = e
              /\ \A k \in DOMAIN lanes : \E i \in DOMAIN q : q[i] = lanes[k]
<1> DEFINE L == [session : Session, lock : 1..(n + 1)]
           e == [session |-> s, lock |-> n + 1]
           q == Append(lanes, e)
           m == Len(lanes)
           K == [session : Session, lock : 1..n]
<1>1. lanes \in Seq(K) /\ m \in Nat /\ DOMAIN lanes = 1..m /\ lanes \in [1..m -> K]
  BY LenProperties DEF Registry
<1>2. K \subseteq L /\ e \in L /\ \A x \in K : x.lock \in 1..n
  OBVIOUS
<1> HIDE DEF K, L
<1>3. lanes \in Seq(L)
  BY <1>1, <1>2, SeqOver
<1>4. /\ q \in Seq(L) /\ Len(q) = m + 1 /\ DOMAIN q = 1..(m + 1)
      /\ \A k \in 1..m : q[k] = lanes[k]
      /\ q[m + 1] = e
  BY <1>1, <1>2, <1>3, AppendProperties, LenProperties
<1>5. e.session = s /\ e.lock = n + 1
  OBVIOUS
<1> HIDE DEF q, e, m
<1>6. \A k \in 1..m : q[k].session # s /\ q[k].lock # n + 1
  <2> SUFFICES ASSUME NEW k \in 1..m
               PROVE  lanes[k].session # s /\ lanes[k].lock # n + 1
    BY <1>4
  <2>1. lanes[k] \in K
    BY <1>1
  <2> QED
    BY <1>1, <1>2, <2>1 DEF Known
<1>7. \A i \in 1..(m + 1) : i \in 1..m \/ i = m + 1
  BY <1>1
<1>8. Registry(q, n + 1)
  <2>1. \A i, j \in 1..m : /\ lanes[i].session = lanes[j].session => i = j
                           /\ lanes[i].lock = lanes[j].lock => i = j
    BY <1>1 DEF Registry
  <2>2. \A i, j \in 1..m : /\ q[i].session = q[j].session => i = j
                           /\ q[i].lock = q[j].lock => i = j
    BY <1>4, <2>1
  <2>3. /\ \A i, j \in DOMAIN q : q[i].session = q[j].session => i = j
        /\ \A i, j \in DOMAIN q : q[i].lock = q[j].lock => i = j
    BY <1>4, <1>5, <1>6, <1>7, <2>2
  <2> QED
    BY <1>4, <2>3 DEF Registry, L
<1>9. /\ m + 1 \in DOMAIN q /\ q[m + 1] = e
      /\ \A k \in DOMAIN lanes : k \in DOMAIN q /\ q[k] = lanes[k]
  BY <1>1, <1>4
<1> QED
  BY <1>8, <1>9 DEF q, e

----------------------------------------------------------------------------
(* The steps.                                                              *)

LEMMA LaneInit ==
    ASSUME ConstantsSound, Init
    PROVE  LaneInv
<1>1. Registry(<< >>, 0)
  BY DEF Registry
<1> QED
  BY <1>1 DEF ConstantsSound, Init, LaneInv, Shape, Entered, Exclusive

LEMMA GetStep ==
    ASSUME ConstantsSound, LaneInv, NEW t \in Thread, NEW s \in Session, GetLaneLock(t, s)
    PROVE  LaneInv'
<1> USE DEF LaneInv, Shape, ConstantsSound
<1>1. PICK q, e :
        /\ Registry(q, made') /\ made' \in made..MaxLocks
        /\ lanes' = Evicted(q, s) /\ lock' = [lock EXCEPT ![t] = e.lock]
        /\ e.session = s /\ e.lock \in 1..made'
        /\ \E i \in DOMAIN q : q[i] = e
        /\ \A k \in DOMAIN lanes : \E i \in DOMAIN q : q[i] = lanes[k]
  <2>1. CASE Known(s)
    <3>1. /\ made' = made /\ lanes' = Evicted(Append(Others(s), Entry(s)), s)
          /\ lock' = [lock EXCEPT ![t] = Entry(s).lock]
      BY <2>1 DEF GetLaneLock
    <3>2. made \in Nat /\ made' \in made..MaxLocks
      BY <3>1
    <3> DEFINE e == Entry(s)
               q == Append(Others(s), e)
    <3>3. /\ Registry(q, made) /\ e.session = s /\ e.lock \in 1..made
          /\ \E i \in DOMAIN q : q[i] = e
          /\ \A k \in DOMAIN lanes : \E i \in DOMAIN q : q[i] = lanes[k]
      BY <2>1, <3>2, MovedToEnd
    <3>4. lanes' = Evicted(q, s) /\ lock' = [lock EXCEPT ![t] = e.lock]
      BY <3>1
    <3> HIDE DEF e, q
    <3>5. Registry(q, made') /\ e.lock \in 1..made'
      BY <3>1, <3>3
    <3> QED
      BY <3>2, <3>3, <3>4, <3>5, Zenon
  <2>2. CASE ~Known(s)
    <3>1. /\ made < MaxLocks /\ made' = made + 1
          /\ lanes' = Evicted(Append(lanes, [session |-> s, lock |-> made + 1]), s)
          /\ lock' = [lock EXCEPT ![t] = made + 1]
      BY <2>2 DEF GetLaneLock
    <3>2. made \in Nat /\ made' \in made..MaxLocks
      BY <3>1
    <3>3. made + 1 \in 1..made'
      BY <3>1, <3>2
    <3> DEFINE e == [session |-> s, lock |-> made + 1]
    <3>4. e.session = s /\ e.lock = made + 1
      OBVIOUS
    <3>5. /\ Registry(Append(lanes, e), made')
          /\ \E i \in DOMAIN Append(lanes, e) : Append(lanes, e)[i] = e
          /\ \A k \in DOMAIN lanes : \E i \in DOMAIN Append(lanes, e) : Append(lanes, e)[i] = lanes[k]
      BY <2>2, <3>1, <3>2, EnteredAtEnd
    <3>6. lanes' = Evicted(Append(lanes, e), s) /\ lock' = [lock EXCEPT ![t] = e.lock]
      BY <3>1, <3>4
    <3>7. e.lock \in 1..made'
      BY <3>3, <3>4
    <3> HIDE DEF e
    <3> QED
      BY <3>2, <3>4, <3>5, <3>6, <3>7
  <2> QED
    BY <2>1, <2>2
<1>2. made \in Nat /\ made' \in Nat /\ made <= made' /\ made' \in 0..MaxLocks
  BY <1>1
<1>3. /\ Registry(lanes', made')
      /\ \A k \in DOMAIN lanes' : \E i \in DOMAIN q : lanes'[k] = q[i]
      /\ \A i \in DOMAIN q : q[i].session = s \/ Locked(q[i].lock) =>
           \E k \in DOMAIN lanes' : lanes'[k] = q[i]
  BY <1>1, <1>2, EvictedKeeps
<1>4. /\ pc[t] = "idle" /\ pc' = [pc EXCEPT ![t] = "wait"] /\ session' = [session EXCEPT ![t] = s]
      /\ lost' = lost \cup {l \in InHand : Registered(l) /\ ~Registered(l)'}
  BY DEF GetLaneLock
<1>5. /\ lock'[t] = e.lock /\ session'[t] = s /\ pc'[t] = "wait"
      /\ \A u \in Thread : u # t => lock'[u] = lock[u] /\ session'[u] = session[u] /\ pc'[u] = pc[u]
  BY <1>1, <1>4
<1>6. Shape'
  <2>1. lock' \in [Thread -> 0..made']
    BY <1>1, <1>2
  <2>2. lost' \subseteq 1..made'
    <3>1. ASSUME NEW l \in InHand
          PROVE  l \in 1..made'
      <4>1. PICK u \in Thread : pc[u] = "wait" /\ lock[u] = l
        BY DEF InHand
      <4>2. l \in 0..made /\ l # 0
        BY <4>1
      <4> QED
        BY <1>2, <4>2
    <3>2. 1..made \subseteq 1..made'
      BY <1>2
    <3> QED
      BY <1>4, <3>1, <3>2
  <2>3. \A u \in Thread : pc'[u] # "idle" => lock'[u] # 0
    BY <1>1, <1>2, <1>5
  <2> QED
    BY <1>2, <1>3, <1>4, <2>1, <2>2, <2>3
<1>7. Entered'
  <2> SUFFICES ASSUME NEW u \in Thread, pc'[u] # "idle", lock'[u] \notin lost'
               PROVE  \E k \in DOMAIN lanes' : /\ lanes'[k].session = session'[u]
                                               /\ lanes'[k].lock = lock'[u]
    BY DEF Entered
  <2>1. CASE u = t
    BY <1>1, <1>3, <1>5, <2>1
  <2>2. CASE u # t
    <3>1. /\ lock'[u] = lock[u] /\ session'[u] = session[u] /\ pc[u] # "idle"
          /\ lock[u] \notin lost
      BY <1>4, <1>5, <2>2
    <3>2. PICK j \in DOMAIN lanes : lanes[j].session = session[u] /\ lanes[j].lock = lock[u]
      BY <3>1 DEF Entered
    <3>3. PICK i \in DOMAIN q : q[i].session = session[u] /\ q[i].lock = lock[u]
      BY <1>1, <3>2
    <3>4. CASE pc[u] = "turn"
      <4>1. Locked(q[i].lock)
        BY <3>3, <3>4 DEF Locked
      <4> QED
        BY <1>3, <3>1, <3>3, <4>1
    <3>5. CASE pc[u] = "wait"
      <4>1. lock[u] \in InHand /\ Registered(lock[u])
        BY <3>2, <3>5 DEF InHand, Registered
      <4>2. Registered(lock[u])'
        BY <1>4, <3>1, <4>1
      <4>3. PICK k \in DOMAIN lanes' : lanes'[k].lock = lock[u]
        BY <3>1, <4>2 DEF Registered
      <4>4. PICK h \in DOMAIN q : lanes'[k] = q[h]
        BY <1>3
      <4>5. h = i
        <5>1. q[h].lock = q[i].lock
          BY <3>3, <4>3, <4>4
        <5>2. \A x, y \in DOMAIN q : q[x].lock = q[y].lock => x = y
          BY <1>1 DEF Registry
        <5> QED
          BY <5>1, <5>2
      <4> QED
        BY <3>1, <3>3, <4>3, <4>4, <4>5
    <3> QED
      BY <3>1, <3>4, <3>5
  <2> QED
    BY <2>1, <2>2
<1>8. Exclusive'
  BY <1>5 DEF Exclusive
<1> QED
  BY <1>6, <1>7, <1>8

LEMMA LaneStep ==
    ASSUME ConstantsSound, LaneInv, [Next]_vars
    PROVE  LaneInv'
<1>1. ASSUME NEW t \in Thread, NEW s \in Session, GetLaneLock(t, s)
      PROVE  LaneInv'
  BY <1>1, GetStep
<1>2. ASSUME NEW t \in Thread, Acquire(t)
      PROVE  LaneInv'
  <2>1. /\ pc[t] = "wait" /\ ~Locked(lock[t]) /\ pc' = [pc EXCEPT ![t] = "turn"]
        /\ UNCHANGED <<lanes, made, session, lock, lost>>
    BY <1>2 DEF Acquire
  <2>2. Shape' /\ Entered'
    BY <2>1 DEF LaneInv, Shape, Entered
  <2>3. Exclusive'
    BY <2>1 DEF LaneInv, Shape, Exclusive, Locked
  <2> QED
    BY <2>2, <2>3 DEF LaneInv
<1>3. ASSUME NEW t \in Thread, Release(t)
      PROVE  LaneInv'
  <2>1. /\ pc' = [pc EXCEPT ![t] = "idle"] /\ lock' = [lock EXCEPT ![t] = 0]
        /\ UNCHANGED <<lanes, made, session, lost>>
    BY <1>3 DEF Release
  <2>2. made \in Nat
    BY DEF LaneInv, Shape
  <2> QED
    BY <2>1, <2>2 DEF LaneInv, Shape, Entered, Exclusive
<1>4. CASE UNCHANGED vars
  BY <1>4 DEF vars, LaneInv, Shape, Entered, Exclusive
<1> QED
  BY <1>1, <1>2, <1>3, <1>4 DEF Next

LEMMA Inductive ==
    ASSUME ConstantsSound
    PROVE  Spec => []LaneInv
<1>1. Init => LaneInv
  BY LaneInit
<1>2. LaneInv /\ [Next]_vars => LaneInv'
  BY LaneStep
<1> QED
  BY <1>1, <1>2, PTL DEF Spec

\* The registry stays a dictionary of locks that were made, whatever is evicted.
THEOREM TypeCorrect ==
    ASSUME ConstantsSound
    PROVE  Spec => []TypeOK
<1>1. LaneInv => TypeOK
  <2> SUFFICES ASSUME LaneInv
               PROVE  TypeOK
    OBVIOUS
  <2>1. made \in 0..MaxLocks /\ 1..made \subseteq 1..MaxLocks /\ 0..made \subseteq 0..MaxLocks
    BY DEF ConstantsSound, LaneInv, Shape
  <2>2. [session : Session, lock : 1..made] \subseteq Lane
    BY <2>1 DEF Lane
  <2>3. lanes \in Seq(Lane)
    BY <2>2, SeqOver DEF LaneInv, Shape, Registry
  <2> QED
    BY <2>1, <2>3 DEF LaneInv, Shape, Registry, TypeOK
<1> QED
  BY <1>1, Inductive, PTL

\* Eviction alone never lets two turns of a conversation run at once: one of them took a
\* lock that was dropped while it waited (session_memory.get_lane_lock, session_lane).
THEOREM OverlapsExplained ==
    ASSUME ConstantsSound
    PROVE  Spec => []OverlapOnlyIfLost
<1>1. LaneInv => OverlapOnlyIfLost
  <2> SUFFICES ASSUME LaneInv, NEW t \in Thread, NEW u \in Thread, Overlap(t, u),
                      lock[t] \notin lost, lock[u] \notin lost
               PROVE  FALSE
    BY DEF OverlapOnlyIfLost
  <2>1. /\ t # u /\ pc[t] = "turn" /\ pc[u] = "turn" /\ session[t] = session[u]
    BY DEF Overlap
  <2>2. PICK j \in DOMAIN lanes : lanes[j].session = session[t] /\ lanes[j].lock = lock[t]
    BY <2>1 DEF LaneInv, Entered
  <2>3. PICK k \in DOMAIN lanes : lanes[k].session = session[u] /\ lanes[k].lock = lock[u]
    BY <2>1 DEF LaneInv, Entered
  <2>4. j = k
    BY <2>1, <2>2, <2>3 DEF LaneInv, Shape, Registry
  <2> QED
    BY <2>1, <2>2, <2>3, <2>4 DEF LaneInv, Exclusive
<1> QED
  BY <1>1, Inductive, PTL

----------------------------------------------------------------------------
\* What a turn is part of: the chat, Telegram, with its poller, the handler and the
\* memory, the rows and the log of a session; a component of its own.
CONSTANTS MaxUpdates, MaxRows, KeepLast, MaxCrashes, MaxFaults
VARIABLES sent, kind, confirmed, offset, batch, cur, step, answer, memory, rows, log, inbox,
          crashes, faults, runs, ended, replies, forgot, seen, unlogged, unaudited

Chat == INSTANCE Telegram

ChatBounds ==
    /\ MaxUpdates \in Nat /\ MaxRows \in Nat \ {0} /\ KeepLast \in Nat
    /\ MaxCrashes \in Nat /\ MaxFaults \in Nat

\* Updates are taken up in order: what is before the offset, or before the batch, is
\* over or at work; and each was taken up once per life of the process.
InOrder ==
    /\ step = "idle" => cur = 0
    /\ step # "idle" => cur # 0
    /\ offset <= sent + 1
    /\ \A j \in DOMAIN batch : /\ batch[j] = batch[1] + (j - 1)
                               /\ batch[j] <= sent /\ offset <= batch[j]
    /\ \A u \in 1..confirmed : u \in ended
    /\ \A u \in Chat!Update : u < offset => u \in ended \/ u = cur
    /\ \A u \in Chat!Update : batch # << >> /\ u < batch[1] => u \in ended \/ u = cur
    /\ \A u \in Chat!Update : runs[u] <= IF u < offset THEN 1 + crashes ELSE crashes

\* A run replies once, and again only where the audit of a voice turn failed.
Again == kind[cur] = "voice" /\ cur \in unaudited
Replied ==
    /\ step \in {"route", "hydrate", "model", "save", "log"} => replies = 0
    /\ step = "reply" => replies = 0 \/ (replies = 1 /\ Again)
    /\ step \in {"link", "store", "audit"} =>
          /\ replies = 2 => Again
          /\ answer # "empty" => replies # 0

\* A reply that is about to be linked follows the row of its turn.
Linking ==
    /\ \A j \in DOMAIN log : log[j].mid <= Len(inbox)
    /\ Chat!LinkedRight
    /\ step = "link" => Chat!Delivered /\ kind[cur] = "chat"
    /\ step \in {"reply", "link"} /\ kind[cur] = "chat" /\ cur \notin unlogged =>
          /\ Len(log) # 0
          /\ log[Len(log)].of = cur /\ log[Len(log)].mid = 0

\* Behind the answer stored last, there are two rows for each restart and those of
\* the turn at work.
Slack == IF step \in {"log", "reply", "link", "store"} THEN 2 ELSE 0
Remembered ==
    faults = 0 =>
        /\ answer = "text"
        /\ step = "store" => Chat!Delivered
        /\ seen # 0 => \E i \in DOMAIN rows : /\ rows[i] = <<"evi", seen>>
                                              /\ Len(rows) - i <= 2 * crashes + Slack
        /\ Chat!ContextKnowsLast

ChatInv == Chat!TypeOK /\ InOrder /\ Replied /\ Linking /\ Remembered

\* The newest n of a sequence.
LEMMA NewestIs ==
    ASSUME NEW K, NEW q \in Seq(K), NEW n \in Nat
    PROVE  /\ Chat!NewestOf(q, n) \in Seq(K)
           /\ Len(Chat!NewestOf(q, n)) <= n /\ Len(Chat!NewestOf(q, n)) <= Len(q)
           /\ \A i \in DOMAIN q : Len(q) - i < n =>
                 \E k \in DOMAIN Chat!NewestOf(q, n) :
                    /\ Chat!NewestOf(q, n)[k] = q[i]
                    /\ Len(Chat!NewestOf(q, n)) - k = Len(q) - i
<1> DEFINE l == Len(q)
           a == IF l > n THEN l - n + 1 ELSE 1
           r == SubSeq(q, a, l)
<1>1. l \in Nat /\ DOMAIN q = 1..l /\ \A i \in 1..l : q[i] \in K
  BY LenProperties
<1>2. a \in 1..(l + 1) /\ l - a + 1 <= n /\ (l <= n => a = 1) /\ (l > n => a = l - n + 1)
  BY <1>1
<1>3. Chat!NewestOf(q, n) = r
  BY DEF Chat!NewestOf
<1> HIDE DEF l, a
<1>4. r \in Seq(K) /\ Len(r) = (IF a <= l THEN l - a + 1 ELSE 0)
      /\ \A i \in 1..(l - a + 1) : r[i] = q[a + i - 1]
  BY <1>1, <1>2, SubSeqProperties
<1>5. Len(r) = l - a + 1 /\ DOMAIN r = 1..Len(r)
  BY <1>1, <1>2, <1>4, LenProperties
<1> HIDE DEF r
<1>6. ASSUME NEW i \in DOMAIN q, l - i < n
      PROVE  \E k \in DOMAIN r : r[k] = q[i] /\ Len(r) - k = l - i
  <2>1. i - a + 1 \in 1..(l - a + 1) /\ a + (i - a + 1) - 1 = i
    BY <1>1, <1>2, <1>6
  <2>2. r[i - a + 1] = q[i] /\ Len(r) - (i - a + 1) = l - i
    BY <1>1, <1>2, <1>4, <1>5, <2>1
  <2> QED
    BY <1>5, <2>1, <2>2
<1> QED
  BY <1>1, <1>2, <1>3, <1>4, <1>5, <1>6 DEF l

----------------------------------------------------------------------------
\* The types.

\* The two rows of a turn.
LEMMA PairOfRows ==
    ASSUME ChatBounds, Chat!TypeOK, cur # 0
    PROVE  /\ <<"user", cur>> \in Chat!Entry /\ <<"evi", cur>> \in Chat!Entry
           /\ <<<<"user", cur>>, <<"evi", cur>>>> \in Seq(Chat!Entry)
           /\ rows \o <<<<"user", cur>>, <<"evi", cur>>>> \in Seq(Chat!Entry)
           /\ Len(rows \o <<<<"user", cur>>, <<"evi", cur>>>>) = Len(rows) + 2
           /\ \A i \in 1..Len(rows) :
                 (rows \o <<<<"user", cur>>, <<"evi", cur>>>>)[i] = rows[i]
           /\ (rows \o <<<<"user", cur>>, <<"evi", cur>>>>)[Len(rows) + 2] = <<"evi", cur>>
<1> DEFINE user == <<"user", cur>>
           evi == <<"evi", cur>>
           pair == <<user, evi>>
<1>1. user \in Chat!Entry /\ evi \in Chat!Entry
  BY DEF Chat!TypeOK, Chat!Entry, Chat!Update, ChatBounds
<1> HIDE DEF user, evi
<1>2. pair \in Seq(Chat!Entry) /\ Len(pair) = 2 /\ pair[2] = evi
  BY <1>1
<1> HIDE DEF pair
<1>3. rows \in Seq(Chat!Entry) /\ Len(rows) \in Nat
  BY LenProperties DEF Chat!TypeOK
<1>4. /\ rows \o pair \in Seq(Chat!Entry) /\ Len(rows \o pair) = Len(rows) + 2
      /\ \A i \in 1..(Len(rows) + 2) :
            (rows \o pair)[i] = IF i <= Len(rows) THEN rows[i] ELSE pair[i - Len(rows)]
  <2>1. /\ rows \o pair \in Seq(Chat!Entry) /\ Len(rows \o pair) = Len(rows) + Len(pair)
        /\ \A i \in 1..(Len(rows) + Len(pair)) :
              (rows \o pair)[i] = IF i <= Len(rows) THEN rows[i] ELSE pair[i - Len(rows)]
    BY <1>2, <1>3, ConcatProperties, Zenon
  <2> QED
    BY <1>2, <2>1
<1>5. (rows \o pair)[Len(rows) + 2] = evi
  BY <1>2, <1>3, <1>4
<1>6. \A i \in 1..Len(rows) : (rows \o pair)[i] = rows[i]
  BY <1>3, <1>4
<1> QED
  BY <1>1, <1>2, <1>4, <1>5, <1>6 DEF user, evi, pair

\* A sequence whose members are changed in place.
LEMMA InPlace ==
    ASSUME NEW K, NEW q \in Seq(K), NEW r, DOMAIN r = DOMAIN q, r = [j \in DOMAIN q |-> r[j]],
           \A j \in DOMAIN q : r[j] \in K
    PROVE  r \in Seq(K) /\ Len(r) = Len(q)
<1>1. Len(q) \in Nat /\ DOMAIN q = 1..Len(q)
  BY LenProperties
<1>2. r \in [1..Len(q) -> K]
  BY <1>1
<1> QED
  BY <1>1, <1>2

\* A reaction, a rating or a link: of each row of the log, only the message or the
\* mark changes.
LEMMA LogKept ==
    ASSUME ChatBounds, Chat!TypeOK, Chat!React \/ Chat!RateNewest \/ UNCHANGED log
    PROVE  /\ log' \in Seq(Chat!Turn) /\ Len(log') = Len(log) /\ DOMAIN log' = DOMAIN log
           /\ \A j \in DOMAIN log : log'[j].of = log[j].of /\ log'[j].mid = log[j].mid
<1>1. log \in Seq(Chat!Turn) /\ cur \in 0..MaxUpdates
  BY DEF Chat!TypeOK
<1>2. Len(log) \in Nat /\ DOMAIN log = 1..Len(log) /\ \A j \in DOMAIN log : log[j] \in Chat!Turn
  BY <1>1, LenProperties
<1>3. \A t \in Chat!Turn :
         /\ [t EXCEPT !.mark = cur] \in Chat!Turn
         /\ [t EXCEPT !.mark = cur].of = t.of /\ [t EXCEPT !.mark = cur].mid = t.mid
  BY <1>1 DEF Chat!Turn
<1>4. /\ DOMAIN log' = DOMAIN log /\ log' = [j \in DOMAIN log |-> log'[j]]
      /\ \A j \in DOMAIN log : log'[j] \in {log[j], [log[j] EXCEPT !.mark = cur]}
  <2>1. CASE UNCHANGED log
    BY <1>1, <1>2, <2>1
  <2>2. CASE Chat!React
    BY <1>1, <1>2, <2>1, <2>2 DEF Chat!React
  <2>3. CASE Chat!RateNewest
    BY <1>1, <1>2, <2>1, <2>3 DEF Chat!RateNewest
  <2> QED
    BY <2>1, <2>2, <2>3
<1>5. \A j \in DOMAIN log :
         log'[j] \in Chat!Turn /\ log'[j].of = log[j].of /\ log'[j].mid = log[j].mid
  BY <1>2, <1>3, <1>4
<1> QED
  BY <1>1, <1>4, <1>5, InPlace

\* A link writes the message into rows of the log that have none.
LEMMA LinkIs ==
    ASSUME ChatBounds, Chat!TypeOK, Chat!Link
    PROVE  /\ log' \in Seq(Chat!Turn) /\ Len(log') = Len(log) /\ DOMAIN log' = DOMAIN log
           /\ \A j \in DOMAIN log : log'[j] # log[j] =>
                 /\ log[j].mid = 0 /\ log'[j].of = log[j].of /\ log'[j].mid = Len(inbox)
                 /\ Len(log) # 0 /\ log[Len(log)].of = cur /\ log[Len(log)].mid = 0
                       => j = Len(log) \/ cur \in unlogged
<1>1. log \in Seq(Chat!Turn) /\ Len(inbox) \in Nat
  BY LenProperties DEF Chat!TypeOK
<1>2. Len(log) \in Nat /\ DOMAIN log = 1..Len(log) /\ \A j \in DOMAIN log : log[j] \in Chat!Turn
  BY <1>1, LenProperties
<1>3. CASE UNCHANGED log
  BY <1>1, <1>3
<1>4. ASSUME NEW w \in 1..(Len(log) + 1),
             w > Len(log) => cur \in unlogged,
             \A j \in DOMAIN log : log[j].of = cur /\ j = Len(log) => w <= j,
             log' = [j \in DOMAIN log |-> IF j \in Chat!LinkTarget(w)
                        THEN [log[j] EXCEPT !.mid = Len(inbox)] ELSE log[j]]
      PROVE  /\ log' \in Seq(Chat!Turn) /\ Len(log') = Len(log) /\ DOMAIN log' = DOMAIN log
             /\ \A j \in DOMAIN log : log'[j] # log[j] =>
                   /\ log[j].mid = 0 /\ log'[j].of = log[j].of /\ log'[j].mid = Len(inbox)
                   /\ Len(log) # 0 /\ log[Len(log)].of = cur /\ log[Len(log)].mid = 0
                         => j = Len(log)
  <2>1. \A t \in Chat!Turn :
           /\ [t EXCEPT !.mid = Len(inbox)] \in Chat!Turn
           /\ [t EXCEPT !.mid = Len(inbox)].of = t.of
           /\ [t EXCEPT !.mid = Len(inbox)].mid = Len(inbox)
    BY <1>1 DEF Chat!Turn
  <2>2. \A j \in DOMAIN log : log'[j] \in Chat!Turn
    BY <1>2, <1>4, <2>1
  <2>3. DOMAIN log' = DOMAIN log /\ log' = [j \in DOMAIN log |-> log'[j]]
    BY <1>4
  <2>4. log' \in Seq(Chat!Turn) /\ Len(log') = Len(log)
    BY <1>1, <2>2, <2>3, InPlace
  <2>5. ASSUME NEW j \in DOMAIN log, log'[j] # log[j]
        PROVE  j \in Chat!LinkTarget(w) /\ log[j].mid = 0 /\ log'[j].of = log[j].of
               /\ log'[j].mid = Len(inbox)
    BY <1>2, <1>4, <2>1, <2>5 DEF Chat!LinkTarget, Chat!Unlinked
  <2>6. ASSUME NEW j \in DOMAIN log, log'[j] # log[j],
               Len(log) # 0, log[Len(log)].of = cur, log[Len(log)].mid = 0
        PROVE  j = Len(log)
    <3>1. Len(log) \in Chat!Unlinked(w)
      BY <1>2, <1>4, <2>6 DEF Chat!Unlinked
    <3>2. j \in Chat!LinkTarget(w)
      BY <2>5, <2>6
    <3> QED
      BY <1>2, <3>1, <3>2 DEF Chat!LinkTarget
  <2> QED
    BY <2>3, <2>4, <2>5, <2>6
<1> QED
  BY <1>3, <1>4 DEF Chat!Link

LEMMA ChatTypes ==
    ASSUME ChatBounds, Chat!TypeOK, InOrder, Replied, [Chat!Next]_Chat!vars
    PROVE  Chat!TypeOK'
<1> USE DEF Chat!server, Chat!chatState, Chat!history
<1>f. Chat!Fault \/ Chat!NoFault => faults' \in 0..MaxFaults
  BY DEF Chat!Fault, Chat!NoFault, Chat!TypeOK, ChatBounds
<1>1. ASSUME NEW k \in Chat!Kind, Chat!Send(k) PROVE Chat!TypeOK'
  <2>1. sent + 1 \in Chat!Update
    BY <1>1 DEF Chat!Send, Chat!TypeOK, Chat!Update, ChatBounds
  <2> QED
    BY <1>1, <2>1 DEF Chat!Send, Chat!TypeOK, Chat!Update, ChatBounds
<1>2. CASE Chat!Fetch
  <2>1. Chat!Confirmed(offset) \in 0..MaxUpdates
    BY DEF Chat!Confirmed, Chat!TypeOK, ChatBounds
  <2>2. batch' \in Seq(Chat!Update)
    <3> DEFINE c == Chat!Confirmed(offset)
    <3>1. CASE UNCHANGED batch
      BY <3>1 DEF Chat!TypeOK
    <3>2. CASE batch' = [j \in 1..(sent - c) |-> c + j]
      <4>1. \A j \in 1..(sent - c) : c + j \in Chat!Update
        <5>1. c \in 0..MaxUpdates /\ sent \in 0..MaxUpdates /\ MaxUpdates \in Nat
          BY <2>1 DEF Chat!TypeOK, ChatBounds
        <5> HIDE DEF c
        <5> QED
          BY <5>1 DEF Chat!Update
      <4>2. CASE sent - c \in Nat
        <5>1. batch' \in [1..(sent - c) -> Chat!Update]
          BY <3>2, <4>1
        <5> QED
          BY <4>2, <5>1
      <4>3. CASE sent - c \notin Nat
        <5>1. 1..(sent - c) = 1..0
          BY <2>1, <4>3 DEF Chat!TypeOK, ChatBounds
        <5>2. batch' \in [1..0 -> Chat!Update]
          BY <3>2, <4>1, <5>1
        <5> QED
          BY <5>2
      <4> QED
        BY <4>2, <4>3
    <3> QED
      BY <1>2, <3>1, <3>2 DEF Chat!Fetch
  <2> QED
    BY <1>2, <1>f, <2>1, <2>2 DEF Chat!Fetch, Chat!TypeOK
<1>3. CASE Chat!Take
  <2>1. Head(batch) \in Chat!Update /\ Tail(batch) \in Seq(Chat!Update)
    BY <1>3, HeadTailProperties DEF Chat!Take, Chat!TypeOK
  <2>2. runs' \in [Chat!Update -> Nat]
    <3>1. runs \in [Chat!Update -> Nat] /\ runs' = [runs EXCEPT ![Head(batch)] = @ + 1]
      BY <1>3 DEF Chat!Take, Chat!TypeOK
    <3> QED
      BY <2>1, <3>1
  <2>3. cur' \in 0..MaxUpdates /\ offset' \in 0..(MaxUpdates + 1)
    BY <1>3, <2>1 DEF Chat!Take, Chat!NextOffset, Chat!Update, ChatBounds
  <2>4. (ended \cup unlogged \cup unaudited)' \subseteq Chat!Update
    BY <1>3 DEF Chat!Take, Chat!TypeOK
  <2>5. batch' \in Seq(Chat!Update) /\ step' = "route" /\ replies' = 0 /\ answer' = "text"
        /\ UNCHANGED <<sent, kind, confirmed, memory, rows, log, inbox, crashes, faults, forgot, seen>>
    BY <1>3, <2>1 DEF Chat!Take
  <2> QED
    BY <2>2, <2>3, <2>4, <2>5 DEF Chat!TypeOK
<1>4. CASE Chat!Crash
  BY <1>4 DEF Chat!Crash, Chat!TypeOK, Chat!Update, ChatBounds
<1>5. CASE Chat!Ignore
  <2>1. log' \in Seq(Chat!Turn)
    BY <1>5, LogKept DEF Chat!Ignore
  <2> QED
    BY <1>5, <2>1 DEF Chat!Ignore, Chat!Over, InOrder, Chat!TypeOK, Chat!Update, ChatBounds
<1>6. CASE Chat!Direct
  <2>1. log' \in Seq(Chat!Turn)
    BY <1>6, LogKept DEF Chat!Direct
  <2>2. memory' \in Seq(Chat!Entry) /\ Len(memory') <= MaxRows
    <3>1. CASE UNCHANGED memory
      BY <3>1 DEF Chat!TypeOK
    <3>2. CASE memory' = << >>
      BY <3>2 DEF ChatBounds
    <3>3. CASE memory' = Chat!NewestOf(memory, KeepLast)
      <4>1. memory \in Seq(Chat!Entry) /\ Len(memory) <= MaxRows /\ Len(memory) \in Nat
        BY LenProperties DEF Chat!TypeOK
      <4>2. memory' \in Seq(Chat!Entry) /\ Len(memory') <= Len(memory)
        BY <3>3, <4>1, NewestIs DEF ChatBounds
      <4>3. Len(memory') \in Nat
        BY <4>2, LenProperties
      <4> QED
        BY <4>1, <4>2, <4>3 DEF ChatBounds
    <3> QED
      BY <1>6, <3>1, <3>2, <3>3 DEF Chat!Direct, Chat!Forget, Chat!Compact
  <2> QED
    BY <1>6, <2>1, <2>2 DEF Chat!Direct, Chat!Forget, Chat!Compact, Chat!TypeOK
<1>7. CASE Chat!DirectRaises
  BY <1>7 DEF Chat!DirectRaises, Chat!Over, Chat!Fault, InOrder, Chat!TypeOK, Chat!Update, ChatBounds
<1>8. CASE Chat!Unheard
  BY <1>8 DEF Chat!Unheard, Chat!NotTranscribed, Chat!Fault, Chat!TypeOK, ChatBounds
<1>18. CASE Chat!Heard
  BY <1>18 DEF Chat!Heard, Chat!TypeOK
<1>m. ASSUME NEW q \in Seq(Chat!Entry), NEW e \in Chat!Entry
      PROVE  Chat!Added(q, e) \in Seq(Chat!Entry) /\ Len(Chat!Added(q, e)) <= MaxRows
  BY AppendProperties, NewestIs DEF Chat!Added, ChatBounds
<1>r. Chat!Recent(rows) \in Seq(Chat!Entry)
  BY NewestIs DEF Chat!Recent, Chat!TypeOK, ChatBounds
<1>9. CASE Chat!Hydrate
  <2>1. <<"user", cur>> \in Chat!Entry
    BY <1>9, PairOfRows DEF Chat!Hydrate, InOrder
  <2>2. memory' \in Seq(Chat!Entry) /\ Len(memory') <= MaxRows
    BY <1>9, <1>m, <1>r, <2>1 DEF Chat!Hydrate, Chat!TypeOK
  <2> QED
    BY <1>9, <1>f, <2>2 DEF Chat!Hydrate, Chat!TypeOK
<1>10. CASE Chat!Model
  <2>1. <<"evi", cur>> \in Chat!Entry
    BY <1>10, PairOfRows DEF Chat!Model, InOrder
  <2>2. memory' \in Seq(Chat!Entry) /\ Len(memory') <= MaxRows
    BY <1>10, <1>m, <2>1 DEF Chat!Model, Chat!TypeOK
  <2> QED
    BY <1>10, <1>f, <2>2 DEF Chat!Model, Chat!AfterModel, Chat!TypeOK
<1>s. ASSUME Chat!Stored, cur # 0
      PROVE  rows' \in Seq(Chat!Entry) /\ faults' \in 0..MaxFaults
  <2>1. /\ rows \o <<<<"user", cur>>, <<"evi", cur>>>> \in Seq(Chat!Entry)
        /\ Append(rows, <<"user", cur>>) \in Seq(Chat!Entry)
    <3>1. rows \in Seq(Chat!Entry) /\ <<"user", cur>> \in Chat!Entry
      BY <1>s, PairOfRows DEF Chat!TypeOK
    <3>2. Append(rows, <<"user", cur>>) \in Seq(Chat!Entry)
      BY <3>1, AppendProperties
    <3> QED
      BY <1>s, <3>2, PairOfRows
  <2>2. faults' \in 0..MaxFaults
    BY <1>s, <1>f DEF Chat!Stored
  <2> QED
    BY <1>s, <2>1, <2>2 DEF Chat!Stored, Chat!TypeOK
<1>11. CASE Chat!Save
  BY <1>11, <1>s DEF Chat!Save, InOrder, Chat!TypeOK
<1>12. CASE Chat!Store
  BY <1>12, <1>s DEF Chat!Store, InOrder, Chat!TypeOK
<1>13. CASE Chat!Log
  <2>1. [of |-> cur, mid |-> 0, mark |-> 0] \in Chat!Turn
    BY <1>13 DEF Chat!Log, InOrder, Chat!TypeOK, Chat!Turn, Chat!Update, ChatBounds
  <2>2. log' \in Seq(Chat!Turn)
    <3>1. log \in Seq(Chat!Turn)
      BY DEF Chat!TypeOK
    <3>2. Append(log, [of |-> cur, mid |-> 0, mark |-> 0]) \in Seq(Chat!Turn)
      BY <2>1, <3>1, AppendProperties
    <3> QED
      BY <1>13, <3>1, <3>2 DEF Chat!Log
  <2>3. faults' \in 0..MaxFaults /\ unlogged' \subseteq Chat!Update
    <3>1. cur \in Chat!Update
      BY <1>13 DEF Chat!Log, InOrder, Chat!TypeOK, Chat!Update, ChatBounds
    <3>2. faults' \in 0..MaxFaults /\ unlogged' \in {unlogged, unlogged \cup {cur}}
      BY <1>13, <1>f DEF Chat!Log
    <3> QED
      BY <3>1, <3>2 DEF Chat!TypeOK
  <2> QED
    BY <1>13, <2>2, <2>3 DEF Chat!Log, Chat!TypeOK
<1>14. CASE Chat!Reply
  <2>1. inbox' \in Seq(Chat!Update)
    <3>1. inbox \in Seq(Chat!Update) /\ cur \in Chat!Update
      BY <1>14 DEF Chat!Reply, InOrder, Chat!TypeOK, Chat!Update, ChatBounds
    <3>2. Append(inbox, cur) \in Seq(Chat!Update)
      BY <3>1, AppendProperties
    <3> QED
      BY <1>14, <3>1, <3>2 DEF Chat!Reply
  <2>2. faults' \in 0..MaxFaults /\ replies' \in 0..2
    BY <1>14, <1>f DEF Chat!Reply, Replied, Chat!TypeOK
  <2>3. /\ step' \in {"link", "store"}
        /\ UNCHANGED <<sent, kind, confirmed, offset, batch, cur, answer, memory, rows, log,
                       crashes, runs, ended, forgot, seen, unlogged, unaudited>>
    BY <1>14 DEF Chat!Reply
  <2> QED
    BY <2>1, <2>2, <2>3 DEF Chat!TypeOK
<1>15. CASE Chat!Link
  <2>1. log' \in Seq(Chat!Turn)
    BY <1>15, LinkIs DEF InOrder
  <2>2. faults' \in 0..MaxFaults
    BY <1>15, <1>f DEF Chat!Link
  <2> QED
    BY <1>15, <2>1, <2>2 DEF Chat!Link, Chat!TypeOK
<1>16. CASE Chat!Audit
  <2>1. cur \in Chat!Update
    BY <1>16 DEF Chat!Audit, InOrder, Chat!TypeOK, Chat!Update, ChatBounds
  <2>2. /\ faults' \in 0..MaxFaults /\ cur' \in {0, cur} /\ step' \in {"idle", "reply"}
        /\ answer' \in {answer, "error"}
        /\ ended' \in {ended, ended \cup {cur}} /\ unaudited' \in {unaudited, unaudited \cup {cur}}
    BY <1>16, <1>f DEF Chat!Audit, Chat!Over
  <2> QED
    BY <1>16, <2>1, <2>2 DEF Chat!Audit, Chat!TypeOK, ChatBounds
<1>17. CASE UNCHANGED Chat!vars
  BY <1>17 DEF Chat!vars, Chat!TypeOK
<1> QED
  BY <1>1, <1>2, <1>3, <1>4, <1>5, <1>6, <1>7, <1>8, <1>9, <1>10, <1>11, <1>12, <1>13, <1>14,
     <1>15, <1>16, <1>17, <1>18 DEF Chat!Next, Chat!Turns

----------------------------------------------------------------------------
\* The order of the updates.

LEMMA ChatOrder ==
    ASSUME ChatBounds, Chat!TypeOK, InOrder, [Chat!Next]_Chat!vars
    PROVE  InOrder'
<1> USE DEF Chat!server, Chat!chatState, Chat!history
<1>b. /\ \A u \in Chat!Update : u \in Int /\ u >= 1
      /\ \A j \in DOMAIN batch : j \in Nat /\ batch[j] \in Chat!Update
      /\ offset \in Nat /\ sent \in Nat /\ confirmed \in Nat /\ crashes \in Nat
      /\ runs \in [Chat!Update -> Nat]
  <2>1. \A u \in Chat!Update : u \in Int /\ u >= 1
    BY DEF Chat!Update, ChatBounds
  <2>2. batch \in Seq(Chat!Update)
    BY DEF Chat!TypeOK
  <2>3. \A j \in DOMAIN batch : j \in Nat /\ batch[j] \in Chat!Update
    BY <2>2, LenProperties
  <2> QED
    BY <2>1, <2>3 DEF Chat!TypeOK, ChatBounds
<1>1. ASSUME NEW k \in Chat!Kind, Chat!Send(k) PROVE InOrder'
  BY <1>1, <1>b DEF Chat!Send, InOrder
<1>2. CASE Chat!Fetch
  <2> DEFINE c == Chat!Confirmed(offset)
  <2>1. c \in Nat /\ offset <= c + 1 /\ c <= MaxUpdates
    BY <1>b DEF Chat!Confirmed, Chat!TypeOK, ChatBounds
  <2>2. \A u \in 1..c : u \in ended
    BY <1>2, <1>b DEF Chat!Fetch, InOrder, Chat!Confirmed, Chat!TypeOK, Chat!Update, ChatBounds
  <2>3. step = "idle" /\ cur = 0 /\ confirmed' = c
        /\ UNCHANGED <<sent, offset, cur, step, ended, runs, crashes>>
    BY <1>2 DEF Chat!Fetch, InOrder
  <2> HIDE DEF c
  <2>4. CASE batch' = [j \in 1..(sent - c) |-> c + j]
    <3>1. \A j \in DOMAIN batch' : batch'[j] = c + j /\ j \in Int /\ j >= 1 /\ j <= sent - c
      BY <1>b, <2>1, <2>4
    <3>2. ASSUME DOMAIN batch' # {} PROVE 1 \in DOMAIN batch'
      BY <1>b, <2>1, <2>4, <3>2
    <3>3. batch' # << >> => DOMAIN batch' # {}
      BY <2>4
    <3>4. \A j \in DOMAIN batch' : /\ batch'[j] = batch'[1] + (j - 1)
                                   /\ batch'[j] <= sent /\ offset <= batch'[j]
      BY <1>b, <2>1, <3>1, <3>2
    <3>5. \A u \in Chat!Update : batch' # << >> /\ u < batch'[1] => u \in ended
      BY <1>b, <2>1, <2>2, <3>1, <3>2, <3>3
    <3> QED
      BY <2>2, <2>3, <3>4, <3>5 DEF InOrder
  <2>5. CASE UNCHANGED batch
    BY <2>2, <2>3, <2>5 DEF InOrder
  <2> QED
    BY <1>2, <2>4, <2>5 DEF Chat!Fetch, c
<1>3. CASE Chat!Take
  <2> DEFINE h == Head(batch)
  <2>1. /\ batch \in Seq(Chat!Update) /\ batch # << >> /\ step = "idle" /\ cur = 0
        /\ batch' = Tail(batch) /\ cur' = h /\ offset' = h + 1 /\ step' = "route"
        /\ runs' = [runs EXCEPT ![h] = @ + 1]
        /\ UNCHANGED <<sent, confirmed, ended, crashes>>
    BY <1>3 DEF Chat!Take, Chat!NextOffset, InOrder, Chat!TypeOK
  <2>2. /\ Len(batch) \in Nat \ {0} /\ DOMAIN batch = 1..Len(batch) /\ h = batch[1]
        /\ DOMAIN batch' = 1..(Len(batch) - 1)
        /\ \A i \in DOMAIN batch' : batch'[i] = batch[i + 1]
        /\ batch' # << >> => DOMAIN batch' # {}
    <3>1. Len(batch) \in Nat \ {0} /\ DOMAIN batch = 1..Len(batch) /\ h = batch[1]
      BY <2>1, EmptySeq, LenProperties
    <3>2. Tail(batch) \in Seq(Chat!Update) /\ Len(Tail(batch)) = Len(batch) - 1
          /\ \A i \in 1..Len(Tail(batch)) : Tail(batch)[i] = batch[i + 1]
      BY <2>1, HeadTailProperties
    <3>3. DOMAIN Tail(batch) = 1..Len(Tail(batch))
          /\ (Tail(batch) # << >> => Len(Tail(batch)) \in Nat \ {0})
      BY <3>2, EmptySeq, LenProperties
    <3> QED
      BY <2>1, <3>1, <3>2, <3>3
  <2> HIDE DEF h
  <2>3. 1 \in DOMAIN batch /\ \A i \in DOMAIN batch' : i + 1 \in DOMAIN batch
    BY <2>2
  <2>4. h \in Chat!Update /\ h >= offset /\ h <= sent
    BY <1>b, <2>2, <2>3 DEF InOrder
  <2>5. \A i \in DOMAIN batch' : batch'[i] = h + i /\ batch'[i] <= sent
    BY <1>b, <2>2, <2>3 DEF InOrder
  <2>6. \A u \in Chat!Update : u < h => u \in ended
    BY <1>b, <2>1, <2>2 DEF InOrder
  <2>7. \A j \in DOMAIN batch' : /\ batch'[j] = batch'[1] + (j - 1)
                                 /\ batch'[j] <= sent /\ offset' <= batch'[j]
    <3> SUFFICES ASSUME NEW j \in DOMAIN batch'
                 PROVE  /\ batch'[j] = batch'[1] + (j - 1)
                        /\ batch'[j] <= sent /\ offset' <= batch'[j]
      OBVIOUS
    <3>1. 1 \in DOMAIN batch' /\ j \in Int /\ j >= 1 /\ h \in Int
      BY <1>b, <2>2, <2>4
    <3>2. batch'[1] = h + 1 /\ batch'[j] = h + j /\ batch'[j] <= sent
      BY <2>5, <3>1
    <3> QED
      BY <2>1, <3>1, <3>2
  <2>8. \A u \in Chat!Update : batch' # << >> /\ u < batch'[1] => u \in ended \/ u = h
    <3>1. batch' # << >> => 1 \in DOMAIN batch'
      BY <2>2
    <3> QED
      BY <1>b, <2>4, <2>5, <2>6, <3>1
  <2>9. \A u \in Chat!Update : u < h + 1 => u \in ended \/ u = h
    BY <1>b, <2>4, <2>6
  <2>10. \A u \in Chat!Update : runs'[u] <= IF u < h + 1 THEN 1 + crashes ELSE crashes
    <3>1. runs'[h] = runs[h] + 1 /\ \A u \in Chat!Update : u # h => runs'[u] = runs[u]
      BY <1>b, <2>1, <2>4
    <3>2. runs[h] <= crashes
      BY <2>4, <1>b DEF InOrder
    <3> QED
      BY <1>b, <2>4, <3>1, <3>2 DEF InOrder
  <2>11. h # 0 /\ offset' <= sent' + 1
    BY <1>b, <2>1, <2>4
  <2> QED
    BY <2>1, <2>7, <2>8, <2>9, <2>10, <2>11 DEF InOrder
<1>4. CASE Chat!Crash
  <2>1. \A u \in Chat!Update : runs[u] <= crashes + 1
    BY <1>b DEF InOrder
  <2> QED
    BY <1>4, <1>b, <2>1 DEF Chat!Crash, InOrder
<1>5. ASSUME UNCHANGED <<sent, confirmed, offset, batch, runs, crashes>>,
             (cur' = cur /\ step # "idle" /\ step' # "idle" /\ ended' = ended) \/ Chat!Over
      PROVE  InOrder'
  BY <1>5 DEF InOrder, Chat!Over
<1>6. CASE Chat!Ignore \/ Chat!DirectRaises
  BY <1>5, <1>6 DEF Chat!Ignore, Chat!DirectRaises
<1>7. CASE Chat!Direct \/ Chat!Unheard \/ Chat!Heard \/ Chat!Hydrate \/ Chat!Save \/ Chat!Log
           \/ Chat!Link \/ Chat!Store
  BY <1>5, <1>7 DEF Chat!Direct, Chat!Unheard, Chat!Heard, Chat!Hydrate, Chat!Save, Chat!Log,
     Chat!Link, Chat!Store
<1>8. CASE Chat!Model \/ Chat!Reply
  BY <1>5, <1>8 DEF Chat!Model, Chat!AfterModel, Chat!Reply
<1>9. CASE Chat!Audit
  BY <1>5, <1>9 DEF Chat!Audit
<1>10. CASE UNCHANGED Chat!vars
  BY <1>10 DEF Chat!vars, InOrder
<1> QED
  BY <1>1, <1>2, <1>3, <1>4, <1>6, <1>7, <1>8, <1>9, <1>10 DEF Chat!Next, Chat!Turns

----------------------------------------------------------------------------
\* The replies.

LEMMA ChatReplies ==
    ASSUME ChatBounds, Chat!TypeOK, Replied, [Chat!Next]_Chat!vars
    PROVE  Replied' /\ [Chat!EndsWithReply]_Chat!vars
<1> USE DEF Chat!server, Chat!chatState, Chat!history
<1>1. CASE (\E k \in Chat!Kind : Chat!Send(k)) \/ Chat!Fetch \/ Chat!Crash
  <2>1. step' = "idle" /\ (step = "idle" \/ crashes' # crashes)
    BY <1>1 DEF Chat!Send, Chat!Fetch, Chat!Crash, Chat!TypeOK, ChatBounds
  <2> QED
    BY <2>1 DEF Replied, Chat!EndsWithReply
<1>2. CASE Chat!Take
  BY <1>2 DEF Chat!Take, Replied, Chat!EndsWithReply
<1>3. CASE Chat!Ignore \/ Chat!DirectRaises
  <2>1. step' = "idle" /\ kind[cur] \in {"ignored", "thumb", "direct"}
    BY <1>3 DEF Chat!Ignore, Chat!React, Chat!Silent, Chat!DirectRaises, Chat!Over
  <2> QED
    BY <2>1 DEF Replied, Chat!EndsWithReply
<1>4. CASE Chat!Direct \/ Chat!Unheard
  <2>1. step = "route" /\ step' = "reply" /\ UNCHANGED replies
    BY <1>4 DEF Chat!Direct, Chat!Unheard
  <2> QED
    BY <2>1 DEF Replied, Chat!EndsWithReply
<1>5. CASE Chat!Heard \/ Chat!Hydrate \/ Chat!Model \/ Chat!Save \/ Chat!Log
  <2>1. /\ step \in {"route", "hydrate", "model", "save", "log"} /\ UNCHANGED replies
        /\ step' \in {"hydrate", "model", "save", "log", "reply"}
    BY <1>5 DEF Chat!Heard, Chat!Hydrate, Chat!Model, Chat!AfterModel, Chat!Save, Chat!Log
  <2> QED
    BY <2>1 DEF Replied, Chat!EndsWithReply
<1>6. CASE Chat!Reply
  <2>1. /\ step = "reply" /\ step' \in {"link", "store"}
        /\ UNCHANGED <<kind, cur, unaudited, answer>>
        /\ replies' = replies + 1 \/ (answer = "empty" /\ replies' = replies)
    BY <1>6 DEF Chat!Reply
  <2> QED
    BY <2>1 DEF Replied, Again, Chat!EndsWithReply
<1>7. CASE Chat!Link \/ Chat!Store
  <2>1. /\ step \in {"link", "store"} /\ step' \in {"store", "audit"}
        /\ UNCHANGED <<kind, cur, unaudited, answer, replies>>
    BY <1>7 DEF Chat!Link, Chat!Store
  <2> QED
    BY <2>1 DEF Replied, Again, Chat!EndsWithReply
<1>8. CASE Chat!Audit
  <2>1. CASE step' = "idle"
    BY <1>8, <2>1 DEF Chat!Audit, Chat!RepliesAgain, Replied, Chat!EndsWithReply
  <2>2. CASE step' # "idle"
    <3>1. /\ step = "audit" /\ step' = "reply" /\ kind[cur] = "voice" /\ cur \notin unaudited
          /\ unaudited' = unaudited \cup {cur} /\ UNCHANGED <<kind, cur, replies>>
      BY <1>8, <2>2 DEF Chat!Audit, Chat!RepliesAgain, Chat!Over
    <3>2. replies \in {0, 1}
      BY <3>1 DEF Replied, Again, Chat!TypeOK
    <3> QED
      BY <3>1, <3>2 DEF Replied, Again, Chat!EndsWithReply
  <2> QED
    BY <2>1, <2>2
<1>9. CASE UNCHANGED Chat!vars
  BY <1>9 DEF Chat!vars, Replied, Again
<1> QED
  BY <1>1, <1>2, <1>3, <1>4, <1>5, <1>6, <1>7, <1>8, <1>9 DEF Chat!Next, Chat!Turns

----------------------------------------------------------------------------
\* The links.

LEMMA ChatLinks ==
    ASSUME ChatBounds, Chat!TypeOK, InOrder, Replied, Linking, [Chat!Next]_Chat!vars
    PROVE  Linking'
<1> USE DEF Chat!server, Chat!chatState, Chat!history
<1>b. /\ inbox \in Seq(Chat!Update) /\ Len(inbox) \in Nat /\ DOMAIN inbox = 1..Len(inbox)
      /\ log \in Seq(Chat!Turn) /\ Len(log) \in Nat /\ DOMAIN log = 1..Len(log)
      /\ \A j \in DOMAIN log : log[j].mid \in Nat
  <2>1. inbox \in Seq(Chat!Update) /\ log \in Seq(Chat!Turn)
    BY DEF Chat!TypeOK
  <2>2. \A j \in 1..Len(log) : log[j] \in Chat!Turn
    BY <2>1, LenProperties
  <2> QED
    BY <2>1, <2>2, LenProperties DEF Chat!Turn
\* Steps that write no message and no link.
<1>1. ASSUME UNCHANGED inbox, unlogged \subseteq unlogged',
             Len(log') = Len(log), DOMAIN log' = DOMAIN log,
             \A j \in DOMAIN log : log'[j].of = log[j].of /\ log'[j].mid = log[j].mid,
             \/ step' \notin {"reply", "link"}
             \/ step' = "reply" /\ kind'[cur'] # "chat"
             \/ UNCHANGED <<step, kind, cur>>
      PROVE  Linking'
  BY <1>1, <1>b DEF Linking, Chat!LinkedRight, Chat!Delivered
<1>2. CASE (\E k \in Chat!Kind : Chat!Send(k)) \/ Chat!Fetch \/ Chat!Take \/ Chat!Crash
           \/ Chat!DirectRaises \/ Chat!Unheard \/ Chat!Heard \/ Chat!Hydrate \/ Chat!Model
           \/ Chat!Save \/ Chat!Store
  <2>1. /\ UNCHANGED <<inbox, log, unlogged>>
        /\ \/ step' \notin {"reply", "link"}
           \/ step' = "reply" /\ kind'[cur'] # "chat"
    BY <1>2 DEF Chat!Send, Chat!Fetch, Chat!Take, Chat!Crash, Chat!DirectRaises, Chat!Over,
       Chat!Unheard, Chat!Heard, Chat!Hydrate, Chat!Model, Chat!AfterModel, Chat!Save, Chat!Store
  <2> QED
    BY <1>1, <2>1
<1>3. CASE Chat!Ignore
  BY <1>1, <1>3, LogKept DEF Chat!Ignore, Chat!Over
<1>4. CASE Chat!Direct
  <2>1. Chat!RateNewest \/ UNCHANGED log
    BY <1>4 DEF Chat!Direct
  <2>2. step' = "reply" /\ kind'[cur'] # "chat" /\ UNCHANGED <<inbox, unlogged>>
    BY <1>4 DEF Chat!Direct
  <2> QED
    BY <1>1, <2>1, <2>2, LogKept
<1>5. CASE Chat!Audit
  BY <1>1, <1>5 DEF Chat!Audit, Chat!Over, Chat!RepliesAgain
<1>6. CASE UNCHANGED Chat!vars
  BY <1>1, <1>6 DEF Chat!vars
<1>7. CASE Chat!Log
  <2>1. UNCHANGED <<inbox, kind, cur>> /\ step' = "reply"
    BY <1>7 DEF Chat!Log
  <2>2. CASE UNCHANGED log /\ unlogged' = unlogged \cup {cur}
    BY <2>1, <2>2 DEF Linking, Chat!LinkedRight
  <2>3. CASE log' = Append(log, [of |-> cur, mid |-> 0, mark |-> 0]) /\ UNCHANGED unlogged
    <3> DEFINE row == [of |-> cur, mid |-> 0, mark |-> 0]
    <3>1. row \in Chat!Turn /\ row.of = cur /\ row.mid = 0
      BY <1>7 DEF Chat!Log, InOrder, Chat!TypeOK, Chat!Turn, Chat!Update, ChatBounds
    <3> HIDE DEF row
    <3>2. /\ log' \in Seq(Chat!Turn) /\ Len(log') = Len(log) + 1 /\ log'[Len(log) + 1] = row
          /\ \A j \in 1..Len(log) : log'[j] = log[j]
      <4>1. log' = Append(log, row)
        BY <2>3 DEF row
      <4> QED
        BY <1>b, <3>1, <4>1, AppendProperties
    <3>3. DOMAIN log' = 1..(Len(log) + 1)
      BY <3>2, LenProperties
    <3>4. \A j \in DOMAIN log' : (j \in DOMAIN log /\ log'[j] = log[j]) \/ log'[j] = row
      BY <1>b, <3>2, <3>3
    <3>5. \A j \in DOMAIN log' : log'[j].mid <= Len(inbox)
      BY <1>b, <3>1, <3>4 DEF Linking
    <3>6. Chat!LinkedRight'
      BY <2>1, <2>3, <3>1, <3>4 DEF Linking, Chat!LinkedRight
    <3>7. Len(log') # 0 /\ log'[Len(log')].of = cur /\ log'[Len(log')].mid = 0
      BY <1>b, <3>1, <3>2
    <3> QED
      BY <2>1, <3>5, <3>6, <3>7 DEF Linking
  <2> QED
    BY <1>7, <2>2, <2>3 DEF Chat!Log
<1>8. CASE Chat!Reply
  <2>1. /\ step = "reply" /\ UNCHANGED <<log, kind, cur, unlogged>>
        /\ \/ step' = "store" /\ UNCHANGED inbox
           \/ step' \in {"link", "store"} /\ inbox' = Append(inbox, cur)
              /\ (step' = "link" => kind[cur] = "chat")
    BY <1>8 DEF Chat!Reply
  <2>2. CASE UNCHANGED inbox /\ step' = "store"
    BY <2>1, <2>2 DEF Linking, Chat!LinkedRight
  <2>3. CASE inbox' = Append(inbox, cur) /\ step' \in {"link", "store"}
             /\ (step' = "link" => kind[cur] = "chat")
    <3>1. cur \in Chat!Update
      BY <2>1 DEF InOrder, Chat!TypeOK, Chat!Update, ChatBounds
    <3>2. /\ Len(inbox') = Len(inbox) + 1 /\ inbox'[Len(inbox) + 1] = cur /\ inbox' # << >>
          /\ \A i \in 1..Len(inbox) : inbox'[i] = inbox[i]
      BY <1>b, <2>3, <3>1, AppendProperties
    <3>3. \A j \in DOMAIN log : log[j].mid <= Len(inbox')
          /\ (log[j].mid # 0 => inbox'[log[j].mid] = inbox[log[j].mid])
      BY <1>b, <3>2 DEF Linking
    <3>4. Chat!LinkedRight'
      BY <2>1, <3>3 DEF Linking, Chat!LinkedRight
    <3>5. Chat!Delivered'
      BY <2>1, <3>2 DEF Chat!Delivered
    <3> QED
      BY <2>1, <2>3, <3>3, <3>4, <3>5 DEF Linking
  <2> QED
    BY <2>1, <2>2, <2>3
<1>9. CASE Chat!Link
  <2>1. step = "link" /\ step' = "store" /\ UNCHANGED <<inbox, kind, cur, unlogged>>
    BY <1>9 DEF Chat!Link
  <2>2. inbox[Len(inbox)] = cur /\ Len(inbox) # 0
    BY <1>b, <2>1, EmptySeq DEF Linking, Chat!Delivered
  <2>3. cur \notin unlogged => Len(log) # 0 /\ log[Len(log)].of = cur /\ log[Len(log)].mid = 0
    BY <2>1 DEF Linking
  <2>4. ASSUME NEW j \in DOMAIN log, log'[j] # log[j]
        PROVE  /\ log'[j].of = log[j].of /\ log'[j].mid = Len(inbox)
               /\ log[j].of = cur \/ cur \in unlogged
    BY <1>9, <2>3, <2>4, LinkIs
  <2>5. \A j \in DOMAIN log : log'[j].mid <= Len(inbox)
    BY <1>b, <2>4 DEF Linking
  <2>6. DOMAIN log' = DOMAIN log
    BY <1>9, LinkIs
  <2>7. Chat!LinkedRight'
    BY <2>1, <2>2, <2>4, <2>6 DEF Linking, Chat!LinkedRight
  <2> QED
    BY <2>1, <2>5, <2>6, <2>7 DEF Linking
<1> QED
  BY <1>2, <1>3, <1>4, <1>5, <1>6, <1>7, <1>8, <1>9 DEF Chat!Next, Chat!Turns

----------------------------------------------------------------------------
\* What the model is given.

LEMMA ChatMemory ==
    ASSUME ChatBounds, Chat!TypeOK, InOrder, Linking, Remembered, [Chat!Next]_Chat!vars
    PROVE  Remembered'
<1> USE DEF Chat!server, Chat!chatState, Chat!history
<1>b. /\ rows \in Seq(Chat!Entry) /\ Len(rows) \in Nat /\ DOMAIN rows = 1..Len(rows)
      /\ crashes \in Nat /\ faults \in Nat /\ cur \in Nat
  <2>1. rows \in Seq(Chat!Entry)
    BY DEF Chat!TypeOK
  <2> QED
    BY <2>1, LenProperties DEF Chat!TypeOK, ChatBounds
<1> SUFFICES ASSUME faults' = 0 PROVE Remembered'
  BY DEF Remembered
<1>f. faults = 0 /\ UNCHANGED faults
  <2>1. faults' = faults \/ Chat!Fault
    BY DEF Chat!Next, Chat!Turns, Chat!vars, Chat!Send, Chat!Fetch, Chat!Take, Chat!Crash, Chat!Ignore,
       Chat!Direct, Chat!DirectRaises, Chat!Unheard, Chat!NotTranscribed, Chat!Heard, Chat!Hydrate,
       Chat!Model, Chat!Save, Chat!Stored, Chat!Log, Chat!Reply, Chat!Link, Chat!Store, Chat!Audit,
       Chat!NoFault
  <2> QED
    BY <1>b, <2>1 DEF Chat!Fault
<1>n. ~Chat!Fault
  BY <1>b, <1>f DEF Chat!Fault
\* Steps that store nothing.
<1>1. ASSUME UNCHANGED <<rows, seen>>, answer' = "text", crashes' \in Nat,
             (crashes' = crashes /\ Slack <= Slack') \/ crashes' = crashes + 1,
             step' # "model" \/ UNCHANGED <<step, memory, crashes>>,
             step' # "store" \/ Chat!Delivered'
      PROVE  Remembered'
  <2>1. ASSUME NEW i \in DOMAIN rows, Len(rows) - i <= 2 * crashes + Slack
        PROVE  Len(rows) - i <= 2 * crashes' + Slack'
    BY <1>1, <1>b, <2>1 DEF Slack
  <2>2. step' = "model" /\ Chat!ContextKnowsLast => Chat!ContextKnowsLast'
    BY <1>1, <1>f DEF Chat!ContextKnowsLast
  <2>3. step' # "model" => Chat!ContextKnowsLast'
    BY DEF Chat!ContextKnowsLast
  <2> QED
    BY <1>1, <1>f, <2>1, <2>2, <2>3 DEF Remembered
<1>2. CASE (\E k \in Chat!Kind : Chat!Send(k)) \/ Chat!Fetch \/ Chat!Take \/ Chat!Ignore
           \/ Chat!Direct \/ Chat!Heard \/ Chat!Audit
  <2>1. /\ UNCHANGED <<rows, seen, crashes>> /\ answer' = "text"
        /\ step \in {"idle", "route", "audit"} /\ step' \notin {"model", "store"}
    BY <1>2, <1>f, <1>n DEF Remembered, Chat!Send, Chat!Fetch, Chat!Take, Chat!Ignore, Chat!Over,
       Chat!Direct, Chat!Heard, Chat!Audit
  <2> QED
    BY <1>1, <1>b, <2>1 DEF Slack
<1>3. CASE Chat!DirectRaises \/ Chat!Unheard
  BY <1>3, <1>n DEF Chat!DirectRaises, Chat!Unheard, Chat!NotTranscribed
<1>4. CASE Chat!Crash
  BY <1>1, <1>4, <1>b DEF Chat!Crash
<1>5. CASE Chat!Model \/ Chat!Log
  <2>1. /\ UNCHANGED <<rows, seen, crashes>> /\ answer' = "text"
        /\ (step = "model" /\ step' = "save") \/ (step = "log" /\ step' = "reply")
    BY <1>5, <1>f, <1>n DEF Chat!Model, Chat!AfterModel, Chat!Log, Remembered
  <2> QED
    BY <1>1, <1>b, <2>1 DEF Slack
<1>6. CASE Chat!Reply
  <2>1. /\ UNCHANGED <<rows, seen, crashes, cur>> /\ answer' = "text"
        /\ step = "reply" /\ step' \in {"link", "store"} /\ inbox' = Append(inbox, cur)
    BY <1>6, <1>f, <1>n DEF Chat!Reply, Remembered
  <2>2. Chat!Delivered'
    <3>1. inbox \in Seq(Chat!Update) /\ cur \in Chat!Update
      BY <2>1 DEF InOrder, Chat!TypeOK, Chat!Update, ChatBounds
    <3>2. inbox' # << >> /\ Len(inbox') = Len(inbox) + 1 /\ inbox'[Len(inbox) + 1] = cur
      BY <2>1, <3>1, AppendProperties
    <3> QED
      BY <2>1, <3>2 DEF Chat!Delivered
  <2> QED
    BY <1>1, <1>b, <2>1, <2>2 DEF Slack
<1>7. CASE Chat!Link
  <2>1. /\ UNCHANGED <<rows, seen, crashes, cur, inbox, answer>>
        /\ step = "link" /\ step' = "store"
    BY <1>7 DEF Chat!Link
  <2> QED
    BY <1>1, <1>b, <1>f, <2>1 DEF Slack, Linking, Remembered, Chat!Delivered
\* The two rows of a turn.
<1> DEFINE both == <<<<"user", cur>>, <<"evi", cur>>>>
<1>s. ASSUME Chat!Stored, cur # 0
      PROVE  /\ rows' \in Seq(Chat!Entry) /\ Len(rows') = Len(rows) + 2
             /\ DOMAIN rows' = 1..(Len(rows) + 2)
             /\ \A i \in 1..Len(rows) : rows'[i] = rows[i]
             /\ rows'[Len(rows) + 2] = <<"evi", cur>>
  <2>1. rows' = rows \o both
    BY <1>s, <1>n DEF Chat!Stored
  <2>2. rows' \in Seq(Chat!Entry) /\ Len(rows') = Len(rows) + 2
        /\ (\A i \in 1..Len(rows) : rows'[i] = rows[i])
        /\ rows'[Len(rows) + 2] = <<"evi", cur>>
    BY <1>s, <2>1, PairOfRows
  <2> QED
    BY <2>2, LenProperties
<1> HIDE DEF both
<1>8. CASE Chat!Save
  <2>1. /\ UNCHANGED <<seen, crashes, answer>> /\ step = "save" /\ step' = "log"
        /\ Chat!Stored /\ cur # 0
    BY <1>8 DEF Chat!Save, InOrder
  <2>2. ASSUME NEW i \in DOMAIN rows, rows[i] = <<"evi", seen>>, Len(rows) - i <= 2 * crashes + Slack
        PROVE  i \in DOMAIN rows' /\ rows'[i] = <<"evi", seen'>>
               /\ Len(rows') - i <= 2 * crashes' + Slack'
    BY <1>b, <1>s, <2>1, <2>2 DEF Slack
  <2>3. seen' # 0 => \E i \in DOMAIN rows' : /\ rows'[i] = <<"evi", seen'>>
                                             /\ Len(rows') - i <= 2 * crashes' + Slack'
    BY <1>f, <2>1, <2>2 DEF Remembered
  <2> QED
    BY <1>f, <2>1, <2>3 DEF Remembered, Chat!ContextKnowsLast
<1>9. CASE Chat!Store
  <2>1. /\ UNCHANGED <<crashes, answer>> /\ step = "store" /\ step' = "audit"
        /\ Chat!Stored /\ cur # 0 /\ seen' = cur
    BY <1>9, <1>f DEF Chat!Store, InOrder, Remembered
  <2>2. /\ Len(rows) + 2 \in DOMAIN rows' /\ rows'[Len(rows) + 2] = <<"evi", seen'>>
        /\ Len(rows') - (Len(rows) + 2) <= 2 * crashes' + Slack'
    BY <1>b, <1>s, <2>1 DEF Slack
  <2> QED
    BY <1>f, <2>1, <2>2 DEF Remembered, Chat!ContextKnowsLast
<1>10. CASE Chat!Hydrate
  <2> DEFINE e == <<"user", cur>>
             r == Chat!Recent(rows)
             m == Append(r, e)
  <2>1. /\ UNCHANGED <<rows, seen, crashes, answer>> /\ step = "hydrate" /\ step' = "model"
        /\ memory' = Chat!NewestOf(m, MaxRows) /\ cur # 0
    BY <1>10, <1>n DEF Chat!Hydrate, InOrder, Chat!Added
  <2>2. e \in Chat!Entry
    BY <2>1, PairOfRows
  <2> HIDE DEF e
  <2>3. /\ r \in Seq(Chat!Entry)
        /\ \A i \in DOMAIN rows : Len(rows) - i < MaxRows =>
              \E k \in DOMAIN r : r[k] = rows[i] /\ Len(r) - k = Len(rows) - i
    BY <1>b, NewestIs DEF Chat!Recent, ChatBounds
  <2> HIDE DEF r
  <2>4. /\ m \in Seq(Chat!Entry) /\ Len(m) = Len(r) + 1 /\ Len(r) \in Nat
        /\ DOMAIN m = 1..Len(m) /\ DOMAIN r = 1..Len(r)
        /\ \A k \in 1..Len(r) : m[k] = r[k]
    BY <2>2, <2>3, AppendProperties, LenProperties
  <2> HIDE DEF m
  <2>5. \A k \in DOMAIN m : Len(m) - k < MaxRows => \E j \in DOMAIN memory' : memory'[j] = m[k]
    BY <2>1, <2>4, NewestIs DEF ChatBounds
  <2>6. ASSUME NEW i \in DOMAIN rows, rows[i] = <<"evi", seen>>, Len(rows) - i <= 2 * crashes,
               2 * crashes + 2 <= MaxRows
        PROVE  \E j \in DOMAIN memory' : memory'[j] = <<"evi", seen>>
    <3>1. Len(rows) - i < MaxRows /\ Len(rows) - i + 1 < MaxRows
      BY <1>b, <2>6 DEF ChatBounds
    <3>2. PICK k \in DOMAIN r : r[k] = rows[i] /\ Len(r) - k = Len(rows) - i
      BY <2>3, <3>1
    <3>3. k \in DOMAIN m /\ m[k] = <<"evi", seen>> /\ Len(m) - k < MaxRows
      BY <1>b, <2>4, <2>6, <3>1, <3>2
    <3> QED
      BY <2>5, <3>3
  <2>7. seen # 0 => \E i \in DOMAIN rows : rows[i] = <<"evi", seen>> /\ Len(rows) - i <= 2 * crashes
    BY <1>b, <1>f, <2>1 DEF Remembered, Slack
  <2>8. Chat!ContextKnowsLast'
    BY <2>1, <2>6, <2>7 DEF Chat!ContextKnowsLast
  <2>9. seen' # 0 => \E i \in DOMAIN rows' : /\ rows'[i] = <<"evi", seen'>>
                                             /\ Len(rows') - i <= 2 * crashes' + Slack'
    <3>1. Slack' = 0 /\ 2 * crashes \in Nat /\ 2 * crashes = 2 * crashes' + 0
      BY <1>b, <2>1 DEF Slack
    <3> QED
      BY <2>1, <2>7, <3>1
  <2> QED
    BY <1>f, <2>1, <2>8, <2>9 DEF Remembered
<1>11. CASE UNCHANGED Chat!vars
  BY <1>11 DEF Chat!vars, Remembered, Slack, Chat!ContextKnowsLast, Chat!Delivered
<1> QED
  BY <1>2, <1>3, <1>4, <1>5, <1>6, <1>7, <1>8, <1>9, <1>10, <1>11 DEF Chat!Next, Chat!Turns

LEMMA ChatStarts == ASSUME ChatBounds PROVE Chat!Init => ChatInv
<1> SUFFICES ASSUME Chat!Init PROVE ChatInv
  OBVIOUS
<1>1. /\ << >> \in Seq(Chat!Entry) /\ << >> \in Seq(Chat!Update) /\ << >> \in Seq(Chat!Turn)
      /\ Len(<< >>) = 0
  OBVIOUS
<1>2. Chat!TypeOK
  BY <1>1 DEF Chat!Init, Chat!TypeOK, Chat!Update, Chat!Kind, ChatBounds
<1>3. DOMAIN log = {} /\ DOMAIN batch = {} /\ \A u \in Chat!Update : u >= 1
  BY DEF Chat!Init, Chat!Update, ChatBounds
<1>4. InOrder
  BY <1>3 DEF Chat!Init, InOrder
<1>5. Linking /\ Replied /\ Remembered
  BY <1>3 DEF Chat!Init, Linking, Chat!LinkedRight, Replied, Remembered, Chat!ContextKnowsLast
<1> QED
  BY <1>2, <1>4, <1>5 DEF ChatInv

\* What the invariant says of the parts of ChatRight.
LEMMA ChatSays ==
    ASSUME ChatBounds, ChatInv
    PROVE  /\ Chat!NoneLost /\ Chat!RepeatedByCrashOnly /\ Chat!ContextKnowsLast
           /\ Chat!SecondReplyExplained /\ Chat!LinkedRight
<1>1. Chat!NoneLost /\ Chat!LinkedRight
  BY DEF ChatInv, InOrder, Linking, Chat!NoneLost
<1>2. Chat!RepeatedByCrashOnly
  BY DEF ChatInv, InOrder, Chat!TypeOK, Chat!RepeatedByCrashOnly, ChatBounds
<1>3. Chat!ContextKnowsLast
  BY DEF ChatInv, Remembered, Chat!ContextKnowsLast
<1>4. Chat!SecondReplyExplained
  BY DEF ChatInv, Replied, Again, Chat!TypeOK, Chat!SecondReplyExplained
<1> QED
  BY <1>1, <1>2, <1>3, <1>4

\* Whatever the process, the model, the database or the network do, an update is taken
\* up once per life of the process and is handled before the server forgets it
\* (_poll_loop); it gets one reply, a second one only where the audit of a voice turn
\* failed, and none only where a direct handler raised (_reply_direct, _voice_turn); a
\* thumb is for the turn its message answered (set_turn_tg_message_id); and a turn is
\* given the answer the user saw last (_hydrate_memory).
THEOREM ChatRightAlways == ASSUME ChatBounds PROVE Chat!Spec => Chat!ChatRight
<1>1. Chat!Init => ChatInv
  BY ChatStarts
<1>2. ChatInv /\ [Chat!Next]_Chat!vars => ChatInv' /\ [Chat!EndsWithReply]_Chat!vars
  BY ChatTypes, ChatOrder, ChatReplies, ChatLinks, ChatMemory DEF ChatInv
<1>3. ChatInv => /\ Chat!NoneLost /\ Chat!RepeatedByCrashOnly /\ Chat!ContextKnowsLast
                 /\ Chat!SecondReplyExplained /\ Chat!LinkedRight
  BY ChatSays
<1> QED
  BY <1>1, <1>2, <1>3, PTL DEF Chat!Spec, Chat!ChatRight
=============================================================================
