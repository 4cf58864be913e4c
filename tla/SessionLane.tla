----------------------------- MODULE SessionLane ----------------------------
(***************************************************************************)
(* One turn at a time per conversation: `session_lane` of                  *)
(* agent/services/session_lane.py over the lock registry of                *)
(* agent/services/session_memory.py (`get_lane_lock`), which forgets the   *)
(* least recently used lock above a limit.  Looking a lock up and          *)
(* acquiring it are two steps of a thread.                                 *)
(***************************************************************************)
EXTENDS Integers, SequencesExt, FiniteSets

CONSTANTS
    Session,   \* conversation ids
    Thread,    \* threads of the server and of the Telegram poller
    Limit,     \* EVI_SESSION_MEMORY_MAX (32)
    MaxLocks   \* bound: lock objects created

VARIABLES
    lanes,     \* _lane_locks: <session, lock> entries, least recently used first
    made,      \* lock objects created so far; a lock is its number
    pc,        \* "idle", "wait": has a lock and has not acquired it, "turn"
    session,   \* the session a thread works for
    lock,      \* the lock object it was given; 0 when it has none
    lost       \* history: locks dropped while a thread was about to acquire them

vars == <<lanes, made, pc, session, lock, lost>>

Lane == [session : Session, lock : 1..MaxLocks]

\* The registry is a dictionary: one entry a session.
TypeOK ==
    /\ lanes \in Seq(Lane)
    /\ \A j, k \in DOMAIN lanes : lanes[j].session = lanes[k].session => j = k
    /\ made \in 0..MaxLocks
    /\ pc \in [Thread -> {"idle", "wait", "turn"}]
    /\ session \in [Thread -> Session]
    /\ lock \in [Thread -> 0..MaxLocks]
    /\ lost \subseteq 1..MaxLocks

Init ==
    /\ lanes = << >>
    /\ made = 0
    /\ pc = [t \in Thread |-> "idle"]
    /\ session \in [Thread -> {CHOOSE s \in Session : TRUE}]
    /\ lock = [t \in Thread |-> 0]
    /\ lost = {}

Locked(l) == \E t \in Thread : pc[t] = "turn" /\ lock[t] = l

Known(s) == \E k \in DOMAIN lanes : lanes[k].session = s
Place(s) == CHOOSE k \in DOMAIN lanes : lanes[k].session = s
Entry(s) == lanes[Place(s)]
\* Faulty variant: a session asked for again is entered a second time.
OthersAll(s) == lanes
Others(s) == RemoveAt(lanes, Place(s))

\* Faulty variant: a held lock is dropped like any other.
EvictedBlindly(q, s) == SubSeq(q, IF Len(q) > Limit THEN Len(q) - Limit + 1 ELSE 1, Len(q))

\* The eviction loop: drops the oldest entries above the limit, and stops at
\* the session just asked for and at a lock that is held.
Evicted(q, s) ==
    LET Droppable(k) == q[k].session # s /\ ~Locked(q[k].lock)
        dropped == {n \in 0..Len(q) :
                      /\ n = 0 \/ n <= Len(q) - Limit
                      /\ \A k \in 1..n : Droppable(k)}
    IN SubSeq(q, (CHOOSE n \in dropped : \A m \in dropped : m <= n) + 1, Len(q))

Registered(l) == \E k \in DOMAIN lanes : lanes[k].lock = l
InHand == {lock[t] : t \in {u \in Thread : pc[u] = "wait"}}

\* get_lane_lock, whole under the registry's own lock.
GetLaneLock(t, s) ==
    /\ pc[t] = "idle"
    /\ pc' = [pc EXCEPT ![t] = "wait"]
    /\ session' = [session EXCEPT ![t] = s]
    /\ \/ /\ Known(s)
          /\ lock' = [lock EXCEPT ![t] = Entry(s).lock]
          /\ lanes' = Evicted(Append(Others(s), Entry(s)), s)
          /\ UNCHANGED made
       \/ /\ ~Known(s)
          /\ made < MaxLocks
          /\ made' = made + 1
          /\ lock' = [lock EXCEPT ![t] = made + 1]
          /\ lanes' = Evicted(Append(lanes, [session |-> s, lock |-> made + 1]), s)
    /\ lost' = lost \cup {l \in InHand : Registered(l) /\ ~Registered(l)'}

Acquire(t) ==
    /\ pc[t] = "wait"
    /\ ~Locked(lock[t])
    /\ pc' = [pc EXCEPT ![t] = "turn"]
    /\ UNCHANGED <<lanes, made, session, lock, lost>>

\* The turn is over; lock.release() in the finally clause.
Release(t) ==
    /\ pc[t] = "turn"
    /\ pc' = [pc EXCEPT ![t] = "idle"]
    /\ lock' = [lock EXCEPT ![t] = 0]
    /\ UNCHANGED <<lanes, made, session, lost>>

Next == \E t \in Thread : \/ \E s \in Session : GetLaneLock(t, s)
                          \/ Acquire(t)
                          \/ Release(t)

Spec == Init /\ [][Next]_vars

----------------------------------------------------------------------------
Overlap(t, u) == /\ t # u
                 /\ pc[t] = "turn" /\ pc[u] = "turn"
                 /\ session[t] = session[u]

\* "Serialize work for one session_id": two turns of a conversation never run
\* at once, through whichever channel they came.  It holds as long as the
\* sessions fit into the registry; above the limit a lock that a thread has
\* been given and has not yet acquired can be dropped, and the next thread of
\* that session is given another one.
OneTurnPerSession == \A t, u \in Thread : ~Overlap(t, u)

\* Eviction itself never splits a session whose lock is held: two turns overlap
\* only where one of them acquired a lock dropped from its hands before that.
OverlapOnlyIfLost ==
    \A t, u \in Thread : Overlap(t, u) => lock[t] \in lost \/ lock[u] \in lost
=============================================================================
