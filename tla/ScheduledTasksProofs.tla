------------------------ MODULE ScheduledTasksProofs ------------------------
(* The scheduled tasks, for any rows, processes, caps, periods and faults:  *)
(* an occurrence is run once, and a missed one is not made up for, except   *)
(* on a row that a resume moved back behind a run.  And the dates: the next *)
(* one of a series, for any calendar, zone and deliveries, and the one that *)
(* a text means.                                                            *)
EXTENDS ScheduledTasks, FiniteSetTheorems, SequenceTheorems, WellFoundedInduction, TLAPS

\* What the proofs need of the types.
Shape ==
  /\ now \in Int
  /\ presence \in [Id -> {"absent", "listed", "deleted"}]
  /\ active \in [Id -> BOOLEAN] /\ nextAt \in [Id -> Int] /\ repeat \in [Id -> BOOLEAN]
  /\ \A q \in requests : q \in Request
  /\ commands \in Nat
  /\ tickNow \in [Proc -> Int]
  /\ rows \in [Proc -> SUBSET DueRow]
  /\ log \in Seq(Run)

\* Only a listed row is active; what a tick read was due; what ran was due and is a row.
RowsSound ==
  /\ \A i \in Id : active[i] => presence[i] = "listed"
  /\ \A p \in Proc : \A r \in rows[p] : r.due <= tickNow[p]
  /\ \A k \in DOMAIN log : presence[log[k].id] # "absent" /\ log[k].due <= log[k].at

\* A row that is still scheduled is scheduled after the tick of its every run.
Ahead ==
  \A k \in DOMAIN log :
    log[k].id \notin rewound /\ active[log[k].id] => log[k].at < nextAt[log[k].id]

\* The runs of a row follow one another.
Ordered ==
  \A j, k \in DOMAIN log :
    j < k /\ log[j].id = log[k].id /\ log[j].id \notin rewound => log[j].at < log[k].due

OnceInv == Shape /\ RowsSound /\ Ahead /\ Ordered

----------------------------------------------------------------------------
\* The next occurrence of a series is after the given time, and after the old one.
LEMMA DivisionBounds ==
    ASSUME NEW x \in Nat, NEW step \in Nat \ {0}
    PROVE  (x \div step) \in Int /\ x < step * ((x \div step) + 1)
  OBVIOUS

LEMMA NextIsLater ==
    ASSUME NEW d \in Int, NEW after \in Int, NEW step \in Nat \ {0}
    PROVE  /\ NextOccurrence(d, after, step) \in Int
           /\ NextOccurrence(d, after, step) > after
           /\ NextOccurrence(d, after, step) > d
<1>1. CASE after < d
  BY <1>1 DEF NextOccurrence
<1>2. CASE ~(after < d)
  <2> DEFINE n == step * (((after - d) \div step) + 1)
  <2>1. after - d \in Nat
    BY <1>2
  <2>2. after - d < n /\ n \in Int
    BY <2>1, DivisionBounds
  <2>3. NextOccurrence(d, after, step) = d + n
    BY <1>2 DEF NextOccurrence
  <2> HIDE DEF n
  <2> QED
    BY <2>1, <2>2, <2>3
<1> QED
  BY <1>1, <1>2

----------------------------------------------------------------------------
\* What a step may do to the rows without starting a run: a row that becomes active is
\* listed, and one that stays active and is not moved on is marked as rewound.
RowsMove ==
  /\ presence' \in [Id -> {"absent", "listed", "deleted"}]
  /\ active' \in [Id -> BOOLEAN] /\ nextAt' \in [Id -> Int] /\ repeat' \in [Id -> BOOLEAN]
  /\ \A i \in Id : presence[i] # "absent" => presence'[i] # "absent"
  /\ \A i \in Id : active'[i] => presence'[i] = "listed"
  /\ rewound \subseteq rewound'
  /\ \A i \in Id : active'[i] /\ i \notin rewound' =>
       \/ active[i] /\ nextAt[i] <= nextAt'[i]
       \/ ~Covered(i, nextAt'[i])

\* The tick's own variables stay sound.
TickMoves ==
  /\ now' \in Int
  /\ \A q \in requests' : q \in Request
  /\ commands' \in Nat
  /\ tickNow' \in [Proc -> Int]
  /\ rows' \in [Proc -> SUBSET DueRow]
  /\ \A p \in Proc : \A r \in rows'[p] : r.due <= tickNow'[p]

LEMMA RunsTyped ==
    ASSUME Shape
    PROVE  \A k \in DOMAIN log : log[k].id \in Id /\ log[k].due \in Int /\ log[k].at \in Int
<1>1. log \in Seq(Run)
  BY DEF Shape
<1>2. \A k \in DOMAIN log : log[k] \in Run
  BY <1>1
<1> QED
  BY <1>2 DEF Run

LEMMA NoRunStarts ==
    ASSUME OnceInv, RowsMove, TickMoves, UNCHANGED log
    PROVE  OnceInv'
<1>1. \A k \in DOMAIN log : log[k].id \in Id /\ log[k].at \in Int
  BY RunsTyped DEF OnceInv
<1>2. Shape'
  BY DEF OnceInv, Shape, RowsMove, TickMoves
<1>3. RowsSound'
  BY <1>1 DEF OnceInv, RowsSound, RowsMove, TickMoves
<1>4. Ordered'
  BY <1>1 DEF OnceInv, Ordered, RowsMove
<1>5. Ahead'
  <2>1. SUFFICES ASSUME NEW k \in DOMAIN log, log[k].id \notin rewound', active'[log[k].id]
                 PROVE  log[k].at < nextAt'[log[k].id]
    BY DEF Ahead
  <2> DEFINE i == log[k].id
  <2>2. i \in Id /\ log[k].at \in Int /\ nextAt[i] \in Int /\ nextAt'[i] \in Int /\ i \notin rewound
    BY <1>1, <2>1 DEF OnceInv, Shape, RowsMove
  <2>3. CASE active[i] /\ nextAt[i] <= nextAt'[i]
    BY <2>1, <2>2, <2>3 DEF OnceInv, Ahead
  <2>4. CASE ~Covered(i, nextAt'[i])
    BY <2>2, <2>4 DEF Covered
  <2> QED
    BY <2>1, <2>2, <2>3, <2>4 DEF RowsMove
<1> QED
  BY <1>2, <1>3, <1>4, <1>5 DEF OnceInv

\* Steps that leave the rows alone.
LEMMA RowsStay ==
    ASSUME OnceInv, UNCHANGED table, UNCHANGED rewound
    PROVE  RowsMove
  BY DEF OnceInv, Shape, RowsSound, RowsMove, table

\* Steps that leave run_due alone.
LEMMA TickStays ==
    ASSUME OnceInv, UNCHANGED <<tickNow, rows>>, now' \in Int, commands' \in Nat, \A q \in requests' : q \in Request
    PROVE  TickMoves
  BY DEF OnceInv, Shape, RowsSound, TickMoves

----------------------------------------------------------------------------
\* Requests of the user.
LEMMA CreateStep ==
    ASSUME OnceInv, NEW i \in Id, NEW d \in 0..MaxTime, NEW rep \in BOOLEAN, CreateTask(i, d, rep)
    PROVE  OnceInv'
<1>1. /\ presence[i] = "absent"
      /\ presence' = [presence EXCEPT ![i] = "listed"] /\ active' = [active EXCEPT ![i] = TRUE]
      /\ nextAt' = [nextAt EXCEPT ![i] = d] /\ repeat' = [repeat EXCEPT ![i] = rep]
      /\ commands' = commands + 1 /\ UNCHANGED <<now, requests, tickNow, rows, log, rewound>>
  BY DEF CreateTask, Command, tick
<1>2. ~Covered(i, d)
  BY <1>1 DEF OnceInv, RowsSound, Covered
<1>3. RowsMove
  <2>1. \A k \in Id \ {i} : presence'[k] = presence[k] /\ active'[k] = active[k] /\ nextAt'[k] = nextAt[k]
    BY <1>1 DEF OnceInv, Shape
  <2>2. presence'[i] = "listed" /\ nextAt'[i] = d
    BY <1>1 DEF OnceInv, Shape
  <2> QED
    BY <1>1, <1>2, <2>1, <2>2 DEF OnceInv, Shape, RowsSound, RowsMove
<1>4. TickMoves
  BY <1>1, TickStays DEF OnceInv, Shape
<1> QED
  BY <1>1, <1>3, <1>4, NoRunStarts

LEMMA BeginStep ==
    ASSUME OnceInv, NEW p \in Proc, NEW i \in Id, NEW op \in {"cancel", "pause", "resume"},
           BeginRequest(p, op, i)
    PROVE  OnceInv'
<1> DEFINE q == [n |-> commands, proc |-> p, op |-> op, id |-> i, stage |-> "find",
                 at |-> IF op = "resume" THEN now ELSE 0, next |-> 0]
<1>1. requests' = requests \cup {q} /\ commands' = commands + 1
      /\ UNCHANGED <<now, table, tickNow, rows, log, rewound>>
  BY DEF BeginRequest, Command, tick
<1>2. q \in Request
  BY DEF OnceInv, Shape, Request
<1> HIDE DEF q
<1>3. TickMoves
  BY <1>1, <1>2, TickStays DEF OnceInv, Shape
<1> QED
  BY <1>1, <1>3, RowsStay, NoRunStarts

LEMMA FindStep ==
    ASSUME OnceInv, NEW q \in requests, FindTask(q)
    PROVE  OnceInv'
<1>1. q \in Request /\ nextAt \in [Id -> Int]
  BY DEF OnceInv, Shape
<1>2. ResumeTo(q) \in Int
  <2>1. nextAt[q.id] \in Int /\ q.at \in Int
    BY <1>1 DEF Request
  <2>2. NextOccurrence(nextAt[q.id], q.at, Period) \in Int
    BY <2>1, NextIsLater, ParameterAssumption
  <2> QED
    BY <2>1, <2>2 DEF ResumeTo
<1> DEFINE target == IF q.op = "resume" THEN ResumeTo(q) ELSE 0
           found == [q EXCEPT !.stage = "write", !.next = target]
<1>3. found \in Request
  <2>1. target \in Int
    BY <1>2
  <2> HIDE DEF target
  <2> QED
    BY <1>1, <2>1 DEF Request
<1>4. /\ requests' = (requests \ {q}) \cup (IF Refused(q) THEN {} ELSE {found})
      /\ UNCHANGED <<now, table, tickNow, rows, log, rewound, commands>>
  BY DEF FindTask, tick
<1> HIDE DEF found, target
<1>5. TickMoves
  BY <1>3, <1>4, TickStays DEF OnceInv, Shape
<1> QED
  BY <1>4, <1>5, RowsStay, NoRunStarts

LEMMA WriteStep ==
    ASSUME OnceInv, NEW q \in requests, WriteTask(q)
    PROVE  OnceInv'
<1>1. q \in Request /\ q.id \in Id /\ q.next \in Int
  BY DEF OnceInv, Shape, Request
<1>2. requests' = requests \ {q} /\ UNCHANGED <<now, repeat, tickNow, rows, log, commands>>
  BY DEF WriteTask, tick
<1>3. TickMoves
  BY <1>2, TickStays DEF OnceInv, Shape
<1>4. RowsMove
  <2> USE DEF OnceInv, Shape, RowsSound, RowsMove
  <2>1. CASE UNCHANGED <<presence, active, nextAt, rewound>>
    BY <1>2, <2>1
  <2>2. CASE CancelRow(q.id)
    BY <1>1, <1>2, <2>2 DEF CancelRow
  <2>3. CASE PauseRow(q.id)
    BY <1>1, <1>2, <2>3 DEF PauseRow
  <2>4. CASE presence[q.id] = "listed" /\ ResumeRow(q.id, q.next)
    <3>1. CASE UNCHANGED <<active, nextAt, rewound>>
      BY <1>2, <2>4, <3>1 DEF ResumeRow
    <3>2. CASE /\ active' = [active EXCEPT ![q.id] = TRUE]
               /\ nextAt' = [nextAt EXCEPT ![q.id] = q.next]
               /\ rewound' = IF Covered(q.id, q.next) THEN rewound \cup {q.id} ELSE rewound
      <4>1. presence' = presence
        BY <2>4 DEF ResumeRow
      <4>2. \A i \in Id \ {q.id} : active'[i] = active[i] /\ nextAt'[i] = nextAt[i]
        BY <3>2
      <4>3. nextAt'[q.id] = q.next
        BY <1>1, <3>2
      <4> QED
        BY <1>1, <1>2, <2>4, <3>2, <4>1, <4>2, <4>3
    <3> QED
      BY <2>4, <3>1, <3>2 DEF ResumeRow
  <2> QED
    BY <2>1, <2>2, <2>3, <2>4 DEF WriteTask
<1> QED
  BY <1>2, <1>3, <1>4, NoRunStarts

----------------------------------------------------------------------------
\* The tick of a process.
LEMMA ContinueMoves ==
    ASSUME OnceInv, NEW p \in Proc, NEW left \in SUBSET rows[p], NEW count, Continue(p, left, count),
           UNCHANGED <<now, requests, commands>>
    PROVE  TickMoves
<1>1. /\ rows' = [rows EXCEPT ![p] = left]
      /\ tickNow' = [tickNow EXCEPT ![p] = IF left = {} THEN 0 ELSE @]
  BY DEF Continue
<1>2. /\ tickNow \in [Proc -> Int] /\ rows \in [Proc -> SUBSET DueRow]
      /\ \A s \in Proc : \A r \in rows[s] : r.due <= tickNow[s]
  BY DEF OnceInv, Shape, RowsSound
<1>3. tickNow' \in [Proc -> Int] /\ rows' \in [Proc -> SUBSET DueRow]
  BY <1>1, <1>2
<1>4. ASSUME NEW s \in Proc, NEW r \in rows'[s]
      PROVE  r.due <= tickNow'[s]
  BY <1>1, <1>2, <1>4
<1> QED
  BY <1>3, <1>4 DEF OnceInv, Shape, TickMoves

LEMMA BeginTickStep ==
    ASSUME OnceInv, NEW p \in Proc, BeginTick(p)
    PROVE  OnceInv'
<1> DEFINE read == {[id |-> i, due |-> nextAt[i], repeat |-> repeat[i]] : i \in DueAt(now)}
<1>1. /\ tickNow' = [tickNow EXCEPT ![p] = now] /\ rows' = [rows EXCEPT ![p] = read]
      /\ UNCHANGED <<now, table, requests, log, rewound, commands>>
  BY DEF BeginTick
<1>2. read \in SUBSET DueRow /\ \A r \in read : r.due <= now
  BY DEF OnceInv, Shape, DueAt, ActiveRows, DueRow
<1> HIDE DEF read
<1>3. TickMoves
  <2>1. /\ tickNow \in [Proc -> Int] /\ rows \in [Proc -> SUBSET DueRow] /\ now \in Int
        /\ \A s \in Proc : \A r \in rows[s] : r.due <= tickNow[s]
    BY DEF OnceInv, Shape, RowsSound
  <2>2. ASSUME NEW s \in Proc, NEW r \in rows'[s]
        PROVE  r.due <= tickNow'[s]
    BY <1>1, <1>2, <2>1, <2>2
  <2> QED
    BY <1>1, <1>2, <2>1, <2>2 DEF OnceInv, Shape, TickMoves
<1> QED
  BY <1>1, <1>3, RowsStay, NoRunStarts

\* What a claim makes of the row: one that stays active has moved on, past the tick.
LEMMA MarkMoves ==
    ASSUME OnceInv, NEW p \in Proc, NEW r \in rows[p], Claimable(r), MarkClaimed(p, r)
    PROVE  /\ r.id \in Id /\ r.due \in Int /\ r.due <= tickNow[p] /\ tickNow[p] \in Int
           /\ active[r.id] /\ nextAt[r.id] = r.due
           /\ UNCHANGED <<presence, repeat>>
           /\ active' \in [Id -> BOOLEAN] /\ nextAt' \in [Id -> Int]
           /\ \A i \in Id \ {r.id} : active'[i] = active[i] /\ nextAt'[i] = nextAt[i]
           /\ active'[r.id] => nextAt'[r.id] > tickNow[p] /\ nextAt'[r.id] > r.due
<1> DEFINE to == NextAt(r, OverCap(p), tickNow[p])
           stays == StaysActive(r, OverCap(p))
<1>1. r \in DueRow /\ r.due <= tickNow[p] /\ tickNow[p] \in Int
  BY DEF OnceInv, Shape, RowsSound
<1>2. r.id \in Id /\ r.due \in Int /\ r.repeat \in BOOLEAN
  BY <1>1 DEF DueRow
<1>3. active[r.id] /\ nextAt[r.id] = r.due
  BY DEF Claimable
<1>4. to \in Int /\ (stays => to > tickNow[p] /\ to > r.due) /\ stays \in BOOLEAN
  <2>1. \A step \in Nat \ {0} : /\ NextOccurrence(r.due, tickNow[p], step) \in Int
                               /\ NextOccurrence(r.due, tickNow[p], step) > tickNow[p]
                               /\ NextOccurrence(r.due, tickNow[p], step) > r.due
    BY <1>1, <1>2, NextIsLater
  <2>2. OverCap(p) \in BOOLEAN
    BY DEF OverCap
  <2> QED
    BY <1>2, <2>1, <2>2, ParameterAssumption DEF NextAt, StaysActive
<1>5. /\ nextAt' = [nextAt EXCEPT ![r.id] = to] /\ active' = [active EXCEPT ![r.id] = stays]
      /\ UNCHANGED <<presence, repeat>>
  BY DEF MarkClaimed
<1> HIDE DEF to, stays
<1> QED
  BY <1>1, <1>2, <1>3, <1>4, <1>5 DEF OnceInv, Shape

LEMMA MarkMovesRows ==
    ASSUME OnceInv, NEW p \in Proc, NEW r \in rows[p], Claimable(r), MarkClaimed(p, r), UNCHANGED rewound
    PROVE  RowsMove
<1>1. /\ r.id \in Id /\ r.due \in Int /\ active[r.id] /\ nextAt[r.id] = r.due
      /\ UNCHANGED <<presence, repeat>>
      /\ active' \in [Id -> BOOLEAN] /\ nextAt' \in [Id -> Int]
      /\ \A i \in Id \ {r.id} : active'[i] = active[i] /\ nextAt'[i] = nextAt[i]
      /\ active'[r.id] => nextAt'[r.id] > r.due
  BY MarkMoves
<1>2. ASSUME NEW i \in Id, active'[i], i \notin rewound'
      PROVE  active[i] /\ nextAt[i] <= nextAt'[i]
  BY <1>1, <1>2 DEF OnceInv, Shape
<1> QED
  BY <1>1, <1>2 DEF OnceInv, Shape, RowsSound, RowsMove

LEMMA MissStep ==
    ASSUME OnceInv, NEW p \in Proc, NEW r \in rows[p],
           SkipInFlight(p, r) \/ ClaimMisses(p, r) \/ ClaimCapped(p, r)
    PROVE  OnceInv'
<1>1. UNCHANGED <<now, requests, log, rewound, commands>>
  BY DEF SkipInFlight, ClaimMisses, ClaimCapped
<1>2. \E count : Continue(p, rows[p] \ {r}, count)
  BY DEF SkipInFlight, ClaimMisses, ClaimCapped
<1>3. TickMoves
  BY <1>1, <1>2, ContinueMoves
<1>4. UNCHANGED table \/ (Claimable(r) /\ MarkClaimed(p, r))
  BY DEF SkipInFlight, ClaimMisses, ClaimCapped
<1>5. RowsMove
  BY <1>1, <1>4, RowsStay, MarkMovesRows
<1> QED
  BY <1>1, <1>3, <1>5, NoRunStarts

\* A run starts: every earlier run of the row is older than its date, and the row, if
\* it goes on, is past the tick.
LEMMA ClaimStep ==
    ASSUME OnceInv, NEW p \in Proc, NEW r \in rows[p], ClaimRun(p, r)
    PROVE  OnceInv'
<1> DEFINE run == [id |-> r.id, due |-> r.due, at |-> tickNow[p], day |-> Day(tickNow[p])]
<1>1. /\ Claimable(r) /\ MarkClaimed(p, r) /\ log' = Append(log, run)
      /\ UNCHANGED <<now, requests, rewound, commands>>
  BY DEF ClaimRun
<1>2. /\ r.id \in Id /\ r.due \in Int /\ r.due <= tickNow[p] /\ tickNow[p] \in Int
      /\ active[r.id] /\ nextAt[r.id] = r.due
      /\ UNCHANGED <<presence, repeat>>
      /\ active' \in [Id -> BOOLEAN] /\ nextAt' \in [Id -> Int]
      /\ \A i \in Id \ {r.id} : active'[i] = active[i] /\ nextAt'[i] = nextAt[i]
      /\ active'[r.id] => nextAt'[r.id] > tickNow[p] /\ nextAt'[r.id] > r.due
  BY <1>1, MarkMoves
<1>3. TickMoves
  <2>1. \E count : Continue(p, rows[p] \ {r}, count)
    BY DEF ClaimRun
  <2> QED
    BY <1>1, <2>1, ContinueMoves
<1>4. run \in Run /\ run.id = r.id /\ run.due = r.due /\ run.at = tickNow[p]
  <2>1. Day(tickNow[p]) \in Int
    BY <1>2, ParameterAssumption DEF Day
  <2> QED
    BY <1>2, <2>1 DEF Run
<1> HIDE DEF run
<1>5. /\ log \in Seq(Run)
      /\ \A k \in DOMAIN log : log[k].id \in Id /\ log[k].due \in Int /\ log[k].at \in Int
  BY RunsTyped DEF OnceInv, Shape
<1>6. /\ log' \in Seq(Run) /\ Len(log) \in Nat /\ DOMAIN log = 1..Len(log)
      /\ DOMAIN log' = 1..(Len(log) + 1) /\ log'[Len(log) + 1] = run
      /\ \A k \in DOMAIN log : log'[k] = log[k]
  BY <1>1, <1>4, <1>5
<1>7. Shape'
  BY <1>2, <1>3, <1>6 DEF OnceInv, Shape, TickMoves
<1>8. RowsSound'
  <2>1. \A i \in Id : active'[i] => presence'[i] = "listed"
    BY <1>2 DEF OnceInv, RowsSound
  <2>2. ASSUME NEW k \in DOMAIN log'
        PROVE  presence'[log'[k].id] # "absent" /\ log'[k].due <= log'[k].at
    <3>1. CASE k \in DOMAIN log
      BY <1>2, <1>6, <3>1 DEF OnceInv, RowsSound
    <3>2. CASE k = Len(log) + 1
      BY <1>2, <1>4, <1>6, <3>2 DEF OnceInv, RowsSound
    <3> QED
      BY <1>6, <2>2, <3>1, <3>2
  <2> QED
    BY <1>3, <2>1, <2>2 DEF RowsSound, TickMoves
<1>9. \A k \in DOMAIN log : log[k].id = r.id /\ r.id \notin rewound => log[k].at < r.due
  BY <1>2 DEF OnceInv, Ahead
<1>10. Ahead'
  <2>1. SUFFICES ASSUME NEW k \in DOMAIN log', log'[k].id \notin rewound', active'[log'[k].id]
                 PROVE  log'[k].at < nextAt'[log'[k].id]
    BY DEF Ahead
  <2>2. CASE k = Len(log) + 1
    BY <1>2, <1>4, <1>6, <2>1, <2>2
  <2>3. CASE k \in DOMAIN log /\ log[k].id = r.id
    BY <1>1, <1>2, <1>5, <1>6, <1>9, <2>1, <2>3
  <2>4. CASE k \in DOMAIN log /\ log[k].id # r.id
    <3>1. log[k].id \in Id \ {r.id} /\ log'[k] = log[k] /\ active[log[k].id]
          /\ nextAt'[log[k].id] = nextAt[log[k].id] /\ log[k].id \notin rewound
      BY <1>1, <1>2, <1>5, <1>6, <2>1, <2>4
    <3> QED
      BY <2>4, <3>1 DEF OnceInv, Ahead
  <2> QED
    BY <1>6, <2>1, <2>2, <2>3, <2>4
<1>11. Ordered'
  <2>1. SUFFICES ASSUME NEW j \in DOMAIN log', NEW k \in DOMAIN log',
                        j < k, log'[j].id = log'[k].id, log'[j].id \notin rewound'
                 PROVE  log'[j].at < log'[k].due
    BY DEF Ordered
  <2>2. j \in DOMAIN log
    BY <1>6, <2>1
  <2>3. CASE k \in DOMAIN log
    BY <1>1, <1>6, <2>1, <2>2, <2>3 DEF OnceInv, Ordered
  <2>4. CASE k = Len(log) + 1
    BY <1>1, <1>4, <1>6, <1>9, <2>1, <2>2, <2>4
  <2> QED
    BY <1>6, <2>1, <2>3, <2>4
<1> QED
  BY <1>7, <1>8, <1>10, <1>11 DEF OnceInv

LEMMA CountStep ==
    ASSUME OnceInv, NEW p \in Proc, CountRuns(p)
    PROVE  OnceInv'
<1>1. UNCHANGED <<now, table, requests, log, rewound, commands>> /\ \E count : Continue(p, rows[p], count)
  BY DEF CountRuns
<1>2. TickMoves
  BY <1>1, ContinueMoves
<1> QED
  BY <1>1, <1>2, RowsStay, NoRunStarts

\* The executor, the clock, crashes and restarts.
LEMMA RestStep ==
    ASSUME OnceInv, NEW p \in Proc, Worker(p) \/ Start(p) \/ Clock
    PROVE  OnceInv'
<1>1. UNCHANGED <<table, requests, tickNow, rows, log, rewound, commands>> /\ now' \in {now, now + 1}
  BY DEF Worker, Take, RunAnswers, RunFails, NotifyCap, Leave, Start, Clock, tick
<1>2. TickMoves
  BY <1>1, TickStays DEF OnceInv, Shape
<1> QED
  BY <1>1, <1>2, RowsStay, NoRunStarts

LEMMA CrashStep ==
    ASSUME OnceInv, NEW p \in Proc, Crash(p)
    PROVE  OnceInv'
<1>1. /\ tickNow' = [tickNow EXCEPT ![p] = 0] /\ rows' = [rows EXCEPT ![p] = {}]
      /\ requests' \subseteq requests /\ UNCHANGED <<now, table, log, rewound, commands>>
  BY DEF Crash
<1>2. TickMoves
  <2>1. /\ tickNow \in [Proc -> Int] /\ rows \in [Proc -> SUBSET DueRow]
        /\ \A s \in Proc : \A r \in rows[s] : r.due <= tickNow[s]
    BY DEF OnceInv, Shape, RowsSound
  <2>2. ASSUME NEW s \in Proc, NEW r \in rows'[s]
        PROVE  r.due <= tickNow'[s]
    BY <1>1, <2>1, <2>2
  <2> QED
    BY <1>1, <2>1, <2>2 DEF OnceInv, Shape, TickMoves
<1> QED
  BY <1>1, <1>2, RowsStay, NoRunStarts

LEMMA OnceStep ==
    ASSUME OnceInv, Next
    PROVE  OnceInv'
<1>1. CASE User
  BY <1>1, CreateStep, BeginStep, FindStep, WriteStep DEF User
<1>2. ASSUME NEW p \in Proc, RunDue(p)
      PROVE  OnceInv'
  BY <1>2, BeginTickStep, CountStep, ClaimStep, MissStep DEF RunDue
<1>3. ASSUME NEW p \in Proc, Worker(p) \/ Crash(p) \/ Start(p)
      PROVE  OnceInv'
  BY <1>3, RestStep, CrashStep
<1>4. CASE Clock
  <2>1. UNCHANGED <<table, requests, tickNow, rows, log, rewound, commands>> /\ now' = now + 1
    BY <1>4 DEF Clock, tick
  <2>2. TickMoves
    BY <2>1, TickStays DEF OnceInv, Shape
  <2> QED
    BY <2>1, <2>2, RowsStay, NoRunStarts
<1> QED
  BY <1>1, <1>2, <1>3, <1>4 DEF Next

LEMMA OnceInit == Init => OnceInv
<1> SUFFICES ASSUME Init
             PROVE  OnceInv
  OBVIOUS
<1>1. /\ active = [i \in Id |-> FALSE] /\ repeat = [i \in Id |-> FALSE]
      /\ presence = [i \in Id |-> "absent"] /\ nextAt = [i \in Id |-> 0]
      /\ tickNow = [p \in Proc |-> 0] /\ rows = [p \in Proc |-> {}]
      /\ log = << >> /\ now = 0 /\ requests = {} /\ commands = 0
  BY DEF Init
<1>2. active \in [Id -> BOOLEAN] /\ repeat \in [Id -> BOOLEAN] /\ \A i \in Id : ~active[i]
  BY <1>1, Zenon
<1>3. Shape
  BY <1>1, <1>2 DEF Shape
<1> QED
  BY <1>1, <1>2, <1>3 DEF OnceInv, RowsSound, Ahead, Ordered

THEOREM OnceAlways == Spec => []OnceInv
<1>1. OnceInv /\ UNCHANGED vars => OnceInv'
  <2>1. SUFFICES ASSUME OnceInv, UNCHANGED vars
                 PROVE  OnceInv'
    OBVIOUS
  <2>2. UNCHANGED <<now, table, requests, tickNow, rows, log, rewound, commands>>
    BY <2>1 DEF vars, tick
  <2>3. TickMoves
    BY <2>1, <2>2, TickStays DEF OnceInv, Shape
  <2> QED
    BY <2>1, <2>2, <2>3, RowsStay, NoRunStarts
<1> QED
  BY OnceInit, OnceStep, <1>1, PTL DEF Spec

\* An occurrence is run at most once, in whichever process, and a missed one is not made
\* up for, unless a resume moved the row back behind a run.
THEOREM OccurrencesOnceAlways == Spec => []OccurrencesOnce
<1>1. OnceInv => OccurrencesOnce
  <2>1. SUFFICES ASSUME OnceInv
                 PROVE  OccurrencesOnce
    OBVIOUS
  <2>2. /\ log \in Seq(Run)
        /\ \A k \in DOMAIN log : /\ log[k].due \in Int /\ log[k].at \in Int
                                /\ log[k].due <= log[k].at
    BY <2>1, RunsTyped DEF OnceInv, Shape, RowsSound
  <2>3. DOMAIN log \subseteq Int
    BY <2>2
  <2>4. \A j, k \in DOMAIN log :
          j < k /\ log[j].id = log[k].id /\ log[j].id \notin rewound => log[j].at < log[k].due
    BY <2>1 DEF OnceInv, Ordered
  <2>5. RunsOnceUnlessRewound
    BY <2>2, <2>3, <2>4 DEF RunsOnceUnlessRewound
  <2>6. NoBacklog
    BY <2>2, <2>3, <2>4 DEF NoBacklog
  <2> QED
    BY <2>5, <2>6 DEF OccurrencesOnce
<1> QED
  BY OnceAlways, <1>1, PTL

----------------------------------------------------------------------------
(* Types.  OnceInv gives those of the table's dates and of the tick.       *)

Counters ==
  /\ now \in Nat
  /\ runsToday \in [Id -> Nat] /\ runsDay \in [Id -> Int \cup {None}]
  /\ pc \in [Proc -> {"down", "idle", "count", "claim"}] /\ used \in [Proc -> Nat]
  /\ rewound \subseteq Id /\ faults \in Nat

Executor ==
  /\ inflight \in [Proc -> SUBSET Id]
  /\ queue \in [Proc -> Seq(Job)]
  /\ worker \in [Proc -> Job \cup {None}]

\* The runs counted for a day are finitely many.
LEMMA CountedFinite ==
    ASSUME Counters, NEW day
    PROVE  IsFiniteSet(Counted(day)) /\ RunsOn(day) \in Nat
<1> DEFINE I == {j \in Id : runsDay[j] = day}
           Of(i) == {i} \X (1..runsToday[i])
           T == {Of(i) : i \in I}
           f == [i \in I |-> Of(i)]
<1>1. IsFiniteSet(I)
  BY IdAssumption, FS_Subset
<1>2. f \in Surjection(I, T)
  BY DEF Surjection
<1> HIDE DEF f
<1>3. IsFiniteSet(T)
  BY <1>1, <1>2, FS_Surjection
<1>4. ASSUME NEW i \in I
      PROVE  IsFiniteSet(Of(i))
  <2>1. runsToday[i] \in Nat
    BY DEF Counters
  <2> DEFINE n == runsToday[i]
  <2>2. IsFiniteSet(1..n)
    <3>1. 1 \in Int /\ n \in Int
      BY <2>1
    <3> HIDE DEF n
    <3> QED
      BY <3>1, FS_Interval
  <2>3. IsFiniteSet({i})
    BY FS_Singleton
  <2> QED
    BY <2>2, <2>3, FS_Product
<1>5. IsFiniteSet(UNION T)
  BY <1>3, <1>4, FS_UNION
<1>6. Counted(day) = UNION T
  BY DEF Counted
<1> QED
  BY <1>5, <1>6, FS_CardinalityType DEF RunsOn

\* A claim counts a run or, over the cap, none.
LEMMA MarkCounters ==
    ASSUME Counters, OnceInv, NEW p \in Proc, NEW r \in rows[p], MarkClaimed(p, r)
    PROVE  runsToday' \in [Id -> Nat] /\ runsDay' \in [Id -> Int \cup {None}]
<1> DEFINE day == Day(tickNow[p])
           n == IF OverCap(p) THEN runsToday[r.id]
                ELSE IF runsDay[r.id] = day THEN runsToday[r.id] + 1 ELSE 1
           d == IF OverCap(p) THEN runsDay[r.id] ELSE day
<1>1. r.id \in Id /\ day \in Int
  BY ParameterAssumption DEF OnceInv, Shape, DueRow, Day
<1>2. runsToday' = [runsToday EXCEPT ![r.id] = n] /\ runsDay' = [runsDay EXCEPT ![r.id] = d]
  BY <1>1 DEF MarkClaimed, Counters
<1>3. n \in Nat /\ d \in Int \cup {None}
  BY <1>1 DEF Counters
<1> HIDE DEF n, d
<1> QED
  BY <1>2, <1>3 DEF Counters

LEMMA CountersContinue ==
    ASSUME Counters, NEW p \in Proc, NEW left, NEW count \in Nat, Continue(p, left, count)
    PROVE  /\ pc' \in [Proc -> {"down", "idle", "count", "claim"}]
           /\ used' \in [Proc -> Nat]
  BY DEF Counters, Continue

LEMMA CountersStep ==
    ASSUME Counters, OnceInv, Next
    PROVE  Counters'
<1> USE ParameterAssumption DEF Counters
<1>1. CASE Clock
  BY <1>1 DEF Clock, table, tick
<1>2. CASE User
  <2>1. ASSUME NEW i \in Id, NEW d \in 0..MaxTime, NEW rep \in BOOLEAN, CreateTask(i, d, rep)
        PROVE  Counters'
    BY <2>1 DEF CreateTask, Command, tick
  <2>2. ASSUME NEW p \in Proc, NEW i \in Id, NEW op \in {"cancel", "pause", "resume"}, BeginRequest(p, op, i)
        PROVE  Counters'
    BY <2>2 DEF BeginRequest, Command, tick, table
  <2>3. ASSUME NEW q \in requests, FindTask(q)
        PROVE  Counters'
    BY <2>3 DEF FindTask, tick, table
  <2>4. ASSUME NEW q \in requests, WriteTask(q)
        PROVE  Counters'
    <3>1. UNCHANGED <<now, runsToday, runsDay, pc, used, faults>>
      BY <2>4 DEF WriteTask, tick
    <3>2. q.id \in Id
      BY DEF OnceInv, Shape, Request
    <3>3. rewound' \subseteq Id
      BY <2>4, <3>2 DEF WriteTask, CancelRow, PauseRow, ResumeRow
    <3> QED
      BY <3>1, <3>3
  <2> QED
    BY <1>2, <2>1, <2>2, <2>3, <2>4 DEF User
<1>3. ASSUME NEW p \in Proc, RunDue(p)
      PROVE  Counters'
  <2>1. CASE BeginTick(p)
    BY <2>1 DEF BeginTick, table
  <2>2. CASE CountRuns(p)
    <3>1. RunsOn(Day(tickNow[p])) \in Nat
      BY CountedFinite
    <3>2. pc' \in [Proc -> {"down", "idle", "count", "claim"}] /\ used' \in [Proc -> Nat]
      BY <2>2, <3>1, CountersContinue DEF CountRuns
    <3> QED
      BY <2>2, <3>2 DEF CountRuns, table
  <2>3. ASSUME NEW r \in rows[p],
               SkipInFlight(p, r) \/ ClaimRun(p, r) \/ ClaimCapped(p, r) \/ ClaimMisses(p, r)
        PROVE  Counters'
    <3>1. used[p] \in Nat /\ used[p] + 1 \in Nat
      OBVIOUS
    <3>2. \E count \in Nat : Continue(p, rows[p] \ {r}, count)
      BY <2>3, <3>1 DEF SkipInFlight, ClaimRun, ClaimCapped, ClaimMisses
    <3>3. pc' \in [Proc -> {"down", "idle", "count", "claim"}] /\ used' \in [Proc -> Nat]
      BY <3>2, CountersContinue
    <3>4. UNCHANGED table \/ MarkClaimed(p, r)
      BY <2>3 DEF SkipInFlight, ClaimRun, ClaimCapped, ClaimMisses
    <3>5. runsToday' \in [Id -> Nat] /\ runsDay' \in [Id -> Int \cup {None}]
      BY <3>4, MarkCounters DEF table
    <3>6. now' = now /\ rewound' = rewound /\ faults' \in {faults, faults + 1}
      BY <2>3 DEF SkipInFlight, ClaimRun, ClaimCapped, ClaimMisses, Fault
    <3> QED
      BY <3>3, <3>5, <3>6
  <2> QED
    BY <1>3, <2>1, <2>2, <2>3 DEF RunDue
<1>4. ASSUME NEW p \in Proc, Worker(p)
      PROVE  Counters'
  <2>1. UNCHANGED <<now, runsToday, runsDay, pc, used, rewound, faults>>
    BY <1>4 DEF Worker, Take, RunAnswers, RunFails, NotifyCap, Leave, table, tick
  <2> QED
    BY <2>1
<1>5. ASSUME NEW p \in Proc, Crash(p) \/ Start(p)
      PROVE  Counters'
  <2>1. UNCHANGED <<now, runsToday, runsDay, rewound>> /\ faults' \in {faults, faults + 1}
    BY <1>5 DEF Crash, Start, Fault, table
  <2>2. pc' \in [Proc -> {"down", "idle", "count", "claim"}] /\ used' \in [Proc -> Nat]
    <3>1. /\ pc' = [pc EXCEPT ![p] = "down"] \/ pc' = [pc EXCEPT ![p] = "idle"]
          /\ used' = [used EXCEPT ![p] = 0] \/ used' = used
      BY <1>5 DEF Crash, Start
    <3> QED
      BY <3>1
  <2> QED
    BY <2>1, <2>2
<1> QED
  BY <1>1, <1>2, <1>3, <1>4, <1>5 DEF Next

----------------------------------------------------------------------------
(* The executor: what _inflight, the queue and the worker hold.            *)

RunsIn(q) == {k \in DOMAIN q : q[k].kind = "run"}
Ids(q) == {q[k].id : k \in RunsIn(q)}
EachOnce(q) == \A j, k \in RunsIn(q) : q[j].id = q[k].id => j = k
Hands(p) ==
  /\ EachOnce(queue[p])
  /\ Runs(p) => worker[p].id \notin Ids(queue[p])
  /\ inflight[p] = Ids(queue[p]) \cup (IF Runs(p) THEN {worker[p].id} ELSE {})

HandsInv == Executor /\ \A p \in Proc : Hands(p)

\* A job at the end of the queue.
LEMMA Queued ==
    ASSUME NEW q \in Seq(Job), NEW job \in Job
    PROVE  LET r == Append(q, job) IN
             /\ r \in Seq(Job)
             /\ Ids(r) = Ids(q) \cup (IF job.kind = "run" THEN {job.id} ELSE {})
             /\ EachOnce(q) /\ (job.kind = "run" => job.id \notin Ids(q)) => EachOnce(r)
<1> DEFINE n == Len(q)
           r == Append(q, job)
<1>1. n \in Nat /\ DOMAIN q = 1..n
  BY LenProperties
<1>2. /\ r \in Seq(Job) /\ DOMAIN r = 1..(n + 1) /\ r[n + 1] = job
      /\ \A k \in 1..n : r[k] = q[k]
  BY <1>1, AppendProperties, LenProperties
<1> HIDE DEF r, n
<1>3. RunsIn(r) = RunsIn(q) \cup (IF job.kind = "run" THEN {n + 1} ELSE {})
  BY <1>1, <1>2 DEF RunsIn
<1>4. n + 1 \notin RunsIn(q) /\ \A k \in RunsIn(q) : r[k] = q[k]
  BY <1>1, <1>2 DEF RunsIn
<1>5. Ids(r) = Ids(q) \cup (IF job.kind = "run" THEN {job.id} ELSE {})
  BY <1>2, <1>3, <1>4 DEF Ids
<1>6. EachOnce(q) /\ (job.kind = "run" => job.id \notin Ids(q)) => EachOnce(r)
  BY <1>2, <1>3, <1>4 DEF EachOnce, Ids
<1> QED
  BY <1>2, <1>5, <1>6 DEF r

\* The worker takes the first job of the queue.
LEMMA Taken ==
    ASSUME NEW q \in Seq(Job), q # << >>
    PROVE  /\ Tail(q) \in Seq(Job) /\ Head(q) \in Job
           /\ Ids(q) = Ids(Tail(q)) \cup (IF Head(q).kind = "run" THEN {Head(q).id} ELSE {})
           /\ EachOnce(q) => /\ EachOnce(Tail(q))
                             /\ Head(q).kind = "run" => Head(q).id \notin Ids(Tail(q))
<1> DEFINE n == Len(q)
           h == Head(q)
           t == Tail(q)
<1>1. n \in Nat /\ n # 0 /\ DOMAIN q = 1..n
  BY LenProperties, EmptySeq
<1>2. h \in Job /\ t \in Seq(Job) /\ DOMAIN t = 1..(n - 1) /\ h = q[1]
  BY HeadTailProperties, LenProperties DEF Head
<1>3. \A k \in 1..(n - 1) : t[k] = q[k + 1]
  BY HeadTailProperties
<1> HIDE DEF h, t, n
<1>4. \A k \in RunsIn(q) : (k = 1 /\ h.kind = "run") \/ (k - 1 \in RunsIn(t) /\ t[k - 1] = q[k])
  BY <1>1, <1>2, <1>3 DEF RunsIn
<1>5. /\ \A k \in RunsIn(t) : k + 1 \in RunsIn(q) /\ k + 1 # 1 /\ q[k + 1] = t[k] /\ k \in Int
      /\ h.kind = "run" => 1 \in RunsIn(q)
  BY <1>1, <1>2, <1>3 DEF RunsIn
<1>6. Ids(q) = Ids(t) \cup (IF h.kind = "run" THEN {h.id} ELSE {})
  <2>1. ASSUME NEW i \in Ids(q)
        PROVE  i \in Ids(t) \/ (h.kind = "run" /\ i = h.id)
    BY <1>2, <1>4 DEF Ids
  <2>2. Ids(t) \subseteq Ids(q)
    BY <1>5 DEF Ids
  <2>3. h.kind = "run" => h.id \in Ids(q)
    BY <1>2, <1>5 DEF Ids
  <2> QED
    BY <2>1, <2>2, <2>3
<1>7. ASSUME EachOnce(q)
      PROVE  EachOnce(t) /\ (h.kind = "run" => h.id \notin Ids(t))
  <2>1. ASSUME NEW j \in RunsIn(t), NEW k \in RunsIn(t), t[j].id = t[k].id
        PROVE  j = k
    <3>1. j + 1 = k + 1 /\ j \in Int /\ k \in Int
      BY <1>5, <1>7, <2>1 DEF EachOnce
    <3> QED
      BY <3>1
  <2>2. ASSUME NEW k \in RunsIn(t), h.kind = "run"
        PROVE  t[k].id # h.id
    BY <1>2, <1>5, <1>7, <2>2 DEF EachOnce
  <2> QED
    BY <2>1, <2>2 DEF EachOnce, Ids
<1> QED
  BY <1>2, <1>6, <1>7 DEF h, t

LEMMA HandsStay ==
    ASSUME HandsInv, UNCHANGED <<inflight, queue, worker>>
    PROVE  HandsInv'
  BY DEF HandsInv, Executor, Hands, Runs, Ids, RunsIn, EachOnce

\* The hands of one process change.
LEMMA HandsMove ==
    ASSUME HandsInv, NEW p \in Proc, NEW i \in SUBSET Id, NEW q \in Seq(Job), NEW w \in Job \cup {None},
           inflight' = [inflight EXCEPT ![p] = i], queue' = [queue EXCEPT ![p] = q],
           worker' = [worker EXCEPT ![p] = w],
           EachOnce(q),
           w # None /\ w.kind = "run" => w.id \notin Ids(q),
           i = Ids(q) \cup (IF w # None /\ w.kind = "run" THEN {w.id} ELSE {})
    PROVE  HandsInv'
<1>1. Executor'
  BY DEF HandsInv, Executor
<1>2. inflight'[p] = i /\ queue'[p] = q /\ worker'[p] = w
  BY DEF HandsInv, Executor
<1>3. \A s \in Proc \ {p} : inflight'[s] = inflight[s] /\ queue'[s] = queue[s] /\ worker'[s] = worker[s]
  BY DEF HandsInv, Executor
<1>4. Hands(p)'
  BY <1>2 DEF Hands, Runs
<1>5. ASSUME NEW s \in Proc \ {p}
      PROVE  Hands(s)'
  BY <1>3 DEF HandsInv, Hands, Runs
<1> QED
  BY <1>1, <1>4, <1>5 DEF HandsInv

LEMMA HandsStep ==
    ASSUME HandsInv, OnceInv, Next
    PROVE  HandsInv'
<1>1. CASE Clock \/ User
  <2>1. UNCHANGED <<inflight, queue, worker>>
    BY <1>1 DEF Clock, User, CreateTask, BeginRequest, FindTask, WriteTask, Command
  <2> QED
    BY <2>1, HandsStay
<1>2. ASSUME NEW p \in Proc, RunDue(p)
      PROVE  HandsInv'
  <2>0. /\ queue[p] \in Seq(Job) /\ worker[p] \in Job \cup {None} /\ inflight[p] \in SUBSET Id
        /\ inflight = [inflight EXCEPT ![p] = inflight[p]] /\ worker = [worker EXCEPT ![p] = worker[p]]
    BY DEF HandsInv, Executor
  <2>1. ASSUME NEW r \in rows[p], ClaimRun(p, r)
        PROVE  HandsInv'
    <3> DEFINE job == [id |-> r.id, due |-> r.due, kind |-> "run"]
               q == Append(queue[p], job)
    <3>1. job \in Job /\ job.kind = "run" /\ job.id = r.id /\ r.id \in Id
      BY DEF OnceInv, Shape, DueRow, Job
    <3>2. /\ r.id \notin inflight[p] /\ queue' = [queue EXCEPT ![p] = q]
          /\ inflight' = [inflight EXCEPT ![p] = inflight[p] \cup {r.id}] /\ worker' = worker
      BY <2>1 DEF ClaimRun
    <3> HIDE DEF job
    <3>3. /\ EachOnce(queue[p]) /\ (Runs(p) => worker[p].id \notin Ids(queue[p]))
          /\ inflight[p] = Ids(queue[p]) \cup (IF Runs(p) THEN {worker[p].id} ELSE {})
      BY DEF HandsInv, Hands
    <3>4. q \in Seq(Job) /\ Ids(q) = Ids(queue[p]) \cup {r.id} /\ EachOnce(q)
      BY <2>0, <3>1, <3>2, <3>3, Queued
    <3> HIDE DEF q
    <3>5. Runs(p) => worker[p].id \notin Ids(q)
      BY <3>2, <3>3, <3>4
    <3>6. /\ worker[p] # None /\ worker[p].kind = "run" => worker[p].id \notin Ids(q)
          /\ inflight[p] \cup {r.id} = Ids(q) \cup (IF worker[p] # None /\ worker[p].kind = "run"
                                                  THEN {worker[p].id} ELSE {})
      BY <3>3, <3>4, <3>5 DEF Runs
    <3>7. inflight[p] \cup {r.id} \in SUBSET Id /\ worker' = [worker EXCEPT ![p] = worker[p]]
      BY <2>0, <3>1, <3>2
    <3> QED
      BY <2>0, <3>2, <3>4, <3>6, <3>7, HandsMove
  <2>2. ASSUME NEW r \in rows[p], ClaimCapped(p, r)
        PROVE  HandsInv'
    <3> DEFINE job == [id |-> r.id, due |-> r.due, kind |-> "notice"]
               q == Append(queue[p], job)
    <3>1. job \in Job /\ job.kind = "notice"
      BY DEF OnceInv, Shape, DueRow, Job
    <3>2. queue' = [queue EXCEPT ![p] = q] /\ UNCHANGED <<inflight, worker>>
      BY <2>2 DEF ClaimCapped
    <3> HIDE DEF job
    <3>3. /\ EachOnce(queue[p]) /\ (Runs(p) => worker[p].id \notin Ids(queue[p]))
          /\ inflight[p] = Ids(queue[p]) \cup (IF Runs(p) THEN {worker[p].id} ELSE {})
      BY DEF HandsInv, Hands
    <3>4. q \in Seq(Job) /\ Ids(q) = Ids(queue[p]) /\ EachOnce(q)
      BY <2>0, <3>1, <3>3, Queued
    <3> HIDE DEF q
    <3> QED
      BY <2>0, <3>2, <3>3, <3>4, HandsMove DEF Runs
  <2>3. CASE UNCHANGED <<inflight, queue, worker>>
    BY <2>3, HandsStay
  <2>4. \/ UNCHANGED <<inflight, queue, worker>>
        \/ \E r \in rows[p] : ClaimRun(p, r) \/ ClaimCapped(p, r)
    BY <1>2 DEF RunDue, BeginTick, CountRuns, SkipInFlight, ClaimMisses
  <2> QED
    BY <2>1, <2>2, <2>3, <2>4
<1>3. ASSUME NEW p \in Proc, Worker(p)
      PROVE  HandsInv'
  <2>0. /\ queue[p] \in Seq(Job) /\ worker[p] \in Job \cup {None} /\ inflight[p] \in SUBSET Id
        /\ inflight = [inflight EXCEPT ![p] = inflight[p]] /\ queue = [queue EXCEPT ![p] = queue[p]]
    BY DEF HandsInv, Executor
  <2>1. /\ EachOnce(queue[p]) /\ (Runs(p) => worker[p].id \notin Ids(queue[p]))
        /\ inflight[p] = Ids(queue[p]) \cup (IF Runs(p) THEN {worker[p].id} ELSE {})
    BY DEF HandsInv, Hands
  <2>2. CASE Take(p)
    <3> DEFINE h == Head(queue[p])
               t == Tail(queue[p])
    <3>1. /\ worker[p] = None /\ queue[p] # << >> /\ worker' = [worker EXCEPT ![p] = h]
          /\ queue' = [queue EXCEPT ![p] = t] /\ inflight' = inflight
      BY <2>2 DEF Take
    <3>2. /\ t \in Seq(Job) /\ h \in Job /\ EachOnce(t)
          /\ h.kind = "run" => h.id \notin Ids(t)
          /\ Ids(queue[p]) = Ids(t) \cup (IF h.kind = "run" THEN {h.id} ELSE {})
      BY <2>0, <2>1, <3>1, Taken
    <3> HIDE DEF h, t
    <3>3. h # None
      BY <3>2, NoneIsNoJob
    <3>4. inflight[p] = Ids(t) \cup (IF h # None /\ h.kind = "run" THEN {h.id} ELSE {})
      BY <2>1, <3>1, <3>2, <3>3 DEF Runs
    <3> QED
      BY <2>0, <3>1, <3>2, <3>4, HandsMove
  <2>3. CASE RunAnswers(p) \/ RunFails(p)
    <3>1. /\ Runs(p) /\ worker' = [worker EXCEPT ![p] = None] /\ queue' = queue
          /\ inflight' = [inflight EXCEPT ![p] = inflight[p] \ {worker[p].id}]
      BY <2>3 DEF RunAnswers, RunFails, Leave
    <3>2. inflight[p] \ {worker[p].id} = Ids(queue[p])
      BY <2>1, <3>1
    <3>3. Ids(queue[p]) \in SUBSET Id
      BY <2>0, <3>2
    <3> QED
      BY <2>0, <2>1, <3>1, <3>2, <3>3, HandsMove
  <2>4. CASE NotifyCap(p)
    <3>1. /\ ~Runs(p) /\ worker' = [worker EXCEPT ![p] = None] /\ queue' = queue
          /\ inflight' = [inflight EXCEPT ![p] = inflight[p] \ {}]
      BY <2>4 DEF NotifyCap, Leave, Runs
    <3>2. inflight[p] \ {} = Ids(queue[p]) /\ Ids(queue[p]) \in SUBSET Id
      BY <2>0, <2>1, <3>1
    <3> QED
      BY <2>0, <2>1, <3>1, <3>2, HandsMove
  <2> QED
    BY <1>3, <2>2, <2>3, <2>4 DEF Worker
<1>4. ASSUME NEW p \in Proc, Crash(p)
      PROVE  HandsInv'
  <2>1. /\ inflight' = [inflight EXCEPT ![p] = {}] /\ queue' = [queue EXCEPT ![p] = << >>]
        /\ worker' = [worker EXCEPT ![p] = None]
    BY <1>4 DEF Crash
  <2>2. << >> \in Seq(Job) /\ Ids(<< >>) = {} /\ EachOnce(<< >>)
    BY DEF Ids, EachOnce, RunsIn
  <2> QED
    BY <2>1, <2>2, HandsMove
<1>5. ASSUME NEW p \in Proc, Start(p)
      PROVE  HandsInv'
  BY <1>5, HandsStay DEF Start
<1> QED
  BY <1>1, <1>2, <1>3, <1>4, <1>5 DEF Next

----------------------------------------------------------------------------
(* The caps.                                                               *)

\* Both ways in count under one lock; every other step only takes rows away.
LEMMA ActiveRowsStep ==
    ASSUME OnceInv, ActiveCap, Next
    PROVE  ActiveCap'
<1>1. IsFiniteSet(ActiveRows)
  BY IdAssumption, FS_Subset DEF ActiveRows
<1>2. ASSUME ActiveRows' \subseteq ActiveRows
      PROVE  ActiveCap'
  <2>1. Cardinality(ActiveRows') <= Cardinality(ActiveRows) /\ IsFiniteSet(ActiveRows')
    BY <1>1, <1>2, FS_Subset
  <2>2. Cardinality(ActiveRows') \in Nat /\ Cardinality(ActiveRows) \in Nat
    BY <1>1, <2>1, FS_CardinalityType
  <2> QED
    BY <2>1, <2>2, ParameterAssumption DEF ActiveCap
<1>3. ASSUME NEW i \in Id, NEW others, others \subseteq ActiveRows, BelowCap(others),
             ActiveRows' \subseteq others \cup {i}
      PROVE  ActiveCap'
  <2>1. IsFiniteSet(others)
    BY <1>1, <1>3, FS_Subset
  <2>2. /\ IsFiniteSet(others \cup {i}) /\ Cardinality(others) \in Nat
        /\ Cardinality(others \cup {i}) <= Cardinality(others) + 1
    <3>1. Cardinality(others) \in Nat
      BY <2>1, FS_CardinalityType
    <3>2. /\ IsFiniteSet(others \cup {i})
          /\ Cardinality(others \cup {i}) = IF i \in others THEN Cardinality(others)
                                            ELSE Cardinality(others) + 1
      BY <2>1, FS_AddElement
    <3> QED
      BY <3>1, <3>2
  <2>3. Cardinality(ActiveRows') <= Cardinality(others \cup {i}) /\ IsFiniteSet(ActiveRows')
    BY <1>3, <2>2, FS_Subset
  <2>4. Cardinality(ActiveRows') \in Nat /\ Cardinality(others \cup {i}) \in Nat
    BY <2>2, <2>3, FS_CardinalityType
  <2> QED
    BY <1>3, <2>2, <2>3, <2>4, ParameterAssumption DEF ActiveCap, BelowCap
<1>4. CASE User
  <2>1. ASSUME NEW i \in Id, NEW d \in 0..MaxTime, NEW rep \in BOOLEAN, CreateTask(i, d, rep)
        PROVE  ActiveCap'
    <3>1. /\ BelowCap(ActiveRows) /\ presence' = [presence EXCEPT ![i] = "listed"]
          /\ active' = [active EXCEPT ![i] = TRUE]
      BY <2>1 DEF CreateTask
    <3>2. ActiveRows' \subseteq ActiveRows \cup {i}
      BY <3>1 DEF OnceInv, Shape, ActiveRows
    <3> QED
      BY <1>3, <3>1, <3>2
  <2>2. ASSUME NEW q \in requests, WriteTask(q)
        PROVE  ActiveCap'
    <3>0. q.id \in Id
      BY DEF OnceInv, Shape, Request
    <3>1. CASE UNCHANGED <<presence, active>>
      BY <1>2, <3>1 DEF ActiveRows
    <3>2. CASE CancelRow(q.id) \/ PauseRow(q.id)
      <4>1. ActiveRows' \subseteq ActiveRows
        BY <3>0, <3>2 DEF OnceInv, Shape, ActiveRows, CancelRow, PauseRow
      <4> QED
        BY <1>2, <4>1
    <3>3. CASE /\ BelowCap(ActiveRows \ {q.id}) /\ presence' = presence
               /\ active' = [active EXCEPT ![q.id] = TRUE]
      <4>1. ActiveRows' \subseteq (ActiveRows \ {q.id}) \cup {q.id}
        BY <3>0, <3>3 DEF OnceInv, Shape, ActiveRows
      <4> QED
        BY <1>3, <3>0, <3>3, <4>1
    <3> QED
      BY <2>2, <3>1, <3>2, <3>3 DEF WriteTask, ResumeRow
  <2>3. ASSUME UNCHANGED <<presence, active>>
        PROVE  ActiveCap'
    BY <1>2, <2>3 DEF ActiveRows
  <2> QED
    BY <1>4, <2>1, <2>2, <2>3 DEF User, BeginRequest, FindTask, table
<1>5. ASSUME NEW p \in Proc, RunDue(p)
      PROVE  ActiveCap'
  <2>1. CASE UNCHANGED table
    BY <1>2, <2>1 DEF ActiveRows, table
  <2>2. ASSUME NEW r \in rows[p], Claimable(r), MarkClaimed(p, r)
        PROVE  ActiveCap'
    <3>1. /\ r.id \in Id /\ active[r.id] /\ presence' = presence /\ active' \in [Id -> BOOLEAN]
          /\ \A i \in Id \ {r.id} : active'[i] = active[i]
      BY <2>2, MarkMoves
    <3>2. ActiveRows' \subseteq ActiveRows
      BY <3>1 DEF ActiveRows
    <3> QED
      BY <1>2, <3>2
  <2>3. UNCHANGED table \/ \E r \in rows[p] : Claimable(r) /\ MarkClaimed(p, r)
    BY <1>5 DEF RunDue, BeginTick, CountRuns, SkipInFlight, ClaimRun, ClaimCapped, ClaimMisses
  <2> QED
    BY <2>1, <2>2, <2>3
<1>6. CASE UNCHANGED table
  BY <1>2, <1>6 DEF ActiveRows, table
<1>7. CASE Clock \/ \E p \in Proc : Worker(p) \/ Crash(p) \/ Start(p)
  <2>1. UNCHANGED table
    BY <1>7 DEF Clock, Worker, Take, RunAnswers, RunFails, NotifyCap, Leave, Crash, Start
  <2> QED
    BY <1>6, <2>1
<1> QED
  BY <1>4, <1>5, <1>7 DEF Next

----------------------------------------------------------------------------
\* The runs of a day, and the day a process is counting on: its tick's, or the clock's.
LogOn(d) == {k \in DOMAIN log : log[k].day = d}
Ticking(p) == pc[p] \in {"count", "claim"}
Latest(p) == Day(IF Ticking(p) THEN tickNow[p] ELSE now)

\* No run is of a day after d, and those of day d are counted in the table.
CountedTo(d) ==
  /\ \A k \in DOMAIN log : log[k].day <= d
  /\ Cardinality(LogOn(d)) <= RunsOn(d)

\* A tick counts at least the runs of its day.
DayOf(p) ==
  /\ Ticking(p) => tickNow[p] <= now
  /\ CountedTo(Latest(p))
  /\ pc[p] = "claim" => Cardinality(LogOn(Latest(p))) <= used[p]

CapKept == \A d \in Int : Cardinality(LogOn(d)) <= MaxRunsPerDay
DayInv == CapKept /\ \A p \in Proc : DayOf(p)

LEMMA DayGrows ==
    ASSUME NEW s \in Int, NEW t \in Int, s <= t
    PROVE  Day(s) \in Int /\ Day(t) \in Int /\ Day(s) <= Day(t)
<1> DEFINE L == DayLength
           a == s \div L
           b == t \div L
<1>1. L \in Nat /\ L > 0
  BY ParameterAssumption
<1> HIDE DEF L
<1>2. a \in Int /\ L * a <= s /\ b \in Int /\ t < L * (b + 1)
  BY <1>1
<1> HIDE DEF a, b
<1>3. ASSUME b < a
      PROVE  FALSE
  <2>1. b + 1 <= a /\ a - (b + 1) \in Nat
    BY <1>2, <1>3
  <2>2. L * (a - (b + 1)) >= 0
    BY <1>1, <2>1
  <2>3. L * a = L * (b + 1) + L * (a - (b + 1))
    BY <1>1, <1>2
  <2>4. L * a \in Int /\ L * (b + 1) \in Int /\ L * (a - (b + 1)) \in Int
    BY <1>1, <1>2
  <2> QED
    BY <1>2, <2>2, <2>3, <2>4
<1>4. a <= b
  BY <1>2, <1>3
<1> QED
  BY <1>2, <1>4 DEF Day, a, b, L


LEMMA LatestInt ==
    ASSUME OnceInv, Counters, DayInv, NEW p \in Proc
    PROVE  Latest(p) \in Int /\ Day(now) \in Int /\ Latest(p) <= Day(now)
<1>1. now \in Int /\ tickNow[p] \in Int
  BY DEF OnceInv, Shape
<1>2. CASE Ticking(p)
  <2>1. tickNow[p] <= now
    BY <1>2 DEF DayInv, DayOf
  <2> QED
    BY <1>1, <1>2, <2>1, DayGrows DEF Latest
<1>3. CASE ~Ticking(p)
  BY <1>1, <1>3, DayGrows DEF Latest
<1> QED
  BY <1>2, <1>3

LEMMA RunsLogged ==
    ASSUME OnceInv
    PROVE  /\ Len(log) \in Nat /\ DOMAIN log = 1..Len(log)
           /\ \A k \in DOMAIN log : log[k].day \in Int
<1>1. log \in Seq(Run)
  BY DEF OnceInv, Shape
<1>2. Len(log) \in Nat /\ DOMAIN log = 1..Len(log) /\ \A k \in DOMAIN log : log[k] \in Run
  BY <1>1, LenProperties, ElementOfSeq
<1> QED
  BY <1>2 DEF Run

LEMMA LogOnFinite ==
    ASSUME OnceInv, NEW d
    PROVE  IsFiniteSet(LogOn(d)) /\ Cardinality(LogOn(d)) \in Nat
<1>1. IsFiniteSet(1..Len(log))
  BY RunsLogged, FS_Interval
<1>2. LogOn(d) \subseteq 1..Len(log)
  BY RunsLogged DEF LogOn
<1> QED
  BY <1>1, <1>2, FS_Subset, FS_CardinalityType

\* What is counted to a day is counted to every later day: that has no runs yet.
LEMMA Later == OnceInv /\ Counters => \A d, e \in Int : d <= e /\ CountedTo(d) => CountedTo(e)
<1> SUFFICES ASSUME OnceInv, Counters, NEW d \in Int, NEW e \in Int, d <= e, CountedTo(d)
             PROVE  CountedTo(e)
  OBVIOUS
<1>1. \A k \in DOMAIN log : log[k].day \in Int /\ log[k].day <= d
  BY RunsLogged DEF CountedTo
<1>2. CASE d < e
  <2>1. LogOn(e) = {}
    BY <1>1, <1>2 DEF LogOn
  <2>2. Cardinality(LogOn(e)) = 0 /\ RunsOn(e) \in Nat
    BY <2>1, FS_EmptySet, CountedFinite
  <2> QED
    BY <1>1, <1>2, <2>2 DEF CountedTo
<1> QED
  BY <1>2

LEMMA LaterNext == (OnceInv /\ Counters)' => (\A d, e \in Int : d <= e /\ CountedTo(d) => CountedTo(e))'
  BY Later, PTL

\* From a day counted to after the step, to the day the process counts on after it.
LEMMA DayMoves ==
    ASSUME OnceInv', Counters', NEW p \in Proc, NEW d \in Int, CountedTo(d)',
           d <= Day(now'), Ticking(p)' => d <= Day(tickNow'[p]) /\ tickNow'[p] <= now',
           pc'[p] = "claim" => Cardinality(LogOn(Latest(p))') <= used'[p]
    PROVE  DayOf(p)'
<1>1. now' \in Int /\ tickNow'[p] \in Int
  BY DEF OnceInv, Shape
<1>2. Day(now') \in Int /\ Day(tickNow'[p]) \in Int
  BY <1>1, DayGrows
<1>3. Latest(p)' \in Int /\ d <= Latest(p)'
  BY <1>1, <1>2 DEF Latest
<1>4. \A e \in Int : d <= e => CountedTo(e)'
  BY LaterNext
<1>5. CountedTo(Latest(p))'
  BY <1>3, <1>4 DEF CountedTo
<1> QED
  BY <1>5 DEF DayOf

\* Steps that neither run nor count anything.
LEMMA DayQuiet ==
    ASSUME OnceInv, Counters, DayInv, OnceInv', Counters', NEW p \in Proc,
           UNCHANGED <<log, runsToday, runsDay>>, now' \in {now, now + 1},
           \/ pc'[p] \in {"down", "idle"}
           \/ UNCHANGED <<pc[p], tickNow[p], used[p]>>
           \/ pc[p] = "idle" /\ pc'[p] = "count" /\ tickNow'[p] = now
           \/ /\ pc[p] = "count" /\ pc'[p] = "claim" /\ tickNow'[p] = tickNow[p]
              /\ used'[p] = RunsOn(Latest(p))
           \/ pc[p] = "claim" /\ pc'[p] = "claim" /\ UNCHANGED <<tickNow[p], used[p]>>
    PROVE  DayOf(p)'
<1>1. PICK d \in Int : d = Latest(p)
  BY LatestInt
<1>2. CountedTo(d) /\ d <= Day(now) /\ now \in Int /\ tickNow[p] \in Int
  BY <1>1, LatestInt DEF DayInv, DayOf, OnceInv, Shape
<1>3. CountedTo(d)' /\ LogOn(d)' = LogOn(d)
  BY <1>2 DEF CountedTo, LogOn, RunsOn, Counted
<1>4. d <= Day(now')
  <2>1. Day(now) <= Day(now') /\ Day(now) \in Int /\ Day(now') \in Int
    BY <1>2, DayGrows
  <2> QED
    BY <1>2, <2>1
<1>5. ASSUME Ticking(p)'
      PROVE  d <= Day(tickNow'[p]) /\ tickNow'[p] <= now'
  <2>1. pc'[p] \notin {"down", "idle"}
    BY <1>5 DEF Ticking
  <2>2. CASE Ticking(p) /\ tickNow'[p] = tickNow[p]
    BY <1>1, <1>2, <2>2 DEF DayInv, DayOf, Latest
  <2>3. CASE pc[p] = "idle" /\ tickNow'[p] = now
    BY <1>1, <1>2, <2>3 DEF Latest, Ticking
  <2> QED
    BY <1>5, <2>1, <2>2, <2>3 DEF Ticking
<1>6. ASSUME pc'[p] = "claim"
      PROVE  Cardinality(LogOn(Latest(p))') <= used'[p]
  <2>1. Ticking(p) /\ Ticking(p)' /\ tickNow'[p] = tickNow[p]
    BY <1>6 DEF Ticking
  <2>2. Latest(p)' = d
    BY <1>1, <2>1 DEF Latest
  <2>3. LogOn(Latest(p))' = LogOn(d)
    BY <1>3, <2>2 DEF LogOn
  <2>4. Cardinality(LogOn(d)) <= used'[p]
    BY <1>1, <1>2, <1>6 DEF DayInv, DayOf, CountedTo
  <2> QED
    BY <2>3, <2>4
<1> QED
  BY <1>3, <1>4, <1>5, <1>6, DayMoves

\* A claim counts one run more for the tick's day, or over the cap nothing.
LEMMA MarkCounts ==
    ASSUME OnceInv, Counters, NEW p \in Proc, NEW r \in rows[p], MarkClaimed(p, r),
           NEW d \in Int, d = Day(tickNow[p])
    PROVE  RunsOn(d)' = IF OverCap(p) THEN RunsOn(d) ELSE RunsOn(d) + 1
<1> DEFINE n == IF runsDay[r.id] = d THEN runsToday[r.id] + 1 ELSE 1
<1>1. r.id \in Id /\ runsToday \in [Id -> Nat] /\ runsDay \in [Id -> Int \cup {None}]
  BY DEF OnceInv, Shape, DueRow, Counters
<1>2. CASE OverCap(p)
  <2>1. runsToday' = runsToday /\ runsDay' = runsDay
    BY <1>1, <1>2 DEF MarkClaimed
  <2> QED
    BY <1>2, <2>1 DEF RunsOn, Counted
<1>3. CASE ~OverCap(p)
  <2>1. /\ runsToday' = [runsToday EXCEPT ![r.id] = n]
        /\ runsDay' = [runsDay EXCEPT ![r.id] = d]
    BY <1>1, <1>3 DEF MarkClaimed
  <2>2. n \in Nat
    BY <1>1
  <2>3. \A x : x \in Counted(d) <=>
               \E i \in Id : runsDay[i] = d /\ \E m \in 1..runsToday[i] : x = <<i, m>>
    BY DEF Counted
  <2>4. \A x : x \in Counted(d)' <=>
               \E i \in Id : runsDay'[i] = d /\ \E m \in 1..runsToday'[i] : x = <<i, m>>
    BY DEF Counted
  <2>5. \A m : m \in 1..n <=> m = n \/ (runsDay[r.id] = d /\ m \in 1..runsToday[r.id])
    BY <1>1
  <2>6. <<r.id, n>> \notin Counted(d)
    BY <1>1, <2>3
  <2>7. n \in 1..n
    BY <1>1
  <2> HIDE DEF n
  <2>8. /\ runsToday'[r.id] = n /\ runsDay'[r.id] = d
        /\ \A i \in Id \ {r.id} : runsToday'[i] = runsToday[i] /\ runsDay'[i] = runsDay[i]
    BY <1>1, <2>1
  <2>9. Counted(d)' = Counted(d) \cup {<<r.id, n>>}
    <3>1. ASSUME NEW x, x \in Counted(d)'
          PROVE  x \in Counted(d) \/ x = <<r.id, n>>
      BY <2>3, <2>4, <2>5, <2>8, <3>1
    <3>2. ASSUME NEW x, x \in Counted(d)
          PROVE  x \in Counted(d)'
      BY <2>3, <2>4, <2>5, <2>8, <3>2
    <3>3. <<r.id, n>> \in Counted(d)'
      BY <1>1, <2>4, <2>7, <2>8
    <3> QED
      BY <3>1, <3>2, <3>3
  <2>10. IsFiniteSet(Counted(d))
    BY CountedFinite
  <2>11. Cardinality(Counted(d) \cup {<<r.id, n>>}) = Cardinality(Counted(d)) + 1
    BY <2>6, <2>10, FS_AddElement
  <2> QED
    BY <1>3, <2>9, <2>11 DEF RunsOn
<1> QED
  BY <1>2, <1>3

\* The claim of a row, with or without the run that it is for.
LEMMA DayClaim ==
    ASSUME OnceInv, Counters, DayInv, OnceInv', Counters',
           NEW p \in Proc, NEW r \in rows[p], pc[p] = "claim", MarkClaimed(p, r), now' = now,
           NEW count, Continue(p, rows[p] \ {r}, count),
           \/ UNCHANGED log /\ count = used[p]
           \/ /\ ~OverCap(p) /\ count = used[p] + 1
              /\ \E x \in Run : x.day = Day(tickNow[p]) /\ log' = Append(log, x)
    PROVE  DayOf(p)' /\ CapKept'
<1>1. /\ Ticking(p) /\ tickNow[p] <= now /\ now \in Int /\ tickNow[p] \in Int
      /\ used[p] \in Nat
  BY DEF Ticking, DayInv, DayOf, OnceInv, Shape, Counters
<1>2. PICK d \in Int : d = Day(tickNow[p])
  BY <1>1, DayGrows
<1>3. Latest(p) = d /\ d <= Day(now)
  BY <1>1, <1>2, DayGrows DEF Latest
<1>4. /\ CountedTo(d) /\ Cardinality(LogOn(d)) <= used[p]
      /\ Cardinality(LogOn(d)) \in Nat /\ RunsOn(d) \in Nat
  BY <1>3, LogOnFinite, CountedFinite DEF DayInv, DayOf
<1>5. RunsOn(d)' = IF OverCap(p) THEN RunsOn(d) ELSE RunsOn(d) + 1
  BY <1>2, MarkCounts
<1>6. CountedTo(d)' /\ Cardinality(LogOn(d)') <= count /\ CapKept'
  <2>1. CASE UNCHANGED log /\ count = used[p]
    <3>1. \A e \in Int : LogOn(e)' = LogOn(e)
      BY <2>1 DEF LogOn
    <3> QED
      BY <1>4, <1>5, <2>1, <3>1 DEF CountedTo, DayInv, CapKept
  <2>2. CASE /\ ~OverCap(p) /\ count = used[p] + 1
             /\ \E x \in Run : x.day = Day(tickNow[p]) /\ log' = Append(log, x)
    <3>1. PICK x \in Run : x.day = d /\ log' = Append(log, x)
      BY <1>2, <2>2
    <3>2. log \in Seq(Run) /\ Len(log) \in Nat /\ DOMAIN log = 1..Len(log)
      BY RunsLogged DEF OnceInv, Shape
    <3>3. /\ DOMAIN log' = 1..(Len(log) + 1) /\ log'[Len(log) + 1] = x
          /\ \A k \in DOMAIN log : log'[k] = log[k]
      <4> DEFINE new == Append(log, x)
      <4>1. /\ new \in Seq(Run) /\ Len(new) = Len(log) + 1 /\ new[Len(log) + 1] = x
            /\ \A k \in 1..Len(log) : new[k] = log[k]
        BY <3>2, AppendProperties
      <4>2. DOMAIN new = 1..Len(new)
        BY <4>1, LenProperties
      <4>3. log' = new
        BY <3>1
      <4> HIDE DEF new
      <4> QED
        BY <3>2, <4>1, <4>2, <4>3
    <3>4. DOMAIN log' = DOMAIN log \cup {Len(log) + 1} /\ Len(log) + 1 \notin DOMAIN log
      BY <3>2, <3>3
    <3>5. LogOn(d)' = LogOn(d) \cup {Len(log) + 1}
      BY <3>1, <3>3, <3>4 DEF LogOn
    <3>6. \A e \in Int : e # d => LogOn(e)' = LogOn(e)
      BY <3>1, <3>3, <3>4 DEF LogOn
    <3>7. Cardinality(LogOn(d)') = Cardinality(LogOn(d)) + 1
      <4>1. IsFiniteSet(LogOn(d)) /\ Len(log) + 1 \notin LogOn(d)
        BY <3>4, LogOnFinite DEF LogOn
      <4> QED
        BY <3>5, <4>1, FS_AddElement
    <3>8. used[p] < MaxRunsPerDay
      BY <1>1, <2>2, ParameterAssumption DEF OverCap
    <3>9. Cardinality(LogOn(d)') <= MaxRunsPerDay
      BY <1>1, <1>4, <3>7, <3>8, ParameterAssumption
    <3>10. CapKept'
      BY <3>6, <3>9 DEF DayInv, CapKept
    <3>11. \A k \in DOMAIN log' : log'[k].day <= d
      BY <1>4, <3>1, <3>3, <3>4 DEF CountedTo
    <3>12. Cardinality(LogOn(d)') <= RunsOn(d)'
      BY <1>4, <1>5, <2>2, <3>7 DEF CountedTo
    <3> QED
      BY <1>1, <1>4, <2>2, <3>7, <3>10, <3>11, <3>12 DEF CountedTo
  <2> QED
    BY <2>1, <2>2
<1>7. /\ pc'[p] \in {"idle", "claim"}
      /\ pc'[p] = "claim" => tickNow'[p] = tickNow[p] /\ used'[p] = count
  BY DEF Continue, Counters, OnceInv, Shape
<1>8. pc'[p] = "claim" => Latest(p)' = d
  BY <1>2, <1>7 DEF Latest, Ticking
<1>9. pc'[p] = "claim" => Cardinality(LogOn(Latest(p))') <= used'[p]
  <2>1. pc'[p] = "claim" => LogOn(Latest(p))' = LogOn(d)'
    BY <1>8 DEF LogOn
  <2> QED
    BY <1>6, <1>7, <2>1
<1>10. Ticking(p)' => d <= Day(tickNow'[p]) /\ tickNow'[p] <= now'
  BY <1>1, <1>2, <1>7 DEF Ticking
<1> QED
  BY <1>3, <1>6, <1>9, <1>10, DayMoves

LEMMA DayStep ==
    ASSUME Alone, OnceInv, Counters, DayInv, OnceInv', Counters', Next
    PROVE  DayInv'
<1>1. ASSUME UNCHANGED log
      PROVE  CapKept'
  BY <1>1 DEF DayInv, CapKept, LogOn
<1>2. CASE Clock \/ User
  <2>1. /\ UNCHANGED <<log, runsToday, runsDay, pc, tickNow, used>>
        /\ now' \in {now, now + 1}
    <3>1. CASE Clock
      BY <3>1 DEF Clock, table, tick
    <3>2. CASE User
      BY <3>2 DEF User, CreateTask, BeginRequest, FindTask, WriteTask, Command, table, tick
    <3> QED
      BY <1>2, <3>1, <3>2
  <2> QED
    BY <1>1, <2>1, DayQuiet DEF DayInv
<1>3. ASSUME NEW p \in Proc, RunDue(p) \/ Worker(p) \/ Crash(p) \/ Start(p)
      PROVE  CapKept' /\ DayOf(p)'
  <2>1. CASE Worker(p) \/ Crash(p) \/ Start(p)
    <3>1. CASE Worker(p)
      <4>1. UNCHANGED <<log, now, runsToday, runsDay, pc, tickNow, used>>
        BY <3>1 DEF Worker, Take, RunAnswers, RunFails, NotifyCap, Leave, table, tick
      <4> QED
        BY <1>1, <4>1, DayQuiet
    <3>2. CASE Crash(p) \/ Start(p)
      <4>1. UNCHANGED <<log, now, runsToday, runsDay>>
        BY <3>2 DEF Crash, Start, table
      <4>2. pc'[p] \in {"down", "idle"}
        BY <3>2 DEF Crash, Start, Counters
      <4> QED
        BY <1>1, <4>1, <4>2, DayQuiet
    <3> QED
      BY <2>1, <3>1, <3>2
  <2>2. CASE BeginTick(p)
    <3>1. UNCHANGED <<log, now, runsToday, runsDay>>
      BY <2>2 DEF BeginTick, table
    <3>2. pc[p] = "idle" /\ pc'[p] = "count" /\ tickNow'[p] = now
      BY <2>2 DEF BeginTick, Counters, OnceInv, Shape
    <3> QED
      BY <1>1, <3>1, <3>2, DayQuiet
  <2>3. CASE CountRuns(p)
    <3>1. UNCHANGED <<log, now, runsToday, runsDay>> /\ pc[p] = "count"
      BY <2>3 DEF CountRuns, table
    <3>2. Latest(p) = Day(tickNow[p])
      BY <3>1 DEF Latest, Ticking
    <3>3. \/ pc'[p] = "idle"
          \/ pc'[p] = "claim" /\ tickNow'[p] = tickNow[p] /\ used'[p] = RunsOn(Latest(p))
      BY <2>3, <3>2 DEF CountRuns, Continue, Counters, OnceInv, Shape
    <3> QED
      BY <1>1, <3>1, <3>3, DayQuiet
  <2>4. ASSUME NEW r \in rows[p], SkipInFlight(p, r) \/ ClaimMisses(p, r), UNCHANGED table
        PROVE  CapKept' /\ DayOf(p)'
    <3>1. UNCHANGED <<log, now, runsToday, runsDay>> /\ pc[p] = "claim"
      BY <2>4 DEF SkipInFlight, ClaimMisses, table
    <3>2. pc'[p] = "idle" \/ (pc'[p] = "claim" /\ UNCHANGED <<tickNow[p], used[p]>>)
      BY <2>4 DEF SkipInFlight, ClaimMisses, Continue, Counters, OnceInv, Shape
    <3> QED
      BY <1>1, <3>1, <3>2, DayQuiet
  <2>5. ASSUME NEW r \in rows[p], ClaimMisses(p, r) \/ ClaimCapped(p, r), MarkClaimed(p, r)
        PROVE  CapKept' /\ DayOf(p)'
    <3>1. /\ UNCHANGED <<log, now>> /\ pc[p] = "claim"
          /\ Continue(p, rows[p] \ {r}, used[p])
      BY <2>5 DEF ClaimMisses, ClaimCapped
    <3> QED
      BY <2>5, <3>1, DayClaim
  <2>6. ASSUME NEW r \in rows[p], ClaimRun(p, r)
        PROVE  CapKept' /\ DayOf(p)'
    <3> DEFINE x == [id |-> r.id, due |-> r.due, at |-> tickNow[p], day |-> Day(tickNow[p])]
    <3>1. /\ UNCHANGED now /\ pc[p] = "claim" /\ ~OverCap(p) /\ MarkClaimed(p, r)
          /\ Continue(p, rows[p] \ {r}, used[p] + 1) /\ log' = Append(log, x)
      BY <2>6 DEF ClaimRun
    <3>2. x \in Run /\ x.day = Day(tickNow[p])
      <4>1. tickNow[p] \in Int /\ r \in DueRow
        BY DEF OnceInv, Shape
      <4>2. Day(tickNow[p]) \in Int
        BY <4>1, DayGrows
      <4> QED
        BY <4>1, <4>2 DEF Run, DueRow
    <3> HIDE DEF x
    <3> QED
      BY <3>1, <3>2, DayClaim
  <2> QED
    BY <1>3, <2>1, <2>2, <2>3, <2>4, <2>5, <2>6 DEF RunDue, SkipInFlight, ClaimMisses, ClaimCapped
<1>4. \A p, q \in Proc : p = q
  BY DEF Alone
<1> QED
  BY <1>2, <1>3, <1>4 DEF Next, DayInv

----------------------------------------------------------------------------
(* All of it.                                                              *)

DailyInv == Alone => DayInv
TasksInv == OnceInv /\ Counters /\ HandsInv /\ ActiveCap /\ DailyInv

LEMMA TasksInit == Init => TasksInv
<1> SUFFICES ASSUME Init
             PROVE  TasksInv
  OBVIOUS
<1>1. Counters
  BY DEF Init, Counters
<1>2. HandsInv
  <2>1. << >> \in Seq(Job) /\ Ids(<< >>) = {} /\ EachOnce(<< >>)
    BY DEF Ids, EachOnce, RunsIn
  <2> QED
    BY <2>1 DEF Init, HandsInv, Executor, Hands, Runs
<1>3. ActiveCap
  <2>1. ActiveRows = {}
    BY DEF Init, ActiveRows
  <2> QED
    BY <2>1, FS_EmptySet, ParameterAssumption DEF ActiveCap
<1>4. DayInv
  <2>1. \A d : LogOn(d) = {}
    BY DEF Init, LogOn
  <2>2. \A d : Cardinality(LogOn(d)) = 0
    BY <2>1, FS_EmptySet
  <2>3. \A p \in Proc : pc[p] = "idle"
    BY DEF Init
  <2>4. \A d : RunsOn(d) \in Nat
    BY <1>1, CountedFinite
  <2>5. \A d : CountedTo(d)
    BY <2>2, <2>4 DEF Init, CountedTo
  <2> QED
    BY <2>2, <2>3, <2>5, ParameterAssumption DEF DayInv, DayOf, CapKept, Ticking
<1> QED
  BY OnceInit, <1>1, <1>2, <1>3, <1>4 DEF TasksInv, DailyInv

LEMMA TasksStep == TasksInv /\ OnceInv' /\ [Next]_vars => TasksInv'
<1> SUFFICES ASSUME TasksInv, OnceInv', [Next]_vars
             PROVE  TasksInv'
  OBVIOUS
<1> USE DEF TasksInv
<1>1. CASE Next
  <2>1. Counters'
    BY <1>1, CountersStep
  <2>2. HandsInv' /\ ActiveCap'
    BY <1>1, HandsStep, ActiveRowsStep
  <2>3. DailyInv'
    BY <1>1, <2>1, DayStep DEF DailyInv, Alone
  <2> QED
    BY <2>1, <2>2, <2>3
<1>2. CASE UNCHANGED vars
  <2>1. UNCHANGED <<now, table, tick, inflight, queue, worker, log, rewound, faults>>
    BY <1>2 DEF vars
  <2>2. Counters'
    BY <2>1 DEF Counters, table, tick
  <2>3. HandsInv'
    BY <2>1, HandsStay
  <2>4. ActiveCap'
    BY <2>1 DEF ActiveCap, ActiveRows, table
  <2>5. DailyInv'
    BY <2>1 DEF DailyInv, DayInv, DayOf, CapKept, CountedTo, Latest, Ticking, LogOn, RunsOn, Counted,
                table, tick, Alone
  <2> QED
    BY <2>2, <2>3, <2>4, <2>5
<1> QED
  BY <1>1, <1>2

LEMMA TasksAlways == Spec => []TasksInv
<1>1. Init => TasksInv
  BY TasksInit
<1>2. TasksInv /\ OnceInv' /\ [Next]_vars => TasksInv'
  BY TasksStep
<1> QED
  BY OnceAlways, <1>1, <1>2, PTL DEF Spec

\* The table, the tick and the executor keep their types, whatever fails.
THEOREM TypeCorrect == Spec => []TypeOK
<1>1. TasksInv => TypeOK
  BY DEF TasksInv, OnceInv, Shape, Counters, HandsInv, Executor, TypeOK
<1> QED
  BY <1>1, TasksAlways, PTL

\* However creates, resumes, pauses, cancels and claims interleave, in however many
\* processes, no more tasks are active than the cap (db.create_scheduled_task,
\* set_scheduled_task_active).
THEOREM ActiveCapAlways == Spec => []ActiveCap
<1>1. TasksInv => ActiveCap
  BY DEF TasksInv
<1> QED
  BY <1>1, TasksAlways, PTL

\* One process starts at most MAX_RUNS_PER_DAY runs in a day, over ticks, restarts, deleted
\* rows and claims whose answer was lost (scheduled_tasks.run_due).
THEOREM DailyCapAlways == Spec => []DailyCap
<1>1. TasksInv => DailyCap
  <2> SUFFICES ASSUME TasksInv, Alone, NEW d \in 0..Day(MaxTime)
               PROVE  Cardinality({k \in DOMAIN log : log[k].day = d}) <= MaxRunsPerDay
    BY DEF DailyCap
  <2>1. d \in Int
    OBVIOUS
  <2> QED
    BY <2>1 DEF TasksInv, DailyInv, DayInv, CapKept, LogOn
<1> QED
  BY <1>1, TasksAlways, PTL

\* _inflight holds exactly the tasks the executor has, each once: none is left behind and
\* none runs beside itself (scheduled_tasks.run_due, _process).
THEOREM InflightAlways == Spec => []InflightExact
<1>1. TasksInv => InflightExact
  <2> SUFFICES ASSUME TasksInv, NEW p \in Proc
               PROVE  LET working == worker[p] # None /\ worker[p].kind # "notice"
                          queued  == {queue[p][k].id : k \in HeldRuns(p)}
                      IN /\ inflight[p] = queued \cup (IF working THEN {worker[p].id} ELSE {})
                         /\ Cardinality(HeldRuns(p)) = Cardinality(queued)
                         /\ working => worker[p].id \notin queued
    BY DEF InflightExact
  <2> DEFINE working == worker[p] # None /\ worker[p].kind # "notice"
             held == HeldRuns(p)
             queued == {queue[p][k].id : k \in held}
             f == [k \in held |-> queue[p][k].id]
  <2>1. Hands(p) /\ queue[p] \in Seq(Job) /\ worker[p] \in Job \cup {None}
    BY DEF TasksInv, HandsInv, Executor
  <2>2. working = Runs(p)
    BY <2>1 DEF Runs, Job
  <2>3. held = RunsIn(queue[p]) /\ queued = Ids(queue[p])
    BY DEF HeldRuns, RunsIn, Ids
  <2>4. f \in Bijection(held, queued)
    <3>1. \A k, l \in held : queue[p][k].id = queue[p][l].id => k = l
      BY <2>1, <2>3 DEF Hands, EachOnce
    <3> HIDE DEF held
    <3>2. f \in [held -> queued] /\ \A k \in held : f[k] = queue[p][k].id
      OBVIOUS
    <3>3. \A i \in queued : \E k \in held : f[k] = i
      OBVIOUS
    <3> HIDE DEF f, queued
    <3> QED
      BY <3>1, <3>2, <3>3 DEF Bijection, Injection, Surjection, IsInjective
  <2>5. IsFiniteSet(held)
    <3>1. Len(queue[p]) \in Nat /\ DOMAIN queue[p] = 1..Len(queue[p])
      BY <2>1, LenProperties
    <3>2. IsFiniteSet(1..Len(queue[p]))
      BY <3>1, FS_Interval
    <3>3. held \subseteq 1..Len(queue[p])
      BY <3>1 DEF HeldRuns
    <3> QED
      BY <3>2, <3>3, FS_Subset
  <2>6. Cardinality(queued) = Cardinality(held)
    BY <2>4, <2>5, FS_Bijection DEF ExistsBijection
  <2> HIDE DEF working, queued, held
  <2>7. /\ inflight[p] = queued \cup (IF working THEN {worker[p].id} ELSE {})
        /\ working => worker[p].id \notin queued
    BY <2>1, <2>2, <2>3 DEF Hands
  <2> QED
    BY <2>6, <2>7 DEF working, queued, held
<1> QED
  BY <1>1, TasksAlways, PTL

----------------------------------------------------------------------------
(* The next date of a series, Recurrence, on any calendar.                 *)
CONSTANTS MonthLengths, Slots, Gap, Fold, FirstDays, Delays, LastDay
VARIABLES due, plan
Cal == INSTANCE Recurrence

\* Months have 28 to 31 days.
MonthsSound == MonthLengths \in Seq(28..31) /\ MonthLengths # <<>>

\* The values of the constants: the clocks change by one slot of several, and never skip
\* the last one of a day; rows are served before the last month.
CalendarSound ==
    /\ MonthsSound
    /\ Slots \in Nat /\ Slots >= 2
    /\ Gap \in Nat /\ Fold \in Nat /\ Gap <= Fold /\ (Gap + 1) % Slots # 0
    /\ Delays \subseteq Nat
    /\ FirstDays \subseteq 0..(Cal!FirstDay[Len(MonthLengths) + 1] - 1)
    /\ LastDay \in Int /\ LastDay < Cal!FirstDay[Len(MonthLengths)]

LEMMA MonthsToo == CalendarSound => MonthsSound
BY DEF CalendarSound

LEMMA LeastOne ==
    ASSUME NEW T, T \subseteq Nat, T # {}
    PROVE  \E x \in T : \A y \in T : x <= y
<1> DEFINE R == {ss \in Nat \X Nat : ss[1] < ss[2]}
<1>1. IsWellFoundedOn(R, Nat)
  BY NatLessThanWellFounded DEF OpToRel
<1> HIDE DEF R
<1>2. PICK m \in T : \A k \in T : <<k, m>> \notin R
  BY <1>1, WFMin
<1>3. \A k \in T : k \in Nat /\ m \in Nat /\ ~(k < m)
  BY <1>2 DEF R
<1> QED
  BY <1>3

\* The chosen least one is the least one.
LEMMA TheLeast ==
    ASSUME NEW S, S \subseteq Int, NEW x \in S, \A y \in S : x <= y
    PROVE  Cal!Least(S) = x
<1>1. \A z \in S : (\A y \in S : z <= y) => z = x
  <2> SUFFICES ASSUME NEW z \in S, \A y \in S : z <= y
               PROVE  z = x
    OBVIOUS
  <2>1. z <= x /\ x <= z /\ x \in Int /\ z \in Int
    OBVIOUS
  <2> QED
    BY <2>1
<1> QED
  BY <1>1 DEF Cal!Least

LEMMA OfTwo ==
    ASSUME NEW a \in Int, NEW b \in Int
    PROVE  /\ Cal!Min({a, b}) = IF a <= b THEN a ELSE b
           /\ Cal!Max({a, b}) = IF a <= b THEN b ELSE a
<1>1. Cal!Min({a, b}) = IF a <= b THEN a ELSE b
  <2> DEFINE m == IF a <= b THEN a ELSE b
  <2>1. m \in {a, b} /\ \A y \in {a, b} : m <= y
    OBVIOUS
  <2>2. \A z \in {a, b} : (\A y \in {a, b} : z <= y) => z = m
    OBVIOUS
  <2> HIDE DEF m
  <2>3. (CHOOSE x \in {a, b} : \A y \in {a, b} : x <= y) = m
    BY <2>1, <2>2
  <2> QED
    BY <2>3 DEF Cal!Min, m
<1>2. Cal!Max({a, b}) = IF a <= b THEN b ELSE a
  <2> DEFINE m == IF a <= b THEN b ELSE a
  <2>1. m \in {a, b} /\ \A y \in {a, b} : m >= y
    OBVIOUS
  <2>2. \A z \in {a, b} : (\A y \in {a, b} : z >= y) => z = m
    OBVIOUS
  <2> HIDE DEF m
  <2>3. (CHOOSE x \in {a, b} : \A y \in {a, b} : x >= y) = m
    BY <2>1, <2>2
  <2> QED
    BY <2>3 DEF Cal!Max, m
<1> QED
  BY <1>1, <1>2

\* Days by their slots.
LEMMA DaysApart ==
    ASSUME NEW s \in Nat, NEW a \in Int, NEW b \in Int, a < b
    PROVE  a * s + s <= b * s /\ a * s \in Int /\ b * s \in Int
<1>1. PICK k \in Nat : b = (a + 1) + k
  <2>1. b - (a + 1) \in Nat /\ b = (a + 1) + (b - (a + 1))
    OBVIOUS
  <2> QED
    BY <2>1
<1>2. b * s = (a + 1) * s + k * s /\ (a + 1) * s = a * s + s
  BY <1>1
<1>3. k * s \in Nat /\ a * s \in Int
  OBVIOUS
<1> QED
  BY <1>2, <1>3

\* Division by the slots of a day.
LEMMA DayAndWall ==
    ASSUME NEW s \in Nat \ {0}, NEW x \in Int
    PROVE  /\ x \div s \in Int /\ x % s \in 0..(s - 1)
           /\ x = (x \div s) * s + (x % s)
OBVIOUS

LEMMA OneDayOneWall ==
    ASSUME NEW s \in Nat \ {0}, NEW d \in Int, NEW w \in 0..(s - 1)
    PROVE  (d * s + w) \div s = d /\ (d * s + w) % s = w
<1> DEFINE x == d * s + w
           q == x \div s
           r == x % s
<1>1. d * s \in Int /\ w \in Int /\ x \in Int
  OBVIOUS
<1>2. q \in Int /\ r \in 0..(s - 1) /\ x = q * s + r
  BY <1>1, DayAndWall
<1>3. q * s \in Int
  BY <1>2
<1> HIDE DEF q, r
<1>4. CASE q = d
  BY <1>1, <1>2, <1>3, <1>4 DEF q, r
<1>5. CASE q < d
  <2>1. q * s + s <= d * s
    BY <1>2, <1>5, DaysApart
  <2> QED
    BY <1>1, <1>2, <1>3, <2>1
<1>6. CASE d < q
  <2>1. d * s + s <= q * s
    BY <1>2, <1>6, DaysApart
  <2> QED
    BY <1>1, <1>2, <1>3, <2>1
<1> QED
  BY <1>2, <1>4, <1>5, <1>6

----------------------------------------------------------------------------
\* The zone: a wall time is one slot off its instant at most, and read back as it was
\* unless it is skipped.
LEMMA ZoneReads ==
    ASSUME CalendarSound, NEW u \in Int
    PROVE  /\ Cal!ToUtc(u) \in Int /\ u - 1 <= Cal!ToUtc(u) /\ Cal!ToUtc(u) <= u
           /\ Cal!ToLocal(u) \in Int /\ u <= Cal!ToLocal(u) /\ Cal!ToLocal(u) <= u + 1
           /\ Cal!ToUtc(u) < u => Cal!ToUtc(u) >= Gap /\ Cal!ToUtc(u) < Fold
           /\ Cal!ToLocal(u) = u => u < Gap \/ Fold <= u
           /\ Cal!ToLocal(Cal!ToUtc(u)) = IF u = Gap /\ Gap < Fold THEN u + 1 ELSE u
           /\ Cal!ToUtc(Cal!ToLocal(Cal!ToUtc(u))) = Cal!ToUtc(u)
           /\ u \in Nat => Cal!ToUtc(u) \in Nat
BY DEF CalendarSound, Cal!ToUtc, Cal!ToLocal

LEMMA ZoneInOrder ==
    ASSUME CalendarSound, NEW u \in Int, NEW v \in Int, u <= v
    PROVE  Cal!ToLocal(u) <= Cal!ToLocal(v)
BY DEF CalendarSound, Cal!ToLocal

LEMMA DatesInOrder ==
    ASSUME CalendarSound, NEW u \in Int, NEW v \in Int, u <= v
    PROVE  Cal!DateOf(u) \in Int /\ Cal!DateOf(v) \in Int /\ Cal!DateOf(u) <= Cal!DateOf(v)
<1> DEFINE x == Cal!ToLocal(u)
           y == Cal!ToLocal(v)
           d == x \div Slots
           e == y \div Slots
<1>1. Slots \in Nat \ {0} /\ x \in Int /\ y \in Int /\ x <= y
  <2>1. x \in Int /\ y \in Int
    BY ZoneReads
  <2>2. x <= y
    BY ZoneInOrder
  <2> QED
    BY <2>1, <2>2 DEF CalendarSound
<1> HIDE DEF x, y
<1>2. /\ d \in Int /\ x % Slots \in 0..(Slots - 1) /\ x = d * Slots + (x % Slots)
      /\ e \in Int /\ y % Slots \in 0..(Slots - 1) /\ y = e * Slots + (y % Slots)
  BY <1>1, DayAndWall
<1>3. d = Cal!DateOf(u) /\ e = Cal!DateOf(v)
  BY DEF Cal!DateOf, x, y
<1> HIDE DEF d, e
<1>4. CASE e < d
  <2>1. e * Slots + Slots <= d * Slots /\ e * Slots \in Int /\ d * Slots \in Int
    BY <1>1, <1>2, <1>4, DaysApart
  <2> QED
    BY <1>1, <1>2, <2>1
<1> QED
  BY <1>2, <1>3, <1>4

\* The instants of a wall time: in the order of the days, and before or after a moment
\* as the day is.
LEMMA InstantsInOrder ==
    ASSUME CalendarSound, NEW w \in 0..(Slots - 1), NEW d \in Int
    PROVE  /\ Cal!LocalCandidate(d, w) \in Int
           /\ \A e \in Int : d < e => Cal!LocalCandidate(d, w) < Cal!LocalCandidate(e, w)
           /\ \A t \in Int : d < Cal!DateOf(t) => Cal!LocalCandidate(d, w) <= t
           /\ \A t \in Int : Cal!DateOf(t) < d => t < Cal!LocalCandidate(d, w)
<1>1. Slots \in Nat \ {0} /\ Slots >= 2 /\ w \in Int
  BY DEF CalendarSound
<1> DEFINE x == d * Slots + w
<1>2. x \in Int /\ d * Slots \in Int
  BY <1>1
<1>3. /\ Cal!ToUtc(x) \in Int /\ x - 1 <= Cal!ToUtc(x) /\ Cal!ToUtc(x) <= x
      /\ Cal!ToUtc(x) < x => Cal!ToUtc(x) >= Gap /\ Cal!ToUtc(x) < Fold
  <2> HIDE DEF x
  <2> QED
    BY <1>2, ZoneReads
<1>4. Cal!LocalCandidate(d, w) = Cal!ToUtc(x)
  BY DEF Cal!LocalCandidate
<1>5. ASSUME NEW e \in Int, d < e
      PROVE  Cal!LocalCandidate(d, w) < Cal!LocalCandidate(e, w)
  <2> DEFINE y == e * Slots + w
  <2>1. d * Slots + Slots <= e * Slots /\ e * Slots \in Int
    BY <1>1, <1>5, DaysApart
  <2>2. y \in Int /\ x + 2 <= y
    BY <1>1, <1>2, <2>1
  <2>3. Cal!LocalCandidate(e, w) = Cal!ToUtc(y)
    BY DEF Cal!LocalCandidate
  <2> HIDE DEF x, y
  <2>4. y - 1 <= Cal!ToUtc(y) /\ Cal!ToUtc(y) \in Int
    BY <2>2, ZoneReads
  <2> QED
    BY <1>2, <1>3, <1>4, <2>2, <2>3, <2>4
<1>6. ASSUME NEW t \in Int
      PROVE  /\ d < Cal!DateOf(t) => Cal!LocalCandidate(d, w) <= t
             /\ Cal!DateOf(t) < d => t < Cal!LocalCandidate(d, w)
  <2> DEFINE y == Cal!ToLocal(t)
             a == y \div Slots
  <2>1. /\ y \in Int /\ t <= y /\ y <= t + 1
        /\ y = t => t < Gap \/ Fold <= t
    BY ZoneReads
  <2>2. a = Cal!DateOf(t)
    BY DEF Cal!DateOf
  <2>3. a \in Int /\ y % Slots \in 0..(Slots - 1) /\ y = a * Slots + (y % Slots)
    <3> HIDE DEF y
    <3> QED
      BY <1>1, <2>1, DayAndWall
  <2> HIDE DEF a, y
  <2>4. CASE d < a
    <3>1. d * Slots + Slots <= a * Slots /\ a * Slots \in Int
      BY <1>1, <2>3, <2>4, DaysApart
    <3>2. x + 1 <= y
      BY <1>1, <1>2, <2>3, <3>1
    <3> HIDE DEF x
    <3>3. Cal!ToUtc(x) <= t
      BY <1>2, <1>3, <2>1, <3>2
    <3> QED
      BY <1>4, <2>2, <2>3, <2>4, <3>3
  <2>5. CASE a < d
    <3>1. a * Slots + Slots <= d * Slots /\ a * Slots \in Int
      BY <1>1, <2>3, <2>5, DaysApart
    <3>2. y + 1 <= x
      BY <1>1, <1>2, <2>3, <3>1
    <3> HIDE DEF x
    <3>3. t < Cal!ToUtc(x)
      <4>1. Gap \in Nat /\ Fold \in Nat
        BY DEF CalendarSound
      <4> QED
        BY <1>2, <1>3, <2>1, <3>2, <4>1
    <3> QED
      BY <1>4, <2>2, <2>3, <2>5, <3>3
  <2>6. d < a \/ a < d \/ a = d
    BY <2>3
  <2> QED
    BY <2>2, <2>3, <2>4, <2>5, <2>6
<1> QED
  BY <1>3, <1>4, <1>5, <1>6

\* A wall time is of its day, and what it is unless the clocks skip it; it is read back
\* into its own instant.
LEMMA ReadBack ==
    ASSUME CalendarSound, NEW w \in 0..(Slots - 1), NEW d \in Int
    PROVE  /\ Cal!DateOf(Cal!LocalCandidate(d, w)) = d
           /\ Cal!WallOf(Cal!LocalCandidate(d, w)) \in 0..(Slots - 1)
           /\ ~Cal!Skipped(w) => Cal!WallOf(Cal!LocalCandidate(d, w)) = w
           /\ Cal!ToUtc(Cal!ToLocal(Cal!LocalCandidate(d, w))) = Cal!LocalCandidate(d, w)
           /\ d \in Nat => Cal!LocalCandidate(d, w) \in 0..((d + 1) * Slots)
<1>1. Slots \in Nat \ {0} /\ Slots >= 2 /\ w \in Int
  BY DEF CalendarSound
<1> DEFINE x == d * Slots + w
<1>2. x \in Int /\ d * Slots \in Int
  BY <1>1
<1>3. x \div Slots = d /\ x % Slots = w
  BY <1>1, OneDayOneWall
<1>4. Cal!LocalCandidate(d, w) = Cal!ToUtc(x)
  BY DEF Cal!LocalCandidate
<1>5. ASSUME x = Gap /\ Gap < Fold
      PROVE  /\ Cal!DateOf(Cal!ToUtc(x)) = d
             /\ Cal!WallOf(Cal!ToUtc(x)) \in 0..(Slots - 1)
             /\ ~Cal!Skipped(w) => Cal!WallOf(Cal!ToUtc(x)) = w
  <2>1. Cal!ToLocal(Cal!ToUtc(x)) = x + 1
    <3> HIDE DEF x
    <3> QED
      BY <1>2, <1>5, ZoneReads
  <2>2. w = Gap % Slots /\ (x + 1) % Slots # 0
    BY <1>3, <1>5 DEF CalendarSound
  <2>3. w + 1 # Slots
    <3> SUFFICES ASSUME w + 1 = Slots
                 PROVE  FALSE
      OBVIOUS
    <3>1. (d + 1) * Slots = d * Slots + Slots /\ d + 1 \in Int /\ 0 \in 0..(Slots - 1)
      BY <1>1
    <3>2. x + 1 = (d + 1) * Slots + 0
      BY <1>1, <1>2, <3>1
    <3>3. ((d + 1) * Slots + 0) % Slots = 0
      BY <1>1, <3>1, OneDayOneWall
    <3> QED
      BY <2>2, <3>2, <3>3
  <2>4. w + 1 \in 0..(Slots - 1) /\ x + 1 = d * Slots + (w + 1)
    BY <1>1, <1>2, <2>3
  <2>5. (x + 1) \div Slots = d /\ (x + 1) % Slots = w + 1
    BY <1>1, <2>4, OneDayOneWall
  <2> HIDE DEF x
  <2> QED
    BY <2>1, <2>2, <2>4, <2>5 DEF Cal!DateOf, Cal!WallOf, Cal!Skipped
<1>6. ASSUME ~(x = Gap /\ Gap < Fold)
      PROVE  /\ Cal!DateOf(Cal!ToUtc(x)) = d
             /\ Cal!WallOf(Cal!ToUtc(x)) \in 0..(Slots - 1)
             /\ ~Cal!Skipped(w) => Cal!WallOf(Cal!ToUtc(x)) = w
  <2>1. Cal!ToLocal(Cal!ToUtc(x)) = x
    <3> HIDE DEF x
    <3> QED
      BY <1>2, <1>6, ZoneReads
  <2> HIDE DEF x
  <2> QED
    BY <1>3, <2>1 DEF Cal!DateOf, Cal!WallOf
<1>7. Cal!ToUtc(Cal!ToLocal(Cal!ToUtc(x))) = Cal!ToUtc(x)
  <2> HIDE DEF x
  <2> QED
    BY <1>2, ZoneReads
<1>8. ASSUME d \in Nat
      PROVE  Cal!ToUtc(x) \in 0..((d + 1) * Slots)
  <2>1. d * Slots \in Nat /\ (d + 1) * Slots = d * Slots + Slots
    BY <1>1, <1>8
  <2>2. x \in Nat /\ x <= (d + 1) * Slots /\ (d + 1) * Slots \in Nat
    BY <1>1, <2>1
  <2> HIDE DEF x
  <2>3. Cal!ToUtc(x) \in Nat /\ Cal!ToUtc(x) <= x
    BY <2>2, ZoneReads
  <2> QED
    BY <2>2, <2>3
<1> QED
  BY <1>4, <1>5, <1>6, <1>7, <1>8

----------------------------------------------------------------------------
\* The months: the first days add the lengths up, and every day is of one month.

\* What the function FirstDay is defined by asks of each of its values.
NextFirst(f, m) == IF m = 1 THEN 0 ELSE f[m - 1] + MonthLengths[m - 1]
FirstsUpTo(f, n) == f = [m \in 1..n |-> NextFirst(f, m)] /\ \A m \in 1..n : f[m] \in Nat

LEMMA MonthsAre ==
    ASSUME MonthsSound
    PROVE  /\ Len(MonthLengths) \in Nat \ {0}
           /\ \A m \in 1..Len(MonthLengths) : MonthLengths[m] \in 28..31
<1>1. MonthLengths \in Seq(28..31) /\ MonthLengths # <<>>
  BY DEF MonthsSound
<1> QED
  BY <1>1, LenProperties, ElementOfSeq, EmptySeq

\* Such a function exists up to every month, or there were a least one it does not reach.
LEMMA FirstsExist ==
    ASSUME MonthsSound, NEW n \in 1..(Len(MonthLengths) + 1)
    PROVE  \E f : FirstsUpTo(f, n)
<1> DEFINE T == {k \in 1..(Len(MonthLengths) + 1) : ~ \E f : FirstsUpTo(f, k)}
<1>1. /\ Len(MonthLengths) \in Nat
      /\ \A m \in 1..Len(MonthLengths) : MonthLengths[m] \in Nat
  BY MonthsAre
<1>2. SUFFICES ASSUME T # {} PROVE FALSE
  OBVIOUS
<1>3. PICK m \in T : \A y \in T : m <= y
  <2>1. T \subseteq Nat
    BY <1>1
  <2> HIDE DEF T
  <2> QED
    BY <1>2, <2>1, LeastOne
<1>4. m \in 1..(Len(MonthLengths) + 1) /\ ~ \E f : FirstsUpTo(f, m)
  OBVIOUS
<1>5. CASE m = 1
  <2> DEFINE f == [i \in 1..1 |-> 0]
  <2>1. f = [i \in 1..1 |-> NextFirst(f, i)] /\ \A i \in 1..1 : f[i] \in Nat
    BY DEF NextFirst
  <2> HIDE DEF f
  <2> QED
    BY <1>4, <1>5, <2>1 DEF FirstsUpTo
<1>6. CASE m # 1
  <2>1. m - 1 \in 1..Len(MonthLengths) /\ m - 1 \in 1..(Len(MonthLengths) + 1) /\ m - 1 \notin T
    BY <1>1, <1>3, <1>4, <1>6
  <2>2. PICK g : FirstsUpTo(g, m - 1)
    BY <2>1
  <2> DEFINE next == NextFirst(g, m)
             f == [i \in 1..m |-> IF i = m THEN next ELSE g[i]]
  <2>3. next \in Nat
    <3>1. g[m - 1] \in Nat
      BY <2>1, <2>2 DEF FirstsUpTo
    <3>2. MonthLengths[m - 1] \in Nat
      BY <1>1, <2>1
    <3> QED
      BY <1>6, <3>1, <3>2 DEF NextFirst
  <2>4. \A i \in 1..(m - 1) : g[i] = NextFirst(g, i) /\ g[i] \in Nat
    BY <2>2 DEF FirstsUpTo
  <2>5. \A i \in 1..(m - 1) : f[i] = g[i]
    BY <1>1, <1>4
  <2>6. f[m] = next
    BY <1>1, <1>4
  <2>7. \A i \in 1..m : f[i] = NextFirst(f, i)
    <3>1. ASSUME NEW i \in 1..(m - 1)
          PROVE  f[i] = NextFirst(f, i)
      <4>1. f[i] = NextFirst(g, i)
        BY <2>4, <2>5
      <4>2. i # 1 => f[i - 1] = g[i - 1]
        BY <1>1, <1>4, <2>5
      <4> HIDE DEF f
      <4> QED
        BY <4>1, <4>2 DEF NextFirst
    <3>2. f[m] = NextFirst(f, m)
      <4>1. f[m - 1] = g[m - 1]
        BY <2>1, <2>5
      <4>2. f[m] = NextFirst(g, m)
        BY <2>6
      <4> HIDE DEF f, next
      <4> QED
        BY <1>6, <4>1, <4>2 DEF NextFirst
    <3> HIDE DEF f
    <3> QED
      BY <1>1, <1>4, <3>1, <3>2
  <2>8. \A i \in 1..m : f[i] \in Nat
    <3> HIDE DEF next
    <3>1. \A i \in 1..m : i = m \/ i \in 1..(m - 1)
      BY <1>1, <1>4
    <3> QED
      BY <2>3, <2>4, <2>5, <2>6, <3>1
  <2>9. f = [i \in 1..m |-> NextFirst(f, i)]
    <3>1. f = [i \in 1..m |-> f[i]]
      OBVIOUS
    <3> HIDE DEF f
    <3> QED
      BY <2>7, <3>1
  <2> HIDE DEF f
  <2> QED
    BY <1>4, <2>8, <2>9 DEF FirstsUpTo
<1> QED
  BY <1>5, <1>6

LEMMA FirstDays1 ==
    ASSUME MonthsSound
    PROVE  /\ Cal!FirstDay[1] = 0
           /\ \A m \in 1..Len(MonthLengths) :
                Cal!FirstDay[m + 1] = Cal!FirstDay[m] + MonthLengths[m]
           /\ \A m \in 1..(Len(MonthLengths) + 1) : Cal!FirstDay[m] \in Nat
<1> DEFINE n == Len(MonthLengths)
           F == Cal!FirstDay
<1>1. n \in Nat \ {0} /\ \A m \in 1..n : MonthLengths[m] \in Nat
  BY MonthsAre
<1>2. \E f : f = [m \in 1..(n + 1) |-> NextFirst(f, m)]
  BY <1>1, FirstsExist DEF FirstsUpTo
<1>3. F = CHOOSE f : f = [m \in 1..(n + 1) |-> NextFirst(f, m)]
  BY DEF Cal!FirstDay, NextFirst
<1> HIDE DEF F
<1>4. F = [m \in 1..(n + 1) |-> NextFirst(F, m)]
  BY <1>2, <1>3
<1>5. \A m \in 1..(n + 1) : F[m] = NextFirst(F, m)
  BY <1>4
<1>6. F[1] = 0
  BY <1>1, <1>5 DEF NextFirst
<1>7. \A m \in 1..n : F[m + 1] = F[m] + MonthLengths[m]
  <2> SUFFICES ASSUME NEW m \in 1..n
               PROVE  F[m + 1] = F[m] + MonthLengths[m]
    OBVIOUS
  <2>1. m + 1 \in 1..(n + 1) /\ m + 1 # 1 /\ (m + 1) - 1 = m
    BY <1>1
  <2>2. F[m + 1] = F[(m + 1) - 1] + MonthLengths[(m + 1) - 1]
    BY <1>5, <2>1 DEF NextFirst
  <2> QED
    BY <2>1, <2>2
<1>8. \A m \in 1..(n + 1) : F[m] \in Nat
  <2> DEFINE T == {m \in 1..(n + 1) : F[m] \notin Nat}
  <2> SUFFICES ASSUME T # {}
               PROVE  FALSE
    OBVIOUS
  <2>1. T \subseteq Nat
    BY <1>1
  <2> HIDE DEF T
  <2>2. PICK m \in T : \A y \in T : m <= y
    BY <2>1, LeastOne
  <2>3. m \in 1..(n + 1) /\ F[m] \notin Nat
    BY DEF T
  <2>4. m # 1
    BY <1>6, <2>3
  <2>5. m - 1 \in 1..n /\ m - 1 \in 1..(n + 1) /\ m - 1 \notin T /\ (m - 1) + 1 = m
    BY <1>1, <2>2, <2>3, <2>4
  <2>6. F[m - 1] \in Nat
    BY <2>5 DEF T
  <2>7. F[(m - 1) + 1] = F[m - 1] + MonthLengths[m - 1]
    BY <1>7, <2>5
  <2> QED
    BY <1>1, <2>3, <2>5, <2>6, <2>7
<1> QED
  BY <1>6, <1>7, <1>8 DEF F

\* Months follow one another.
LEMMA MonthsInOrder ==
    ASSUME MonthsSound, NEW m \in 1..Len(MonthLengths), NEW n \in 1..(Len(MonthLengths) + 1),
           m < n
    PROVE  Cal!FirstDay[m + 1] <= Cal!FirstDay[n]
<1> DEFINE F == Cal!FirstDay
           N == Len(MonthLengths)
           T == {k \in 1..(N + 1) : m < k /\ ~(F[m + 1] <= F[k])}
<1>1. N \in Nat \ {0} /\ \A k \in 1..N : MonthLengths[k] \in Nat
  BY MonthsAre
<1>2. (\A k \in 1..N : F[k + 1] = F[k] + MonthLengths[k]) /\ \A k \in 1..(N + 1) : F[k] \in Nat
  BY FirstDays1
<1> HIDE DEF F
<1> SUFFICES ASSUME T # {}
             PROVE  FALSE
  BY DEF F
<1>3. T \subseteq Nat
  BY <1>1
<1> HIDE DEF T
<1>4. PICK k \in T : \A y \in T : k <= y
  BY <1>3, LeastOne
<1>5. k \in 1..(N + 1) /\ m < k /\ ~(F[m + 1] <= F[k])
  BY DEF T
<1>6. k # m + 1
  <2>1. m + 1 \in 1..(N + 1)
    BY <1>1
  <2>2. F[m + 1] \in Nat
    BY <1>2, <2>1
  <2> QED
    BY <1>5, <2>2
<1>7. k - 1 \in 1..N /\ k - 1 \in 1..(N + 1) /\ m < k - 1 /\ k - 1 \notin T /\ (k - 1) + 1 = k
  BY <1>1, <1>4, <1>5, <1>6
<1>8. F[m + 1] <= F[k - 1]
  BY <1>7 DEF T
<1>9. F[(k - 1) + 1] = F[k - 1] + MonthLengths[k - 1] /\ MonthLengths[k - 1] \in Nat
  BY <1>1, <1>2, <1>7
<1>10. F[k] = F[k - 1] + MonthLengths[k - 1]
  BY <1>7, <1>9
<1>11. F[k - 1] \in Nat /\ F[m + 1] \in Nat
  <2>1. m + 1 \in 1..(N + 1)
    BY <1>1
  <2> QED
    BY <1>2, <1>7, <2>1
<1> QED
  BY <1>5, <1>8, <1>9, <1>10, <1>11

LEMMA InItsMonth ==
    ASSUME MonthsSound, NEW d \in 0..(Cal!FirstDay[Len(MonthLengths) + 1] - 1)
    PROVE  \E m \in 1..Len(MonthLengths) : Cal!FirstDay[m] <= d /\ d < Cal!FirstDay[m + 1]
<1> DEFINE F == Cal!FirstDay
           N == Len(MonthLengths)
           T == {k \in 1..(N + 1) : d < F[k]}
<1>1. N \in Nat \ {0}
  BY MonthsAre
<1>2. F[1] = 0 /\ \A k \in 1..(N + 1) : F[k] \in Nat
  BY FirstDays1
<1> HIDE DEF F
<1>3. N + 1 \in T
  <2>1. N + 1 \in 1..(N + 1)
    BY <1>1
  <2>2. d \in 0..(F[N + 1] - 1)
    BY DEF F
  <2> QED
    BY <1>2, <2>1, <2>2
<1>4. T \subseteq Nat
  BY <1>1
<1> HIDE DEF T
<1>5. PICK k \in T : \A y \in T : k <= y
  BY <1>3, <1>4, LeastOne
<1>6. k \in 1..(N + 1) /\ d < F[k] /\ d >= 0
  BY DEF T
<1>7. k # 1
  BY <1>2, <1>6
<1>8. k - 1 \in 1..N /\ k - 1 \in 1..(N + 1) /\ k - 1 \notin T /\ (k - 1) + 1 = k
  BY <1>1, <1>5, <1>6, <1>7
<1>9. F[k - 1] <= d
  <2>1. ~(d < F[k - 1])
    BY <1>8 DEF T
  <2>2. F[k - 1] \in Nat /\ d \in Int
    BY <1>2, <1>8
  <2> QED
    BY <2>1, <2>2
<1>10. F[k - 1] <= d /\ d < F[(k - 1) + 1]
  BY <1>6, <1>8, <1>9
<1> QED
  BY <1>8, <1>10 DEF F

\* A day is of one month.
LEMMA OneMonth ==
    ASSUME MonthsSound, NEW d \in Int, NEW m \in 1..Len(MonthLengths),
           Cal!FirstDay[m] <= d, d < Cal!FirstDay[m + 1]
    PROVE  Cal!MonthOf(d) = m
<1> DEFINE F == Cal!FirstDay
           N == Len(MonthLengths)
<1>1. N \in Nat \ {0} /\ \A k \in 1..(N + 1) : F[k] \in Nat
  BY MonthsAre, FirstDays1
<1>2. ASSUME NEW k \in 1..N, F[k] <= d, d < F[k + 1]
      PROVE  k = m
  <2>1. k \in 1..(N + 1) /\ m \in 1..(N + 1) /\ k + 1 \in 1..(N + 1) /\ m + 1 \in 1..(N + 1)
    BY <1>1
  <2>2. k < m => F[k + 1] <= F[m]
    BY <2>1, MonthsInOrder
  <2>3. m < k => F[m + 1] <= F[k]
    BY <2>1, MonthsInOrder
  <2>4. F[k] \in Nat /\ F[m] \in Nat /\ F[k + 1] \in Nat /\ F[m + 1] \in Nat
    BY <1>1, <2>1
  <2> HIDE DEF F
  <2>5. F[m] <= d /\ d < F[m + 1]
    BY DEF F
  <2> QED
    BY <1>2, <2>1, <2>2, <2>3, <2>4, <2>5
<1>3. (CHOOSE k \in 1..N : F[k] <= d /\ d < F[k + 1]) = m
  BY <1>2
<1> QED
  BY <1>3 DEF Cal!MonthOf, Cal!Months

End == Cal!FirstDay[Len(MonthLengths) + 1]
CalDays == 0..(End - 1)

\* A day's month and its place in it.
LEMMA DayInMonth ==
    ASSUME MonthsSound, NEW d \in CalDays
    PROVE  /\ Cal!MonthOf(d) \in 1..Len(MonthLengths)
           /\ Cal!FirstDay[Cal!MonthOf(d)] <= d /\ d < Cal!FirstDay[Cal!MonthOf(d) + 1]
           /\ Cal!FirstDay[Cal!MonthOf(d)] \in Nat
           /\ Cal!DayOfMonth(d) \in 1..MonthLengths[Cal!MonthOf(d)]
           /\ d = Cal!FirstDay[Cal!MonthOf(d)] + Cal!DayOfMonth(d) - 1
<1>1. PICK m \in 1..Len(MonthLengths) : Cal!FirstDay[m] <= d /\ d < Cal!FirstDay[m + 1]
  BY InItsMonth DEF CalDays, End
<1>2. d \in Int
  BY DEF CalDays
<1>3. Cal!MonthOf(d) = m
  BY <1>1, <1>2, OneMonth
<1>4. /\ Cal!FirstDay[m] \in Nat /\ MonthLengths[m] \in Nat
      /\ Cal!FirstDay[m + 1] = Cal!FirstDay[m] + MonthLengths[m]
  <2>1. m \in 1..(Len(MonthLengths) + 1)
    BY MonthsAre
  <2> QED
    BY <2>1, MonthsAre, FirstDays1
<1>5. Cal!DayOfMonth(d) = d - Cal!FirstDay[m] + 1
  BY <1>3 DEF Cal!DayOfMonth
<1> QED
  BY <1>1, <1>2, <1>3, <1>4, <1>5

LEMMA MonthsFollow ==
    ASSUME MonthsSound, NEW d \in CalDays, NEW e \in CalDays, d <= e
    PROVE  Cal!MonthOf(d) <= Cal!MonthOf(e)
<1> DEFINE m == Cal!MonthOf(d)
           n == Cal!MonthOf(e)
<1>1. m \in 1..Len(MonthLengths) /\ n \in 1..Len(MonthLengths) /\ Len(MonthLengths) \in Nat
  BY DayInMonth, MonthsAre
<1>2. Cal!FirstDay[m] <= d /\ e < Cal!FirstDay[n + 1] /\ Cal!FirstDay[m] \in Nat
  BY DayInMonth
<1> HIDE DEF m, n
<1>3. CASE n < m
  <2>1. m \in 1..(Len(MonthLengths) + 1) /\ n + 1 \in 1..(Len(MonthLengths) + 1)
    BY <1>1
  <2>2. Cal!FirstDay[n + 1] <= Cal!FirstDay[m] /\ Cal!FirstDay[n + 1] \in Nat
    BY <1>1, <1>3, <2>1, MonthsInOrder, FirstDays1
  <2> QED
    BY <1>2, <2>2 DEF CalDays
<1> QED
  BY <1>1, <1>3 DEF m, n

\* The day of a month that an anchor means.
LEMMA AnchorDay ==
    ASSUME MonthsSound, NEW m \in 1..Len(MonthLengths), NEW a \in 1..31
    PROVE  LET d == Cal!FirstDay[m] + Cal!Min({a, MonthLengths[m]}) - 1
           IN  /\ d \in CalDays /\ Cal!MonthOf(d) = m
               /\ Cal!DayOfMonth(d) = Cal!Min({a, MonthLengths[m]})
               /\ Cal!FirstDay[m] <= d /\ d < Cal!FirstDay[m + 1]
<1> DEFINE x == Cal!Min({a, MonthLengths[m]})
           d == Cal!FirstDay[m] + x - 1
<1>1. x \in 1..MonthLengths[m] /\ MonthLengths[m] \in Nat
  <2>1. MonthLengths[m] \in 28..31
    BY MonthsAre
  <2>2. a \in Int /\ MonthLengths[m] \in Int
    BY <2>1
  <2>3. x = IF a <= MonthLengths[m] THEN a ELSE MonthLengths[m]
    BY <2>2, OfTwo
  <2> QED
    BY <2>1, <2>2, <2>3
<1>2. Cal!FirstDay[m] \in Nat /\ Cal!FirstDay[m + 1] = Cal!FirstDay[m] + MonthLengths[m]
  <2>1. m \in 1..(Len(MonthLengths) + 1)
    BY MonthsAre
  <2> QED
    BY <2>1, FirstDays1
<1> HIDE DEF x
<1>3. d \in Nat /\ Cal!FirstDay[m] <= d /\ d < Cal!FirstDay[m + 1]
  BY <1>1, <1>2
<1>4. Cal!FirstDay[m + 1] <= End /\ End \in Nat
  <2>1. Len(MonthLengths) + 1 \in 1..(Len(MonthLengths) + 1) /\ m < Len(MonthLengths) + 1
    BY MonthsAre
  <2> QED
    BY <2>1, MonthsInOrder, FirstDays1 DEF End
<1>5. d \in CalDays
  BY <1>2, <1>3, <1>4, <1>1 DEF CalDays
<1>6. Cal!MonthOf(d) = m
  <2> HIDE DEF d
  <2> QED
    BY <1>3, OneMonth
<1>7. Cal!DayOfMonth(d) = x
  <2>1. Cal!DayOfMonth(d) = d - Cal!FirstDay[m] + 1
    BY <1>6 DEF Cal!DayOfMonth
  <2> QED
    BY <1>1, <1>2, <2>1
<1> QED
  BY <1>3, <1>5, <1>6, <1>7 DEF x

----------------------------------------------------------------------------
\* The search.

\* Of dates tried in order, that leave out no date of the series from the day of `after'
\* on, the first that is good and late enough is the first of the series.
LEMMA Searched ==
    ASSUME CalendarSound, NEW w \in 0..(Slots - 1), NEW after \in Int, NEW On \in SUBSET Int,
           NEW n \in 0..5, NEW t, NEW good,
           \A k \in 0..n : t[k] \in Int,
           \A j, k \in 0..n : j < k => t[j] < t[k],
           \A d \in On : \/ d < Cal!DateOf(after) \/ t[n] < d
                         \/ \E k \in 0..n : k \in good /\ d = t[k],
           n \in good, Cal!DateOf(after) < t[n]
    PROVE  \E k \in 0..n :
             /\ k \in good /\ after < Cal!LocalCandidate(t[k], w)
             /\ \A j \in 0..n : j < k => ~(j \in good /\ after < Cal!LocalCandidate(t[j], w))
             /\ \A d \in On : after < Cal!LocalCandidate(d, w) =>
                  Cal!LocalCandidate(t[k], w) <= Cal!LocalCandidate(d, w)
<1> DEFINE T == {k \in 0..n : k \in good /\ after < Cal!LocalCandidate(t[k], w)}
<1>1. n \in T
  <2>1. n \in 0..n /\ t[n] \in Int
    OBVIOUS
  <2> QED
    BY <2>1, InstantsInOrder
<1>2. T \subseteq Nat
  OBVIOUS
<1> HIDE DEF T
<1>3. PICK k \in T : \A j \in T : k <= j
  BY <1>1, <1>2, LeastOne
<1>4. k \in 0..n /\ k \in good /\ after < Cal!LocalCandidate(t[k], w)
  BY DEF T
<1>5. \A j \in 0..n : j < k => ~(j \in good /\ after < Cal!LocalCandidate(t[j], w))
  <2> SUFFICES ASSUME NEW j \in 0..n, j < k, j \in good, after < Cal!LocalCandidate(t[j], w)
               PROVE  FALSE
    OBVIOUS
  <2>1. j \in T
    BY DEF T
  <2> QED
    BY <1>3, <1>4, <2>1
<1>6. ASSUME NEW d \in On, after < Cal!LocalCandidate(d, w)
      PROVE  Cal!LocalCandidate(t[k], w) <= Cal!LocalCandidate(d, w)
  <2>1. /\ d \in Int /\ t[k] \in Int /\ t[n] \in Int /\ n \in 0..n
    BY <1>4
  <2>2. /\ Cal!LocalCandidate(d, w) \in Int /\ Cal!LocalCandidate(t[k], w) \in Int
    BY <2>1, InstantsInOrder
  <2>3. ~(d < Cal!DateOf(after))
    <3>1. d < Cal!DateOf(after) => Cal!LocalCandidate(d, w) <= after
      BY <2>1, InstantsInOrder
    <3> QED
      BY <1>6, <2>2, <3>1
  <2>4. CASE t[n] < d
    <3>1. t[k] < d
      BY <1>4, <2>1, <2>4
    <3> QED
      BY <2>1, <2>2, <3>1, InstantsInOrder
  <2>5. ASSUME NEW j \in 0..n, j \in good, d = t[j]
        PROVE  Cal!LocalCandidate(t[k], w) <= Cal!LocalCandidate(d, w)
    <3>1. j \in T
      BY <1>6, <2>5 DEF T
    <3>2. k <= j
      BY <1>3, <3>1
    <3>3. CASE k = j
      BY <2>2, <2>5, <3>3
    <3>4. CASE k < j
      <4>1. t[k] < d
        BY <1>4, <2>5, <3>4
      <4> QED
        BY <2>1, <2>2, <4>1, InstantsInOrder
    <3> QED
      BY <1>4, <3>2, <3>3, <3>4
  <2> QED
    BY <2>3, <2>4, <2>5
<1> QED
  BY <1>4, <1>5, <1>6

\* What NextOccurrence tries, and what it may take.
Tried(u, p, after, k) == Cal!TriedDate(u, p.repeat, after, Cal!Anchor(p, u), k)
Good(p, d) == p.repeat = "weekdays" => Cal!Weekday(d) < 5
OnDays(p, u) == {d \in CalDays : Cal!OnSeries(d, p, u)}

LEMMA FirstTaken ==
    ASSUME CalendarSound, NEW u \in Int, NEW after \in Int, u <= after, NEW p, NEW k \in 0..5,
           Good(p, Tried(u, p, after, k)),
           Cal!LocalCandidate(Tried(u, p, after, k), Cal!WallOf(u)) \in Int,
           after < Cal!LocalCandidate(Tried(u, p, after, k), Cal!WallOf(u)),
           \A j \in 0..5 : j < k =>
              /\ Cal!LocalCandidate(Tried(u, p, after, j), Cal!WallOf(u)) \in Int
              /\ ~(/\ Good(p, Tried(u, p, after, j))
                   /\ after < Cal!LocalCandidate(Tried(u, p, after, j), Cal!WallOf(u)))
    PROVE  Cal!NextOccurrence(u, p.repeat, after, Cal!Anchor(p, u))
             = Cal!LocalCandidate(Tried(u, p, after, k), Cal!WallOf(u))
<1> DEFINE T(i) == Cal!TriedDate(u, p.repeat, after, Cal!Anchor(p, u), i)
           At(i) == Cal!LocalCandidate(T(i), Cal!WallOf(u))
           Fits(i) == /\ p.repeat = "weekdays" => Cal!Weekday(T(i)) < 5
                      /\ At(i) > after /\ At(i) > u
           tried == {i \in 0..3 : Fits(i)}
           more == {i \in 4..5 : Fits(i)}
<1>1. Fits(k)
  <2>1. At(k) \in Int /\ after < At(k) /\ (p.repeat = "weekdays" => Cal!Weekday(T(k)) < 5)
    BY DEF Tried, Good
  <2> HIDE DEF At, T
  <2> QED
    BY <2>1
<1>2. \A j \in 0..5 : j < k => ~Fits(j)
  <2> SUFFICES ASSUME NEW j \in 0..5, j < k, Fits(j)
               PROVE  FALSE
    OBVIOUS
  <2>1. At(j) \in Int /\ ~((p.repeat = "weekdays" => Cal!Weekday(T(j)) < 5) /\ after < At(j))
    BY DEF Tried, Good
  <2>2. (p.repeat = "weekdays" => Cal!Weekday(T(j)) < 5) /\ At(j) > after
    OBVIOUS
  <2> HIDE DEF At, T
  <2> QED
    BY <2>1, <2>2
<1>3. Cal!NextOccurrence(u, p.repeat, after, Cal!Anchor(p, u))
        = At(Cal!Least(IF tried = {} THEN more ELSE tried))
  BY DEF Cal!NextOccurrence
<1>4. Cal!Least(IF tried = {} THEN more ELSE tried) = k
  <2> HIDE DEF Fits
  <2>1. CASE k <= 3
    <3>1. k \in tried /\ tried \subseteq Int /\ \A j \in tried : k <= j
      BY <1>1, <1>2, <2>1
    <3> HIDE DEF tried
    <3>2. Cal!Least(tried) = k
      BY <3>1, TheLeast
    <3> QED
      BY <3>1, <3>2
  <2>2. CASE ~(k <= 3)
    <3>1. k \in more /\ more \subseteq Int /\ (\A j \in more : k <= j) /\ tried = {}
      BY <1>1, <1>2, <2>2
    <3> HIDE DEF tried, more
    <3>2. Cal!Least(more) = k
      BY <3>1, TheLeast
    <3> QED
      BY <3>1, <3>2
  <2> QED
    BY <2>1, <2>2
<1> QED
  BY <1>3, <1>4 DEF Tried

\* Some date tried is a good one behind the day of `after', and no good one is left out.
Covers(u, p, after) ==
    \E n \in 0..5 :
        /\ \A k \in 0..n : /\ Tried(u, p, after, k) \in Int
                           /\ Good(p, Tried(u, p, after, k)) => Tried(u, p, after, k) \in OnDays(p, u)
        /\ \A j, k \in 0..n : j < k => Tried(u, p, after, j) < Tried(u, p, after, k)
        /\ \A d \in OnDays(p, u) :
             \/ d < Cal!DateOf(after) \/ Tried(u, p, after, n) < d
             \/ \E k \in 0..n : Good(p, Tried(u, p, after, k)) /\ d = Tried(u, p, after, k)
        /\ Good(p, Tried(u, p, after, n)) /\ Cal!DateOf(after) < Tried(u, p, after, n)

LEMMA BetweenDays ==
    ASSUME CalendarSound, NEW x \in Int, NEW y \in CalDays, 0 <= x, x <= y
    PROVE  x \in CalDays
<1>1. Len(MonthLengths) + 1 \in 1..(Len(MonthLengths) + 1)
  BY MonthsToo, MonthsAre
<1>2. End \in Nat
  BY MonthsToo, <1>1, FirstDays1 DEF End
<1> QED
  BY <1>2 DEF CalDays

\* Room behind the days on which rows are served.
LEMMA RoomAhead ==
    ASSUME CalendarSound, NEW d \in Int, 0 <= d, d <= LastDay
    PROVE  /\ d \in CalDays /\ \A k \in 0..28 : d + k \in CalDays
           /\ Cal!MonthOf(d) + 1 \in 1..Len(MonthLengths)
<1> DEFINE n == Len(MonthLengths)
           last == Cal!FirstDay[n]
<1>1. /\ n \in Nat \ {0} /\ MonthLengths[n] \in 28..31 /\ last \in Nat /\ End \in Nat
      /\ End = last + MonthLengths[n]
  <2>1. n \in Nat \ {0} /\ n \in 1..n /\ n \in 1..(n + 1) /\ n + 1 \in 1..(n + 1)
    BY MonthsToo, MonthsAre
  <2>2. MonthLengths[n] \in 28..31
    BY MonthsToo, <2>1, MonthsAre
  <2>3. Cal!FirstDay[n + 1] = Cal!FirstDay[n] + MonthLengths[n]
    BY MonthsToo, <2>1, FirstDays1
  <2>4. Cal!FirstDay[n] \in Nat /\ Cal!FirstDay[n + 1] \in Nat
    BY MonthsToo, <2>1, FirstDays1
  <2> QED
    BY <2>1, <2>2, <2>3, <2>4 DEF End
<1>2. LastDay \in Int /\ LastDay < last
  BY DEF CalendarSound
<1>3. d \in CalDays /\ \A k \in 0..28 : d + k \in CalDays
  <2>1. \A x \in Int : 0 <= x /\ x < End => x \in CalDays
    BY <1>1 DEF CalDays
  <2>2. PICK l \in Nat, m \in 28..31 : l = last /\ m = MonthLengths[n]
    BY <1>1
  <2>3. d < l /\ End = l + m
    BY <1>1, <1>2, <2>2
  <2>4. \A k \in 0..28 : d + k \in Int /\ 0 <= d + k /\ d + k < End
    BY <2>3
  <2>5. d < End
    BY <2>3
  <2> QED
    BY <2>1, <2>4, <2>5
<1> HIDE DEF last
<1>4. Cal!MonthOf(d) + 1 \in 1..n
  <2> DEFINE m == Cal!MonthOf(d)
  <2>1. m \in 1..n /\ Cal!FirstDay[m] <= d
    BY MonthsToo, <1>3, DayInMonth
  <2>2. m # n
    BY <1>1, <1>2, <2>1 DEF last
  <2> HIDE DEF m
  <2> QED
    BY <1>1, <2>1, <2>2 DEF m
<1> QED
  BY <1>3, <1>4

\* The days of a search: that of the row, and that of the delivery.
Searching(u, after) ==
    /\ u \in Int /\ after \in Int /\ u <= after
    /\ 0 <= Cal!DateOf(u) /\ Cal!DateOf(after) <= LastDay

LEMMA SearchDays ==
    ASSUME CalendarSound, NEW u, NEW after, Searching(u, after)
    PROVE  /\ Cal!DateOf(u) \in CalDays /\ Cal!DateOf(after) \in CalDays
           /\ Cal!DateOf(u) <= Cal!DateOf(after)
           /\ \A k \in 0..28 : Cal!DateOf(after) + k \in CalDays
           /\ Cal!MonthOf(Cal!DateOf(after)) + 1 \in 1..Len(MonthLengths)
<1>1. /\ Cal!DateOf(u) \in Int /\ Cal!DateOf(after) \in Int /\ Cal!DateOf(u) <= Cal!DateOf(after)
      /\ 0 <= Cal!DateOf(u) /\ Cal!DateOf(after) <= LastDay /\ LastDay \in Int
  BY DatesInOrder DEF Searching, CalendarSound
<1>2. 0 <= Cal!DateOf(after) /\ Cal!DateOf(u) <= LastDay
  BY <1>1
<1>3. Cal!DateOf(u) \in CalDays
  BY <1>1, <1>2, RoomAhead
<1> QED
  BY <1>1, <1>2, <1>3, RoomAhead

\* Day by day.
LEMMA DaysCovered ==
    ASSUME CalendarSound, NEW u, NEW after, NEW p, Searching(u, after),
           p.repeat \in {"daily", "weekdays"}
    PROVE  Covers(u, p, after)
<1> DEFINE s == Cal!DateOf(u)
           a == Cal!DateOf(after)
           b == IF s <= a - 1 THEN a - 1 ELSE s
           n == IF p.repeat = "daily" \/ (b + 2) % 7 < 5 THEN 2
                ELSE IF (b + 3) % 7 < 5 THEN 3 ELSE 4
<1>1. s \in CalDays /\ a \in CalDays /\ s <= a /\ \A k \in 0..28 : a + k \in CalDays
  BY SearchDays
<1> HIDE DEF s, a
<1>2. s \in Int /\ a \in Int /\ 0 <= s
  BY <1>1 DEF CalDays
<1>3. b \in Int /\ b >= a - 1 /\ b <= a /\ b >= s
  BY <1>1, <1>2
<1>4. \A k \in Int : Tried(u, p, after, k) = b + k
  <2>1. a - 1 \in Int
    BY <1>2
  <2>2. Cal!Max({s, a - 1}) = b
    <3>1. Cal!Max({s, a - 1}) = IF s <= a - 1 THEN a - 1 ELSE s
      BY <1>2, <2>1, OfTwo
    <3> QED
      BY <3>1
  <2> HIDE DEF b
  <2> QED
    BY <2>2 DEF Tried, Cal!TriedDate, Cal!DailyDate, s, a
<1> HIDE DEF b
<1>5. n \in 0..5 /\ n >= 2 /\ n <= 4 /\ (p.repeat = "weekdays" => (b + n) % 7 < 5)
  BY <1>3
<1>6. \A d : d \in OnDays(p, u) <=> d \in CalDays /\ Good(p, d)
  BY DEF OnDays, Cal!OnSeries, Good
<1> HIDE DEF n
<1>7. \A k \in 0..n : b + k \in CalDays /\ Tried(u, p, after, k) = b + k
  <2>1. \A k \in 0..n : b + k \in CalDays
    <3> SUFFICES ASSUME NEW k \in 0..n
                 PROVE  b + k \in CalDays
      OBVIOUS
    <3>1. b + k \in Int /\ b + k <= a + 28 /\ 0 <= b + k
      BY <1>2, <1>3, <1>5
    <3>2. a + 28 \in CalDays /\ a + 28 \in Int
      BY <1>1, <1>2
    <3> QED
      BY <3>1, <3>2, BetweenDays
  <2> QED
    BY <1>4, <1>5, <2>1
<1>8. \A d \in OnDays(p, u) :
        d < a \/ b + n < d \/ \E k \in 0..n : Good(p, b + k) /\ d = b + k
  <2> SUFFICES ASSUME NEW d \in OnDays(p, u), ~(d < a), ~(b + n < d)
               PROVE  \E k \in 0..n : Good(p, b + k) /\ d = b + k
    OBVIOUS
  <2>1. d \in Int /\ Good(p, d)
    BY <1>6 DEF CalDays
  <2>2. d - b \in 0..n /\ d = b + (d - b)
    BY <1>2, <1>3, <1>5, <2>1
  <2> QED
    BY <2>1, <2>2
<1>9. Good(p, b + n) /\ a < b + n
  BY <1>2, <1>3, <1>5 DEF Good, Cal!Weekday
<1>10. n \in 0..n /\ Tried(u, p, after, n) = b + n
  BY <1>4, <1>5
<1>11. \A k \in 0..n : /\ Tried(u, p, after, k) \in Int
                       /\ Good(p, Tried(u, p, after, k)) => Tried(u, p, after, k) \in OnDays(p, u)
  BY <1>6, <1>7 DEF CalDays
<1>12. \A j, k \in 0..n : j < k => Tried(u, p, after, j) < Tried(u, p, after, k)
  BY <1>3, <1>5, <1>7
<1>13. \A d \in OnDays(p, u) :
         \/ d < Cal!DateOf(after) \/ Tried(u, p, after, n) < d
         \/ \E k \in 0..n : Good(p, Tried(u, p, after, k)) /\ d = Tried(u, p, after, k)
  BY <1>7, <1>8, <1>10 DEF a
<1>14. Good(p, Tried(u, p, after, n)) /\ Cal!DateOf(after) < Tried(u, p, after, n)
  BY <1>9, <1>10 DEF a
<1> QED
  BY <1>5, <1>11, <1>12, <1>13, <1>14 DEF Covers

\* Week by week.
LEMMA WeeksCovered ==
    ASSUME CalendarSound, NEW u, NEW after, NEW p, Searching(u, after), p.repeat = "weekly"
    PROVE  Covers(u, p, after)
<1> DEFINE s == Cal!DateOf(u)
           a == Cal!DateOf(after)
           m == IF s <= a - 1 THEN a - 1 ELSE s
           b == s + 7 * ((m - s) \div 7)
<1>1. s \in CalDays /\ a \in CalDays /\ s <= a /\ \A k \in 0..28 : a + k \in CalDays
  BY SearchDays
<1> HIDE DEF s, a
<1>2. s \in Int /\ a \in Int /\ 0 <= s
  BY <1>1 DEF CalDays
<1>3. m \in Int /\ m >= a - 1 /\ m <= a /\ m >= s
  BY <1>1, <1>2
<1>4. \A k \in Int : Tried(u, p, after, k) = b + 7 * k
  <2>1. a - 1 \in Int
    BY <1>2
  <2>2. Cal!Max({s, a - 1}) = m
    <3>1. Cal!Max({s, a - 1}) = IF s <= a - 1 THEN a - 1 ELSE s
      BY <1>2, <2>1, OfTwo
    <3> QED
      BY <3>1
  <2>3. p.repeat # "monthly"
    OBVIOUS
  <2> HIDE DEF m
  <2> QED
    BY <2>2, <2>3 DEF Tried, Cal!TriedDate, Cal!WeeklyDate, s, a
<1> HIDE DEF m
<1>5. b \in Int /\ b <= m /\ m < b + 7 /\ s <= b /\ b % 7 = s % 7
  <2> DEFINE q == (m - s) \div 7
  <2>1. m - s \in Nat
    BY <1>2, <1>3
  <2>2. q \in Nat /\ 7 * q <= m - s /\ m - s < 7 * q + 7
    BY <2>1
  <2> HIDE DEF q
  <2>3. (s + 7 * q) % 7 = s % 7
    BY <1>2, <2>2
  <2> QED
    BY <1>2, <1>3, <2>2, <2>3 DEF q
<1> HIDE DEF b
<1>6. \A k \in 0..2 : /\ Tried(u, p, after, k) = b + 7 * k /\ b + 7 * k \in CalDays
                      /\ (b + 7 * k) % 7 = s % 7
  <2> SUFFICES ASSUME NEW k \in 0..2
               PROVE  b + 7 * k \in CalDays /\ (b + 7 * k) % 7 = s % 7
    BY <1>4
  <2>1. b + 7 * k \in Int /\ b + 7 * k <= a + 28 /\ 0 <= b + 7 * k
    BY <1>2, <1>3, <1>5
  <2>2. a + 28 \in CalDays
    BY <1>1
  <2>3. (b + 7 * k) % 7 = b % 7
    BY <1>5
  <2> QED
    BY <1>5, <2>1, <2>2, <2>3, BetweenDays
<1>7. \A d : d \in OnDays(p, u) <=> d \in CalDays /\ d % 7 = s % 7
  BY DEF OnDays, Cal!OnSeries, Cal!Weekday, s
<1>8. \A d \in OnDays(p, u) : d < a \/ b + 14 < d \/ \E k \in 0..2 : d = b + 7 * k
  <2> SUFFICES ASSUME NEW d \in OnDays(p, u), ~(d < a), ~(b + 14 < d)
               PROVE  \E k \in 0..2 : d = b + 7 * k
    OBVIOUS
  <2>1. d \in Int /\ d % 7 = b % 7 /\ b <= d /\ d <= b + 14
    BY <1>2, <1>3, <1>5, <1>7 DEF CalDays
  <2>2. d = b \/ d = b + 7 \/ d = b + 14
    BY <1>5, <2>1
  <2>3. b = b + 7 * 0 /\ b + 7 = b + 7 * 1 /\ b + 14 = b + 7 * 2
    BY <1>5
  <2> QED
    BY <2>2, <2>3
<1>9. a < b + 14
  BY <1>2, <1>3, <1>5
<1>10. Tried(u, p, after, 2) = b + 14 /\ \A d : Good(p, d)
  BY <1>4, <1>5 DEF Good
<1>11. \A k \in 0..2 : /\ Tried(u, p, after, k) \in Int
                       /\ Good(p, Tried(u, p, after, k)) => Tried(u, p, after, k) \in OnDays(p, u)
  BY <1>6, <1>7 DEF CalDays
<1>12. \A j, k \in 0..2 : j < k => Tried(u, p, after, j) < Tried(u, p, after, k)
  BY <1>5, <1>6
<1>13. \A d \in OnDays(p, u) :
         \/ d < Cal!DateOf(after) \/ Tried(u, p, after, 2) < d
         \/ \E k \in 0..2 : Good(p, Tried(u, p, after, k)) /\ d = Tried(u, p, after, k)
  BY <1>6, <1>8, <1>10 DEF a
<1>14. Good(p, Tried(u, p, after, 2)) /\ Cal!DateOf(after) < Tried(u, p, after, 2)
  BY <1>9, <1>10 DEF a
<1> QED
  BY <1>11, <1>12, <1>13, <1>14 DEF Covers

\* Month by month.
LEMMA MonthsCovered ==
    ASSUME CalendarSound, NEW u, NEW after, NEW p, Searching(u, after), p.repeat = "monthly",
           Cal!Anchor(p, u) \in 1..31
    PROVE  Covers(u, p, after)
<1> DEFINE s == Cal!DateOf(u)
           a == Cal!DateOf(after)
           ms == Cal!MonthOf(s)
           ma == Cal!MonthOf(a)
           m == ms + (IF ma - ms > 1 THEN (ma - ms) - 1 ELSE 0)
           n == (ma + 1) - m
           N == Len(MonthLengths)
           x == Cal!Anchor(p, u)
           D(k) == Cal!FirstDay[k] + Cal!Min({x, MonthLengths[k]}) - 1
<1>1. s \in CalDays /\ a \in CalDays /\ s <= a /\ ma + 1 \in 1..N
  BY SearchDays
<1>2. ms \in 1..N /\ ma \in 1..N /\ ms <= ma /\ N \in Nat
  <2> HIDE DEF s, a
  <2> QED
    BY MonthsToo, <1>1, DayInMonth, MonthsFollow, MonthsAre
<1>3. /\ Cal!FirstDay[ma] <= a /\ a < Cal!FirstDay[ma + 1] /\ a \in Int
  <2> HIDE DEF a
  <2> QED
    BY MonthsToo, <1>1, DayInMonth DEF CalDays
<1>4. \A k \in Int : Tried(u, p, after, k) = D(m + k)
  BY DEF Tried, Cal!TriedDate, Cal!MonthlyDate
<1>5. /\ \A k \in 1..N : /\ D(k) \in CalDays /\ Cal!MonthOf(D(k)) = k
                         /\ Cal!DayOfMonth(D(k)) = Cal!Min({x, MonthLengths[k]})
                         /\ Cal!FirstDay[k] <= D(k) /\ D(k) < Cal!FirstDay[k + 1]
  <2> HIDE DEF x
  <2>1. x \in 1..31
    BY DEF x
  <2> QED
    BY MonthsToo, <2>1, AnchorDay
<1>6. \A d : d \in OnDays(p, u) <=>
        d \in CalDays /\ Cal!DayOfMonth(d) = Cal!Min({x, MonthLengths[Cal!MonthOf(d)]})
  BY DEF OnDays, Cal!OnSeries
<1> HIDE DEF s, a, ms, ma, x
<1>7. /\ m \in 1..N /\ m <= ma /\ n \in 1..2 /\ m + n = ma + 1
      /\ \A k \in 0..n : m + k \in 1..N
  BY <1>1, <1>2
<1>8. \A d \in OnDays(p, u) : d = D(Cal!MonthOf(d)) /\ Cal!MonthOf(d) \in 1..N
  <2> SUFFICES ASSUME NEW d \in OnDays(p, u)
               PROVE  d = D(Cal!MonthOf(d)) /\ Cal!MonthOf(d) \in 1..N
    OBVIOUS
  <2>1. d \in CalDays /\ Cal!DayOfMonth(d) = Cal!Min({x, MonthLengths[Cal!MonthOf(d)]})
    BY <1>6
  <2>2. /\ d = Cal!FirstDay[Cal!MonthOf(d)] + Cal!DayOfMonth(d) - 1
        /\ Cal!MonthOf(d) \in 1..N
    BY MonthsToo, <2>1, DayInMonth
  <2> QED
    BY <2>1, <2>2
<1> HIDE DEF D, m, n
<1>9. /\ \A k \in 1..N : D(k) \in Int /\ D(k) \in OnDays(p, u)
      /\ \A j, k \in 1..N : j < k => D(j) < D(k)
  <2>1. \A k \in 1..N : D(k) \in Int /\ D(k) \in OnDays(p, u)
    <3> SUFFICES ASSUME NEW k \in 1..N
                 PROVE  D(k) \in Int /\ D(k) \in OnDays(p, u)
      OBVIOUS
    <3>1. PICK d : d = D(k)
      OBVIOUS
    <3>2. d \in CalDays /\ Cal!MonthOf(d) = k /\ Cal!DayOfMonth(d) = Cal!Min({x, MonthLengths[k]})
      BY <1>5, <3>1
    <3>3. d \in OnDays(p, u) /\ d \in Int
      BY <1>6, <3>2 DEF CalDays
    <3> QED
      BY <3>1, <3>3
  <2>2. ASSUME NEW j \in 1..N, NEW k \in 1..N, j < k
        PROVE  D(j) < D(k)
    <3>1. j \in 1..(N + 1) /\ k \in 1..(N + 1) /\ j + 1 \in 1..(N + 1)
      BY <1>2
    <3>2. Cal!FirstDay[j + 1] <= Cal!FirstDay[k]
      BY MonthsToo, <2>2, <3>1, MonthsInOrder
    <3>3. Cal!FirstDay[j + 1] \in Nat /\ Cal!FirstDay[k] \in Nat
      BY MonthsToo, <3>1, FirstDays1
    <3>4. D(j) < Cal!FirstDay[j + 1] /\ Cal!FirstDay[k] <= D(k) /\ D(j) \in Int /\ D(k) \in Int
      BY <1>5, <2>1
    <3> QED
      BY <3>2, <3>3, <3>4
  <2> QED
    BY <2>1, <2>2
<1>10. a < D(m + n)
  <2>1. ma + 1 \in 1..(N + 1) /\ ma + 1 \in 1..N
    BY <1>1, <1>2
  <2>2. Cal!FirstDay[ma + 1] <= D(ma + 1) /\ D(ma + 1) \in Int /\ Cal!FirstDay[ma + 1] \in Nat
    BY MonthsToo, <1>5, <1>9, <2>1, FirstDays1
  <2> QED
    BY <1>3, <1>7, <2>2
<1>11. \A d \in OnDays(p, u) : d < a \/ D(m + n) < d \/ \E k \in 0..n : d = D(m + k)
  <2> SUFFICES ASSUME NEW d \in OnDays(p, u)
               PROVE  d < a \/ D(m + n) < d \/ \E k \in 0..n : d = D(m + k)
    OBVIOUS
  <2>1. PICK j \in 1..N : d = D(j)
    BY <1>8
  <2>2. CASE j < m
    <3>1. j \in 1..(N + 1) /\ ma \in 1..(N + 1) /\ j < ma /\ j + 1 \in 1..(N + 1)
      BY <1>2, <1>7, <2>2
    <3>2. Cal!FirstDay[j + 1] <= Cal!FirstDay[ma] /\ Cal!FirstDay[j + 1] \in Nat /\ Cal!FirstDay[ma] \in Nat
      BY MonthsToo, <3>1, MonthsInOrder, FirstDays1
    <3>3. d < Cal!FirstDay[j + 1] /\ d \in Int
      BY <1>5, <1>9, <2>1
    <3> QED
      BY <1>3, <3>2, <3>3
  <2>3. CASE m + n < j
    BY <1>2, <1>7, <1>9, <2>1, <2>3
  <2>4. CASE ~(j < m) /\ ~(m + n < j)
    <3>1. j - m \in 0..n /\ m + (j - m) = j
      BY <1>2, <1>7, <2>4
    <3> QED
      BY <2>1, <3>1
  <2> QED
    BY <2>2, <2>3, <2>4
<1>12. n \in 0..5 /\ n \in 0..n /\ \A k \in 0..n : Tried(u, p, after, k) = D(m + k)
  <2>1. n \in 0..5 /\ n \in 0..n /\ \A k \in 0..n : k \in Int
    BY <1>7
  <2> QED
    BY <1>4, <2>1
<1>13. \A d : Good(p, d)
  BY DEF Good
<1>14. \A k \in 0..n : /\ Tried(u, p, after, k) \in Int
                       /\ Good(p, Tried(u, p, after, k)) => Tried(u, p, after, k) \in OnDays(p, u)
  BY <1>7, <1>9, <1>12
<1>15. \A j, k \in 0..n : j < k => Tried(u, p, after, j) < Tried(u, p, after, k)
  <2> SUFFICES ASSUME NEW j \in 0..n, NEW k \in 0..n, j < k
               PROVE  D(m + j) < D(m + k)
    BY <1>12
  <2>1. m + j \in 1..N /\ m + k \in 1..N /\ m + j < m + k
    BY <1>2, <1>7
  <2> QED
    BY <1>9, <2>1
<1>16. \A d \in OnDays(p, u) :
         \/ d < Cal!DateOf(after) \/ Tried(u, p, after, n) < d
         \/ \E k \in 0..n : Good(p, Tried(u, p, after, k)) /\ d = Tried(u, p, after, k)
  BY <1>11, <1>12, <1>13 DEF a
<1>17. Good(p, Tried(u, p, after, n)) /\ Cal!DateOf(after) < Tried(u, p, after, n)
  BY <1>10, <1>12, <1>13 DEF a
<1> QED
  BY <1>12, <1>14, <1>15, <1>16, <1>17 DEF Covers

\* The next occurrence is the first instant of the series after the delivery.
LEMMA NextIsFirst ==
    ASSUME CalendarSound, NEW u, NEW after, NEW p, Searching(u, after),
           p.repeat \in {"daily", "weekdays", "weekly", "monthly"},
           p.repeat = "monthly" => Cal!Anchor(p, u) \in 1..31
    PROVE  LET At(d) == Cal!LocalCandidate(d, Cal!WallOf(u))
           IN  \E d \in OnDays(p, u) :
                 /\ Cal!NextOccurrence(u, p.repeat, after, Cal!Anchor(p, u)) = At(d)
                 /\ At(d) \in Int /\ after < At(d)
                 /\ \A e \in OnDays(p, u) : after < At(e) => At(d) <= At(e)
<1>1. u \in Int /\ after \in Int /\ u <= after
  BY DEF Searching
<1>2. Cal!WallOf(u) \in 0..(Slots - 1)
  <2>1. Slots \in Nat \ {0} /\ Cal!ToLocal(u) \in Int
    BY <1>1, ZoneReads DEF CalendarSound
  <2> QED
    BY <2>1, DayAndWall DEF Cal!WallOf
<1>3. Covers(u, p, after)
  BY DaysCovered, WeeksCovered, MonthsCovered
<1>4. PICK n \in 0..5 :
        /\ \A k \in 0..n : /\ Tried(u, p, after, k) \in Int
                           /\ Good(p, Tried(u, p, after, k)) => Tried(u, p, after, k) \in OnDays(p, u)
        /\ \A j, k \in 0..n : j < k => Tried(u, p, after, j) < Tried(u, p, after, k)
        /\ \A d \in OnDays(p, u) :
             \/ d < Cal!DateOf(after) \/ Tried(u, p, after, n) < d
             \/ \E k \in 0..n : Good(p, Tried(u, p, after, k)) /\ d = Tried(u, p, after, k)
        /\ Good(p, Tried(u, p, after, n)) /\ Cal!DateOf(after) < Tried(u, p, after, n)
  BY <1>3 DEF Covers
<1> DEFINE t == [k \in 0..5 |-> Tried(u, p, after, k)]
           good == {k \in 0..5 : Good(p, Tried(u, p, after, k))}
           w == Cal!WallOf(u)
           On == OnDays(p, u)
<1>5. /\ \A k \in 0..n : t[k] = Tried(u, p, after, k)
      /\ \A k \in 0..n : k \in good <=> Good(p, Tried(u, p, after, k))
      /\ n \in 0..n
  OBVIOUS
<1>6. On \in SUBSET Int
  BY DEF OnDays, CalDays
<1>7. /\ \A k \in 0..n : t[k] \in Int /\ (k \in good => t[k] \in On)
      /\ \A j, k \in 0..n : j < k => t[j] < t[k]
      /\ \A d \in On : \/ d < Cal!DateOf(after) \/ t[n] < d
                       \/ \E k \in 0..n : k \in good /\ d = t[k]
      /\ n \in good /\ Cal!DateOf(after) < t[n]
  <2> HIDE DEF t, good
  <2> QED
    BY <1>4, <1>5
<1> HIDE DEF t, good, w, On
<1>8. w \in 0..(Slots - 1)
  BY <1>2 DEF w
<1>9. PICK k \in 0..n :
        /\ k \in good /\ after < Cal!LocalCandidate(t[k], w)
        /\ \A j \in 0..n : j < k => ~(j \in good /\ after < Cal!LocalCandidate(t[j], w))
        /\ \A d \in On : after < Cal!LocalCandidate(d, w) =>
             Cal!LocalCandidate(t[k], w) <= Cal!LocalCandidate(d, w)
  <2>1. PICK tt, gg, ww, oo : tt = t /\ gg = good /\ ww = w /\ oo = On
    OBVIOUS
  <2>2. ww \in 0..(Slots - 1) /\ oo \in SUBSET Int /\ after \in Int /\ n \in 0..5
    BY <1>1, <1>6, <1>8, <2>1
  <2>3. \A k \in 0..n : tt[k] \in Int
    BY <1>7, <2>1
  <2>4. \A j, k \in 0..n : j < k => tt[j] < tt[k]
    BY <1>7, <2>1
  <2>5. \A d \in oo : \/ d < Cal!DateOf(after) \/ tt[n] < d
                       \/ \E k \in 0..n : k \in gg /\ d = tt[k]
    BY <1>7, <2>1
  <2>6. n \in gg /\ Cal!DateOf(after) < tt[n]
    BY <1>7, <2>1
  <2>7. \E k \in 0..n :
          /\ k \in gg /\ after < Cal!LocalCandidate(tt[k], ww)
          /\ \A j \in 0..n : j < k => ~(j \in gg /\ after < Cal!LocalCandidate(tt[j], ww))
          /\ \A d \in oo : after < Cal!LocalCandidate(d, ww) =>
               Cal!LocalCandidate(tt[k], ww) <= Cal!LocalCandidate(d, ww)
    <3> USE ONLY <2>2, <2>3, <2>4, <2>5, <2>6
    <3> QED
      BY CalendarSound, Searched
  <2> QED
    BY <2>1, <2>7
<1>10. \A j \in 0..n : Cal!LocalCandidate(t[j], w) \in Int
  BY <1>7, <1>8, InstantsInOrder
<1>11. \A j \in 0..5 : j < k =>
         /\ Cal!LocalCandidate(Tried(u, p, after, j), w) \in Int
         /\ ~(Good(p, Tried(u, p, after, j)) /\ after < Cal!LocalCandidate(Tried(u, p, after, j), w))
  <2> SUFFICES ASSUME NEW j \in 0..5, j < k
               PROVE  /\ Cal!LocalCandidate(Tried(u, p, after, j), w) \in Int
                      /\ ~(/\ Good(p, Tried(u, p, after, j))
                           /\ after < Cal!LocalCandidate(Tried(u, p, after, j), w))
    OBVIOUS
  <2>1. j \in 0..n
    OBVIOUS
  <2> QED
    BY <1>5, <1>9, <1>10, <2>1
<1>12. /\ Good(p, Tried(u, p, after, k)) /\ k \in 0..5
       /\ Cal!LocalCandidate(Tried(u, p, after, k), w) \in Int
       /\ after < Cal!LocalCandidate(Tried(u, p, after, k), w)
  BY <1>5, <1>9, <1>10
<1>13. Cal!NextOccurrence(u, p.repeat, after, Cal!Anchor(p, u))
         = Cal!LocalCandidate(Tried(u, p, after, k), w)
  BY <1>1, <1>11, <1>12, FirstTaken DEF w
<1>14. t[k] \in On /\ t[k] = Tried(u, p, after, k)
  BY <1>5, <1>7, <1>9
<1> QED
  BY <1>9, <1>12, <1>13, <1>14 DEF On, w

----------------------------------------------------------------------------
\* The rows.

Plans == [repeat : {"daily", "weekdays", "weekly", "monthly"}, wall : 0..(Slots - 1),
          day : 1..31, weekday : 0..6, anchored : BOOLEAN]

\* A row is on a day of the calendar, and is what was asked for.
DatesInv == Cal!TypeOK /\ plan \in Plans /\ Cal!DateOf(due) \in CalDays /\ Cal!PlanKept

LEMMA DayFits ==
    ASSUME CalendarSound, NEW d \in CalDays, NEW w \in 0..(Slots - 1)
    PROVE  Cal!LocalCandidate(d, w) \in 0..(Cal!FirstDay[Len(MonthLengths) + 1] * Slots)
<1>1. d \in Nat /\ End \in Nat /\ d + 1 <= End
  <2>1. Len(MonthLengths) + 1 \in 1..(Len(MonthLengths) + 1)
    BY MonthsToo, MonthsAre
  <2>2. End \in Nat
    BY MonthsToo, <2>1, FirstDays1 DEF End
  <2> QED
    BY <2>2 DEF CalDays
<1>2. Cal!LocalCandidate(d, w) \in 0..((d + 1) * Slots)
  BY <1>1, ReadBack
<1>3. (d + 1) * Slots <= End * Slots /\ (d + 1) * Slots \in Int /\ End * Slots \in Int
  <2>1. Slots \in Nat /\ d + 1 \in Int
    BY <1>1 DEF CalendarSound
  <2>2. CASE d + 1 = End
    BY <1>1, <2>1, <2>2
  <2>3. CASE d + 1 < End
    <3>1. (d + 1) * Slots + Slots <= End * Slots /\ (d + 1) * Slots \in Int /\ End * Slots \in Int
      BY <1>1, <2>1, <2>3, DaysApart
    <3> QED
      BY <2>1, <3>1
  <2> QED
    BY <1>1, <2>2, <2>3
<1> QED
  BY <1>2, <1>3 DEF End

LEMMA AnchorSound ==
    ASSUME CalendarSound, DatesInv
    PROVE  Cal!Anchor(plan, due) \in 1..31
<1>1. Cal!DayOfMonth(Cal!DateOf(due)) \in 1..MonthLengths[Cal!MonthOf(Cal!DateOf(due))]
      /\ Cal!MonthOf(Cal!DateOf(due)) \in 1..Len(MonthLengths)
  BY MonthsToo, DayInMonth DEF DatesInv
<1>2. MonthLengths[Cal!MonthOf(Cal!DateOf(due))] \in 28..31
  BY MonthsToo, <1>1, MonthsAre
<1>3. Cal!DayOfMonth(Cal!DateOf(due)) \in 1..31
  <2>1. PICK x, l : /\ x = Cal!DayOfMonth(Cal!DateOf(due))
                    /\ l = MonthLengths[Cal!MonthOf(Cal!DateOf(due))]
    OBVIOUS
  <2>2. x \in 1..l /\ l \in 28..31
    BY <1>1, <1>2, <2>1
  <2>3. x \in 1..31
    BY ONLY <2>2
  <2> QED
    BY <2>1, <2>3
<1>4. plan.day \in 1..31
  BY DEF DatesInv, Plans
<1>5. CASE plan.anchored
  BY <1>4, <1>5 DEF Cal!Anchor
<1>6. CASE ~plan.anchored
  BY <1>3, <1>6 DEF Cal!Anchor
<1> QED
  BY <1>5, <1>6

\* A row that may be served is searched from.
LEMMA RowSearched ==
    ASSUME CalendarSound, DatesInv, NEW delay \in Delays, Cal!DateOf(due + delay) <= LastDay
    PROVE  Searching(due, due + delay) /\ plan.repeat \in {"daily", "weekdays", "weekly", "monthly"}
<1>1. due \in Nat /\ delay \in Nat
  <2>1. Len(MonthLengths) + 1 \in 1..(Len(MonthLengths) + 1)
    BY MonthsToo, MonthsAre
  <2>2. End \in Nat /\ Slots \in Nat
    BY MonthsToo, <2>1, FirstDays1 DEF End, CalendarSound
  <2>3. due \in 0..(End * Slots) /\ End * Slots \in Int
    BY <2>2 DEF DatesInv, Cal!TypeOK, End
  <2> QED
    BY <2>3 DEF CalendarSound
<1>2. 0 <= Cal!DateOf(due)
  BY DEF DatesInv, CalDays
<1>3. plan.repeat \in {"daily", "weekdays", "weekly", "monthly"}
  BY DEF DatesInv, Plans
<1> QED
  BY <1>1, <1>2, <1>3 DEF Searching

LEMMA DatesStart == ASSUME CalendarSound, Cal!Init PROVE DatesInv
<1>1. PICK d \in FirstDays, wall \in 0..(Slots - 1), rep \in {"daily", "weekdays", "weekly", "monthly"},
           anchored \in BOOLEAN :
        /\ due = Cal!LocalCandidate(d, wall)
        /\ plan = [repeat |-> rep, wall |-> Cal!WallOf(due), day |-> Cal!DayOfMonth(d),
                   weekday |-> Cal!Weekday(d), anchored |-> anchored]
  BY DEF Cal!Init
<1>2. d \in CalDays /\ d \in Int
  BY DEF CalendarSound, CalDays, End
<1>3. Cal!DateOf(due) = d /\ Cal!WallOf(due) \in 0..(Slots - 1)
  BY <1>1, <1>2, ReadBack
<1>4. /\ Cal!DayOfMonth(d) \in 1..31 /\ Cal!Weekday(d) \in 0..6
      /\ Cal!Min({Cal!DayOfMonth(d), MonthLengths[Cal!MonthOf(d)]}) = Cal!DayOfMonth(d)
  <2>1. /\ Cal!DayOfMonth(d) \in 1..MonthLengths[Cal!MonthOf(d)]
        /\ Cal!MonthOf(d) \in 1..Len(MonthLengths)
    BY MonthsToo, <1>2, DayInMonth
  <2>2. MonthLengths[Cal!MonthOf(d)] \in 28..31
    BY MonthsToo, <2>1, MonthsAre
  <2>3. PICK x \in Int, l \in 28..31 : x = Cal!DayOfMonth(d) /\ l = MonthLengths[Cal!MonthOf(d)]
    BY <2>1, <2>2
  <2>4. x \in 1..l
    BY <2>1, <2>3
  <2>5. Cal!Min({x, l}) = IF x <= l THEN x ELSE l
    <3>1. l \in Int
      OBVIOUS
    <3> QED
      BY <3>1, OfTwo
  <2>6. Cal!Min({x, l}) = x
    BY <2>4, <2>5
  <2>7. Cal!Weekday(d) \in 0..6
    BY <1>2 DEF Cal!Weekday
  <2> QED
    BY <2>3, <2>4, <2>6, <2>7
<1>5. plan \in Plans
  BY <1>1, <1>3, <1>4 DEF Plans
<1>6. Cal!TypeOK
  <2>1. due \in 0..(Cal!FirstDay[Len(MonthLengths) + 1] * Slots)
    BY <1>1, <1>2, DayFits
  <2> QED
    BY <1>5, <2>1 DEF Cal!TypeOK, Plans
<1>7. Cal!PlanKept
  BY <1>1, <1>3, <1>4 DEF Cal!PlanKept
<1> QED
  BY <1>2, <1>3, <1>5, <1>6, <1>7 DEF DatesInv

\* A row that was served moves to a day of its series, at its hour unless that is skipped.
LEMMA RowServed ==
    ASSUME CalendarSound, DatesInv, NEW delay \in Delays, Cal!Serve(delay)
    PROVE  DatesInv'
<1>1. /\ Cal!DateOf(due + delay) <= LastDay /\ plan' = plan
      /\ due' = Cal!NextOccurrence(due, plan.repeat, due + delay, Cal!Anchor(plan, due))
  BY DEF Cal!Serve
<1>2. PICK d \in OnDays(plan, due) : due' = Cal!LocalCandidate(d, Cal!WallOf(due))
  BY <1>1, RowSearched, AnchorSound, NextIsFirst
<1>3. d \in CalDays /\ d \in Int /\ Cal!OnSeries(d, plan, due)
  BY DEF OnDays, CalDays
<1>4. Cal!WallOf(due) \in 0..(Slots - 1)
  <2>1. due \in Int
    BY <1>1, RowSearched DEF Searching
  <2>2. Slots \in Nat \ {0} /\ Cal!ToLocal(due) \in Int
    BY <2>1, ZoneReads DEF CalendarSound
  <2> QED
    BY <2>2, DayAndWall DEF Cal!WallOf
<1>5. /\ Cal!DateOf(due') = d
      /\ ~Cal!Skipped(Cal!WallOf(due)) => Cal!WallOf(due') = Cal!WallOf(due)
      /\ due' \in 0..(Cal!FirstDay[Len(MonthLengths) + 1] * Slots)
  BY <1>2, <1>3, <1>4, ReadBack, DayFits
<1>6. plan \in Plans /\ Cal!PlanKept /\ Cal!TypeOK
  BY DEF DatesInv
<1>7. Cal!TypeOK'
  BY <1>1, <1>5, <1>6 DEF Cal!TypeOK
<1>8. Cal!PlanKept'
  <2>1. ~Cal!Skipped(plan.wall) => Cal!WallOf(due') = plan.wall
    BY <1>5, <1>6 DEF Cal!PlanKept
  <2>2. plan.repeat = "weekly" => Cal!Weekday(d) = plan.weekday
    BY <1>3, <1>6 DEF Cal!PlanKept, Cal!OnSeries
  <2>3. plan.repeat = "monthly" /\ plan.anchored =>
          Cal!DayOfMonth(d) = Cal!Min({plan.day, MonthLengths[Cal!MonthOf(d)]})
    BY <1>3 DEF Cal!OnSeries, Cal!Anchor
  <2> QED
    BY <1>1, <1>5, <2>1, <2>2, <2>3 DEF Cal!PlanKept, Cal!Skipped
<1> QED
  BY <1>1, <1>3, <1>5, <1>6, <1>7, <1>8 DEF DatesInv

LEMMA DatesSteps == ASSUME CalendarSound, DatesInv, [Cal!Next]_(Cal!vars) PROVE DatesInv'
<1>1. CASE UNCHANGED Cal!vars
  <2>1. UNCHANGED due /\ UNCHANGED plan
    BY <1>1 DEF Cal!vars
  <2> QED
    BY <2>1 DEF DatesInv, Cal!TypeOK, Cal!PlanKept
<1>2. CASE Cal!Next
  BY <1>2, RowServed DEF Cal!Next
<1> QED
  BY <1>1, <1>2

LEMMA DatesGood == ASSUME CalendarSound, DatesInv PROVE Cal!TypeOK /\ Cal!SeriesRight
<1>1. Cal!TypeOK /\ Cal!PlanKept
  BY DEF DatesInv
<1>2. Cal!FirstAfter
  <2> SUFFICES ASSUME NEW delay \in Delays, Cal!DateOf(due + delay) <= LastDay
               PROVE  Cal!NextOccurrence(due, plan.repeat, due + delay, Cal!Anchor(plan, due)) =
                        Cal!Least({v \in Cal!Series(plan, due) : v > due + delay})
    BY DEF Cal!FirstAfter
  <2> DEFINE w == Cal!WallOf(due)
             after == due + delay
             On == OnDays(plan, due)
             T == {v \in Cal!Series(plan, due) : v > after}
             first == Cal!NextOccurrence(due, plan.repeat, after, Cal!Anchor(plan, due))
  <2>1. Searching(due, after)
    BY RowSearched
  <2>2. PICK d \in On : /\ first = Cal!LocalCandidate(d, w)
                        /\ first \in Int /\ after < first
                        /\ \A e \in On : after < Cal!LocalCandidate(e, w) =>
                             first <= Cal!LocalCandidate(e, w)
    BY <2>1, RowSearched, AnchorSound, NextIsFirst
  <2>3. \A v : v \in Cal!Series(plan, due) <=> \E e \in On : v = Cal!LocalCandidate(e, w)
    BY DEF Cal!Series, OnDays, CalDays, End
  <2>4. \A e \in On : Cal!LocalCandidate(e, w) \in Int
    <3>1. w \in 0..(Slots - 1)
      <4>1. Slots \in Nat \ {0} /\ Cal!ToLocal(due) \in Int
        BY <2>1, ZoneReads DEF CalendarSound, Searching
      <4> QED
        BY <4>1, DayAndWall DEF Cal!WallOf
    <3>2. \A e \in On : e \in Int
      BY DEF OnDays, CalDays
    <3> HIDE DEF w, On
    <3> QED
      BY <3>1, <3>2, InstantsInOrder
  <2>5. after \in Int
    BY <2>1 DEF Searching
  <2> HIDE DEF first, w, On, after
  <2>6. first \in T /\ T \subseteq Int /\ \A v \in T : first <= v
    BY <2>2, <2>3, <2>4, <2>5
  <2> HIDE DEF T
  <2>7. Cal!Least(T) = first
    BY <2>6, TheLeast
  <2> QED
    BY <2>7 DEF T, first, after
<1> QED
  BY <1>1, <1>2 DEF Cal!SeriesRight

\* A repeating row always has a time on the calendar and the plan it was made with.
THEOREM SeriesTypes == ASSUME CalendarSound PROVE Cal!Spec => []Cal!TypeOK
<1>1. Cal!Init => DatesInv
  BY DatesStart
<1>2. DatesInv /\ [Cal!Next]_(Cal!vars) => DatesInv'
  BY DatesSteps
<1>3. DatesInv => Cal!TypeOK
  BY DatesGood
<1> QED
  BY <1>1, <1>2, <1>3, PTL DEF Cal!Spec

\* next_occurrence (services/reminders.py): the bounded search finds the first date of a
\* series after its delivery, whatever months, weekends and changes of the clock lie
\* between; and a series keeps its weekday, its day of the month and, unless the clocks
\* ever skip it, its hour.
THEOREM SeriesRightAlways == ASSUME CalendarSound PROVE Cal!Spec => []Cal!SeriesRight
<1>1. Cal!Init => DatesInv
  BY DatesStart
<1>2. DatesInv /\ [Cal!Next]_(Cal!vars) => DatesInv'
  BY DatesSteps
<1>3. DatesInv => Cal!SeriesRight
  BY DatesGood
<1> QED
  BY <1>1, <1>2, <1>3, PTL DEF Cal!Spec

----------------------------------------------------------------------------
(* The date a text means, SpokenDates, on the same calendar.               *)
CONSTANTS Texts, Stamps, TextSlots, Behind
VARIABLES stamp, text, done, date, meant
Txt == INSTANCE SpokenDates WITH Slots <- TextSlots, due <- meant

Ref == Txt!RefDay(stamp)

\* The years on the calendar.
YearOn(y) == y \in Nat /\ 12 * (y + 1) <= Len(MonthLengths)

\* The day of a message, with the year it is of and the next on the calendar.
DayOn(ref) == ref \in CalDays /\ YearOn(Txt!Year(ref) + 1)

\* What the patterns can find, and when: the numbers of a date may be any, such as the 31st
\* of a short month; a year that is named is on the calendar.
DateText(t) ==
    /\ Txt!Says(t, "weekday") => t.weekday \in 0..6
    /\ Txt!Says(t, "dayN") => t.dayN \in Nat
    /\ Txt!Says(t, "monthDay") => t.monthDay.day \in Nat /\ t.monthDay.month \in Nat
    /\ Txt!Says(t, "slash") =>
         /\ t.slash.day \in Nat /\ t.slash.month \in Nat /\ t.slash.year \in Nat
         /\ t.slash.year # 0 => YearOn(t.slash.year - 1)
TextsSound ==
    /\ MonthsSound
    /\ \A t \in Texts : DateText(t)
    /\ \A at \in Stamps : DayOn(Txt!RefDay(at))

LEMMA SameCalendar ==
    /\ Txt!FirstDay = Cal!FirstDay
    /\ \A d : Txt!MonthOf(d) = Cal!MonthOf(d) /\ Txt!DayOfMonth(d) = Cal!DayOfMonth(d)
    /\ \A d : Txt!Weekday(d) = d % 7
    /\ Txt!Days = CalDays
<1>1. Txt!FirstDay = Cal!FirstDay
  BY DEF Txt!FirstDay, Cal!FirstDay
<1>2. ASSUME NEW d PROVE Txt!MonthOf(d) = Cal!MonthOf(d)
  BY <1>1 DEF Txt!MonthOf, Cal!MonthOf, Txt!Months, Cal!Months
<1>3. ASSUME NEW d PROVE Txt!DayOfMonth(d) = Cal!DayOfMonth(d)
  BY <1>1, <1>2 DEF Txt!DayOfMonth, Cal!DayOfMonth
<1>4. ASSUME NEW d PROVE Txt!Weekday(d) = d % 7
  BY DEF Txt!Weekday
<1>5. Txt!Days = CalDays
  BY <1>1 DEF Txt!Days, CalDays, End
<1> QED
  BY <1>1, <1>2, <1>3, <1>4, <1>5

\* The day of a month.
LEMMA DateOfMonth ==
    ASSUME MonthsSound, NEW m \in 1..Len(MonthLengths), NEW n \in 1..MonthLengths[m]
    PROVE  LET d == Cal!FirstDay[m] + n - 1
           IN  /\ d \in CalDays /\ d \in Int
               /\ Cal!MonthOf(d) = m /\ Cal!DayOfMonth(d) = n
               /\ Cal!FirstDay[m] <= d /\ d < Cal!FirstDay[m + 1]
<1>1. MonthLengths[m] \in 28..31
  BY MonthsAre
<1>2. PICK l \in 28..31 : l = MonthLengths[m]
  BY <1>1
<1>3. n \in 1..31 /\ n <= l /\ l \in Int /\ n \in Int
  BY <1>2
<1>4. Cal!Min({n, l}) = n
  BY <1>3, OfTwo
<1>5. Cal!Min({n, MonthLengths[m]}) = n
  BY <1>2, <1>4
<1>6. /\ Cal!FirstDay[m] + n - 1 \in CalDays /\ Cal!MonthOf(Cal!FirstDay[m] + n - 1) = m
      /\ Cal!DayOfMonth(Cal!FirstDay[m] + n - 1) = n
      /\ Cal!FirstDay[m] <= Cal!FirstDay[m] + n - 1 /\ Cal!FirstDay[m] + n - 1 < Cal!FirstDay[m + 1]
  BY <1>3, <1>5, AnchorDay
<1>7. \A d \in CalDays : d \in Int
  BY DEF CalDays
<1> QED
  BY <1>6, <1>7

\* date(year, month, day).
LEMMA DateAtIs ==
    ASSUME MonthsSound, NEW y, YearOn(y), NEW mm \in Int, NEW n \in Int
    PROVE  LET d == Txt!DateAt(y, mm, n)
           IN  /\ \/ d = None
                  \/ /\ d \in CalDays /\ d \in Int /\ mm \in 1..12
                     /\ Cal!MonthOf(d) = 12 * y + mm /\ Cal!DayOfMonth(d) = n
               /\ mm \in 1..12 /\ n \in 1..28 => d \in CalDays
<1> DEFINE m == 12 * y + mm
           d == Txt!DateAt(y, mm, n)
<1>1. d = IF mm \in 1..12 /\ n \in 1..MonthLengths[m] THEN Cal!FirstDay[m] + n - 1 ELSE None
  BY SameCalendar DEF Txt!DateAt
<1>2. mm \in 1..12 => m \in 1..Len(MonthLengths)
  BY MonthsAre DEF YearOn
<1>3. CASE mm \in 1..12 /\ n \in 1..MonthLengths[m]
  <2>1. d = Cal!FirstDay[m] + n - 1
    BY <1>1, <1>3
  <2>2. /\ Cal!FirstDay[m] + n - 1 \in CalDays /\ Cal!FirstDay[m] + n - 1 \in Int
        /\ Cal!MonthOf(Cal!FirstDay[m] + n - 1) = m /\ Cal!DayOfMonth(Cal!FirstDay[m] + n - 1) = n
    BY <1>2, <1>3, DateOfMonth
  <2> QED
    BY <1>3, <2>1, <2>2
<1>4. CASE ~(mm \in 1..12 /\ n \in 1..MonthLengths[m])
  <2>1. d = None
    BY <1>1, <1>4
  <2>2. ~(mm \in 1..12 /\ n \in 1..28)
    <3>1. mm \in 1..12 => MonthLengths[m] \in 28..31
      BY <1>2, MonthsAre
    <3> QED
      BY <1>4, <3>1
  <2> QED
    BY <2>1, <2>2
<1> QED
  BY <1>3, <1>4

\* The year and the month of a day.
LEMMA YearAndMonth ==
    ASSUME MonthsSound, NEW ref \in CalDays
    PROVE  /\ Txt!Year(ref) \in Nat /\ Txt!MonthOfYear(ref) \in 1..12
           /\ Cal!MonthOf(ref) = 12 * Txt!Year(ref) + Txt!MonthOfYear(ref)
<1>1. Cal!MonthOf(ref) \in Nat \ {0}
  BY DayInMonth, MonthsAre
<1>2. Txt!MonthOf(ref) = Cal!MonthOf(ref)
  BY SameCalendar
<1> QED
  BY <1>1, <1>2 DEF Txt!Year, Txt!MonthOfYear

\* Four weeks from the day of a message are on the calendar, and the next month is.
LEMMA WeeksAhead ==
    ASSUME MonthsSound, NEW ref, DayOn(ref)
    PROVE  /\ ref \in Int /\ \A d \in Int : ref <= d /\ d <= ref + 28 => d \in CalDays
           /\ Cal!MonthOf(ref) + 1 <= Len(MonthLengths)
<1>1. ref \in CalDays /\ ref \in Int /\ 0 <= ref /\ YearOn(Txt!Year(ref) + 1)
  BY DEF DayOn, CalDays
<1> DEFINE m == Cal!MonthOf(ref)
           L == Len(MonthLengths)
<1>2. /\ m \in 1..L /\ m \in Nat /\ L \in Nat /\ m + 1 \in 1..L
  <2>1. m \in 1..L /\ L \in Nat
    BY <1>1, DayInMonth, MonthsAre
  <2>2. PICK y, q, c : y = Txt!Year(ref) /\ q = Txt!MonthOfYear(ref) /\ c = Cal!MonthOf(ref)
    OBVIOUS
  <2>3. y \in Nat /\ q \in 1..12 /\ c = 12 * y + q /\ 12 * ((y + 1) + 1) <= L
    BY <1>1, <2>2, YearAndMonth DEF YearOn
  <2>4. c + 1 <= L
    BY <2>1, <2>3
  <2> QED
    BY <2>1, <2>2, <2>4
<1>3. ref < Cal!FirstDay[m + 1]
  BY <1>1, DayInMonth
<1>4. Cal!FirstDay[m + 2] = Cal!FirstDay[m + 1] + MonthLengths[m + 1]
  <2>1. (m + 1) + 1 = m + 2
    BY <1>2
  <2>2. Cal!FirstDay[(m + 1) + 1] = Cal!FirstDay[m + 1] + MonthLengths[m + 1]
    BY <1>2, FirstDays1
  <2> QED
    BY <2>1, <2>2
<1>5. Cal!FirstDay[m + 2] <= End /\ End \in Int
  <2>1. L + 1 \in 1..(L + 1) /\ m + 1 < L + 1
    BY <1>2
  <2>2. Cal!FirstDay[(m + 1) + 1] <= Cal!FirstDay[L + 1]
    BY <1>2, <2>1, MonthsInOrder
  <2>3. (m + 1) + 1 = m + 2
    BY <1>2
  <2>4. End \in Int
    BY <2>1, FirstDays1 DEF End
  <2> QED
    BY <2>2, <2>3, <2>4 DEF End
<1>6. MonthLengths[m + 1] \in 28..31 /\ Cal!FirstDay[m + 1] \in Int
  <2>1. m + 1 \in 1..(L + 1)
    BY <1>2
  <2> QED
    BY <1>2, <2>1, MonthsAre, FirstDays1
<1>7. ref + 28 < End
  <2>1. PICK a \in Int, l \in 28..31, e \in Int :
          a = Cal!FirstDay[m + 1] /\ l = MonthLengths[m + 1] /\ e = End
    BY <1>5, <1>6
  <2>2. ref < a /\ a + l <= e
    BY <1>3, <1>4, <1>5, <2>1
  <2>3. ref + 28 < e
    BY <1>1, <2>1, <2>2
  <2> QED
    BY <2>1, <2>3
<1>8. \A d \in Int : ref <= d /\ d <= ref + 28 => d \in CalDays
  BY <1>1, <1>5, <1>7 DEF CalDays
<1> QED
  BY <1>1, <1>2, <1>8

\* The next of a weekday is within the week, and the first of them.
LEMMA NextOfWeek ==
    ASSUME NEW ref \in Int, NEW w \in 0..6
    PROVE  LET d == Txt!NextWeekday(ref, w)
           IN  /\ d \in Int /\ ref < d /\ d <= ref + 7 /\ d % 7 = w
               /\ \A e \in Int : ref < e /\ e < d => e % 7 # w
<1>1. Txt!NextWeekday(ref, w) =
        ref + (IF (w - (ref % 7)) % 7 = 0 THEN 7 ELSE (w - (ref % 7)) % 7)
  BY SameCalendar DEF Txt!NextWeekday
<1> QED
  BY <1>1

\* "dia 12": the first day from the day of the message on with that number, unless the
\* month it would be in is too short.
LEMMA DayNIs ==
    ASSUME MonthsSound, None \notin Int, NEW ref, DayOn(ref), NEW n \in Nat
    PROVE  LET d == Txt!DayN(ref, n)
           IN  /\ \/ d = None
                  \/ /\ d \in CalDays /\ d \in Int /\ ref <= d /\ d <= ref + 62
                     /\ Cal!DayOfMonth(d) = n
                     /\ \A e \in CalDays : ref <= e /\ e < d => Cal!DayOfMonth(e) # n
               /\ n \in 1..28 => d # None
<1> DEFINE m == Cal!MonthOf(ref)
           x == Cal!DayOfMonth(ref)
           k == m + (IF n < x THEN 1 ELSE 0)
           d == Txt!DayN(ref, n)
<1>1. /\ ref \in CalDays /\ ref \in Int /\ m \in 1..Len(MonthLengths) /\ m + 1 <= Len(MonthLengths)
      /\ x \in 1..MonthLengths[m] /\ Cal!FirstDay[m] \in Nat
      /\ ref = Cal!FirstDay[m] + x - 1
  BY WeeksAhead, DayInMonth DEF DayOn
<1>2. MonthLengths[m] \in 28..31 /\ Len(MonthLengths) \in Nat
  BY <1>1, MonthsAre
<1>3. x \in 1..31
  <2>1. PICK a, l : a = x /\ l = MonthLengths[m]
    OBVIOUS
  <2>2. a \in 1..l /\ l \in 28..31
    BY <1>1, <1>2, <2>1
  <2>3. a \in 1..31
    BY ONLY <2>2
  <2> QED
    BY <2>1, <2>3
<1>4. k \in 1..Len(MonthLengths) /\ k \in Nat /\ (k = m \/ k = m + 1)
  BY <1>1, <1>2, <1>3
<1>5. d = Txt!DateAt((k - 1) \div 12, ((k - 1) % 12) + 1, n)
  BY SameCalendar DEF Txt!DayN
<1> HIDE DEF k, m, x, d
<1>6. 12 * ((k - 1) \div 12) + (((k - 1) % 12) + 1) = k /\ (k - 1) \div 12 \in Nat
      /\ ((k - 1) % 12) + 1 \in 1..12
  BY <1>4
<1>7. d = IF n \in 1..MonthLengths[k] THEN Cal!FirstDay[k] + n - 1 ELSE None
  BY <1>5, <1>6, SameCalendar DEF Txt!DateAt
<1>8. ASSUME n \in 1..MonthLengths[k]
      PROVE  /\ d \in CalDays /\ d \in Int /\ Cal!MonthOf(d) = k /\ Cal!DayOfMonth(d) = n
             /\ d = Cal!FirstDay[k] + n - 1
  <2>1. d = Cal!FirstDay[k] + n - 1
    BY <1>7, <1>8
  <2> QED
    BY <1>4, <1>8, <2>1, DateOfMonth
<1>9. n \in 1..28 => d # None
  <2>1. MonthLengths[k] \in 28..31
    BY <1>4, MonthsAre
  <2>2. n \in 1..28 => n \in 1..MonthLengths[k]
    BY <2>1
  <2> QED
    BY <1>8, <2>2
<1>10. ASSUME n \in 1..MonthLengths[k]
       PROVE  ref <= d /\ d <= ref + 62
  <2>1. d \in Int /\ d = Cal!FirstDay[k] + n - 1
    BY <1>8, <1>10
  <2>2. CASE k = m
    <3>1. n \in 1..31 /\ x <= n
      <4>1. PICK l : l = MonthLengths[m]
        OBVIOUS
      <4>2. n \in 1..l /\ l \in 28..31
        BY <1>2, <1>10, <2>2, <4>1
      <4>3. n \in 1..31
        BY ONLY <4>2
      <4>4. ~(n < x)
        BY <1>1, <1>2, <2>2 DEF k
      <4> QED
        BY <1>3, <4>3, <4>4
    <3> QED
      BY <1>1, <1>3, <2>1, <2>2, <3>1
  <2>3. CASE k = m + 1
    <3>1. Cal!FirstDay[m + 1] = Cal!FirstDay[m] + MonthLengths[m]
      BY <1>1, FirstDays1
    <3>2. PICK f \in Nat, l \in 28..31 : f = Cal!FirstDay[m] /\ l = MonthLengths[m]
      BY <1>1, <1>2
    <3>3. n < x
      BY <1>1, <1>3, <2>3 DEF k
    <3>4. ref = f + x - 1 /\ d = (f + l) + n - 1 /\ x <= l /\ 1 <= n
      BY <1>1, <1>10, <2>1, <2>3, <3>1, <3>2
    <3>5. l \in Int /\ f \in Int /\ x \in Int /\ 28 <= l /\ l <= 31 /\ x <= 31 /\ n \in Int
      BY <1>3, <3>2
    <3> QED
      BY ONLY <3>3, <3>4, <3>5
  <2> QED
    BY <1>4, <2>2, <2>3
<1>11. ASSUME n \in 1..MonthLengths[k], NEW e \in CalDays, ref <= e, e < d
       PROVE  Cal!DayOfMonth(e) # n
  <2>1. /\ Cal!MonthOf(e) \in 1..Len(MonthLengths) /\ e \in Int
        /\ Cal!DayOfMonth(e) \in Int
        /\ Cal!FirstDay[Cal!MonthOf(e)] \in Nat
        /\ e = Cal!FirstDay[Cal!MonthOf(e)] + Cal!DayOfMonth(e) - 1
    BY DayInMonth DEF CalDays
  <2>2. m <= Cal!MonthOf(e) /\ Cal!MonthOf(e) <= k
    <3>1. d \in CalDays /\ d \in Int /\ Cal!MonthOf(d) = k
      BY <1>8, <1>11
    <3>2. e <= d
      BY <1>11, <2>1, <3>1
    <3> QED
      BY <1>1, <1>11, <3>1, <3>2, MonthsFollow DEF m
  <2>3. CASE Cal!MonthOf(e) = k
    BY <1>8, <1>11, <2>1, <2>3
  <2>4. CASE Cal!MonthOf(e) # k
    <3>1. Cal!MonthOf(e) = m /\ n < x
      BY <1>1, <1>3, <1>4, <2>1, <2>2, <2>4 DEF k
    <3> QED
      BY <1>1, <1>3, <1>11, <2>1, <3>1
  <2> QED
    BY <2>3, <2>4
<1> QED
  BY <1>7, <1>8, <1>9, <1>10, <1>11 DEF d

\* "12 de marco": of this year or the next, and never more than a month back.
LEMMA MonthDayIs ==
    ASSUME MonthsSound, None \notin Int, NEW ref, DayOn(ref), NEW md, md.day \in Nat, md.month \in Nat
    PROVE  LET d == Txt!MonthDay(ref, md)
           IN  \/ d = None
               \/ /\ d \in CalDays /\ d \in Int /\ ref - 31 < d
                  /\ Cal!DayOfMonth(d) = md.day /\ Txt!MonthOfYear(d) = md.month
<1> DEFINE here == Txt!Year(ref)
           y == here + (IF md.month >= Txt!MonthOfYear(ref) THEN 0 ELSE 1)
           d == Txt!MonthDay(ref, md)
<1>1. /\ ref \in CalDays /\ ref \in Int /\ here \in Nat /\ Txt!MonthOfYear(ref) \in 1..12
      /\ Cal!MonthOf(ref) = 12 * here + Txt!MonthOfYear(ref) /\ YearOn(here + 1)
  BY YearAndMonth DEF DayOn, CalDays
<1>2. d = Txt!DateAt(y, md.month, md.day)
  BY DEF Txt!MonthDay
<1>3. y \in Nat /\ YearOn(y) /\ (y = here \/ y = here + 1)
  BY <1>1, MonthsAre DEF YearOn
<1>4. md.month \in Int /\ md.day \in Int
  OBVIOUS
<1> HIDE DEF y, d, here
<1>5. \/ d = None
      \/ /\ d \in CalDays /\ d \in Int /\ md.month \in 1..12
         /\ Cal!MonthOf(d) = 12 * y + md.month /\ Cal!DayOfMonth(d) = md.day
  BY <1>2, <1>3, <1>4, DateAtIs
<1>6. ASSUME d # None
      PROVE  /\ ref - 31 < d /\ Txt!MonthOfYear(d) = md.month
  <2>1. /\ d \in CalDays /\ d \in Int /\ md.month \in 1..12
        /\ Cal!MonthOf(d) = 12 * y + md.month /\ Cal!DayOfMonth(d) = md.day
    BY <1>5, <1>6
  <2>2. Txt!MonthOfYear(d) = ((12 * y + md.month - 1) % 12) + 1
    <3>1. Txt!MonthOf(d) = Cal!MonthOf(d)
      BY SameCalendar
    <3>2. Txt!MonthOfYear(d) = ((Cal!MonthOf(d) - 1) % 12) + 1
      BY <3>1 DEF Txt!MonthOfYear
    <3> QED
      BY <1>3, <1>4, <2>1, <3>2
  <2>3. Txt!MonthOfYear(d) = md.month
    BY <1>3, <2>1, <2>2
  <2>4. Cal!MonthOf(ref) <= Cal!MonthOf(d) /\ Cal!MonthOf(ref) \in Int
    BY <1>1, <1>3, <2>1 DEF y
  <2>5. CASE Cal!MonthOf(ref) < Cal!MonthOf(d)
    <3>1. ASSUME d <= ref PROVE FALSE
      <4>1. Cal!MonthOf(d) <= Cal!MonthOf(ref)
        BY <1>1, <2>1, <3>1, MonthsFollow
      <4>2. Cal!MonthOf(d) \in Int
        BY <1>3, <2>1
      <4> QED
        BY <2>4, <2>5, <4>1, <4>2
    <3> QED
      BY <1>1, <2>1, <2>3, <3>1
  <2>6. CASE Cal!MonthOf(ref) = Cal!MonthOf(d)
    <3> DEFINE m == Cal!MonthOf(ref)
    <3>1. PICK l, f, a, b : /\ l = MonthLengths[m] /\ f = Cal!FirstDay[m]
                            /\ a = Cal!DayOfMonth(ref) /\ b = Cal!DayOfMonth(d)
      OBVIOUS
    <3>2. /\ l \in 28..31 /\ f \in Nat /\ a \in 1..l /\ b \in 1..l
          /\ ref = f + a - 1 /\ d = f + b - 1
      BY <1>1, <2>1, <2>6, <3>1, DayInMonth, MonthsAre
    <3>3. ref - 31 < d
      BY ONLY <3>2
    <3> QED
      BY <2>3, <3>3
  <2>7. Cal!MonthOf(d) \in Int
    BY <1>3, <2>1
  <2>8. Cal!MonthOf(ref) < Cal!MonthOf(d) \/ Cal!MonthOf(ref) = Cal!MonthOf(d)
    BY <2>4, <2>7
  <2> QED
    BY <2>5, <2>6, <2>8
<1> QED
  BY <1>5, <1>6 DEF d

\* One expression of a text.
Kinds == {"today", "tomorrow", "nextWeek", "monthDay", "weekday", "friday", "sunday", "slash"}
LEMMA ReadingIs ==
    ASSUME MonthsSound, None \notin Int, NEW ref, DayOn(ref), NEW t, DateText(t),
           NEW kind \in Kinds, Txt!Says(t, kind)
    PROVE  LET d == Txt!Reading(t, ref, kind)
           IN  /\ d = None \/ (d \in CalDays /\ d \in Int)
               /\ d # None /\ kind # "slash" => ref - 31 < d
               /\ kind \notin {"monthDay", "slash"} => d # None /\ ref <= d
               /\ kind = "monthDay" /\ d # None =>
                    Cal!DayOfMonth(d) = t.monthDay.day /\ Txt!MonthOfYear(d) = t.monthDay.month
<1> DEFINE d == Txt!Reading(t, ref, kind)
<1>1. /\ ref \in Int /\ \A e \in Int : ref <= e /\ e <= ref + 28 => e \in CalDays
  BY WeeksAhead
<1>2. ASSUME d \in Int, ref <= d, d <= ref + 7, kind \notin {"monthDay", "slash"}
      PROVE  /\ d \in CalDays /\ d # None /\ ref - 31 < d
  BY <1>1, <1>2
<1>3. CASE kind = "today"
  <2>1. d = ref
    BY <1>3 DEF Txt!Reading
  <2> QED
    BY <1>1, <1>2, <1>3, <2>1
<1>4. CASE kind = "tomorrow"
  <2>1. d = ref + 1
    BY <1>4 DEF Txt!Reading
  <2> QED
    BY <1>1, <1>2, <1>4, <2>1
<1>5. CASE kind \in {"nextWeek", "weekday", "friday", "sunday"}
  <2>1. PICK w \in 0..6 : d = Txt!NextWeekday(ref, w)
    <3>1. kind = "weekday" => t.weekday \in 0..6
      BY DEF DateText
    <3> QED
      BY <1>5, <3>1 DEF Txt!Reading
  <2>2. d \in Int /\ ref < d /\ d <= ref + 7
    BY <1>1, <2>1, NextOfWeek
  <2> QED
    BY <1>1, <1>2, <1>5, <2>2
<1>6. CASE kind = "monthDay"
  <2>1. d = Txt!MonthDay(ref, t.monthDay) /\ t.monthDay.day \in Nat /\ t.monthDay.month \in Nat
    BY <1>6 DEF Txt!Reading, DateText
  <2> HIDE DEF d
  <2>2. \/ d = None
        \/ /\ d \in CalDays /\ d \in Int /\ ref - 31 < d
           /\ Cal!DayOfMonth(d) = t.monthDay.day /\ Txt!MonthOfYear(d) = t.monthDay.month
    BY <2>1, MonthDayIs
  <2> QED
    BY <1>6, <2>2 DEF d
<1>7. CASE kind = "slash"
  <2>1. /\ d = Txt!DateAt(IF t.slash.year = 0 THEN Txt!Year(ref) ELSE t.slash.year - 1,
                          t.slash.month, t.slash.day)
        /\ t.slash.day \in Int /\ t.slash.month \in Int
    BY <1>7 DEF Txt!Reading, Txt!Slash, DateText
  <2>2. YearOn(IF t.slash.year = 0 THEN Txt!Year(ref) ELSE t.slash.year - 1)
    <3>1. t.slash.year # 0 => YearOn(t.slash.year - 1)
      BY <1>7 DEF DateText
    <3>2. YearOn(Txt!Year(ref))
      BY YearAndMonth, MonthsAre DEF DayOn, YearOn
    <3> QED
      BY <3>1, <3>2
  <2> HIDE DEF d
  <2>3. d = None \/ (d \in CalDays /\ d \in Int)
    BY <2>1, <2>2, DateAtIs
  <2> QED
    BY <1>7, <2>3 DEF d
<1> QED
  BY <1>3, <1>4, <1>5, <1>6, <1>7 DEF Kinds

LEMMA LeastOf ==
    ASSUME NEW S, S \subseteq Int, NEW x \in S, \A y \in S : x <= y
    PROVE  S # {} /\ Txt!Min(S) = x
<1>1. \A z \in S : (\A y \in S : z <= y) => z = x
  <2> SUFFICES ASSUME NEW z \in S, \A y \in S : z <= y
               PROVE  z = x
    OBVIOUS
  <2>1. z <= x /\ x <= z /\ x \in Int /\ z \in Int
    OBVIOUS
  <2> QED
    BY <2>1
<1> QED
  BY <1>1 DEF Txt!Min

\* _resolve_date takes one of the expressions that mean a date, if there is one.
LEMMA ResolvedIs ==
    ASSUME NEW t, NEW ref
    PROVE  LET d == Txt!ResolveDate(t, ref)
           IN  \/ d # None /\ \E kind \in Kinds : Txt!Says(t, kind) /\ d = Txt!Reading(t, ref, kind)
               \/ /\ d = None
                  /\ \A kind \in Kinds : Txt!Says(t, kind) => Txt!Reading(t, ref, kind) = None
<1> DEFINE found == {i \in DOMAIN Txt!Order :
                       Txt!Says(t, Txt!Order[i]) /\ Txt!Reading(t, ref, Txt!Order[i]) # None}
           d == Txt!ResolveDate(t, ref)
<1>1. /\ DOMAIN Txt!Order = 1..8 /\ \A i \in 1..8 : Txt!Order[i] \in Kinds
      /\ \A kind \in Kinds : \E i \in 1..8 : Txt!Order[i] = kind
  BY DEF Txt!Order, Kinds
<1>2. d = IF found = {} THEN None ELSE Txt!Reading(t, ref, Txt!Order[Txt!Min(found)])
  BY DEF Txt!ResolveDate
<1>3. CASE found = {}
  <2>1. \A i \in 1..8 : Txt!Says(t, Txt!Order[i]) => Txt!Reading(t, ref, Txt!Order[i]) = None
    BY <1>1, <1>3
  <2>2. \A kind \in Kinds : Txt!Says(t, kind) => Txt!Reading(t, ref, kind) = None
    BY <1>1, <2>1
  <2> QED
    BY <1>2, <1>3, <2>2
<1>4. CASE found # {}
  <2>1. found \subseteq Nat /\ found \subseteq Int
    BY <1>1
  <2>2. \A i \in found : /\ Txt!Order[i] \in Kinds /\ Txt!Says(t, Txt!Order[i])
                         /\ Txt!Reading(t, ref, Txt!Order[i]) # None
    BY <1>1
  <2> HIDE DEF found
  <2>3. PICK x \in found : \A y \in found : x <= y
    BY <1>4, <2>1, LeastOne
  <2>4. Txt!Min(found) = x
    BY <2>1, <2>3, LeastOf
  <2>5. d = Txt!Reading(t, ref, Txt!Order[x])
    BY <1>2, <1>4, <2>4
  <2> QED
    BY <2>2, <2>3, <2>5
<1> QED
  BY <1>3, <1>4

\* The date of an event: not behind, unless it was written out.
LEMMA DateIs ==
    ASSUME MonthsSound, None \notin Int, NEW ref, DayOn(ref), NEW t, DateText(t)
    PROVE  LET d == Txt!ResolveDate(t, ref)
           IN  d # None => /\ d \in CalDays /\ d \in Int
                           /\ ~Txt!WrittenOut(t) => ref <= d
                           /\ ~Txt!Says(t, "slash") => ref - 31 < d
<1> DEFINE d == Txt!ResolveDate(t, ref)
<1> SUFFICES ASSUME d # None
             PROVE  /\ d \in CalDays /\ d \in Int
                    /\ ~Txt!WrittenOut(t) => ref <= d
                    /\ ~Txt!Says(t, "slash") => ref - 31 < d
  OBVIOUS
<1>1. PICK kind \in Kinds : Txt!Says(t, kind) /\ d = Txt!Reading(t, ref, kind)
  BY ResolvedIs
<1>2. ref \in Int
  BY WeeksAhead
<1> HIDE DEF d
<1>3. /\ d = None \/ (d \in CalDays /\ d \in Int)
      /\ d # None /\ kind # "slash" => ref - 31 < d
      /\ kind \notin {"monthDay", "slash"} => d # None /\ ref <= d
  BY <1>1, ReadingIs
<1> QED
  BY <1>1, <1>3 DEF d, Txt!WrittenOut

\* The Saturday of the week, or of the next.
LEMMA WeekendIs ==
    ASSUME NEW ref \in Int
    PROVE  LET d == ref + ((5 - (ref % 7)) % 7)
           IN  /\ d \in Int /\ ref <= d /\ d <= ref + 6 /\ d % 7 = 5
               /\ \A e \in Int : ref <= e /\ e < d => e % 7 # 5
  OBVIOUS

\* The due day of a promise.
LEMMA DueIs ==
    ASSUME MonthsSound, None \notin Int, NEW ref, DayOn(ref), NEW t, DateText(t)
    PROVE  LET d == Txt!ResolveDue(t, ref)
           IN  d # None => /\ d \in CalDays /\ d \in Int
                           /\ ~Txt!WrittenOut(t) => ref <= d
                           /\ ~Txt!Says(t, "slash") => ref - 31 < d
<1> DEFINE d == Txt!ResolveDue(t, ref)
<1> SUFFICES ASSUME d # None
             PROVE  /\ d \in CalDays /\ d \in Int
                    /\ ~Txt!WrittenOut(t) => ref <= d
                    /\ ~Txt!Says(t, "slash") => ref - 31 < d
  OBVIOUS
<1>1. /\ ref \in Int /\ \A e \in Int : ref <= e /\ e <= ref + 28 => e \in CalDays
      /\ Txt!Weekday(ref) = ref % 7
  BY WeeksAhead, SameCalendar
<1>2. ASSUME d \in Int, ref <= d, d <= ref + 62, d <= ref + 28 \/ d \in CalDays
      PROVE  d \in CalDays /\ ref - 31 < d
  BY <1>1, <1>2
<1>3. CASE Txt!Says(t, "dayN") /\ ~Txt!Says(t, "slash")
  <2>1. d = Txt!DayN(ref, t.dayN) /\ t.dayN \in Nat
    BY <1>3 DEF Txt!ResolveDue, DateText
  <2> HIDE DEF d
  <2>2. d \in CalDays /\ d \in Int /\ ref <= d /\ d <= ref + 62
    BY <2>1, DayNIs
  <2> QED
    BY <1>2, <2>2
<1>4. CASE ~(Txt!Says(t, "dayN") /\ ~Txt!Says(t, "slash"))
           /\ (Txt!Says(t, "weekComing") \/ Txt!Says(t, "nextWeek"))
  <2>1. d = ref + 7 - (ref % 7)
    BY <1>1, <1>4 DEF Txt!ResolveDue
  <2> QED
    BY <1>1, <1>2, <2>1
<1>5. CASE ~(Txt!Says(t, "dayN") /\ ~Txt!Says(t, "slash"))
           /\ ~(Txt!Says(t, "weekComing") \/ Txt!Says(t, "nextWeek")) /\ Txt!Says(t, "weekend")
  <2>1. d = ref + ((5 - (ref % 7)) % 7)
    BY <1>1, <1>5 DEF Txt!ResolveDue
  <2> QED
    BY <1>1, <1>2, <2>1, WeekendIs
<1>6. CASE ~(Txt!Says(t, "dayN") /\ ~Txt!Says(t, "slash"))
           /\ ~(Txt!Says(t, "weekComing") \/ Txt!Says(t, "nextWeek")) /\ ~Txt!Says(t, "weekend")
  <2>1. d = IF Txt!ResolveDate(t, ref) # None THEN Txt!ResolveDate(t, ref)
            ELSE IF Txt!Says(t, "atHour") THEN ref ELSE None
    BY <1>6 DEF Txt!ResolveDue
  <2>2. CASE Txt!ResolveDate(t, ref) # None
    BY <2>1, <2>2, DateIs
  <2>3. CASE Txt!ResolveDate(t, ref) = None
    <3>1. d = ref
      BY <2>1, <2>3
    <3> QED
      BY <1>1, <1>2, <3>1
  <2> QED
    BY <2>2, <2>3
<1> QED
  BY <1>3, <1>4, <1>5, <1>6

----------------------------------------------------------------------------
\* The state: what was said, and what was made of it.
TextInv ==
    /\ stamp \in Stamps /\ text \in Texts /\ done \in BOOLEAN
    /\ done => date = Txt!ResolveDate(text, Ref) /\ meant = Txt!ResolveDue(text, Ref)
    /\ ~done => date = None /\ meant = None

LEMMA TextSteps ==
    /\ Txt!Init => TextInv
    /\ TextInv /\ [Txt!Next]_(Txt!vars) => TextInv'
<1>1. Txt!Init => TextInv
  BY DEF Txt!Init, TextInv
<1>2. ASSUME TextInv, Txt!Resolve PROVE TextInv'
  BY <1>2 DEF Txt!Resolve, TextInv, Ref, Txt!RefDay
<1>3. ASSUME TextInv, UNCHANGED Txt!vars PROVE TextInv'
  BY <1>3 DEF Txt!vars, TextInv, Ref, Txt!RefDay
<1> QED
  BY <1>1, <1>2, <1>3 DEF Txt!Next

\* What the search over the days finds.
LEMMA FirstWeekdayIs ==
    ASSUME MonthsSound, NEW ref, DayOn(ref), NEW w \in 0..6
    PROVE  LET near == {d \in (ref + 1)..((ref + 1) + 62) : d \in Txt!Days /\ Txt!Weekday(d) = w}
           IN  near # {} /\ Txt!Min(near) = Txt!NextWeekday(ref, w)
<1> DEFINE near == {d \in (ref + 1)..((ref + 1) + 62) : d \in Txt!Days /\ Txt!Weekday(d) = w}
           x == Txt!NextWeekday(ref, w)
<1>1. /\ ref \in Int /\ \A e \in Int : ref <= e /\ e <= ref + 28 => e \in CalDays
      /\ Txt!Days = CalDays /\ \A e : Txt!Weekday(e) = e % 7
  BY WeeksAhead, SameCalendar
<1>2. /\ x \in Int /\ ref < x /\ x <= ref + 7 /\ x % 7 = w
      /\ \A e \in Int : ref < e /\ e < x => e % 7 # w
  BY <1>1, NextOfWeek
<1> HIDE DEF x
<1>3. x \in near
  BY <1>1, <1>2
<1>4. near \subseteq Int /\ \A y \in near : x <= y
  BY <1>1, <1>2
<1> HIDE DEF near
<1>5. near # {} /\ Txt!Min(near) = x
  BY <1>3, <1>4, LeastOf
<1> QED
  BY <1>5 DEF near, x

LEMMA FirstWeekendIs ==
    ASSUME MonthsSound, NEW ref, DayOn(ref)
    PROVE  LET near == {d \in ref..(ref + 62) : d \in Txt!Days /\ Txt!Weekday(d) = 5}
           IN  near # {} /\ Txt!Min(near) = ref + ((5 - (ref % 7)) % 7)
<1> DEFINE near == {d \in ref..(ref + 62) : d \in Txt!Days /\ Txt!Weekday(d) = 5}
           x == ref + ((5 - (ref % 7)) % 7)
<1>1. /\ ref \in Int /\ \A e \in Int : ref <= e /\ e <= ref + 28 => e \in CalDays
      /\ Txt!Days = CalDays /\ \A e : Txt!Weekday(e) = e % 7
  BY WeeksAhead, SameCalendar
<1>2. /\ x \in Int /\ ref <= x /\ x <= ref + 6 /\ x % 7 = 5
      /\ \A e \in Int : ref <= e /\ e < x => e % 7 # 5
  BY <1>1, WeekendIs
<1> HIDE DEF x
<1>3. x \in near
  BY <1>1, <1>2
<1>4. near \subseteq Int /\ \A y \in near : x <= y
  BY <1>1, <1>2
<1> HIDE DEF near
<1>5. near # {} /\ Txt!Min(near) = x
  BY <1>3, <1>4, LeastOf
<1> QED
  BY <1>5 DEF near, x

LEMMA FirstDayNIs ==
    ASSUME MonthsSound, None \notin Int, NEW ref, DayOn(ref), NEW n \in Nat, Txt!DayN(ref, n) # None
    PROVE  LET near == {d \in ref..(ref + 62) : d \in Txt!Days /\ Txt!DayOfMonth(d) = n}
           IN  near # {} /\ Txt!Min(near) = Txt!DayN(ref, n)
<1> DEFINE near == {d \in ref..(ref + 62) : d \in Txt!Days /\ Txt!DayOfMonth(d) = n}
           x == Txt!DayN(ref, n)
<1>1. /\ ref \in Int /\ Txt!Days = CalDays /\ \A e : Txt!DayOfMonth(e) = Cal!DayOfMonth(e)
  BY WeeksAhead, SameCalendar
<1>2. /\ x \in CalDays /\ x \in Int /\ ref <= x /\ x <= ref + 62 /\ Cal!DayOfMonth(x) = n
      /\ \A e \in CalDays : ref <= e /\ e < x => Cal!DayOfMonth(e) # n
  BY DayNIs
<1> HIDE DEF x
<1>3. x \in near
  BY <1>1, <1>2
<1>4. near \subseteq Int /\ \A y \in near : x <= y
  BY <1>1, <1>2
<1> HIDE DEF near
<1>5. near # {} /\ Txt!Min(near) = x
  BY <1>3, <1>4, LeastOf
<1> QED
  BY <1>5 DEF near, x

\* A text with one expression: the date that it reads, if it is read for dates.
LEMMA OneExpression ==
    ASSUME NEW t, NEW ref, NEW kind, DOMAIN t = {kind}
    PROVE  /\ \A k : Txt!Says(t, k) <=> k = kind
           /\ Txt!ResolveDate(t, ref) = IF kind \in Kinds THEN Txt!Reading(t, ref, kind) ELSE None
<1>1. \A k : Txt!Says(t, k) <=> k = kind
  BY DEF Txt!Says
<1> DEFINE d == Txt!ResolveDate(t, ref)
<1>2. \/ d # None /\ \E k \in Kinds : Txt!Says(t, k) /\ d = Txt!Reading(t, ref, k)
      \/ /\ d = None
         /\ \A k \in Kinds : Txt!Says(t, k) => Txt!Reading(t, ref, k) = None
  BY ResolvedIs
<1> HIDE DEF d
<1>3. d = IF kind \in Kinds THEN Txt!Reading(t, ref, kind) ELSE None
  BY <1>1, <1>2
<1> QED
  BY <1>1, <1>3 DEF d

LEMMA MeantIs ==
    ASSUME TextsSound, TextInv, done, NEW kind \in Txt!Single, DOMAIN text = {kind}
    PROVE  /\ meant \in {Txt!Meant(kind), None} /\ date \in {Txt!Meant(kind), None}
           /\ meant = None => kind = "dayN" /\ text.dayN \notin 1..28
<1>1. /\ MonthsSound /\ None \notin Int /\ DayOn(Ref) /\ DateText(text)
      /\ Txt!Today = Ref /\ Ref \in Int
      /\ date = Txt!ResolveDate(text, Ref) /\ meant = Txt!ResolveDue(text, Ref)
  <2>1. MonthsSound /\ None \notin Int /\ DayOn(Ref) /\ DateText(text)
    BY NoneAssumption DEF TextsSound, TextInv, Ref
  <2>2. Txt!Today = Ref
    BY DEF Txt!Today, Ref, Txt!RefDay
  <2> QED
    BY <2>1, <2>2, WeeksAhead DEF TextInv
<1>2. /\ \A k : Txt!Says(text, k) <=> k = kind
      /\ date = IF kind \in Kinds THEN Txt!Reading(text, Ref, kind) ELSE None
  BY <1>1, OneExpression
<1>3. /\ Txt!Weekday(Ref) = Ref % 7 /\ Ref \in Int
      /\ \A e \in Int : e # None
  BY <1>1, SameCalendar
<1>4. meant = IF kind = "dayN" THEN Txt!DayN(Ref, text.dayN)
              ELSE IF kind \in {"weekComing", "nextWeek"} THEN Ref + 7 - (Ref % 7)
              ELSE IF kind = "weekend" THEN Ref + ((5 - (Ref % 7)) % 7)
              ELSE IF date # None THEN date
              ELSE IF kind = "atHour" THEN Ref ELSE None
  BY <1>1, <1>2, <1>3 DEF Txt!ResolveDue
<1> DEFINE Week(w) == {d \in (Ref + 1)..((Ref + 1) + 62) : d \in Txt!Days /\ Txt!Weekday(d) = w}
           Ends == {d \in Ref..(Ref + 62) : d \in Txt!Days /\ Txt!Weekday(d) = 5}
           Nth == {d \in Ref..(Ref + 62) : d \in Txt!Days /\ Txt!DayOfMonth(d) = text.dayN}
<1>5. ASSUME NEW w \in 0..6
      PROVE  /\ Week(w) # {} /\ Txt!Min(Week(w)) = Txt!NextWeekday(Ref, w)
             /\ Txt!NextWeekday(Ref, w) # None
  BY <1>1, <1>3, FirstWeekdayIs, NextOfWeek
<1>6. CASE kind \in {"weekday", "friday", "sunday"}
  <2>1. PICK w \in 0..6 : /\ w = (CASE kind = "weekday" -> text.weekday
                                    [] kind = "friday"  -> 4
                                    [] kind = "sunday"  -> 6)
    <3>1. kind = "weekday" => text.weekday \in 0..6
      BY <1>1, <1>2 DEF DateText
    <3> QED
      BY <1>6, <3>1
  <2>2. date = Txt!NextWeekday(Ref, w)
    BY <1>2, <1>6, <2>1 DEF Kinds, Txt!Reading
  <2>3. Txt!Meant(kind) = IF Week(w) = {} THEN None ELSE Txt!Min(Week(w))
    BY <1>1, <1>6, <2>1 DEF Txt!Meant, Txt!First
  <2>4. Txt!Meant(kind) = Txt!NextWeekday(Ref, w) /\ Txt!NextWeekday(Ref, w) # None
    BY <1>5, <2>3
  <2> QED
    BY <1>4, <1>6, <2>2, <2>4
<1>7. CASE kind \in {"nextWeek", "weekComing"}
  <2>1. Txt!Meant(kind) = IF Week(0) = {} THEN None ELSE Txt!Min(Week(0))
    BY <1>1, <1>7 DEF Txt!Meant, Txt!First
  <2>2. Txt!Meant(kind) = Txt!NextWeekday(Ref, 0) /\ Txt!NextWeekday(Ref, 0) # None
    BY <1>5, <2>1
  <2>3. Txt!NextWeekday(Ref, 0) = Ref + 7 - (Ref % 7)
    BY <1>3 DEF Txt!NextWeekday
  <2>4. kind = "nextWeek" => date = Txt!NextWeekday(Ref, 0)
    BY <1>2, <1>7 DEF Kinds, Txt!Reading
  <2>5. kind = "weekComing" => date = None
    BY <1>2, <1>7 DEF Kinds
  <2> QED
    BY <1>4, <1>7, <2>2, <2>3, <2>4, <2>5
<1>8. CASE kind = "weekend"
  <2>1. Txt!Meant(kind) = IF Ends = {} THEN None ELSE Txt!Min(Ends)
    BY <1>1, <1>8 DEF Txt!Meant, Txt!First
  <2>2. Ends # {} /\ Txt!Min(Ends) = Ref + ((5 - (Ref % 7)) % 7)
    BY <1>1, FirstWeekendIs
  <2>3. Ref + ((5 - (Ref % 7)) % 7) \in Int
    BY <1>3
  <2>4. date = None
    BY <1>2, <1>8 DEF Kinds
  <2> QED
    BY <1>3, <1>4, <1>8, <2>1, <2>2, <2>3, <2>4
<1>9. CASE kind = "tomorrow"
  <2>1. Txt!Meant(kind) = Ref + 1 /\ date = Ref + 1 /\ Ref + 1 \in Int
    BY <1>1, <1>2, <1>9 DEF Txt!Meant, Kinds, Txt!Reading
  <2> QED
    BY <1>3, <1>4, <1>9, <2>1
<1>10. CASE kind = "today"
  <2>1. Txt!Meant(kind) = Ref /\ date = Ref
    BY <1>1, <1>2, <1>10 DEF Txt!Meant, Kinds, Txt!Reading
  <2> QED
    BY <1>3, <1>4, <1>10, <2>1
<1>11. CASE kind = "atHour"
  <2>1. Txt!Meant(kind) = Ref /\ date = None
    BY <1>1, <1>2, <1>11 DEF Txt!Meant, Kinds
  <2> QED
    BY <1>3, <1>4, <1>11, <2>1
<1>12. CASE kind = "dayN"
  <2>1. Txt!Meant(kind) = IF Nth = {} THEN None ELSE Txt!Min(Nth)
    BY <1>1, <1>12 DEF Txt!Meant, Txt!First
  <2>2. text.dayN \in Nat
    BY <1>1, <1>2, <1>12 DEF DateText
  <2>3. meant = Txt!DayN(Ref, text.dayN) /\ date = None
    BY <1>2, <1>4, <1>12 DEF Kinds
  <2>4. meant # None => Txt!Meant(kind) = meant
    <3>1. PICK n \in Nat : n = text.dayN
      BY <2>2
    <3>2. meant # None => Nth # {} /\ Txt!Min(Nth) = meant
      BY <1>1, <2>3, <3>1, FirstDayNIs
    <3> QED
      BY <2>1, <3>2
  <2>5. text.dayN \in 1..28 => meant # None
    BY <1>1, <2>2, <2>3, DayNIs
  <2> QED
    BY <1>12, <2>3, <2>4, <2>5
<1> QED
  BY <1>6, <1>7, <1>8, <1>9, <1>10, <1>11, <1>12 DEF Txt!Single

LEMMA TextGood == ASSUME TextsSound, TextInv PROVE Txt!TypeOK /\ Txt!DatesMeant
<1>1. /\ MonthsSound /\ None \notin Int /\ DayOn(Ref) /\ DateText(text)
      /\ Txt!Today = Ref /\ Txt!Days = CalDays
  <2>1. MonthsSound /\ None \notin Int /\ DayOn(Ref) /\ DateText(text)
    BY NoneAssumption DEF TextsSound, TextInv, Ref
  <2>2. Txt!Today = Ref
    BY DEF Txt!Today, Ref, Txt!RefDay
  <2> QED
    BY <2>1, <2>2, SameCalendar
<1>2. ASSUME NEW d \in {date, meant}, d # None
      PROVE  /\ d \in CalDays /\ d \in Int
             /\ ~Txt!WrittenOut(text) => Ref <= d
             /\ ~Txt!Says(text, "slash") => Ref - 31 < d
  <2>1. done /\ (d = Txt!ResolveDate(text, Ref) \/ d = Txt!ResolveDue(text, Ref))
    BY <1>2 DEF TextInv
  <2>2. CASE d = Txt!ResolveDate(text, Ref)
    BY <1>1, <1>2, <2>2, DateIs
  <2>3. CASE d = Txt!ResolveDue(text, Ref)
    BY <1>1, <1>2, <2>3, DueIs
  <2> QED
    BY <2>1, <2>2, <2>3
<1>3. Txt!TypeOK
  BY <1>1, <1>2 DEF Txt!TypeOK, TextInv
<1>4. Txt!NeverBehind
  <2>1. Ref \in Int
    BY <1>1, WeeksAhead
  <2> QED
    BY <1>1, <1>2, <2>1 DEF Txt!NeverBehind
<1>5. ASSUME done, DOMAIN text = {"monthDay"}, date # None
      PROVE  Txt!DayOfMonth(date) = text.monthDay.day /\ Txt!MonthOfYear(date) = text.monthDay.month
  <2>1. /\ Txt!Says(text, "monthDay") /\ "monthDay" \in Kinds
        /\ date = Txt!Reading(text, Ref, "monthDay")
    BY <1>5, OneExpression DEF Kinds, TextInv
  <2>2. /\ Cal!DayOfMonth(date) = text.monthDay.day
        /\ Txt!MonthOfYear(date) = text.monthDay.month
    BY <1>1, <1>5, <2>1, ReadingIs
  <2> QED
    BY <2>2, SameCalendar
<1>6. done => Txt!MeansNext
  BY <1>5, MeantIs DEF Txt!MeansNext
<1> QED
  BY <1>3, <1>4, <1>6 DEF Txt!DatesMeant

\* A date read out of a text is on the calendar, or none.
THEOREM TextTypes == ASSUME TextsSound PROVE Txt!Spec => []Txt!TypeOK
<1>1. TextInv => Txt!TypeOK
  BY TextGood
<1> QED
  BY <1>1, TextSteps, PTL DEF Txt!Spec

\* resolve_due and _resolve_date (services/whatsapp_processor.py): whatever day a message is
\* of, and whatever it says, no date is behind that was not written out, by a month at most
\* unless its year may be told; a text with one expression means the first day that fits it;
\* and a day that a month does not have is given up, never moved.
THEOREM DatesMeantAlways == ASSUME TextsSound PROVE Txt!Spec => []Txt!DatesMeant
<1>1. TextInv => Txt!DatesMeant
  BY TextGood
<1> QED
  BY <1>1, TextSteps, PTL DEF Txt!Spec
=============================================================================
