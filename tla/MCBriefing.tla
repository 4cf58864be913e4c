----------------------------- MODULE MCBriefing -----------------------------
EXTENDS Briefing, TLC
MCItems == <<"await", "promise">>
MCKindOf == [i \in {"await", "promise"} |-> IF i = "await" THEN "awaiting" ELSE "commitment"]
MCInitLive == {"promise"}
ThreadSymmetry == Permutations(Tappers) \cup Permutations(Jobs)

\* Two slices that share the fault-free first day: what follows a fault that day, when
\* claims go stale; and a second day without faults, with everything outstanding.
Unrated == \A s \in Slots : row[s].feedback = "none"
Slice ==
  IF faults > 0 THEN day = 1 /\ Unrated
  ELSE now = 0 /\ (day > 1 => Unrated /\ \A i \in ItemSet : status[i] # "later")
=============================================================================
