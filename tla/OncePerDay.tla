----------------------------- MODULE OncePerDay -----------------------------
(***************************************************************************)
(* What the claimed daily messages of EVI promise, whatever table holds    *)
(* the claim: a slot is taken by one sender at a time, only its taker      *)
(* sends, a slot that is settled is never taken again, and a taker that    *)
(* gives up leaves the slot free for a retry.                              *)
(***************************************************************************)
CONSTANT Slots

VARIABLE state

States == {"free", "held", "sent", "done"}

Init == state = [s \in Slots |-> "free"]

\* A sender takes the free slot.
Take(s) == state[s] = "free" /\ state' = [state EXCEPT ![s] = "held"]

\* Its message leaves: once for each time the slot was taken.
Deliver(s) == state[s] = "held" /\ state' = [state EXCEPT ![s] = "sent"]

\* The slot is settled, by its taker or by somebody told to ignore the slot.
Settle(s) == state[s] # "done" /\ state' = [state EXCEPT ![s] = "done"]

\* The taker failed, died, or could not write down what it did.
GiveUp(s) == state[s] \in {"held", "sent"} /\ state' = [state EXCEPT ![s] = "free"]

\* A process restart makes every taker give up at once; a slot whose claim
\* outlives the process is settled, with or without a message.
Restart ==
    \E settled \in SUBSET Slots :
        state' = [s \in Slots |->
                    IF state[s] = "done" \/ s \in settled THEN "done" ELSE "free"]

Next == Restart \/ \E s \in Slots : Take(s) \/ Deliver(s) \/ Settle(s) \/ GiveUp(s)

Spec == Init /\ [][Next]_state
=============================================================================
