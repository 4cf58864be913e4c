--------------------------- MODULE MCCommitments ----------------------------
(* Commitments for TLC: everything on, the judges off, everything off.      *)
EXTENDS Commitments

AllOn == [debts |-> TRUE, context |-> TRUE, judge |-> TRUE]
AllOff == [debts |-> FALSE, context |-> FALSE, judge |-> FALSE]
NoJudges == [debts |-> TRUE, context |-> FALSE, judge |-> FALSE]
Environments == {AllOn, NoJudges, AllOff}
=============================================================================
