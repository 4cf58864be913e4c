---------------------------- MODULE MCRecurrence ----------------------------
(* Four slots a day; the clocks go forward on day 40, at slot 1, and back   *)
(* on day 100.                                                              *)
EXTENDS Recurrence
Lengths == <<31, 28, 31, 30, 31, 30, 31, 31, 30, 31, 30, 31>>
=============================================================================
