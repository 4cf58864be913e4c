-------------------------- MODULE MCScheduledTasks --------------------------
(* ScheduledTasks for TLC: one instance; MCComponents has two that overlap. *)
EXTENDS ScheduledTasks
=============================================================================
