----------------------------- MODULE MCReminders ---------------------------
(* Reminders for TLC: one instance; MCComponents has two that overlap.      *)
EXTENDS Reminders
=============================================================================
