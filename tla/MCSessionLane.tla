---------------------------- MODULE MCSessionLane ---------------------------
(* The session lane alone; MCComponents checks what holds of it.            *)
EXTENDS SessionLane
=============================================================================
