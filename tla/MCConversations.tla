-------------------------- MODULE MCConversations ---------------------------
(* Conversations for TLC: one person, one webhook thread, one reader.       *)
EXTENDS Conversations
=============================================================================
