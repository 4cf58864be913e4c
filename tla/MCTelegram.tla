----------------------------- MODULE MCTelegram -----------------------------
(* The Telegram chat alone; MCChats checks what holds of it.              *)
EXTENDS Telegram
=============================================================================
