----------------------------- MODULE MCChatTurn -----------------------------
(* Two turns of one chat thread and a tab that may return to it.           *)
EXTENDS ChatTurn

CONSTANTS t1, t2
=============================================================================
