--------------------------- MODULE MCTurnRegistry ---------------------------
(* Two turns of one chat thread, an operation in one of them and a thread  *)
(* pressing Stop: the newer turn, the user and the turn itself race to     *)
(* cancel a turn with up to two interrupters.  Either turn may come first. *)
EXTENDS TurnRegistry

CONSTANTS t1, t2, o1, th

MCOwner == [o \in Op |-> t1]
MCThreadOf == [t \in Turn |-> th]
=============================================================================
