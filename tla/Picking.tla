------------------------------- MODULE Picking -------------------------------
(* What a loop with a condition takes of a sequence, by place. *)
EXTENDS Naturals, Sequences

(* The elements at some places, in their order.                            *)
Picked(s, places) ==
  LET f[n \in 0..Len(s)] ==
        IF n = 0 THEN <<>> ELSE IF n \in places THEN Append(f[n - 1], s[n]) ELSE f[n - 1]
  IN  f[Len(s)]
===============================================================================
