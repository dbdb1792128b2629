--------------------------- MODULE MCKerberosEnv ---------------------------
(* Two connections of one pool and one of another, and a user who logs in  *)
(* again while his tickets are renewed and used.                           *)
EXTENDS Kerberos

CONSTANTS a1, a2, b1, ka, kb

MCCredOf == [c \in Conn |-> IF c = b1 THEN kb ELSE ka]

\* What shares nothing is shown one after the other: tickets before the first
\* connection.
Apart == captures + asks = 0 \/ \A c \in Conn : pc[c] = "idle"
=============================================================================
