--------------------------- MODULE MCImageStorage ---------------------------
(* An upload against any other operation, by a launcher of two images. *)
EXTENDS ImageStorage, TLC

CONSTANTS u, v, home, extra

MCImagesOf == (u :> <<home>>) @@ (v :> <<home, extra>>)
MCModesOf == (u :> {"write"}) @@ (v :> {"read", "delete", "run"})
=============================================================================
