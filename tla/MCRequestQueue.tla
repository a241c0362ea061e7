--------------------------- MODULE MCRequestQueue ---------------------------
(* RequestQueue for TLC.                                                   *)
EXTENDS RequestQueue, TLC

CONSTANTS c1, c2, c3

MCIndex == {c1, c2, c3}
=============================================================================
