----------------------------- MODULE MCTransfer -----------------------------
(* Small instances of Transfer: two peers, of which one implements the     *)
(* Fast extension, that race for a chunk, and one peer that races with a   *)
(* webseed for a piece whose last chunk is short.                          *)
EXTENDS Transfer, TLC

CONSTANTS p1, p2, w1

MCPeer == {p1, p2}
MCFast == {p1}
MCWriter == {w1}
Start(peers, chunks, n) == [peers |-> peers, wanted |-> chunks, fetches |-> n]
MCStarts == {Start({p1, p2}, 0 :> 2 @@ 1 :> 0, 0), Start({p2}, 0 :> 1 @@ 1 :> 1, 2)}
=============================================================================
