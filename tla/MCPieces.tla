------------------------------ MODULE MCPieces ------------------------------
(* Pieces for TLC: two pieces, an honest webseed and a peer that sends     *)
(* wrong data.                                                             *)
EXTENDS Pieces, TLC

CONSTANTS p1, w1, f1, f2, e1

MCPeer == {p1}
MCWebseed == {w1}
MCCorrupt == {p1}
MCFinaliser == {f1, f2}
MCExpirer == {e1}
=============================================================================
