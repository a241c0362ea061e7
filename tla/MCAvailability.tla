--------------------------- MODULE MCAvailability ---------------------------
(* Two peers and two pieces; a peer may also set the bit after them.       *)
EXTENDS Availability, TLC

CONSTANTS p1, p2

MCPeers == {p1, p2}
MCSymmetry == Permutations(MCPeers)
=============================================================================
