----------------------------- MODULE MCMetadata -----------------------------
(* A good peer, one that announces another size, and one that announces    *)
(* the right size and sends bad data.  The metadata has two chunks, the    *)
(* second of which is short.                                               *)
EXTENDS Metadata, TLC

CONSTANTS good, other, wrong

MCPeers == {good, other, wrong}
MCGood == {good}
MCClaim == good :> 3 @@ wrong :> 3 @@ other :> 1
=============================================================================
