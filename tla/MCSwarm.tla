------------------------------ MODULE MCSwarm ------------------------------
(* One or two peers and channels that hold one or two events.              *)
EXTENDS Swarm, TLC

CONSTANTS p1, p2

MCPeers == {p1, p2}
MCPeer == {p1}
=============================================================================
