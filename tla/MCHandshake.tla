---------------------------- MODULE MCHandshake ----------------------------
(* Two ends, every pair of policies, every cut of every message.           *)
EXTENDS Handshake
=============================================================================
