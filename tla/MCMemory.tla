------------------------------ MODULE MCMemory ------------------------------
(* The reaper, with two torrents and two goroutines that expire pieces; or *)
(* one call of Pieces.Expire, with idle times on both sides of Old.        *)
EXTENDS Memory, Eviction, TLC

CONSTANTS t1, t2, e1, e2, i1, i2, i3

MCTorrent == {t1, t2}
MCExpirer == {e1, e2}
MCPiece == {i1, i2, i3}

VARIABLE expire     \* which of tor.Expire and Pieces.Expire this is about

MCInit ==
    \/ /\ expire = "tor" /\ MemoryInit
       /\ t = [i \in Piece |-> 0] /\ available = t /\ stored = {} /\ busy = {}
       /\ todo = 0 /\ left = {}
    \/ expire = "Pieces" /\ Init /\ MemoryInit
MCNext ==
    \/ expire = "tor" /\ MemoryNext /\ UNCHANGED <<expire, vars>>
    \/ expire = "Pieces" /\ Next /\ UNCHANGED <<expire, memoryVars>>
MCSpec == MCInit /\ [][MCNext]_<<expire, vars, memoryVars>> /\ MemoryFairness
=============================================================================
