---------------------------- MODULE VerifiedStore ----------------------------
(***************************************************************************)
(* What the readers of a torrent are promised: a piece is either           *)
(* unreadable or holds a whole content that its hash validates.  It        *)
(* becomes readable in one step, does not change while it is readable, and *)
(* is taken away in one step.                                              *)
(***************************************************************************)
CONSTANTS
    Piece,
    Valid,   \* Valid[i]: the contents that match the hash of piece i
    Nil

VARIABLE store   \* store[i]: what can be read of piece i, or Nil

Init == store = [i \in Piece |-> Nil]

Publish(i) ==
    /\ store[i] = Nil
    /\ \E b \in Valid[i] : store' = [store EXCEPT ![i] = b]

Evict(i) ==
    /\ store[i] # Nil
    /\ store' = [store EXCEPT ![i] = Nil]

Next == \E i \in Piece : Publish(i) \/ Evict(i)

Spec == Init /\ [][Next]_store
=============================================================================
