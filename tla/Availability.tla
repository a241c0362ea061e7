---------------------------- MODULE Availability ----------------------------
(***************************************************************************)
(* What the peers have: the bitmap that each peer's goroutine keeps from   *)
(* the messages it receives (peer/peer.go), before the number of pieces is *)
(* known and after, and the counts of available pieces that the torrent's  *)
(* loop keeps from the peers' events (tor/tor.go).                         *)
(*                                                                         *)
(* A peer's events reach the torrent in the order in which they were       *)
(* written, behind those of other peers (module Swarm); here each peer has *)
(* a queue of its own.  The connection may end at any time.                *)
(***************************************************************************)
EXTENDS Integers, Sequences, FiniteSets

CONSTANTS
    Peer,
    Num,        \* the number of pieces, known once the metadata is complete
    MaxBit,     \* bound: the highest bit a peer may set before that
    MaxEvents   \* bound: messages are handled while fewer events are queued

ASSUME AvailabilityAssumption ==
    /\ Num \in Nat \ {0} /\ MaxBit \in Nat /\ MaxBit >= Num - 1
    /\ MaxEvents \in Nat \ {0}
    /\ IsFiniteSet(Peer)

Piece == 0 .. Num - 1
Bit == 0 .. MaxBit

VARIABLES
    infoComplete,   \* Torrent.infoComplete
    available,      \* Torrent.available
    peers,          \* Torrent.peers
    running,        \* the peers that have not closed Done
    informed,       \* PeerMetadataComplete is in the channel of the peer
    info,           \* Peer.Info is set
    isSeed,         \* Peer.isSeed
    isNil,          \* Peer.bitmap is nil
    bitmap,         \* Peer.bitmap
    events          \* Peer.events: what the peer tells the torrent

peerVars == <<informed, info, isSeed, isNil, bitmap>>
vars == <<infoComplete, available, peers, running, peerVars, events>>

Init ==
    /\ infoComplete \in BOOLEAN     \* a torrent file or a magnet link
    /\ available = [b \in Bit |-> 0]
    /\ peers = {} /\ running = {}
    /\ informed = [p \in Peer |-> FALSE]
    /\ info = [p \in Peer |-> FALSE]
    /\ isSeed = [p \in Peer |-> FALSE]
    /\ isNil = [p \in Peer |-> TRUE]
    /\ bitmap = [p \in Peer |-> {}]
    /\ events = [p \in Peer |-> <<>>]

Bits(S, have) == [type |-> "bits", bits |-> S, have |-> have]
Goaway == [type |-> "goaway", bits |-> {}, have |-> FALSE]

-----------------------------------------------------------------------------
(* The torrent's loop.                                                     *)

\* Faulty variant: the new peer is not told that the metadata is complete.
AddPeerUninformed(p) ==
    /\ p \notin peers
    /\ peers' = peers \cup {p}
    /\ running' = running \cup {p}
    /\ info' = [info EXCEPT ![p] = FALSE]
    /\ informed' = [informed EXCEPT ![p] = FALSE]
    /\ isSeed' = [isSeed EXCEPT ![p] = FALSE]
    /\ isNil' = [isNil EXCEPT ![p] = TRUE]
    /\ bitmap' = [bitmap EXCEPT ![p] = {}]
    /\ UNCHANGED <<infoComplete, available, events>>

\* TorAddPeer: a new peer is run.
AddPeer(p) ==
    /\ p \notin peers
    /\ peers' = peers \cup {p}
    /\ running' = running \cup {p}
    /\ info' = [info EXCEPT ![p] = infoComplete]
    /\ informed' = [informed EXCEPT ![p] = FALSE]
    /\ isSeed' = [isSeed EXCEPT ![p] = FALSE]
    /\ isNil' = [isNil EXCEPT ![p] = TRUE]
    /\ bitmap' = [bitmap EXCEPT ![p] = {}]
    /\ UNCHANGED <<infoComplete, available, events>>

\* The metadata is complete, and the peers are told.
MetadataComplete ==
    /\ ~infoComplete
    /\ infoComplete' = TRUE
    /\ informed' = [p \in Peer |-> informed[p] \/ p \in peers \cap running]
    /\ UNCHANGED <<available, peers, running, info, isSeed, isNil, bitmap, events>>

\* noteAvailable; the overflow of a uint16 is out of reach.
noteAvailable(n, have) == IF have THEN n + 1 ELSE IF n = 0 THEN 0 ELSE n - 1

\* TorPeerBitmap and TorPeerHave, or TorPeerGoaway.
HandleEvent(p) ==
    /\ events[p] # <<>>
    /\ LET e == Head(events[p])
       IN  /\ available' = [b \in Bit |-> IF b \in e.bits
                                          THEN noteAvailable(available[b], e.have)
                                          ELSE available[b]]
           /\ peers' = IF e.type = "goaway" THEN peers \ {p} ELSE peers
    /\ events' = [events EXCEPT ![p] = Tail(@)]
    /\ UNCHANGED <<infoComplete, running, peerVars>>

-----------------------------------------------------------------------------
(* A peer.  Tell queues events; Leave is the end of Run, the deferred      *)
(* function included.                                                      *)

Tell(p, es) == events' = [events EXCEPT ![p] = @ \o es]

Leave(p, b) ==
    /\ running' = running \ {p}
    /\ Tell(p, <<Bits(b, FALSE), Goaway>>)

SetBitmap(p, nil, b) ==
    /\ isNil' = [isNil EXCEPT ![p] = nil]
    /\ bitmap' = [bitmap EXCEPT ![p] = b]

Seed(p, s) == isSeed' = [isSeed EXCEPT ![p] = s]

\* The next message is handled.
Message(p) ==
    /\ p \in running
    /\ Len(events[p]) < MaxEvents
    /\ UNCHANGED <<infoComplete, available, peers, informed, info>>

\* What is retracted when the bitmap is replaced.
Retract(p) == IF isNil[p] THEN <<>> ELSE <<Bits(bitmap[p], FALSE)>>

OutOfRange(p, S) == info[p] /\ ~(S \subseteq Piece)

Have(p, i) ==
    /\ Message(p)
    /\ IF OutOfRange(p, {i})
       THEN Leave(p, bitmap[p]) /\ UNCHANGED <<isNil, bitmap>>
       ELSE /\ IF i \in bitmap[p] THEN UNCHANGED <<isNil, bitmap, events>>
               ELSE /\ SetBitmap(p, FALSE, bitmap[p] \cup {i})
                    /\ Tell(p, <<Bits({i}, TRUE)>>)
            /\ UNCHANGED running
    /\ UNCHANGED isSeed

\* Faulty variant: what the peer had before is not retracted.
BitfieldNoRetract(p, S) ==
    /\ Message(p)
    /\ IF OutOfRange(p, S)
       THEN Leave(p, bitmap[p]) /\ UNCHANGED <<isNil, bitmap>>
       ELSE /\ SetBitmap(p, FALSE, S)
            /\ Tell(p, <<Bits(S, TRUE)>>)
            /\ UNCHANGED running
    /\ UNCHANGED isSeed

Bitfield(p, S) ==
    /\ Message(p)
    /\ IF OutOfRange(p, S)
       THEN Leave(p, bitmap[p]) /\ UNCHANGED <<isNil, bitmap>>
       ELSE /\ SetBitmap(p, FALSE, S)
            /\ Tell(p, Retract(p) \o <<Bits(S, TRUE)>>)
            /\ UNCHANGED running
    /\ UNCHANGED isSeed

\* The bits of a seed are set now or when the number of pieces is known.
HaveAll(p) ==
    /\ Message(p)
    /\ Seed(p, TRUE)
    /\ SetBitmap(p, ~info[p], IF info[p] THEN Piece ELSE {})
    /\ Tell(p, Retract(p) \o IF info[p] THEN <<Bits(Piece, TRUE)>> ELSE <<>>)
    /\ UNCHANGED running

HaveNone(p) ==
    /\ Message(p)
    /\ Seed(p, FALSE)
    /\ SetBitmap(p, TRUE, {})
    /\ Tell(p, Retract(p))
    /\ UNCHANGED running

DontHave(p, i) ==
    /\ Message(p)
    /\ IF isSeed[p] /\ ~info[p]
       THEN Leave(p, bitmap[p]) /\ UNCHANGED <<isSeed, isNil, bitmap>>
       ELSE /\ Seed(p, FALSE)
            /\ IF OutOfRange(p, {i})
               THEN Leave(p, bitmap[p]) /\ UNCHANGED <<isNil, bitmap>>
               ELSE /\ IF i \notin bitmap[p] THEN UNCHANGED <<isNil, bitmap, events>>
                       ELSE /\ SetBitmap(p, FALSE, bitmap[p] \ {i})
                            /\ Tell(p, <<Bits({i}, FALSE)>>)
                    /\ UNCHANGED running

\* isSeed(peer), whenever somebody asks for the peer's status.
NoteSeed(p) ==
    /\ p \in running
    /\ info[p] /\ bitmap[p] = Piece
    /\ Seed(p, TRUE)
    /\ UNCHANGED <<infoComplete, available, peers, running, informed, info, isNil, bitmap, events>>

\* A bitmap that makes no sense now that the number of pieces is known.
Overlong(p) == IF isSeed[p] THEN ~isNil[p] ELSE ~(bitmap[p] \subseteq Piece)

\* PeerMetadataComplete
Informed(p) ==
    /\ p \in running
    /\ informed[p]
    /\ Len(events[p]) < MaxEvents
    /\ informed' = [informed EXCEPT ![p] = FALSE]
    /\ info' = [info EXCEPT ![p] = TRUE]
    /\ IF info[p] \/ Overlong(p)
       THEN Leave(p, bitmap[p]) /\ UNCHANGED <<isNil, bitmap>>
       ELSE /\ IF ~isSeed[p] THEN UNCHANGED <<isNil, bitmap, events>>
               ELSE SetBitmap(p, FALSE, Piece) /\ Tell(p, <<Bits(Piece, TRUE)>>)
            /\ UNCHANGED running
    /\ UNCHANGED <<infoComplete, available, peers, isSeed>>

\* The connection is closed, or fails.
Disconnect(p) ==
    /\ p \in running
    /\ Leave(p, bitmap[p])
    /\ UNCHANGED <<infoComplete, available, peers, peerVars>>

Next ==
    \/ MetadataComplete
    \/ \E p \in Peer :
          \/ AddPeer(p) \/ HandleEvent(p) \/ Informed(p) \/ Disconnect(p)
          \/ HaveAll(p) \/ HaveNone(p) \/ NoteSeed(p)
          \/ \E b \in Bit : Have(p, b) \/ DontHave(p, b)
          \/ \E S \in SUBSET Bit : Bitfield(p, S)

Spec == Init /\ [][Next]_vars

-----------------------------------------------------------------------------
\* A peer's events are at most those of one message and of its end.
TypeOK ==
    /\ infoComplete \in BOOLEAN
    /\ available \in [Bit -> 0 .. Cardinality(Peer)]
    /\ running \subseteq peers /\ peers \subseteq Peer
    /\ informed \in [Peer -> BOOLEAN] /\ info \in [Peer -> BOOLEAN]
    /\ isSeed \in [Peer -> BOOLEAN] /\ isNil \in [Peer -> BOOLEAN]
    /\ bitmap \in [Peer -> SUBSET Bit]
    /\ events \in [Peer -> Seq([type : {"bits", "goaway"}, bits : SUBSET Bit,
                                have : BOOLEAN])]

\* The bits that an event says were gained, or lost.
Gained(e) == IF e.have THEN e.bits ELSE {}
Lost(e) == e.bits \ Gained(e)

\* What p has, less what it gained and plus what it lost on the way.
Told(p, b) ==
    (IF p \in running /\ b \in bitmap[p] THEN 1 ELSE 0)
        + Cardinality({k \in DOMAIN events[p] : b \in Lost(events[p][k])})
        - Cardinality({k \in DOMAIN events[p] : b \in Gained(events[p][k])})

(* The torrent counts a piece once for each of the peers that have it, but *)
(* for what that peer has yet to tell it, whether the peer changes its     *)
(* bitmap, announces bits beyond the last piece before it is known, or     *)
(* leaves.  pickPriority and getChunks rely on it: a count that stays too  *)
(* low starves a piece.                                                    *)
AvailableExact ==
    \A b \in Bit :
        /\ \A p \in Peer : Told(p, b) \in 0 .. 1
        /\ available[b] = Cardinality({p \in Peer : Told(p, b) = 1})

(* Once the number of pieces is known no peer has a piece that does not    *)
(* exist, although bits may be set before.                                 *)
InRange == \A p \in running : info[p] => bitmap[p] \subseteq Piece

(* A peer learns of the metadata exactly once: when it is run, or by an    *)
(* event, wherever its creation falls.                                     *)
InformedOnce ==
    \A p \in running :
        /\ infoComplete <=> info[p] \/ informed[p]
        /\ ~(info[p] /\ informed[p])
=============================================================================
