------------------------- MODULE AvailabilityProofs -------------------------
(***************************************************************************)
(* Proofs about module Availability, for any set of peers and any number   *)
(* of pieces: once the number of pieces is known no peer has a piece that  *)
(* does not exist, every peer learns of the metadata exactly once, and the *)
(* torrent counts every piece as often as there are peers that have it.    *)
(*                                                                         *)
(* The torrent informs the peers that it knows, so that the second needs   *)
(* to know that a peer that runs is one of them; and this in turn that     *)
(* nothing follows a peer's TorPeerGoaway.  The third needs to know, for   *)
(* every event on its way, what the torrent will believe when it comes to  *)
(* it: noteAvailable would not lower a count of zero.                      *)
(***************************************************************************)
EXTENDS Availability, FiniteSetTheorems, TLAPS

EventOf == [type : {"bits", "goaway"}, bits : SUBSET Bit, have : BOOLEAN]

Shape ==
    /\ infoComplete \in BOOLEAN
    /\ running \subseteq peers /\ peers \subseteq Peer
    /\ informed \in [Peer -> BOOLEAN]
    /\ info \in [Peer -> BOOLEAN]
    /\ isSeed \in [Peer -> BOOLEAN]
    /\ isNil \in [Peer -> BOOLEAN]
    /\ bitmap \in [Peer -> SUBSET Bit]
    /\ events \in [Peer -> Seq(EventOf)]

\* Nothing follows a TorPeerGoaway, which only a peer that has ended sends.
GoawayIsLast ==
    \A p \in Peer :
        /\ p \notin peers => events[p] = <<>>
        /\ \A k \in 1 .. Len(events[p]) :
              events[p][k].type = "goaway" => k = Len(events[p]) /\ p \notin running

IndInv == Shape /\ GoawayIsLast /\ InRange /\ InformedOnce

\* The two that concern what a peer knows, and the two that concern the queues.
Known == InRange /\ InformedOnce
Queues == Shape /\ GoawayIsLast

\* The events of one message: none of them is the last.
Plain(es) ==
    es \in Seq(EventOf) /\ \A k \in 1 .. Len(es) : es[k].type # "goaway"

LEMMA PiecesAreBits == Piece \subseteq Bit
  BY AvailabilityAssumption DEF Piece, Bit

LEMMA InitInv == Init => IndInv
  BY DEF Init, IndInv, Shape, GoawayIsLast, InRange, InformedOnce

-----------------------------------------------------------------------------
(* The queues.                                                             *)

LEMMA ConcatLength ==
  ASSUME NEW s \in Seq(EventOf), NEW t \in Seq(EventOf)
  PROVE  Len(s \o t) = Len(s) + Len(t)
OBVIOUS

LEMMA NoneLeft ==
  ASSUME NEW s \in Seq(EventOf), Len(s) = 0
  PROVE  s = <<>>
OBVIOUS

\* A peer that runs queues events of its own, none of them its last.
LEMMA TellKeeps ==
  ASSUME Queues, NEW p \in running, NEW es \in Seq(EventOf), Tell(p, es), Plain(es),
         peers' = peers, running' = running
  PROVE  GoawayIsLast' /\ events' \in [Peer -> Seq(EventOf)]
<1>1. p \in Peer /\ events[p] \in Seq(EventOf)
  BY DEF Queues, Shape
<1>2. events[p] \o es \in Seq(EventOf)
  BY <1>1
<1>3. events' \in [Peer -> Seq(EventOf)]
  BY <1>2 DEF Queues, Shape, Tell
<1>4. events'[p] = events[p] \o es /\ \A q \in Peer \ {p} : events'[q] = events[q]
  BY <1>1 DEF Queues, Shape, Tell
<1>5. \A k \in 1 .. Len(events'[p]) : events'[p][k].type # "goaway"
  <2>1. \A k \in 1 .. Len(events[p]) : events[p][k].type # "goaway"
    BY <1>1 DEF Queues, GoawayIsLast
  <2>2. TAKE k \in 1 .. Len(events'[p])
  <2>3. Len(events'[p]) = Len(events[p]) + Len(es)
    BY <1>1, <1>4
  <2>4. events'[p][k] = IF k <= Len(events[p]) THEN events[p][k]
                        ELSE es[k - Len(events[p])]
    BY <1>1, <1>4, <2>3
  <2> QED
    BY <1>1, <2>1, <2>3, <2>4 DEF Plain
<1> QED
  BY <1>1, <1>3, <1>4, <1>5 DEF Queues, Shape, GoawayIsLast

\* A peer that ends queues its last events.
LEMMA LeaveKeeps ==
  ASSUME Queues, NEW p \in running, NEW b \in SUBSET Bit, Leave(p, b), peers' = peers
  PROVE  /\ GoawayIsLast'
         /\ events' \in [Peer -> Seq(EventOf)]
         /\ running' = running \ {p}
<1> DEFINE es == <<Bits(b, FALSE), Goaway>>
<1>1. p \in Peer /\ events[p] \in Seq(EventOf)
  BY DEF Queues, Shape
<1>2. es \in Seq(EventOf) /\ Len(es) = 2 /\ es[1].type = "bits"
  BY DEF EventOf, Bits, Goaway
<1> HIDE DEF es
<1>3. events[p] \o es \in Seq(EventOf)
  BY <1>1, <1>2
<1>4. events' = [events EXCEPT ![p] = @ \o es] /\ running' = running \ {p}
  BY DEF Leave, Tell, es
<1>5. events' \in [Peer -> Seq(EventOf)]
  BY <1>3, <1>4 DEF Queues, Shape
<1>6. events'[p] = events[p] \o es /\ \A q \in Peer \ {p} : events'[q] = events[q]
  BY <1>1, <1>4 DEF Queues, Shape
<1>7. \A k \in 1 .. Len(events'[p]) :
         events'[p][k].type = "goaway" => k = Len(events'[p])
  <2>1. \A k \in 1 .. Len(events[p]) : events[p][k].type # "goaway"
    BY <1>1 DEF Queues, GoawayIsLast
  <2>2. TAKE k \in 1 .. Len(events'[p])
  <2>3. Len(events'[p]) = Len(events[p]) + 2
    <3>1. Len(events[p] \o es) = Len(events[p]) + Len(es)
      BY <1>1, <1>2, ConcatLength, Zenon
    <3> QED
      BY <1>2, <1>6, <3>1
  <2>4. events'[p][k] = IF k <= Len(events[p]) THEN events[p][k]
                        ELSE es[k - Len(events[p])]
    BY <1>1, <1>2, <1>6, <2>3
  <2> QED
    BY <1>1, <1>2, <2>1, <2>3, <2>4
<1> QED
  BY <1>1, <1>4, <1>5, <1>6, <1>7 DEF Queues, Shape, GoawayIsLast

\* The torrent handles an event: after a TorPeerGoaway there is none left.
LEMMA HandleEventKeeps ==
  ASSUME Queues, NEW p \in Peer, HandleEvent(p)
  PROVE  Queues'
<1>1. events[p] \in Seq(EventOf) /\ events[p] # <<>>
  BY DEF Queues, Shape, HandleEvent
<1>2. /\ Tail(events[p]) \in Seq(EventOf)
      /\ Len(Tail(events[p])) = Len(events[p]) - 1
      /\ \A k \in 1 .. Len(Tail(events[p])) : Tail(events[p])[k] = events[p][k + 1]
  BY <1>1
<1>3. /\ events' = [events EXCEPT ![p] = Tail(@)]
      /\ running' = running
      /\ peers' = IF events[p][1].type = "goaway" THEN peers \ {p} ELSE peers
  BY <1>1 DEF HandleEvent
<1>4. events' \in [Peer -> Seq(EventOf)]
  BY <1>2, <1>3 DEF Queues, Shape
<1>5. events'[p] = Tail(events[p]) /\ \A q \in Peer \ {p} : events'[q] = events[q]
  BY <1>3 DEF Queues, Shape
<1>6. CASE events[p][1].type = "goaway"
  <2>1. Len(events[p]) = 1 /\ p \notin running
    <3>1. 1 \in 1 .. Len(events[p])
      BY <1>1
    <3> QED
      BY <1>6, <3>1, Zenon DEF Queues, GoawayIsLast
  <2>2. events'[p] = <<>>
    <3>1. Tail(events[p]) \in Seq(EventOf) /\ Len(Tail(events[p])) = 0
      BY <1>2, <2>1
    <3>2. Tail(events[p]) = <<>>
      BY <3>1, NoneLeft, Zenon
    <3> QED
      BY <1>5, <3>2
  <2>3. running' \subseteq peers' /\ peers' \subseteq Peer
    BY <1>3, <1>6, <2>1 DEF Queues, Shape
  <2>4. GoawayIsLast'
    BY <1>3, <1>5, <1>6, <2>2 DEF Queues, GoawayIsLast
  <2> QED
    BY <1>4, <2>3, <2>4 DEF Queues, Shape, HandleEvent, peerVars
<1>7. CASE events[p][1].type # "goaway"
  <2>1. p \in peers
    BY <1>1 DEF Queues, GoawayIsLast
  <2>2. \A k \in 1 .. Len(events'[p]) :
           events'[p][k].type = "goaway" => k = Len(events'[p]) /\ p \notin running
    BY <1>1, <1>2, <1>5 DEF Queues, GoawayIsLast
  <2>3. GoawayIsLast'
    BY <1>3, <1>5, <1>7, <2>1, <2>2 DEF Queues, GoawayIsLast
  <2> QED
    BY <1>3, <1>4, <1>7, <2>3 DEF Queues, Shape, HandleEvent, peerVars
<1> QED
  BY <1>6, <1>7

-----------------------------------------------------------------------------
(* The steps of the torrent.                                               *)

LEMMA AddPeerInv ==
  ASSUME IndInv, NEW p \in Peer, AddPeer(p)
  PROVE  IndInv'
<1>1. Shape'
  BY DEF IndInv, Shape, AddPeer
<1>2. GoawayIsLast'
  BY DEF IndInv, Shape, GoawayIsLast, AddPeer
<1>3. Known'
  BY DEF IndInv, Shape, Known, InRange, InformedOnce, AddPeer
<1> QED
  BY <1>1, <1>2, <1>3 DEF IndInv, Known

LEMMA MetadataCompleteInv ==
  ASSUME IndInv, MetadataComplete
  PROVE  IndInv'
<1>1. Shape'
  BY DEF IndInv, Shape, MetadataComplete
<1>2. GoawayIsLast'
  BY DEF IndInv, GoawayIsLast, MetadataComplete
<1>3. Known'
  BY Zenon DEF IndInv, Shape, Known, InRange, InformedOnce, MetadataComplete
<1> QED
  BY <1>1, <1>2, <1>3 DEF IndInv, Known

LEMMA HandleEventInv ==
  ASSUME IndInv, NEW p \in Peer, HandleEvent(p)
  PROVE  IndInv'
<1>1. Queues'
  BY HandleEventKeeps DEF IndInv, Queues
<1>2. Known'
  BY DEF IndInv, Known, InRange, InformedOnce, HandleEvent, peerVars
<1> QED
  BY <1>1, <1>2 DEF IndInv, Known, Queues

-----------------------------------------------------------------------------
(* The steps of a peer: it ends, or changes its bitmap and says so.        *)

LEMMA PeerEnds ==
  ASSUME IndInv, NEW p \in running, Leave(p, bitmap[p]),
         UNCHANGED <<infoComplete, peers, isNil, bitmap>>,
         isSeed' \in [Peer -> BOOLEAN],
         informed' \in [Peer -> BOOLEAN], info' \in [Peer -> BOOLEAN],
         \A q \in Peer \ {p} : informed'[q] = informed[q] /\ info'[q] = info[q]
  PROVE  IndInv'
<1>1. p \in Peer /\ bitmap[p] \in SUBSET Bit
  BY DEF IndInv, Shape
<1>2. GoawayIsLast' /\ events' \in [Peer -> Seq(EventOf)] /\ running' = running \ {p}
  BY <1>1, LeaveKeeps DEF IndInv, Queues
<1>3. Shape'
  BY <1>2 DEF IndInv, Shape
<1>4. Known'
  BY <1>2 DEF IndInv, Shape, Known, InRange, InformedOnce
<1> QED
  BY <1>2, <1>3, <1>4 DEF IndInv, Known

LEMMA PeerTells ==
  ASSUME IndInv, NEW p \in running,
         UNCHANGED <<infoComplete, peers, running>>,
         isSeed' \in [Peer -> BOOLEAN], isNil' \in [Peer -> BOOLEAN],
         NEW b \in SUBSET Bit, bitmap' = [bitmap EXCEPT ![p] = b],
         informed' \in [Peer -> BOOLEAN], info' \in [Peer -> BOOLEAN],
         \A q \in Peer \ {p} : informed'[q] = informed[q] /\ info'[q] = info[q],
         info'[p] => b \subseteq Piece,
         infoComplete <=> info'[p] \/ informed'[p],
         ~(info'[p] /\ informed'[p]),
         GoawayIsLast', events' \in [Peer -> Seq(EventOf)]
  PROVE  IndInv'
<1>1. p \in Peer
  BY DEF IndInv, Shape
<1>2. Shape'
  BY <1>1, Zenon DEF IndInv, Shape
<1>3. Known'
  BY <1>1, Zenon DEF IndInv, Shape, Known, InRange, InformedOnce
<1> QED
  BY <1>2, <1>3 DEF IndInv, Known

LEMMA BitsArePlain ==
  ASSUME NEW p \in Peer, Shape, NEW S \in SUBSET Bit, NEW h \in BOOLEAN
  PROVE  /\ Plain(<<>>) /\ Plain(<<Bits(S, h)>>)
         /\ Plain(Retract(p)) /\ Plain(Retract(p) \o <<>>)
         /\ Plain(Retract(p) \o <<Bits(S, h)>>)
<1>1. \A T \in SUBSET Bit, g \in BOOLEAN :
         Bits(T, g) \in EventOf /\ Bits(T, g).type = "bits"
  BY DEF Bits, EventOf
<1>2. bitmap[p] \in SUBSET Bit
  BY DEF Shape
<1>3. Plain(<<>>)
  BY DEF Plain
<1>4. ASSUME NEW e \in EventOf, e.type = "bits"
      PROVE  Plain(<<e>>)
  BY <1>4 DEF Plain
<1>5. ASSUME NEW s, NEW t, Plain(s), Plain(t)
      PROVE  Plain(s \o t)
  <2>1. /\ s \o t \in Seq(EventOf)
        /\ Len(s \o t) = Len(s) + Len(t)
        /\ \A i \in 1 .. Len(s) + Len(t) :
              (s \o t)[i] = IF i <= Len(s) THEN s[i] ELSE t[i - Len(s)]
    BY <1>5 DEF Plain
  <2> QED
    BY <1>5, <2>1 DEF Plain
<1>6. Retract(p) = <<>> \/ Retract(p) = <<Bits(bitmap[p], FALSE)>>
  BY Zenon DEF Retract
<1>7. Plain(Retract(p)) /\ Plain(<<Bits(S, h)>>)
  BY <1>1, <1>2, <1>3, <1>4, <1>6, Zenon
<1> QED
  BY <1>3, <1>5, <1>7

\* A message changes the bitmap and is passed on.
LEMMA MessageTells ==
  ASSUME IndInv, NEW p \in running,
         UNCHANGED <<infoComplete, peers, running, informed, info>>,
         isSeed' \in [Peer -> BOOLEAN], isNil' \in [Peer -> BOOLEAN],
         NEW b \in SUBSET Bit, bitmap' = [bitmap EXCEPT ![p] = b],
         info[p] => b \subseteq Piece,
         NEW es, Plain(es), Tell(p, es)
  PROVE  IndInv'
<1>1. GoawayIsLast' /\ events' \in [Peer -> Seq(EventOf)]
  BY TellKeeps DEF IndInv, Queues, Plain
<1>2. p \in Peer /\ informed' \in [Peer -> BOOLEAN] /\ info' \in [Peer -> BOOLEAN]
  BY DEF IndInv, Shape
<1>3. (infoComplete <=> info[p] \/ informed[p]) /\ ~(info[p] /\ informed[p])
  BY DEF IndInv, InformedOnce
<1> QED
  BY <1>1, <1>2, <1>3, PeerTells, Zenon

\* A message changes neither.
LEMMA MessageIgnored ==
  ASSUME IndInv,
         UNCHANGED <<infoComplete, peers, running, informed, info, isNil, bitmap, events>>,
         isSeed' \in [Peer -> BOOLEAN]
  PROVE  IndInv'
  BY DEF IndInv, Shape, GoawayIsLast, InRange, InformedOnce

LEMMA HaveInv ==
  ASSUME IndInv, NEW p \in Peer, NEW i \in Bit, Have(p, i)
  PROVE  IndInv'
<1>1. /\ p \in running
      /\ UNCHANGED <<infoComplete, peers, informed, info, isSeed>>
  BY DEF Have, Message
<1>2. Shape
  BY DEF IndInv
<1>3. CASE OutOfRange(p, {i})
  BY <1>1, <1>2, <1>3, PeerEnds, Zenon DEF Have, Shape
<1>4. CASE ~OutOfRange(p, {i}) /\ i \in bitmap[p]
  BY <1>1, <1>2, <1>4, MessageIgnored DEF Have, Shape
<1>5. CASE ~OutOfRange(p, {i}) /\ i \notin bitmap[p]
  <2> DEFINE b == bitmap[p] \cup {i}
  <2>1. b \in SUBSET Bit /\ (info[p] => b \subseteq Piece)
    BY <1>1, <1>2, <1>5 DEF Shape, IndInv, InRange, OutOfRange
  <2>2. /\ isNil' = [isNil EXCEPT ![p] = FALSE]
        /\ bitmap' = [bitmap EXCEPT ![p] = b]
        /\ Tell(p, <<Bits({i}, TRUE)>>) /\ running' = running
    BY <1>5 DEF Have, SetBitmap
  <2>3. Plain(<<Bits({i}, TRUE)>>)
    BY <1>2, BitsArePlain, Zenon
  <2>4. isNil' \in [Peer -> BOOLEAN] /\ isSeed' \in [Peer -> BOOLEAN]
    BY <1>1, <1>2, <2>2 DEF Shape
  <2> HIDE DEF b
  <2> QED
    BY <1>1, <2>1, <2>2, <2>3, <2>4, MessageTells, Zenon
<1> QED
  BY <1>3, <1>4, <1>5

LEMMA BitfieldInv ==
  ASSUME IndInv, NEW p \in Peer, NEW S \in SUBSET Bit, Bitfield(p, S)
  PROVE  IndInv'
<1>1. /\ p \in running
      /\ UNCHANGED <<infoComplete, peers, informed, info, isSeed>>
  BY DEF Bitfield, Message
<1>2. Shape
  BY DEF IndInv
<1>3. CASE OutOfRange(p, S)
  BY <1>1, <1>2, <1>3, PeerEnds, Zenon DEF Bitfield, Shape
<1>4. CASE ~OutOfRange(p, S)
  <2>1. info[p] => S \subseteq Piece
    BY <1>4 DEF OutOfRange
  <2>2. /\ isNil' = [isNil EXCEPT ![p] = FALSE]
        /\ bitmap' = [bitmap EXCEPT ![p] = S]
        /\ Tell(p, Retract(p) \o <<Bits(S, TRUE)>>) /\ running' = running
    BY <1>4 DEF Bitfield, SetBitmap
  <2>3. Plain(Retract(p) \o <<Bits(S, TRUE)>>)
    BY <1>2, BitsArePlain, Zenon
  <2>4. isNil' \in [Peer -> BOOLEAN] /\ isSeed' \in [Peer -> BOOLEAN]
    BY <1>1, <1>2, <2>2 DEF Shape
  <2> QED
    BY <1>1, <2>1, <2>2, <2>3, <2>4, MessageTells, Zenon
<1> QED
  BY <1>3, <1>4

LEMMA HaveAllInv ==
  ASSUME IndInv, NEW p \in Peer, HaveAll(p)
  PROVE  IndInv'
<1> DEFINE b == IF info[p] THEN Piece ELSE {}
           es == Retract(p) \o IF info[p] THEN <<Bits(Piece, TRUE)>> ELSE <<>>
<1>1. /\ p \in running
      /\ UNCHANGED <<infoComplete, peers, running, informed, info>>
  BY DEF HaveAll, Message
<1>2. Shape
  BY DEF IndInv
<1>3. b \in SUBSET Bit /\ (info[p] => b \subseteq Piece)
  BY PiecesAreBits
<1>4. /\ isSeed' = [isSeed EXCEPT ![p] = TRUE]
      /\ isNil' = [isNil EXCEPT ![p] = ~info[p]]
      /\ bitmap' = [bitmap EXCEPT ![p] = b]
      /\ Tell(p, es)
  BY DEF HaveAll, Seed, SetBitmap
<1>5. isSeed' \in [Peer -> BOOLEAN] /\ isNil' \in [Peer -> BOOLEAN]
  BY <1>2, <1>4 DEF Shape
<1>6. Plain(es)
  BY <1>2, BitsArePlain, PiecesAreBits, Zenon
<1> HIDE DEF b, es
<1> QED
  BY <1>1, <1>3, <1>4, <1>5, <1>6, MessageTells, Zenon

LEMMA HaveNoneInv ==
  ASSUME IndInv, NEW p \in Peer, HaveNone(p)
  PROVE  IndInv'
<1>1. /\ p \in running
      /\ UNCHANGED <<infoComplete, peers, running, informed, info>>
  BY DEF HaveNone, Message
<1>2. Shape
  BY DEF IndInv
<1>3. /\ isSeed' = [isSeed EXCEPT ![p] = FALSE]
      /\ isNil' = [isNil EXCEPT ![p] = TRUE]
      /\ bitmap' = [bitmap EXCEPT ![p] = {}]
      /\ Tell(p, Retract(p))
  BY DEF HaveNone, Seed, SetBitmap
<1>4. isSeed' \in [Peer -> BOOLEAN] /\ isNil' \in [Peer -> BOOLEAN]
  BY <1>2, <1>3 DEF Shape
<1>5. Plain(Retract(p))
  BY <1>2, BitsArePlain, Zenon
<1>6. {} \in SUBSET Bit /\ {} \subseteq Piece
  OBVIOUS
<1> QED
  BY <1>1, <1>3, <1>4, <1>5, <1>6, MessageTells, Zenon

LEMMA DontHaveInv ==
  ASSUME IndInv, NEW p \in Peer, NEW i \in Bit, DontHave(p, i)
  PROVE  IndInv'
<1>1. /\ p \in running
      /\ UNCHANGED <<infoComplete, peers, informed, info>>
  BY DEF DontHave, Message
<1>2. Shape
  BY DEF IndInv
<1>3. isSeed' \in [Peer -> BOOLEAN]
  BY <1>2, Zenon DEF DontHave, Seed, Shape
<1>4. CASE (isSeed[p] /\ ~info[p]) \/ OutOfRange(p, {i})
  BY <1>1, <1>2, <1>3, <1>4, PeerEnds, Zenon DEF DontHave, Shape
<1>5. CASE ~(isSeed[p] /\ ~info[p]) /\ ~OutOfRange(p, {i}) /\ i \notin bitmap[p]
  BY <1>1, <1>3, <1>5, MessageIgnored, Zenon DEF DontHave
<1>6. CASE ~(isSeed[p] /\ ~info[p]) /\ ~OutOfRange(p, {i}) /\ i \in bitmap[p]
  <2> DEFINE b == bitmap[p] \ {i}
  <2>1. b \in SUBSET Bit /\ (info[p] => b \subseteq Piece)
    BY <1>1, <1>2 DEF Shape, IndInv, InRange
  <2>2. /\ isNil' = [isNil EXCEPT ![p] = FALSE]
        /\ bitmap' = [bitmap EXCEPT ![p] = b]
        /\ Tell(p, <<Bits({i}, FALSE)>>) /\ running' = running
    BY <1>6, Zenon DEF DontHave, SetBitmap
  <2>3. Plain(<<Bits({i}, FALSE)>>)
    BY <1>2, BitsArePlain, Zenon
  <2>4. isNil' \in [Peer -> BOOLEAN]
    BY <1>2, <2>2 DEF Shape
  <2> HIDE DEF b
  <2> QED
    BY <1>1, <1>3, <2>1, <2>2, <2>3, <2>4, MessageTells, Zenon
<1> QED
  BY <1>4, <1>5, <1>6

LEMMA NoteSeedInv ==
  ASSUME IndInv, NEW p \in Peer, NoteSeed(p)
  PROVE  IndInv'
<1>1. isSeed' \in [Peer -> BOOLEAN]
  BY DEF IndInv, Shape, NoteSeed, Seed
<1> QED
  BY <1>1, MessageIgnored DEF NoteSeed

LEMMA DisconnectInv ==
  ASSUME IndInv, NEW p \in Peer, Disconnect(p)
  PROVE  IndInv'
  BY PeerEnds, Zenon DEF Disconnect, peerVars, IndInv, Shape

\* The peer learns of the metadata.
LEMMA InformedInv ==
  ASSUME IndInv, NEW p \in Peer, Informed(p)
  PROVE  IndInv'
<1>1. /\ p \in running /\ informed[p] /\ ~info[p] /\ infoComplete
      /\ UNCHANGED <<infoComplete, peers, isSeed>>
      /\ informed' = [informed EXCEPT ![p] = FALSE]
      /\ info' = [info EXCEPT ![p] = TRUE]
  BY DEF Informed, IndInv, InformedOnce
<1>2. Shape
  BY DEF IndInv
<1>3. /\ informed' \in [Peer -> BOOLEAN] /\ info' \in [Peer -> BOOLEAN]
      /\ isSeed' \in [Peer -> BOOLEAN]
      /\ \A q \in Peer \ {p} : informed'[q] = informed[q] /\ info'[q] = info[q]
      /\ info'[p] /\ ~informed'[p]
  BY <1>1, <1>2 DEF Shape
<1>4. CASE Overlong(p)
  BY <1>1, <1>3, <1>4, PeerEnds, Zenon DEF Informed
<1>5. CASE ~Overlong(p) /\ ~isSeed[p]
  <2>1. bitmap[p] \in SUBSET Bit /\ bitmap[p] \subseteq Piece
    BY <1>2, <1>5 DEF Shape, Overlong
  <2>2. UNCHANGED <<isNil, bitmap, events, running>>
    BY <1>1, <1>5 DEF Informed
  <2>3. bitmap' = [bitmap EXCEPT ![p] = bitmap[p]] /\ isNil' \in [Peer -> BOOLEAN]
    BY <1>2, <2>2 DEF Shape
  <2>4. GoawayIsLast' /\ events' \in [Peer -> Seq(EventOf)]
    BY <1>1, <1>2, <2>2, Zenon DEF IndInv, Shape, GoawayIsLast
  <2> QED
    BY <1>1, <1>3, <2>1, <2>2, <2>3, <2>4, PeerTells, Zenon
<1>6. CASE ~Overlong(p) /\ isSeed[p]
  <2>1. /\ isNil' = [isNil EXCEPT ![p] = FALSE]
        /\ bitmap' = [bitmap EXCEPT ![p] = Piece]
        /\ Tell(p, <<Bits(Piece, TRUE)>>) /\ running' = running
    BY <1>1, <1>6 DEF Informed, SetBitmap
  <2>2. Plain(<<Bits(Piece, TRUE)>>)
    BY <1>2, BitsArePlain, PiecesAreBits, Zenon
  <2>3. GoawayIsLast' /\ events' \in [Peer -> Seq(EventOf)]
    BY <1>1, <2>1, <2>2, TellKeeps, Zenon DEF IndInv, Queues, Plain
  <2>4. isNil' \in [Peer -> BOOLEAN] /\ Piece \in SUBSET Bit
    BY <1>2, <2>1, PiecesAreBits DEF Shape
  <2> QED
    BY <1>1, <1>3, <2>1, <2>3, <2>4, PeerTells, Zenon
<1> QED
  BY <1>4, <1>5, <1>6

-----------------------------------------------------------------------------
LEMMA NextInv == IndInv /\ [Next]_vars => IndInv'
<1> SUFFICES ASSUME IndInv, [Next]_vars
             PROVE  IndInv'
  OBVIOUS
<1>1. CASE UNCHANGED vars
  BY <1>1 DEF vars, peerVars, IndInv, Shape, GoawayIsLast, InRange, InformedOnce
<1>2. CASE MetadataComplete
  BY <1>2, MetadataCompleteInv
<1>3. ASSUME NEW p \in Peer,
             \/ AddPeer(p) \/ HandleEvent(p) \/ Informed(p) \/ Disconnect(p)
             \/ HaveAll(p) \/ HaveNone(p) \/ NoteSeed(p)
      PROVE  IndInv'
  BY <1>3, AddPeerInv, HandleEventInv, InformedInv, DisconnectInv, HaveAllInv,
     HaveNoneInv, NoteSeedInv
<1>4. ASSUME NEW p \in Peer, NEW b \in Bit, Have(p, b) \/ DontHave(p, b)
      PROVE  IndInv'
  BY <1>4, HaveInv, DontHaveInv
<1>5. ASSUME NEW p \in Peer, NEW S \in SUBSET Bit, Bitfield(p, S)
      PROVE  IndInv'
  BY <1>5, BitfieldInv
<1> QED
  BY <1>1, <1>2, <1>3, <1>4, <1>5 DEF Next

\* The inductive invariant holds of every behaviour.
THEOREM Invariance == Spec => []IndInv
  BY InitInv, NextInv, PTL DEF Spec

\* Once its Info is set (handleEvent, PeerMetadataComplete) a peer's bitmap
\* holds pieces of the torrent only.
THEOREM NoPieceOutOfRange == Spec => []InRange
<1>1. IndInv => InRange
  BY DEF IndInv
<1> QED
  BY <1>1, Invariance, PTL

\* Every peer that runs is told of the metadata exactly once, when it is
\* created (TorAddPeer) or by PeerMetadataComplete.
THEOREM PeersAreInformedOnce == Spec => []InformedOnce
<1>1. IndInv => InformedOnce
  BY DEF IndInv
<1> QED
  BY <1>1, Invariance, PTL

-----------------------------------------------------------------------------
(* What the torrent believes of a peer, event after event.  A peer says of *)
(* a bit only that it was gained when it was not there, or lost when it    *)
(* was; so the torrent never counts below zero, and noteAvailable's n = 0  *)
(* is not met when a bit is lost.                                          *)

In(b, S) == IF b \in S THEN 1 ELSE 0

Said(e, how) == IF how = "gained" THEN Gained(e) ELSE Lost(e)
Where(es, b, how) == {k \in DOMAIN es : b \in Said(es[k], how)}
Count(es, b, how) == Cardinality(Where(es, b, how))

Has(p) == IF p \in running THEN bitmap[p] ELSE {}

\* An event e takes the torrent's view of a peer from v to w.
Learns(v, e, w) ==
    /\ Gained(e) \cap v = {} /\ Lost(e) \subseteq v
    /\ w = (v \cup Gained(e)) \ Lost(e)

\* The events es take it from f[0] to h, by way of f.
Leads(es, h, f) ==
    /\ f \in [0 .. Len(es) -> SUBSET Bit] /\ f[Len(es)] = h
    /\ \A k \in 1 .. Len(es) : Learns(f[k - 1], es[k], f[k])

Told0(es, h, b) == In(b, h) + Count(es, b, "lost") - Count(es, b, "gained")

Agrees(es, h, v) ==
    /\ \E f : Leads(es, h, f) /\ f[0] = v
    /\ \A b \in Bit : Told0(es, h, b) = In(b, v)

\* What the torrent believes p to have.
Seen(p) == {b \in Bit : Told(p, b) = 1}

NilIsEmpty == \A p \in Peer : isNil[p] => bitmap[p] = {}
Views == \A p \in Peer : Agrees(events[p], Has(p), Seen(p))
Counts == /\ available \in [Bit -> Nat]
          /\ \A b \in Bit : available[b] = Cardinality({p \in Peer : b \in Seen(p)})

LEMMA WhereIsFinite ==
    ASSUME NEW es \in Seq(EventOf), NEW b, NEW how
    PROVE  /\ IsFiniteSet(Where(es, b, how)) /\ Count(es, b, how) \in Nat
           /\ Count(es, b, how) = Cardinality(Where(es, b, how))
<1>1. DOMAIN es = 1 .. Len(es) /\ Len(es) \in Nat
  OBVIOUS
<1>2. IsFiniteSet(DOMAIN es)
  BY <1>1, FS_Interval
<1>3. IsFiniteSet(Where(es, b, how))
  BY <1>2, FS_Subset DEF Where
<1> QED BY <1>3, FS_CardinalityType DEF Count

\* An event is queued.
LEMMA CountAppend ==
    ASSUME NEW es \in Seq(EventOf), NEW e \in EventOf, NEW b, NEW how
    PROVE  Count(Append(es, e), b, how)
              = Count(es, b, how) + In(b, Said(e, how))
<1> DEFINE a == Append(es, e)
           n == Len(es)
<1>1. /\ a \in Seq(EventOf) /\ n \in Nat /\ DOMAIN a = 1 .. n + 1
      /\ DOMAIN es = 1 .. n /\ a[n + 1] = e /\ \A k \in 1 .. n : a[k] = es[k]
  OBVIOUS
<1>2. /\ IsFiniteSet(Where(es, b, how)) /\ Count(es, b, how) \in Nat
      /\ Count(es, b, how) = Cardinality(Where(es, b, how))
      /\ Count(a, b, how) = Cardinality(Where(a, b, how))
  BY <1>1, WhereIsFinite, Zenon
<1> HIDE DEF a, n
<1>3. n + 1 \notin Where(es, b, how)
  BY <1>1 DEF Where
<1>4. CASE b \in Said(e, how)
  <2>1. Where(a, b, how) = Where(es, b, how) \cup {n + 1}
    BY <1>1, <1>4 DEF Where
  <2>2. Count(a, b, how) = Count(es, b, how) + 1
    BY <1>2, <1>3, <2>1, FS_AddElement, Zenon
  <2> QED BY <1>4, <2>2 DEF In, a
<1>5. CASE b \notin Said(e, how)
  <2>1. Where(a, b, how) = Where(es, b, how)
    BY <1>1, <1>5 DEF Where
  <2> QED BY <1>2, <1>5, <2>1 DEF In, a
<1> QED BY <1>4, <1>5

\* An event is handled.
LEMMA CountTail ==
    ASSUME NEW es \in Seq(EventOf), es # <<>>, NEW b, NEW how
    PROVE  Count(es, b, how)
              = Count(Tail(es), b, how) + In(b, Said(Head(es), how))
<1> DEFINE t == Tail(es)
           n == Len(es)
           S == Where(t, b, how)
           T == Where(es, b, how)
           f == [k \in S |-> k + 1]
<1>1. /\ t \in Seq(EventOf) /\ n \in Nat \ {0} /\ DOMAIN t = 1 .. n - 1
      /\ DOMAIN es = 1 .. n /\ Head(es) = es[1] /\ \A k \in 1 .. n - 1 : t[k] = es[k + 1]
  OBVIOUS
<1>2. /\ IsFiniteSet(S) /\ Count(t, b, how) = Cardinality(S)
      /\ IsFiniteSet(T) /\ Count(es, b, how) = Cardinality(T)
      /\ Count(t, b, how) \in Nat /\ Count(es, b, how) \in Nat
  BY <1>1, WhereIsFinite, Zenon
<1> HIDE DEF t, n
<1>3. \A k \in S : k + 1 \in T \ {1} /\ k \in Int
  BY <1>1 DEF Where
<1>4. \A l \in T \ {1} : l - 1 \in S /\ l \in Int
  BY <1>1 DEF Where
<1>5. 1 \in T <=> b \in Said(Head(es), how)
  BY <1>1 DEF Where
<1> HIDE DEF S, T
<1>6. f \in Bijection(S, T \ {1})
  <2>1. f \in [S -> T \ {1}]
    BY <1>3
  <2>2. \A j, k \in S : f[j] = f[k] => j = k
    BY <1>3
  <2>3. \A l \in T \ {1} : f[l - 1] = l
    BY <1>4
  <2> HIDE DEF f
  <2> QED BY <1>4, <2>1, <2>2, <2>3 DEF Bijection, Injection, Surjection, IsInjective
<1>7. Cardinality(T \ {1}) = Cardinality(S)
  <2>1. ExistsBijection(S, T \ {1})
    BY <1>6, Zenon DEF ExistsBijection
  <2> QED BY <1>2, <2>1, FS_Bijection
<1>8. Cardinality(T \ {1}) = IF 1 \in T THEN Cardinality(T) - 1 ELSE Cardinality(T)
  BY <1>2, FS_RemoveElement, Zenon
<1> QED BY <1>2, <1>5, <1>7, <1>8 DEF In, t

\* An event changes a view by as much as it is counted.
LEMMA LearnsOne ==
    ASSUME NEW e, NEW v, NEW w, Learns(v, e, w), NEW b
    PROVE  /\ In(b, w) = In(b, v) + In(b, Said(e, "gained")) - In(b, Said(e, "lost"))
           /\ In(b, w) \in Int /\ In(b, v) \in Int
           /\ In(b, Said(e, "gained")) \in Int /\ In(b, Said(e, "lost")) \in Int
<1>1. Said(e, "gained") = Gained(e) /\ Said(e, "lost") = Lost(e)
  BY DEF Said
<1>2. Gained(e) \cap Lost(e) = {}
  BY DEF Lost
<1> QED BY <1>1, <1>2 DEF Learns, In

\* A peer that has h gains or loses bits, and says so.
LEMMA AgreesGrows ==
    ASSUME NEW es \in Seq(EventOf), NEW h, NEW v, Agrees(es, h, v),
           NEW e \in EventOf, NEW w \in SUBSET Bit, Learns(h, e, w)
    PROVE  Append(es, e) \in Seq(EventOf) /\ Agrees(Append(es, e), w, v)
<1> DEFINE a == Append(es, e)
           n == Len(es)
<1>1. PICK f : Leads(es, h, f) /\ f[0] = v
  BY DEF Agrees
<1>2. /\ a \in Seq(EventOf) /\ n \in Nat /\ Len(a) = n + 1
      /\ a[n + 1] = e /\ \A k \in 1 .. n : a[k] = es[k]
  OBVIOUS
<1> DEFINE g == [k \in 0 .. n + 1 |-> IF k = n + 1 THEN w ELSE f[k]]
<1>3. f \in [0 .. n -> SUBSET Bit] /\ f[n] = h
      /\ \A k \in 1 .. n : Learns(f[k - 1], es[k], f[k])
  BY <1>1 DEF Leads
<1> HIDE DEF a, n
<1>4. g \in [0 .. n + 1 -> SUBSET Bit] /\ g[n + 1] = w /\ g[0] = v
      /\ \A k \in 0 .. n : g[k] = f[k]
  BY <1>1, <1>2, <1>3
<1> HIDE DEF g
<1>5. \A k \in 1 .. n + 1 : Learns(g[k - 1], a[k], g[k])
  <2>1. ASSUME NEW k \in 1 .. n PROVE Learns(g[k - 1], a[k], g[k])
    <3>1. k \in 0 .. n /\ k - 1 \in 0 .. n
      BY <1>2
    <3>2. g[k - 1] = f[k - 1] /\ g[k] = f[k] /\ a[k] = es[k]
      BY <1>2, <1>4, <3>1
    <3> QED BY <1>3, <3>2
  <2>2. ASSUME NEW k, k = n + 1 PROVE Learns(g[k - 1], a[k], g[k])
    <3>1. k - 1 = n /\ n \in 0 .. n
      BY <1>2, <2>2
    <3>2. g[k - 1] = h /\ a[k] = e /\ g[k] = w
      BY <1>2, <1>3, <1>4, <2>2, <3>1
    <3> QED BY <3>2
  <2>3. \A k \in 1 .. n + 1 : k \in 1 .. n \/ k = n + 1
    BY <1>2
  <2> TAKE k \in 1 .. n + 1
  <2>4. CASE k \in 1 .. n
    BY <2>1, <2>4
  <2>5. CASE k = n + 1
    BY <2>2, <2>5
  <2> QED BY <2>3, <2>4, <2>5
<1>6. Leads(a, w, g)
  BY <1>2, <1>4, <1>5 DEF Leads
<1>7. ASSUME NEW b \in Bit PROVE Told0(a, w, b) = In(b, v)
  <2>1. Told0(es, h, b) = In(b, v)
    BY DEF Agrees
  <2> DEFINE lost == In(b, Said(e, "lost"))
             gained == In(b, Said(e, "gained"))
             had == In(b, h)
             has == In(b, w)
  <2>2. Count(a, b, "lost") = Count(es, b, "lost") + lost /\ Count(es, b, "lost") \in Nat
    BY CountAppend, WhereIsFinite, Zenon DEF a
  <2>3. Count(a, b, "gained") = Count(es, b, "gained") + gained /\ Count(es, b, "gained") \in Nat
    BY CountAppend, WhereIsFinite, Zenon DEF a
  <2>4. /\ has = had + gained - lost
        /\ has \in Int /\ had \in Int /\ gained \in Int /\ lost \in Int
    BY LearnsOne
  <2>5. /\ Told0(a, w, b) = has + Count(a, b, "lost") - Count(a, b, "gained")
        /\ Told0(es, h, b) = had + Count(es, b, "lost") - Count(es, b, "gained")
    BY Zenon DEF Told0
  <2> HIDE DEF lost, gained, had, has
  <2>6. Told0(a, w, b) = Told0(es, h, b)
    BY <2>2, <2>3, <2>4, <2>5
  <2> QED BY <2>1, <2>6, Zenon
<1> QED BY <1>2, <1>4, <1>6, <1>7 DEF Agrees, a

\* The torrent handles an event, and believes w in the place of v.
LEMMA AgreesShrinks ==
    ASSUME NEW es \in Seq(EventOf), es # <<>>, NEW h, NEW v, Agrees(es, h, v)
    PROVE  \E w \in SUBSET Bit : Learns(v, Head(es), w) /\ Agrees(Tail(es), h, w)
<1> DEFINE t == Tail(es)
           n == Len(es)
<1>1. PICK f : Leads(es, h, f) /\ f[0] = v
  BY DEF Agrees
<1>2. /\ t \in Seq(EventOf) /\ n \in Nat \ {0} /\ Len(t) = n - 1
      /\ Head(es) = es[1] /\ \A k \in 1 .. n - 1 : t[k] = es[k + 1] /\ Head(es) \in EventOf
  OBVIOUS
<1> DEFINE g == [k \in 0 .. n - 1 |-> f[k + 1]]
<1>3. f \in [0 .. n -> SUBSET Bit] /\ f[n] = h
      /\ \A k \in 1 .. n : Learns(f[k - 1], es[k], f[k])
  BY <1>1 DEF Leads
<1> HIDE DEF t, n
<1>4. g \in [0 .. n - 1 -> SUBSET Bit] /\ g[n - 1] = h
      /\ \A k \in 0 .. n - 1 : g[k] = f[k + 1]
  BY <1>2, <1>3
<1> HIDE DEF g
<1>5. \A k \in 1 .. n - 1 : Learns(g[k - 1], t[k], g[k])
  <2> TAKE k \in 1 .. n - 1
  <2>1. k - 1 \in 0 .. n - 1 /\ k \in 0 .. n - 1 /\ k - 1 + 1 = k
        /\ k + 1 \in 1 .. n /\ k + 1 - 1 = k
    BY <1>2
  <2>2. g[k - 1] = f[k] /\ g[k] = f[k + 1] /\ t[k] = es[k + 1]
    BY <1>2, <1>4, <2>1
  <2>3. Learns(f[k + 1 - 1], es[k + 1], f[k + 1])
    BY <1>3, <2>1
  <2> QED BY <2>1, <2>2, <2>3
<1>6. Leads(t, h, g)
  BY <1>2, <1>4, <1>5 DEF Leads
<1>7. Learns(v, Head(es), g[0]) /\ g[0] \in SUBSET Bit
  <2>1. 1 \in 1 .. n /\ 1 - 1 = 0 /\ 0 \in 0 .. n - 1 /\ 0 + 1 = 1
    BY <1>2
  <2>2. Learns(f[1 - 1], es[1], f[1])
    BY <1>3, <2>1
  <2>3. g[0] = f[1] /\ g[0] \in SUBSET Bit
    BY <1>4, <2>1
  <2> QED BY <1>1, <1>2, <2>1, <2>2, <2>3
<1>8. ASSUME NEW b \in Bit PROVE Told0(t, h, b) = In(b, g[0])
  <2> DEFINE e == Head(es)
             lost == In(b, Said(e, "lost"))
             gained == In(b, Said(e, "gained"))
             had == In(b, v)
             has == In(b, g[0])
             hn == In(b, h)
  <2>1. Told0(es, h, b) = had
    BY DEF Agrees
  <2>2. Count(es, b, "lost") = Count(t, b, "lost") + lost /\ Count(t, b, "lost") \in Nat
    BY <1>2, CountTail, WhereIsFinite, Zenon DEF t
  <2>3. Count(es, b, "gained") = Count(t, b, "gained") + gained /\ Count(t, b, "gained") \in Nat
    BY <1>2, CountTail, WhereIsFinite, Zenon DEF t
  <2>4. /\ has = had + gained - lost
        /\ has \in Int /\ had \in Int /\ gained \in Int /\ lost \in Int
    <3>1. e \in EventOf
      OBVIOUS
    <3> QED BY <1>7, <3>1, LearnsOne
  <2>5. /\ Told0(t, h, b) = hn + Count(t, b, "lost") - Count(t, b, "gained")
        /\ Told0(es, h, b) = hn + Count(es, b, "lost") - Count(es, b, "gained")
    BY Zenon DEF Told0
  <2>6. hn \in Int
    BY DEF In
  <2> HIDE DEF lost, gained, had, has, hn, e
  <2>7. Told0(t, h, b) = has
    BY <2>1, <2>2, <2>3, <2>4, <2>5, <2>6
  <2> QED BY <2>7, Zenon DEF has
<1>9. Agrees(t, h, g[0])
  BY <1>6, <1>8 DEF Agrees
<1> QED BY <1>7, <1>9 DEF t

-----------------------------------------------------------------------------
(* The torrent's counts, step by step.                                     *)

Exact == NilIsEmpty /\ Views /\ Counts

\* Told, by what the peer has; before a step and after it.
LEMMA ToldIs ==
    ASSUME NEW p, NEW b
    PROVE  /\ Told(p, b) = Told0(events[p], Has(p), b)
           /\ Told(p, b)' = Told0(events'[p], Has(p)', b)
<1>1. Told(p, b) = Told0(events[p], Has(p), b)
  <2>1. (IF p \in running /\ b \in bitmap[p] THEN 1 ELSE 0) = In(b, Has(p))
    BY DEF In, Has
  <2>2. /\ Cardinality({k \in DOMAIN events[p] : b \in Lost(events[p][k])})
              = Count(events[p], b, "lost")
        /\ Cardinality({k \in DOMAIN events[p] : b \in Gained(events[p][k])})
              = Count(events[p], b, "gained")
    BY DEF Count, Where, Said
  <2> QED BY <2>1, <2>2, Zenon DEF Told, Told0
<1>2. Told(p, b)' = Told0(events'[p], Has(p)', b)
  <2>1. (IF p \in running' /\ b \in bitmap'[p] THEN 1 ELSE 0) = In(b, Has(p)')
    BY DEF In, Has
  <2>2. /\ Cardinality({k \in DOMAIN events'[p] : b \in Lost(events'[p][k])})
              = Count(events'[p], b, "lost")
        /\ Cardinality({k \in DOMAIN events'[p] : b \in Gained(events'[p][k])})
              = Count(events'[p], b, "gained")
    BY DEF Count, Where, Said
  <2> QED BY <2>1, <2>2, Zenon DEF Told, Told0
<1> QED BY <1>1, <1>2

\* One peer p changes what it has and says so, or says nothing and stays.
LEMMA PeerExact ==
    ASSUME Exact, NEW p \in Peer, available' = available, NilIsEmpty',
           Agrees(events'[p], Has(p)', Seen(p)),
           \A q \in Peer \ {p} : events'[q] = events[q] /\ Has(q)' = Has(q)
    PROVE  Exact'
<1>1. Seen(p)' = Seen(p)
  <2>1. Seen(p) \in SUBSET Bit
    BY DEF Seen
  <2>2. ASSUME NEW b \in Bit PROVE Told(p, b)' = In(b, Seen(p))
    <3>1. Told(p, b)' = Told0(events'[p], Has(p)', b)
      BY ToldIs
    <3> QED BY <3>1, Zenon DEF Agrees
  <2> QED BY <2>1, <2>2 DEF Seen, In
<1>2. ASSUME NEW q \in Peer \ {p} PROVE Seen(q)' = Seen(q)
  <2>1. \A b \in Bit : Told(q, b)' = Told0(events'[q], Has(q)', b)
    BY ToldIs
  <2>2. \A b \in Bit : Told(q, b)' = Told(q, b)
    BY <2>1, ToldIs
  <2> QED BY <2>2 DEF Seen
<1>3. \A q \in Peer : Seen(q)' = Seen(q)
  BY <1>1, <1>2
<1>4. Views'
  BY <1>3 DEF Exact, Views
<1>5. Counts'
  BY <1>3 DEF Exact, Counts
<1> QED BY <1>4, <1>5 DEF Exact

LEMMA ConcatOne ==
    ASSUME NEW s \in Seq(EventOf), NEW e \in EventOf
    PROVE  s \o <<e>> = Append(s, e)
OBVIOUS

LEMMA ConcatTwo ==
    ASSUME NEW s \in Seq(EventOf), NEW d \in EventOf, NEW e \in EventOf
    PROVE  /\ s \o <<d, e>> = Append(Append(s, d), e)
           /\ s \o (<<d>> \o <<e>>) = Append(Append(s, d), e)
OBVIOUS

LEMMA ConcatNone ==
    ASSUME NEW s \in Seq(EventOf)
    PROVE  s \o <<>> = s
OBVIOUS

\* The events of this module.
LEMMA EventFacts ==
    ASSUME NEW S \in SUBSET Bit
    PROVE  /\ Bits(S, TRUE) \in EventOf /\ Bits(S, FALSE) \in EventOf /\ Goaway \in EventOf
           /\ Gained(Bits(S, TRUE)) = S /\ Lost(Bits(S, TRUE)) = {}
           /\ Gained(Bits(S, FALSE)) = {} /\ Lost(Bits(S, FALSE)) = S
           /\ Gained(Goaway) = {} /\ Lost(Goaway) = {}
BY DEF Bits, Goaway, EventOf, Gained, Lost

\* What is known of a peer that runs.
LEMMA RunningFacts ==
    ASSUME IndInv, Exact, NEW p \in running
    PROVE  /\ p \in Peer /\ events[p] \in Seq(EventOf) /\ bitmap[p] \in SUBSET Bit
           /\ Has(p) = bitmap[p] /\ Agrees(events[p], bitmap[p], Seen(p))
           /\ isNil[p] => bitmap[p] = {}
<1>1. p \in Peer /\ events[p] \in Seq(EventOf) /\ bitmap[p] \in SUBSET Bit
  BY DEF IndInv, Shape
<1>2. Has(p) = bitmap[p]
  BY DEF Has
<1> QED BY <1>1, <1>2 DEF Exact, Views, NilIsEmpty

\* A peer that ends takes back what it has.
LEMMA LeaveExact ==
    ASSUME IndInv, Exact, NEW p \in running, Leave(p, bitmap[p]),
           UNCHANGED <<available, isNil, bitmap>>
    PROVE  Exact'
<1> DEFINE s == events[p]
           d == Bits(bitmap[p], FALSE)
<1>1. /\ p \in Peer /\ s \in Seq(EventOf) /\ bitmap[p] \in SUBSET Bit
      /\ Agrees(s, bitmap[p], Seen(p))
  BY RunningFacts
<1>2. /\ d \in EventOf /\ Goaway \in EventOf
      /\ Gained(d) = {} /\ Lost(d) = bitmap[p] /\ Gained(Goaway) = {} /\ Lost(Goaway) = {}
  BY <1>1, EventFacts, Zenon
<1>3. /\ running' = running \ {p}
      /\ events' = [events EXCEPT ![p] = s \o <<d, Goaway>>]
  BY DEF Leave, Tell
<1> HIDE DEF s, d
<1>4. Learns(bitmap[p], d, {}) /\ Learns({}, Goaway, {})
  BY <1>2 DEF Learns
<1>5. Append(s, d) \in Seq(EventOf) /\ Agrees(Append(s, d), {}, Seen(p))
  BY <1>1, <1>2, <1>4, AgreesGrows
<1>6. Agrees(Append(Append(s, d), Goaway), {}, Seen(p))
  BY <1>2, <1>4, <1>5, AgreesGrows, Zenon
<1>7. events'[p] = Append(Append(s, d), Goaway) /\ \A q \in Peer \ {p} : events'[q] = events[q]
  <2>1. s \o <<d, Goaway>> = Append(Append(s, d), Goaway)
    BY <1>1, <1>2, ConcatTwo
  <2>2. events \in [Peer -> Seq(EventOf)]
    BY DEF IndInv, Shape
  <2> QED BY <1>1, <1>3, <2>1, <2>2
<1>8. Has(p)' = {} /\ \A q \in Peer \ {p} : Has(q)' = Has(q)
  BY <1>3 DEF Has
<1>9. NilIsEmpty'
  BY DEF Exact, NilIsEmpty
<1> QED BY <1>1, <1>6, <1>7, <1>8, <1>9, PeerExact, Zenon

\* A peer that runs changes its bitmap and says so.
LEMMA TellExact ==
    ASSUME IndInv, Exact, NEW p \in running, UNCHANGED <<available, running>>,
           NEW w \in SUBSET Bit, NEW nil, SetBitmap(p, nil, w), nil => w = {},
           NEW es, Tell(p, es), Agrees(events[p] \o es, w, Seen(p))
    PROVE  Exact'
<1>1. /\ p \in Peer /\ events \in [Peer -> Seq(EventOf)]
      /\ isNil \in [Peer -> BOOLEAN] /\ bitmap \in [Peer -> SUBSET Bit]
  BY DEF IndInv, Shape
<1>2. events'[p] = events[p] \o es /\ \A q \in Peer \ {p} : events'[q] = events[q]
  BY <1>1 DEF Tell
<1>3. bitmap'[p] = w /\ \A q \in Peer \ {p} : bitmap'[q] = bitmap[q] /\ isNil'[q] = isNil[q]
  BY <1>1 DEF SetBitmap
<1>4. Has(p)' = w /\ \A q \in Peer \ {p} : Has(q)' = Has(q)
  BY <1>3 DEF Has
<1>5. isNil'[p] = nil
  BY <1>1, Zenon DEF SetBitmap
<1>6. NilIsEmpty'
  <2>1. ASSUME NEW q \in Peer, isNil'[q] PROVE bitmap'[q] = {}
    <3>1. CASE q = p
      BY <1>3, <1>5, <2>1, <3>1, Zenon
    <3>2. CASE q # p
      BY <1>3, <2>1, <3>2, Zenon DEF Exact, NilIsEmpty
    <3> QED BY <3>1, <3>2
  <2> QED BY <2>1 DEF NilIsEmpty
<1> QED BY <1>1, <1>2, <1>4, <1>6, PeerExact, Zenon

\* Nothing changes that the torrent counts.
LEMMA SameExact ==
    ASSUME Exact, UNCHANGED <<available, isNil, bitmap, running, events>>
    PROVE  Exact'
<1>1. \A p \in Peer : Seen(p)' = Seen(p) /\ Has(p)' = Has(p)
  BY DEF Seen, Told, Has
<1>2. Views'
  BY <1>1 DEF Exact, Views
<1>3. Counts'
  BY <1>1 DEF Exact, Counts
<1> QED BY <1>2, <1>3 DEF Exact, NilIsEmpty

\* Before it changes the whole of its bitmap a peer takes it back.
LEMMA RetractAgrees ==
    ASSUME IndInv, Exact, NEW p \in running
    PROVE  /\ Retract(p) \in Seq(EventOf) /\ events[p] \o Retract(p) \in Seq(EventOf)
           /\ Agrees(events[p] \o Retract(p), {}, Seen(p))
           /\ \A e \in EventOf : events[p] \o (Retract(p) \o <<e>>)
                                    = Append(events[p] \o Retract(p), e)
           /\ events[p] \o (Retract(p) \o <<>>) = events[p] \o Retract(p)
<1> DEFINE s == events[p]
           d == Bits(bitmap[p], FALSE)
<1>1. /\ s \in Seq(EventOf) /\ bitmap[p] \in SUBSET Bit
      /\ Agrees(s, bitmap[p], Seen(p)) /\ (isNil[p] => bitmap[p] = {})
  BY RunningFacts
<1>2. d \in EventOf /\ Gained(d) = {} /\ Lost(d) = bitmap[p]
  BY <1>1, EventFacts, Zenon
<1>3. Retract(p) = IF isNil[p] THEN <<>> ELSE <<d>>
  BY DEF Retract
<1> HIDE DEF s, d
<1>4. CASE isNil[p]
  <2>1. Retract(p) = <<>> /\ s \o Retract(p) = s
    BY <1>1, <1>3, <1>4, ConcatNone
  <2>2. \A e \in EventOf : <<>> \o <<e>> = <<e>> /\ s \o <<e>> = Append(s, e)
    BY <1>1
  <2>3. <<>> \o <<>> = <<>>
    OBVIOUS
  <2>4. \A e \in EventOf : s \o (Retract(p) \o <<e>>) = Append(s \o Retract(p), e)
    BY <2>1, <2>2
  <2>5. s \o (Retract(p) \o <<>>) = s \o Retract(p)
    BY <2>1, <2>3
  <2>6. Agrees(s \o Retract(p), {}, Seen(p))
    BY <1>1, <1>4, <2>1, Zenon
  <2>7. Retract(p) \in Seq(EventOf)
    BY <2>1
  <2> QED BY <1>1, <2>1, <2>4, <2>5, <2>6, <2>7 DEF s
<1>5. CASE ~isNil[p]
  <2>1. Retract(p) = <<d>> /\ s \o Retract(p) = Append(s, d)
    BY <1>1, <1>2, <1>3, <1>5, ConcatOne
  <2>2. \A e \in EventOf : s \o (<<d>> \o <<e>>) = Append(Append(s, d), e)
    BY <1>1, <1>2, ConcatTwo, Zenon
  <2>3. <<d>> \o <<>> = <<d>>
    BY <1>2, ConcatNone
  <2>4. Learns(bitmap[p], d, {})
    BY <1>2 DEF Learns
  <2>5. Append(s, d) \in Seq(EventOf) /\ Agrees(Append(s, d), {}, Seen(p))
    BY <1>1, <1>2, <2>4, AgreesGrows
  <2>6. \A e \in EventOf : s \o (Retract(p) \o <<e>>) = Append(s \o Retract(p), e)
    BY <2>1, <2>2, Zenon
  <2>7. s \o (Retract(p) \o <<>>) = s \o Retract(p)
    BY <2>1, <2>3
  <2>8. Retract(p) \in Seq(EventOf)
    BY <1>2, <2>1
  <2> QED BY <2>1, <2>5, <2>6, <2>7, <2>8, Zenon DEF s
<1> QED BY <1>4, <1>5, Zenon

\* The torrent runs a peer that has nothing and has said nothing.
LEMMA AddPeerExact ==
    ASSUME IndInv, Exact, NEW p \in Peer, AddPeer(p)
    PROVE  Exact'
<1>1. /\ p \notin peers /\ running' = running \cup {p}
      /\ bitmap' = [bitmap EXCEPT ![p] = {}] /\ isNil' = [isNil EXCEPT ![p] = TRUE]
      /\ UNCHANGED <<available, events>>
  BY DEF AddPeer
<1>2. p \notin running /\ bitmap \in [Peer -> SUBSET Bit] /\ isNil \in [Peer -> BOOLEAN]
  BY <1>1 DEF IndInv, Shape
<1>3. \A q \in Peer : Has(q)' = Has(q)
  BY <1>1, <1>2 DEF Has
<1>4. NilIsEmpty'
  BY <1>1, <1>2 DEF Exact, NilIsEmpty
<1>5. Agrees(events'[p], Has(p)', Seen(p))
  BY <1>1, <1>3 DEF Exact, Views
<1> QED BY <1>1, <1>3, <1>4, <1>5, PeerExact, Zenon

\* The torrent handles an event: noteAvailable finds a count that it can lower.
LEMMA HandleEventExact ==
    ASSUME IndInv, Exact, NEW p \in Peer, HandleEvent(p)
    PROVE  Exact'
<1> DEFINE e == Head(events[p])
           S(b) == {q \in Peer : b \in Seen(q)}
<1>1. events \in [Peer -> Seq(EventOf)] /\ events[p] \in Seq(EventOf) /\ events[p] # <<>>
  BY DEF IndInv, Shape, HandleEvent
<1>2. /\ events'[p] = Tail(events[p]) /\ \A q \in Peer \ {p} : events'[q] = events[q]
      /\ UNCHANGED <<running, bitmap, isNil>>
  BY <1>1 DEF HandleEvent, peerVars
<1>3. available' = [b \in Bit |-> IF b \in e.bits THEN noteAvailable(available[b], e.have)
                                                  ELSE available[b]]
  BY DEF HandleEvent
<1>4. \A q \in Peer : Has(q)' = Has(q)
  BY <1>2 DEF Has
<1>5. Agrees(events[p], Has(p), Seen(p))
  BY DEF Exact, Views
<1>6. PICK w \in SUBSET Bit : /\ Learns(Seen(p), e, w)
                              /\ Agrees(Tail(events[p]), Has(p), w)
  BY <1>1, <1>5, AgreesShrinks
<1>7. e \in EventOf
  BY <1>1
<1> HIDE DEF e
<1>8. Seen(p)' = w
  <2>1. \A b \in Bit : Told(p, b)' = Told0(events'[p], Has(p)', b)
    BY ToldIs
  <2>2. \A b \in Bit : Told(p, b)' = In(b, w)
    BY <1>2, <1>4, <1>6, <2>1 DEF Agrees
  <2> QED BY <2>2 DEF Seen, In
<1>9. ASSUME NEW q \in Peer \ {p} PROVE Seen(q)' = Seen(q)
  <2>1. \A b \in Bit : Told(q, b)' = Told(q, b)
    BY <1>2, <1>4, ToldIs
  <2> QED BY <2>1 DEF Seen
<1>10. Views'
  <2> SUFFICES ASSUME NEW q \in Peer PROVE Agrees(events'[q], Has(q)', Seen(q)')
    BY DEF Views
  <2>1. CASE q = p
    BY <1>2, <1>4, <1>6, <1>8, <2>1
  <2>2. CASE q # p
    BY <1>2, <1>4, <1>9, <2>2 DEF Exact, Views
  <2> QED BY <2>1, <2>2
<1>11. ASSUME NEW b \in Bit
       PROVE  available'[b] \in Nat /\ available'[b] = Cardinality(S(b)')
  <2> DEFINE T == S(b)'
             R == S(b)
  <2>1. IsFiniteSet(R) /\ Cardinality(R) \in Nat /\ available[b] = Cardinality(R)
    <3>1. IsFiniteSet(R)
      BY AvailabilityAssumption, FS_Subset
    <3>2. available[b] = Cardinality(R)
      BY DEF Exact, Counts
    <3> QED BY <3>1, <3>2, FS_CardinalityType
  <2>2. \A q \in Peer \ {p} : q \in T <=> q \in R
    BY <1>9
  <2>3. (p \in R <=> b \in Seen(p)) /\ (p \in T <=> b \in w) /\ R \subseteq Peer /\ T \subseteq Peer
    BY <1>8
  <2> HIDE DEF T, R
  <2>4. CASE b \in e.bits /\ e.have
    <3>1. b \notin Seen(p) /\ b \in w
      BY <1>6, <2>4 DEF Learns, Gained, Lost
    <3>2. T = R \cup {p} /\ p \notin R
      BY <2>2, <2>3, <3>1
    <3>3. Cardinality(T) = Cardinality(R) + 1
      BY <2>1, <3>2, FS_AddElement, Zenon
    <3>4. available'[b] = available[b] + 1
      BY <1>3, <2>4 DEF noteAvailable
    <3> QED BY <2>1, <3>3, <3>4 DEF T
  <2>5. CASE b \in e.bits /\ ~e.have
    <3>1. b \in Seen(p) /\ b \notin w
      BY <1>6, <2>5 DEF Learns, Gained, Lost
    <3>2. T = R \ {p} /\ p \in R
      BY <2>2, <2>3, <3>1
    <3>3. Cardinality(T) = Cardinality(R) - 1 /\ Cardinality(T) \in Nat
      BY <2>1, <3>2, FS_RemoveElement, FS_CardinalityType
    <3>4. available'[b] = available[b] - 1
      <4>1. available[b] # 0
        BY <2>1, <3>3
      <4> QED BY <1>3, <2>5, <4>1 DEF noteAvailable
    <3> QED BY <2>1, <3>3, <3>4 DEF T
  <2>6. CASE b \notin e.bits
    <3>1. b \in Seen(p) <=> b \in w
      BY <1>6, <2>6 DEF Learns, Gained, Lost
    <3>2. T = R
      BY <2>2, <2>3, <3>1
    <3>3. available'[b] = available[b]
      BY <1>3, <2>6
    <3> QED BY <2>1, <3>2, <3>3 DEF T
  <2> QED BY <2>4, <2>5, <2>6
<1>12. available' \in [Bit -> Nat]
  BY <1>3, <1>11, Zenon
<1>13. Counts'
  BY <1>11, <1>12 DEF Counts
<1> QED BY <1>2, <1>10, <1>13 DEF Exact, NilIsEmpty

\* A peer that runs gains or loses some bits and says so with the event e.
LEMMA ChangeExact ==
    ASSUME IndInv, Exact, NEW p \in running, UNCHANGED <<available, running>>,
           NEW w \in SUBSET Bit, SetBitmap(p, FALSE, w),
           NEW e \in EventOf, Learns(bitmap[p], e, w), Tell(p, <<e>>)
    PROVE  Exact'
<1>1. events[p] \in Seq(EventOf) /\ Agrees(events[p], bitmap[p], Seen(p))
  BY RunningFacts
<1>2. Agrees(Append(events[p], e), w, Seen(p))
  BY <1>1, AgreesGrows
<1>3. Agrees(events[p] \o <<e>>, w, Seen(p))
  BY <1>1, <1>2, ConcatOne, Zenon
<1> QED BY <1>3, TellExact, Zenon

\* A peer that runs takes back what it has, and says that it has w.
LEMMA ReplaceExact ==
    ASSUME IndInv, Exact, NEW p \in running, UNCHANGED <<available, running>>,
           NEW w \in SUBSET Bit, SetBitmap(p, FALSE, w),
           Tell(p, Retract(p) \o <<Bits(w, TRUE)>>)
    PROVE  Exact'
<1> DEFINE s == events[p] \o Retract(p)
           e == Bits(w, TRUE)
<1>1. e \in EventOf /\ Gained(e) = w /\ Lost(e) = {}
  BY EventFacts, Zenon
<1>2. /\ s \in Seq(EventOf) /\ Agrees(s, {}, Seen(p))
      /\ events[p] \o (Retract(p) \o <<e>>) = Append(s, e)
  BY <1>1, RetractAgrees, Zenon
<1> HIDE DEF s, e
<1>3. Learns({}, e, w)
  BY <1>1 DEF Learns
<1>4. Agrees(Append(s, e), w, Seen(p))
  BY <1>1, <1>2, <1>3, AgreesGrows
<1>5. Agrees(events[p] \o (Retract(p) \o <<e>>), w, Seen(p))
  BY <1>2, <1>4, Zenon
<1> QED BY <1>5, TellExact, Zenon DEF e

\* A peer that runs takes back what it has.
LEMMA ForgetExact ==
    ASSUME IndInv, Exact, NEW p \in running, UNCHANGED <<available, running>>,
           SetBitmap(p, TRUE, {}),
           Tell(p, Retract(p)) \/ Tell(p, Retract(p) \o <<>>)
    PROVE  Exact'
<1>1. /\ Agrees(events[p] \o Retract(p), {}, Seen(p))
      /\ Agrees(events[p] \o (Retract(p) \o <<>>), {}, Seen(p))
  BY RetractAgrees, Zenon
<1>2. {} \in SUBSET Bit
  OBVIOUS
<1> QED BY <1>1, <1>2, TellExact, Zenon

LEMMA HaveExact ==
    ASSUME IndInv, Exact, NEW p \in Peer, NEW i \in Bit, Have(p, i)
    PROVE  Exact'
<1>1. p \in running /\ available' = available
  BY DEF Have, Message
<1>2. CASE OutOfRange(p, {i})
  BY <1>1, <1>2, LeaveExact DEF Have
<1>3. CASE ~OutOfRange(p, {i}) /\ i \in bitmap[p]
  BY <1>1, <1>3, SameExact DEF Have
<1>4. CASE ~OutOfRange(p, {i}) /\ i \notin bitmap[p]
  <2> DEFINE e == Bits({i}, TRUE)
             w == bitmap[p] \cup {i}
  <2>1. SetBitmap(p, FALSE, w) /\ Tell(p, <<e>>) /\ running' = running
    BY <1>4, Zenon DEF Have
  <2>2. e \in EventOf /\ Gained(e) = {i} /\ Lost(e) = {}
    BY EventFacts, {i} \in SUBSET Bit, Zenon
  <2>3. w \in SUBSET Bit
    BY <1>1, RunningFacts
  <2> HIDE DEF e
  <2>4. Learns(bitmap[p], e, w)
    BY <1>4, <2>2 DEF Learns
  <2> QED BY <1>1, <2>1, <2>2, <2>3, <2>4, ChangeExact, Zenon
<1> QED BY <1>2, <1>3, <1>4

LEMMA DontHaveExact ==
    ASSUME IndInv, Exact, NEW p \in Peer, NEW i \in Bit, DontHave(p, i)
    PROVE  Exact'
<1>1. p \in running /\ available' = available
  BY DEF DontHave, Message
<1>2. CASE (isSeed[p] /\ ~info[p]) \/ OutOfRange(p, {i})
  BY <1>1, <1>2, LeaveExact, Zenon DEF DontHave
<1>3. CASE ~(isSeed[p] /\ ~info[p]) /\ ~OutOfRange(p, {i}) /\ i \notin bitmap[p]
  BY <1>1, <1>3, SameExact, Zenon DEF DontHave
<1>4. CASE ~(isSeed[p] /\ ~info[p]) /\ ~OutOfRange(p, {i}) /\ i \in bitmap[p]
  <2> DEFINE e == Bits({i}, FALSE)
             w == bitmap[p] \ {i}
  <2>1. SetBitmap(p, FALSE, w) /\ Tell(p, <<e>>) /\ running' = running
    BY <1>4, Zenon DEF DontHave
  <2>2. e \in EventOf /\ Gained(e) = {} /\ Lost(e) = {i}
    BY EventFacts, {i} \in SUBSET Bit, Zenon
  <2>3. w \in SUBSET Bit
    BY <1>1, RunningFacts
  <2> HIDE DEF e
  <2>4. Learns(bitmap[p], e, w)
    BY <1>4, <2>2 DEF Learns
  <2> QED BY <1>1, <2>1, <2>2, <2>3, <2>4, ChangeExact, Zenon
<1> QED BY <1>2, <1>3, <1>4

LEMMA BitfieldExact ==
    ASSUME IndInv, Exact, NEW p \in Peer, NEW S \in SUBSET Bit, Bitfield(p, S)
    PROVE  Exact'
<1>1. p \in running /\ available' = available
  BY DEF Bitfield, Message
<1>2. CASE OutOfRange(p, S)
  BY <1>1, <1>2, LeaveExact DEF Bitfield
<1>3. CASE ~OutOfRange(p, S)
  BY <1>1, <1>3, ReplaceExact, Zenon DEF Bitfield
<1> QED BY <1>2, <1>3

LEMMA HaveAllExact ==
    ASSUME IndInv, Exact, NEW p \in Peer, HaveAll(p)
    PROVE  Exact'
<1>1. p \in running /\ UNCHANGED <<available, running>>
  BY DEF HaveAll, Message
<1>2. CASE info[p]
  <2>1. SetBitmap(p, FALSE, Piece) /\ Tell(p, Retract(p) \o <<Bits(Piece, TRUE)>>)
    BY <1>2, Zenon DEF HaveAll, SetBitmap
  <2>2. Piece \in SUBSET Bit
    BY PiecesAreBits
  <2> QED BY <1>1, <2>1, <2>2, ReplaceExact, Zenon
<1>3. CASE ~info[p]
  <2>1. SetBitmap(p, TRUE, {}) /\ Tell(p, Retract(p) \o <<>>)
    BY <1>3, Zenon DEF HaveAll, SetBitmap
  <2> QED BY <1>1, <2>1, ForgetExact, Zenon
<1> QED BY <1>2, <1>3

LEMMA HaveNoneExact ==
    ASSUME IndInv, Exact, NEW p \in Peer, HaveNone(p)
    PROVE  Exact'
<1>1. p \in running /\ UNCHANGED <<available, running>>
  BY DEF HaveNone, Message
<1> QED BY <1>1, ForgetExact, Zenon DEF HaveNone

\* The bits of a seed that announced itself early are counted now.
LEMMA InformedExact ==
    ASSUME IndInv, Exact, NEW p \in Peer, Informed(p)
    PROVE  Exact'
<1>1. p \in running /\ available' = available
  BY DEF Informed
<1>2. CASE info[p] \/ Overlong(p)
  BY <1>1, <1>2, LeaveExact, Zenon DEF Informed
<1>3. CASE ~(info[p] \/ Overlong(p)) /\ ~isSeed[p]
  BY <1>1, <1>3, SameExact DEF Informed
<1>4. CASE ~(info[p] \/ Overlong(p)) /\ isSeed[p]
  <2> DEFINE e == Bits(Piece, TRUE)
  <2>1. SetBitmap(p, FALSE, Piece) /\ Tell(p, <<e>>) /\ running' = running
    BY <1>4, Zenon DEF Informed
  <2>2. Piece \in SUBSET Bit
    BY PiecesAreBits
  <2>3. e \in EventOf /\ Gained(e) = Piece /\ Lost(e) = {}
    BY <2>2, EventFacts, Zenon
  <2>4. bitmap[p] = {}
    BY <1>1, <1>4, RunningFacts DEF Overlong
  <2> HIDE DEF e
  <2>5. Learns(bitmap[p], e, Piece)
    BY <2>3, <2>4 DEF Learns
  <2> QED BY <1>1, <2>1, <2>2, <2>3, <2>5, ChangeExact, Zenon
<1> QED BY <1>2, <1>3, <1>4

LEMMA InitExact == Init => Exact
<1> SUFFICES ASSUME Init PROVE Exact
  OBVIOUS
<1>1. /\ running = {} /\ available = [b \in Bit |-> 0]
      /\ \A p \in Peer : events[p] = <<>> /\ Has(p) = {} /\ bitmap[p] = {}
  BY DEF Init, Has
<1>2. \A b : Count(<<>>, b, "lost") = 0 /\ Count(<<>>, b, "gained") = 0
  <2>1. \A b : Where(<<>>, b, "lost") = {} /\ Where(<<>>, b, "gained") = {}
    BY DEF Where
  <2> QED BY <2>1, FS_EmptySet, Zenon DEF Count
<1>3. \A b : Told0(<<>>, {}, b) = 0 /\ In(b, {}) = 0
  BY <1>2 DEF Told0, In
<1>4. \A p \in Peer : Seen(p) = {}
  <2>1. ASSUME NEW p \in Peer, NEW b \in Bit PROVE Told(p, b) = 0
    <3>1. Told(p, b) = Told0(events[p], Has(p), b)
      BY ToldIs
    <3> QED BY <1>1, <1>3, <3>1, Zenon
  <2> QED BY <2>1 DEF Seen
<1>5. Leads(<<>>, {}, [k \in 0 .. 0 |-> {}])
  BY DEF Leads
<1>6. Agrees(<<>>, {}, {})
  <2>1. [k \in 0 .. 0 |-> {}][0] = {}
    OBVIOUS
  <2> QED BY <1>3, <1>5, <2>1 DEF Agrees
<1>7. Views
  BY <1>1, <1>4, <1>6, Zenon DEF Views
<1>8. Counts
  <2>1. \A b \in Bit : {p \in Peer : b \in Seen(p)} = {}
    BY <1>4
  <2> QED BY <1>1, <2>1, FS_EmptySet DEF Counts
<1> QED BY <1>1, <1>7, <1>8 DEF Exact, NilIsEmpty

LEMMA NextExact == IndInv /\ Exact /\ [Next]_vars => Exact'
<1> SUFFICES ASSUME IndInv, Exact, [Next]_vars
             PROVE  Exact'
  OBVIOUS
<1>1. CASE UNCHANGED vars
  BY <1>1, SameExact DEF vars, peerVars
<1>2. CASE MetadataComplete
  BY <1>2, SameExact DEF MetadataComplete
<1>3. ASSUME NEW p \in Peer, NoteSeed(p) \/ Disconnect(p)
      PROVE  Exact'
  BY <1>3, SameExact, LeaveExact, Zenon DEF NoteSeed, Disconnect, peerVars
<1>4. ASSUME NEW p \in Peer,
             \/ AddPeer(p) \/ HandleEvent(p) \/ Informed(p) \/ HaveAll(p) \/ HaveNone(p)
      PROVE  Exact'
  BY <1>4, AddPeerExact, HandleEventExact, InformedExact, HaveAllExact, HaveNoneExact
<1>5. ASSUME NEW p \in Peer, NEW b \in Bit, Have(p, b) \/ DontHave(p, b)
      PROVE  Exact'
  BY <1>5, HaveExact, DontHaveExact
<1>6. ASSUME NEW p \in Peer, NEW S \in SUBSET Bit, Bitfield(p, S)
      PROVE  Exact'
  BY <1>6, BitfieldExact
<1> QED
  BY <1>1, <1>2, <1>3, <1>4, <1>5, <1>6 DEF Next

LEMMA ExactInvariance == Spec => []Exact
  BY InitExact, NextExact, Invariance, PTL DEF Spec

\* The torrent counts a piece once for each peer that has it, but for what
\* that peer has yet to tell it: whatever the number of peers, and however
\* they change, replace or take back what they announce (tor.go, noteAvailable).
THEOREM AvailabilityIsExact == Spec => []AvailableExact
<1>1. Exact => AvailableExact
  <2> SUFFICES ASSUME Exact, NEW b \in Bit
               PROVE  /\ \A p \in Peer : Told(p, b) \in 0 .. 1
                      /\ available[b] = Cardinality({p \in Peer : Told(p, b) = 1})
    BY DEF AvailableExact
  <2>1. \A p \in Peer : Told(p, b) = In(b, Seen(p))
    BY ToldIs DEF Exact, Views, Agrees
  <2>2. \A p \in Peer : Told(p, b) \in 0 .. 1
    BY <2>1 DEF In
  <2>3. {p \in Peer : b \in Seen(p)} = {p \in Peer : Told(p, b) = 1}
    BY DEF Seen
  <2> QED BY <2>2, <2>3 DEF Exact, Counts
<1> QED BY <1>1, ExactInvariance, PTL

\* The variables keep their types.  No piece is counted more often than there
\* are peers, so that the counts, which are 16 bits wide, do not overflow.
THEOREM AvailabilityTypes == Spec => []TypeOK
<1>1. IndInv /\ Exact => TypeOK
  <2> SUFFICES ASSUME IndInv, Exact PROVE TypeOK
    OBVIOUS
  <2>1. ASSUME NEW b \in Bit PROVE available[b] \in 0 .. Cardinality(Peer)
    <3> DEFINE S == {p \in Peer : b \in Seen(p)}
    <3>1. available[b] = Cardinality(S)
      BY DEF Exact, Counts
    <3>2. IsFiniteSet(S) /\ Cardinality(S) <= Cardinality(Peer)
      BY AvailabilityAssumption, FS_Subset
    <3>3. Cardinality(S) \in Nat /\ Cardinality(Peer) \in Nat
      BY <3>2, AvailabilityAssumption, FS_CardinalityType
    <3> QED BY <3>1, <3>2, <3>3
  <2>2. available \in [Bit -> 0 .. Cardinality(Peer)]
    BY <2>1 DEF Exact, Counts
  <2> QED BY <2>2, Zenon DEF IndInv, Shape, EventOf, TypeOK
<1> QED BY <1>1, ExactInvariance, Invariance, PTL
=============================================================================
