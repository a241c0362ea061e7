------------------------------ MODULE Metadata ------------------------------
(***************************************************************************)
(* How a torrent that was added as a magnet link obtains its metadata      *)
(* (tor/metadata.go and the handlers of tor/tor.go that call it): peers    *)
(* announce the size of the metadata, the torrent believes the size that   *)
(* most of them announced, asks them for its chunks and verifies the whole *)
(* when it has them all.                                                   *)
(*                                                                         *)
(* A chunk is "zero" before anything was copied to it, and then "good" or  *)
(* "bad".  The hash is right when the size is and every chunk is good; the *)
(* right metadata is well formed, so that MetadataComplete succeeds.       *)
(* Peers answer what they were asked, in any order, when it is within the  *)
(* size that they announced; some announce a wrong size and some send bad  *)
(* data.                                                                   *)
(***************************************************************************)
EXTENDS Integers, Sequences, FiniteSets, FiniteSetsExt, Functions

CONSTANTS
    Peer,
    Good,           \* the peers that send good data
    Claim,          \* Claim[p]: the size that p announces
    TrueSize,       \* the size of the metadata, in bytes
    ChunkSize,      \* 16 KiB in the code
    Wrap,           \* infoRequested is an array of uint8: 256
    MaxAsk,         \* how many peers the ticker asks: 8
    MaxVotes,       \* bound: votes for a size
    MaxBad          \* bound: bad chunks received

ASSUME MetadataAssumption ==
    /\ TrueSize \in Nat \ {0} /\ ChunkSize \in Nat \ {0}
    /\ Wrap \in Nat \ {0} /\ MaxAsk \in Nat \ {0}
    /\ MaxVotes \in Nat /\ MaxBad \in Nat
    /\ Claim \in [Peer -> Nat \ {0}]
    /\ Good \subseteq Peer
    /\ \A p \in Good : Claim[p] = TrueSize

Size == {Claim[p] : p \in Peer} \cup {TrueSize}
Chunks(size) == (size + ChunkSize - 1) \div ChunkSize

VARIABLES
    complete,   \* Torrent.infoComplete
    votes,      \* Torrent.infoSizeVotes
    meta,       \* Torrent.Info, infoBitmap and infoRequested
    peers,      \* Torrent.peers, those that can send metadata
    asked,      \* asked[p]: the chunks that p was asked for
    bad         \* how many bad chunks were received

metadataVars == <<complete, votes, meta, peers, asked, bad>>

NoMeta == [size |-> 0, info |-> <<>>, bitmap |-> {}, requested |-> <<>>]

MetadataInit ==
    /\ complete = FALSE
    /\ votes = [s \in Size |-> 0]
    /\ meta = NoMeta
    /\ peers = <<>>
    /\ asked = [p \in Peer |-> {}]
    /\ bad = 0

-----------------------------------------------------------------------------
\* Faulty variant: the bitmap survives.
resizeKeepBitmap(m, size) ==
    IF m.size = size THEN m
    ELSE [size |-> size, info |-> [i \in 1 .. Chunks(size) |-> "zero"],
          bitmap |-> m.bitmap, requested |-> [i \in 1 .. Chunks(size) |-> 0]]

resizeMetadata(m, size) ==
    IF m.size = size THEN m
    ELSE [size |-> size, info |-> [i \in 1 .. Chunks(size) |-> "zero"],
          bitmap |-> {}, requested |-> [i \in 1 .. Chunks(size) |-> 0]]

\* The sizes that metadataGuess may return; ties are broken by the order in
\* which a map is enumerated.
metadataGuess(v) == {s \in Size : v[s] > 0 /\ \A u \in Size : v[u] <= v[s]}

\* The orders in which requestMetadata may ask for the missing chunks.
Orders(m) ==
    LET missing == (DOMAIN m.info) \ m.bitmap
    IN  {cn \in Bijection(1 .. Cardinality(missing), missing) :
            \A j, k \in DOMAIN cn : j < k => m.requested[cn[j]] <= m.requested[cn[k]]}

\* metadataPeers: the first ones in the order in which they came.
metadataPeers == SubSeq(peers, 1, Min({MaxAsk, Len(peers)}))

\* requestMetadata for the peers in the list qs: each of those whose channel
\* has room is asked for one chunk, none for a chunk twice.  The arguments
\* are the new values of votes, meta and asked so far.
requestMetadata(v, m, a, qs) ==
    \/ /\ metadataGuess(v) = {}
       /\ meta' = m
       /\ asked' = a
    \/ \E size \in metadataGuess(v), room \in SUBSET Range(qs) :
        LET n == resizeMetadata(m, size)
            ok == SelectSeq(qs, LAMBDA p : p \in room)
        IN  \E cn \in Orders(n) :
                LET k == Min({Len(ok), Len(cn)})
                    Of(p) == {cn[j] : j \in {l \in 1 .. k : ok[l] = p}}
                    now == UNION {Of(p) : p \in room}
                IN  /\ meta' = [n EXCEPT !.requested = [i \in DOMAIN @ |->
                                    IF i \in now THEN (@[i] + 1) % Wrap ELSE @[i]]]
                    /\ asked' = [p \in Peer |-> a[p] \cup Of(p)]

-----------------------------------------------------------------------------
(* The torrent's handlers.                                                 *)

metadataVote(size) == [votes EXCEPT ![size] = @ + 1]

\* TorPeerExtended: p has just connected.
PeerExtended(p) ==
    /\ p \notin Range(peers)
    /\ votes[Claim[p]] < MaxVotes
    /\ peers' = Append(peers, p)
    /\ IF complete THEN UNCHANGED <<votes, meta, asked>>
       ELSE /\ votes' = metadataVote(Claim[p])
            /\ requestMetadata(votes', meta, asked, <<p>>)
    /\ UNCHANGED <<complete, bad>>

Ticker ==
    /\ ~complete
    /\ requestMetadata(votes, meta, asked, metadataPeers)
    /\ UNCHANGED <<complete, votes, peers, bad>>

\* delPeer; its votes stay.
PeerGoaway(p) ==
    /\ p \in Range(peers)
    /\ peers' = SelectSeq(peers, LAMBDA q : q # p)
    /\ asked' = [asked EXCEPT ![p] = {}]
    /\ UNCHANGED <<complete, votes, meta, bad>>

(* TorMetaData, that is gotMetadata, has five outcomes.                    *)

\* Chunk i comes from p.  Its length is that of a chunk or reaches the end of
\* the metadata.
Received(p, i, long) ==
    /\ i \in asked[p]
    /\ (i - 1) * ChunkSize < Claim[p]
    /\ p \in Good => ~long
    /\ p \notin Good => bad < MaxBad
    /\ bad' = IF p \in Good THEN bad ELSE bad + 1
    /\ UNCHANGED peers

Answered(p, i) == [asked EXCEPT ![p] = @ \ {i}]
Useful(p) == ~complete /\ Claim[p] = meta.size

\* What is copied, and the chunk that is marked.
Stored(p, i, long) ==
    [meta EXCEPT !.info = [j \in DOMAIN @ |->
                     IF j # i /\ ~(long /\ j > i) THEN @[j]
                     ELSE IF p \in Good THEN "good" ELSE "bad"],
                 !.bitmap = @ \cup {i}]

AllHere(m) == m.bitmap = DOMAIN m.info
HashMatches(m) == m.size = TrueSize /\ \A i \in DOMAIN m.info : m.info[i] = "good"

Useless(p, i, long) ==
    /\ Received(p, i, long)
    /\ ~Useful(p)
    /\ asked' = Answered(p, i)
    /\ UNCHANGED <<complete, votes, meta>>

Redundant(p, i, long) ==
    /\ Received(p, i, long)
    /\ Useful(p)
    /\ i \in meta.bitmap
    /\ requestMetadata(votes, meta, Answered(p, i), <<p>>)
    /\ UNCHANGED <<complete, votes>>

Chunk(p, i, long) ==
    /\ Received(p, i, long)
    /\ Useful(p)
    /\ i \notin meta.bitmap
    /\ ~AllHere(Stored(p, i, long))
    /\ requestMetadata(votes, Stored(p, i, long), Answered(p, i), <<p>>)
    /\ UNCHANGED <<complete, votes>>

\* Faulty variant: what was received stays.
RejectedKeep(m) == m

Rejected(m) == NoMeta

HashMismatch(p, i, long) ==
    /\ Received(p, i, long)
    /\ Useful(p)
    /\ i \notin meta.bitmap
    /\ AllHere(Stored(p, i, long))
    /\ ~HashMatches(Stored(p, i, long))
    /\ asked' = Answered(p, i)
    /\ meta' = Rejected(Stored(p, i, long))
    /\ UNCHANGED <<complete, votes>>

MetadataComplete(p, i, long) ==
    /\ Received(p, i, long)
    /\ Useful(p)
    /\ i \notin meta.bitmap
    /\ AllHere(Stored(p, i, long))
    /\ HashMatches(Stored(p, i, long))
    /\ asked' = Answered(p, i)
    /\ complete' = TRUE
    /\ votes' = [s \in Size |-> 0]
    /\ meta' = [Stored(p, i, long) EXCEPT !.bitmap = {}, !.requested = <<>>]

TorMetadata(p, i, long) ==
    \/ Useless(p, i, long) \/ Redundant(p, i, long) \/ Chunk(p, i, long)
    \/ HashMismatch(p, i, long) \/ MetadataComplete(p, i, long)

Index == UNION {1 .. Chunks(s) : s \in Size}

MetadataNext ==
    \/ Ticker
    \/ \E p \in Peer : PeerExtended(p) \/ PeerGoaway(p)
    \/ \E p \in Peer, i \in Index, long \in BOOLEAN : TorMetadata(p, i, long)

(* The ticker ticks, a channel that is tried again and again has room at   *)
(* times, and good peers answer.                                           *)
AskNext(p) == Ticker /\ asked'[p] # asked[p]
MetadataFairness ==
    \A p \in Good : /\ SF_metadataVars(AskNext(p))
                    /\ WF_metadataVars(\E i \in Index : TorMetadata(p, i, FALSE))

MetadataSpec == MetadataInit /\ [][MetadataNext]_metadataVars
MetadataFairSpec == MetadataSpec /\ MetadataFairness

-----------------------------------------------------------------------------
MetadataTypeOK ==
    /\ complete \in BOOLEAN
    /\ votes \in [Size -> 0 .. MaxVotes]
    /\ meta.size \in Size \cup {0}
    /\ meta.info \in [1 .. Chunks(meta.size) -> {"zero", "good", "bad"}]
    /\ meta.bitmap \subseteq DOMAIN meta.info
    /\ ~complete => meta.requested \in [DOMAIN meta.info -> 0 .. Wrap - 1]
    /\ peers \in Seq(Peer) /\ IsInjective(peers)
    /\ asked \in [Peer -> SUBSET Index]
    /\ bad \in 0 .. MaxBad

(* A chunk that is marked was received since the size last changed: the    *)
(* torrent changes its mind about the size while chunks of the old size    *)
(* are on their way, and never takes one for a chunk of the new size.      *)
BitmapTruthful ==
    \A i \in meta.bitmap : i \in DOMAIN meta.info /\ meta.info[i] # "zero"

(* Whatever went wrong before (bad chunks, wrong sizes, a hash mismatch,   *)
(* peers that left), the metadata is obtained once the right size has most *)
(* votes and the peers that are left are good ones.                        *)
Recovered ==
    /\ \A s \in Size \ {TrueSize} : votes[s] < votes[TrueSize]
    /\ peers # <<>> /\ Range(peers) \subseteq Good
Completes == <>[]Recovered => <>complete
=============================================================================
