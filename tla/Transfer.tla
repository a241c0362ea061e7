------------------------------ MODULE Transfer ------------------------------
(***************************************************************************)
(* Who is fetching which chunk: a torrent's main loop (tor/tor.go), its    *)
(* peers (peer/peer.go) and its webseed writers (tor/writer.go).  The      *)
(* torrent counts in inFlight how many times each chunk is being fetched;  *)
(* it adds one when it hands the chunk out and takes one off when a        *)
(* TorData or a TorDrop event for the chunk comes back.                    *)
(*                                                                         *)
(* The torrent and each peer are goroutines that exchange events.  A peer  *)
(* never waits for the torrent: what does not fit into the torrent's       *)
(* channel stays in peer.events, so that outbox[p] stands for both.  The   *)
(* torrent waits for room in peer.Event, or for peer.Done.                 *)
(*                                                                         *)
(* The chunks are those of one piece.  A peer's queue of requests is the   *)
(* subject of module RequestQueue; here each chunk is in one of four       *)
(* states.  Whether a peer is choking us, and whether it has the piece, is *)
(* left open: maybeRequest may send, drop or leave what is queued.  A peer *)
(* answers a request with as much data as it was asked for.                *)
(***************************************************************************)
EXTENDS Integers, Sequences, FiniteSets, FiniteSetsExt, SequencesExt

CONSTANTS
    Peer,
    Fast,          \* the peers that implement the Fast extension
    Writer,        \* webseed writers
    N,             \* number of chunks
    ShortLast,     \* the last chunk is half a chunk long
    maxInFlight,   \* how many times the torrent requests a chunk
    EventCap,      \* capacity of peer.Event
    Starts         \* bounds: the peers of the torrent, the chunks that are wanted,
                   \* and how many times webseeds are used

ASSUME SizesAssumption ==
    /\ N \in Nat \ {0} /\ ShortLast \in BOOLEAN
    /\ maxInFlight \in Nat \ {0} /\ EventCap \in Nat \ {0}
    /\ Fast \subseteq Peer /\ Peer \cap Writer = {}
    /\ \A s \in Starts :
          s.peers \subseteq Peer /\ s.wanted \in [0 .. N - 1 -> 0 .. 2] /\ s.fetches \in Nat

\* Lengths are in halves of config.ChunkSize.
ChunkSize == 2
Chunk == 0 .. N - 1
chunkLen(c) == IF ShortLast /\ c = N - 1 THEN 1 ELSE ChunkSize

VARIABLES
    inFlight,   \* Torrent.inFlight
    members,    \* Torrent.peers
    job,        \* what is left of the event that the torrent is handling
    running,    \* the peers in their main loop; Done is closed for others
    event,      \* event[p]: peer.Event
    rq,         \* rq[p][c]: none, queued, sent or cancelled
    outbox,     \* outbox[s]: events on their way to the torrent
    writer,     \* writer[w]: offset (a chunk) and count of a webseed writer
    wanted,     \* how many times a chunk comes in a request: at two priorities
    fetches     \* how many times webseeds may still be used

vars == <<inFlight, members, job, running, event, rq, outbox, writer, wanted, fetches>>
torrent == <<inFlight, members, job, wanted>>
webseeds == <<writer, fetches>>

Idle == [chunks |-> <<>>, from |-> {}, cancel |-> {}, to |-> {}]

Init ==
    /\ inFlight = [c \in Chunk |-> 0]
    /\ \E s \in Starts :
          members = s.peers /\ running = s.peers /\ wanted = s.wanted /\ fetches = s.fetches
    /\ job = Idle
    /\ event = [p \in Peer |-> <<>>]
    /\ rq = [p \in Peer |-> [c \in Chunk |-> "none"]]
    /\ outbox = [s \in Peer \cup Writer |-> <<>>]
    /\ writer = [w \in Writer |-> [offset |-> 0, count |-> 0]]

TorData(s, c, length) ==
    [type |-> "data", from |-> s, begin |-> c, length |-> length]
TorDrop(s, c, length) ==
    [type |-> "drop", from |-> s, begin |-> c, length |-> length]
TorPeerGoaway(p) ==
    [type |-> "goaway", from |-> p, begin |-> 0, length |-> 0]

-----------------------------------------------------------------------------
(* Peers.  A peer drops a chunk by telling the torrent, always with the    *)
(* length of a whole chunk.                                                *)

Drop(p, c) == TorDrop(p, c, ChunkSize)
Drops(p, S) ==
    [k \in 1 .. Cardinality(S) |-> Drop(p, SetToSortSeq(S, <)[k])]

In(q, states) == {c \in Chunk : q[c] \in states}
Put(q, S, st) == [c \in Chunk |-> IF c \in S THEN st ELSE q[c]]

\* The end of most handlers: of the queued chunks S are taken out of the
\* queue, D of these are dropped and the others are sent.  q is the state of
\* the queue and o what the handler has told the torrent so far.
maybeRequest(p, q, o) ==
    \E S \in SUBSET In(q, {"queued"}) : \E D \in SUBSET S :
        /\ rq' = [rq EXCEPT ![p] = Put(Put(q, S, "sent"), D, "none")]
        /\ outbox' = [outbox EXCEPT ![p] = @ \o o \o Drops(p, D)]

\* Faulty variant: a duplicate is not given back.
RefusedOnly(p, m, has) == IF has THEN {} ELSE {c \in Chunk : m[c] > 0}

\* The chunks of a request that are not enqueued, at least once: all of them
\* if the peer does not have the piece, else those that are there already.
Refused(p, m, has) ==
    {c \in Chunk : \/ m[c] > 0 /\ (~has \/ rq[p][c] # "none")
                   \/ m[c] = 2}

\* Chunks that come twice and are both refused.
RefusedTwice(p, m, has) ==
    {c \in Chunk : m[c] = 2 /\ (~has \/ rq[p][c] # "none")}

PeerRequest(p, m) ==
    \E has \in BOOLEAN :
        LET new == {c \in Chunk : has /\ m[c] > 0 /\ rq[p][c] = "none"}
        IN  maybeRequest(p, Put(rq[p], new, "queued"),
                Drops(p, Refused(p, m, has)) \o
                Drops(p, RefusedTwice(p, m, has)))

\* PeerCancel and PeerCancelPiece.  A request that was sent stays until it is
\* answered or expires, the data might already be in flight.
cancel(p, C) ==
    LET queued == In(rq[p], {"queued"}) \cap C
        sent == In(rq[p], {"sent"}) \cap C
    IN  /\ rq' = [rq EXCEPT ![p] = Put(Put(rq[p], queued, "none"), sent, "cancelled")]
        /\ outbox' = [outbox EXCEPT ![p] = @ \o Drops(p, queued)]

HandleEvent(p) ==
    /\ p \in running
    /\ event[p] # <<>>
    /\ event' = [event EXCEPT ![p] = Tail(@)]
    /\ LET e == Head(event[p])
       IN  IF e.type = "request" THEN PeerRequest(p, e.chunks)
                                 ELSE cancel(p, e.set)
    /\ UNCHANGED <<torrent, running, webseeds>>

\* protocol.Piece: the data may not be wanted any more.
Piece(p, c) ==
    /\ p \in running
    /\ rq[p][c] # "none"
    /\ \E e \in {TorData(p, c, chunkLen(c)), Drop(p, c)} :
          maybeRequest(p, Put(rq[p], {c}, "none"), <<e>>)
    /\ UNCHANGED <<torrent, running, event, webseeds>>

\* protocol.RejectRequest
RejectRequest(p, c) ==
    /\ p \in running \cap Fast
    /\ rq[p][c] \in {"sent", "cancelled"}
    /\ maybeRequest(p, Put(rq[p], {c}, "none"), <<Drop(p, c)>>)
    /\ UNCHANGED <<torrent, running, event, webseeds>>

\* protocol.Choke: without the Fast extension nothing sent will be answered.
Choke(p) ==
    LET S == In(rq[p], IF p \in Fast THEN {"queued"}
                                     ELSE {"queued", "sent", "cancelled"})
    IN  /\ p \in running
        /\ rq' = [rq EXCEPT ![p] = Put(rq[p], S, "none")]
        /\ outbox' = [outbox EXCEPT ![p] = @ \o Drops(p, S)]
        /\ UNCHANGED <<torrent, running, event, webseeds>>

\* The ticker: cancelled requests that are late are dropped, old ones are
\* cancelled, and if any was dropped more may be sent.
expireRequests(p) ==
    \E late \in SUBSET In(rq[p], {"cancelled"}), old \in SUBSET In(rq[p], {"sent"}) :
        LET q == Put(Put(rq[p], late, "none"), old, "cancelled")
        IN  /\ p \in running
            /\ late \cup old # {}
            /\ IF late # {} THEN maybeRequest(p, q, Drops(p, late))
                            ELSE /\ rq' = [rq EXCEPT ![p] = q]
                                 /\ UNCHANGED outbox
            /\ UNCHANGED <<torrent, running, event, webseeds>>

\* Faulty variant: the peer leaves without a word.
ExitSilent(p) ==
    /\ p \in running
    /\ running' = running \ {p}
    /\ rq' = [rq EXCEPT ![p] = [c \in Chunk |-> "none"]]
    /\ UNCHANGED <<torrent, event, outbox, webseeds>>

\* The main loop ends, for whatever reason.
Exit(p) ==
    /\ p \in running
    /\ running' = running \ {p}
    /\ rq' = [rq EXCEPT ![p] = [c \in Chunk |-> "none"]]
    /\ outbox' = [outbox EXCEPT ![p] =
          @ \o Drops(p, In(rq[p], {"queued", "sent", "cancelled"}))
            \o <<TorPeerGoaway(p)>>]
    /\ UNCHANGED <<torrent, event, webseeds>>

-----------------------------------------------------------------------------
(* Webseed writers, created with their chunks marked as in flight.  An     *)
(* event is sent with the number of bytes it is about.                     *)

Length(c, n) == MapThenSumSet(chunkLen, c .. c + n - 1)

\* AddData took n chunks.
Write(w, n) ==
    LET o == writer[w].offset IN
    /\ o + n <= N
    /\ Length(o, n) <= writer[w].count
    /\ writer' = [writer EXCEPT
          ![w] = [offset |-> o + n, count |-> @.count - Length(o, n)]]
    /\ outbox' = [outbox EXCEPT ![w] = Append(@, TorData(w, o, Length(o, n)))]
    /\ UNCHANGED <<torrent, running, event, rq, fetches>>

Close(w) ==
    /\ writer[w].count > 0
    /\ writer' = [writer EXCEPT ![w].count = 0]
    /\ outbox' = [outbox EXCEPT ![w] =
          Append(@, TorDrop(w, writer[w].offset, writer[w].count))]
    /\ UNCHANGED <<torrent, running, event, rq, fetches>>

-----------------------------------------------------------------------------
(* The torrent's main loop.                                                *)

\* periodicRequest hands out chunks to one peer.  The write does not block;
\* when the peer is gone and its channel has room it may succeed or not.
request(p, m) ==
    /\ job = Idle
    /\ p \in members
    /\ \E c \in Chunk : m[c] > 0
    /\ \A c \in Chunk : m[c] > 0 => m[c] <= wanted[c] /\ inFlight[c] < maxInFlight
    /\ Len(event[p]) < EventCap
    /\ event' = [event EXCEPT ![p] = Append(@, [type |-> "request", chunks |-> m])]
    /\ inFlight' = [c \in Chunk |-> inFlight[c] + m[c]]
    /\ UNCHANGED <<members, job, wanted, running, rq, outbox, webseeds>>

\* maybeWebseed: a hole in the piece whose first chunk nobody is fetching.
maybeWebseed(w, c, n) ==
    /\ job = Idle
    /\ writer[w].count = 0
    /\ fetches > 0
    /\ c + n <= N /\ \A d \in c .. c + n - 1 : wanted[d] > 0
    /\ inFlight[c] = 0
    /\ inFlight' = [d \in Chunk |->
          IF d \in c .. c + n - 1 THEN inFlight[d] + 1 ELSE inFlight[d]]
    /\ writer' = [writer EXCEPT ![w] = [offset |-> c, count |-> Length(c, n)]]
    /\ fetches' = fetches - 1
    /\ UNCHANGED <<members, job, wanted, running, event, rq, outbox>>

\* The chunks that a TorData or a TorDrop is about.
Covered(e) == [k \in 1 .. e.length \div ChunkSize |-> e.begin + k - 1]

\* handleEvent.  A TorData for a chunk somebody else is fetching as well
\* makes the torrent write to the other peers, and perhaps wait for them.
TorHandle(s) ==
    LET e == Head(outbox[s]) IN
    /\ job = Idle
    /\ outbox[s] # <<>>
    /\ outbox' = [outbox EXCEPT ![s] = Tail(@)]
    /\ CASE e.type = "data" ->
              /\ job' = IF Covered(e) = <<>> THEN Idle
                        ELSE [Idle EXCEPT !.chunks = Covered(e), !.from = {s}]
              /\ UNCHANGED <<inFlight, members>>
         [] e.type = "drop" ->
              /\ inFlight' = [c \in Chunk |->
                    IF c \in Range(Covered(e)) /\ inFlight[c] > 0
                    THEN inFlight[c] - 1 ELSE inFlight[c]]
              /\ UNCHANGED <<members, job>>
         [] e.type = "goaway" ->
              /\ members' = members \ {s}
              /\ UNCHANGED <<inFlight, job>>
    /\ UNCHANGED <<wanted, running, event, rq, webseeds>>

\* The next chunk of a TorData.
DataChunk ==
    LET c == Head(job.chunks)
        n == IF inFlight[c] > 0 THEN inFlight[c] - 1 ELSE 0
    IN  /\ job.chunks # <<>>
        /\ job.to = {}
        /\ inFlight' = [inFlight EXCEPT ![c] = n]
        /\ job' = IF n > 0 /\ members \ job.from # {}
                  THEN [chunks |-> Tail(job.chunks), from |-> job.from,
                        cancel |-> {c}, to |-> members \ job.from]
                  ELSE IF Len(job.chunks) = 1 THEN Idle
                  ELSE [job EXCEPT !.chunks = Tail(@)]
        /\ UNCHANGED <<members, wanted, running, event, rq, outbox, webseeds>>

\* Faulty variant: the torrent does not look at Done while it waits.
writePeerNoDone(p) ==
    /\ Len(event[p]) < EventCap
    /\ event' = [event EXCEPT ![p] =
          Append(@, [type |-> "cancel", set |-> job.cancel])]

\* writePeer: blocks until there is room or the peer is done.
writePeer(p) ==
    \/ /\ Len(event[p]) < EventCap
       /\ event' = [event EXCEPT ![p] =
             Append(@, [type |-> "cancel", set |-> job.cancel])]
    \/ /\ p \notin running
       /\ UNCHANGED event

\* requestPiece, when the last request for the piece is withdrawn.
CancelPiece ==
    /\ job = Idle
    /\ members # {}
    /\ job' = [Idle EXCEPT !.cancel = Chunk, !.to = members]
    /\ UNCHANGED <<inFlight, members, wanted, running, event, rq, outbox, webseeds>>

CancelOthers(p) ==
    /\ p \in job.to
    /\ writePeer(p)
    /\ job' = IF job.to = {p} /\ job.chunks = <<>> THEN Idle
              ELSE [job EXCEPT !.to = @ \ {p}]
    /\ UNCHANGED <<inFlight, members, wanted, running, rq, outbox, webseeds>>

PeerNext(p) ==
    \/ HandleEvent(p)
    \/ \E c \in Chunk : Piece(p, c) \/ RejectRequest(p, c)
    \/ Choke(p) \/ expireRequests(p) \/ Exit(p)

TorrentNext ==
    \/ \E s \in Peer \cup Writer : TorHandle(s)
    \/ DataChunk
    \/ \E p \in Peer : CancelOthers(p)

Next ==
    \/ \E p \in Peer : PeerNext(p)
    \/ \E w \in Writer, n \in 1 .. N : Write(w, n)
    \/ \E w \in Writer : Close(w)
    \/ \E p \in Peer, m \in [Chunk -> 0 .. 2] : request(p, m)
    \/ \E w \in Writer, c \in Chunk, n \in 1 .. N : maybeWebseed(w, c, n)
    \/ CancelPiece
    \/ TorrentNext

(* The main loops keep running: a peer that is not done serves its Event   *)
(* channel and the torrent its own.  Nobody has to answer a request.       *)
Fairness ==
    /\ \A p \in Peer : WF_vars(HandleEvent(p))
    /\ WF_vars(TorrentNext)
    /\ \A s \in Peer \cup Writer : SF_vars(TorHandle(s))

Spec == Init /\ [][Next]_vars
FairSpec == Spec /\ Fairness

-----------------------------------------------------------------------------
Event ==
    [type : {"request"}, chunks : [Chunk -> 0 .. 2]]
        \cup [type : {"cancel"}, set : SUBSET Chunk]
TorEvent ==
    [type : {"data", "drop", "goaway"}, from : Peer \cup Writer,
     begin : Chunk, length : 0 .. ChunkSize * N]

TypeOK ==
    /\ inFlight \in [Chunk -> Nat]
    /\ members \subseteq Peer
    /\ job \in [chunks : Seq(Chunk), from : SUBSET (Peer \cup Writer),
                cancel : SUBSET Chunk, to : SUBSET Peer]
    /\ running \subseteq Peer
    /\ \A p \in Peer : event[p] \in Seq(Event) /\ Len(event[p]) <= EventCap
    /\ rq \in [Peer -> [Chunk -> {"none", "queued", "sent", "cancelled"}]]
    /\ \A s \in Peer \cup Writer : outbox[s] \in Seq(TorEvent)
    /\ writer \in [Writer -> [offset : 0 .. N, count : 0 .. ChunkSize * N]]
    /\ wanted \in [Chunk -> 0 .. 2] /\ fetches \in Nat

\* How many times a request in p's channel, p itself, an event on its way,
\* a writer or the event being handled stands for chunk c.
Total(f) == FoldFunction(+, 0, f)
Asked(p, c) ==
    Total([k \in DOMAIN event[p] |->
        IF event[p][k].type = "request" THEN event[p][k].chunks[c] ELSE 0])
Fetching(p, c) == IF rq[p][c] = "none" THEN 0 ELSE 1
Returning(s, c) ==
    Total([k \in DOMAIN outbox[s] |->
        IF c \in Range(Covered(outbox[s][k])) THEN 1 ELSE 0])
Writing(w, c) ==
    IF writer[w].count > 0 /\ c >= writer[w].offset
       /\ Length(writer[w].offset, c - writer[w].offset + 1) <= writer[w].count
    THEN 1 ELSE 0
Handling(c) == IF c \in Range(job.chunks) THEN 1 ELSE 0

Owed(c) ==
    MapThenSumSet(LAMBDA p : Asked(p, c), Peer)
    + MapThenSumSet(LAMBDA p : Fetching(p, c), Peer)
    + MapThenSumSet(LAMBDA s : Returning(s, c), Peer \cup Writer)
    + MapThenSumSet(LAMBDA w : Writing(w, c), Writer)
    + Handling(c)

(* inFlight is exactly the number of times a chunk is being fetched or on  *)
(* its way back, for a chunk of full length, counting the requests that    *)
(* are stuck in the channel of a peer that is gone.  For a short chunk it  *)
(* is at least that: noteInFlight never finds 0 ("InFlight underflow").    *)
InFlightExact ==
    \A c \in Chunk :
        /\ chunkLen(c) = ChunkSize => inFlight[c] = Owed(c)
        /\ \A k \in DOMAIN job.chunks : job.chunks[k] = c => inFlight[c] > 0
        /\ \A s \in Peer \cup Writer : Returning(s, c) <= inFlight[c]

(* The torrent's loop is never stuck in writePeer: it comes back to its    *)
(* channel although every peer may be busy, full or gone.                  *)
LoopReturns == (job # Idle) ~> (job = Idle)

(* When a peer's loop has ended the torrent gets to know about it, and     *)
(* about every chunk that the peer had requested.                          *)
GoneIsNoticed ==
    \A p \in Peer : (p \notin running) ~> (p \notin members /\ outbox[p] = <<>>)
=============================================================================
