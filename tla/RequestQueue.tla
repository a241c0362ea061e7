---------------------------- MODULE RequestQueue ----------------------------
(***************************************************************************)
(* The queue of requests that a peer keeps for the chunks it was asked to  *)
(* fetch (peer/requests/requests.go), driven the way peer/peer.go drives   *)
(* it.  A request is queued, dequeued by maybeRequest and, once the        *)
(* message is out, put among the requested ones; it ends when the data     *)
(* arrives, when it is rejected, cancelled or expired, or when the peer is *)
(* choked or dies.  The torrent counts requests in flight, so each request *)
(* that was accepted must be given back exactly once.                      *)
(*                                                                         *)
(* Times only matter through the two comparisons made by Expire: a request *)
(* records how long ago it was sent and cancelled, in ticks, up to the     *)
(* point where the comparison no longer changes.                           *)
(***************************************************************************)
EXTENDS Integers, Sequences, FiniteSets

CONSTANTS
    Index,   \* chunks
    T0,      \* Expire cancels what was sent more than T0 ticks ago
    T1       \* Expire drops what was cancelled more than T1 ticks ago

ASSUME TimesAssumption == T0 \in Nat /\ T1 \in Nat

VARIABLES
    queue,       \* unsent requests
    requested,   \* sent requests
    bitmap,      \* membership
    held,        \* {i}: i was dequeued and is about to be sent, otherwise {}
    loop,        \* 0, or the position of Expire's loop in requested
    out,         \* out[i]: requests accepted for chunk i less those returned
    cancels      \* cancels[i]: Cancel messages for the request sent for i

vars == <<queue, requested, bitmap, held, loop, out, cancels>>

Request == [index : Index, sent : 0 .. T0 + 1,
            cancelled : BOOLEAN, since : 0 .. T1 + 1]

Init ==
    /\ queue = <<>>
    /\ requested = <<>>
    /\ bitmap = {}
    /\ held = {}
    /\ loop = 0
    /\ out = [i \in Index |-> 0]
    /\ cancels = [i \in Index |-> 0]

Sent(i) == {k \in DOMAIN requested : requested[k].index = i}
Queued(i) == {k \in DOMAIN queue : queue[k] = i}

\* The last element takes the place of the one removed.
Removed(s, k) ==
    [j \in 1 .. Len(s) - 1 |-> IF j = k THEN s[Len(s)] ELSE s[j]]

\* The peer's goroutine is neither inside Expire nor inside maybeRequest.
Free == held = {} /\ loop = 0

-----------------------------------------------------------------------------
(* A PeerRequest event: Enqueue refuses a duplicate, which the peer hands  *)
(* back to the torrent at once.                                            *)
Enqueue(i) ==
    /\ Free
    /\ i \notin bitmap
    /\ queue' = Append(queue, i)
    /\ bitmap' = bitmap \cup {i}
    /\ out' = [out EXCEPT ![i] = @ + 1]
    /\ UNCHANGED <<requested, held, loop, cancels>>

(* maybeRequest takes the next request out of the queue ...                *)
Dequeue ==
    /\ Free
    /\ queue # <<>>
    /\ held' = {Head(queue)}
    /\ queue' = Tail(queue)
    /\ bitmap' = bitmap \ {Head(queue)}
    /\ UNCHANGED <<requested, loop, out, cancels>>

(* ... and either sends it ...                                             *)
EnqueueRequest(i) ==
    /\ i \in held
    /\ held' = {}
    /\ bitmap' = bitmap \cup {i}
    /\ requested' = Append(requested,
          [index |-> i, sent |-> 0, cancelled |-> FALSE, since |-> 0])
    /\ cancels' = [cancels EXCEPT ![i] = 0]
    /\ UNCHANGED <<queue, loop, out>>

(* ... or drops it, when the chunk cannot be asked for or the message      *)
(* cannot be written.                                                      *)
DropHeld(i) ==
    /\ i \in held
    /\ held' = {}
    /\ out' = [out EXCEPT ![i] = @ - 1]
    /\ UNCHANGED <<queue, requested, bitmap, loop, cancels>>

-----------------------------------------------------------------------------
(* del: from the requested ones if i is there, else from the queue unless  *)
(* reqonly.  Not finding it in either is the panic "Requests is broken!".  *)

DelRequestedAt(k) ==
    /\ requested' = Removed(requested, k)
    /\ bitmap' = bitmap \ {requested[k].index}
    /\ UNCHANGED queue

DelQueuedAt(k) ==
    /\ queue' = Removed(queue, k)
    /\ bitmap' = bitmap \ {queue[k]}
    /\ UNCHANGED requested

\* Faulty variant: the request is removed and not given back.
DelRequestedForget(i) ==
    /\ Free
    /\ i \in bitmap
    /\ \E k \in Sent(i) : DelRequestedAt(k)
    /\ UNCHANGED <<held, loop, out, cancels>>

\* Piece: whether it was sent or not, the chunk's request ends.
Del(i) ==
    /\ Free
    /\ i \in bitmap
    /\ IF Sent(i) # {}
       THEN \E k \in Sent(i) : DelRequestedAt(k)
       ELSE \E k \in Queued(i) : DelQueuedAt(k)
    /\ out' = [out EXCEPT ![i] = @ - 1]
    /\ UNCHANGED <<held, loop, cancels>>

\* RejectRequest.
DelRequested(i) ==
    /\ Free
    /\ i \in bitmap
    /\ \E k \in Sent(i) : DelRequestedAt(k)
    /\ out' = [out EXCEPT ![i] = @ - 1]
    /\ UNCHANGED <<held, loop, cancels>>

\* Faulty variant: a request that was cancelled before is cancelled again.
CancelAgain(k) ==
    /\ requested' = [requested EXCEPT ![k].cancelled = TRUE, ![k].since = 0]
    /\ cancels' = [cancels EXCEPT ![requested[k].index] = @ + 1]

\* A request that was sent is marked, and a Cancel message is due, unless
\* that was done before.
CancelAt(k) ==
    IF requested[k].cancelled
    THEN UNCHANGED <<requested, cancels>>
    ELSE /\ requested' = [requested EXCEPT ![k].cancelled = TRUE]
         /\ cancels' = [cancels EXCEPT ![requested[k].index] = @ + 1]

(* PeerCancel: a request that was sent is only marked, one that was not is *)
(* removed.                                                                *)
Cancel(i) ==
    /\ Free
    /\ i \in bitmap
    /\ \/ /\ \E k \in Sent(i) : CancelAt(k)
          /\ UNCHANGED <<queue, bitmap, out>>
       \/ /\ Sent(i) = {}
          /\ \E k \in Queued(i) : DelQueuedAt(k)
          /\ out' = [out EXCEPT ![i] = @ - 1]
          /\ UNCHANGED cancels
    /\ UNCHANGED <<held, loop>>

(* Clear: both kinds go when the peer dies or a peer without the Fast      *)
(* extension chokes; otherwise the sent ones stay.                         *)
Clear(both) ==
    /\ Free
    /\ queue' = <<>>
    /\ IF both
       THEN /\ requested' = <<>>
            /\ bitmap' = {}
            /\ out' = [i \in Index |->
                  out[i] - Cardinality(Sent(i)) - Cardinality(Queued(i))]
       ELSE /\ bitmap' = {requested[k].index : k \in DOMAIN requested}
            /\ out' = [i \in Index |-> out[i] - Cardinality(Queued(i))]
            /\ UNCHANGED requested
    /\ UNCHANGED <<held, loop, cancels>>

-----------------------------------------------------------------------------
(* Expire, called by the peer's ticker when there are sent requests.       *)

ExpireCall ==
    /\ Free
    /\ requested # <<>>
    /\ loop' = 1
    /\ UNCHANGED <<queue, requested, bitmap, held, out, cancels>>

\* Faulty variant: a cancelled request waits for the peer's answer.
LateNever(r) == FALSE

Late(r) == r.cancelled /\ r.since > T1
Old(r) == ~r.cancelled /\ r.sent > T0

\* The loop ends when it has reached the end of requested.
Advance(k) == IF k > Len(requested') THEN 0 ELSE k

\* Faulty variant: the position advances over the request moved into it.
ExpireDropSkip ==
    /\ loop # 0
    /\ Late(requested[loop])
    /\ \E k \in Sent(requested[loop].index) : DelRequestedAt(k)
    /\ out' = [out EXCEPT ![requested[loop].index] = @ - 1]
    /\ loop' = Advance(loop + 1)
    /\ UNCHANGED <<held, cancels>>

\* A late request is dropped; the last one takes its place.
ExpireDrop ==
    /\ loop # 0
    /\ Late(requested[loop])
    /\ \E k \in Sent(requested[loop].index) : DelRequestedAt(k)
    /\ out' = [out EXCEPT ![requested[loop].index] = @ - 1]
    /\ loop' = Advance(loop)
    /\ UNCHANGED <<held, cancels>>

\* Any other stays, and is cancelled if it is old.
ExpireNext ==
    /\ loop # 0
    /\ ~Late(requested[loop])
    /\ IF Old(requested[loop]) THEN CancelAt(loop)
                               ELSE UNCHANGED <<requested, cancels>>
    /\ loop' = Advance(loop + 1)
    /\ UNCHANGED <<queue, bitmap, held, out>>

\* Time passes.
Older(r) ==
    [index |-> r.index,
     sent |-> IF r.sent > T0 THEN r.sent ELSE r.sent + 1,
     cancelled |-> r.cancelled,
     since |-> IF r.cancelled /\ r.since <= T1 THEN r.since + 1 ELSE r.since]

Tick ==
    /\ Free
    /\ requested # <<>>
    /\ requested' = [k \in DOMAIN requested |-> Older(requested[k])]
    /\ UNCHANGED <<queue, bitmap, held, loop, out, cancels>>

Expire == ExpireCall \/ ExpireDrop \/ ExpireNext

Next ==
    \/ \E i \in Index : \/ Enqueue(i) \/ EnqueueRequest(i) \/ DropHeld(i)
                        \/ Del(i) \/ DelRequested(i) \/ Cancel(i)
    \/ Dequeue
    \/ \E both \in BOOLEAN : Clear(both)
    \/ Expire
    \/ Tick

(* maybeRequest never stops half-way, time passes and the ticker fires.    *)
Fairness ==
    /\ WF_vars(\E i \in Index : EnqueueRequest(i) \/ DropHeld(i))
    /\ SF_vars(Tick)
    /\ SF_vars(ExpireCall)
    /\ WF_vars(ExpireDrop \/ ExpireNext)

Spec == Init /\ [][Next]_vars
FairSpec == Spec /\ Fairness

-----------------------------------------------------------------------------
TypeOK ==
    /\ queue \in Seq(Index)
    /\ requested \in Seq(Request)
    /\ bitmap \subseteq Index
    /\ held \subseteq Index
    /\ loop \in Nat
    /\ out \in [Index -> 0 .. 1]
    /\ cancels \in [Index -> Nat]

Members ==
    {queue[k] : k \in DOMAIN queue}
        \cup {requested[k].index : k \in DOMAIN requested}

(* The bitmap tells exactly which chunks have a request, no chunk has two, *)
(* and Expire's loop stays inside the slice: the panics of del, Expire and *)
(* EnqueueRequest are out of reach.                                        *)
Consistent ==
    /\ bitmap = Members
    /\ \A j, k \in DOMAIN queue : queue[j] = queue[k] => j = k
    /\ \A j, k \in DOMAIN requested :
           requested[j].index = requested[k].index => j = k
    /\ \A j \in DOMAIN queue, k \in DOMAIN requested :
           queue[j] # requested[k].index
    /\ bitmap \cap held = {}
    /\ loop # 0 => loop \in DOMAIN requested /\ held = {}

(* Every request that was accepted and not yet given back to the torrent   *)
(* is still in the structure, once, and nothing is given back twice.       *)
Conserved ==
    out = [i \in Index |-> IF i \in bitmap \cup held THEN 1 ELSE 0]

(* A Cancel message is sent exactly for the requests that are marked, and  *)
(* only once, whether it was the torrent or Expire that cancelled.         *)
CancelledOnce ==
    \A k \in DOMAIN requested :
        cancels[requested[k].index] = IF requested[k].cancelled THEN 1 ELSE 0

(* Expire skips no request although removing one reorders the others:      *)
(* behind the loop's position nothing is late and nothing old is left      *)
(* uncancelled.                                                            *)
ExpireThorough ==
    loop # 0 =>
        \A k \in 1 .. loop - 1 : ~Late(requested[k]) /\ ~Old(requested[k])

(* "expireRequests will take care of the request": a request that was sent *)
(* to a peer that never answers is not outstanding for ever.               *)
NoLeakyQueue == \A i \in Index : (Sent(i) # {}) ~> (Sent(i) = {})
=============================================================================
