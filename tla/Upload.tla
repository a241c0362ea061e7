------------------------------- MODULE Upload -------------------------------
(***************************************************************************)
(* Uploading: the requests that remote peers make of us, and which of them *)
(* may make any.  A peer's goroutine (peer/peer.go) handles the messages   *)
(* of its remote end, the torrent's PeerUnchoke events and the ticks of    *)
(* its upload ticker; the torrent's loop (tor/tor.go, maybeUnchoke) decides *)
(* whom to unchoke from flags that the peers change meanwhile; the number  *)
(* of unchoked peers, numUnchoking, is shared by all.                      *)
(*                                                                         *)
(* A write goes to the channel of the peer's Writer and fails, after a     *)
(* delay, when that channel stays full; Writer, network and the remote     *)
(* end's reader are one queue.  Metadata are complete.  Whether a piece is *)
(* still there when it is read, and whether the rate allows a packet, are  *)
(* left open.                                                              *)
(***************************************************************************)
EXTENDS Integers, Sequences, FiniteSets

CONSTANTS
    Peer,
    Req,            \* requests, each made at most once
    MaxQueued,      \* bound: the slow ticker waits while more events are queued
    MaxUnchoking,   \* maxUnchoking (5)
    ReqQ,           \* reqQ (250)
    WriterCap,      \* capacity of Peer.writer (64)
    Loads           \* bounds: what the remote ends may do, see load

ASSUME UploadAssumption ==
    /\ IsFiniteSet(Peer) /\ Req \subseteq Nat \ {0} /\ MaxQueued \in Nat
    /\ {MaxUnchoking, ReqQ, WriterCap} \subseteq Nat \ {0}
    /\ \A l \in Loads : l \in [Peer -> [turns : Nat, cancels : Nat,
                                       reqs : SUBSET Req, fast : BOOLEAN, ends : BOOLEAN]]

VARIABLES
    load,           \* bound: changes of interest and requests each remote may make
    peers,          \* Torrent.peers
    status,         \* "running", "leaving" (Done is closed) or "gone"
    interested,     \* Peer.interested
    amUnchoking,    \* Peer.amUnchoking
    numUnchoking,   \* numUnchoking
    requested,      \* Peer.requested
    uploadTicker,   \* Peer.uploadTicker is running
    event,          \* Peer.Event: PeerUnchoke events
    writer,         \* Peer.writer and what follows it
    inbox,          \* messages of the remote end
    torEvents,      \* Torrent.Event: events that lead to maybeUnchoke(t, false)
    call,           \* what a maybeUnchoke in progress has read
    rUnchoked,      \* remote end: the last of Choke and Unchoke
    outstanding,    \* remote end: requests that were not answered
    torn            \* history: a choke whose rejections were not all written

remote == <<rUnchoked, outstanding>>
vars == <<load, peers, status, interested, amUnchoking, numUnchoking, requested,
          uploadTicker, event, writer, inbox, torEvents, call, remote, torn>>

Fast(p) == load[p].fast                      \* Peer.canFast
Running(p) == status[p] = "running"
NoCall == [on |-> FALSE, periodic |-> FALSE, unchoking |-> {}, wanting |-> {}]

Msg(t, r) == [type |-> t, req |-> r]
Sig(t) == Msg(t, 0)

-----------------------------------------------------------------------------
(* Writing the messages ms, one after the other: how many of them can be   *)
(* written before one finds the channel full for too long.  (When the      *)
(* Writer makes room meanwhile, it might have made it before; a sequence   *)
(* that exceeds the capacity may still pass if nothing precedes it.)       *)

Written(p, ms) ==
    LET fits == ms = <<>> \/ Len(writer[p]) + Len(ms) <= WriterCap
        room == WriterCap - Len(writer[p])
    IN  {k \in 0..Len(ms) :
            \/ k = Len(ms) /\ (fits \/ writer[p] = <<>>)
            \/ k = (IF room > 0 THEN room ELSE 0) /\ ~fits}

isCongested(p) == Len(writer[p]) > WriterCap \div 2
Wrote(p, ms, k) == writer' = [writer EXCEPT ![p] = @ \o SubSeq(ms, 1, k)]

(* reject writes something only to a peer that has the Fast extension.     *)
Reject(p, rs) == IF Fast(p) THEN [i \in DOMAIN rs |-> Msg("reject", rs[i])] ELSE <<>>

(* Faulty variant: the ticker is stopped but not started.                  *)
StartStopOnly(p, rs) ==
    uploadTicker' = [uploadTicker EXCEPT ![p] = @ /\ rs # <<>>]

(* startStopUpload.                                                        *)
StartStop(p, rs) == uploadTicker' = [uploadTicker EXCEPT ![p] = rs # <<>>]

(* Run returns: Done is closed; numUnchoking changes once all is said.     *)
Leave(p) ==
    /\ status' = [status EXCEPT ![p] = "leaving"]
    /\ uploadTicker' = [uploadTicker EXCEPT ![p] = FALSE]

-----------------------------------------------------------------------------
(* unchoke(peer, want): its outcomes, as the error, the new amUnchoking,   *)
(* the change of numUnchoking, the messages written, and what is left of   *)
(* requested.  An error in the middle of the rejections leaves all of it.  *)

Changed(p, w) ==
    LET out == IF w THEN <<Sig("unchoke")>>
                    ELSE <<Sig("choke")>> \o Reject(p, requested[p])
    IN  {[err  |-> ~w /\ k < Len(out),
          unch |-> IF k = 0 THEN ~w ELSE w,
          num  |-> IF k = 0 THEN 0 ELSE IF w THEN 1 ELSE -1,
          ms   |-> SubSeq(out, 1, k),
          rest |-> IF ~w /\ k = Len(out) THEN <<>> ELSE requested[p]] :
             k \in Written(p, out)}

(* Faulty variant: a peer that is choked already is choked again.          *)
UnchokeBlind(p, want) == Changed(p, want /\ interested[p])

Unchoke(p, want) ==
    LET w == want /\ interested[p]
    IN  IF w # amUnchoking[p] THEN Changed(p, w)
        ELSE {[err |-> FALSE, unch |-> w, num |-> 0, ms |-> <<>>,
               rest |-> requested[p]]}

Apply(p, o) ==
    /\ amUnchoking' = [amUnchoking EXCEPT ![p] = o.unch]
    /\ numUnchoking' = numUnchoking + o.num
    /\ writer' = [writer EXCEPT ![p] = @ \o o.ms]
    /\ requested' = [requested EXCEPT ![p] = o.rest]
    /\ torn' = [torn EXCEPT ![p] = @ \/ (o.err /\ o.num # 0)]

-----------------------------------------------------------------------------
(* The peer's loop.                                                        *)

Take(p, type) ==
    /\ Running(p) /\ inbox[p] # <<>> /\ Head(inbox[p]).type = type
    /\ inbox' = [inbox EXCEPT ![p] = Tail(@)]

(* TorPeerInterested.                                                      *)
TellTorrent == torEvents' = torEvents + 1

HandleInterested(p) ==
    /\ Take(p, "interested")
    /\ interested' = [interested EXCEPT ![p] = TRUE]
    /\ TellTorrent
    /\ UNCHANGED <<load, peers, status, amUnchoking, numUnchoking, requested,
                   uploadTicker, event, writer, call, remote, torn>>

(* The error of unchoke is ignored.                                        *)
HandleNotInterested(p) ==
    /\ Take(p, "notinterested")
    /\ interested' = [interested EXCEPT ![p] = FALSE]
    /\ \E o \in Unchoke(p, FALSE) : Apply(p, o)
    /\ TellTorrent
    /\ UNCHANGED <<load, peers, status, uploadTicker, event, call, remote>>

HandleRequest(p) ==
    /\ Take(p, "request")
    /\ LET r == <<Head(inbox[p]).req>>
           full == Len(requested[p]) >= ReqQ
           rej == IF ~amUnchoking[p] THEN Reject(p, r)
                  ELSE IF full THEN Reject(p, <<Head(requested[p])>>) ELSE <<>>
       IN  \E k \in Written(p, rej) :
            /\ Wrote(p, rej, k)
            /\ IF amUnchoking[p]
               THEN LET kept == IF full /\ k = Len(rej) THEN Tail(requested[p])
                                                        ELSE requested[p]
                    IN  /\ requested' = [requested EXCEPT ![p] = kept \o r]
                        /\ StartStop(p, kept \o r)
                        /\ UNCHANGED status
               ELSE /\ IF k < Len(rej) THEN Leave(p) ELSE UNCHANGED <<status, uploadTicker>>
                    /\ UNCHANGED requested
    /\ UNCHANGED <<load, peers, interested, amUnchoking, numUnchoking, event,
                   torEvents, call, remote, torn>>

(* slices.Delete                                                           *)
Deleted(s, i) == [j \in 1..Len(s) - 1 |-> IF j < i THEN s[j] ELSE s[j + 1]]

(* Where the request to cancel is: the places after the first do not count. *)
Found(p) ==
    {i \in DOMAIN requested[p] :
        /\ requested[p][i] = Head(inbox[p]).req
        /\ \A j \in 1..i - 1 : requested[p][j] # Head(inbox[p]).req}

(* Faulty variant: the rejection is forgotten.                             *)
HandleCancelSilently(p) ==
    /\ Take(p, "cancel")
    /\ requested' = [requested EXCEPT ![p] =
                        IF Found(p) = {} THEN @
                        ELSE Deleted(@, CHOOSE i \in Found(p) : TRUE)]
    /\ StartStop(p, requested'[p])
    /\ UNCHANGED <<load, peers, status, interested, amUnchoking, numUnchoking,
                   event, writer, torEvents, call, remote, torn>>

HandleCancel(p) ==
    /\ Take(p, "cancel")
    /\ \/ /\ Found(p) = {}
          /\ StartStop(p, requested[p])
          /\ UNCHANGED <<requested, writer, status>>
       \/ \E i \in Found(p) :
            LET rest == Deleted(requested[p], i)
                rej == Reject(p, <<requested[p][i]>>)
            IN  /\ requested' = [requested EXCEPT ![p] = rest]
                /\ \E k \in Written(p, rej) :
                     /\ Wrote(p, rej, k)
                     /\ IF k < Len(rej) THEN Leave(p)
                        ELSE StartStop(p, rest) /\ UNCHANGED status
    /\ UNCHANGED <<load, peers, interested, amUnchoking, numUnchoking, event,
                   torEvents, call, remote, torn>>

(* The upload ticker: scheduleUpload(peer, true).  The piece is there or   *)
(* not; when the rate does not allow a packet nothing happens.             *)
Serve(p) ==
    /\ Running(p) /\ uploadTicker[p]
    /\ amUnchoking[p] /\ requested[p] # <<>> /\ ~isCongested(p)
    /\ LET r == Head(requested[p])
       IN  \E ms \in {<<Msg("piece", r)>>, Reject(p, <<r>>)} :
              Wrote(p, ms, Len(ms))          \* not congested: there is room
    /\ requested' = [requested EXCEPT ![p] = Tail(@)]
    /\ StartStop(p, Tail(requested[p]))
    /\ UNCHANGED <<load, peers, status, interested, amUnchoking, numUnchoking, event,
                   inbox, torEvents, call, remote, torn>>

(* A tick that finds nothing to do.                                        *)
IdleTick(p) ==
    /\ Running(p) /\ uploadTicker[p] /\ requested[p] = <<>>
    /\ StartStop(p, requested[p])
    /\ UNCHANGED <<load, peers, status, interested, amUnchoking, numUnchoking, requested,
                   event, writer, inbox, torEvents, call, remote, torn>>

(* PeerUnchoke.                                                            *)
HandleUnchoke(p) ==
    /\ Running(p) /\ event[p] # <<>>
    /\ event' = [event EXCEPT ![p] = Tail(@)]
    /\ \E o \in Unchoke(p, Head(event[p])) :
        /\ Apply(p, o)
        /\ IF o.err THEN Leave(p)
           ELSE /\ IF o.unch THEN StartStop(p, o.rest)
                   ELSE uploadTicker' = [uploadTicker EXCEPT ![p] = FALSE]
                /\ UNCHANGED status
    /\ UNCHANGED <<load, peers, interested, inbox, torEvents, call, remote>>

(* The connection ends, for any of the other reasons there are.            *)
Disconnect(p) ==
    /\ Running(p) /\ load[p].ends
    /\ Leave(p)
    /\ UNCHANGED <<load, peers, interested, amUnchoking, numUnchoking, requested, event,
                   writer, inbox, torEvents, call, remote, torn>>

(* The first deferred function of Run, after the torrent was told.         *)
Return(p) ==
    /\ status[p] = "leaving" /\ p \notin peers
    /\ status' = [status EXCEPT ![p] = "gone"]
    /\ numUnchoking' = IF amUnchoking[p] THEN numUnchoking - 1 ELSE numUnchoking
    /\ UNCHANGED <<load, peers, interested, amUnchoking, requested, uploadTicker, event,
                   writer, inbox, torEvents, call, remote, torn>>


-----------------------------------------------------------------------------
(* The torrent's loop.  maybeUnchoke first reads the flags of its peers,   *)
(* then asks them for their rates and tells them what to do; the order     *)
(* that the rates and times give is left open.                             *)

Look(ps, periodic) ==
    /\ ~call.on
    /\ call' = [on |-> TRUE, periodic |-> periodic,
                unchoking |-> {p \in ps : amUnchoking[p]},
                wanting |-> {p \in ps : ~amUnchoking[p] /\ interested[p]}]

(* TorPeerInterested.                                                      *)
PeerInterested ==
    /\ torEvents > 0
    /\ torEvents' = torEvents - 1
    /\ Look(peers, FALSE)
    /\ UNCHANGED <<load, peers, status, interested, amUnchoking, numUnchoking, requested,
                   uploadTicker, event, writer, inbox, remote, torn>>

(* TorPeerGoaway: delPeer and maybeUnchoke.                                *)
PeerGoaway(p) ==
    /\ status[p] = "leaving" /\ p \in peers
    /\ peers' = peers \ {p}
    /\ Look(peers \ {p}, FALSE)
    /\ UNCHANGED <<load, status, interested, amUnchoking, numUnchoking, requested,
                   uploadTicker, event, writer, inbox, torEvents, remote, torn>>

SlowTicker ==
    /\ \A p \in Peer : Len(event[p]) <= MaxQueued
    /\ Look(peers, TRUE)
    /\ UNCHANGED <<load, peers, status, interested, amUnchoking, numUnchoking, requested,
                   uploadTicker, event, writer, inbox, torEvents, remote, torn>>

Least(a, b) == IF a < b THEN a ELSE b

(* Faulty variant: nobody is choked for being one too many.                *)
ExcessNone(c) == {{}}

(* The peers that may be choked because there are too many.                *)
Excess(c) ==
    {D \in SUBSET c.unchoking :
        Cardinality(D) = Cardinality(c.unchoking)
                            - Least(Cardinality(c.unchoking), MaxUnchoking)}

(* The peers to choke and to unchoke: first bring the number of unchoked   *)
(* peers down, then up, then, periodically, exchange one for another.  A   *)
(* peer that has closed Done may or may not take the event (writePeer).    *)
Verdicts(c) ==
    LET drop == Excess(c)
        room == MaxUnchoking - Least(Cardinality(c.unchoking), MaxUnchoking)
        live == {p \in c.wanting : Running(p)}
        add == {U \in SUBSET c.wanting :
                    \E T \in SUBSET c.wanting, most \in {room, Least(room, 1)} :
                        /\ live \subseteq T /\ U \subseteq T
                        /\ Cardinality(U) = Least(Cardinality(T), most)}
        others == IF c.periodic /\ room = 0 THEN {p \in c.wanting : ~amUnchoking[p]} ELSE {}
    IN  IF others = {} THEN {[choke |-> D, unchoke |-> U] : D \in drop, U \in add}
        ELSE UNION {{[choke |-> D \cup {u}, unchoke |-> {w}] : u \in c.unchoking \ D} :
                        D \in drop, w \in others}

Tell(p, b) == IF Running(p) THEN <<b>> ELSE <<>>

MaybeUnchoke ==
    /\ call.on
    /\ \E c \in Verdicts(call) :
          event' = [p \in Peer |->
                      event[p] \o (IF p \in c.choke THEN Tell(p, FALSE) ELSE <<>>)
                               \o (IF p \in c.unchoke THEN Tell(p, TRUE) ELSE <<>>)]
    /\ call' = NoCall
    /\ UNCHANGED <<load, peers, status, interested, amUnchoking, numUnchoking, requested,
                   uploadTicker, writer, inbox, torEvents, remote, torn>>

-----------------------------------------------------------------------------
(* The remote end of a peer, a well-behaved one.                           *)

RemoteSend(p, m) == inbox' = [inbox EXCEPT ![p] = Append(@, m)]

RemoteInterest(p) ==
    /\ Running(p) /\ load[p].turns > 0
    /\ load' = [load EXCEPT ![p].turns = @ - 1]
    /\ RemoteSend(p, Sig(IF load[p].turns % 2 = 0 THEN "notinterested" ELSE "interested"))
    /\ UNCHANGED <<peers, status, interested, amUnchoking, numUnchoking, requested,
                   uploadTicker, event, writer, torEvents, call, remote, torn>>

RemoteRequest(p) ==
    /\ Running(p) /\ rUnchoked[p]
    /\ \E r \in load[p].reqs :
        /\ load' = [load EXCEPT ![p].reqs = @ \ {r}]
        /\ outstanding' = [outstanding EXCEPT ![p] = @ \cup {r}]
        /\ RemoteSend(p, Msg("request", r))
    /\ UNCHANGED <<peers, status, interested, amUnchoking, numUnchoking, requested,
                   uploadTicker, event, writer, torEvents, call, rUnchoked, torn>>

RemoteCancel(p) ==
    /\ Running(p) /\ load[p].cancels > 0
    /\ load' = [load EXCEPT ![p].cancels = @ - 1]
    /\ \E r \in outstanding[p] : RemoteSend(p, Msg("cancel", r))
    /\ UNCHANGED <<peers, status, interested, amUnchoking, numUnchoking, requested,
                   uploadTicker, event, writer, torEvents, call, remote, torn>>

RemoteReceive(p) ==
    /\ Running(p) /\ writer[p] # <<>>
    /\ LET m == Head(writer[p])
       IN  /\ rUnchoked' = [rUnchoked EXCEPT
                    ![p] = IF m.type \in {"choke", "unchoke"} THEN m.type = "unchoke" ELSE @]
           /\ outstanding' = [outstanding EXCEPT
                    ![p] = IF m.type = "choke" /\ ~Fast(p) THEN {} ELSE @ \ {m.req}]
    /\ writer' = [writer EXCEPT ![p] = Tail(@)]
    /\ UNCHANGED <<load, peers, status, interested, amUnchoking, numUnchoking, requested,
                   uploadTicker, event, inbox, torEvents, call, torn>>

-----------------------------------------------------------------------------
Init ==
    /\ load \in Loads
    /\ peers = Peer
    /\ status = [p \in Peer |-> "running"]
    /\ interested = [p \in Peer |-> FALSE]
    /\ amUnchoking = [p \in Peer |-> FALSE]
    /\ numUnchoking = 0
    /\ requested = [p \in Peer |-> <<>>]
    /\ uploadTicker = [p \in Peer |-> FALSE]
    /\ event = [p \in Peer |-> <<>>]
    /\ writer = [p \in Peer |-> <<>>]
    /\ inbox = [p \in Peer |-> <<>>]
    /\ torEvents = 0
    /\ call = NoCall
    /\ rUnchoked = [p \in Peer |-> FALSE]
    /\ outstanding = [p \in Peer |-> {}]
    /\ torn = [p \in Peer |-> FALSE]

Messages(p) == \/ HandleInterested(p) \/ HandleNotInterested(p)
               \/ HandleRequest(p) \/ HandleCancel(p)

Torrent == PeerInterested \/ (\E p \in Peer : PeerGoaway(p)) \/ SlowTicker \/ MaybeUnchoke

Next ==
    \/ Torrent
    \/ \E p \in Peer :
        \/ Messages(p) \/ Serve(p) \/ IdleTick(p) \/ HandleUnchoke(p)
        \/ Disconnect(p) \/ Return(p)
        \/ RemoteInterest(p) \/ RemoteRequest(p) \/ RemoteCancel(p) \/ RemoteReceive(p)

Spec == Init /\ [][Next]_vars

(* Go's select is fair to the channels of a loop, tickers tick, the rate   *)
(* eventually allows a packet, and the network delivers.                   *)
FairSpec ==
    /\ Spec
    /\ \A p \in Peer : /\ WF_vars(Messages(p)) /\ WF_vars(HandleUnchoke(p))
                       /\ SF_vars(Serve(p)) /\ WF_vars(RemoteReceive(p))
                       /\ SF_vars(PeerGoaway(p)) /\ WF_vars(Return(p))
    /\ WF_vars(MaybeUnchoke) /\ SF_vars(SlowTicker) /\ SF_vars(PeerInterested)

-----------------------------------------------------------------------------
(* numUnchoking, from which the share of every upload is computed, is the  *)
(* number of peers that are unchoked and whose Run has not returned; so it *)
(* is never negative, and Run's panic does not happen.                     *)
UnchokingExact ==
    numUnchoking = Cardinality({p \in Peer : amUnchoking[p] /\ status[p] # "gone"})

\* How many of the elements of s are in V.
Times(s, V) == Cardinality({k \in DOMAIN s : s[k] \in V})

(* Every request of a peer that has the Fast extension is in exactly one   *)
(* place, on its way, waiting, or answered, whatever is choked, cancelled  *)
(* or dropped meanwhile: it is answered once.  A choke provoked by         *)
(* NotInterested whose rejections find the connection congested is the one *)
(* exception.                                                              *)
AnsweredOnce ==
    \A p \in Peer, r \in Req : Running(p) /\ Fast(p) /\ ~torn[p] =>
        Times(inbox[p], {Msg("request", r)}) + Times(requested[p], {r})
            + Times(writer[p], {Msg("piece", r), Msg("reject", r)})
        = IF r \in outstanding[p] THEN 1 ELSE 0

(* Requests do not wait for ever, with the same exception: the ticker runs *)
(* whenever there is something to send, and everything else is rejected.   *)
Answered ==
    \A p \in Peer : Fast(p) /\ outstanding[p] # {}
                        ~> outstanding[p] = {} \/ torn[p] \/ ~Running(p)

(* The torrent may unchoke more peers than it means to, since it decides   *)
(* from flags that lag behind, but it always comes back.                   *)
ComesBack == []<>(Cardinality({p \in peers : amUnchoking[p]}) <= MaxUnchoking)

=============================================================================
