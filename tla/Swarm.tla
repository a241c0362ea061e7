------------------------------- MODULE Swarm -------------------------------
(***************************************************************************)
(* How a torrent's main loop (tor/tor.go) and the main loops of its peers  *)
(* (peer/peer.go) talk to each other, from the moment a peer is offered to *)
(* the torrent until either of them ends.                                  *)
(*                                                                         *)
(* The torrent waits for its peers: writePeer waits for room in peer.Event *)
(* and the Get functions wait for an answer, in both cases unless the peer *)
(* is Done.  A peer never waits for the torrent: what does not fit into    *)
(* the torrent's channel is kept in peer.events.  The users of a torrent   *)
(* (NewPeer, Kill, Request) wait for room in the torrent's channel.        *)
(*                                                                         *)
(* What the events say is the subject of other modules.  Here an event to  *)
(* a peer is a question (get) or not (msg), and an event to the torrent is *)
(* one that makes it write to its peers or not (note), or one of those     *)
(* that are handled below.                                                 *)
(***************************************************************************)
EXTENDS Integers, Sequences, FiniteSets

CONSTANTS
    Peer,
    TorCap,     \* capacity of Torrent.Event
    PeerCap,    \* capacity of Peer.Event
    MaxEvents   \* bound: how many events peer.events is made to hold

ASSUME CapacityAssumption ==
    TorCap \in Nat \ {0} /\ PeerCap \in Nat \ {0} /\ MaxEvents \in Nat \ {0}

VARIABLES
    torEvent,   \* Torrent.Event
    members,    \* Torrent.peers
    loop,       \* what the torrent's loop is doing
    status,     \* status[p]: how far peer p has come
    event,      \* event[p]: Peer.Event
    events,     \* events[p]: peer.events
    killer,     \* a call of Kill
    client      \* a call of Request

vars == <<torEvent, members, loop, status, event, events, killer, client>>
tor == <<torEvent, members, loop>>
peers == <<status, event, events>>
users == <<killer, client>>

(* A peer is offered in a TorAddPeer, starts when the torrent calls Run,   *)
(* runs once it has sent its first messages, leaves when its loop ends,    *)
(* and is ended when everything in peer.events has been delivered.  A peer *)
(* is lost when Run returns from sending its first messages.               *)
Status == {"new", "offered", "starting", "running", "leaving", "ended", "lost"}

\* Faulty variant: Done is closed once everything has been delivered.
DoneLate(p) == status[p] = "ended"

\* Peer.Done and Torrent.Done are closed.
Done(p) == status[p] \in {"leaving", "ended"}
TorDone == loop.pc \in {"done", "deleted"}

Event(type, p) == [type |-> type, peers |-> p]

\* What the loop has yet to do for an event or a tick: ask the peers in ask,
\* write to[p] times to peer p, and answer Request.  pc is "wait" while the
\* answer of the peer in asked is awaited.
Nothing == [p \in Peer |-> 0]
Busy(ask, to, reply) ==
    [pc |-> IF ask # {} THEN "ask" ELSE IF to # Nothing THEN "write"
            ELSE IF reply THEN "reply" ELSE "loop",
     ask |-> ask, asked |-> {}, to |-> to, reply |-> reply]
Loop == Busy({}, Nothing, FALSE)
Each(S, n) == [p \in Peer |-> IF p \in S THEN n ELSE 0]

\* Some of the peers in S, once.
Some(S) == {Each(W, 1) : W \in SUBSET S}
Plus(f, g) == [p \in Peer |-> f[p] + g[p]]

Init ==
    /\ torEvent = <<>>
    /\ members = {}
    /\ loop = Loop
    /\ status = [p \in Peer |-> "new"]
    /\ event = [p \in Peer |-> <<>>]
    /\ events = [p \in Peer |-> <<>>]
    /\ killer = "idle"
    /\ client = "idle"

TorRoom == Len(torEvent) < TorCap

-----------------------------------------------------------------------------
(* Peers.                                                                  *)

\* Faulty variant: an event may overtake those that wait.
writeEventOvertake(p, e) ==
    IF TorRoom
    THEN torEvent' = Append(torEvent, e) /\ UNCHANGED events
    ELSE events' = [events EXCEPT ![p] = Append(@, e)] /\ UNCHANGED torEvent

writeEvent(p, e) ==
    IF events[p] = <<>> /\ TorRoom
    THEN torEvent' = Append(torEvent, e) /\ UNCHANGED events
    ELSE events' = [events EXCEPT ![p] = Append(@, e)] /\ UNCHANGED torEvent

\* Run, up to its loop: the first messages are sent, or the connection turns
\* out to be closed, or congested, and Run returns.
Start(p) ==
    /\ status[p] = "starting"
    /\ status' = [status EXCEPT ![p] = "running"]
    /\ writeEvent(p, Event("note", {p}))
    /\ UNCHANGED <<members, loop, event, users>>

StartFails(p) ==
    /\ status[p] = "starting"
    /\ status' = [status EXCEPT ![p] = "lost"]
    /\ UNCHANGED <<tor, event, events, users>>

\* handleEvent for anything but a question; the torrent may be told something.
Serve(p) ==
    /\ status[p] = "running"
    /\ event[p] # <<>>
    /\ Head(event[p]) = "msg"
    /\ event' = [event EXCEPT ![p] = Tail(@)]
    /\ \/ Len(events[p]) < MaxEvents /\ writeEvent(p, Event("note", {p}))
       \/ UNCHANGED <<torEvent, events>>
    /\ UNCHANGED <<members, loop, status, users>>

\* handleEvent for a question: the peer and the torrent meet on a channel.
Answer(p) ==
    /\ status[p] = "running"
    /\ event[p] # <<>>
    /\ Head(event[p]) = "get"
    /\ loop.pc = "wait" /\ loop.asked = {p}
    /\ event' = [event EXCEPT ![p] = Tail(@)]
    /\ loop' = Busy(loop.ask, loop.to, loop.reply)
    /\ UNCHANGED <<torEvent, members, status, events, users>>

\* handleMessage: something from the network is of interest to the torrent.
Message(p) ==
    /\ status[p] = "running"
    /\ Len(events[p]) < MaxEvents
    /\ writeEvent(p, Event("note", {p}))
    /\ UNCHANGED <<members, loop, status, event, users>>

\* The loop, or the code that runs when it has ended, delivers an event.
Deliver(p) ==
    /\ status[p] \in {"running", "leaving"}
    /\ events[p] # <<>>
    /\ TorRoom
    /\ torEvent' = Append(torEvent, Head(events[p]))
    /\ events' = [events EXCEPT ![p] = Tail(@)]
    /\ UNCHANGED <<members, loop, status, event, users>>

\* The loop ends: the connection is closed, or the torrent is done.
Leave(p) ==
    /\ status[p] = "running"
    /\ status' = [status EXCEPT ![p] = "leaving"]
    /\ writeEvent(p, Event("goaway", {p}))
    /\ UNCHANGED <<members, loop, event, users>>

\* Faulty variant: the torrent is expected to take every event.
EndDelivered(p) ==
    /\ status[p] = "leaving"
    /\ events[p] = <<>>
    /\ status' = [status EXCEPT ![p] = "ended"]
    /\ UNCHANGED <<tor, event, events, users>>

End(p) ==
    /\ status[p] = "leaving"
    /\ events[p] = <<>> \/ TorDone
    /\ status' = [status EXCEPT ![p] = "ended"]
    /\ events' = [events EXCEPT ![p] = <<>>]
    /\ UNCHANGED <<tor, event, users>>

-----------------------------------------------------------------------------
(* The torrent's loop.                                                     *)

delPeer(p) == members \ {p}

\* periodicRequest, maybeUnchoke and many handlers ask some peers about
\* themselves and write to some.
AskSome ==
    \E A \in SUBSET members, w \in Some(members) : loop' = Busy(A, w, FALSE)

\* Run, GetPex, PeerPex to the others, PeerInterested.
TorAddPeer(p) ==
    /\ members' = members \cup {p}
    /\ status' = [status EXCEPT ![p] = "starting"]
    /\ \E w \in Some({p}) : loop' = Busy({p}, Plus(Each(members, 1), w), FALSE)

\* delPeer, which may write PeerPex to the others, and maybeUnchoke.
TorPeerGoaway(p) ==
    /\ members' = delPeer(p)
    /\ \E n \in 0 .. 1, w \in Some(delPeer(p)) :
          loop' = Busy({}, Plus(Each(delPeer(p), n), w), FALSE)
    /\ UNCHANGED status

TorNote ==
    /\ AskSome
    /\ UNCHANGED <<members, status>>

\* Faulty variant: no answer when there is nothing to tell the peers.
TorRequestUnanswered ==
    /\ loop' \in {Loop, Busy({}, Each(members, 1), TRUE)}
    /\ UNCHANGED <<members, status>>

\* PeerInterested or PeerCancelPiece to all, then the answer.
TorRequest ==
    /\ loop' \in {Busy({}, Each(W, 1), TRUE) : W \in {{}, members}}
    /\ UNCHANGED <<members, status>>

TorGoAway ==
    /\ loop' = [Loop EXCEPT !.pc = "done"]
    /\ UNCHANGED <<members, status>>

HandleEvent ==
    /\ loop.pc = "loop"
    /\ torEvent # <<>>
    /\ torEvent' = Tail(torEvent)
    /\ LET e == Head(torEvent)
       IN  CASE e.type = "add" -> \E p \in e.peers : TorAddPeer(p)
             [] e.type = "goaway" -> \E p \in e.peers : TorPeerGoaway(p)
             [] e.type = "note" -> TorNote
             [] e.type = "request" -> TorRequest
             [] e.type = "kill" -> TorGoAway
    /\ UNCHANGED <<event, events, users>>

Ticker ==
    /\ loop.pc = "loop"
    /\ AskSome
    /\ UNCHANGED <<torEvent, members, peers, users>>

\* A Get function: the question is sent, or the peer is done.
Ask(p) ==
    /\ loop.pc = "ask" /\ p \in loop.ask
    /\ \/ /\ Len(event[p]) < PeerCap
          /\ event' = [event EXCEPT ![p] = Append(@, "get")]
          /\ loop' = [loop EXCEPT !.pc = "wait", !.asked = {p}, !.ask = @ \ {p}]
       \/ /\ Done(p)
          /\ loop' = Busy(loop.ask \ {p}, loop.to, loop.reply)
          /\ UNCHANGED event
    /\ UNCHANGED <<torEvent, members, status, events, users>>

\* The peer will not answer any more.
AskFails(p) ==
    /\ loop.pc = "wait" /\ loop.asked = {p}
    /\ Done(p)
    /\ loop' = Busy(loop.ask, loop.to, loop.reply)
    /\ UNCHANGED <<torEvent, members, peers, users>>

writePeer(p) ==
    /\ loop.pc = "write" /\ loop.to[p] > 0
    /\ \/ /\ Len(event[p]) < PeerCap
          /\ event' = [event EXCEPT ![p] = Append(@, "msg")]
       \/ /\ Done(p)
          /\ UNCHANGED event
    /\ loop' = Busy({}, [loop.to EXCEPT ![p] = @ - 1], loop.reply)
    /\ UNCHANGED <<torEvent, members, status, events, users>>

\* The answer to Request, who is waiting for it, and then maybeRequest.
Reply ==
    /\ loop.pc = "reply"
    /\ client' = "returned"
    /\ AskSome
    /\ UNCHANGED <<torEvent, members, peers, killer>>

\* Pieces.Del has run: Deleted is closed.
Delete ==
    /\ loop.pc = "done"
    /\ loop' = [loop EXCEPT !.pc = "deleted"]
    /\ UNCHANGED <<torEvent, members, peers, users>>

-----------------------------------------------------------------------------
(* The users.                                                              *)

NewPeer(p) ==
    /\ status[p] = "new"
    /\ \/ /\ TorRoom
          /\ torEvent' = Append(torEvent, Event("add", {p}))
          /\ status' = [status EXCEPT ![p] = "offered"]
       \/ /\ TorDone
          /\ status' = [status EXCEPT ![p] = "ended"]
          /\ UNCHANGED torEvent
    /\ UNCHANGED <<members, loop, event, events, users>>

Kill ==
    /\ killer = "idle"
    /\ \/ /\ TorRoom
          /\ torEvent' = Append(torEvent, Event("kill", {}))
          /\ killer' = "waiting"
       \/ /\ TorDone
          /\ killer' = "returned"
          /\ UNCHANGED torEvent
    /\ UNCHANGED <<members, loop, peers, client>>

KillReturns ==
    /\ killer = "waiting"
    /\ loop.pc = "deleted"
    /\ killer' = "returned"
    /\ UNCHANGED <<tor, peers, client>>

\* Once its event is sent, Request waits for the answer.
Request ==
    /\ client = "idle"
    /\ \/ /\ TorRoom
          /\ torEvent' = Append(torEvent, Event("request", {}))
          /\ client' = "waiting"
       \/ /\ TorDone
          /\ client' = "returned"
          /\ UNCHANGED torEvent
    /\ UNCHANGED <<members, loop, peers, killer>>

PeerNext(p) ==
    \/ Start(p) \/ StartFails(p) \/ Serve(p) \/ Answer(p) \/ Message(p)
    \/ Deliver(p) \/ Leave(p) \/ End(p)

TorrentNext ==
    \/ HandleEvent \/ Reply \/ Delete
    \/ \E p \in Peer : Ask(p) \/ AskFails(p) \/ writePeer(p)

Next ==
    \/ \E p \in Peer : PeerNext(p) \/ NewPeer(p)
    \/ Ticker
    \/ TorrentNext
    \/ Kill \/ KillReturns \/ Request

(* The goroutines run.  The torrent serves its channel however often its   *)
(* tickers fire; senders wait for a channel in a queue, so that each gets  *)
(* its turn; a peer's loop serves its Event channel and notices that the   *)
(* torrent is done.                                                        *)
Fairness ==
    /\ WF_vars(TorrentNext) /\ SF_vars(HandleEvent)
    /\ WF_vars(KillReturns)
    /\ \A p \in Peer :
          /\ WF_vars(Start(p) \/ StartFails(p))
          /\ WF_vars(Serve(p)) /\ WF_vars(Answer(p))
          /\ SF_vars(Deliver(p)) /\ WF_vars(End(p))
          /\ WF_vars(TorDone /\ Leave(p))

Spec == Init /\ [][Next]_vars
FairSpec == Spec /\ Fairness

-----------------------------------------------------------------------------
TorEvent == [type : {"add", "goaway", "note", "request", "kill"}, peers : SUBSET Peer]

TypeOK ==
    /\ torEvent \in Seq(TorEvent) /\ Len(torEvent) <= TorCap
    /\ members \subseteq Peer
    /\ loop \in [pc : {"loop", "ask", "wait", "write", "reply", "done", "deleted"},
                 ask : SUBSET Peer, asked : SUBSET Peer,
                 to : [Peer -> 0 .. 2], reply : BOOLEAN]
    /\ status \in [Peer -> Status]
    /\ \A p \in Peer :
          event[p] \in Seq({"get", "msg"}) /\ Len(event[p]) <= PeerCap
    /\ \A p \in Peer :
          events[p] \in Seq(TorEvent) /\ Len(events[p]) <= MaxEvents + 1
    /\ killer \in {"idle", "waiting", "returned"}
    /\ client \in {"idle", "waiting", "returned"}

Goodbye(p) == Event("goaway", {p})

(* A peer says goodbye last: no event of a peer follows its TorPeerGoaway, *)
(* of which there is at most one, so that delPeer really forgets it; and   *)
(* as long as a peer is a member it is still there, is saying goodbye, or  *)
(* was lost.                                                               *)
GoodbyeIsLast ==
    \A p \in Peer :
        /\ \A k \in DOMAIN torEvent : torEvent[k] = Goodbye(p) =>
              /\ \A l \in DOMAIN torEvent : l > k => torEvent[l].peers # {p}
              /\ events[p] = <<>>
        /\ \A k \in DOMAIN events[p] : events[p][k] = Goodbye(p) => k = Len(events[p])
        /\ ~TorDone /\ p \in members /\ Done(p) =>
              \/ \E k \in DOMAIN torEvent : torEvent[k] = Goodbye(p)
              \/ \E k \in DOMAIN events[p] : events[p][k] = Goodbye(p)
        /\ ~TorDone /\ p \notin members =>
              status[p] \in {"new", "offered", "leaving", "ended"}

NoneLost == \A p \in Peer : status[p] # "lost"

(* Unless a peer was lost, Kill returns once its event is in the torrent's *)
(* channel, however full the channels are and whoever leaves in the middle *)
(* of a question.                                                          *)
KillCompletes == []NoneLost => (killer = "waiting" ~> killer = "returned")

(* Once the torrent is done all the peers that were started end.           *)
PeersEnd ==
    \A p \in Peer :
        (TorDone /\ status[p] \in {"starting", "running", "leaving"})
            ~> (status[p] \in {"ended", "lost"})

(* Request, which does not look at the torrent's Done while it waits,      *)
(* returns unless the torrent ends first.                                  *)
RequestReturns ==
    []NoneLost => (client = "waiting" ~> client = "returned" \/ TorDone)
=============================================================================
