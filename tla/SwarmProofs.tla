----------------------------- MODULE SwarmProofs -----------------------------
(***************************************************************************)
(* The ends of a connection agree on how they talk, for any lengths of     *)
(* what they say; and a peer's last word to its torrent is its goodbye,    *)
(* for any number of peers and whatever the capacities of the channels.    *)
(***************************************************************************)
EXTENDS Swarm, Handshake, TLAPS

-----------------------------------------------------------------------------
(* The peers of a torrent.                                                 *)

Note(p) == Event("note", {p})
Offer(p) == Event("add", {p})
Over == {"leaving", "ended"}

\* What the torrent's channel s, the events t that p keeps and the status st
\* of p have to do with each other.
Agree(p, s, t, st) ==
    /\ \A k \in DOMAIN s : s[k] = Goodbye(p) =>
          /\ \A l \in DOMAIN s : l > k => s[l].peers # {p}
          /\ t = <<>>
          /\ st \in Over
    /\ \A k \in DOMAIN t :
          /\ t[k] \in {Note(p), Goodbye(p)}
          /\ t[k] = Goodbye(p) => k = Len(t) /\ st \in Over
    /\ t # <<>> => st \in {"running", "leaving"}
    /\ \A k \in DOMAIN s : s[k] = Offer(p) =>
          /\ st = "offered"
          /\ \A l \in DOMAIN s : s[l] = Offer(p) => l = k

\* p's goodbye is on its way.
Leaving(p, s, t) ==
    \/ \E k \in DOMAIN s : s[k] = Goodbye(p)
    \/ \E k \in DOMAIN t : t[k] = Goodbye(p)

\* An offer and a goodbye are about one peer.
Shaped(e) == e.type \in {"add", "goaway"} => \E p \in Peer : e.peers = {p}

Typed ==
    /\ torEvent \in Seq(TorEvent)
    /\ \A k \in DOMAIN torEvent : Shaped(torEvent[k])
    /\ "pc" \in DOMAIN loop
    /\ status \in [Peer -> Status]
    /\ events \in [Peer -> Seq(TorEvent)]

Known(p) ==
    ~TorDone =>
        /\ p \in members /\ Done(p) => Leaving(p, torEvent, events[p])
        /\ p \notin members => status[p] \in {"new", "offered", "leaving", "ended"}

IndInv ==
    /\ Typed
    /\ \A p \in Peer : Agree(p, torEvent, events[p], status[p]) /\ Known(p)

-----------------------------------------------------------------------------
(* Events.                                                                 *)

LEMMA Distinct ==
    ASSUME NEW p \in Peer
    PROVE  /\ Goodbye(p) \in TorEvent /\ Note(p) \in TorEvent /\ Offer(p) \in TorEvent
           /\ Goodbye(p).peers = {p} /\ Note(p).peers = {p} /\ Offer(p).peers = {p}
           /\ Goodbye(p) # Note(p) /\ Goodbye(p) # Offer(p) /\ Note(p) # Offer(p)
           /\ Shaped(Goodbye(p)) /\ Shaped(Note(p)) /\ Shaped(Offer(p))
BY DEF Goodbye, Note, Offer, Event, TorEvent, Shaped

LEMMA Others ==
    ASSUME NEW p \in Peer, NEW q \in Peer, p # q
    PROVE  /\ Goodbye(q).peers # {p} /\ Note(q).peers # {p} /\ Offer(q).peers # {p}
BY DEF Goodbye, Note, Offer, Event

LEMMA Appended ==
    ASSUME NEW s \in Seq(TorEvent), NEW e \in TorEvent
    PROVE  /\ Append(s, e) \in Seq(TorEvent) /\ Append(s, e) # <<>>
           /\ Len(s) \in Nat /\ Len(Append(s, e)) = Len(s) + 1
           /\ DOMAIN s = 1 .. Len(s) /\ DOMAIN Append(s, e) = 1 .. Len(s) + 1
           /\ \A k \in 1 .. Len(s) : Append(s, e)[k] = s[k]
           /\ Append(s, e)[Len(s) + 1] = e
OBVIOUS

LEMMA Tailed ==
    ASSUME NEW s \in Seq(TorEvent), s # <<>>
    PROVE  /\ Tail(s) \in Seq(TorEvent) /\ Head(s) = s[1] /\ Head(s) \in TorEvent
           /\ Len(s) \in Nat \ {0} /\ Len(Tail(s)) = Len(s) - 1
           /\ DOMAIN s = 1 .. Len(s) /\ DOMAIN Tail(s) = 1 .. Len(s) - 1
           /\ \A k \in 1 .. Len(s) - 1 : Tail(s)[k] = s[k + 1]
OBVIOUS

\* An event of another peer.
LEMMA AgreeOther ==
    ASSUME NEW p \in Peer, NEW s \in Seq(TorEvent), NEW t, NEW st, NEW e \in TorEvent,
           Agree(p, s, t, st), e.peers # {p}
    PROVE  /\ Agree(p, Append(s, e), t, st)
           /\ Leaving(p, s, t) => Leaving(p, Append(s, e), t)
<1>1. e # Goodbye(p) /\ e # Offer(p)
  BY Distinct
<1> QED BY <1>1, Appended DEF Agree, Leaving

\* An event of a peer that runs, or starts to run, delivered or kept.
LEMMA AgreeNote ==
    ASSUME NEW p \in Peer, NEW s \in Seq(TorEvent), NEW t \in Seq(TorEvent), NEW st,
           Agree(p, s, t, st), st \in {"starting", "running"}
    PROVE  /\ Agree(p, Append(s, Note(p)), t, "running")
           /\ Agree(p, s, Append(t, Note(p)), "running")
<1>1. /\ \A k \in DOMAIN s : s[k] # Goodbye(p) /\ s[k] # Offer(p)
      /\ \A k \in DOMAIN t : t[k] = Note(p)
  BY Distinct DEF Agree, Over
<1>2. t # <<>> => "running" \in {"running", "leaving"}
  OBVIOUS
<1> QED BY <1>1, Appended, Distinct DEF Agree

LEMMA AgreeGoodbye ==
    ASSUME NEW p \in Peer, NEW s \in Seq(TorEvent), NEW t \in Seq(TorEvent),
           Agree(p, s, t, "running")
    PROVE  /\ t = <<>> => Agree(p, Append(s, Goodbye(p)), t, "leaving")
           /\ Agree(p, s, Append(t, Goodbye(p)), "leaving")
           /\ Leaving(p, Append(s, Goodbye(p)), t)
           /\ Leaving(p, s, Append(t, Goodbye(p)))
<1>1. /\ \A k \in DOMAIN s : s[k] # Goodbye(p) /\ s[k] # Offer(p)
      /\ \A k \in DOMAIN t : t[k] = Note(p)
  BY Distinct DEF Agree, Over
<1>2. t = <<>> => Agree(p, Append(s, Goodbye(p)), t, "leaving")
  BY <1>1, Appended, Distinct DEF Agree, Over
<1>3. Agree(p, s, Append(t, Goodbye(p)), "leaving")
  BY <1>1, Appended, Distinct DEF Agree, Over
<1>4. Len(s) + 1 \in DOMAIN Append(s, Goodbye(p)) /\ Len(t) + 1 \in DOMAIN Append(t, Goodbye(p))
  BY Appended, Distinct
<1> QED BY <1>2, <1>3, <1>4, Appended, Distinct DEF Leaving

\* What the peer kept is delivered.
LEMMA AgreeDeliver ==
    ASSUME NEW p \in Peer, NEW s \in Seq(TorEvent), NEW t \in Seq(TorEvent), NEW st,
           Agree(p, s, t, st), t # <<>>
    PROVE  /\ Agree(p, Append(s, Head(t)), Tail(t), st)
           /\ Leaving(p, s, t) => Leaving(p, Append(s, Head(t)), Tail(t))
           /\ Head(t) \in {Note(p), Goodbye(p)}
<1>1. /\ \A k \in DOMAIN s : s[k] # Goodbye(p) /\ s[k] # Offer(p)
      /\ st \in {"running", "leaving"}
  BY DEF Agree
<1>2. /\ Head(t) \in {Note(p), Goodbye(p)} /\ Head(t) \in TorEvent
      /\ Head(t) = Goodbye(p) => Tail(t) = <<>> /\ st \in Over
  BY Tailed DEF Agree
<1>3. Agree(p, Append(s, Head(t)), Tail(t), st)
  BY <1>1, <1>2, Appended, Tailed, Distinct DEF Agree
<1>4. ASSUME Leaving(p, s, t) PROVE Leaving(p, Append(s, Head(t)), Tail(t))
  <2>1. PICK k \in DOMAIN t : t[k] = Goodbye(p)
    BY <1>1, <1>4 DEF Leaving
  <2>2. CASE k = 1
    <3>1. Append(s, Head(t))[Len(s) + 1] = Goodbye(p) /\ Len(s) + 1 \in DOMAIN Append(s, Head(t))
      BY <1>2, <2>1, <2>2, Appended, Tailed
    <3> QED BY <3>1 DEF Leaving
  <2>3. CASE k # 1
    <3>1. k - 1 \in DOMAIN Tail(t) /\ Tail(t)[k - 1] = Goodbye(p)
      BY <2>1, <2>3, Tailed
    <3> QED BY <3>1 DEF Leaving
  <2> QED BY <2>2, <2>3
<1> QED BY <1>2, <1>3, <1>4

\* The torrent takes an event.
LEMMA AgreeTaken ==
    ASSUME NEW p \in Peer, NEW s \in Seq(TorEvent), NEW t, NEW st,
           Agree(p, s, t, st), s # <<>>
    PROVE  /\ Agree(p, Tail(s), t, st)
           /\ Head(s) = Offer(p) => st = "offered" /\ Agree(p, Tail(s), t, "starting")
           /\ Head(s) = Goodbye(p) => st \in Over
           /\ Leaving(p, s, t) /\ Head(s) # Goodbye(p) => Leaving(p, Tail(s), t)
<1>1. Agree(p, Tail(s), t, st)
  <2>1. \A k \in DOMAIN Tail(s) : k \in Int /\ k + 1 \in DOMAIN s /\ Tail(s)[k] = s[k + 1]
    BY Tailed
  <2>2. ASSUME NEW k \in DOMAIN Tail(s), Tail(s)[k] = Goodbye(p)
        PROVE  /\ \A l \in DOMAIN Tail(s) : l > k => Tail(s)[l].peers # {p}
               /\ t = <<>> /\ st \in Over
    <3>1. /\ \A l \in DOMAIN s : l > k + 1 => s[l].peers # {p}
          /\ t = <<>> /\ st \in Over
      BY <2>1, <2>2 DEF Agree
    <3>2. ASSUME NEW l \in DOMAIN Tail(s), l > k PROVE l + 1 > k + 1
      BY <2>1, <3>2
    <3> QED BY <2>1, <3>1, <3>2
  <2>3. ASSUME NEW k \in DOMAIN Tail(s), Tail(s)[k] = Offer(p)
        PROVE  st = "offered" /\ \A l \in DOMAIN Tail(s) : Tail(s)[l] = Offer(p) => l = k
    <3>1. st = "offered" /\ \A l \in DOMAIN s : s[l] = Offer(p) => l = k + 1
      BY <2>1, <2>3 DEF Agree
    <3> QED BY <2>1, <3>1
  <2> QED BY <2>2, <2>3 DEF Agree
<1>2. ASSUME Head(s) = Offer(p) PROVE st = "offered" /\ Agree(p, Tail(s), t, "starting")
  <2>1. st = "offered" /\ \A l \in DOMAIN s : s[l] = Offer(p) => l = 1
    BY <1>2, Tailed DEF Agree
  <2>2. \A k \in DOMAIN Tail(s) : Tail(s)[k] # Offer(p)
    BY <2>1, Tailed
  <2> QED BY <1>1, <2>1, <2>2 DEF Agree, Over
<1>3. Head(s) = Goodbye(p) => st \in Over
  BY Tailed DEF Agree
<1>4. ASSUME Leaving(p, s, t), Head(s) # Goodbye(p) PROVE Leaving(p, Tail(s), t)
  <2>1. CASE \E k \in DOMAIN s : s[k] = Goodbye(p)
    <3>1. PICK k \in DOMAIN s : s[k] = Goodbye(p)
      BY <2>1
    <3>2. k - 1 \in DOMAIN Tail(s) /\ Tail(s)[k - 1] = Goodbye(p)
      BY <1>4, <3>1, Tailed
    <3> QED BY <3>2 DEF Leaving
  <2> QED BY <1>4, <2>1 DEF Leaving
<1> QED BY <1>1, <1>2, <1>3, <1>4

LEMMA AgreeOffer ==
    ASSUME NEW p \in Peer, NEW s \in Seq(TorEvent), NEW t, Agree(p, s, t, "new")
    PROVE  Agree(p, Append(s, Offer(p)), t, "offered") /\ Agree(p, s, t, "ended")
<1>1. /\ \A k \in DOMAIN s : s[k] # Goodbye(p) /\ s[k] # Offer(p)
      /\ t = <<>>
  BY DEF Agree, Over
<1> QED BY <1>1, Appended, Distinct DEF Agree

-----------------------------------------------------------------------------
(* The steps.                                                              *)

LEMMA Start0 == Init => IndInv
<1> SUFFICES ASSUME Init PROVE IndInv
  OBVIOUS
<1>1. "pc" \in DOMAIN loop
  BY DEF Init, Loop, Busy
<1>2. Typed
  BY <1>1 DEF Init, Typed, Status
<1> QED BY <1>2 DEF Init, IndInv, Agree, Known, Done

\* The other peers when p does something to its own events only.
LEMMA OthersKeep ==
    ASSUME IndInv, NEW p \in Peer, NEW q \in Peer, q # p,
           NEW e \in TorEvent, e.peers # {q}, TorDone' = TorDone, members' = members,
           torEvent' \in {torEvent, Append(torEvent, e)},
           events'[q] = events[q], status'[q] = status[q]
    PROVE  Agree(q, torEvent, events[q], status[q])' /\ Known(q)'
<1>1. torEvent \in Seq(TorEvent) /\ Agree(q, torEvent, events[q], status[q]) /\ Known(q)
  BY DEF IndInv, Typed
<1>2. /\ Agree(q, torEvent', events[q], status[q])
      /\ Leaving(q, torEvent, events[q]) => Leaving(q, torEvent', events[q])
  BY <1>1, AgreeOther
<1>3. Done(q)' <=> Done(q)
  BY DEF Done
<1> QED BY <1>1, <1>2, <1>3 DEF Known

\* The loop goes on, and nobody else notices.
LEMMA QuietStep ==
    ASSUME IndInv, UNCHANGED <<torEvent, members, status, events>>,
           "pc" \in DOMAIN loop', TorDone => TorDone'
    PROVE  IndInv'
<1>1. Typed'
  BY DEF IndInv, Typed
<1>2. ASSUME NEW q \in Peer
      PROVE  Agree(q, torEvent, events[q], status[q])' /\ Known(q)'
  BY DEF IndInv, Known, Done
<1> QED BY <1>1, <1>2 DEF IndInv

LEMMA BusyShape ==
    ASSUME NEW a, NEW w, NEW r
    PROVE  "pc" \in DOMAIN Busy(a, w, r) /\ Busy(a, w, r).pc \notin {"done", "deleted"}
BY DEF Busy

LEMMA BusyStep ==
    ASSUME IndInv, NEW a, NEW w, NEW r, loop' = Busy(a, w, r), ~TorDone,
           UNCHANGED <<torEvent, members, status, events>>
    PROVE  IndInv'
<1>1. "pc" \in DOMAIN loop'
  BY BusyShape
<1> QED BY <1>1, QuietStep

LEMMA AskSomeStep ==
    ASSUME IndInv, AskSome, ~TorDone,
           UNCHANGED <<torEvent, members, status, events>>
    PROVE  IndInv'
BY BusyStep DEF AskSome

\* writeEvent delivers or keeps.
LEMMA PutStep ==
    ASSUME IndInv, NEW p \in Peer, NEW e \in TorEvent, Shaped(e), writeEvent(p, e)
    PROVE  /\ \/ torEvent' = Append(torEvent, e) /\ events' = events /\ events[p] = <<>>
              \/ /\ torEvent' = torEvent
                 /\ events' = [events EXCEPT ![p] = Append(events[p], e)]
           /\ torEvent' \in Seq(TorEvent) /\ \A k \in DOMAIN torEvent' : Shaped(torEvent'[k])
           /\ events' \in [Peer -> Seq(TorEvent)]
<1>1. /\ torEvent \in Seq(TorEvent) /\ \A k \in DOMAIN torEvent : Shaped(torEvent[k])
      /\ events \in [Peer -> Seq(TorEvent)] /\ events[p] \in Seq(TorEvent)
  BY DEF IndInv, Typed
<1>2. CASE torEvent' = Append(torEvent, e) /\ events' = events /\ events[p] = <<>>
  <2>1. torEvent' \in Seq(TorEvent) /\ \A k \in DOMAIN torEvent' : Shaped(torEvent'[k])
    BY <1>1, <1>2, Appended
  <2> QED BY <1>1, <1>2, <2>1
<1>3. CASE /\ torEvent' = torEvent
           /\ events' = [events EXCEPT ![p] = Append(events[p], e)]
  <2>1. Append(events[p], e) \in Seq(TorEvent)
    BY <1>1, Appended
  <2> QED BY <1>1, <1>3, <2>1
<1> QED BY <1>2, <1>3 DEF writeEvent

LEMMA NoteStep ==
    ASSUME IndInv, NEW p \in Peer, status[p] \in {"starting", "running"},
           status' = [status EXCEPT ![p] = "running"], writeEvent(p, Note(p)),
           members' = members, loop' = loop
    PROVE  IndInv'
<1>1. /\ Note(p) \in TorEvent /\ Shaped(Note(p))
      /\ torEvent \in Seq(TorEvent) /\ events[p] \in Seq(TorEvent)
      /\ events \in [Peer -> Seq(TorEvent)] /\ status \in [Peer -> Status]
      /\ Agree(p, torEvent, events[p], status[p]) /\ Known(p)
  BY Distinct DEF IndInv, Typed
<1>2. TorDone' = TorDone /\ status'[p] = "running"
  BY <1>1 DEF TorDone
<1>3. Typed'
  BY <1>1, PutStep DEF IndInv, Typed, Status
<1>4. Agree(p, torEvent, events[p], status[p])'
  <2>1. CASE torEvent' = Append(torEvent, Note(p)) /\ events' = events
    BY <1>1, <1>2, <2>1, AgreeNote
  <2>2. CASE torEvent' = torEvent /\ events' = [events EXCEPT ![p] = Append(events[p], Note(p))]
    <3>1. events'[p] = Append(events[p], Note(p))
      BY <1>1, <2>2
    <3> QED BY <1>1, <1>2, <2>2, <3>1, AgreeNote
  <2> QED BY <1>1, <2>1, <2>2, PutStep
<1>5. Known(p)'
  <2>1. ~TorDone => p \in members
    BY <1>1 DEF Known
  <2> QED BY <1>2, <2>1 DEF Known, Done
<1>6. ASSUME NEW q \in Peer, q # p
      PROVE  Agree(q, torEvent, events[q], status[q])' /\ Known(q)'
  <2>1. /\ torEvent' \in {torEvent, Append(torEvent, Note(p))}
        /\ events'[q] = events[q] /\ status'[q] = status[q]
    BY <1>1, <1>6, PutStep
  <2>2. Note(p).peers # {q}
    BY <1>6, Others
  <2> QED BY <1>1, <1>2, <1>6, <2>1, <2>2, OthersKeep
<1> QED BY <1>3, <1>4, <1>5, <1>6 DEF IndInv

LEMMA LeaveStep == ASSUME IndInv, NEW p \in Peer, Leave(p) PROVE IndInv'
<1>0. /\ status[p] = "running" /\ status' = [status EXCEPT ![p] = "leaving"]
      /\ writeEvent(p, Goodbye(p)) /\ members' = members /\ loop' = loop
  BY DEF Leave, Goodbye
<1>1. /\ Goodbye(p) \in TorEvent /\ Shaped(Goodbye(p))
      /\ torEvent \in Seq(TorEvent) /\ events[p] \in Seq(TorEvent)
      /\ events \in [Peer -> Seq(TorEvent)] /\ status \in [Peer -> Status]
      /\ Agree(p, torEvent, events[p], "running") /\ Known(p)
  BY <1>0, Distinct DEF IndInv, Typed
<1>2. TorDone' = TorDone /\ status'[p] = "leaving"
  BY <1>0, <1>1 DEF TorDone
<1>3. Typed'
  BY <1>0, <1>1, PutStep DEF IndInv, Typed, Status
<1>4. /\ Agree(p, torEvent, events[p], status[p])'
      /\ Leaving(p, torEvent', events'[p])
  <2>1. CASE torEvent' = Append(torEvent, Goodbye(p)) /\ events' = events /\ events[p] = <<>>
    BY <1>1, <1>2, <2>1, AgreeGoodbye
  <2>2. CASE torEvent' = torEvent /\ events' = [events EXCEPT ![p] = Append(events[p], Goodbye(p))]
    <3>1. events'[p] = Append(events[p], Goodbye(p))
      BY <1>1, <2>2
    <3> QED BY <1>1, <1>2, <2>2, <3>1, AgreeGoodbye
  <2> QED BY <1>0, <1>1, <2>1, <2>2, PutStep
<1>5. Known(p)'
  BY <1>2, <1>4 DEF Known
<1>6. ASSUME NEW q \in Peer, q # p
      PROVE  Agree(q, torEvent, events[q], status[q])' /\ Known(q)'
  <2>1. /\ torEvent' \in {torEvent, Append(torEvent, Goodbye(p))}
        /\ events'[q] = events[q] /\ status'[q] = status[q]
    BY <1>0, <1>1, <1>6, PutStep
  <2>2. Goodbye(p).peers # {q}
    BY <1>6, Others
  <2> QED BY <1>0, <1>1, <1>2, <1>6, <2>1, <2>2, OthersKeep
<1> QED BY <1>3, <1>4, <1>5, <1>6 DEF IndInv

LEMMA DeliverStep == ASSUME IndInv, NEW p \in Peer, Deliver(p) PROVE IndInv'
<1>0. /\ events[p] # <<>> /\ UNCHANGED <<members, loop, status>>
      /\ torEvent' = Append(torEvent, Head(events[p]))
      /\ events' = [events EXCEPT ![p] = Tail(events[p])]
  BY DEF Deliver
<1>1. /\ torEvent \in Seq(TorEvent) /\ events[p] \in Seq(TorEvent)
      /\ \A k \in DOMAIN torEvent : Shaped(torEvent[k])
      /\ events \in [Peer -> Seq(TorEvent)]
      /\ Agree(p, torEvent, events[p], status[p]) /\ Known(p)
  BY DEF IndInv, Typed
<1>2. /\ TorDone' = TorDone /\ Done(p)' = Done(p)
      /\ events'[p] = Tail(events[p]) /\ status'[p] = status[p]
  BY <1>0, <1>1 DEF TorDone, Done
<1>3. /\ Head(events[p]) \in TorEvent /\ Tail(events[p]) \in Seq(TorEvent)
      /\ Head(events[p]) \in {Note(p), Goodbye(p)} /\ Shaped(Head(events[p]))
  BY <1>0, <1>1, Tailed, AgreeDeliver, Distinct
<1>4. Typed'
  <2>1. torEvent' \in Seq(TorEvent) /\ \A k \in DOMAIN torEvent' : Shaped(torEvent'[k])
    BY <1>0, <1>1, <1>3, Appended
  <2>2. events' \in [Peer -> Seq(TorEvent)]
    BY <1>0, <1>1, <1>3
  <2> QED BY <1>0, <2>1, <2>2 DEF IndInv, Typed
<1>5. Agree(p, torEvent, events[p], status[p])' /\ Known(p)'
  <2>1. /\ Agree(p, torEvent', events'[p], status'[p])
        /\ Leaving(p, torEvent, events[p]) => Leaving(p, torEvent', events'[p])
    BY <1>0, <1>1, <1>2, AgreeDeliver
  <2> QED BY <1>0, <1>1, <1>2, <2>1 DEF Known
<1>6. ASSUME NEW q \in Peer, q # p
      PROVE  Agree(q, torEvent, events[q], status[q])' /\ Known(q)'
  <2>1. /\ torEvent' \in {torEvent, Append(torEvent, Head(events[p]))}
        /\ events'[q] = events[q] /\ status'[q] = status[q]
    BY <1>0, <1>1, <1>6
  <2>2. Head(events[p]).peers # {q}
    BY <1>3, <1>6, Others
  <2> QED BY <1>0, <1>2, <1>3, <1>6, <2>1, <2>2, OthersKeep
<1> QED BY <1>4, <1>5, <1>6 DEF IndInv

\* A peer that has said goodbye ends, or one is lost before its loop.
LEMMA LastStep == ASSUME IndInv, NEW p \in Peer, End(p) PROVE IndInv'
<1>0. /\ status[p] = "leaving"
      /\ events[p] = <<>> \/ TorDone
      /\ status' = [status EXCEPT ![p] = "ended"]
      /\ events' = [events EXCEPT ![p] = <<>>] /\ UNCHANGED <<torEvent, members, loop>>
  BY DEF End, tor
<1>1. /\ torEvent \in Seq(TorEvent) /\ events \in [Peer -> Seq(TorEvent)]
      /\ status \in [Peer -> Status]
      /\ Agree(p, torEvent, events[p], "leaving") /\ Known(p)
  BY <1>0 DEF IndInv, Typed
<1>2. TorDone' = TorDone /\ status'[p] = "ended" /\ events'[p] = <<>>
  BY <1>0, <1>1 DEF TorDone
<1>3. Typed'
  <2>1. <<>> \in Seq(TorEvent)
    OBVIOUS
  <2> QED BY <1>0, <1>1, <2>1 DEF IndInv, Typed, Status
<1>4. Agree(p, torEvent, events[p], status[p])'
  <2>1. Agree(p, torEvent, <<>>, "ended")
    BY <1>1 DEF Agree, Over
  <2> QED BY <1>0, <1>2, <2>1
<1>5. Known(p)'
  <2>1. ASSUME ~TorDone, p \in members PROVE Leaving(p, torEvent, <<>>)
    BY <1>0, <1>1, <2>1 DEF Known, Done
  <2> QED BY <1>0, <1>2, <2>1 DEF Known
<1>6. ASSUME NEW q \in Peer, q # p
      PROVE  Agree(q, torEvent, events[q], status[q])' /\ Known(q)'
  <2>1. events'[q] = events[q] /\ status'[q] = status[q]
    BY <1>0, <1>1, <1>6
  <2> QED BY <1>0, <1>2, <2>1 DEF IndInv, Known, Done
<1> QED BY <1>3, <1>4, <1>5, <1>6 DEF IndInv

LEMMA StartFailsStep == ASSUME IndInv, NEW p \in Peer, StartFails(p) PROVE IndInv'
<1>0. /\ status[p] = "starting" /\ status' = [status EXCEPT ![p] = "lost"]
      /\ UNCHANGED <<torEvent, members, loop, events>>
  BY DEF StartFails, tor
<1>1. /\ status \in [Peer -> Status]
      /\ Agree(p, torEvent, events[p], "starting") /\ Known(p)
  BY <1>0 DEF IndInv, Typed
<1>2. TorDone' = TorDone /\ status'[p] = "lost"
  BY <1>0, <1>1 DEF TorDone
<1>3. Typed'
  BY <1>0, <1>1 DEF IndInv, Typed, Status
<1>4. Agree(p, torEvent, events[p], status[p])'
  <2>1. Agree(p, torEvent, events[p], "lost")
    BY <1>1 DEF Agree, Over
  <2> QED BY <1>0, <1>2, <2>1
<1>5. Known(p)'
  <2>1. ~TorDone => p \in members
    BY <1>0, <1>1 DEF Known
  <2> QED BY <1>0, <1>2, <2>1 DEF Known, Done
<1>6. ASSUME NEW q \in Peer, q # p
      PROVE  Agree(q, torEvent, events[q], status[q])' /\ Known(q)'
  <2>1. events'[q] = events[q] /\ status'[q] = status[q]
    BY <1>0, <1>1, <1>6
  <2> QED BY <1>0, <1>2, <2>1 DEF IndInv, Known, Done
<1> QED BY <1>3, <1>4, <1>5, <1>6 DEF IndInv

LEMMA NewPeerStep == ASSUME IndInv, NEW p \in Peer, NewPeer(p) PROVE IndInv'
<1>0. status[p] = "new" /\ UNCHANGED <<members, loop, events>>
  BY DEF NewPeer
<1>1. /\ torEvent \in Seq(TorEvent) /\ status \in [Peer -> Status]
      /\ \A k \in DOMAIN torEvent : Shaped(torEvent[k])
      /\ Agree(p, torEvent, events[p], "new") /\ Known(p)
      /\ Offer(p) \in TorEvent /\ Shaped(Offer(p))
  BY <1>0, Distinct DEF IndInv, Typed
<1>2. TorDone' = TorDone
  BY <1>0 DEF TorDone
<1>3. \/ torEvent' = Append(torEvent, Offer(p)) /\ status' = [status EXCEPT ![p] = "offered"]
      \/ torEvent' = torEvent /\ TorDone /\ status' = [status EXCEPT ![p] = "ended"]
  BY DEF NewPeer, Offer
<1>4. Typed'
  <2>1. Append(torEvent, Offer(p)) \in Seq(TorEvent)
    BY <1>1, Appended
  <2>2. \A k \in DOMAIN Append(torEvent, Offer(p)) : Shaped(Append(torEvent, Offer(p))[k])
    BY <1>1, Appended
  <2>3. torEvent' \in Seq(TorEvent) /\ \A k \in DOMAIN torEvent' : Shaped(torEvent'[k])
    BY <1>1, <1>3, <2>1, <2>2
  <2> QED BY <1>0, <1>1, <1>3, <2>3 DEF IndInv, Typed, Status
<1>5. Agree(p, torEvent, events[p], status[p])'
  <2>1. CASE torEvent' = Append(torEvent, Offer(p)) /\ status'[p] = "offered"
    BY <1>0, <1>1, <2>1, AgreeOffer
  <2>2. CASE torEvent' = torEvent /\ status'[p] = "ended"
    BY <1>0, <1>1, <2>2, AgreeOffer
  <2> QED BY <1>1, <1>3, <2>1, <2>2
<1>6. Known(p)'
  <2>1. CASE TorDone
    BY <1>2, <2>1 DEF Known
  <2>2. CASE ~TorDone
    <3>1. status'[p] = "offered"
      BY <1>1, <1>3, <2>2
    <3> QED BY <3>1 DEF Known, Done
  <2> QED BY <2>1, <2>2
<1>7. ASSUME NEW q \in Peer, q # p
      PROVE  Agree(q, torEvent, events[q], status[q])' /\ Known(q)'
  <2>1. /\ torEvent' \in {torEvent, Append(torEvent, Offer(p))}
        /\ events'[q] = events[q] /\ status'[q] = status[q]
    BY <1>0, <1>1, <1>3, <1>7
  <2>2. Offer(p).peers # {q}
    BY <1>7, Others
  <2> QED BY <1>0, <1>1, <1>2, <1>7, <2>1, <2>2, OthersKeep
<1> QED BY <1>4, <1>5, <1>6, <1>7 DEF IndInv

\* Kill and Request.
LEMMA UserStep ==
    ASSUME IndInv, NEW e \in TorEvent, e.peers = {}, e.type \notin {"add", "goaway"},
           torEvent' = Append(torEvent, e), UNCHANGED <<members, loop, status, events>>
    PROVE  IndInv'
<1>1. torEvent \in Seq(TorEvent) /\ \A k \in DOMAIN torEvent : Shaped(torEvent[k])
  BY DEF IndInv, Typed
<1>2. Shaped(e)
  BY DEF Shaped
<1>3. torEvent' \in Seq(TorEvent) /\ \A k \in DOMAIN torEvent' : Shaped(torEvent'[k])
  BY <1>1, <1>2, Appended
<1>4. Typed'
  BY <1>3 DEF IndInv, Typed
<1>5. TorDone' = TorDone
  BY DEF TorDone
<1>6. ASSUME NEW q \in Peer
      PROVE  Agree(q, torEvent, events[q], status[q])' /\ Known(q)'
  <2>1. /\ Agree(q, torEvent', events[q], status[q])
        /\ Leaving(q, torEvent, events[q]) => Leaving(q, torEvent', events[q])
    BY <1>1, AgreeOther DEF IndInv
  <2> QED BY <1>5, <2>1 DEF IndInv, Known, Done
<1> QED BY <1>4, <1>6 DEF IndInv

\* The torrent's loop takes an event from its channel.
LEMMA HandleStep == ASSUME IndInv, HandleEvent PROVE IndInv'
<1> DEFINE e == Head(torEvent)
<1>0. /\ loop.pc = "loop" /\ torEvent # <<>> /\ torEvent' = Tail(torEvent)
      /\ events' = events /\ ~TorDone
  BY DEF HandleEvent, TorDone
<1>1. /\ torEvent \in Seq(TorEvent) /\ status \in [Peer -> Status]
      /\ \A k \in DOMAIN torEvent : Shaped(torEvent[k])
  BY DEF IndInv, Typed
<1>2. /\ torEvent' \in Seq(TorEvent) /\ \A k \in DOMAIN torEvent' : Shaped(torEvent'[k])
      /\ e \in TorEvent /\ Shaped(e)
  BY <1>0, <1>1, Tailed
<1>3. e = Event(e.type, e.peers)
  BY <1>2 DEF TorEvent, Event
<1>4. ASSUME NEW q \in Peer, status'[q] = status[q], e # Goodbye(q),
             q \in members' <=> q \in members
      PROVE  Agree(q, torEvent, events[q], status[q])' /\ Known(q)'
  <2>1. /\ Agree(q, torEvent', events[q], status[q])
        /\ Leaving(q, torEvent, events[q]) => Leaving(q, torEvent', events[q])
    BY <1>0, <1>1, <1>4, AgreeTaken DEF IndInv
  <2> QED BY <1>0, <1>4, <2>1 DEF IndInv, Known, Done
<1>5. CASE e.type = "add"
  <2>1. PICK p \in e.peers : TorAddPeer(p)
    BY <1>5 DEF HandleEvent
  <2>2. p \in Peer /\ e = Offer(p)
    BY <1>2, <1>3, <1>5 DEF TorEvent, Shaped, Offer
  <2>3. /\ members' = members \cup {p} /\ status' = [status EXCEPT ![p] = "starting"]
        /\ \E a, w : loop' = Busy(a, w, FALSE)
    BY <2>1 DEF TorAddPeer
  <2>4. Typed'
    BY <1>0, <1>1, <1>2, <2>3, BusyShape DEF IndInv, Typed, Status
  <2>5. status'[p] = "starting"
    BY <1>1, <2>2, <2>3
  <2>6. Agree(p, torEvent, events[p], status[p])'
    BY <1>0, <1>1, <2>2, <2>5, AgreeTaken DEF IndInv
  <2>7. Known(p)'
    BY <2>3, <2>5 DEF Known, Done
  <2>8. ASSUME NEW q \in Peer, q # p
        PROVE  Agree(q, torEvent, events[q], status[q])' /\ Known(q)'
    <3>1. e # Goodbye(q) /\ status'[q] = status[q] /\ (q \in members' <=> q \in members)
      BY <1>1, <2>2, <2>3, <2>8, Others, Distinct
    <3> QED BY <1>4, <3>1
  <2> QED BY <2>4, <2>6, <2>7, <2>8 DEF IndInv
<1>6. CASE e.type = "goaway"
  <2>1. PICK p \in e.peers : TorPeerGoaway(p)
    BY <1>6 DEF HandleEvent
  <2>2. p \in Peer /\ e = Goodbye(p)
    BY <1>2, <1>3, <1>6 DEF TorEvent, Shaped, Goodbye
  <2>3. /\ members' = members \ {p} /\ status' = status
        /\ \E a, w : loop' = Busy(a, w, FALSE)
    BY <2>1 DEF TorPeerGoaway, delPeer
  <2>4. Typed'
    BY <1>0, <1>1, <1>2, <2>3, BusyShape DEF IndInv, Typed
  <2>5. /\ Agree(p, torEvent', events[p], status[p]) /\ status[p] \in Over
    BY <1>0, <1>1, <2>2, AgreeTaken DEF IndInv
  <2>6. Agree(p, torEvent, events[p], status[p])' /\ Known(p)'
    BY <1>0, <2>3, <2>5 DEF Known, Over
  <2>7. ASSUME NEW q \in Peer, q # p
        PROVE  Agree(q, torEvent, events[q], status[q])' /\ Known(q)'
    <3>1. e # Goodbye(q) /\ status'[q] = status[q] /\ (q \in members' <=> q \in members)
      BY <2>2, <2>3, <2>7, Others, Distinct
    <3> QED BY <1>4, <3>1
  <2> QED BY <2>4, <2>6, <2>7 DEF IndInv
<1>7. CASE e.type \in {"note", "request", "kill"}
  <2>1. /\ members' = members /\ status' = status /\ "pc" \in DOMAIN loop'
    <3>1. CASE e.type = "note"
      BY <3>1, BusyShape DEF HandleEvent, TorNote, AskSome
    <3>2. CASE e.type = "request"
      BY <3>2, BusyShape DEF HandleEvent, TorRequest
    <3>3. CASE e.type = "kill"
      BY <3>3, BusyShape DEF HandleEvent, TorGoAway, Loop
    <3> QED BY <1>7, <3>1, <3>2, <3>3
  <2>2. Typed'
    BY <1>0, <1>1, <1>2, <2>1 DEF IndInv, Typed
  <2>3. ASSUME NEW q \in Peer
        PROVE  Agree(q, torEvent, events[q], status[q])' /\ Known(q)'
    <3>1. e # Goodbye(q)
      BY <1>7 DEF Goodbye, Event
    <3> QED BY <1>4, <2>1, <3>1
  <2> QED BY <2>2, <2>3 DEF IndInv
<1> QED BY <1>2, <1>5, <1>6, <1>7 DEF TorEvent

LEMMA PeerStep == ASSUME IndInv, NEW p \in Peer, PeerNext(p) PROVE IndInv'
<1>1. CASE Start(p)
  BY <1>1, NoteStep DEF Start, Note
<1>2. ASSUME status[p] = "running", status' = status, writeEvent(p, Event("note", {p})),
             members' = members, loop' = loop
      PROVE  IndInv'
  <2>1. status' = [status EXCEPT ![p] = "running"]
    BY <1>2 DEF IndInv, Typed
  <2> QED BY <1>2, <2>1, NoteStep DEF Note
<1>3. CASE Message(p)
  BY <1>2, <1>3 DEF Message
<1>4. CASE Serve(p)
  <2>1. CASE UNCHANGED <<torEvent, events>>
    <3>1. UNCHANGED <<torEvent, members, status, events>> /\ loop' = loop
      BY <1>4, <2>1 DEF Serve
    <3> QED BY <3>1, QuietStep DEF IndInv, Typed, TorDone
  <2>2. CASE writeEvent(p, Event("note", {p}))
    BY <1>2, <1>4, <2>2 DEF Serve
  <2> QED BY <1>4, <2>1, <2>2 DEF Serve
<1>5. CASE Answer(p)
  BY <1>5, BusyStep DEF Answer, TorDone
<1> QED BY <1>1, <1>3, <1>4, <1>5, StartFailsStep, DeliverStep, LeaveStep, LastStep DEF PeerNext

LEMMA TorrentStep == ASSUME IndInv, TorrentNext PROVE IndInv'
<1>1. CASE Reply
  BY <1>1, AskSomeStep DEF Reply, TorDone, peers
<1>2. CASE Delete
  <2>1. "pc" \in DOMAIN loop' /\ loop'.pc = "deleted"
    BY <1>2 DEF Delete, IndInv, Typed
  <2> QED BY <1>2, <2>1, QuietStep DEF Delete, TorDone, peers
<1>3. ASSUME NEW p \in Peer, Ask(p) PROVE IndInv'
  <2>0. ~TorDone /\ UNCHANGED <<torEvent, members, status, events>>
    BY <1>3 DEF Ask, TorDone
  <2>1. CASE loop' = [loop EXCEPT !.pc = "wait", !.asked = {p}, !.ask = @ \ {p}]
    <3>1. "pc" \in DOMAIN loop'
      BY <2>1 DEF IndInv, Typed
    <3> QED BY <2>0, <3>1, QuietStep
  <2>2. CASE loop' = Busy(loop.ask \ {p}, loop.to, loop.reply)
    BY <2>0, <2>2, BusyStep
  <2> QED BY <1>3, <2>1, <2>2 DEF Ask
<1>4. ASSUME NEW p \in Peer, AskFails(p) PROVE IndInv'
  BY <1>4, BusyStep DEF AskFails, TorDone, peers
<1>5. ASSUME NEW p \in Peer, writePeer(p) PROVE IndInv'
  BY <1>5, BusyStep DEF writePeer, TorDone
<1> QED BY <1>1, <1>2, <1>3, <1>4, <1>5, HandleStep DEF TorrentNext

LEMMA StepInv == ASSUME IndInv, [Next]_vars PROVE IndInv'
<1>0. ASSUME UNCHANGED <<torEvent, members, status, events, loop>> PROVE IndInv'
  BY <1>0, QuietStep DEF IndInv, Typed, TorDone
<1>1. CASE UNCHANGED vars
  BY <1>0, <1>1 DEF vars
<1>2. CASE Ticker
  BY <1>2, AskSomeStep DEF Ticker, TorDone, peers
<1>3. CASE Kill
  <2>1. CASE torEvent' = Append(torEvent, Event("kill", {}))
    <3>1. /\ Event("kill", {}) \in TorEvent /\ Event("kill", {}).peers = {}
          /\ Event("kill", {}).type \notin {"add", "goaway"}
      BY DEF Event, TorEvent
    <3>2. UNCHANGED <<members, loop, status, events>>
      BY <1>3 DEF Kill, peers
    <3> QED BY <2>1, <3>1, <3>2, UserStep
  <2> QED BY <1>0, <1>3, <2>1 DEF Kill, peers
<1>4. CASE KillReturns
  BY <1>0, <1>4 DEF KillReturns, peers, tor
<1>5. CASE Request
  <2>1. CASE torEvent' = Append(torEvent, Event("request", {}))
    <3>1. /\ Event("request", {}) \in TorEvent /\ Event("request", {}).peers = {}
          /\ Event("request", {}).type \notin {"add", "goaway"}
      BY DEF Event, TorEvent
    <3>2. UNCHANGED <<members, loop, status, events>>
      BY <1>5 DEF Request, peers
    <3> QED BY <2>1, <3>1, <3>2, UserStep
  <2> QED BY <1>0, <1>5, <2>1 DEF Request, peers
<1> QED BY <1>1, <1>2, <1>3, <1>4, <1>5, PeerStep, NewPeerStep, TorrentStep DEF Next

LEMMA Invariance == Spec => []IndInv
<1>1. IndInv /\ [Next]_vars => IndInv'
  BY StepInv
<1> QED BY <1>1, Start0, PTL DEF Spec

\* However many peers there are and whatever the capacities of the channels,
\* no event of a peer follows its TorPeerGoaway, and a member whose loop has
\* ended has its TorPeerGoaway on the way to delPeer.
THEOREM SwarmGoodbyeIsLast == Spec => []GoodbyeIsLast
<1>1. IndInv => GoodbyeIsLast
  BY DEF IndInv, Agree, Known, Leaving, GoodbyeIsLast
<1> QED BY <1>1, Invariance, PTL

-----------------------------------------------------------------------------
(* The handshake.                                                          *)

Name == {"header", "hash", "id", "msg"}
Cell == Name \X Int \X Int

Shapes ==
    /\ DOMAIN pc = Side /\ DOMAIN conn = Side /\ DOMAIN buf = Side /\ DOMAIN wire = Side
    /\ sent \in [Side -> Nat]

Heads(b) == Len(b) >= HeaderLen /\ \A k \in 1 .. HeaderLen : b[k] = <<"header", k, Clear>>
Cipher == IF select = 2 THEN "rc4" ELSE "plain"
Within == {"hash", "id", "up"}

\* The client spoke in clear: nobody ever encrypts, and a server that takes
\* no such client does not get beyond its greeting.
InClear ==
    /\ pc["C"] \in {"dial", "reply", "up", "closed"}
    /\ pc["S"] \in {"head", "alien", "closed"} \cup Within
    /\ select = 0 /\ conn["C"] = "plain" /\ conn["S"] = "plain"
    /\ pc["S"] \in Within => ~options["S"].ForceCryptoHandshake

\* It did not: the server chose a cipher before the client uses one.
InCrypto ==
    /\ select \in {0, 1, 2}
    /\ select # 0 => pc["S"] \in Within \cup {"closed"} /\ conn["S"] = Cipher
    /\ select = 0 => /\ conn["S"] = "plain"
                     /\ pc["S"] \in Within => ~options["S"].ForceCryptoHandshake
    /\ select = 1 => ~options["S"].ForceEncryption
    /\ pc["C"] \in {"dial", "yb", "sync", "select"} => conn["C"] = "plain"
    /\ pc["C"] \in {"dial", "yb", "sync", "select", "reply", "up", "closed"}
    /\ pc["C"] \in {"reply", "up"} =>
          /\ select # 0 /\ conn["C"] = Cipher
          /\ select = 1 => ~options["C"].ForceEncryption

\* A server that has not looked yet at what a client says in clear will find
\* a handshake, if it finds anything.
Greets ==
    ~cryptoHandshake /\ pc["S"] = "head" =>
        /\ buf["S"] \in Seq(Cell) /\ wire["S"] \in Seq(Cell)
        /\ \/ pc["C"] \in {"dial", "closed"} /\ buf["S"] \o wire["S"] = <<>>
           \/ Heads(buf["S"] \o wire["S"])

Control ==
    /\ options["C"] \in Policies
    /\ pc["S"] \notin {"alien", "closed"} => options["S"] \in Policies
    /\ options["C"].ForceCryptoHandshake => cryptoHandshake
    /\ cryptoHandshake => InCrypto
    /\ ~cryptoHandshake => InClear

HandshakeInv == Shapes /\ Control /\ Greets

LEMMA PolicyFacts ==
    ASSUME NEW o \in Policies
    PROVE  /\ o.AllowCryptoHandshake /\ o.AllowEncryption
           /\ o.ForceCryptoHandshake => o.PreferCryptoHandshake /\ o.ForceEncryption
           /\ o.ForceEncryption => o.PreferEncryption /\ o.ForceCryptoHandshake
<1>1. PICK p \in BOOLEAN, f \in BOOLEAN : o = DefaultOptions(p, f)
  BY DEF Policies
<1> QED BY <1>1 DEF DefaultOptions

LEMMA Sides == "C" \in Side /\ "S" \in Side /\ Other("C") = "S" /\ Other("S") = "C"
BY DEF Side, Other

\* What Goto and Put do to the state of the two ends.
LEMMA GotoC ==
    ASSUME Shapes, NEW next, NEW rest, Goto("C", next, rest)
    PROVE  /\ pc'["C"] = next /\ pc'["S"] = pc["S"] /\ buf'["S"] = buf["S"]
           /\ DOMAIN pc' = Side /\ DOMAIN buf' = Side
BY Sides DEF Goto, Shapes

LEMMA GotoS ==
    ASSUME Shapes, NEW next, NEW rest, Goto("S", next, rest)
    PROVE  /\ pc'["S"] = next /\ pc'["C"] = pc["C"]
           /\ DOMAIN pc' = Side /\ DOMAIN buf' = Side
BY Sides DEF Goto, Shapes

LEMMA PutShape ==
    ASSUME Shapes, NEW e \in Side, NEW cells, Put(e, cells)
    PROVE  DOMAIN wire' = Side /\ wire'[e] = wire[e]
BY DEF Put, Shapes, Side, Other

LEMMA PutC ==
    ASSUME Shapes, NEW cells, Put("C", cells), pc["S"] # "closed"
    PROVE  wire'["S"] = wire["S"] \o cells
BY Sides DEF Put, Shapes

\* An end gives up.
LEMMA FailC == ASSUME HandshakeInv, Fail("C"), options' = options PROVE HandshakeInv'
<1>1. /\ pc'["C"] = "closed" /\ pc'["S"] = pc["S"] /\ buf'["S"] = buf["S"]
      /\ DOMAIN pc' = Side /\ DOMAIN buf' = Side
  BY GotoC DEF Fail, HandshakeInv
<1>2. wire'["S"] = wire["S"] /\ DOMAIN wire' = Side
  BY Sides DEF Fail, HandshakeInv, Shapes
<1>3. UNCHANGED <<cryptoHandshake, select, conn, sent>>
  BY DEF Fail
<1>4. Shapes'
  BY <1>1, <1>2, <1>3 DEF HandshakeInv, Shapes
<1>5. Control'
  BY <1>1, <1>3 DEF HandshakeInv, Control, InClear, InCrypto, Cipher
<1>6. Greets'
  BY <1>1, <1>2, <1>3 DEF HandshakeInv, Greets
<1> QED BY <1>4, <1>5, <1>6 DEF HandshakeInv

LEMMA FailS == ASSUME HandshakeInv, Fail("S"), options' = options PROVE HandshakeInv'
<1>1. /\ pc'["S"] = "closed" /\ pc'["C"] = pc["C"]
      /\ DOMAIN pc' = Side /\ DOMAIN buf' = Side
  BY GotoS DEF Fail, HandshakeInv
<1>2. DOMAIN wire' = Side
  BY Sides DEF Fail, HandshakeInv, Shapes
<1>3. UNCHANGED <<cryptoHandshake, select, conn, sent>>
  BY DEF Fail
<1>4. Shapes'
  BY <1>1, <1>2, <1>3 DEF HandshakeInv, Shapes
<1>5. Control'
  <2>1. InCrypto => InCrypto'
    BY <1>1, <1>3 DEF InCrypto, Cipher, Within
  <2>2. InClear => InClear'
    BY <1>1, <1>3 DEF InClear, Within
  <2> QED BY <1>1, <1>3, <2>1, <2>2, Zenon DEF HandshakeInv, Control
<1>6. Greets'
  BY <1>1 DEF Greets
<1> QED BY <1>4, <1>5, <1>6 DEF HandshakeInv

\* The server goes on without choosing a cipher.
LEMMA ServerOn ==
    ASSUME HandshakeInv, NEW next, NEW rest, Goto("S", next, rest),
           options' = options, cryptoHandshake' = cryptoHandshake, select' = select,
           conn' = conn, sent' = sent, DOMAIN wire' = Side,
           pc["S"] \notin {"alien", "closed"}, next # "head",
           next \in Within => pc["S"] \in Within \/ ~options["S"].ForceCryptoHandshake,
           next \in Within \/ cryptoHandshake,
           select # 0 => next \in Within
    PROVE  HandshakeInv'
<1>1. /\ pc'["S"] = next /\ pc'["C"] = pc["C"] /\ DOMAIN pc' = Side /\ DOMAIN buf' = Side
  BY GotoS DEF HandshakeInv
<1>2. Shapes'
  BY <1>1 DEF HandshakeInv, Shapes
<1>3. Control'
  BY <1>1 DEF HandshakeInv, Control, InClear, InCrypto, Cipher
<1>4. Greets'
  BY <1>1 DEF Greets
<1> QED BY <1>2, <1>3, <1>4 DEF HandshakeInv

\* The client goes on without having a cipher.
LEMMA ClientOn ==
    ASSUME HandshakeInv, NEW next \in {"yb", "sync", "select"}, NEW rest, Goto("C", next, rest),
           options' = options, cryptoHandshake' = cryptoHandshake, select' = select,
           conn' = conn, sent' = sent, DOMAIN wire' = Side, cryptoHandshake,
           pc["C"] \in {"dial", "yb", "sync"}
    PROVE  HandshakeInv'
<1>1. /\ pc'["C"] = next /\ pc'["S"] = pc["S"] /\ DOMAIN pc' = Side /\ DOMAIN buf' = Side
  BY GotoC DEF HandshakeInv
<1>2. Shapes'
  BY <1>1 DEF HandshakeInv, Shapes
<1>3. InCrypto => InCrypto'
  BY <1>1 DEF InCrypto, Cipher, Within
<1>4. Control'
  BY <1>1, <1>3, Zenon DEF HandshakeInv, Control
<1>5. Greets'
  BY <1>1 DEF Greets
<1> QED BY <1>2, <1>4, <1>5 DEF HandshakeInv

-----------------------------------------------------------------------------
(* What the client says in clear.                                          *)

LEMMA IsASeq ==
    ASSUME NEW S, NEW n \in Nat, NEW s \in [1 .. n -> S] PROVE s \in Seq(S) /\ Len(s) = n
OBVIOUS

LEMMA OneCell == ASSUME NEW S, NEW x \in S PROVE <<x>> \in Seq(S)
OBVIOUS

LEMMA FieldCells ==
    ASSUME NEW f \in Name, NEW n \in Nat
    PROVE  /\ Field(f, n) \in Seq(Cell) /\ Len(Field(f, n)) = n
           /\ \A k \in 1 .. n : Field(f, n)[k] = <<f, k, Clear>>
<1>1. Clear \in Int /\ \A k \in 1 .. n : k \in Int
  BY DEF Clear
<1>2. \A k \in 1 .. n : <<f, k, Clear>> \in Cell
  BY <1>1, Zenon DEF Cell
<1>3. /\ Field(f, n) = [k \in 1 .. n |-> Field(f, n)[k]]
      /\ \A k \in 1 .. n : Field(f, n)[k] = <<f, k, Clear>>
  BY Zenon DEF Field
<1>4. Field(f, n) \in [1 .. n -> Cell]
  BY <1>2, <1>3, Zenon
<1> QED BY <1>3, <1>4, IsASeq

LEMMA Lengths == /\ HeaderLen \in Nat \ {0} /\ HashLen \in Nat \ {0} /\ IdLen \in Nat \ {0}
                 /\ HandshakeLen \in Nat /\ HandshakeLen >= HeaderLen
BY LengthsAssumption DEF HandshakeLen

LEMMA HandshakeHeads == Handshake \in Seq(Cell) /\ Heads(Handshake)
<1> DEFINE a == Field("header", HeaderLen)
           b == Field("hash", HashLen)
           c == Field("id", IdLen)
<1>1. /\ a \in Seq(Cell) /\ b \in Seq(Cell) /\ c \in Seq(Cell)
      /\ Len(a) = HeaderLen /\ \A k \in 1 .. HeaderLen : a[k] = <<"header", k, Clear>>
  BY FieldCells, Lengths, Zenon DEF Name
<1>2. Handshake = a \o b \o c
  BY DEF Handshake
<1> HIDE DEF a, b, c
<1>3. /\ a \o b \in Seq(Cell) /\ Len(a \o b) >= HeaderLen
      /\ \A k \in 1 .. HeaderLen : (a \o b)[k] = a[k]
  BY <1>1, Lengths
<1>4. /\ Handshake \in Seq(Cell) /\ Len(Handshake) >= HeaderLen
      /\ \A k \in 1 .. HeaderLen : Handshake[k] = (a \o b)[k]
  BY <1>1, <1>2, <1>3, Lengths
<1>5. \A k \in 1 .. HeaderLen : Handshake[k] = <<"header", k, Clear>>
  BY <1>1, <1>3, <1>4, Zenon
<1> QED BY <1>4, <1>5 DEF Heads

LEMMA HeadsMore ==
    ASSUME NEW s \in Seq(Cell), NEW t \in Seq(Cell), Heads(s) PROVE Heads(s \o t)
BY Lengths DEF Heads

LEMMA HeadsFound ==
    ASSUME NEW s \in Seq(Cell), NEW t \in Seq(Cell), Heads(s \o t), Len(s) >= HeaderLen
    PROVE  CheckHeader(s)
<1> DEFINE h == Field("header", HeaderLen)
<1>1. /\ h \in Seq(Cell) /\ Len(h) = HeaderLen
      /\ \A k \in 1 .. HeaderLen : h[k] = <<"header", k, Clear>>
  BY FieldCells, Lengths, Zenon DEF Name
<1> HIDE DEF h
<1>2. \A k \in 1 .. HeaderLen : s[k] = h[k]
  <2>1. \A k \in 1 .. HeaderLen : (s \o t)[k] = s[k]
    BY Lengths
  <2>2. \A k \in 1 .. HeaderLen : (s \o t)[k] = <<"header", k, Clear>>
    BY DEF Heads
  <2> QED BY <1>1, <2>1, <2>2, Zenon
<1>3. HasPrefix(s, h)
  BY <1>1, <1>2, Lengths DEF HasPrefix
<1> QED BY <1>3 DEF CheckHeader, h

LEMMA GreetMore ==
    ASSUME NEW s \in Seq(Cell), NEW t \in Seq(Cell), NEW u \in Seq(Cell),
           (s \o t = <<>> /\ Heads(u)) \/ Heads(s \o t)
    PROVE  t \o u \in Seq(Cell) /\ Heads(s \o (t \o u))
<1>1. t \o u \in Seq(Cell) /\ s \o t \in Seq(Cell)
  OBVIOUS
<1>2. s \o (t \o u) = (s \o t) \o u
  OBVIOUS
<1>3. CASE s \o t = <<>> /\ Heads(u)
  BY <1>1, <1>2, <1>3
<1>4. CASE Heads(s \o t)
  <2>1. Heads((s \o t) \o u)
    BY <1>1, <1>4, HeadsMore
  <2> QED BY <1>1, <1>2, <2>1, Zenon
<1> QED BY <1>3, <1>4

LEMMA Refill ==
    ASSUME NEW s \in Seq(Cell), NEW t \in Seq(Cell), NEW k \in 1 .. Len(t)
    PROVE  /\ s \o Take(t, k) \in Seq(Cell) /\ Drop(t, k) \in Seq(Cell)
           /\ (s \o Take(t, k)) \o Drop(t, k) = s \o t
<1>1. Take(t, k) \in Seq(Cell) /\ Drop(t, k) \in Seq(Cell)
  BY DEF Take, Drop
<1>2. Take(t, k) \o Drop(t, k) = t
  BY DEF Take, Drop
<1>3. (s \o Take(t, k)) \o Drop(t, k) = s \o (Take(t, k) \o Drop(t, k))
  BY <1>1
<1> QED BY <1>1, <1>2, <1>3

-----------------------------------------------------------------------------
(* The steps of the client.                                                *)

LEMMA DialStep == ASSUME HandshakeInv, Dial PROVE HandshakeInv'
<1>1. /\ Shapes /\ Control /\ Greets /\ pc["C"] = "dial"
      /\ UNCHANGED <<options, cryptoHandshake, select, conn, sent>>
  BY DEF HandshakeInv, Dial, config
<1>2. CASE cryptoHandshake
  <2>1. PICK n \in 0 .. PadMax : Put("C", Field("key", KeyLen) \o Field("pad", n))
    BY <1>2 DEF Dial
  <2>2. Goto("C", "yb", <<>>)
    BY <1>2 DEF Dial
  <2>3. DOMAIN wire' = Side
    BY <1>1, <2>1, Sides, PutShape
  <2> QED BY <1>1, <1>2, <2>2, <2>3, ClientOn
<1>3. CASE ~cryptoHandshake
  <2>1. Put("C", Handshake) /\ Goto("C", "reply", <<>>)
    BY <1>3 DEF Dial
  <2>2. /\ pc'["C"] = "reply" /\ pc'["S"] = pc["S"] /\ buf'["S"] = buf["S"]
        /\ DOMAIN pc' = Side /\ DOMAIN buf' = Side /\ DOMAIN wire' = Side
    BY <1>1, <2>1, GotoC, PutShape, Sides
  <2>3. Shapes'
    BY <1>1, <2>2 DEF Shapes
  <2>4. InClear'
    BY <1>1, <1>3, <2>2 DEF Control, InClear
  <2>5. Control'
    BY <1>1, <1>3, <2>2, <2>4, Zenon DEF Control
  <2>6. Greets'
    <3>1. SUFFICES ASSUME pc["S"] = "head"
          PROVE  buf["S"] \in Seq(Cell) /\ wire'["S"] \in Seq(Cell) /\ Heads(buf["S"] \o wire'["S"])
      BY <2>2 DEF Greets
    <3>2. wire'["S"] = wire["S"] \o Handshake
      BY <1>1, <2>1, <3>1, PutC
    <3>3. buf["S"] \in Seq(Cell) /\ wire["S"] \in Seq(Cell)
      BY <1>1, <1>3, <3>1 DEF Greets
    <3>4. buf["S"] \o wire["S"] = <<>> \/ Heads(buf["S"] \o wire["S"])
      BY <1>1, <1>3, <3>1 DEF Greets
    <3>5. wire["S"] \o Handshake \in Seq(Cell) /\ Heads(buf["S"] \o (wire["S"] \o Handshake))
      BY <3>3, <3>4, HandshakeHeads, GreetMore
    <3> QED BY <3>2, <3>3, <3>5, Zenon
  <2> QED BY <2>3, <2>5, <2>6 DEF HandshakeInv
<1> QED BY <1>2, <1>3

\* Only a client that does not speak in clear gets there.
LEMMA ClientKeyStep == ASSUME HandshakeInv, ClientKey PROVE HandshakeInv'
<1>1. cryptoHandshake
  BY DEF HandshakeInv, Control, InClear, ClientKey
<1>2. DOMAIN wire' = Side
  BY PutShape, Sides DEF ClientKey, HandshakeInv
<1>3. /\ Goto("C", "sync", Drop(buf["C"], KeyLen)) /\ pc["C"] = "yb"
      /\ UNCHANGED <<options, cryptoHandshake, select, conn, sent>>
  BY DEF ClientKey, config
<1> QED BY <1>1, <1>2, <1>3, ClientOn

LEMMA ClientSyncStep == ASSUME HandshakeInv, Synchronise("C", "select") PROVE HandshakeInv'
<1>1. pc["C"] = "sync" /\ cryptoHandshake /\ DOMAIN wire = Side
  BY DEF HandshakeInv, Control, InClear, InCrypto, Shapes, Synchronise
<1>2. CASE Fail("C")
  BY <1>2, FailC DEF Synchronise, config
<1>3. CASE ~Fail("C")
  <2>1. PICK i \in Found("C") :
            /\ Goto("C", "select", Drop(buf["C"], i + Len(Pattern("C"))))
            /\ UNCHANGED <<cryptoHandshake, wire, select, conn, sent>>
    BY <1>3 DEF Synchronise
  <2> QED BY <1>1, <2>1, ClientOn DEF Synchronise, config
<1> QED BY <1>2, <1>3

LEMMA ClientSelectStep == ASSUME HandshakeInv, ClientSelect PROVE HandshakeInv'
<1>1. /\ Shapes /\ Control /\ Greets /\ pc["C"] = "select" /\ cryptoHandshake /\ InCrypto
      /\ options' = options
  BY DEF HandshakeInv, Control, InClear, ClientSelect, config
<1>2. CASE Fail("C")
  BY <1>1, <1>2, FailC
<1>3. CASE ~Fail("C")
  <2>1. /\ \E rest : Goto("C", "reply", rest)
        /\ \/ select = 1 /\ ~options["C"].ForceEncryption /\ conn' = conn
           \/ select = 2 /\ conn' = [conn EXCEPT !["C"] = "rc4"]
        /\ UNCHANGED <<cryptoHandshake, wire, select, sent>>
    BY <1>3 DEF ClientSelect
  <2>2. /\ pc'["C"] = "reply" /\ pc'["S"] = pc["S"] /\ buf'["S"] = buf["S"]
        /\ DOMAIN pc' = Side /\ DOMAIN buf' = Side
    BY <1>1, <2>1, GotoC
  <2>3. /\ conn'["S"] = conn["S"] /\ DOMAIN conn' = Side
        /\ conn'["C"] = IF select = 2 THEN "rc4" ELSE conn["C"]
    BY <1>1, <2>1, Sides DEF Shapes
  <2>4. Shapes'
    BY <1>1, <2>1, <2>2, <2>3 DEF Shapes
  <2>5. conn["C"] = "plain"
    BY <1>1 DEF InCrypto
  <2>6. InCrypto'
    BY <1>1, <2>1, <2>2, <2>3, <2>5 DEF InCrypto, Cipher
  <2>7. Control'
    BY <1>1, <2>1, <2>2, <2>3, <2>6 DEF Control
  <2>8. Greets'
    BY <1>1, <2>1 DEF Greets
  <2> QED BY <2>4, <2>7, <2>8 DEF HandshakeInv
<1> QED BY <1>2, <1>3

LEMMA RedialStep ==
    ASSUME HandshakeInv, Again(options["C"], cryptoHandshake), Redial, options' = options
    PROVE  HandshakeInv'
<1>1. /\ pc'["C"] = "dial" /\ pc'["S"] = (IF options["S"] \in Policies THEN "head" ELSE "alien")
      /\ DOMAIN pc' = Side
  BY DEF Redial, Side
<1>2. /\ conn'["C"] = "plain" /\ conn'["S"] = "plain" /\ DOMAIN conn' = Side
      /\ buf'["S"] = <<>> /\ DOMAIN buf' = Side /\ wire'["S"] = <<>> /\ DOMAIN wire' = Side
      /\ select' = 0 /\ sent' = sent /\ cryptoHandshake' = ~cryptoHandshake
  BY Sides DEF Redial, Fallback
<1>3. ~options["C"].ForceCryptoHandshake
  BY PolicyFacts DEF Again, HandshakeInv, Control
<1>4. Shapes'
  BY <1>1, <1>2 DEF HandshakeInv, Shapes
<1>5. InCrypto' /\ InClear'
  BY <1>1, <1>2 DEF InCrypto, InClear, Within
<1>6. Control'
  BY <1>1, <1>3, <1>5 DEF HandshakeInv, Control
<1>7. Greets'
  <2>1. <<>> \in Seq(Cell) /\ <<>> \o <<>> = <<>>
    OBVIOUS
  <2> QED BY <1>1, <1>2, <2>1 DEF Greets
<1> QED BY <1>4, <1>6, <1>7 DEF HandshakeInv

LEMMA ClientReplyStep == ASSUME HandshakeInv, ClientReply PROVE HandshakeInv'
<1>1. Shapes /\ Control /\ Greets /\ pc["C"] = "reply" /\ options' = options
  BY DEF HandshakeInv, ClientReply, config
<1>2. CASE Fail("C")
  BY <1>1, <1>2, FailC
<1>3. CASE Again(options["C"], cryptoHandshake) /\ Redial
  BY <1>1, <1>3, RedialStep
<1>4. CASE Goto("C", "up", <<>>) /\ UNCHANGED <<cryptoHandshake, wire, select, conn, sent>>
  <2>1. /\ pc'["C"] = "up" /\ pc'["S"] = pc["S"] /\ buf'["S"] = buf["S"]
        /\ DOMAIN pc' = Side /\ DOMAIN buf' = Side
    BY <1>1, <1>4, GotoC
  <2>2. Shapes'
    BY <1>1, <1>4, <2>1 DEF Shapes
  <2>3. InCrypto => InCrypto'
    BY <1>1, <1>4, <2>1 DEF InCrypto, Cipher
  <2>4. InClear => InClear'
    BY <1>1, <1>4, <2>1 DEF InClear
  <2>5. Control'
    BY <1>1, <1>4, <2>1, <2>3, <2>4, Zenon DEF Control
  <2>6. Greets'
    BY <1>1, <1>4, <2>1 DEF Greets
  <2> QED BY <2>2, <2>5, <2>6 DEF HandshakeInv
<1> QED BY <1>2, <1>3, <1>4 DEF ClientReply

-----------------------------------------------------------------------------
(* The steps of the server.                                                *)

\* A client that speaks in clear is taken for one.
LEMMA ServerHeadStep == ASSUME HandshakeInv, ServerHead PROVE HandshakeInv'
<1>1. /\ Shapes /\ Control /\ Greets /\ pc["S"] = "head" /\ ~Starved("S")
      /\ options' = options /\ DOMAIN wire = Side
  BY DEF HandshakeInv, ServerHead, config, Shapes
<1>2. select = 0
  BY <1>1 DEF Control, InClear, InCrypto, Within
<1>3. CASE Fail("S")
  BY <1>1, <1>3, FailS
<1>4. CASE /\ ~options["S"].ForceCryptoHandshake
           /\ Goto("S", "hash", Drop(buf["S"], HeaderLen))
           /\ UNCHANGED <<cryptoHandshake, wire, select, conn, sent>>
  BY <1>1, <1>2, <1>4, ServerOn DEF Within
<1>5. CASE /\ ~CheckHeader(buf["S"]) /\ Goto("S", "ya", buf["S"])
           /\ UNCHANGED <<cryptoHandshake, wire, select, conn, sent>>
  <2>1. ASSUME ~cryptoHandshake PROVE FALSE
    <3>1. /\ buf["S"] \in Seq(Cell) /\ wire["S"] \in Seq(Cell)
          /\ buf["S"] \o wire["S"] = <<>> \/ Heads(buf["S"] \o wire["S"])
      BY <1>1, <2>1 DEF Greets
    <3>2. Len(buf["S"]) >= HeaderLen /\ HeaderLen \in Nat \ {0}
      <4>1. "head" \in DOMAIN Need /\ Need["head"] = HeaderLen
        BY DEF Need
      <4>2. ~(Len(buf["S"]) < HeaderLen)
        BY <1>1, <4>1 DEF Starved, Synchronising
      <4> QED BY <3>1, <4>2, Lengths
    <3>3. buf["S"] \o wire["S"] # <<>>
      BY <3>1, <3>2
    <3> QED BY <1>5, <3>1, <3>2, <3>3, HeadsFound
  <2> QED BY <1>1, <1>2, <1>5, <2>1, ServerOn DEF Within
<1> QED BY <1>3, <1>4, <1>5 DEF ServerHead

\* Beyond the greeting and before the choice of a cipher.
LEMMA Choosing ==
    ASSUME HandshakeInv, pc["S"] \in {"ya", "sync", "req1", "req23", "vc", "lenIa", "ia"}
    PROVE  cryptoHandshake /\ select = 0 /\ conn["S"] = "plain" /\ options["S"] \in Policies
BY DEF HandshakeInv, Control, InClear, InCrypto, Within

LEMMA ServerKeyStep == ASSUME HandshakeInv, ServerKey PROVE HandshakeInv'
<1>1. /\ pc["S"] = "ya" /\ Goto("S", "req1", Drop(buf["S"], KeyLen))
      /\ UNCHANGED <<options, cryptoHandshake, select, conn, sent>>
      /\ \E n \in 0 .. PadMax : Put("S", Field("key", KeyLen) \o Field("pad", n))
  BY DEF ServerKey, config
<1>2. DOMAIN wire' = Side
  BY <1>1, PutShape, Sides DEF HandshakeInv
<1> QED BY <1>1, <1>2, Choosing, ServerOn DEF Within

LEMMA ServerSyncStep == ASSUME HandshakeInv, Synchronise("S", "req23") PROVE HandshakeInv'
<1>1. pc["S"] \in {"sync", "req1"} /\ options' = options /\ DOMAIN wire = Side
  BY DEF HandshakeInv, Shapes, Synchronise, config
<1>2. CASE Fail("S")
  BY <1>1, <1>2, FailS
<1>3. CASE ~Fail("S")
  <2>1. PICK i \in Found("S") :
            /\ Goto("S", "req23", Drop(buf["S"], i + Len(Pattern("S"))))
            /\ UNCHANGED <<cryptoHandshake, wire, select, conn, sent>>
    BY <1>3 DEF Synchronise
  <2> QED BY <1>1, <2>1, Choosing, ServerOn DEF Within
<1> QED BY <1>2, <1>3

LEMMA ServerReq23Step == ASSUME HandshakeInv, ServerReq23 PROVE HandshakeInv'
<1>1. pc["S"] = "req23" /\ options' = options /\ DOMAIN wire = Side
  BY DEF HandshakeInv, Shapes, ServerReq23, config
<1>2. CASE Fail("S")
  BY <1>1, <1>2, FailS
<1>3. CASE ~Fail("S")
  <2>1. /\ Goto("S", "vc", Drop(Filled("S"), ReqLen))
        /\ UNCHANGED <<cryptoHandshake, wire, select, conn, sent>>
    BY <1>3 DEF ServerReq23
  <2> QED BY <1>1, <2>1, Choosing, ServerOn DEF Within
<1> QED BY <1>2, <1>3

LEMMA ServerSecretStep ==
    ASSUME HandshakeInv, NEW f, NEW n, NEW at \in {"vc", "lenIa"}, NEW next \in {"lenIa", "ia"},
           ServerSecret(f, n, at, next)
    PROVE  HandshakeInv'
<1>1. pc["S"] = at /\ options' = options /\ DOMAIN wire = Side
  BY DEF HandshakeInv, Shapes, ServerSecret, config
<1>2. CASE Fail("S")
  BY <1>1, <1>2, FailS
<1>3. CASE ~Fail("S")
  <2>1. /\ Goto("S", next, Drop(Filled("S"), n))
        /\ UNCHANGED <<cryptoHandshake, wire, select, conn, sent>>
    BY <1>3 DEF ServerSecret
  <2> QED BY <1>1, <2>1, Choosing, ServerOn DEF Within
<1> QED BY <1>2, <1>3

\* The cipher chosen suits both policies.
LEMMA Choice ==
    ASSUME NEW o \in Policies, NEW q \in Policies
    PROVE  LET c == CryptoSelect(CryptoProvide(o), q)
           IN  c \in {0, 1, 2} /\ (c = 1 => ~q.ForceEncryption)
<1>1. q.ForceEncryption => q.PreferEncryption
  BY PolicyFacts
<1> QED BY <1>1 DEF CryptoSelect

LEMMA ServerIaStep == ASSUME HandshakeInv, ServerIa PROVE HandshakeInv'
<1>1. /\ Shapes /\ Control /\ pc["S"] = "ia" /\ options' = options
      /\ cryptoHandshake /\ InCrypto /\ select = 0
  BY Choosing DEF HandshakeInv, Control, ServerIa, config
<1>2. CASE Fail("S")
  BY <1>1, <1>2, FailS
<1>3. CASE ~Fail("S")
  <2> DEFINE choice == CryptoSelect(CryptoProvide(options["C"]), options["S"])
  <2>1. /\ choice # 0 /\ select' = choice
        /\ \E rest : Goto("S", "hash", rest)
        /\ \E cells : Put("S", cells)
        /\ conn' = [conn EXCEPT !["S"] = IF choice = 2 THEN "rc4" ELSE "plain"]
        /\ UNCHANGED <<cryptoHandshake, sent>>
    BY <1>3 DEF ServerIa
  <2>2. choice \in {0, 1, 2} /\ (choice = 1 => ~options["S"].ForceEncryption)
    BY <1>1, Choice DEF Control
  <2> HIDE DEF choice
  <2>3. /\ pc'["S"] = "hash" /\ pc'["C"] = pc["C"]
        /\ DOMAIN pc' = Side /\ DOMAIN buf' = Side /\ DOMAIN wire' = Side
    BY <1>1, <2>1, GotoS, PutShape, Sides
  <2>4. /\ conn'["S"] = (IF choice = 2 THEN "rc4" ELSE "plain")
        /\ conn'["C"] = conn["C"] /\ DOMAIN conn' = Side
    BY <1>1, <2>1, Sides DEF Shapes
  <2>5. Shapes'
    BY <1>1, <2>1, <2>3, <2>4 DEF Shapes
  <2>6. pc["C"] \notin {"reply", "up"}
    BY <1>1 DEF InCrypto
  <2>7. InCrypto'
    BY <1>1, <2>1, <2>2, <2>3, <2>4, <2>6 DEF InCrypto, Cipher, Within
  <2>8. Control'
    BY <1>1, <2>1, <2>3, <2>7 DEF Control
  <2>9. Greets'
    BY <2>3 DEF Greets
  <2> QED BY <2>5, <2>8, <2>9 DEF HandshakeInv
<1> QED BY <1>2, <1>3

LEMMA ServerHashStep == ASSUME HandshakeInv, ServerHash PROVE HandshakeInv'
<1>1. pc["S"] = "hash" /\ options' = options /\ Shapes
  BY DEF HandshakeInv, ServerHash, config
<1>2. CASE Fail("S")
  BY <1>1, <1>2, FailS
<1>3. CASE ~Fail("S")
  <2>1. /\ Goto("S", "id", Drop(buf["S"], HashLen)) /\ Put("S", Written("S", Handshake))
        /\ UNCHANGED <<cryptoHandshake, select, conn, sent>>
    BY <1>3 DEF ServerHash
  <2>2. DOMAIN wire' = Side
    BY <1>1, <2>1, PutShape, Sides
  <2> QED BY <1>1, <2>1, <2>2, ServerOn DEF Within
<1> QED BY <1>2, <1>3

LEMMA ServerIdStep == ASSUME HandshakeInv, ServerId PROVE HandshakeInv'
<1>1. /\ pc["S"] = "id" /\ Goto("S", "up", <<>>)
      /\ UNCHANGED <<options, cryptoHandshake, select, conn, sent, wire>>
  BY DEF ServerId, config
<1> QED BY <1>1, ServerOn DEF Within, HandshakeInv, Shapes

LEMMA AlienStep == ASSUME HandshakeInv, Alien PROVE HandshakeInv'
<1>1. /\ Shapes /\ Control /\ pc["S"] = "alien" /\ pc' = [pc EXCEPT !["S"] = "closed"]
      /\ \E cells : Put("S", cells)
      /\ UNCHANGED <<options, cryptoHandshake, buf, select, conn, sent>>
  BY DEF HandshakeInv, Alien, config
<1>2. /\ pc'["S"] = "closed" /\ pc'["C"] = pc["C"] /\ DOMAIN pc' = Side /\ DOMAIN wire' = Side
  BY <1>1, Sides, PutShape DEF Shapes
<1>3. Shapes'
  BY <1>1, <1>2 DEF Shapes
<1>4. InCrypto => InCrypto'
  BY <1>1, <1>2 DEF InCrypto, Cipher, Within
<1>5. InClear => InClear'
  BY <1>1, <1>2 DEF InClear, Within
<1>6. Control'
  BY <1>1, <1>2, <1>4, <1>5, Zenon DEF Control
<1>7. Greets'
  BY <1>2 DEF Greets
<1> QED BY <1>3, <1>6, <1>7 DEF HandshakeInv

-----------------------------------------------------------------------------
(* The steps that both ends have.                                          *)

LEMMA Quietly ==
    ASSUME HandshakeInv, UNCHANGED <<options, cryptoHandshake, pc, select, conn>>
    PROVE  Control'
BY DEF HandshakeInv, Control, InClear, InCrypto, Cipher

LEMMA ReadStep ==
    ASSUME HandshakeInv, NEW e \in Side, Read(e) PROVE HandshakeInv'
<1>1. /\ Shapes /\ Control /\ Greets
      /\ UNCHANGED <<options, cryptoHandshake, pc, select, conn, sent>>
  BY DEF HandshakeInv, Read, config
<1>2. PICK k \in 1 .. Len(wire[e]) :
          /\ buf' = [buf EXCEPT ![e] = @ \o Received(e, Take(wire[e], k))]
          /\ wire' = [wire EXCEPT ![e] = Drop(@, k)]
  BY DEF Read
<1>3. Shapes'
  BY <1>1, <1>2 DEF Shapes
<1>4. Control'
  BY <1>1, Quietly
<1>5. Greets'
  <2> SUFFICES ASSUME ~cryptoHandshake, pc["S"] = "head" PROVE Greets'
    BY <1>1 DEF Greets
  <2>1. /\ buf["S"] \in Seq(Cell) /\ wire["S"] \in Seq(Cell)
        /\ \/ pc["C"] \in {"dial", "closed"} /\ buf["S"] \o wire["S"] = <<>>
           \/ Heads(buf["S"] \o wire["S"])
    BY <1>1 DEF Greets
  <2>2. CASE e = "C"
    <3>1. buf'["S"] = buf["S"] /\ wire'["S"] = wire["S"]
      BY <1>1, <1>2, <2>2, Sides DEF Shapes
    <3> QED BY <1>1, <2>1, <3>1 DEF Greets
  <2>3. CASE e = "S"
    <3>1. conn["S"] # "rc4"
      BY <1>1 DEF Control, InClear
    <3>2. Received("S", Take(wire["S"], k)) = Take(wire["S"], k)
      BY <3>1 DEF Received
    <3>3. buf'["S"] = buf["S"] \o Take(wire["S"], k) /\ wire'["S"] = Drop(wire["S"], k)
      BY <1>1, <1>2, <2>3, <3>2, Sides DEF Shapes
    <3>4. /\ buf'["S"] \in Seq(Cell) /\ wire'["S"] \in Seq(Cell)
          /\ buf'["S"] \o wire'["S"] = buf["S"] \o wire["S"]
      <4>1. k \in 1 .. Len(wire["S"])
        BY <1>2, <2>3
      <4>2. /\ buf["S"] \o Take(wire["S"], k) \in Seq(Cell) /\ Drop(wire["S"], k) \in Seq(Cell)
            /\ (buf["S"] \o Take(wire["S"], k)) \o Drop(wire["S"], k) = buf["S"] \o wire["S"]
        BY <2>1, <4>1, Refill
      <4> QED BY <3>3, <4>2, Zenon
    <3> QED BY <1>1, <2>1, <3>4 DEF Greets
  <2> QED BY <2>2, <2>3 DEF Side
<1> QED BY <1>3, <1>4, <1>5 DEF HandshakeInv

LEMMA GiveUp ==
    ASSUME HandshakeInv, NEW e \in Side, EOF(e) \/ Expire(e) PROVE HandshakeInv'
<1>1. Fail(e) /\ options' = options
  BY DEF EOF, Expire, config
<1> QED BY <1>1, FailC, FailS DEF Side

LEMMA WriteStep ==
    ASSUME HandshakeInv, NEW e \in Side, Write(e) PROVE HandshakeInv'
<1> DEFINE cells == <<<<"msg", sent[e] + 1, Clear>>>>
<1>1. /\ Shapes /\ Control /\ Greets /\ pc[e] = "up"
      /\ Put(e, Written(e, cells)) /\ sent' = [sent EXCEPT ![e] = @ + 1]
      /\ UNCHANGED <<options, cryptoHandshake, pc, buf, select, conn>>
  BY DEF HandshakeInv, Write, config
<1>2. cells \in Seq(Cell)
  <2>0. sent[e] \in Nat /\ "msg" \in Name
    BY <1>1, Zenon DEF Shapes, Name
  <2>1. "msg" \in Name /\ sent[e] + 1 \in Int /\ Clear \in Int
    BY <2>0 DEF Clear
  <2>2. <<"msg", sent[e] + 1, Clear>> \in Cell
    BY <2>1, Zenon DEF Cell
  <2> QED BY <2>2, OneCell, Zenon
<1> HIDE DEF cells
<1>3. Shapes'
  <2>1. DOMAIN wire' = Side
    BY <1>1, PutShape
  <2>2. sent' \in [Side -> Nat]
    <3>1. sent \in [Side -> Nat] /\ sent' = [sent EXCEPT ![e] = @ + 1]
      BY <1>1 DEF Shapes
    <3> QED BY <3>1
  <2> QED BY <1>1, <2>1, <2>2 DEF Shapes
<1>4. Control'
  BY <1>1, Quietly
<1>5. Greets'
  <2> SUFFICES ASSUME ~cryptoHandshake, pc["S"] = "head" PROVE Greets'
    BY <1>1 DEF Greets
  <2>1. e = "C"
    BY <1>1 DEF Side
  <2>2. conn["C"] # "rc4"
    BY <1>1 DEF Control, InClear
  <2>3. wire'["S"] = wire["S"] \o cells
    BY <1>1, <2>1, <2>2, PutC DEF Written
  <2>4. buf["S"] \in Seq(Cell) /\ wire["S"] \in Seq(Cell) /\ Heads(buf["S"] \o wire["S"])
    BY <1>1, <2>1 DEF Greets
  <2>5. wire'["S"] \in Seq(Cell) /\ Heads(buf["S"] \o wire'["S"])
    BY <1>2, <2>3, <2>4, GreetMore
  <2> QED BY <1>1, <2>4, <2>5 DEF Greets
<1> QED BY <1>3, <1>4, <1>5 DEF HandshakeInv

LEMMA ReceiveStep ==
    ASSUME HandshakeInv, NEW e \in Side, Receive(e) PROVE HandshakeInv'
<1>1. /\ Shapes /\ Greets /\ pc[e] = "up" /\ wire' = [wire EXCEPT ![e] = <<>>]
      /\ UNCHANGED <<options, cryptoHandshake, pc, buf, select, conn, sent>>
  BY DEF HandshakeInv, Receive, config
<1>2. Shapes'
  BY <1>1 DEF Shapes
<1>3. Control'
  BY <1>1, Quietly
<1>4. pc["S"] = "head" => wire'["S"] = wire["S"]
  BY <1>1, Sides DEF Shapes
<1>5. Greets'
  BY <1>1, <1>4 DEF Greets
<1> QED BY <1>2, <1>3, <1>5 DEF HandshakeInv

-----------------------------------------------------------------------------
LEMMA HandshakeStart == HandshakeInit => HandshakeInv
<1> SUFFICES ASSUME HandshakeInit PROVE HandshakeInv
  OBVIOUS
<1>1. /\ options["C"] \in Policies
      /\ options["S"] \in Policies \/ pc["S"] = "alien"
      /\ cryptoHandshake = (options["C"].PreferCryptoHandshake
                              /\ options["C"].AllowCryptoHandshake)
      /\ pc["C"] = "dial" /\ pc["S"] \in {"head", "alien"} /\ DOMAIN pc = Side
      /\ select = 0
  BY DEF HandshakeInit, Side
<1>2. /\ conn["C"] = "plain" /\ conn["S"] = "plain" /\ DOMAIN conn = Side
      /\ buf["S"] = <<>> /\ wire["S"] = <<>> /\ DOMAIN buf = Side /\ DOMAIN wire = Side
      /\ sent \in [Side -> Nat]
  BY Sides DEF HandshakeInit
<1>3. options["C"].ForceCryptoHandshake => cryptoHandshake
  BY <1>1, PolicyFacts
<1>4. InCrypto /\ InClear
  <2>1. InCrypto
    BY <1>1, <1>2 DEF InCrypto, Within
  <2>2. InClear
    BY <1>1, <1>2 DEF InClear, Within
  <2> QED BY <2>1, <2>2
<1>5. Control
  BY <1>1, <1>3, <1>4 DEF Control
<1>6. Shapes
  BY <1>1, <1>2 DEF Shapes
<1>7. Greets
  BY <1>1, <1>2 DEF Greets
<1> QED BY <1>5, <1>6, <1>7 DEF HandshakeInv

LEMMA HandshakeStep ==
    ASSUME HandshakeInv, [HandshakeNext]_handshakeVars PROVE HandshakeInv'
<1>1. CASE UNCHANGED handshakeVars
  <2>1. UNCHANGED <<options, cryptoHandshake, pc, buf, wire, select, conn, sent>>
    BY <1>1 DEF handshakeVars
  <2>2. Control'
    BY <2>1, Quietly
  <2> QED BY <2>1, <2>2 DEF HandshakeInv, Shapes, Greets
<1>2. ASSUME ClientStep PROVE HandshakeInv'
  BY <1>2, DialStep, ClientKeyStep, ClientSyncStep, ClientSelectStep, ClientReplyStep
  DEF ClientStep
<1>3. ASSUME ServerStep \/ Alien PROVE HandshakeInv'
  <2>1. ServerVc \/ ServerLenIa => HandshakeInv'
    BY ServerSecretStep DEF ServerVc, ServerLenIa
  <2> QED BY <1>3, <2>1, ServerHeadStep, ServerKeyStep, ServerSyncStep, ServerReq23Step,
             ServerIaStep, ServerHashStep, ServerIdStep, AlienStep DEF ServerStep
<1>4. ASSUME NEW e \in Side, EndStep(e) PROVE HandshakeInv'
  BY <1>2, <1>3, <1>4, ReadStep, GiveUp, WriteStep, ReceiveStep DEF EndStep
<1> QED BY <1>1, <1>4 DEF HandshakeNext

\* What the invariant says of two ends that are through.
LEMMA Agreed == HandshakeInv => Agreement
<1> SUFFICES ASSUME HandshakeInv PROVE Agreement
  OBVIOUS
<1>1. Control
  BY DEF HandshakeInv
<1>2. CASE cryptoHandshake
  <2>1. InCrypto
    BY <1>1, <1>2 DEF Control
  <2>2. Up("C") /\ options["C"].ForceEncryption => conn["C"] = "rc4"
    BY <2>1 DEF InCrypto, Cipher, Up
  <2>3. Up("S") /\ options["S"].ForceEncryption => conn["S"] = "rc4"
    <3>1. Up("S") => options["S"] \in Policies
      BY <1>1 DEF Control, Up
    <3> QED BY <2>1, <3>1, PolicyFacts DEF InCrypto, Cipher, Up, Within
  <2>4. Up("C") /\ Up("S") => conn["C"] = conn["S"]
    BY <2>1 DEF InCrypto, Up
  <2> QED BY <1>2, <2>2, <2>3, <2>4 DEF Agreement, Side
<1>3. CASE ~cryptoHandshake
  <2>1. InClear
    BY <1>1, <1>3 DEF Control
  <2>2. Up("C") => ~options["C"].ForceEncryption /\ ~options["C"].ForceCryptoHandshake
    BY <1>1, <1>3, PolicyFacts DEF Control
  <2>3. Up("S") => ~options["S"].ForceEncryption /\ ~options["S"].ForceCryptoHandshake
    <3>1. Up("S") => options["S"] \in Policies
      BY <1>1 DEF Control, Up
    <3> QED BY <2>1, <3>1, PolicyFacts DEF InClear, Up, Within
  <2> QED BY <2>1, <2>2, <2>3 DEF Agreement, Side, InClear
<1> QED BY <1>2, <1>3

\* For any lengths of the fields and of the padding, and wherever the network
\* cuts the stream: two ends that complete DialClient and Server use the same
\* cipher, and no end hands over a connection whose handshake or cipher its
\* options forbid, second tries of the client included.
THEOREM HandshakeAgreement == HandshakeSpec => []Agreement
<1>1. HandshakeInv /\ [HandshakeNext]_handshakeVars => HandshakeInv'
  BY HandshakeStep
<1> QED BY <1>1, HandshakeStart, Agreed, PTL DEF HandshakeSpec
=============================================================================
