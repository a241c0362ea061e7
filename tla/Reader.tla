------------------------------- MODULE Reader -------------------------------
(***************************************************************************)
(* Readers that wait for pieces (tor/reader.go), the set of pieces a       *)
(* torrent was asked for (tor/requests.go), and the torrent's loop, which  *)
(* keeps that set and closes the channel a reader waits on when it learns  *)
(* that the piece is complete (tor/tor.go).                                *)
(*                                                                         *)
(* A piece becomes complete in the goroutine started by finalisePiece,     *)
(* which tells the loop afterwards; it may be evicted at any time, before  *)
(* the loop has heard of it included.                                      *)
(*                                                                         *)
(* A RequestedPiece has at most one open channel, its field done.  Here    *)
(* done[i] says whether there is one, and a reader's open says whether the  *)
(* channel it got for its piece is open: if so it is the one of done, and  *)
(* a nil channel and a closed one let Read go on alike.  That a torrent    *)
(* may end is left to module Swarm: here it outlives its readers.          *)
(***************************************************************************)
EXTENDS Integers, Sequences, FiniteSets

CONSTANTS
    Reader,
    Num,        \* number of pieces
    EventCap,   \* capacity of Torrent.Event
    MaxHave     \* bound: how many TorHave are about to be sent for a piece

ASSUME SizesAssumption ==
    /\ IsFiniteSet(Reader)
    /\ Num \in Nat \ {0} /\ EventCap \in Nat \ {0} /\ MaxHave \in Nat \ {0}

Piece == 0 .. Num - 1
Prio == {-1, 1}     \* of a prefetch, and of the piece to be read
None == -1          \* requestedIndex of a reader without requests

VARIABLES
    complete,   \* the pieces that are complete
    haves,      \* haves[i]: goroutines about to send TorHave for i
    torEvent,   \* Torrent.Event
    there,      \* keys of Requested.pieces
    prio,       \* prio[i][p]: how often p is in the list of piece i
    done,       \* done[i]: piece i has a channel
    reader      \* reader[r]: what reader r is doing

vars == <<complete, haves, torEvent, there, prio, done, reader>>
requests == <<there, prio, done>>

(* pc         idle, add (about to request the head of add), send (it was   *)
(*            seen to be incomplete), reply, del or wait                   *)
(* goal       the piece being read or requested; requestedIndex when idle  *)
(* add, old   what it has yet to request, and what it has yet to cancel    *)
(* requested  Reader.requested                                             *)
(* open       whether Reader.ch is an open channel                         *)
Fresh == [pc |-> "idle", goal |-> None, add |-> <<>>, old |-> {},
          requested |-> {}, open |-> FALSE]

Rest == [p \in Prio |-> 0]

Init ==
    /\ complete = {}
    /\ haves = [i \in Piece |-> 0]
    /\ torEvent = <<>>
    /\ there = {}
    /\ prio = [i \in Piece |-> Rest]
    /\ done = [i \in Piece |-> FALSE]
    /\ reader = [r \in Reader |-> Fresh]

-----------------------------------------------------------------------------
(* Requested.                                                              *)

\* The channels of the pieces in S are closed.
CloseDone(S) ==
    /\ done' = [i \in Piece |-> done[i] /\ i \notin S]
    /\ reader' = [r \in Reader |->
          [reader[r] EXCEPT !.open = @ /\ reader[r].goal \notin S]]

\* Add: the list of priorities, and the channel if there is one by now.
AddPiece(i, p, d) ==
    /\ prio' = [prio EXCEPT ![i][p] = @ + 1]
    /\ done' = [done EXCEPT ![i] = d]

\* Faulty variant: also pieces that a client wants for a prefetch.
IdleAny(th, pr) == {i \in th : pr[i][1] = 0}

\* The pieces that DelIdlePiece deletes: no client wants them.
Idle(th, pr) == {i \in th : pr[i] = Rest}

-----------------------------------------------------------------------------
(* The torrent's loop.                                                     *)

\* A reader goes on with what is left to be requested and cancelled.
Continue(s) ==
    [s EXCEPT !.pc = IF s.add # <<>> THEN "add"
                     ELSE IF s.old # {} THEN "del"
                     ELSE IF s.goal = None THEN "idle" ELSE "wait"]

Handle(type) ==
    /\ torEvent # <<>>
    /\ Head(torEvent).type = type
    /\ torEvent' = Tail(torEvent)
    /\ UNCHANGED <<complete, haves>>

\* What periodicRequest may leave of the pieces th: the idle ones go when a
\* client wants a piece that is incomplete and available.  Availability
\* changes with the peers and is left open.
Pressed(th, pr) ==
    {th} \cup IF \E i \in th \ complete : pr[i] # Rest
              THEN {th \ Idle(th, pr)} ELSE {}

\* Faulty variant: whether the piece is complete is not tested again.
WantedUntested(e) == e.want

\* requestPiece: no channel is made for a piece that is complete by now.
Wanted(e) == e.want /\ e.index \notin complete

\* TorRequest with Request true: Add, the answer to a reader that waits for
\* it, and maybeRequest.
RequestPiece ==
    /\ Handle("request")
    /\ LET e == Head(torEvent)
           i == e.index
           d == done[i] \/ Wanted(e)
           s == reader[e.from]
       IN  /\ AddPiece(i, e.prio, d)
           /\ there' \in Pressed(there \cup {i}, prio')
           /\ reader' = IF ~e.want THEN reader
                        ELSE [reader EXCEPT ![e.from] = Continue([s EXCEPT
                                !.requested = s.requested \cup {<<i, e.prio>>},
                                !.open = d])]

\* TorRequest with Request false: Del.
CancelPiece ==
    /\ Handle("cancel")
    /\ LET e == Head(torEvent)
           i == e.index
           rest == [prio[i] EXCEPT ![e.prio] = @ - 1]
           last == {j \in {i} : rest = Rest}
       IN  IF i \notin there \/ prio[i][e.prio] = 0
           THEN UNCHANGED <<requests, reader>>
           ELSE /\ prio' = [prio EXCEPT ![i] = rest]
                /\ there' = there \ last
                /\ CloseDone(last)

\* TorHave with Have true: Done.
HavePiece ==
    /\ Handle("have")
    /\ LET i == Head(torEvent).index
       IN  /\ CloseDone({i})
           /\ there' = there \ (Idle(there, prio) \cap {i})
           /\ prio' = [prio EXCEPT ![i] = IF i \in there' THEN @ ELSE Rest]

\* pickIdlePieces: some incomplete pieces; the criteria are left open.
Picks == SUBSET (Piece \ complete)

\* periodicRequest on its timer: idle pieces are picked when no client wants
\* anything that is available.
PeriodicRequest ==
    /\ there' \in Pressed(there, prio) \cup {there \cup S : S \in Picks}
    /\ prio' = [i \in Piece |-> IF i \in there' THEN prio[i] ELSE Rest]
    /\ CloseDone(there \ there')
    /\ UNCHANGED <<complete, haves, torEvent>>

\* TorSetConf
SetConf ==
    /\ there' = there \ Idle(there, prio)
    /\ prio' = [i \in Piece |-> IF i \in there' THEN prio[i] ELSE Rest]
    /\ CloseDone(there \ there')
    /\ UNCHANGED <<complete, haves, torEvent>>

-----------------------------------------------------------------------------
(* Pieces.                                                                 *)

Room == Len(torEvent) < EventCap
Event(type, i, p, want, r) ==
    [type |-> type, index |-> i, prio |-> p, want |-> want, from |-> r]

\* Finalise validates a piece: it was requested when its data were.
Finalise(i) ==
    /\ i \notin complete
    /\ haves[i] < MaxHave
    /\ complete' = complete \cup {i}
    /\ haves' = [haves EXCEPT ![i] = @ + 1]
    /\ UNCHANGED <<torEvent, requests, reader>>

\* The goroutine that finalised the piece tells the torrent.
Have(i) ==
    /\ haves[i] > 0
    /\ Room
    /\ torEvent' = Append(torEvent, Event("have", i, 1, FALSE, {}))
    /\ haves' = [haves EXCEPT ![i] = @ - 1]
    /\ UNCHANGED <<complete, requests, reader>>

Expire(i) ==
    /\ i \in complete
    /\ complete' = complete \ {i}
    /\ UNCHANGED <<haves, torEvent, requests, reader>>

-----------------------------------------------------------------------------
(* A reader.                                                               *)

\* request for the pieces in the list a; the list is empty for the position
\* -1, that is when everything is to be cancelled.
request(s, a) ==
    Continue([s EXCEPT !.goal = IF a = <<>> THEN None ELSE a[1][1],
                       !.add = a, !.old = s.requested, !.requested = {},
                       !.open = FALSE])

\* Reader.chunks: the piece, and the n after it.
chunks(i, n) == [k \in 1 .. n + 1 |-> <<i + k - 1, IF k = 1 THEN 1 ELSE -1>>]

\* Read at a position inside piece i.
Read(r, i) ==
    /\ reader[r].pc = "idle"
    /\ \E n \in 0 .. Num - 1 - i :
          reader' = [reader EXCEPT ![r] =
              IF reader[r].goal = i THEN Continue(@) ELSE request(@, chunks(i, n))]
    /\ UNCHANGED <<complete, haves, torEvent, requests>>

\* Torrent.Request: a complete piece is not asked for.
Request(r) ==
    LET s == reader[r]
    IN  /\ s.pc = "add"
        /\ reader' = [reader EXCEPT ![r] =
              IF Head(s.add)[1] \in complete
              THEN Continue([s EXCEPT !.add = Tail(s.add)])
              ELSE [s EXCEPT !.pc = "send"]]
        /\ UNCHANGED <<complete, haves, torEvent, requests>>

\* The event is sent; for the first piece the reader waits for the answer.
RequestSend(r) ==
    LET s == reader[r]
        c == Head(s.add)
        first == c = <<s.goal, 1>>
    IN  /\ s.pc = "send"
        /\ Room
        /\ torEvent' = Append(torEvent, Event("request", c[1], c[2], first, r))
        /\ reader' = [reader EXCEPT ![r] =
              IF first THEN [s EXCEPT !.pc = "reply", !.add = Tail(s.add)]
              ELSE Continue([s EXCEPT !.add = Tail(s.add),
                                      !.requested = s.requested \cup {c}])]
        /\ UNCHANGED <<complete, haves, requests>>

\* Faulty variant: what has become complete is not cancelled.
RequestDelIncomplete(r) ==
    /\ reader[r].pc = "del"
    /\ Room
    /\ \E c \in reader[r].old :
          /\ torEvent' = IF c[1] \in complete THEN torEvent
                         ELSE Append(torEvent, Event("cancel", c[1], c[2], FALSE, r))
          /\ reader' = [reader EXCEPT ![r] = Continue([@ EXCEPT !.old = @ \ {c}])]
    /\ UNCHANGED <<complete, haves, requests>>

\* Then what was requested before is cancelled.
RequestDel(r) ==
    LET s == reader[r]
    IN  /\ s.pc = "del"
        /\ Room
        /\ \E c \in s.old :
              /\ torEvent' = Append(torEvent, Event("cancel", c[1], c[2], FALSE, r))
              /\ reader' = [reader EXCEPT ![r] = Continue([s EXCEPT !.old = s.old \ {c}])]
        /\ UNCHANGED <<complete, haves, requests>>

\* The select in Read, and ReadAt, which returns nothing if the piece is gone
\* and reaches the end of the file otherwise, perhaps.
ReadAt(r) ==
    /\ reader[r].pc = "wait"
    /\ ~reader[r].open
    /\ reader' \in {[reader EXCEPT ![r].pc = "idle"]} \cup
          IF reader[r].goal \in complete
          THEN {[reader EXCEPT ![r] = request(@, <<>>)]} ELSE {}
    /\ UNCHANGED <<complete, haves, torEvent, requests>>

\* The reader's context is done while it waits; or Read finds it done, or
\* finds itself at the end of the file, or is replaced by Close.
Cancel(r) ==
    /\ reader[r].pc \in {"wait", "idle"}
    /\ reader' = [reader EXCEPT ![r] = request(@, <<>>)]
    /\ UNCHANGED <<complete, haves, torEvent, requests>>

Next ==
    \/ \E r \in Reader :
          Request(r) \/ RequestSend(r) \/ RequestDel(r) \/ ReadAt(r) \/ Cancel(r)
    \/ \E r \in Reader, i \in Piece : Read(r, i)
    \/ RequestPiece \/ CancelPiece \/ HavePiece \/ PeriodicRequest \/ SetConf
    \/ \E i \in Piece : Finalise(i) \/ Have(i) \/ Expire(i)

Spec == Init /\ [][Next]_vars

-----------------------------------------------------------------------------
(* Types; a reader leaves no more than its requests behind.                *)
TypeOK ==
    /\ complete \subseteq Piece /\ there \subseteq Piece
    /\ haves \in [Piece -> 0 .. MaxHave]
    /\ torEvent \in Seq([type : {"request", "cancel", "have"}, index : Piece,
                         prio : Prio, want : BOOLEAN, from : Reader \cup {{}}])
    /\ Len(torEvent) <= EventCap
    /\ prio \in [Piece -> [Prio -> 0 .. 2 * Cardinality(Reader) + EventCap]]
    /\ done \in [Piece -> BOOLEAN]
    /\ reader \in [Reader -> [pc : {"idle", "add", "send", "reply", "del", "wait"},
                              goal : Piece \cup {None},
                              add : Seq(Piece \X Prio), old : SUBSET (Piece \X Prio),
                              requested : SUBSET (Piece \X Prio), open : BOOLEAN]]

Pending(type, i) ==
    {k \in DOMAIN torEvent : torEvent[k].type = type /\ torEvent[k].index = i}

(* No wake-up is lost: while a reader's channel is open the torrent wants  *)
(* the piece on its behalf and has the channel, and the piece is yet to be *)
(* completed or a TorHave for it is yet to come.                           *)
NoLostWakeup ==
    \A r \in Reader :
        LET i == reader[r].goal
        IN  reader[r].open =>
                /\ i \in there /\ prio[i][1] > 0 /\ done[i]
                /\ i \in complete => haves[i] > 0 \/ Pending("have", i) # {}

OnTheirWay(type, c) ==
    Cardinality({k \in Pending(type, c[1]) : torEvent[k].prio = c[2]})

(* The torrent wants a piece exactly as often, and with the priorities,    *)
(* as its readers do, but for the events on their way: Read, Seek and      *)
(* Close leave nothing behind, whether pieces were complete or not.        *)
RequestsBalanced ==
    \A c \in Piece \X Prio :
        prio[c[1]][c[2]] + OnTheirWay("request", c) - OnTheirWay("cancel", c)
            = Cardinality({r \in Reader : c \in reader[r].requested})
              + Cardinality({r \in Reader : c \in reader[r].old})
              + Cardinality({r \in Reader : /\ reader[r].pc = "reply"
                                            /\ c = <<reader[r].goal, 1>>})

(* A piece that a client wants, or waits for, is not forgotten when idle   *)
(* pieces are dropped, although they are in the same map.                  *)
ClientsAreNotIdle ==
    \A i \in Piece : prio[i] # Rest \/ done[i] => i \in there /\ prio[i] # Rest
=============================================================================
