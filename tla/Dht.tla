-------------------------------- MODULE Dht ---------------------------------
(***************************************************************************)
(* The DHT and the torrent that uses it (dht/dht.go, dht/dht_export.go,    *)
(* rundht/rundht.go; tor/tor.go, announce).  One mutex guards the C        *)
(* library; the library calls back with the addresses it finds, and the    *)
(* callback sends them, with the mutex held, to a channel of bounded       *)
(* length.  Handle moves them to the torrent's own bounded channel; and    *)
(* the torrent takes the mutex to announce.                                *)
(*                                                                         *)
(* What the library computes is left open: a call may find up to MaxFound  *)
(* addresses.  There is one torrent, whose other events need no mutex.     *)
(***************************************************************************)
EXTENDS Integers, Sequences, FiniteSets

CONSTANTS
    EventsCap,      \* capacity of globalEvents (32)
    TorCap,         \* capacity of Torrent.Event (512)
    MaxFound,       \* bound: addresses found by one call
    Casts           \* bound: who is there with the torrent, and which loop has no
                    \* socket

ASSUME DhtAssumption ==
    /\ {EventsCap, TorCap, MaxFound} \subseteq Nat \ {0}
    /\ \A c \in Casts : c.with \subseteq {"adder", "bootstrap"} /\ c.deaf \subseteq {"loop4", "loop6"}

VARIABLES
    ctxDone,        \* the program is shutting down
    deaf,           \* the loops whose ListenUDP fails
    at,             \* where each goroutine is
    mu,             \* who holds the mutex
    sending,        \* addresses the holder's callback has still to send
    open,           \* globalEvents # nil
    globalEvents,   \* how many events wait in the channel
    handle,         \* Handle: "idle", "adding" an address, or "ended"
    torEvent,       \* Torrent.Event
    left,           \* announces that a goroutine has to make after this one
    reannounced     \* Bootstrap: families it has reannounced

dhtVars == <<ctxDone, deaf, at, mu, sending, open, globalEvents, handle, torEvent,
             left, reannounced>>

Loops == {"loop4", "loop6"}
Goroutines == Loops \cup {"torrent", "adder", "bootstrap"}
Nobody == "nobody"

\* The calls that take the mutex; those that may call back.
Calls == {"detach", "attach", "periodic", "announce", "count", "ping", "bye", "closing"}
Callers == {"periodic", "announce"}

\* AddTorrent has started the torrent and announces it in both families.
DhtStart(c) ==
    /\ ctxDone = FALSE /\ deaf = c.deaf
    /\ at = [g \in Goroutines |->
                 CASE g \in Loops -> "detach"
                   [] g = "torrent" -> "idle"
                   [] g = "adder" /\ g \in c.with -> "announce"
                   [] g = "bootstrap" /\ g \in c.with -> "count"
                   [] OTHER -> "ended"]
    /\ mu = Nobody /\ sending = 0
    /\ open = TRUE /\ globalEvents = 0 /\ handle = "idle"
    /\ torEvent = <<>>
    /\ left = [g \in {"torrent", "adder"} |-> IF at[g] = "announce" THEN 1 ELSE 0]
    /\ reannounced = 0

Goto(g, where) == at' = [at EXCEPT ![g] = where]
Dead == at["torrent"] = "dead"

(***************************************************************************)
(* The mutex, and the calls made with it.                                  *)
(***************************************************************************)

\* Faulty variant: the callback does not ask whether the DHT has been closed.
FoundAnyway(call) == IF call \in Callers THEN 0 .. MaxFound ELSE {0}

\* dht_callback returns at once when globalEvents is nil.
Found(call) == IF call \in Callers /\ open THEN 0 .. MaxFound ELSE {0}

\* The deferred function of loop closes the channel: Handle ends when it has
\* received what is left.
Shut(call) == /\ open' = IF call = "closing" THEN FALSE ELSE open
              /\ handle' = IF call = "closing" /\ handle = "idle" /\ globalEvents = 0
                           THEN "ended" ELSE handle

Lock(g) ==
    /\ at[g] \in Calls /\ mu = Nobody
    /\ mu' = g
    /\ sending' \in Found(at[g])
    /\ Shut(at[g])
    /\ UNCHANGED <<ctxDone, deaf, at, globalEvents, torEvent, left, reannounced>>

\* A send to a nil channel never ends.
Send ==
    /\ sending > 0 /\ open /\ globalEvents < EventsCap
    /\ sending' = sending - 1
    /\ globalEvents' = globalEvents + 1
    /\ UNCHANGED <<ctxDone, deaf, at, mu, open, handle, torEvent, left, reannounced>>

\* ListenUDP, which concerns nobody else; after a failure the loop has no
\* socket to read from, and does not look at the context, until it is time to
\* try again.
Listen(f) == IF f \in deaf THEN "asleep" ELSE "attach"

\* What follows a call.
After(g) ==
    CASE at[g] = "detach" -> Listen(g)
      [] at[g] \in {"attach", "periodic"} -> "read"
      [] at[g] = "closing" \/ at[g] = "bye" -> "ended"
      [] at[g] = "count" -> "counted"
      [] at[g] = "ping" -> "pinged"
      [] at[g] = "announce" /\ left[g] > 0 -> "announce"
      [] at[g] = "announce" /\ g = "torrent" -> "idle"
      [] OTHER -> "ended"

Unlock(g) ==
    /\ mu = g /\ sending = 0
    /\ mu' = Nobody
    /\ Goto(g, After(g))
    /\ left' = [h \in DOMAIN left |-> IF h = g /\ left[h] > 0 THEN left[h] - 1 ELSE left[h]]
    /\ UNCHANGED <<ctxDone, deaf, sending, open, globalEvents, handle, torEvent, reannounced>>

(***************************************************************************)
(* The loops.                                                              *)
(***************************************************************************)

\* Two minutes have passed since the failure; or the IPv6 address of the host
\* has changed.
Renew(f) ==
    /\ at[f] = "asleep" \/ (at[f] = "read" /\ f = "loop6")
    /\ Goto(f, "detach")
    /\ UNCHANGED <<ctxDone, deaf, mu, sending, open, globalEvents, handle, torEvent,
                   left, reannounced>>

\* A packet or a timeout.
ReadFromUDP(f) ==
    /\ at[f] = "read"
    /\ Goto(f, IF ctxDone THEN "closing" ELSE "periodic")
    /\ UNCHANGED <<ctxDone, deaf, mu, sending, open, globalEvents, handle, torEvent,
                   left, reannounced>>

(***************************************************************************)
(* Handle and the torrent.                                                 *)
(***************************************************************************)

\* Handle receives an event; tor.Get finds no torrent that has ended.
Handle ==
    /\ handle = "idle" /\ globalEvents > 0
    /\ globalEvents' = globalEvents - 1
    /\ handle' = CASE ~Dead -> "adding"
                   [] Dead /\ ~open /\ globalEvents = 1 -> "ended"
                   [] OTHER -> "idle"
    /\ UNCHANGED <<ctxDone, deaf, at, mu, sending, open, torEvent, left, reannounced>>

\* AddKnown: to the torrent's channel, unless the torrent has ended.
AddKnown ==
    /\ handle = "adding" /\ (Dead \/ Len(torEvent) < TorCap)
    /\ torEvent' = IF Dead THEN torEvent ELSE Append(torEvent, "plain")
    /\ handle' = IF ~open /\ globalEvents = 0 THEN "ended" ELSE "idle"
    /\ UNCHANGED <<ctxDone, deaf, at, mu, sending, open, globalEvents, left, reannounced>>

\* Events of peers, and the end of the torrent, come from elsewhere.
Post(e) ==
    /\ ~Dead /\ Len(torEvent) < TorCap
    /\ torEvent' = Append(torEvent, e)
    /\ UNCHANGED <<ctxDone, deaf, at, mu, sending, open, globalEvents, handle, left,
                   reannounced>>

\* The torrent's loop handles an event: TorAnnounce is an announce in one family.
HandleEvent ==
    /\ at["torrent"] = "idle" /\ torEvent # <<>>
    /\ torEvent' = IF Head(torEvent) = "end" THEN <<>> ELSE Tail(torEvent)
    /\ Goto("torrent", CASE Head(torEvent) = "announce" -> "announce"
                         [] Head(torEvent) = "end" -> "dead"
                         [] OTHER -> "idle")
    /\ UNCHANGED <<ctxDone, deaf, mu, sending, open, globalEvents, handle, left, reannounced>>

\* The slow ticker, 28 minutes after the last announce: both families.
Reannounce ==
    /\ at["torrent"] = "idle"
    /\ Goto("torrent", "announce")
    /\ left' = [left EXCEPT !["torrent"] = 1]
    /\ UNCHANGED <<ctxDone, deaf, mu, sending, open, globalEvents, handle, torEvent, reannounced>>

\* The torrent's loop notices that the context is done.
Stop ==
    /\ at["torrent"] = "idle" /\ ctxDone
    /\ Goto("torrent", "dead") /\ torEvent' = <<>>
    /\ UNCHANGED <<ctxDone, deaf, mu, sending, open, globalEvents, handle, left, reannounced>>

(***************************************************************************)
(* Bootstrap: Count, an announce of all torrents once there are nodes, in  *)
(* each family once, and Ping, until that is done, there are no more nodes *)
(* to ping, or the program ends.                                           *)
(***************************************************************************)

Onward ==
    CASE at["bootstrap"] = "counted" -> {"ping"} \cup IF reannounced = 2 THEN {"bye"} ELSE {}
      [] at["bootstrap"] = "pinged" -> IF ctxDone THEN {"bye"} ELSE {"count", "last"}
      [] at["bootstrap"] = "last" /\ reannounced = 2 -> {"bye"}
      [] OTHER -> {}

Bootstrap ==
    /\ \/ /\ at["bootstrap"] \in {"counted", "last"} /\ reannounced < 2
          /\ Dead \/ Len(torEvent) < TorCap
          /\ reannounced' = reannounced + 1
          /\ torEvent' = IF Dead THEN torEvent ELSE Append(torEvent, "announce")
          /\ UNCHANGED at
       \/ /\ \E place \in Onward : Goto("bootstrap", place)
          /\ UNCHANGED <<reannounced, torEvent>>
    /\ UNCHANGED <<ctxDone, deaf, mu, sending, open, globalEvents, handle, left>>

Shutdown ==
    /\ ~ctxDone /\ ctxDone' = TRUE
    /\ UNCHANGED <<deaf, at, mu, sending, open, globalEvents, handle, torEvent, left, reannounced>>

Running(f) == Renew(f) \/ ReadFromUDP(f)

DhtNext ==
    \/ Send \/ Handle \/ AddKnown \/ HandleEvent \/ Stop \/ Reannounce \/ Bootstrap \/ Shutdown
    \/ \E g \in Goroutines : Lock(g) \/ Unlock(g)
    \/ \E f \in Loops : Running(f)
    \/ \E e \in {"plain", "end"} : Post(e)

DhtInit == \E c \in Casts : DhtStart(c)
DhtSpec == DhtInit /\ [][DhtNext]_dhtVars
-----------------------------------------------------------------------------

\* The holder of the mutex waits for room in globalEvents, Handle for room in
\* the torrent's channel, and the torrent for the mutex, or it is the holder.
Circle ==
    /\ sending > 0 /\ globalEvents = EventsCap
    /\ handle = "adding" /\ Len(torEvent) = TorCap
    /\ at["torrent"] = "announce"

\* Who will receive an event from globalEvents.
Received ==
    \/ handle = "idle"
    \/ handle = "adding" /\ (Dead \/ Len(torEvent) < TorCap \/ at["torrent"] = "idle")

\* The mutex is held over sends to a channel (dht_export.go:42, 56).  Such a
\* send always has room, or a receiver that can go on without the mutex, also
\* when the DHT is closed or the torrent ends meanwhile: but for one circular
\* wait, of a torrent that announces while both channels are full.
OnlyCircle ==
    sending > 0 => \/ open /\ (globalEvents < EventsCap \/ Received)
                   \/ Circle
=============================================================================
