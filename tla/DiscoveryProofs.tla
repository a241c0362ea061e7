-------------------------- MODULE DiscoveryProofs ---------------------------
(***************************************************************************)
(* A tracker is left in peace for as long as it asked, its flag is never   *)
(* released by one that does not hold it, and udpRequestReply panics for   *)
(* one reason only: whatever the tiers, the intervals, the number of       *)
(* attempts and the order in which replies come.  The DHT's mutex is never *)
(* held over a send that nobody will receive, but for the one circular     *)
(* wait, whatever the capacities of the channels, the number of addresses  *)
(* a call finds and the goroutines there are.                              *)
(***************************************************************************)
EXTENDS Discovery, TLAPS

-----------------------------------------------------------------------------
(* The DHT.                                                                *)

Events == {"plain", "announce", "end"}
Places == Calls \cup {"asleep", "read", "idle", "dead", "counted", "pinged", "last",
                       "ended"}

DhtTypes ==
    /\ at \in [Goroutines -> Places]
    /\ at["torrent"] \in {"idle", "announce", "dead"}
    /\ mu \in Goroutines \cup {Nobody}
    /\ sending \in Nat
    /\ open \in BOOLEAN
    /\ globalEvents \in 0 .. EventsCap
    /\ handle \in {"idle", "adding", "ended"}
    /\ torEvent \in Seq(Events) /\ Len(torEvent) <= TorCap

\* A call is made by the holder of the mutex; only a call that finds the
\* channel open sends; and the channel is closed before Handle ends.
DhtInv ==
    /\ DhtTypes
    /\ mu # Nobody => at[mu] \in Calls
    /\ sending > 0 => open /\ mu # Nobody
    /\ handle = "ended" => ~open

LEMMA DhtInitInv == ASSUME NEW c, DhtStart(c) PROVE DhtInv
<1>1. /\ at \in [Goroutines -> Places]
      /\ at["torrent"] = "idle"
  BY DEF DhtStart, Goroutines, Loops, Places, Calls
<1>2. torEvent = <<>> /\ torEvent \in Seq(Events) /\ Len(torEvent) = 0
  BY DEF DhtStart
<1> QED
  BY <1>1, <1>2, DhtAssumption DEF DhtStart, DhtInv, DhtTypes

\* The circular wait is the only one: with the invariant, whoever holds the
\* mutex and cannot send waits for Handle, and Handle for the torrent.
LEMMA DhtInvIsEnough == ASSUME DhtInv PROVE OnlyCircle
<1> SUFFICES ASSUME sending > 0, globalEvents >= EventsCap, ~Received PROVE Circle
  BY DhtAssumption DEF OnlyCircle, DhtInv, DhtTypes
<1>1. globalEvents = EventsCap
  BY DhtAssumption DEF DhtInv, DhtTypes
<1>2. handle = "adding"
  BY DEF DhtInv, DhtTypes, Received
<1>3. at["torrent"] = "announce"
  BY <1>2 DEF DhtInv, DhtTypes, Received, Dead
<1>4. Len(torEvent) = TorCap
  <2>1. Len(torEvent) \in Nat
    BY DEF DhtInv, DhtTypes
  <2> QED BY <1>2, <2>1, DhtAssumption DEF DhtInv, DhtTypes, Received
<1> QED BY <1>1, <1>2, <1>3, <1>4 DEF Circle

LEMMA Grow ==
    ASSUME NEW e \in Events, torEvent \in Seq(Events), Len(torEvent) < TorCap
    PROVE  Append(torEvent, e) \in Seq(Events) /\ Len(Append(torEvent, e)) <= TorCap
BY DhtAssumption

LEMMA LockInv == ASSUME DhtInv, NEW g \in Goroutines, Lock(g) PROVE DhtInv'
<1>1. sending' \in Nat /\ (sending' > 0 => open /\ at[g] # "closing")
  BY DhtAssumption DEF Lock, Found, Callers
<1>2. open' \in BOOLEAN /\ (at[g] # "closing" => open' = open)
  BY Zenon DEF Lock, Shut, DhtInv, DhtTypes
<1>3. /\ handle' \in {"idle", "adding", "ended"}
      /\ handle' = "ended" => ~open'
  BY DEF Lock, Shut, DhtInv, DhtTypes
<1>4. g # Nobody
  BY DEF Goroutines, Loops, Nobody
<1> QED BY <1>1, <1>2, <1>3, <1>4 DEF Lock, DhtInv, DhtTypes

LEMMA UnlockInv == ASSUME DhtInv, NEW g \in Goroutines, Unlock(g) PROVE DhtInv'
<1>1. After(g) \in Places
  BY DEF After, Listen, Places, Calls
<1>2. g = "torrent" => After(g) \in {"idle", "announce"}
  <2> SUFFICES ASSUME g = "torrent" PROVE After(g) \in {"idle", "announce"}
    OBVIOUS
  <2>1. at[g] = "announce"
    BY DEF Unlock, DhtInv, DhtTypes, Calls, Nobody
  <2> QED BY <2>1 DEF After
<1>3. at' \in [Goroutines -> Places] /\ at'["torrent"] \in {"idle", "announce", "dead"}
  BY <1>1, <1>2 DEF Unlock, Goto, DhtInv, DhtTypes, Goroutines
<1> QED BY <1>3 DEF Unlock, DhtInv, DhtTypes

\* A step of a goroutine that does not hold the mutex leaves the holder where
\* it is.
LEMMA HolderStays ==
    ASSUME DhtInv, NEW g \in Goroutines, at[g] \notin Calls, NEW w \in Places,
           g = "torrent" => w \in {"idle", "announce", "dead"},
           Goto(g, w), UNCHANGED mu
    PROVE  /\ at' \in [Goroutines -> Places]
           /\ at'["torrent"] \in {"idle", "announce", "dead"}
           /\ mu' # Nobody => at'[mu'] \in Calls
BY DEF DhtInv, DhtTypes, Goto, Goroutines

LEMMA RunningInv == ASSUME DhtInv, NEW f \in Loops, Running(f) PROVE DhtInv'
<1> f \in Goroutines /\ f # "torrent"
  BY DEF Goroutines, Loops
<1>1. CASE Renew(f)
  <2>1. at[f] \notin Calls BY <1>1 DEF Renew, Calls
  <2>2. PICK w \in Places : Goto(f, w) BY <1>1 DEF Renew, Places, Calls
  <2> QED BY <1>1, <2>1, <2>2, HolderStays DEF Renew, DhtInv, DhtTypes
<1>2. CASE ReadFromUDP(f)
  <2>1. at[f] \notin Calls BY <1>2 DEF ReadFromUDP, Calls
  <2>2. PICK w \in Places : Goto(f, w) BY <1>2 DEF ReadFromUDP, Places, Calls
  <2> QED BY <1>2, <2>1, <2>2, HolderStays DEF ReadFromUDP, DhtInv, DhtTypes
<1> QED BY <1>1, <1>2 DEF Running

\* The steps of the torrent's loop.
LEMMA TorrentInv == ASSUME DhtInv, HandleEvent \/ Reannounce \/ Stop PROVE DhtInv'
<1>1. "torrent" \in Goroutines /\ at["torrent"] = "idle" /\ at["torrent"] \notin Calls
  BY DEF HandleEvent, Reannounce, Stop, Goroutines, Calls
<1>2. PICK w \in {"idle", "announce", "dead"} : Goto("torrent", w)
  BY DEF HandleEvent, Reannounce, Stop
<1>3. torEvent' \in Seq(Events) /\ Len(torEvent') <= TorCap
  <2>1. CASE torEvent' = <<>>
    BY <2>1, DhtAssumption
  <2>2. CASE torEvent # <<>> /\ torEvent' = Tail(torEvent)
    BY <2>2, DhtAssumption DEF DhtInv, DhtTypes
  <2>3. CASE UNCHANGED torEvent
    BY <2>3 DEF DhtInv, DhtTypes
  <2> QED BY <2>1, <2>2, <2>3 DEF HandleEvent, Reannounce, Stop
<1>4. UNCHANGED <<mu, sending, open, globalEvents, handle>>
  BY DEF HandleEvent, Reannounce, Stop
<1>5. w \in Places
  BY DEF Places, Calls
<1>6. /\ at' \in [Goroutines -> Places]
      /\ at'["torrent"] \in {"idle", "announce", "dead"}
      /\ mu' # Nobody => at'[mu'] \in Calls
  BY <1>1, <1>2, <1>4, <1>5, HolderStays
<1> QED BY <1>3, <1>4, <1>6 DEF DhtInv, DhtTypes

LEMMA BootstrapInv == ASSUME DhtInv, Bootstrap PROVE DhtInv'
<1>1. torEvent' \in Seq(Events) /\ Len(torEvent') <= TorCap
  BY Grow DEF Bootstrap, DhtInv, DhtTypes, Events
<1>2. UNCHANGED <<mu, sending, open, globalEvents, handle>>
  BY DEF Bootstrap
<1>3. CASE UNCHANGED at
  BY <1>1, <1>2, <1>3 DEF DhtInv, DhtTypes
<1>4. ASSUME NEW place \in Onward, Goto("bootstrap", place) PROVE DhtInv'
  <2>1. "bootstrap" \in Goroutines /\ at["bootstrap"] \notin Calls /\ place \in Places
    BY <1>4 DEF Onward, Goroutines, Calls, Places
  <2>2. /\ at' \in [Goroutines -> Places]
        /\ at'["torrent"] \in {"idle", "announce", "dead"}
        /\ mu' # Nobody => at'[mu'] \in Calls
    BY <1>2, <1>4, <2>1, HolderStays
  <2> QED BY <1>1, <1>2, <2>2 DEF DhtInv, DhtTypes
<1> QED BY <1>3, <1>4 DEF Bootstrap

LEMMA HandleInv == ASSUME DhtInv, Handle \/ AddKnown PROVE DhtInv'
<1>1. CASE Handle
  BY <1>1, DhtAssumption DEF Handle, DhtInv, DhtTypes
<1>2. CASE AddKnown
  <2>1. torEvent' \in Seq(Events) /\ Len(torEvent') <= TorCap
    BY <1>2, Grow DEF AddKnown, DhtInv, DhtTypes, Events
  <2> QED BY <1>2, <2>1 DEF AddKnown, DhtInv, DhtTypes
<1> QED BY <1>1, <1>2

LEMMA DhtStepInv == ASSUME DhtInv, [DhtNext]_dhtVars PROVE DhtInv'
<1>1. CASE Send
  BY <1>1, DhtAssumption DEF Send, DhtInv, DhtTypes
<1>2. CASE Handle \/ AddKnown
  BY <1>2, HandleInv
<1>3. CASE HandleEvent \/ Reannounce \/ Stop
  BY <1>3, TorrentInv
<1>4. CASE Bootstrap
  BY <1>4, BootstrapInv
<1>5. CASE Shutdown
  BY <1>5 DEF Shutdown, DhtInv, DhtTypes
<1>6. ASSUME NEW g \in Goroutines, Lock(g) \/ Unlock(g) PROVE DhtInv'
  BY <1>6, LockInv, UnlockInv
<1>7. ASSUME NEW f \in Loops, Running(f) PROVE DhtInv'
  BY <1>7, RunningInv
<1>8. ASSUME NEW e \in {"plain", "end"}, Post(e) PROVE DhtInv'
  <2>1. torEvent' \in Seq(Events) /\ Len(torEvent') <= TorCap
    BY <1>8, Grow DEF Post, DhtInv, DhtTypes, Events
  <2> QED BY <1>8, <2>1 DEF Post, DhtInv, DhtTypes
<1>9. CASE UNCHANGED dhtVars
  BY <1>9 DEF dhtVars, DhtInv, DhtTypes
<1> QED BY <1>1, <1>2, <1>3, <1>4, <1>5, <1>6, <1>7, <1>8, <1>9 DEF DhtNext

(* dht_callback (dht/dht_export.go:42, 56) sends with the mutex held.  For  *)
(* all capacities of globalEvents and Torrent.Event, such a send waits for  *)
(* ever only in the circle of the callback, Handle and an announcing        *)
(* torrent: never on a closed channel, nor on a Handle that has ended.      *)
THEOREM DhtOnlyCircle == DhtSpec => []OnlyCircle
<1>1. DhtInit => DhtInv
  BY DhtInitInv DEF DhtInit
<1>2. DhtInv /\ [DhtNext]_dhtVars => DhtInv'
  BY DhtStepInv
<1>3. DhtInv => OnlyCircle
  BY DhtInvIsEnough
<1> QED BY <1>1, <1>2, <1>3, PTL DEF DhtSpec

-----------------------------------------------------------------------------
(* The trackers.                                                           *)

\* Where a caller of GetState is.
Looks == [on : {TRUE}, tr : Trackers, at : {"locked", "ready", "unlocked"}]

Types ==
    /\ trackers \in Seq(Seq(Trackers))
    /\ tiers \subseteq DOMAIN trackers /\ tier \in Seq(Trackers)
    /\ locked \in [Trackers -> BOOLEAN]
    /\ since \in [Trackers -> Nat]
    /\ interval \in [Trackers -> Nat]
    /\ told \in [Trackers -> Nat]
    /\ announce \in [Trackers -> {"no", "locked", "waiting"}]
    /\ DOMAIN look = Viewers /\ \A v \in Viewers : look[v].on => look[v] \in Looks
    /\ look["loop"].on => tier # <<>>
    /\ DOMAIN exchange = Trackers
    /\ \A tr \in Trackers : DOMAIN exchange[tr] = Family

\* The flag of a tracker has one holder: a look, or an announce.
Holds(v) == look[v].on /\ look[v].at = "locked"
Holders ==
    /\ \A v \in Viewers : Holds(v) =>
           locked[look[v].tr] /\ announce[look[v].tr] = "no"
    /\ \A v, w \in Viewers : Holds(v) /\ Holds(w) /\ look[v].tr = look[w].tr => v = w
    /\ \A tr \in Trackers : announce[tr] # "no" => locked[tr]

\* An exchange that made an attempt has an error or has read a stray reply; one
\* that failed brings no interval.
Sound(x) ==
    /\ x.at \in {"connect", "announce"} =>
           /\ DOMAIN x = {"at", "i", "err", "last"} /\ x.i \in Nat
           /\ x.err \/ x.i = 0 \/ x.last = "stray"
    /\ x.at = "done" => x.interval \in Nat /\ (x.err => x.interval = 0)

Exchanges ==
    \A tr \in Trackers : \A f \in Family :
        /\ Sound(exchange[tr][f])
        /\ announce[tr] # "waiting" => exchange[tr][f].at = "off"

\* What a tracker asked for is in its interval, or in a result that Finish will
\* take it from.
Answered(tr, f) == exchange[tr][f].at = "done" /\ ~exchange[tr][f].err
Asked(tr) ==
    IF \E f \in Family : Answered(tr, f)
    THEN \E f \in Family : Answered(tr, f) /\ told[tr] <= exchange[tr][f].interval
    ELSE told[tr] > 1 => told[tr] <= interval[tr]

Inv ==
    /\ Types /\ Holders /\ Exchanges
    /\ \A tr \in Trackers : Asked(tr)
    /\ PanicsOnlyOnStray

-----------------------------------------------------------------------------

\* The larger of two numbers.
LEMMA MaxOfTwo ==
    ASSUME NEW a \in Nat, NEW b \in Nat
    PROVE  Max({a, b}) \in {a, b} /\ Max({a, b}) >= a /\ Max({a, b}) >= b
<1>1. \E m \in {a, b} : \A y \in {a, b} : m >= y
  BY SMT
<1> QED BY <1>1 DEF Max

LEMMA MinOfTwo ==
    ASSUME NEW a \in Nat, NEW b \in Nat
    PROVE  Min({a, b}) \in {a, b}
<1>1. \E m \in {a, b} : \A y \in {a, b} : m <= y
  BY SMT
<1> QED BY <1>1 DEF Min

LEMMA InitInv == ASSUME NEW s, s.tiers \in Seq(Seq(Trackers)), TrackersStart(s) PROVE Inv
<1>1. Types
  <2>1. \A v \in Viewers : ~look[v].on
    BY DEF TrackersStart, Away
  <2> QED BY <2>1, TrackerAssumption DEF TrackersStart, Types, Viewers
<1>2. Holders
  BY DEF TrackersStart, Holders, Holds, Away
<1>3. Exchanges
  BY DEF TrackersStart, Exchanges, Sound, Off
<1>4. \A tr \in Trackers : Asked(tr)
  BY DEF TrackersStart, Asked, Answered, Off
<1> QED BY <1>1, <1>2, <1>3, <1>4 DEF Inv, PanicsOnlyOnStray, TrackersStart

\* Steps of the loop and of time: a look may end, and nothing that a tracker has
\* changes but its age.
LEMMA QuietInv ==
    ASSUME Inv, UNCHANGED <<trackers, locked, interval, told, announce, exchange, panicked>>,
           tiers' \subseteq DOMAIN trackers, tier' \in Seq(Trackers),
           since' \in [Trackers -> Nat],
           DOMAIN look' = Viewers,
           \A v \in Viewers : look'[v] = look[v] \/ ~look'[v].on,
           look'["loop"].on => tier' # <<>>
    PROVE  Inv'
<1>1. Types'
  BY Zenon DEF Inv, Types
<1>2. Holders'
  <2>1. \A v \in Viewers : Holds(v)' => Holds(v) /\ look'[v] = look[v]
    BY DEF Holds
  <2> QED BY <2>1 DEF Inv, Holders
<1>3. Exchanges' /\ \A tr \in Trackers : Asked(tr)'
  BY DEF Inv, Exchanges, Asked, Answered
<1> QED BY <1>1, <1>2, <1>3 DEF Inv, PanicsOnlyOnStray

LEMMA LoopInv ==
    ASSUME Inv,
           \/ trackerAnnounce \/ (\E n \in tiers : Tier(n)) \/ Skip \/ Launch \/ NextTracker
           \/ (\E tr \in Trackers : Taken(tr)) \/ Tick \/ End
    PROVE  Inv'
<1>0. ~Away.on /\ "loop" \in Viewers
  BY DEF Away, Viewers
<1> /\ trackers \in Seq(Seq(Trackers)) /\ tiers \subseteq DOMAIN trackers
    /\ tier \in Seq(Trackers) /\ since \in [Trackers -> Nat] /\ DOMAIN look = Viewers
    /\ look["loop"].on => tier # <<>>
  BY DEF Inv, Types
<1>1. CASE trackerAnnounce
  BY <1>1, QuietInv DEF trackerAnnounce, setting, Idle
<1>2. CASE \E n \in tiers : Tier(n)
  <2>1. PICK n \in tiers : Tier(n)
    BY <1>2
  <2>2. n \in DOMAIN trackers /\ tier' = trackers[n]
    BY <2>1 DEF Tier
  <2>3. tier' \in Seq(Trackers) /\ tiers' \subseteq DOMAIN trackers
    BY <2>1, <2>2 DEF Tier
  <2> QED BY <2>1, <2>3, QuietInv, Zenon DEF Tier, setting
<1>3. CASE Skip
  BY <1>3, QuietInv DEF Skip, setting
<1>4. CASE Launch
  <2>1. ~look'["loop"].on /\ DOMAIN look' = Viewers
        /\ \A v \in Viewers : look'[v] = look[v] \/ ~look'[v].on
    BY <1>0, <1>4 DEF Launch
  <2> QED BY <1>4, <2>1, QuietInv DEF Launch, setting
<1>5. CASE NextTracker
  <2>1. ~look'["loop"].on /\ DOMAIN look' = Viewers
        /\ \A v \in Viewers : look'[v] = look[v] \/ ~look'[v].on
    BY <1>0, <1>5, Zenon DEF NextTracker
  <2>2. tier' \in Seq(Trackers)
    BY <1>5 DEF NextTracker
  <2> QED BY <1>5, <2>1, <2>2, QuietInv, Zenon DEF NextTracker, setting
<1>6. CASE \E tr \in Trackers : Taken(tr)
  BY <1>6, QuietInv, Zenon DEF Taken, setting, loopVars
<1>7. CASE Tick
  <2>1. \A tr \in Trackers : Min({since[tr] + Step, Forever}) \in Nat
    <3>1. Step \in Nat /\ Forever \in Nat
      BY TrackerAssumption
    <3> TAKE tr \in Trackers
    <3>2. since[tr] \in Nat
      OBVIOUS
    <3>3. since[tr] + Step \in Nat
      BY <3>1, <3>2
    <3> QED BY <3>1, <3>3, MinOfTwo, Zenon
  <2> QED BY <1>7, <2>1, QuietInv, Zenon DEF Tick, setting, loopVars
<1>8. CASE End
  BY <1>8, QuietInv DEF End, setting, loopVars
<1> QED BY <1>1, <1>2, <1>3, <1>4, <1>5, <1>6, <1>7, <1>8, Zenon

LEMMA GetStateInv ==
    ASSUME Inv, NEW v \in Viewers, NEW tr \in Trackers, GetState(v, tr),
           v = "loop" => tier # <<>>
    PROVE  Inv'
<1>1. ~locked[tr] /\ locked' = [locked EXCEPT ![tr] = TRUE]
  BY DEF GetState, tryLock
<1>2. [on |-> TRUE, tr |-> tr, at |-> "locked"] \in Looks
  BY DEF Looks
<1>3. Types'
  <2>1. \A w \in Viewers : look'[w] = look[w] \/ (w = v /\ look'[w] \in Looks)
    BY <1>2, Zenon DEF Inv, Types, GetState
  <2>2. "loop" \in Viewers
    BY DEF Viewers
  <2> QED BY <1>1, <2>1, <2>2, Zenon DEF Inv, Types, GetState, setting, loopVars
<1>4. Holders'
  <2>1. look'[v] = [on |-> TRUE, tr |-> tr, at |-> "locked"]
    BY DEF Inv, Types, GetState
  <2>2. \A w \in Viewers : w # v => look'[w] = look[w]
    BY DEF Inv, Types, GetState
  <2>3. \A w \in Viewers : w # v /\ Holds(w)' => look'[w].tr # tr
    BY <1>1, <2>2 DEF Inv, Holders, Holds
  <2>4. announce[tr] = "no" /\ announce' = announce
    BY <1>1 DEF Inv, Types, Holders, GetState
  <2>5. \A q \in Trackers : locked[q] => locked'[q]
    BY <1>1 DEF Inv, Types
  <2>6. locked'[tr]
    BY <1>1 DEF Inv, Types
  <2>7. \A w \in Viewers : Holds(w)' => look'[w].tr \in Trackers
    BY <1>3, Zenon DEF Types, Looks, Holds
  <2>8. ASSUME NEW w \in Viewers, Holds(w)' PROVE locked'[look'[w].tr] /\ announce'[look'[w].tr] = "no"
    <3>1. CASE w = v
      BY <3>1, <2>1, <2>4, <2>6
    <3>2. CASE w # v
      BY <3>2, <2>2, <2>4, <2>5, <2>7, <2>8 DEF Inv, Holders, Holds
    <3> QED BY <3>1, <3>2
  <2>9. ASSUME NEW w \in Viewers, NEW u \in Viewers, Holds(w)', Holds(u)', look'[w].tr = look'[u].tr
        PROVE w = u
    BY <2>1, <2>2, <2>3, <2>9 DEF Inv, Holders, Holds
  <2> QED BY <2>4, <2>5, <2>8, <2>9, Zenon DEF Inv, Holders
<1>5. Exchanges' /\ \A q \in Trackers : Asked(q)'
  BY DEF Inv, Exchanges, Asked, Answered, GetState
<1> QED BY <1>3, <1>4, <1>5 DEF Inv, PanicsOnlyOnStray, GetState

LEMMA TestedInv ==
    ASSUME Inv, NEW v \in Viewers, Tested(v)
    PROVE  Inv'
<1> DEFINE tr == look[v].tr
<1>1. Holds(v) /\ locked[tr] /\ announce[tr] = "no"
  BY DEF Inv, Holders, Holds, Tested
<1>2. tr \in Trackers
  BY <1>1, Zenon DEF Inv, Types, Looks, Holds
<1>3. locked' = [locked EXCEPT ![tr] = FALSE] /\ panicked' = panicked
  BY <1>1 DEF Tested, unlock
<1>4. ~look'[v].on \/ (look'[v] \in Looks /\ look'[v].at # "locked")
  <2>1. CASE v = "viewer"
    <3>1. look'[v] = Away
      BY <2>1 DEF Inv, Types, Tested
    <3> QED BY <3>1 DEF Away
  <2>2. CASE v # "viewer"
    <3>1. look[v] \in Looks
      BY <1>1 DEF Inv, Types, Holds
    <3>2. PICK a \in {"ready", "unlocked"} : look'[v] = [look[v] EXCEPT !.at = a]
      BY <2>2, Zenon DEF Inv, Types, Tested
    <3> QED BY <3>1, <3>2, Zenon DEF Looks
  <2> QED BY <2>1, <2>2
<1>5. \A w \in Viewers : w # v => look'[w] = look[w]
  BY DEF Inv, Types, Tested
<1>6. Types'
  <2>1. DOMAIN look' = Viewers /\ \A w \in Viewers : look'[w].on => look'[w] \in Looks
    BY <1>4, <1>5 DEF Inv, Types, Tested
  <2>2. look'["loop"].on => look["loop"].on
    BY <1>1, <1>5 DEF Viewers, Holds
  <2> QED BY <2>1, <2>2, <1>3, Zenon DEF Inv, Types, Tested, setting, loopVars
<1>7. Holders'
  <2>1. \A w \in Viewers : Holds(w)' => w # v /\ Holds(w) /\ look'[w] = look[w] /\ look[w].tr # tr
    BY <1>1, <1>4, <1>5, Zenon DEF Inv, Holders, Holds
  <2>2. announce' = announce
    BY DEF Tested
  <2>3. \A w \in Viewers : Holds(w) => look[w].tr \in Trackers
    BY Zenon DEF Inv, Types, Looks, Holds
  <2>4. \A q \in Trackers : q # tr => locked'[q] = locked[q]
    BY <1>3 DEF Inv, Types
  <2> HIDE DEF tr
  <2>5. \A w \in Viewers : Holds(w)' => locked'[look'[w].tr] /\ announce'[look'[w].tr] = "no"
    BY <2>1, <2>2, <2>3, <2>4 DEF Inv, Holders
  <2>6. \A w, x \in Viewers : Holds(w)' /\ Holds(x)' /\ look'[w].tr = look'[x].tr => w = x
    BY <2>1 DEF Inv, Holders
  <2>7. \A q \in Trackers : announce'[q] # "no" => locked'[q]
    BY <1>1, <2>2, <2>4 DEF Inv, Holders
  <2> QED BY <2>5, <2>6, <2>7 DEF Holders
<1>8. Exchanges' /\ \A q \in Trackers : Asked(q)'
  BY DEF Inv, Exchanges, Asked, Answered, Tested
<1> QED BY <1>3, <1>6, <1>7, <1>8 DEF Inv, PanicsOnlyOnStray

\* A step of an announce changes what concerns one tracker, not who looks at it.
LEMMA AnnounceTypes ==
    ASSUME Inv, NEW tr \in Trackers, UNCHANGED <<trackers, tiers, tier, look, told>>,
           NEW l \in BOOLEAN, locked' = [locked EXCEPT ![tr] = l],
           NEW a \in {"no", "locked", "waiting"}, announce' = [announce EXCEPT ![tr] = a],
           NEW s \in Nat, since' = [since EXCEPT ![tr] = s],
           NEW i \in Nat, interval' = [interval EXCEPT ![tr] = i],
           NEW x, exchange' = [exchange EXCEPT ![tr] = x], DOMAIN x = Family
    PROVE  Types'
BY Zenon DEF Inv, Types

\* The holder is an announce before or after the step, or both.
LEMMA AnnounceHolders ==
    ASSUME Inv, NEW tr \in Trackers, UNCHANGED look,
           ~locked[tr] \/ announce[tr] # "no",
           NEW l \in BOOLEAN, locked' = [locked EXCEPT ![tr] = l],
           NEW a, announce' = [announce EXCEPT ![tr] = a], a # "no" => l
    PROVE  Holders'
<1>1. \A v \in Viewers : Holds(v) => look[v].tr \in Trackers /\ look[v].tr # tr
  <2>1. \A v \in Viewers : Holds(v) => look[v].tr \in Trackers
    BY Zenon DEF Inv, Types, Holds, Looks
  <2>2. \A v \in Viewers : Holds(v) => look[v].tr # tr
    BY DEF Inv, Holders
  <2> QED BY <2>1, <2>2
<1>2. \A q \in Trackers : q # tr => locked'[q] = locked[q] /\ announce'[q] = announce[q]
  BY DEF Inv, Types
<1>3. locked'[tr] = l /\ announce'[tr] = a
  BY DEF Inv, Types
<1>4. \A v \in Viewers : Holds(v)' <=> Holds(v)
  BY DEF Holds
<1>5. \A v \in Viewers : Holds(v)' => locked'[look'[v].tr] /\ announce'[look'[v].tr] = "no"
  BY <1>1, <1>2, <1>4 DEF Inv, Holders
<1>6. \A v, w \in Viewers : Holds(v)' /\ Holds(w)' /\ look'[v].tr = look'[w].tr => v = w
  BY <1>4 DEF Inv, Holders
<1>7. \A q \in Trackers : announce'[q] # "no" => locked'[q]
  BY <1>2, <1>3 DEF Inv, Holders
<1> QED BY <1>5, <1>6, <1>7 DEF Holders

LEMMA TakeInv ==
    ASSUME Inv, NEW tr \in Trackers, Take(tr)
    PROVE  Inv'
<1>1. ~locked[tr] /\ locked' = [locked EXCEPT ![tr] = TRUE]
  BY DEF Take, tryLock
<1>2. announce' = [announce EXCEPT ![tr] = "locked"] /\ announce[tr] = "no"
  BY <1>1 DEF Inv, Holders, Take
<1>3. Types'
  BY <1>1, <1>2 DEF Inv, Types, Take, setting, loopVars
<1>4. Holders'
  BY <1>1, <1>2, AnnounceHolders, Zenon DEF Take
<1>5. exchange' = exchange /\ interval' = interval /\ told' = told /\ panicked' = panicked
  BY DEF Take
<1>6. Exchanges'
  <2>1. \A q \in Trackers : announce'[q] # "waiting" => announce[q] # "waiting"
    BY <1>2 DEF Inv, Types
  <2> QED BY <1>5, <2>1, Zenon DEF Inv, Exchanges
<1>7. \A q \in Trackers : Asked(q)'
  BY <1>5 DEF Inv, Asked, Answered
<1> QED BY <1>3, <1>4, <1>5, <1>6, <1>7 DEF Inv, PanicsOnlyOnStray

LEMMA AnnounceInv ==
    ASSUME Inv, NEW tr \in Trackers, Announce(tr)
    PROVE  Inv'
<1> DEFINE x == [f \in Family |-> Begun(tr, f)]
<1>1. /\ announce[tr] = "locked" /\ announce' = [announce EXCEPT ![tr] = "waiting"]
      /\ exchange' = [exchange EXCEPT ![tr] = x]
      /\ UNCHANGED <<trackers, tiers, tier, look, locked, interval, told, panicked>>
  BY DEF Announce, setting, loopVars
<1>2. \A f \in Family : x[f] \in {[at |-> "dial"], [at |-> "get"], Ended(TRUE, 0)}
  BY DEF Begun
<1>3. \A f \in Family : Sound(x[f]) /\ (x[f].at = "done" => x[f].err)
  BY <1>2 DEF Sound, Ended
<1>4. Types'
  BY <1>1, Zenon DEF Inv, Types, Announce
<1>5. locked[tr] /\ locked' = [locked EXCEPT ![tr] = TRUE]
  BY <1>1, Zenon DEF Inv, Types, Holders
<1>6. Holders'
  BY <1>1, <1>5, AnnounceHolders, Zenon
<1>7. \A f \in Family : exchange'[tr][f] = x[f] /\ ~Answered(tr, f) /\ ~Answered(tr, f)'
  BY <1>1, <1>3, Zenon DEF Inv, Types, Exchanges, Answered
<1>8. \A q \in Trackers : q # tr => exchange'[q] = exchange[q] /\ announce'[q] = announce[q]
  BY <1>1 DEF Inv, Types
<1>9. Exchanges'
  <2>1. announce'[tr] = "waiting"
    BY <1>1 DEF Inv, Types
  <2> SUFFICES ASSUME NEW q \in Trackers, NEW f \in Family
               PROVE  /\ Sound(exchange'[q][f])
                      /\ announce'[q] # "waiting" => exchange'[q][f].at = "off"
    BY DEF Exchanges, Sound
  <2>2. CASE q = tr
    BY <1>3, <1>7, <2>1, <2>2
  <2>3. CASE q # tr
    BY <1>8, <2>3 DEF Inv, Exchanges
  <2> QED BY <2>2, <2>3, Zenon
<1>10. ASSUME NEW q \in Trackers PROVE Asked(q)'
  <2>1. CASE q = tr
    BY <1>1, <1>7, <2>1, Zenon DEF Inv, Asked
  <2>2. CASE q # tr
    BY <1>1, <1>8, <2>2 DEF Inv, Asked, Answered
  <2> QED BY <2>1, <2>2
<1> QED BY <1>1, <1>4, <1>6, <1>9, <1>10 DEF Inv, PanicsOnlyOnStray

LEMMA NotReadyInv ==
    ASSUME Inv, NEW tr \in Trackers, NotReady(tr)
    PROVE  Inv'
<1>1. locked[tr] /\ announce[tr] = "locked"
  BY DEF Inv, Holders, NotReady
<1>2. /\ locked' = [locked EXCEPT ![tr] = FALSE] /\ panicked' = panicked
      /\ announce' = [announce EXCEPT ![tr] = "no"]
  BY <1>1 DEF NotReady, unlock
<1>3. Types'
  BY <1>2 DEF Inv, Types, NotReady, setting, loopVars
<1>4. Holders'
  BY <1>1, <1>2, AnnounceHolders, Zenon DEF NotReady
<1>5. exchange' = exchange /\ interval' = interval /\ told' = told
  BY DEF NotReady
<1>6. Exchanges'
  <2>1. \A q \in Trackers : announce'[q] # "waiting" => announce[q] # "waiting"
    BY <1>1, <1>2 DEF Inv, Types
  <2> QED BY <1>5, <2>1 DEF Inv, Exchanges
<1>7. \A q \in Trackers : Asked(q)'
  BY <1>5 DEF Inv, Asked, Answered
<1> QED BY <1>2, <1>3, <1>4, <1>6, <1>7 DEF Inv, PanicsOnlyOnStray

\* The longest interval of the results covers what the tracker asked for.
LEMMA FinishInv ==
    ASSUME Inv, NEW tr \in Trackers, Finish(tr)
    PROVE  Inv'
<1> DEFINE x == exchange[tr]
           m == Max({x[f].interval : f \in Family})
           i == IF m > 1 THEN m ELSE Max({interval[tr], 15})
<1>1. announce[tr] = "waiting" /\ \A f \in Family : x[f].at = "done"
  BY DEF Finish
<1>2. locked[tr]
  BY <1>1 DEF Inv, Holders
<1>3. /\ locked' = [locked EXCEPT ![tr] = FALSE] /\ panicked' = panicked
      /\ announce' = [announce EXCEPT ![tr] = "no"]
      /\ interval' = [interval EXCEPT ![tr] = i]
      /\ exchange' = [exchange EXCEPT ![tr] = [f \in Family |-> Off]]
      /\ UNCHANGED <<trackers, tiers, tier, look, told, since>>
  BY <1>2 DEF Finish, unlock, updateInterval, setting, loopVars
<1>4. \A f \in Family : x[f].interval \in Nat /\ (x[f].err => x[f].interval = 0)
  BY <1>1, Zenon DEF Inv, Exchanges, Sound
<1>5. m \in Nat /\ \A f \in Family : x[f].interval <= m
  <2>1. {x[f].interval : f \in Family} = {x["v4"].interval, x["v6"].interval}
    BY DEF Family
  <2>2. x["v4"].interval \in Nat /\ x["v6"].interval \in Nat
    BY <1>4 DEF Family
  <2>3. /\ m \in {x["v4"].interval, x["v6"].interval}
        /\ m >= x["v4"].interval /\ m >= x["v6"].interval
    BY <2>1, <2>2, MaxOfTwo, Zenon
  <2> QED BY <2>2, <2>3 DEF Family
<1>6. interval[tr] \in Nat /\ told[tr] \in Nat
  BY DEF Inv, Types
<1>7. Max({interval[tr], 15}) \in Nat /\ Max({interval[tr], 15}) >= interval[tr]
  BY <1>6, MaxOfTwo
<1>8. i \in Nat /\ (told[tr] > 1 => told[tr] <= i)
  <2>1. CASE \E f \in Family : Answered(tr, f)
    <3>1. PICK f \in Family : told[tr] <= x[f].interval
      BY <2>1 DEF Inv, Asked
    <3> QED BY <1>4, <1>5, <1>6, <1>7, <3>1
  <2>2. CASE ~\E f \in Family : Answered(tr, f)
    <3>1. \A f \in Family : x[f].interval = 0
      BY <1>1, <1>4, <2>2 DEF Answered
    <3>2. m = 0
      <4>1. {x[f].interval : f \in Family} = {0, 0}
        BY <3>1 DEF Family
      <4>2. Max({0, 0}) \in {0, 0}
        BY MaxOfTwo
      <4> QED BY <4>1, <4>2
    <3>3. told[tr] > 1 => told[tr] <= interval[tr]
      BY <2>2 DEF Inv, Asked
    <3> QED BY <1>6, <1>7, <3>2, <3>3
  <2> QED BY <2>1, <2>2, Zenon
<1> HIDE DEF i
<1>9. Types'
  BY <1>3, <1>8 DEF Inv, Types
<1>10. Holders'
  BY <1>1, <1>3, AnnounceHolders, Zenon
<1>11. /\ \A f \in Family : exchange'[tr][f] = Off
       /\ interval'[tr] = i /\ told'[tr] = told[tr]
  BY <1>3 DEF Inv, Types
<1>12. \A q \in Trackers : q # tr =>
          /\ exchange'[q] = exchange[q] /\ announce'[q] = announce[q]
          /\ interval'[q] = interval[q] /\ told'[q] = told[q]
  BY <1>3 DEF Inv, Types
<1>13. Exchanges'
  <2> SUFFICES ASSUME NEW q \in Trackers, NEW f \in Family
               PROVE  /\ Sound(exchange'[q][f])
                      /\ announce'[q] # "waiting" => exchange'[q][f].at = "off"
    BY DEF Exchanges, Sound
  <2>0. Sound(Off) /\ Off.at = "off"
    BY DEF Sound, Off
  <2>1. CASE q = tr
    BY <1>11, <2>0, <2>1
  <2>2. CASE q # tr
    BY <1>12, <2>2 DEF Inv, Exchanges
  <2> QED BY <2>1, <2>2
<1>14. ASSUME NEW q \in Trackers PROVE Asked(q)'
  <2>1. CASE q = tr
    <3>1. \A f \in Family : ~Answered(tr, f)'
      BY <1>11 DEF Answered, Off
    <3> QED BY <1>8, <1>11, <2>1, <3>1 DEF Asked
  <2>2. CASE q # tr
    BY <1>12, <2>2 DEF Inv, Asked, Answered
  <2> QED BY <2>1, <2>2
<1> QED BY <1>3, <1>9, <1>10, <1>13, <1>14 DEF Inv, PanicsOnlyOnStray

\* A step of an exchange changes it, and perhaps what the tracker asked for.
LEMMA ExchangeInv ==
    ASSUME Inv, NEW tr \in Trackers, NEW f \in Family,
           UNCHANGED <<trackers, tiers, tier, look, locked, since, announce>>,
           exchange[tr][f].at # "off",
           NEW x, Becomes(tr, f, x), Sound(x),
           NEW i \in Nat, interval' = [interval EXCEPT ![tr] = i],
           NEW d \in Nat, told' = [told EXCEPT ![tr] = d],
           Asked(tr)', PanicsOnlyOnStray'
    PROVE  Inv'
<1>1. Types'
  BY DEF Inv, Types, Becomes
<1>2. Holders'
  BY DEF Inv, Holders, Holds
<1>3. /\ exchange'[tr][f] = x
      /\ \A g \in Family : g # f => exchange'[tr][g] = exchange[tr][g]
      /\ \A q \in Trackers : q # tr => exchange'[q] = exchange[q]
  BY DEF Inv, Types, Becomes
<1>4. announce[tr] = "waiting"
  BY Zenon DEF Inv, Exchanges
<1>5. Exchanges'
  <2> SUFFICES ASSUME NEW q \in Trackers, NEW g \in Family
               PROVE  /\ Sound(exchange'[q][g])
                      /\ announce'[q] # "waiting" => exchange'[q][g].at = "off"
    BY Zenon DEF Exchanges, Sound
  <2>1. CASE q = tr /\ g = f
    BY <1>3, <1>4, <2>1, Zenon
  <2>2. CASE ~(q = tr /\ g = f)
    BY <1>3, <2>2, Zenon DEF Inv, Exchanges
  <2> QED BY <2>1, <2>2, Zenon
<1>6. ASSUME NEW q \in Trackers, q # tr PROVE Asked(q)'
  <2>1. interval'[q] = interval[q] /\ told'[q] = told[q]
    BY <1>6, Zenon DEF Inv, Types
  <2> QED BY <1>3, <1>6, <2>1, Zenon DEF Inv, Asked, Answered
<1> QED BY <1>1, <1>2, <1>5, <1>6 DEF Inv

\* An exchange goes on, or ends with an error and nothing to tell.
LEMMA ProgressInv ==
    ASSUME Inv, NEW tr \in Trackers, NEW f \in Family,
           UNCHANGED <<trackers, tiers, tier, look, locked, since, announce, interval, told>>,
           exchange[tr][f].at \notin {"off", "done"},
           NEW x, Becomes(tr, f, x), Sound(x), x.at = "done" => x.err,
           PanicsOnlyOnStray'
    PROVE  Inv'
<1>1. /\ exchange'[tr][f] = x
      /\ \A g \in Family : g # f => exchange'[tr][g] = exchange[tr][g]
  BY DEF Inv, Types, Becomes
<1>2. \A g \in Family : Answered(tr, g)' <=> Answered(tr, g)
  BY <1>1, Zenon DEF Answered
<1>3. \A g \in Family : Answered(tr, g) => g # f
  BY Zenon DEF Answered
<1>4. Asked(tr)'
  BY <1>1, <1>2, <1>3, Zenon DEF Inv, Asked
<1>5. /\ interval' = [interval EXCEPT ![tr] = interval[tr]] /\ interval[tr] \in Nat
      /\ told' = [told EXCEPT ![tr] = told[tr]] /\ told[tr] \in Nat
  BY Zenon DEF Inv, Types
<1> QED BY <1>4, <1>5, ExchangeInv, Zenon

\* A reply to an announce.
LEMMA AnswerInv ==
    ASSUME Inv, NEW tr \in Trackers, NEW f \in Family,
           UNCHANGED <<trackers, tiers, tier, look, locked, since, announce, interval, panicked>>,
           exchange[tr][f].at \notin {"off", "done"},
           NEW i \in Nat, Becomes(tr, f, Ended(FALSE, i)), Told(tr, f, i, FALSE)
    PROVE  Inv'
<1> DEFINE x == Ended(FALSE, i)
           others == \E g \in Family \ {f} : Answered(tr, g)
           d == IF ~others THEN i ELSE Max({told[tr], i})
<1>1. told' = [told EXCEPT ![tr] = d]
  BY Zenon DEF Told, Answered
<1>2. told[tr] \in Nat
  BY Zenon DEF Inv, Types
<1>3. d \in Nat /\ (d = i \/ (others /\ d = told[tr]))
  BY <1>2, MaxOfTwo, Zenon
<1>4. /\ exchange'[tr][f] = x /\ x.at = "done" /\ ~x.err /\ x.interval = i
      /\ \A g \in Family : g # f => exchange'[tr][g] = exchange[tr][g]
  BY DEF Inv, Types, Becomes, Ended
<1>5. Sound(x)
  BY Zenon DEF Sound, Ended
<1>6. told'[tr] = d
  BY <1>1, Zenon DEF Inv, Types
<1> HIDE DEF d, x
<1>7. Answered(tr, f)'
  BY <1>4, Zenon DEF Answered
<1>8. \E g \in Family : Answered(tr, g)' /\ told'[tr] <= exchange'[tr][g].interval
  <2>1. CASE d = i
    BY <1>4, <1>6, <1>7, <2>1
  <2>2. CASE others /\ d = told[tr]
    <3>1. PICK g \in Family : Answered(tr, g) /\ told[tr] <= exchange[tr][g].interval
      BY <2>2, Zenon DEF Inv, Asked
    <3>2. g # f
      BY <3>1 DEF Answered
    <3>3. Answered(tr, g)'
      BY <1>4, <3>1, <3>2 DEF Answered
    <3> QED BY <1>4, <1>6, <2>2, <3>1, <3>2, <3>3, Zenon
  <2> QED BY <1>3, <2>1, <2>2, Zenon
<1>9. Asked(tr)'
  BY <1>7, <1>8, Zenon DEF Asked
<1>10. interval' = [interval EXCEPT ![tr] = interval[tr]] /\ interval[tr] \in Nat
  BY DEF Inv, Types
<1>11. Becomes(tr, f, x) /\ PanicsOnlyOnStray'
  BY Zenon DEF x, Inv, PanicsOnlyOnStray
<1> QED BY <1>1, <1>3, <1>5, <1>9, <1>10, <1>11, ExchangeInv, Zenon

\* An exchange that ends with an error.
LEMMA Failed == Sound(Ended(TRUE, 0)) /\ Ended(TRUE, 0).at = "done" /\ Ended(TRUE, 0).err
BY DEF Sound, Ended

\* A refusal, which sets the interval before the announce is over.
LEMMA RefusedInv ==
    ASSUME Inv, NEW tr \in Trackers, NEW f \in Family,
           UNCHANGED <<trackers, tiers, tier, look, locked, since, announce, panicked>>,
           exchange[tr][f].at \notin {"off", "done"},
           NEW retry \in Nat, interval' = [interval EXCEPT ![tr] = retry],
           Told(tr, f, retry, TRUE), Becomes(tr, f, Ended(TRUE, 0))
    PROVE  Inv'
<1> DEFINE others == \E g \in Family \ {f} : Answered(tr, g)
           d == IF ~others THEN retry ELSE told[tr]
<1>1. told' = [told EXCEPT ![tr] = d] /\ told[tr] \in Nat
  BY Zenon DEF Told, Answered, Inv, Types
<1>2. told'[tr] = d /\ interval'[tr] = retry
  BY <1>1, Zenon DEF Inv, Types
<1>3. /\ exchange'[tr][f] = Ended(TRUE, 0)
      /\ \A g \in Family : g # f => exchange'[tr][g] = exchange[tr][g]
  BY Zenon DEF Inv, Types, Becomes
<1>4. \A g \in Family : Answered(tr, g) => g # f
  BY Zenon DEF Answered
<1>5. \A g \in Family : Answered(tr, g)' <=> Answered(tr, g)
  BY <1>3, <1>4, Failed, Zenon DEF Answered
<1>6. Asked(tr)'
  <2>1. CASE others
    <3>1. PICK g \in Family : Answered(tr, g) /\ told[tr] <= exchange[tr][g].interval
      BY <2>1, Zenon DEF Inv, Asked
    <3> QED BY <1>2, <1>3, <1>4, <1>5, <2>1, <3>1, Zenon DEF Asked
  <2>2. CASE ~others
    <3>1. ~\E g \in Family : Answered(tr, g)'
      BY <1>4, <1>5, <2>2
    <3>2. told'[tr] <= interval'[tr]
      BY <1>2, <2>2
    <3> QED BY <3>1, <3>2, Zenon DEF Asked
  <2> QED BY <2>1, <2>2, Zenon
<1>7. d \in Nat
  BY <1>1
<1> QED BY <1>1, <1>6, <1>7, Failed, ExchangeInv, Zenon DEF Inv, PanicsOnlyOnStray

LEMMA GetInv ==
    ASSUME Inv, NEW tr \in Trackers, NEW f \in Family, Get(tr, f)
    PROVE  Inv'
<1>1. /\ exchange[tr][f].at \notin {"off", "done"}
      /\ UNCHANGED <<trackers, tiers, tier, look, locked, since, announce, panicked>>
  BY Zenon DEF Get, setting, loopVars
<1>2. PanicsOnlyOnStray'
  BY <1>1 DEF Inv, PanicsOnlyOnStray
<1>3. CASE Becomes(tr, f, Ended(TRUE, 0)) /\ UNCHANGED <<interval, told>>
  BY <1>1, <1>2, <1>3, Failed, ProgressInv, Zenon
<1>4. CASE /\ Becomes(tr, f, Ended(TRUE, 0))
           /\ \E retry \in IF terse THEN {} ELSE Retries :
                  /\ interval' = [interval EXCEPT ![tr] = retry]
                  /\ Told(tr, f, retry, TRUE)
  <2>1. PICK retry \in Nat : /\ interval' = [interval EXCEPT ![tr] = retry]
                             /\ Told(tr, f, retry, TRUE)
    BY <1>4, TrackerAssumption, Zenon
  <2> QED BY <1>1, <1>4, <2>1, RefusedInv, Zenon
<1>5. CASE /\ UNCHANGED interval
           /\ \E i \in IF terse THEN {0} ELSE Intervals :
                  Becomes(tr, f, Ended(FALSE, i)) /\ Told(tr, f, i, FALSE)
  <2>1. PICK i \in Nat : Becomes(tr, f, Ended(FALSE, i)) /\ Told(tr, f, i, FALSE)
    BY <1>5, TrackerAssumption, Zenon
  <2> QED BY <1>1, <1>5, <2>1, AnswerInv, Zenon
<1> QED BY <1>3, <1>4, <1>5, Zenon DEF Get

LEMMA DialInv ==
    ASSUME Inv, NEW tr \in Trackers, NEW f \in Family, Dial(tr, f)
    PROVE  Inv'
<1>1. /\ exchange[tr][f].at \notin {"off", "done"}
      /\ UNCHANGED <<trackers, tiers, tier, look, locked, since, announce, interval, told>>
  BY Zenon DEF Dial, setting, loopVars
<1>2. PanicsOnlyOnStray'
  BY Zenon DEF Inv, PanicsOnlyOnStray, Dial
<1>3. Sound(Try("connect")) /\ Try("connect").at = "connect"
  BY DEF Sound, Try
<1> QED BY <1>1, <1>2, <1>3, Failed, ProgressInv, Zenon DEF Dial

LEMMA AgainInv ==
    ASSUME Inv, NEW tr \in Trackers, NEW f \in Family, Again(tr, f)
    PROVE  Inv'
<1> DEFINE x == exchange[tr][f]
<1>1. /\ x.at \in {"connect", "announce"}
      /\ UNCHANGED <<trackers, tiers, tier, look, locked, since, announce, interval, told>>
  BY DEF Again, setting, loopVars
<1>2. PanicsOnlyOnStray'
  BY DEF Inv, PanicsOnlyOnStray, Again
<1>3. PICK o \in Outcome(x.at) :
          Becomes(tr, f, [x EXCEPT !.i = @ + 1, !.err = o.err, !.last = o.last])
  BY Zenon DEF Again
<1>4. o.err \/ o.last = "stray"
  BY <1>3, Zenon DEF Outcome
<1> DEFINE y == [x EXCEPT !.i = @ + 1, !.err = o.err, !.last = o.last]
<1>5. DOMAIN x = {"at", "i", "err", "last"} /\ x.i \in Nat
  BY <1>1, Zenon DEF Inv, Exchanges, Sound
<1>6. /\ DOMAIN y = {"at", "i", "err", "last"}
      /\ y.at = x.at /\ y.i = x.i + 1 /\ y.err = o.err /\ y.last = o.last
  BY <1>5
<1> HIDE DEF y
<1>7. Sound(y) /\ y.at # "done"
  <2>1. y.at # "done" /\ (y.err \/ y.last = "stray")
    BY <1>1, <1>4, <1>6
  <2>2. y.i \in Nat
    BY <1>5, <1>6
  <2> QED BY <1>6, <2>1, <2>2 DEF Sound
<1>8. Becomes(tr, f, y)
  BY <1>3 DEF y
<1> QED BY <1>1, <1>2, <1>7, <1>8, ProgressInv, Zenon

LEMMA ReplyInv ==
    ASSUME Inv, NEW tr \in Trackers, NEW f \in Family, Reply(tr, f)
    PROVE  Inv'
<1>1. /\ exchange[tr][f].at \notin {"off", "done"}
      /\ UNCHANGED <<trackers, tiers, tier, look, locked, since, announce, interval, panicked>>
  BY Zenon DEF Reply, setting, loopVars
<1>2. PanicsOnlyOnStray'
  BY <1>1 DEF Inv, PanicsOnlyOnStray
<1>3. Sound(Try("announce")) /\ Try("announce").at = "announce"
  BY DEF Sound, Try
<1>4. CASE Becomes(tr, f, Ended(TRUE, 0)) /\ UNCHANGED told
  BY <1>1, <1>2, <1>4, Failed, ProgressInv, Zenon
<1>5. CASE Becomes(tr, f, Try("announce")) /\ UNCHANGED told
  BY <1>1, <1>2, <1>3, <1>5, ProgressInv, Zenon
<1>6. CASE \E i \in IF terse THEN {0} ELSE Intervals :
               Becomes(tr, f, Ended(FALSE, i)) /\ Told(tr, f, i, FALSE)
  <2>1. PICK i \in Nat : Becomes(tr, f, Ended(FALSE, i)) /\ Told(tr, f, i, FALSE)
    BY <1>6, TrackerAssumption, Zenon
  <2> QED BY <1>1, <2>1, AnswerInv, Zenon
<1> QED BY <1>4, <1>5, <1>6, Zenon DEF Reply

\* The panic: the attempts are over without an error.
LEMMA GiveUpInv ==
    ASSUME Inv, NEW tr \in Trackers, NEW f \in Family, GiveUp(tr, f)
    PROVE  Inv'
<1> DEFINE x == exchange[tr][f]
<1>1. /\ x.at \in {"connect", "announce"}
      /\ UNCHANGED <<trackers, tiers, tier, look, locked, since, announce, interval, told>>
      /\ Becomes(tr, f, Ended(TRUE, 0))
  BY Zenon DEF GiveUp, setting, loopVars
<1>2. running => x.i = Tries /\ x.i # 0
  BY TrackerAssumption, Zenon DEF GiveUp
<1>3. x.err \/ x.i = 0 \/ x.last = "stray"
  BY <1>1, Zenon DEF Inv, Exchanges, Sound
<1>4. PanicsOnlyOnStray'
  BY <1>2, <1>3, Zenon DEF Inv, PanicsOnlyOnStray, GiveUp
<1> QED BY <1>1, <1>4, Failed, ProgressInv, Zenon

LEMMA StepInv == ASSUME Inv, [TrackersNext]_trackerVars PROVE Inv'
<1>1. CASE UNCHANGED trackerVars
  BY <1>1, QuietInv, Zenon DEF trackerVars, setting, loopVars, Inv, Types
<1>2. CASE Loop \/ Tick \/ End
  <2>1. CASE Ask
    <3>1. tier \in Seq(Trackers) /\ tier # <<>>
      BY <2>1 DEF Inv, Types, Ask
    <3>2. Head(tier) \in Trackers /\ "loop" \in Viewers
      BY <3>1 DEF Viewers
    <3> QED BY <2>1, <3>1, <3>2, GetStateInv DEF Ask
  <2> QED BY <1>2, <2>1, LoopInv DEF Loop
<1>3. CASE \E v \in Viewers : Tested(v)
  BY <1>3, TestedInv
<1>4. CASE \E tr \in Trackers : View(tr)
  <2>1. PICK tr \in Trackers : GetState("viewer", tr)
    BY <1>4 DEF View
  <2> QED BY <2>1, GetStateInv DEF Viewers
<1>5. CASE \E tr \in Trackers : Goroutine(tr)
  <2>1. PICK tr \in Trackers : Goroutine(tr)
    BY <1>5
  <2>2. CASE Take(tr) \/ Taken(tr) \/ Announce(tr) \/ NotReady(tr) \/ Finish(tr)
    BY <2>2, TakeInv, LoopInv, AnnounceInv, NotReadyInv, FinishInv
  <2>3. CASE \E f \in Family : Get(tr, f) \/ Dial(tr, f) \/ Again(tr, f) \/ Reply(tr, f) \/ GiveUp(tr, f)
    BY <2>3, GetInv, DialInv, AgainInv, ReplyInv, GiveUpInv
  <2> QED BY <2>1, <2>2, <2>3 DEF Goroutine
<1> QED BY <1>1, <1>2, <1>3, <1>4, <1>5 DEF TrackersNext

\* The invariant, of every behaviour of the torrent's announces.
LEMMA Invariance == TrackersSpec => []Inv
<1>1. TrackersInit => Inv
  BY InitInv, TrackerAssumption DEF TrackersInit
<1> QED BY <1>1, StepInv, PTL DEF TrackersSpec

\* Of the program's panics in the code of trackers, the one of unlock
\* (tracker/tracker.go:69) is never reached, and the one of udpRequestReply
\* (tracker/udp.go:302) only by a last attempt that read a stray reply.
THEOREM TrackerPanicsOnlyOnStray == TrackersSpec => []PanicsOnlyOnStray
<1>1. Inv => PanicsOnlyOnStray
  BY DEF Inv
<1> QED BY <1>1, Invariance, PTL

\* The flag of a tracker is a lock: it is held by at most one look of GetState
\* or one announce (tracker/tracker.go:62-71).
THEOREM TrackerFlagExcludes == TrackersSpec => []Holders
<1>1. Inv => Holders
  BY DEF Inv
<1> QED BY <1>1, Invariance, PTL

\* A step that starts an announce finds the tracker's time elapsed.
LEMMA PoliteStep ==
    ASSUME Inv, [TrackersNext]_trackerVars, NEW tr \in Trackers,
           since'[tr] = 0, since[tr] # 0
    PROVE  since[tr] > 5 /\ (told[tr] > 1 => since[tr] > told[tr])
<1>1. since' # since /\ since[tr] \in Nat /\ interval[tr] \in Nat /\ told[tr] \in Nat
  BY DEF Inv, Types
<1>2. ~Tick
  <2> SUFFICES ASSUME Tick PROVE FALSE
    OBVIOUS
  <2>1. Step \in Nat \ {0} /\ Forever \in Nat \ {0} /\ since[tr] + Step \in Nat
    BY <1>1, TrackerAssumption
  <2>2. since'[tr] = Min({since[tr] + Step, Forever})
    BY DEF Tick
  <2> QED BY <1>1, <2>1, <2>2, MinOfTwo
<1>3. PICK q \in Trackers : Announce(q)
  <2>1. TrackersNext
    BY <1>1 DEF trackerVars
  <2>2. ~Loop /\ ~End
    BY <1>1, Zenon DEF Loop, trackerAnnounce, Tier, Ask, GetState, Skip, Launch, NextTracker, End
  <2>3. \A v \in Viewers : ~Tested(v)
    BY <1>1 DEF Tested
  <2>4. \A q \in Trackers : ~View(q)
    BY <1>1, Zenon DEF View, GetState
  <2>5. \A q \in Trackers : ~(Take(q) \/ Taken(q) \/ NotReady(q) \/ Finish(q))
    BY <1>1, Zenon DEF Take, Taken, NotReady, Finish
  <2>6. ASSUME NEW q \in Trackers, NEW f \in Family
        PROVE ~(Get(q, f) \/ Dial(q, f) \/ Again(q, f) \/ Reply(q, f) \/ GiveUp(q, f))
    <3>1. ~Get(q, f)
      BY <1>1, Zenon DEF Get
    <3>2. ~Dial(q, f)
      BY <1>1, Zenon DEF Dial
    <3>3. ~Again(q, f)
      BY <1>1, Zenon DEF Again
    <3>4. ~Reply(q, f)
      BY <1>1, Zenon DEF Reply
    <3>5. ~GiveUp(q, f)
      BY <1>1, Zenon DEF GiveUp
    <3> QED BY <3>1, <3>2, <3>3, <3>4, <3>5, Zenon
  <2> QED BY <1>2, <2>1, <2>2, <2>3, <2>4, <2>5, <2>6, Zenon DEF TrackersNext, Goroutine
<1>4. q = tr
  BY <1>3 DEF Inv, Types, Announce
<1>5. ready(tr) /\ announce[tr] = "locked"
  BY <1>3, <1>4 DEF Announce
<1>6. ~\E f \in Family : Answered(tr, f)
  BY <1>5, Zenon DEF Inv, Exchanges, Answered
<1>7. told[tr] > 1 => told[tr] <= interval[tr]
  BY <1>6, Zenon DEF Inv, Asked
<1> DEFINE i == IF interval[tr] <= 0 THEN 30 ELSE interval[tr]
<1>8. i \in Nat /\ since[tr] > Max({i, 5})
  BY <1>1, <1>5, Zenon DEF ready
<1>9. Max({i, 5}) \in Nat /\ Max({i, 5}) >= i /\ Max({i, 5}) >= 5
  BY <1>8, MaxOfTwo
<1> QED BY <1>1, <1>7, <1>8, <1>9

\* Every tracker is left in peace for as long as it asked, whatever it answers
\* in which family and whoever looks at it meanwhile.
THEOREM TrackersLeftInPeace == TrackersSpec => Polite
<1>1. Inv /\ [TrackersNext]_trackerVars =>
        [\A tr \in Trackers :
            since'[tr] = 0 /\ since[tr] # 0 =>
                since[tr] > 5 /\ (told[tr] > 1 => since[tr] > told[tr])]_trackerVars
  BY PoliteStep
<1> QED BY <1>1, Invariance, PTL DEF TrackersSpec, Polite

-----------------------------------------------------------------------------
(* The two together.                                                       *)

\* A torrent announces to its trackers or in the DHT, and the invariants of both
\* hold of either.
LEMMA BothInv == FairSpec => [](Inv /\ DhtInv)
<1>1. Init => Inv /\ DhtInv
  <2>1. Trackerless.tiers \in Seq(Seq(Trackers))
    BY DEF Trackerless
  <2> QED BY <2>1, InitInv, DhtInitInv, TrackerAssumption DEF Init, TrackersInit, DhtInit
<1>2. Inv /\ DhtInv /\ [Next]_vars => Inv' /\ DhtInv'
  <2>1. [Next]_vars => [TrackersNext]_trackerVars /\ [DhtNext]_dhtVars
    BY Zenon DEF Next, vars
  <2> QED BY <2>1, StepInv, DhtStepInv
<1> QED BY <1>1, <1>2, PTL DEF FairSpec

\* However a torrent looks for peers, no panic of the trackers' code is reached
\* but by a stray reply, and no send of the DHT's callback waits for ever but in
\* the circle.
THEOREM DiscoverySafe == FairSpec => [](PanicsOnlyOnStray /\ OnlyCircle)
<1>1. Inv /\ DhtInv => PanicsOnlyOnStray /\ OnlyCircle
  BY DhtInvIsEnough DEF Inv
<1> QED BY <1>1, BothInv, PTL

\* And no tracker is asked again before its time.
THEOREM DiscoveryPolite == FairSpec => Polite
<1>1. [Next]_vars => [TrackersNext]_trackerVars
  BY Zenon DEF Next, vars
<1>2. Inv /\ [TrackersNext]_trackerVars =>
        [\A tr \in Trackers :
            since'[tr] = 0 /\ since[tr] # 0 =>
                since[tr] > 5 /\ (told[tr] > 1 => since[tr] > told[tr])]_trackerVars
  BY PoliteStep
<1> QED BY <1>1, <1>2, BothInv, PTL DEF FairSpec, Polite
=============================================================================
