------------------------------ MODULE Tracker -------------------------------
(***************************************************************************)
(* Announcing to trackers (tracker/*.go; tor/tor.go, trackerAnnounce).     *)
(* The torrent's loop looks for a tracker that is ready and starts a       *)
(* goroutine that announces to it over IPv4 and IPv6 at once; the user     *)
(* interface looks at the trackers' states meanwhile.  A tracker has no    *)
(* mutex but a flag that is taken or found taken.                          *)
(*                                                                         *)
(* Durations are minutes and pass by Step; what the replies say besides    *)
(* the interval is left out, and so are URLs that do not parse, which New  *)
(* has excluded.  A reply may be lost, late or duplicated.                 *)
(***************************************************************************)
EXTENDS Integers, Sequences, FiniteSets, FiniteSetsExt, Functions

CONSTANTS
    Settings,       \* what a torrent may have: tiers of trackers, a proxy; bounds:
                    \* the looks of its user interface, what trackers answer
    Scheme,         \* the kind of each tracker: "udp", "http" or "unknown"
    Reachable,      \* the families ("v4", "v6") in which a UDP dial may succeed
    Intervals,      \* intervals in the replies
    Retries,        \* values of "retry in" in refusals; 0 when absent
    Step, Forever,  \* the unit of time; the age after which none matters
    Tries,          \* attempts of udpRequestReply (4)
    MaxLaunched     \* bound: goroutines that have not tried to take a tracker yet

Trackers == DOMAIN Scheme
Family == {"v4", "v6"}
TierNumbers == UNION {DOMAIN s.tiers : s \in Settings}

ASSUME TrackerAssumption ==
    /\ Range(Scheme) \subseteq {"udp", "http", "unknown"} /\ Reachable \subseteq Family
    /\ \A s \in Settings :
           /\ s.tiers \in Seq(Seq(Trackers))
           /\ s.proxied \in BOOLEAN /\ s.views \in Nat /\ s.terse \in BOOLEAN
    /\ Intervals \cup Retries \subseteq Nat
    /\ {Step, Forever, Tries, MaxLaunched} \subseteq Nat \ {0}
    /\ \A i \in Intervals \cup Retries \cup {30} : i < Forever

VARIABLES
    running,        \* the torrent's context is not done
    proxied,        \* Torrent.proxy is set
    trackers,       \* Torrent.trackers
    locked,         \* base.locked
    since,          \* the time since base.time
    interval,       \* base.interval
    err,            \* base.err # nil
    tiers, tier,    \* trackerAnnounce: tiers to visit; the rest of this one
    look,           \* GetState called by the "loop" and by a "viewer"
    launched,       \* trackerAnnounceSingle, before Announce
    announce,       \* Announce: "no", "locked" or "waiting" for the families
    exchange,       \* announceUDP and announceHTTP, one for each family
    views,          \* looks the user interface has left
    terse,          \* bound: no tracker gives an interval or refuses
    told,           \* history: what the tracker asked for last, see Told
    panicked        \* the panic that ended the program

loopVars == <<tiers, tier>>
setting == <<proxied, trackers, terse>>
trackerVars == <<running, setting, locked, since, interval, err, loopVars, look,
          launched, announce, exchange, views, told, panicked>>

Viewers == {"loop", "viewer"}
Away == [on |-> FALSE]
Off == [at |-> "off"]
Ended(e, i) == [at |-> "done", err |-> e, interval |-> i]
Try(phase) == [at |-> phase, i |-> 0, err |-> FALSE, last |-> "nothing"]

TrackersStart(s) ==
    /\ running = TRUE
    /\ trackers = s.tiers /\ proxied = s.proxied /\ views = s.views /\ terse = s.terse
    /\ locked = [tr \in Trackers |-> FALSE]
    /\ since = [tr \in Trackers |-> Forever]
    /\ interval = [tr \in Trackers |-> 0]
    /\ err = [tr \in Trackers |-> FALSE]
    /\ tiers = {} /\ tier = <<>>
    /\ look = [v \in Viewers |-> Away]
    /\ launched = [tr \in Trackers |-> 0]
    /\ announce = [tr \in Trackers |-> "no"]
    /\ exchange = [tr \in Trackers |-> [f \in Family |-> Off]]
    /\ told = [tr \in Trackers |-> 0]
    /\ panicked = "no"

(***************************************************************************)
(* The lifetime of a tracker.                                              *)
(***************************************************************************)

\* base.ready.  The interval is clamped before it is used.
ready(tr) ==
    LET i == IF interval[tr] <= 0 THEN 30 ELSE interval[tr]
    IN  since[tr] > Max({i, 5})

\* base.tryLock, which has failed when locked[tr]; base.unlock, which panics
\* when the flag is not set.
tryLock(tr) == ~locked[tr] /\ locked' = [locked EXCEPT ![tr] = TRUE]
unlock(tr) ==
    /\ locked' = [locked EXCEPT ![tr] = FALSE]
    /\ panicked' = IF locked[tr] THEN panicked ELSE "unlock"

\* base.updateInterval, from what the interval is now: the announce over HTTP
\* may have set it.
updateInterval(tr, i, e) ==
    /\ err' = [err EXCEPT ![tr] = e]
    /\ interval' = [interval EXCEPT ![tr] =
           IF i > 1 THEN i ELSE Max({@, 15})]

(***************************************************************************)
(* GetState, in three steps: take the flag, test and release it, read the  *)
(* error; what the user interface does with it is left out.  A tracker of  *)
(* unknown scheme answers Disabled at once.                                *)
(***************************************************************************)

GetState(v, tr) ==
    /\ Scheme[tr] # "unknown"
    /\ tryLock(tr)
    /\ look' = [look EXCEPT ![v] = [on |-> TRUE, tr |-> tr, at |-> "locked"]]
    /\ UNCHANGED <<running, setting, since, interval, err, loopVars,
                   launched, announce, exchange, told, panicked>>

Tested(v) ==
    /\ look[v].on /\ look[v].at = "locked"
    /\ unlock(look[v].tr)
    /\ look' = [look EXCEPT ![v] =
           IF v = "viewer" THEN Away
           ELSE [@ EXCEPT !.at = IF ready(look[v].tr) THEN "ready" ELSE "unlocked"]]
    /\ UNCHANGED <<running, setting, since, interval, err, loopVars,
                   launched, announce, exchange, views, told>>

View(tr) ==
    /\ ~look["viewer"].on /\ views > 0 /\ views' = views - 1
    /\ GetState("viewer", tr)

(***************************************************************************)
(* trackerAnnounce, in the torrent's loop on a tick of the slow ticker:    *)
(* the tiers in random order, and in a tier the first tracker that is not  *)
(* in error; at most one announce is started.                              *)
(***************************************************************************)

Idle == tiers = {} /\ tier = <<>> /\ ~look["loop"].on

trackerAnnounce ==
    /\ running /\ Idle /\ trackers # <<>>
    /\ tiers' = DOMAIN trackers
    /\ UNCHANGED <<running, setting, locked, since, interval, err, tier, look,
                   launched, announce, exchange, views, told, panicked>>

Tier(n) ==
    /\ n \in tiers /\ tier = <<>> /\ ~look["loop"].on
    /\ tiers' = tiers \ {n}
    /\ tier' = trackers[n]
    /\ UNCHANGED <<running, setting, locked, since, interval, err, look,
                   launched, announce, exchange, views, told, panicked>>

Ask ==
    /\ tier # <<>> /\ ~look["loop"].on
    /\ GetState("loop", Head(tier)) /\ UNCHANGED views

\* The state is Busy or Disabled: on to the next tier.
Skip ==
    /\ tier # <<>> /\ ~look["loop"].on
    /\ Scheme[Head(tier)] = "unknown" \/ locked[Head(tier)]
    /\ tier' = <<>>
    /\ UNCHANGED <<running, setting, locked, since, interval, err, tiers, look,
                   launched, announce, exchange, views, told, panicked>>

\* The state is Ready: an announce is started and the loop ends.
Launch ==
    /\ look["loop"].on /\ look["loop"].at = "ready"
    /\ LET tr == look["loop"].tr IN
           /\ launched[tr] < MaxLaunched
           /\ launched' = [launched EXCEPT ![tr] = @ + 1]
    /\ tiers' = {} /\ tier' = <<>>
    /\ look' = [look EXCEPT !["loop"] = Away]
    /\ UNCHANGED <<running, setting, locked, since, interval, err,
                   announce, exchange, views, told, panicked>>

\* The state is Error: on to the next tracker of the tier; Idle: to the next tier.
NextTracker ==
    /\ look["loop"].on /\ look["loop"].at = "unlocked"
    /\ tier' = IF err[look["loop"].tr] THEN Tail(tier) ELSE <<>>
    /\ look' = [look EXCEPT !["loop"] = Away]
    /\ UNCHANGED <<running, setting, locked, since, interval, err, tiers,
                   launched, announce, exchange, views, told, panicked>>

(***************************************************************************)
(* Announce: a goroutine takes the tracker, tests again whether it is      *)
(* ready, runs an exchange in each family and takes their results.         *)
(***************************************************************************)

Take(tr) ==
    /\ launched[tr] > 0
    /\ launched' = [launched EXCEPT ![tr] = @ - 1]
    /\ tryLock(tr)
    /\ announce' = [announce EXCEPT ![tr] = "locked"]
    /\ UNCHANGED <<running, setting, since, interval, err, loopVars, look,
                   exchange, views, told, panicked>>

\* ErrNotReady: the tracker is taken.
Taken(tr) ==
    /\ launched[tr] > 0 /\ locked[tr]
    /\ launched' = [launched EXCEPT ![tr] = @ - 1]
    /\ UNCHANGED <<running, setting, locked, since, interval, err, loopVars, look,
                   announce, exchange, views, told, panicked>>

\* Over HTTP a proxy is asked once, for both families.
Begun(tr, f) ==
    CASE Scheme[tr] = "udp" -> [at |-> "dial"]
      [] Scheme[tr] = "http" /\ proxied /\ f = "v6" -> Ended(TRUE, 0)
      [] OTHER -> [at |-> "get"]

\* Faulty variant: the state that GetState reported is relied upon.
AnnounceUntested(tr) ==
    /\ announce[tr] = "locked"
    /\ since' = [since EXCEPT ![tr] = 0]
    /\ announce' = [announce EXCEPT ![tr] = "waiting"]
    /\ exchange' = [exchange EXCEPT ![tr] = [f \in Family |-> Begun(tr, f)]]
    /\ UNCHANGED <<running, setting, locked, interval, err, loopVars, look,
                   launched, views, told, panicked>>

Announce(tr) ==
    /\ announce[tr] = "locked" /\ ready(tr)
    /\ since' = [since EXCEPT ![tr] = 0]
    /\ announce' = [announce EXCEPT ![tr] = "waiting"]
    /\ exchange' = [exchange EXCEPT ![tr] = [f \in Family |-> Begun(tr, f)]]
    /\ UNCHANGED <<running, setting, locked, interval, err, loopVars, look,
                   launched, views, told, panicked>>

\* Faulty variant: the flag is released only at the end of an announce.
NotReadyHeld(tr) ==
    /\ announce[tr] = "locked" /\ ~ready(tr)
    /\ announce' = [announce EXCEPT ![tr] = "no"]
    /\ UNCHANGED <<running, setting, locked, since, interval, err, loopVars, look,
                   launched, exchange, views, told, panicked>>

\* ErrNotReady: another announce came first.
NotReady(tr) ==
    /\ announce[tr] = "locked" /\ ~ready(tr)
    /\ announce' = [announce EXCEPT ![tr] = "no"]
    /\ unlock(tr)
    /\ UNCHANGED <<running, setting, since, interval, err, loopVars, look,
                   launched, exchange, views, told>>

Finish(tr) ==
    LET x == exchange[tr] IN
    /\ announce[tr] = "waiting" /\ \A f \in Family : x[f].at = "done"
    /\ updateInterval(tr, Max({x[f].interval : f \in Family}), \A f \in Family : x[f].err)
    /\ announce' = [announce EXCEPT ![tr] = "no"]
    /\ exchange' = [exchange EXCEPT ![tr] = [f \in Family |-> Off]]
    /\ unlock(tr)
    /\ UNCHANGED <<running, setting, since, loopVars, look, launched, views, told>>

(***************************************************************************)
(* The exchanges.                                                          *)
(***************************************************************************)

Becomes(tr, f, x) == exchange' = [exchange EXCEPT ![tr][f] = x]

\* History: an interval, the longer when both families got one; a time to stay
\* away counts when neither did.
Told(tr, f, i, refused) ==
    LET answered == \E g \in Family \ {f} :
            exchange[tr][g].at = "done" /\ ~exchange[tr][g].err
    IN  told' = [told EXCEPT ![tr] = IF ~answered THEN i
                                     ELSE IF refused THEN @ ELSE Max({@, i})]

\* announceHTTP.  A refusal sets the tracker's interval at once.
Get(tr, f) ==
    /\ exchange[tr][f].at = "get"
    /\ \/ Becomes(tr, f, Ended(TRUE, 0)) /\ UNCHANGED <<interval, told>>
       \/ /\ running
          /\ \E retry \in IF terse THEN {} ELSE Retries :
                 /\ interval' = [interval EXCEPT ![tr] = retry]
                 /\ Told(tr, f, retry, TRUE)
          /\ Becomes(tr, f, Ended(TRUE, 0))
       \/ /\ running
          /\ \E i \in IF terse THEN {0} ELSE Intervals :
                 /\ Becomes(tr, f, Ended(FALSE, i))
                 /\ Told(tr, f, i, FALSE)
          /\ UNCHANGED interval
    /\ UNCHANGED <<running, setting, locked, since, err, loopVars, look,
                   launched, announce, views, panicked>>

\* announceUDP: dial, then a connect and an announce request.
Dial(tr, f) ==
    /\ exchange[tr][f].at = "dial"
    /\ \/ Becomes(tr, f, Ended(TRUE, 0))
       \/ running /\ f \in Reachable /\ Becomes(tr, f, Try("connect"))
    /\ UNCHANGED <<running, setting, locked, since, interval, err, loopVars, look,
                   launched, announce, views, told, panicked>>

\* Faulty variant: a packet that is too short leaves no error behind.
OutcomeForgotten(phase) ==
    [last : {"unwritten", "timeout"}, err : {TRUE}]
    \cup [last : {"short"}, err : {FALSE}]
    \cup [last : IF phase = "announce" THEN {"stray"} ELSE {}, err : {FALSE}]

\* An attempt that udpRequestReply makes again: the request was not written, no
\* reply came, it was short, or it answers another request, which is no error.
\* Only the announce has a request before it.
Outcome(phase) ==
    [last : {"unwritten", "timeout", "short"}, err : {TRUE}]
    \cup [last : IF phase = "announce" THEN {"stray"} ELSE {}, err : {FALSE}]

Again(tr, f) ==
    LET x == exchange[tr][f] IN
    /\ x.at \in {"connect", "announce"} /\ running /\ x.i < Tries
    /\ \E o \in Outcome(x.at) :
           Becomes(tr, f, [x EXCEPT !.i = @ + 1, !.err = o.err, !.last = o.last])
    /\ UNCHANGED <<running, setting, locked, since, interval, err, loopVars, look,
                   launched, announce, views, told, panicked>>

\* A reply to this request: an error, another action, or what was asked for.
Reply(tr, f) ==
    LET x == exchange[tr][f] IN
    /\ x.at \in {"connect", "announce"} /\ running /\ x.i < Tries
    /\ \/ Becomes(tr, f, Ended(TRUE, 0)) /\ UNCHANGED told
       \/ x.at = "connect" /\ Becomes(tr, f, Try("announce")) /\ UNCHANGED told
       \/ /\ x.at = "announce"
          /\ \E i \in IF terse THEN {0} ELSE Intervals :
                 /\ Becomes(tr, f, Ended(FALSE, i))
                 /\ Told(tr, f, i, FALSE)
    /\ UNCHANGED <<running, setting, locked, since, interval, err, loopVars, look,
                   launched, announce, views, panicked>>

\* The attempts are over, or the context is done.
GiveUp(tr, f) ==
    LET x == exchange[tr][f] IN
    /\ x.at \in {"connect", "announce"} /\ (x.i = Tries \/ ~running)
    /\ Becomes(tr, f, Ended(TRUE, 0))
    /\ panicked' = IF running /\ ~x.err THEN x.last ELSE panicked
    /\ UNCHANGED <<running, setting, locked, since, interval, err, loopVars, look,
                   launched, announce, views, told>>

(***************************************************************************)
(* Time passes; the torrent ends.                                          *)
(***************************************************************************)

Tick ==
    /\ \E tr \in Trackers : since[tr] < Forever
    /\ since' = [tr \in Trackers |-> Min({since[tr] + Step, Forever})]
    /\ UNCHANGED <<running, setting, locked, interval, err, loopVars, look,
                   launched, announce, exchange, views, told, panicked>>

End ==
    /\ running /\ Idle
    /\ running' = FALSE
    /\ UNCHANGED <<setting, locked, since, interval, err, loopVars, look,
                   launched, announce, exchange, views, told, panicked>>

Loop == trackerAnnounce \/ (\E n \in tiers : Tier(n)) \/ Ask \/ Skip \/ Launch \/ NextTracker
Goroutine(tr) ==
    \/ Take(tr) \/ Taken(tr) \/ Announce(tr) \/ NotReady(tr) \/ Finish(tr)
    \/ \E f \in Family : Get(tr, f) \/ Dial(tr, f) \/ Again(tr, f) \/ Reply(tr, f) \/ GiveUp(tr, f)

Up == panicked = "no"
TrackersNext ==
    /\ Up
    /\ \/ Loop \/ Tick \/ End
       \/ \E v \in Viewers : Tested(v)
       \/ \E tr \in Trackers : View(tr) \/ Goroutine(tr)

TrackersInit == \E s \in Settings : TrackersStart(s)
TrackersSpec == TrackersInit /\ [][TrackersNext]_trackerVars

\* Goroutines are scheduled and time passes.  A goroutine tries to take its
\* tracker in the 20 seconds between two looks of the loop, and the order of the
\* tiers is random: each has its turn.
TrackersFairness ==
    /\ WF_trackerVars(Up /\ (Loop \/ Tested("loop"))) /\ WF_trackerVars(Up /\ Tested("viewer"))
    /\ WF_trackerVars(Up /\ Tick)
    /\ \A tr \in Trackers : Scheme[tr] # "unknown" =>
           WF_trackerVars(Up /\ Goroutine(tr)) /\ SF_trackerVars(Up /\ Take(tr))
    /\ \A n \in TierNumbers :
           SF_trackerVars(Up /\ tiers = DOMAIN trackers /\ Tier(n))
-----------------------------------------------------------------------------

\* A tracker is left in peace: an announce starts only when more than five
\* minutes, and more than the interval the tracker asked for last, if that was
\* more than a minute, have passed since the one before (tracker/udp.go:34,
\* tracker/http.go:49: the state the loop has seen is old by then).
Polite ==
    [][\A tr \in Trackers :
          since'[tr] = 0 /\ since[tr] # 0 =>
              since[tr] > 5 /\ (told[tr] > 1 => since[tr] > told[tr])]_trackerVars

\* The program panics, in udpRequestReply, only when the last of its attempts
\* read a late reply to the connect request (tracker/udp.go:302); the flag of a
\* tracker is never released by one that does not hold it (tracker.go:69).
PanicsOnlyOnStray == panicked \in {"no", "stray"}

\* While the torrent runs, the first tracker of every tier is announced to again
\* and again, whoever looks at the trackers and however the announces end, unless
\* its scheme is unknown: a flag that stayed taken would end that (udp.go:32).
TiersServed ==
    \A n \in TierNumbers :
        []<>(\/ ~running \/ ~Up \/ n \notin DOMAIN trackers
             \/ Scheme[trackers[n][1]] = "unknown"
             \/ since[trackers[n][1]] = 0)
=============================================================================
