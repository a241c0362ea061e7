----------------------------- MODULE Discovery ------------------------------
(***************************************************************************)
(* How a torrent finds peers: by its trackers, with the DHT disabled       *)
(* (dhtMode, tor/tor.go:125), or in the DHT, when it has no trackers.      *)
(***************************************************************************)
EXTENDS Tracker, Dht

VARIABLE dhtMode        \* Torrent.dhtMode: "none" or "normal"

vars == <<dhtMode, trackerVars, dhtVars>>

Trackerless == [tiers |-> <<>>, proxied |-> FALSE, views |-> 0, terse |-> TRUE]

Init ==
    \/ dhtMode = "none" /\ TrackersInit /\ DhtStart(CHOOSE c \in Casts : TRUE)
    \/ dhtMode = "normal" /\ DhtInit /\ TrackersStart(Trackerless)

Next ==
    /\ UNCHANGED dhtMode
    /\ \/ dhtMode = "none" /\ TrackersNext /\ UNCHANGED dhtVars
       \/ dhtMode = "normal" /\ DhtNext /\ UNCHANGED trackerVars

FairSpec == Init /\ [][Next]_vars /\ TrackersFairness
=============================================================================
