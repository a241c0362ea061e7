------------------------------- MODULE Memory -------------------------------
(***************************************************************************)
(* The memory reaper: tor.Expire, called periodically by storrent.go,      *)
(* shares out the memory target among the torrents and starts a            *)
(* Pieces.Expire goroutine for each torrent that is over its share.        *)
(* Meanwhile peers add data, the goroutines of earlier rounds are still    *)
(* running, and torrents come and go.                                      *)
(*                                                                         *)
(* Memory is counted in pieces, all of the same size, so that Pieces.Bytes *)
(* is exact and alloc.Bytes is the number of buffers of all the torrents.  *)
(***************************************************************************)
EXTENDS Integers, FiniteSets

CONSTANTS
    Torrent,
    Expirer,      \* goroutines that run Pieces.Expire
    MemoryMark,   \* config.MemoryMark
    MaxPieces,    \* pieces in a torrent
    MaxAdds       \* bound: how many pieces are added in all

ASSUME SizesAssumption ==
    /\ IsFiniteSet(Torrent) /\ Torrent # {}
    /\ MemoryMark \in Nat \ {0} /\ MaxPieces \in Nat /\ MaxAdds \in Nat

VARIABLES
    live,         \* the torrents that are registered
    dying,        \* those whose loop has ended
    bytes,        \* bytes[t]: Pieces.Bytes
    pc,           \* where tor.Expire is
    toscan,       \* the torrents it has yet to range over
    fair,         \* its local variables
    smallspace,
    bigcount,
    fair2,
    exp,          \* exp[e]: the Pieces.Expire call made by goroutine e
    adds,         \* how many pieces were added
    freed,        \* history: memory was freed since tor.Expire looked at it
    added         \* history: memory was added since then

locals == <<toscan, fair, smallspace, bigcount, fair2>>
memoryVars == <<live, dying, bytes, pc, locals, exp, adds, freed, added>>

low == (MemoryMark * 7) \div 8
high == MemoryMark
mid == (low + high) \div 2

\* The buffers of a torrent are numbered.
Buffers == {b \in Torrent \X (1 .. MaxPieces) : b[2] <= bytes[b[1]]}
Bytes == Cardinality(Buffers)

\* Integer division in Go truncates.
Quo(a, b) == IF a < 0 THEN -((-a) \div b) ELSE a \div b

ExpIdle(t) == [pc |-> "idle", tor |-> t, keep |-> 0, todo |-> 0]

MemoryInit ==
    /\ live = Torrent
    /\ dying = {}
    /\ bytes = [t \in Torrent |-> 0]
    /\ pc = "sleep"
    /\ toscan = {}
    /\ fair = 0 /\ smallspace = 0 /\ bigcount = 0 /\ fair2 = 0
    /\ exp = [e \in Expirer |-> ExpIdle(CHOOSE t \in Torrent : TRUE)]
    /\ adds = 0
    /\ freed = FALSE /\ added = FALSE

-----------------------------------------------------------------------------
(* The rest of the program.  A panic ends it.                              *)

Alive == pc # "panic"

\* AddData allocates a piece.
Add(t) ==
    /\ Alive
    /\ t \in live \ dying
    /\ bytes[t] < MaxPieces
    /\ adds < MaxAdds
    /\ bytes' = [bytes EXCEPT ![t] = @ + 1]
    /\ adds' = adds + 1
    /\ added' = TRUE
    /\ UNCHANGED <<live, dying, pc, locals, exp, freed>>

\* The torrent ends: Pieces.Del, after which it is still registered.
Kill(t) ==
    /\ Alive
    /\ t \in live \ dying
    /\ dying' = dying \cup {t}
    /\ bytes' = [bytes EXCEPT ![t] = 0]
    /\ freed' = (freed \/ bytes[t] > 0)
    /\ UNCHANGED <<live, pc, locals, exp, adds, added>>

\* del(t.Hash)
Unregister(t) ==
    /\ Alive
    /\ t \in dying
    /\ live' = live \ {t}
    /\ dying' = dying \ {t}
    /\ UNCHANGED <<bytes, pc, locals, exp, adds, freed, added>>

AddTorrent(t) ==
    /\ Alive
    /\ t \notin live
    /\ live' = live \cup {t}
    /\ UNCHANGED <<dying, bytes, pc, locals, exp, adds, freed, added>>

-----------------------------------------------------------------------------
(* Pieces.Expire, called with fair2.  Busy pieces are left out.            *)

ExpireStart(e) ==
    LET todo == bytes[exp[e].tor] - exp[e].keep
    IN  /\ Alive
        /\ exp[e].pc = "call"
        /\ exp' = [exp EXCEPT ![e] =
              IF todo > 0 THEN [@ EXCEPT !.pc = "run", !.todo = todo]
                          ELSE ExpIdle(@.tor)]
        /\ UNCHANGED <<live, dying, bytes, pc, locals, adds, freed, added>>

\* The next piece that has a buffer is freed, or there is none.
ExpirePiece(e) ==
    LET t == exp[e].tor IN
    /\ Alive
    /\ exp[e].pc = "run"
    /\ IF bytes[t] > 0
       THEN /\ bytes' = [bytes EXCEPT ![t] = @ - 1]
            /\ freed' = TRUE
            /\ exp' = [exp EXCEPT ![e] = IF @.todo = 1 THEN ExpIdle(t)
                                         ELSE [@ EXCEPT !.todo = @ - 1]]
       ELSE /\ exp' = [exp EXCEPT ![e] = ExpIdle(t)]
            /\ UNCHANGED <<bytes, freed>>
    /\ UNCHANGED <<live, dying, pc, locals, adds, added>>

-----------------------------------------------------------------------------
(* tor.Expire.                                                             *)

\* Faulty variant: memory between the marks is reclaimed as well.
PressedEarly == Bytes >= mid

\* Faulty variant: being at the high mark is not enough.
PressedStrict == Bytes > high

Pressed == Bytes >= high

Expire ==
    /\ pc = "sleep"
    /\ Pressed
    /\ pc' = "count"
    /\ freed' = FALSE /\ added' = FALSE
    /\ UNCHANGED <<live, dying, bytes, locals, exp, adds>>

\* Dividing by zero panics.
Count ==
    /\ pc = "count"
    /\ IF live = {}
       THEN pc' = "panic" /\ UNCHANGED locals
       ELSE /\ pc' = "scan"
            /\ fair' = Quo(low, Cardinality(live))
            /\ toscan' = live
            /\ smallspace' = 0 /\ bigcount' = 0
            /\ UNCHANGED fair2
    /\ UNCHANGED <<live, dying, bytes, exp, adds, freed, added>>

\* Range calls the function for a torrent that is still there.
Scan(t) ==
    /\ pc = "scan"
    /\ t \in toscan
    /\ toscan' = toscan \ {t}
    /\ IF t \notin live THEN UNCHANGED <<smallspace, bigcount>>
       ELSE IF bytes[t] <= fair
       THEN smallspace' = smallspace + bytes[t] /\ UNCHANGED bigcount
       ELSE bigcount' = bigcount + 1 /\ UNCHANGED smallspace
    /\ UNCHANGED <<live, dying, bytes, pc, fair, fair2, exp, adds, freed, added>>

\* Faulty variant: the small torrents' share is not taken off.
ShareAll == Quo(low, bigcount)

Share == Quo(low - smallspace, bigcount)

ScanEnd ==
    /\ pc = "scan"
    /\ toscan = {}
    /\ IF bigcount = 0
       THEN pc' = "panic" /\ UNCHANGED <<toscan, fair2>>
       ELSE /\ pc' = "launch"
            /\ fair2' = Share
            /\ toscan' = live
    /\ UNCHANGED <<live, dying, bytes, fair, smallspace, bigcount, exp, adds, freed, added>>

Launch(t) ==
    /\ pc = "launch"
    /\ t \in toscan
    /\ toscan' = toscan \ {t}
    /\ IF t \in live /\ bytes[t] > fair2
       THEN \E e \in Expirer :
                /\ exp[e].pc = "idle"
                /\ exp' = [exp EXCEPT ![e] =
                      [pc |-> "call", tor |-> t, keep |-> fair2, todo |-> 0]]
       ELSE UNCHANGED exp
    /\ UNCHANGED <<live, dying, bytes, pc, fair, smallspace, bigcount, fair2, adds, freed, added>>

\* The locals are forgotten.
LaunchEnd ==
    /\ pc = "launch"
    /\ toscan = {}
    /\ pc' = "sleep"
    /\ fair' = 0 /\ smallspace' = 0 /\ bigcount' = 0 /\ fair2' = 0
    /\ UNCHANGED <<live, dying, bytes, toscan, exp, adds, freed, added>>

Reaper ==
    \/ Expire \/ Count \/ ScanEnd \/ LaunchEnd
    \/ \E t \in Torrent : Scan(t) \/ Launch(t)

MemoryNext ==
    \/ \E t \in Torrent : Add(t) \/ Kill(t) \/ Unregister(t) \/ AddTorrent(t)
    \/ \E e \in Expirer : ExpireStart(e) \/ ExpirePiece(e)
    \/ Reaper

(* The reaper is called for ever and the goroutines it starts run.         *)
MemoryFairness ==
    /\ WF_memoryVars(Reaper)
    /\ \A e \in Expirer : WF_memoryVars(ExpireStart(e) \/ ExpirePiece(e))

MemorySpec == MemoryInit /\ [][MemoryNext]_memoryVars /\ MemoryFairness

-----------------------------------------------------------------------------
(* A round of tor.Expire that nobody disturbs meets the target: what the   *)
(* torrents may keep, those left alone included, is no more than low.      *)
MeetsTarget ==
    pc = "launch" /\ ~freed /\ ~added =>
        Cardinality({b \in Buffers : b[2] <= fair2}) <= low

(* tor.Expire only panics when memory was freed after it had looked at how *)
(* much is in use: by a torrent that ends or by an earlier round.          *)
PanicsOnlyIfFreed == pc = "panic" => freed

(* Memory use above the high mark goes down again once no more is added,   *)
(* unless tor.Expire panics.                                               *)
Reclaimed ==
    [](pc # "panic") => (Bytes >= high ~> Bytes < high)
=============================================================================
