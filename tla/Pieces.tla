------------------------------- MODULE Pieces -------------------------------
(***************************************************************************)
(* The contents of a torrent (tor/piece/piece.go).  Peers and webseeds add *)
(* chunks, goroutines started by the torrent validate full pieces, a       *)
(* memory reaper evicts pieces, and the torrent discards everything when   *)
(* it ends.  Every critical section of Pieces.mu is one action; the places *)
(* where the lock is released half-way (Finalise while it hashes, del      *)
(* while it waits for a busy piece) are separate actions.                  *)
(*                                                                         *)
(* Lengths are in chunks, and the content of a chunk is the source that    *)
(* wrote it: the SHA-1 of a piece matches exactly when no chunk of it was  *)
(* written by a member of Corrupt.                                         *)
(***************************************************************************)
EXTENDS Integers, FiniteSets

CONSTANTS
    Num,          \* number of pieces of the torrent
    Chunks,       \* chunks in every piece but the last
    LastChunks,   \* chunks in the last piece
    Peer,         \* peers, known to Pieces by their Counter
    Webseed,      \* webseed writers: they pass ^uint32(0) as their peer
    Corrupt,      \* the sources whose data does not match the hashes
    Finaliser,    \* goroutines that run Finalise
    Expirer,      \* goroutines that run Expire
    Nil,          \* a piece with no buffer
    Zero          \* a chunk of a buffer nobody wrote yet

Source == Peer \cup Webseed
Piece == 0 .. Num - 1
Chunk == 0 .. Chunks - 1
Buffer == [Chunk -> Source \cup {Zero}]

ASSUME SizesAssumption ==
    /\ Num \in Nat \ {0}
    /\ Chunks \in Nat \ {0}
    /\ LastChunks \in 1 .. Chunks

ASSUME SourcesAssumption ==
    /\ Corrupt \subseteq Source
    /\ Peer \cap Webseed = {}
    /\ Zero \notin Source
    /\ Nil \notin Buffer

VARIABLES
    data,      \* data[i]: the buffer of piece i, or Nil
    bitmap,    \* bitmap[i]: the chunks of piece i that have been written
    state,     \* state[i]: incomplete, busy (being hashed) or complete
    peers,     \* peers[i]: the peers that contributed to piece i
    count,     \* Pieces.count
    deleted,   \* Pieces.deleted
    fin,       \* fin[f]: the Finalise call made by goroutine f
    exp,       \* exp[e]: the Expire call made by goroutine e
    del,       \* the Del call made when the torrent ends
    stopped    \* sources that have noticed that the torrent is done

contents == <<data, bitmap, state, peers, count>>
vars == <<data, bitmap, state, peers, count, deleted, fin, exp, del, stopped>>

FinIdle == [pc |-> "idle", index |-> 0, ok |-> FALSE]
ExpIdle == [pc |-> "idle", left |-> {}, todo |-> 0]

Init ==
    /\ data = [i \in Piece |-> Nil]
    /\ bitmap = [i \in Piece |-> {}]
    /\ state = [i \in Piece |-> "incomplete"]
    /\ peers = [i \in Piece |-> {}]
    /\ count = 0
    /\ deleted = FALSE
    /\ fin = [f \in Finaliser |-> FinIdle]
    /\ exp = [e \in Expirer |-> ExpIdle]
    /\ del = [pc |-> "idle", index |-> 0, waited |-> FALSE]
    /\ stopped = {}

pieceChunks(i) == IF i = Num - 1 THEN LastChunks ELSE Chunks
PieceChunk(i) == 0 .. pieceChunks(i) - 1

busy(i) == state[i] = "busy"
complete(i) == state[i] = "complete"
busyOrComplete(i) == state[i] # "incomplete"

\* Only Del keeps the mutex from one step of the model to the next.
Unlocked == del.pc # "locked"

(* ReadAt for one chunk: what the caller's buffer receives, or Nil.        *)
ReadAt(i, c) ==
    IF complete(i) /\ data[i] # Nil /\ c \in PieceChunk(i)
    THEN data[i][c] ELSE Nil

-----------------------------------------------------------------------------
(* AddData.  The test made before taking the lock is repeated under it, so *)
(* only the second one matters.  The data holds n whole chunks; a fraction *)
(* of a chunk after them is not copied.  When the buffer cannot be         *)
(* allocated everything stays as it was.                                   *)

Writable(i) == ~busyOrComplete(i) /\ ~deleted

\* The chunks that the copying loop really writes.
Fresh(i, begin, n) ==
    {c \in PieceChunk(i) : begin <= c /\ c < begin + n} \ bitmap[i]

\* Counters of peers are positive, so that the test for 0 never matters.
addPeer(w, i, new) ==
    IF new # {} /\ w \in Peer THEN peers[i] \cup {w} ELSE peers[i]

AddData(w, i, begin, n) ==
    LET old == IF data[i] = Nil THEN [c \in Chunk |-> Zero] ELSE data[i]
        new == Fresh(i, begin, n)
    IN  /\ w \notin stopped
        /\ Unlocked
        /\ Writable(i)
        /\ begin < pieceChunks(i)
        /\ data' = [data EXCEPT
              ![i] = [c \in Chunk |-> IF c \in new THEN w ELSE old[c]]]
        /\ bitmap' = [bitmap EXCEPT ![i] = @ \cup new]
        /\ count' = IF data[i] = Nil THEN count + 1 ELSE count
        /\ peers' = [peers EXCEPT ![i] = addPeer(w, i, new)]
        /\ UNCHANGED <<state, deleted, fin, exp, del, stopped>>

(* A peer's main loop, or a webseed's download, ends once the torrent's    *)
(* Done channel is closed, which happens just before Del is called.        *)
Stop(w) ==
    /\ del.pc # "idle"
    /\ w \notin stopped
    /\ stopped' = stopped \cup {w}
    /\ UNCHANGED <<contents, deleted, fin, exp, del>>

-----------------------------------------------------------------------------
(* The tail of del: the buffer is freed and the piece forgotten.           *)

\* Faulty variant: the list of contributors survives the buffer.
DiscardKeepPeers(i) ==
    /\ data' = [data EXCEPT ![i] = Nil]
    /\ bitmap' = [bitmap EXCEPT ![i] = {}]
    /\ state' = [state EXCEPT ![i] = IF complete(i) THEN "incomplete" ELSE @]
    /\ count' = count - 1
    /\ UNCHANGED peers

Discard(i) ==
    /\ data' = [data EXCEPT ![i] = Nil]
    /\ peers' = [peers EXCEPT ![i] = {}]
    /\ bitmap' = [bitmap EXCEPT ![i] = {}]
    /\ state' = [state EXCEPT ![i] = IF complete(i) THEN "incomplete" ELSE @]
    /\ count' = count - 1

-----------------------------------------------------------------------------
(* Finalise.  The torrent's loop starts a goroutine for a piece it was     *)
(* told, or has seen, to be full; the goroutine runs whenever it is        *)
(* scheduled, by which time the piece may be in any state.                 *)

FinaliseCall(f, i) ==
    /\ fin[f].pc = "idle"
    /\ del.pc = "idle"
    /\ fin' = [fin EXCEPT ![f] = [pc |-> "call", index |-> i, ok |-> FALSE]]
    /\ UNCHANGED <<contents, deleted, exp, del, stopped>>

\* The test made without the lock.
FinalisePretest(f) ==
    /\ fin[f].pc = "call"
    /\ fin' = [fin EXCEPT ![f] =
          IF busyOrComplete(fin[f].index) THEN FinIdle
                                          ELSE [@ EXCEPT !.pc = "lock"]]
    /\ UNCHANGED <<contents, deleted, exp, del, stopped>>

\* Faulty variant: the state is not tested again under the lock.
FinalisableNoRetest(i) ==
    /\ ~deleted
    /\ Cardinality(bitmap[i]) = pieceChunks(i)

Finalisable(i) ==
    /\ ~busyOrComplete(i)
    /\ ~deleted
    /\ Cardinality(bitmap[i]) = pieceChunks(i)

\* The first critical section: the piece becomes busy, or there is nothing
\* to do.  setState(0, stateBusy) cannot panic, the state was just tested.
FinaliseLock(f) ==
    LET i == fin[f].index
    IN  /\ fin[f].pc = "lock"
        /\ Unlocked
        /\ IF Finalisable(i)
           THEN /\ fin' = [fin EXCEPT ![f].pc = "hash"]
                /\ state' = [state EXCEPT ![i] = "busy"]
           ELSE /\ fin' = [fin EXCEPT ![f] = FinIdle]
                /\ UNCHANGED state
        /\ UNCHANGED <<data, bitmap, peers, count, deleted, exp, del, stopped>>

\* The hash of a buffer matches the one in the torrent's metadata.
HashMatches(i, b) ==
    b # Nil /\ \A c \in PieceChunk(i) : b[c] \in Source \ Corrupt

\* The hash is computed without the lock, on the buffer taken under it.
FinaliseHash(f) ==
    LET i == fin[f].index
    IN  /\ fin[f].pc = "hash"
        /\ fin' = [fin EXCEPT ![f] =
              [pc |-> "finish", index |-> i, ok |-> HashMatches(i, data[i])]]
        /\ UNCHANGED <<contents, deleted, exp, del, stopped>>

Validate(i) ==
    /\ peers' = [peers EXCEPT ![i] = {}]
    /\ state' = [state EXCEPT ![i] = "complete"]
    /\ UNCHANGED <<data, bitmap, count>>

\* Faulty variant: the buffer is freed without decrementing count.
RejectUncounted(i) ==
    /\ peers' = [peers EXCEPT ![i] = {}]
    /\ state' = [state EXCEPT ![i] = "incomplete"]
    /\ data' = [data EXCEPT ![i] = Nil]
    /\ bitmap' = [bitmap EXCEPT ![i] = {}]
    /\ UNCHANGED count

\* Faulty variant: the piece stays busy.
RejectKeepBusy(i) ==
    /\ peers' = [peers EXCEPT ![i] = {}]
    /\ UNCHANGED <<data, bitmap, state, count>>

\* ErrHashMismatch: the piece leaves the busy state and del is called.
Reject(i) ==
    /\ peers' = [peers EXCEPT ![i] = {}]
    /\ state' = [state EXCEPT ![i] = "incomplete"]
    /\ IF data[i] = Nil
       THEN UNCHANGED <<data, bitmap, count>>
       ELSE /\ data' = [data EXCEPT ![i] = Nil]
            /\ bitmap' = [bitmap EXCEPT ![i] = {}]
            /\ count' = count - 1

\* The second critical section.
FinaliseEnd(f) ==
    LET i == fin[f].index
    IN  /\ fin[f].pc = "finish"
        /\ Unlocked
        /\ IF fin[f].ok THEN Validate(i) ELSE Reject(i)
        /\ fin' = [fin EXCEPT ![f] = FinIdle]
        /\ UNCHANGED <<deleted, exp, del, stopped>>

-----------------------------------------------------------------------------
(* Expire.  The order in which pieces are considered is the subject of     *)
(* module Eviction; here they come in any order.  keep is the memory       *)
(* allowance in whole pieces: todo > 0 in the code exactly when more than  *)
(* keep pieces would remain.                                               *)

ExpireCall(e, keep) ==
    /\ exp[e].pc = "idle"
    /\ Unlocked
    /\ count - keep > 0
    /\ exp' = [exp EXCEPT
          ![e] = [pc |-> "run", left |-> Piece, todo |-> count - keep]]
    /\ UNCHANGED <<contents, deleted, fin, del, stopped>>

\* Faulty variant: Expire does not spare busy pieces.
EvictableBusy(i) == data[i] # Nil

\* del(i, false) has something to do.
Evictable(i) == data[i] # Nil /\ ~busy(i)

ExpireStep(e, i) ==
    LET left == exp[e].left \ {i}
        todo == IF Evictable(i) THEN exp[e].todo - 1 ELSE exp[e].todo
    IN  /\ exp[e].pc = "run"
        /\ i \in exp[e].left
        /\ Unlocked
        /\ IF Evictable(i) THEN Discard(i) ELSE UNCHANGED contents
        /\ exp' = [exp EXCEPT ![e] =
              IF left = {} \/ todo <= 0
              THEN ExpIdle
              ELSE [pc |-> "run", left |-> left, todo |-> todo]]
        /\ UNCHANGED <<deleted, fin, del, stopped>>

-----------------------------------------------------------------------------
(* Del, called by the torrent's goroutine after its loop has ended.        *)

DelCall ==
    /\ del.pc = "idle"
    /\ del' = [del EXCEPT !.pc = "locked"]
    /\ UNCHANGED <<contents, deleted, fin, exp, stopped>>

\* An empty piece is skipped.
DelSkip ==
    /\ del.pc = "locked"
    /\ del.index < Num
    /\ data[del.index] = Nil
    /\ del' = [del EXCEPT !.index = @ + 1]
    /\ UNCHANGED <<contents, deleted, fin, exp, stopped>>

DelPiece ==
    /\ del.pc = "locked"
    /\ del.index < Num
    /\ data[del.index] # Nil
    /\ ~busy(del.index)
    /\ Discard(del.index)
    /\ del' = [del EXCEPT !.index = @ + 1]
    /\ UNCHANGED <<deleted, fin, exp, stopped>>

\* A busy piece: the lock is released and the state polled.
DelUnlock ==
    /\ del.pc = "locked"
    /\ del.index < Num
    /\ data[del.index] # Nil
    /\ busy(del.index)
    /\ del' = [del EXCEPT !.pc = "poll", !.waited = TRUE]
    /\ UNCHANGED <<contents, deleted, fin, exp, stopped>>

DelPoll ==
    /\ del.pc = "poll"
    /\ ~busy(del.index)
    /\ del' = [del EXCEPT !.pc = "relock"]
    /\ UNCHANGED <<contents, deleted, fin, exp, stopped>>

\* The lock is taken again.  The state is tested again, data is not.
DelRelock ==
    /\ del.pc = "relock"
    /\ IF busy(del.index)
       THEN /\ del' = [del EXCEPT !.pc = "poll"]
            /\ UNCHANGED contents
       ELSE /\ Discard(del.index)
            /\ del' = [del EXCEPT !.pc = "locked", !.index = @ + 1]
    /\ UNCHANGED <<deleted, fin, exp, stopped>>

DelEnd ==
    /\ del.pc = "locked"
    /\ del.index = Num
    /\ deleted' = TRUE
    /\ del' = [del EXCEPT !.pc = "done"]
    /\ UNCHANGED <<contents, fin, exp, stopped>>

DelNext ==
    DelCall \/ DelSkip \/ DelPiece \/ DelUnlock \/ DelPoll \/ DelRelock \/ DelEnd

FinaliseNext(f) ==
    FinalisePretest(f) \/ FinaliseLock(f) \/ FinaliseHash(f) \/ FinaliseEnd(f)

Next ==
    \/ \E w \in Source, i \in Piece, begin \in Chunk, n \in 0 .. Chunks :
          AddData(w, i, begin, n)
    \/ \E w \in Source : Stop(w)
    \/ \E f \in Finaliser, i \in Piece : FinaliseCall(f, i)
    \/ \E f \in Finaliser : FinaliseNext(f)
    \/ \E e \in Expirer, keep \in 0 .. Num : ExpireCall(e, keep)
    \/ \E e \in Expirer, i \in Piece : ExpireStep(e, i)
    \/ DelNext

(* The goroutines that hold or wait for the lock are scheduled, and every  *)
(* source ends once the torrent is done.  Nothing says that data arrives.  *)
Fairness ==
    /\ \A f \in Finaliser : WF_vars(FinaliseNext(f))
    /\ WF_vars(DelNext /\ del.pc # "idle")
    /\ \A w \in Source : WF_vars(Stop(w))

Spec == Init /\ [][Next]_vars
FairSpec == Spec /\ Fairness

-----------------------------------------------------------------------------
TypeOK ==
    /\ data \in [Piece -> Buffer \cup {Nil}]
    /\ bitmap \in [Piece -> SUBSET Chunk]
    /\ state \in [Piece -> {"incomplete", "busy", "complete"}]
    /\ peers \in [Piece -> SUBSET Peer]
    /\ count \in Int
    /\ deleted \in BOOLEAN
    /\ fin \in [Finaliser -> [pc : {"idle", "call", "lock", "hash", "finish"},
                              index : Piece, ok : BOOLEAN]]
    /\ exp \in [Expirer -> [pc : {"idle", "run"},
                            left : SUBSET Piece, todo : Int]]
    /\ del \in [pc : {"idle", "locked", "poll", "relock", "done"},
                index : 0 .. Num, waited : BOOLEAN]
    /\ stopped \subseteq Source

(* ReadAt "only returns data whose hash has been validated": no chunk it   *)
(* returns was written by a corrupt source, or never written at all.       *)
ReadVerified ==
    \A i \in Piece, c \in Chunk :
        ReadAt(i, c) # Nil => ReadAt(i, c) \in Source \ Corrupt

(* While a goroutine is between the two critical sections of Finalise the  *)
(* piece is busy and no other goroutine is there for the same piece, and a *)
(* piece is busy only then.  Hence setState never panics.                  *)
Hashing(f, i) == fin[f].pc \in {"hash", "finish"} /\ fin[f].index = i

BusyOwned ==
    /\ \A i \in Piece : busy(i) <=> \E f \in Finaliser : Hashing(f, i)
    /\ \A i \in Piece, f, g \in Finaliser :
           Hashing(f, i) /\ Hashing(g, i) => f = g

(* A bit is set exactly for the chunks that have been written into the     *)
(* buffer, and a piece is hashed, or served, only when all of them were.   *)
BitmapTruthful ==
    \A i \in Piece :
        /\ bitmap[i] = IF data[i] = Nil THEN {}
                       ELSE {c \in Chunk : data[i][c] # Zero}
        /\ busyOrComplete(i) => bitmap[i] = PieceChunk(i)

(* The peers that Finalise will report as good or bad are exactly those    *)
(* that wrote one of the chunks being hashed; webseeds are never blamed.   *)
Attribution ==
    \A i \in Piece :
        peers[i] = IF complete(i) THEN {}
                   ELSE {data[i][c] : c \in bitmap[i]} \cap Peer

(* Pieces.count is the number of non-empty pieces, unless Del had to wait  *)
(* for a busy piece.                                                       *)
CountExact ==
    ~del.waited => count = Cardinality({i \in Piece : data[i] # Nil})

(* The buffer of a busy piece is neither freed nor written to: the hash    *)
(* that Finalise computes without the lock is the hash of one content.     *)
HashStable ==
    [][\A i \in Piece : busy(i) /\ busy(i)' => data'[i] = data[i]]_vars

(* Del returns, although it polls for busy pieces that can be refilled     *)
(* and rehashed behind its back.                                           *)
DelTerminates == (del.pc = "locked") ~> (del.pc = "done")

ValidContents == [i \in Piece |-> {b \in Buffer : HashMatches(i, b)}]

(* What a reader can see implements the store of module VerifiedStore.     *)
Store == INSTANCE VerifiedStore WITH
    store <- [i \in Piece |-> IF complete(i) THEN data[i] ELSE Nil],
    Valid <- ValidContents
StoreSpec == Store!Spec

-----------------------------------------------------------------------------
(* del asserts that the count of non-empty pieces is not negative          *)
(* (panic "Negative pieces count"), which does not hold when Del has to    *)
(* wait for a busy piece.                                                  *)
NonNegativeCount == count >= 0
=============================================================================
