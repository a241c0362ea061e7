---------------------------- MODULE PiecesProofs ----------------------------
(***************************************************************************)
(* Theorems about Pieces, for any torrent and any number of goroutines.    *)
(***************************************************************************)
EXTENDS Pieces, FiniteSetTheorems, TLAPS

(* The inductive invariant.  ReadVerified needs to know that the verdict   *)
(* of a Finalise about to take the lock again is about the buffer that the *)
(* piece still has; that rests on the piece having been busy, and nobody   *)
(* else's, in the meantime, and on its bitmap being truthful.              *)
InRange == \A i \in Piece : bitmap[i] \subseteq PieceChunk(i)

Verdict ==
    \A f \in Finaliser :
        fin[f].pc = "finish" /\ fin[f].ok
            => HashMatches(fin[f].index, data[fin[f].index])

Validated == \A i \in Piece : complete(i) => HashMatches(i, data[i])

IndInv ==
    TypeOK /\ BusyOwned /\ BitmapTruthful /\ InRange /\ Verdict /\ Validated

(* Del waits for a piece of the torrent, and has then waited.              *)
DelIndex == del.pc \in {"poll", "relock"} => del.index \in Piece /\ del.waited

-----------------------------------------------------------------------------
(* A bitmap of as many bits as the piece has chunks is full.               *)
LEMMA FullBitmap ==
    ASSUME NEW i \in Piece, NEW b \in SUBSET PieceChunk(i),
           Cardinality(b) = pieceChunks(i)
    PROVE  b = PieceChunk(i)
<1>1. pieceChunks(i) \in Nat \ {0}
  BY SizesAssumption DEF pieceChunks
<1>2. /\ IsFiniteSet(PieceChunk(i))
      /\ Cardinality(PieceChunk(i)) = pieceChunks(i)
  <2>1. 0 \in Int /\ pieceChunks(i) - 1 \in Int /\ ~(0 > pieceChunks(i) - 1)
        /\ (pieceChunks(i) - 1) - 0 + 1 = pieceChunks(i)
    BY <1>1
  <2> QED
    BY <2>1, FS_Interval DEF PieceChunk
<1> QED
  BY <1>2, FS_Subset

(* A piece has at least one chunk.                                         *)
LEMMA PieceChunkNonempty ==
    ASSUME NEW i \in Piece
    PROVE  0 \in PieceChunk(i) /\ PieceChunk(i) \subseteq Chunk
BY SizesAssumption DEF PieceChunk, pieceChunks, Chunk

(* The initial state satisfies the invariant.                              *)
LEMMA InitInv == Init => IndInv
<1> SUFFICES ASSUME Init PROVE IndInv
  OBVIOUS
<1> USE SizesAssumption, SourcesAssumption
<1>1. TypeOK
  <2>1. 0 \in Piece
    BY DEF Piece
  <2>2. FinIdle \in [pc : {"idle", "call", "lock", "hash", "finish"},
                     index : Piece, ok : BOOLEAN]
    BY <2>1 DEF FinIdle
  <2>3. ExpIdle \in [pc : {"idle", "run"}, left : SUBSET Piece, todo : Int]
    BY DEF ExpIdle
  <2>4. del \in [pc : {"idle", "locked", "poll", "relock", "done"},
                 index : 0 .. Num, waited : BOOLEAN]
    BY DEF Init
  <2>5. count \in Int /\ stopped \subseteq Source
    BY DEF Init
  <2>7. deleted \in BOOLEAN
    BY Zenon DEF Init
  <2>6. /\ data \in [Piece -> Buffer \cup {Nil}]
        /\ bitmap \in [Piece -> SUBSET Chunk]
        /\ state \in [Piece -> {"incomplete", "busy", "complete"}]
        /\ peers \in [Piece -> SUBSET Peer]
    BY DEF Init
  <2> QED
    BY <2>2, <2>3, <2>4, <2>5, <2>6, <2>7 DEF Init, TypeOK
<1>2. BusyOwned
  BY DEF Init, BusyOwned, busy, Hashing, FinIdle
<1>3. BitmapTruthful /\ InRange
  BY DEF Init, BitmapTruthful, InRange, busyOrComplete
<1>4. Verdict /\ Validated
  BY DEF Init, Verdict, Validated, complete, FinIdle
<1> QED
  BY <1>1, <1>2, <1>3, <1>4 DEF IndInv

(* The types of the contents, and the part of the invariant they affect.   *)
ContentsType ==
    /\ data \in [Piece -> Buffer \cup {Nil}]
    /\ bitmap \in [Piece -> SUBSET Chunk]
    /\ state \in [Piece -> {"incomplete", "busy", "complete"}]
    /\ peers \in [Piece -> SUBSET Peer]
    /\ count \in Int

ContentsInv ==
    ContentsType /\ BusyOwned /\ BitmapTruthful /\ InRange /\ Verdict /\ Validated

(* Discarding a piece that is not busy leaves the hashed ones alone.       *)
LEMMA DiscardInv ==
    ASSUME IndInv, NEW i \in Piece, ~busy(i), Discard(i), UNCHANGED fin
    PROVE  ContentsInv'
<1> USE SizesAssumption, SourcesAssumption
<1>0. /\ TypeOK /\ BusyOwned /\ BitmapTruthful /\ InRange
      /\ Verdict /\ Validated
  BY DEF IndInv
<1>1. /\ data' = [data EXCEPT ![i] = Nil]
      /\ peers' = [peers EXCEPT ![i] = {}]
      /\ bitmap' = [bitmap EXCEPT ![i] = {}]
      /\ state' = [state EXCEPT ![i] = "incomplete"]
      /\ count' = count - 1
  BY <1>0, Zenon DEF Discard, TypeOK, busy, complete
<1>2. ContentsType'
  BY <1>0, <1>1 DEF TypeOK, ContentsType
<1>3. BusyOwned'
  BY <1>0, <1>1 DEF TypeOK, BusyOwned, busy, Hashing
<1>4. BitmapTruthful' /\ InRange'
  BY <1>0, <1>1, Zenon DEF TypeOK, BitmapTruthful, InRange, busyOrComplete
<1>5. Verdict'
  BY <1>0, <1>1 DEF TypeOK, Verdict, BusyOwned, Hashing, busy, HashMatches
<1>6. Validated'
  BY <1>0, <1>1 DEF TypeOK, Validated, complete, HashMatches
<1> QED
  BY <1>2, <1>3, <1>4, <1>5, <1>6 DEF ContentsInv

(* Adding data touches one incomplete piece, hence none that is hashed.    *)
LEMMA AddDataInv ==
    ASSUME IndInv, NEW w \in Source, NEW i \in Piece, NEW begin \in Chunk,
           NEW n \in 0 .. Chunks, AddData(w, i, begin, n)
    PROVE  IndInv'
<1> DEFINE old == IF data[i] = Nil THEN [c \in Chunk |-> Zero] ELSE data[i]
           new == Fresh(i, begin, n)
           buf == [c \in Chunk |-> IF c \in new THEN w ELSE old[c]]
<1> USE SizesAssumption, SourcesAssumption
<1>0. /\ TypeOK /\ BusyOwned /\ BitmapTruthful /\ InRange
      /\ Verdict /\ Validated
  BY DEF IndInv
<1>1. /\ ~busyOrComplete(i)
      /\ data' = [data EXCEPT ![i] = buf]
      /\ bitmap' = [bitmap EXCEPT ![i] = @ \cup new]
      /\ count' = IF data[i] = Nil THEN count + 1 ELSE count
      /\ peers' = [peers EXCEPT ![i] = addPeer(w, i, new)]
      /\ UNCHANGED <<state, deleted, fin, exp, del, stopped>>
  BY DEF AddData, Writable
<1>2. PieceChunk(i) \subseteq Chunk /\ new \subseteq PieceChunk(i)
  BY DEF PieceChunk, pieceChunks, Chunk, Fresh
<1>3. old \in Buffer /\ buf \in Buffer
  BY <1>0, <1>2 DEF TypeOK, Buffer, Source
<1>4. TypeOK'
  <2>1. data' \in [Piece -> Buffer \cup {Nil}]
    BY <1>0, <1>1, <1>3 DEF TypeOK
  <2>2. bitmap' \in [Piece -> SUBSET Chunk]
    BY <1>0, <1>1, <1>2 DEF TypeOK
  <2>3. peers' \in [Piece -> SUBSET Peer]
    BY <1>0, <1>1 DEF TypeOK, addPeer
  <2>4. count' \in Int
    BY <1>0, <1>1 DEF TypeOK
  <2> QED
    BY <1>0, <1>1, <2>1, <2>2, <2>3, <2>4 DEF TypeOK
<1>5. BusyOwned'
  BY <1>0, <1>1 DEF BusyOwned, busy, Hashing
<1>6. BitmapTruthful'
  <2>1. bitmap[i] = {c \in Chunk : old[c] # Zero}
    BY <1>0 DEF BitmapTruthful, TypeOK
  <2>2. bitmap[i] \cup new = {c \in Chunk : buf[c] # Zero}
    BY <1>2, <2>1
  <2>3. data'[i] # Nil /\ data'[i] = buf /\ bitmap'[i] = bitmap[i] \cup new
    BY <1>0, <1>1, <1>3 DEF TypeOK
  <2>4. \A j \in Piece \ {i} : data'[j] = data[j] /\ bitmap'[j] = bitmap[j]
    BY <1>0, <1>1 DEF TypeOK
  <2> HIDE DEF buf, new, old
  <2>5. ASSUME NEW j \in Piece
        PROVE  /\ bitmap'[j] = IF data'[j] = Nil THEN {}
                               ELSE {c \in Chunk : data'[j][c] # Zero}
               /\ busyOrComplete(j)' => bitmap'[j] = PieceChunk(j)
    <3>1. CASE j = i
      BY <1>1, <2>2, <2>3, <3>1 DEF busyOrComplete
    <3>2. CASE j # i
      BY <1>0, <1>1, <2>4, <3>2 DEF BitmapTruthful, busyOrComplete
    <3> QED
      BY <3>1, <3>2
  <2> QED
    BY <2>5 DEF BitmapTruthful
<1>7. InRange'
  BY <1>0, <1>1, <1>2 DEF InRange, TypeOK
<1>8. \A j \in Piece : busyOrComplete(j) => data'[j] = data[j]
  BY <1>0, <1>1 DEF TypeOK
<1>9. Verdict'
  BY <1>0, <1>1, <1>8
     DEF Verdict, TypeOK, BusyOwned, Hashing, busy, busyOrComplete, HashMatches
<1>10. Validated'
  BY <1>0, <1>1, <1>8 DEF Validated, complete, busyOrComplete, HashMatches
<1> QED
  BY <1>4, <1>5, <1>6, <1>7, <1>9, <1>10 DEF IndInv

(* The goroutines of Finalise.                                             *)
LEMMA FinaliseInv ==
    ASSUME IndInv, NEW f \in Finaliser, FinaliseNext(f)
    PROVE  IndInv'
<1> DEFINE i == fin[f].index
<1> USE SizesAssumption, SourcesAssumption
<1>0. /\ TypeOK /\ BusyOwned /\ BitmapTruthful /\ InRange
      /\ Verdict /\ Validated
  BY DEF IndInv
<1>i. i \in Piece
  BY <1>0 DEF TypeOK
<1>idle. FinIdle \in [pc : {"idle", "call", "lock", "hash", "finish"},
                      index : Piece, ok : BOOLEAN]
  BY DEF FinIdle, Piece
<1>1. CASE FinalisePretest(f)
  <2>0. PICK r \in [pc : {"idle", "call", "lock", "hash", "finish"},
                    index : Piece, ok : BOOLEAN] :
           /\ r.pc \in {"idle", "lock"}
           /\ fin' = [fin EXCEPT ![f] = r]
    <3>1. CASE busyOrComplete(i)
      BY <1>1, <1>idle, <3>1, Zenon DEF FinalisePretest, FinIdle
    <3>2. CASE ~busyOrComplete(i)
      <4>1. fin' = [fin EXCEPT ![f] = [fin[f] EXCEPT !.pc = "lock"]]
        BY <1>0, <1>1, <3>2 DEF FinalisePretest, TypeOK
      <4>2. [fin[f] EXCEPT !.pc = "lock"]
              \in [pc : {"idle", "call", "lock", "hash", "finish"},
                   index : Piece, ok : BOOLEAN]
        BY <1>0 DEF TypeOK
      <4>3. [fin[f] EXCEPT !.pc = "lock"].pc = "lock"
        BY <1>0 DEF TypeOK
      <4> QED
        BY <4>1, <4>2, <4>3, Zenon
    <3> QED
      BY <3>1, <3>2
  <2>1. /\ UNCHANGED <<contents, deleted, exp, del, stopped>>
        /\ fin[f].pc = "call"
    BY <1>1 DEF FinalisePretest
  <2>2. TypeOK'
    BY <1>0, <2>0, <2>1 DEF TypeOK, contents
  <2>3. BusyOwned'
    BY <1>0, <2>0, <2>1 DEF TypeOK, contents, BusyOwned, busy, Hashing
  <2>4. BitmapTruthful' /\ InRange' /\ Validated'
    BY <1>0, <2>1 DEF contents, BitmapTruthful, InRange, Validated,
                      busyOrComplete, complete, HashMatches
  <2>5. Verdict'
    BY <1>0, <2>0, <2>1 DEF TypeOK, contents, Verdict, HashMatches
  <2> QED
    BY <2>2, <2>3, <2>4, <2>5 DEF IndInv
<1>2. CASE FinaliseLock(f)
  <2> USE <1>2 DEF FinaliseLock
  <2>1. CASE ~Finalisable(i)
    <3>1. /\ UNCHANGED <<contents, deleted, exp, del, stopped>>
          /\ fin' = [fin EXCEPT ![f] = FinIdle]
      BY <2>1 DEF contents
    <3>2. TypeOK'
      BY <1>0, <1>idle, <3>1 DEF TypeOK, contents
    <3>3. BusyOwned'
      BY <1>0, <3>1 DEF TypeOK, contents, BusyOwned, busy, Hashing, FinIdle
    <3>4. BitmapTruthful' /\ InRange' /\ Validated'
      BY <1>0, <3>1 DEF contents, BitmapTruthful, InRange, Validated,
                        busyOrComplete, complete, HashMatches
    <3>5. Verdict'
      BY <1>0, <3>1 DEF TypeOK, contents, Verdict, HashMatches, FinIdle
    <3> QED
      BY <3>2, <3>3, <3>4, <3>5 DEF IndInv
  <2>2. CASE Finalisable(i)
    <3>1. /\ fin[f].pc = "lock"
          /\ state[i] = "incomplete"
          /\ fin' = [fin EXCEPT ![f].pc = "hash"]
          /\ state' = [state EXCEPT ![i] = "busy"]
          /\ UNCHANGED <<data, bitmap, peers, count, deleted, exp, del, stopped>>
      BY <2>2 DEF Finalisable, busyOrComplete
    <3>2. bitmap[i] = PieceChunk(i)
      BY <1>0, <1>i, <2>2, FullBitmap DEF Finalisable, InRange
    <3>3. TypeOK'
      BY <1>0, <1>i, <3>1 DEF TypeOK
    <3>4. BusyOwned'
      BY <1>0, <1>i, <3>1 DEF TypeOK, BusyOwned, busy, Hashing
    <3>5. BitmapTruthful' /\ InRange'
      BY <1>0, <1>i, <3>1, <3>2
         DEF TypeOK, BitmapTruthful, InRange, busyOrComplete
    <3>6. Validated' /\ Verdict'
      BY <1>0, <1>i, <3>1 DEF TypeOK, Validated, Verdict, complete, HashMatches
    <3> QED
      BY <3>3, <3>4, <3>5, <3>6 DEF IndInv
  <2> QED
    BY <2>1, <2>2
<1>3. CASE FinaliseHash(f)
  <2>1. /\ fin[f].pc = "hash"
        /\ fin' = [fin EXCEPT ![f] =
              [pc |-> "finish", index |-> i, ok |-> HashMatches(i, data[i])]]
        /\ UNCHANGED <<contents, deleted, exp, del, stopped>>
    BY <1>3 DEF FinaliseHash
  <2>ok. HashMatches(i, data[i]) \in BOOLEAN
    BY DEF HashMatches
  <2>t. fin' \in [Finaliser -> [pc : {"idle", "call", "lock", "hash", "finish"},
                                index : Piece, ok : BOOLEAN]]
    <3>1. ASSUME NEW ok \in BOOLEAN
          PROVE  [pc |-> "finish", index |-> i, ok |-> ok]
                   \in [pc : {"idle", "call", "lock", "hash", "finish"},
                        index : Piece, ok : BOOLEAN]
      BY <1>i
    <3>2. [pc |-> "finish", index |-> i, ok |-> HashMatches(i, data[i])]
            \in [pc : {"idle", "call", "lock", "hash", "finish"},
                 index : Piece, ok : BOOLEAN]
      BY <2>ok, <3>1, Zenon
    <3> QED
      BY <1>0, <2>1, <3>2 DEF TypeOK
  <2>2. TypeOK'
    BY <1>0, <2>1, <2>t DEF TypeOK, contents
  <2>3. BusyOwned'
    BY <1>0, <2>1 DEF TypeOK, contents, BusyOwned, busy, Hashing
  <2>4. BitmapTruthful' /\ InRange' /\ Validated'
    BY <1>0, <2>1 DEF contents, BitmapTruthful, InRange, Validated,
                      busyOrComplete, complete, HashMatches
  <2>5. Verdict'
    <3> SUFFICES ASSUME NEW g \in Finaliser,
                        fin'[g].pc = "finish", fin'[g].ok
                 PROVE  HashMatches(fin'[g].index, data'[fin'[g].index])
      BY DEF Verdict, HashMatches
    <3>1. CASE g = f
      BY <1>0, <2>1, <3>1 DEF TypeOK, contents
    <3>2. CASE g # f
      BY <1>0, <2>1, <3>2 DEF TypeOK, contents, Verdict
    <3> QED
      BY <3>1, <3>2
  <2> QED
    BY <2>2, <2>3, <2>4, <2>5 DEF IndInv
<1>4. CASE FinaliseEnd(f)
  <2>1. /\ fin[f].pc = "finish"
        /\ fin' = [fin EXCEPT ![f] = FinIdle]
        /\ UNCHANGED <<deleted, exp, del, stopped>>
    BY <1>4 DEF FinaliseEnd
  <2>b. busy(i)
    BY <1>0, <1>i, <2>1 DEF BusyOwned, Hashing
  <2>2. bitmap[i] = PieceChunk(i) /\ data[i] # Nil
    <3>1. bitmap[i] = PieceChunk(i)
      BY <1>0, <1>i, <2>b, Zenon DEF BitmapTruthful, busyOrComplete, busy
    <3>2. bitmap[i] # {}
      BY <1>i, <3>1, PieceChunkNonempty
    <3> QED
      BY <1>0, <1>i, <3>1, <3>2, Zenon DEF BitmapTruthful
  <2>3. CASE fin[f].ok
    <3>1. /\ peers' = [peers EXCEPT ![i] = {}]
          /\ state' = [state EXCEPT ![i] = "complete"]
          /\ UNCHANGED <<data, bitmap, count>>
      BY <1>4, <2>3 DEF FinaliseEnd, Validate
    <3>2. TypeOK'
      BY <1>0, <1>i, <1>idle, <2>1, <3>1 DEF TypeOK
    <3>3. BusyOwned'
      <4>1. \A g \in Finaliser, j \in Piece :
               Hashing(g, j)' <=> g # f /\ Hashing(g, j)
        BY <1>0, <2>1 DEF TypeOK, Hashing, FinIdle
      <4>2. \A j \in Piece : busy(j)' <=> j # i /\ busy(j)
        BY <1>0, <1>i, <3>1 DEF TypeOK, busy
      <4>3. Hashing(f, i)
        BY <2>1 DEF Hashing
      <4> QED
        BY <1>0, <1>i, <4>1, <4>2, <4>3 DEF BusyOwned, busy, Hashing
    <3>4. BitmapTruthful' /\ InRange'
      BY <1>0, <1>i, <2>2, <3>1
         DEF TypeOK, BitmapTruthful, InRange, busyOrComplete
    <3>5. HashMatches(i, data[i])
      BY <1>0, <2>1, <2>3 DEF Verdict
    <3>6. Validated'
      BY <1>0, <1>i, <3>1, <3>5 DEF TypeOK, Validated, complete, HashMatches
    <3>7. Verdict'
      BY <1>0, <2>1, <3>1 DEF TypeOK, Verdict, HashMatches, FinIdle
    <3> QED
      BY <3>2, <3>3, <3>4, <3>6, <3>7 DEF IndInv
  <2>4. CASE ~fin[f].ok
    <3>1. /\ peers' = [peers EXCEPT ![i] = {}]
          /\ state' = [state EXCEPT ![i] = "incomplete"]
          /\ data' = [data EXCEPT ![i] = Nil]
          /\ bitmap' = [bitmap EXCEPT ![i] = {}]
          /\ count' = count - 1
      BY <1>4, <2>2, <2>4 DEF FinaliseEnd, Reject
    <3>2. TypeOK'
      BY <1>0, <1>i, <1>idle, <2>1, <3>1 DEF TypeOK
    <3>3. BusyOwned'
      <4>1. \A g \in Finaliser, j \in Piece :
               Hashing(g, j)' <=> g # f /\ Hashing(g, j)
        BY <1>0, <2>1 DEF TypeOK, Hashing, FinIdle
      <4>2. \A j \in Piece : busy(j)' <=> j # i /\ busy(j)
        BY <1>0, <1>i, <3>1 DEF TypeOK, busy
      <4>3. Hashing(f, i)
        BY <2>1 DEF Hashing
      <4> QED
        BY <1>0, <1>i, <4>1, <4>2, <4>3 DEF BusyOwned, busy, Hashing
    <3>4. BitmapTruthful' /\ InRange'
      BY <1>0, <1>i, <3>1, Zenon DEF TypeOK, BitmapTruthful, InRange, busyOrComplete
    <3>5. Validated'
      BY <1>0, <1>i, <3>1 DEF TypeOK, Validated, complete, HashMatches
    <3>6. Verdict'
      <4> SUFFICES ASSUME NEW g \in Finaliser, fin'[g].pc = "finish", fin'[g].ok
                   PROVE  HashMatches(fin[g].index, data[fin[g].index])'
        BY DEF Verdict
      <4>1. g # f /\ fin'[g] = fin[g]
        BY <1>0, <2>1 DEF TypeOK, FinIdle
      <4>2. fin[g].index # i
        BY <1>0, <1>i, <2>1, <4>1 DEF BusyOwned, Hashing
      <4>3. data'[fin[g].index] = data[fin[g].index]
        BY <1>0, <3>1, <4>2 DEF TypeOK
      <4>4. HashMatches(fin[g].index, data[fin[g].index])
        BY <1>0, <4>1 DEF Verdict
      <4> QED
        BY <4>1, <4>3, <4>4 DEF HashMatches
    <3> QED
      BY <3>2, <3>3, <3>4, <3>5, <3>6 DEF IndInv
  <2> QED
    BY <2>3, <2>4
<1> QED
  BY <1>1, <1>2, <1>3, <1>4 DEF FinaliseNext

(* A step that leaves the contents and the Finalise calls alone.           *)
LEMMA ContentsUnchanged ==
    ASSUME IndInv, UNCHANGED <<contents, fin>>
    PROVE  ContentsInv'
<1>1. ContentsType'
  BY DEF IndInv, TypeOK, ContentsType, contents
<1>2. BusyOwned' /\ BitmapTruthful' /\ InRange'
  <2>1. BusyOwned'
    BY DEF IndInv, contents, BusyOwned, busy, Hashing
  <2>2. BitmapTruthful'
    BY DEF IndInv, contents, BitmapTruthful, busyOrComplete
  <2>3. InRange'
    BY DEF IndInv, contents, InRange
  <2> QED
    BY <2>1, <2>2, <2>3
<1>3. Verdict'
  BY DEF IndInv, contents, Verdict, HashMatches
<1>4. Validated'
  BY DEF IndInv, contents, Validated, complete, HashMatches
<1> QED
  BY <1>1, <1>2, <1>3, <1>4 DEF ContentsInv

(* Starting a Finalise that is not yet hashing.                            *)
LEMMA FinaliseCallInv ==
    ASSUME IndInv, NEW f \in Finaliser, NEW i \in Piece, FinaliseCall(f, i)
    PROVE  IndInv'
<1>0. /\ TypeOK /\ BusyOwned /\ BitmapTruthful /\ InRange
      /\ Verdict /\ Validated
  BY DEF IndInv
<1>1. /\ fin[f].pc = "idle"
      /\ fin' = [fin EXCEPT ![f] = [pc |-> "call", index |-> i, ok |-> FALSE]]
      /\ UNCHANGED <<contents, deleted, exp, del, stopped>>
  BY DEF FinaliseCall
<1>2. TypeOK'
  BY <1>0, <1>1 DEF TypeOK, contents
<1>3. BusyOwned'
  BY <1>0, <1>1 DEF TypeOK, contents, BusyOwned, busy, Hashing
<1>4. BitmapTruthful' /\ InRange' /\ Validated'
  BY <1>0, <1>1 DEF contents, BitmapTruthful, InRange, Validated,
                    busyOrComplete, complete, HashMatches
<1>5. Verdict'
  BY <1>0, <1>1 DEF TypeOK, contents, Verdict, HashMatches
<1> QED
  BY <1>2, <1>3, <1>4, <1>5 DEF IndInv

(* Expire spares busy pieces.                                              *)
LEMMA ExpireInv ==
    ASSUME IndInv, NEW e \in Expirer,
           \/ \E keep \in 0 .. Num : ExpireCall(e, keep)
           \/ \E i \in Piece : ExpireStep(e, i)
    PROVE  IndInv'
<1>0. TypeOK
  BY DEF IndInv
<1>1. ASSUME NEW keep \in 0 .. Num, ExpireCall(e, keep)
      PROVE  IndInv'
  <2>1. ContentsInv'
    BY <1>1, ContentsUnchanged DEF ExpireCall
  <2>2. exp' \in [Expirer -> [pc : {"idle", "run"},
                              left : SUBSET Piece, todo : Int]]
    BY <1>0, <1>1, SizesAssumption DEF TypeOK, ExpireCall
  <2> QED
    BY <1>0, <1>1, <2>1, <2>2
       DEF TypeOK, ExpireCall, ContentsInv, ContentsType, IndInv
<1>2. ASSUME NEW i \in Piece, ExpireStep(e, i)
      PROVE  IndInv'
  <2>1. ContentsInv'
    <3>1. CASE Evictable(i)
      BY <1>2, <3>1, DiscardInv DEF ExpireStep, Evictable
    <3>2. CASE ~Evictable(i)
      BY <1>2, <3>2, ContentsUnchanged DEF ExpireStep
    <3> QED
      BY <3>1, <3>2
  <2>2. exp' \in [Expirer -> [pc : {"idle", "run"},
                              left : SUBSET Piece, todo : Int]]
    <3>1. ExpIdle \in [pc : {"idle", "run"}, left : SUBSET Piece, todo : Int]
      BY DEF ExpIdle
    <3>2. exp[e].left \ {i} \in SUBSET Piece
      BY <1>0 DEF TypeOK
    <3>3. (IF Evictable(i) THEN exp[e].todo - 1 ELSE exp[e].todo) \in Int
      BY <1>0 DEF TypeOK
    <3> QED
      BY <1>0, <1>2, <3>1, <3>2, <3>3 DEF TypeOK, ExpireStep
  <2> QED
    BY <1>0, <1>2, <2>1, <2>2
       DEF TypeOK, ExpireStep, ContentsInv, ContentsType, IndInv
<1> QED
  BY <1>1, <1>2

(* Del discards pieces that are not busy, whatever happened while it was   *)
(* waiting for them.                                                       *)
LEMMA DelInv ==
    ASSUME IndInv, DelIndex, DelNext
    PROVE  IndInv'
<1> USE SizesAssumption
<1> DEFINE DelType == del \in [pc : {"idle", "locked", "poll", "relock", "done"},
                               index : 0 .. Num, waited : BOOLEAN]
<1>0. TypeOK /\ DelType
  BY DEF IndInv, TypeOK
<1>1. \A i \in 0 .. Num : i < Num => i \in Piece /\ i + 1 \in 0 .. Num
  BY DEF Piece
<1>2. ASSUME ContentsInv', DelType', deleted' \in BOOLEAN,
             UNCHANGED <<fin, exp, stopped>>
      PROVE  IndInv'
  BY <1>0, <1>2 DEF IndInv, ContentsInv, TypeOK, ContentsType
<1>3. CASE DelCall \/ DelSkip \/ DelUnlock \/ DelPoll
  <2>1. ContentsInv'
    BY <1>3, ContentsUnchanged DEF DelCall, DelSkip, DelUnlock, DelPoll
  <2>2. DelType'
    BY <1>0, <1>1, <1>3, Zenon DEF DelCall, DelSkip, DelUnlock, DelPoll
  <2> QED
    BY <1>0, <1>2, <1>3, <2>1, <2>2
       DEF TypeOK, DelCall, DelSkip, DelUnlock, DelPoll
<1>4. CASE DelPiece
  <2>1. ContentsInv'
    BY <1>0, <1>1, <1>4, DiscardInv DEF DelPiece
  <2>2. DelType'
    BY <1>0, <1>1, <1>4 DEF DelPiece
  <2> QED
    BY <1>0, <1>2, <1>4, <2>1, <2>2 DEF TypeOK, DelPiece
<1>5. CASE DelRelock
  <2>1. CASE busy(del.index)
    <3>1. ContentsInv'
      BY <1>5, <2>1, ContentsUnchanged DEF DelRelock
    <3>2. DelType'
      BY <1>0, <1>5, <2>1 DEF DelRelock
    <3> QED
      BY <1>0, <1>2, <1>5, <3>1, <3>2 DEF TypeOK, DelRelock
  <2>2. CASE ~busy(del.index)
    <3>1. del.index < Num
      BY <1>5 DEF DelIndex, DelRelock, Piece
    <3>2. ContentsInv'
      BY <1>0, <1>1, <1>5, <2>2, <3>1, DiscardInv DEF DelRelock
    <3>3. DelType'
      BY <1>0, <1>1, <1>5, <2>2, <3>1, Zenon DEF DelRelock
    <3> QED
      BY <1>0, <1>2, <1>5, <3>2, <3>3 DEF TypeOK, DelRelock
  <2> QED
    BY <2>1, <2>2
<1>6. CASE DelEnd
  <2>1. ContentsInv'
    BY <1>6, ContentsUnchanged DEF DelEnd
  <2>2. DelType' /\ deleted' \in BOOLEAN
    BY <1>0, <1>6 DEF DelEnd
  <2> QED
    BY <1>0, <1>2, <1>6, <2>1, <2>2 DEF TypeOK, DelEnd
<1> QED
  BY <1>3, <1>4, <1>5, <1>6 DEF DelNext

(* Del waits inside its loop.                                              *)
LEMMA DelIndexInv ==
    ASSUME TypeOK, DelIndex, [Next]_vars
    PROVE  DelIndex'
<1>1. ASSUME UNCHANGED del
      PROVE  DelIndex'
  BY <1>1 DEF DelIndex
<1>2. ASSUME DelNext
      PROVE  DelIndex'
  <2> USE DEF TypeOK, DelIndex
  <2>1. CASE DelCall \/ DelSkip \/ DelPiece \/ DelEnd
    BY <2>1 DEF DelCall, DelSkip, DelPiece, DelEnd
  <2>2. CASE DelUnlock
    BY <2>2, SizesAssumption DEF DelUnlock, Piece
  <2>3. CASE DelPoll
    BY <2>3 DEF DelPoll
  <2>4. CASE DelRelock
    <3>1. CASE busy(del.index)
      <4>1. del' = [del EXCEPT !.pc = "poll"] /\ del.pc = "relock"
        BY <2>4, <3>1 DEF DelRelock
      <4> QED
        BY <4>1
    <3>2. CASE ~busy(del.index)
      <4>1. del' = [del EXCEPT !.pc = "locked", !.index = @ + 1]
        BY <2>4, <3>2 DEF DelRelock
      <4>2. del'.pc = "locked"
        BY <4>1
      <4> QED
        BY <4>2
    <3> QED
      BY <3>1, <3>2
  <2> QED
    BY <1>2, <2>1, <2>2, <2>3, <2>4 DEF DelNext
<1>3. CASE UNCHANGED vars
  BY <1>1, <1>3 DEF vars
<1>4. CASE \E w \in Source : Stop(w)
  BY <1>1, <1>4 DEF Stop
<1>5. ASSUME NEW w \in Source, NEW i \in Piece, NEW begin \in Chunk,
             NEW n \in 0 .. Chunks, AddData(w, i, begin, n)
      PROVE  DelIndex'
  BY <1>1, <1>5 DEF AddData
<1>6. ASSUME NEW f \in Finaliser,
             FinaliseNext(f) \/ \E i \in Piece : FinaliseCall(f, i)
      PROVE  DelIndex'
  BY <1>1, <1>6 DEF FinaliseNext, FinaliseCall, FinalisePretest, FinaliseLock,
                    FinaliseHash, FinaliseEnd
<1>7. ASSUME NEW e \in Expirer,
             \/ \E keep \in 0 .. Num : ExpireCall(e, keep)
             \/ \E i \in Piece : ExpireStep(e, i)
      PROVE  DelIndex'
  BY <1>1, <1>7 DEF ExpireCall, ExpireStep
<1> QED
  BY <1>2, <1>3, <1>4, <1>5, <1>6, <1>7 DEF Next

(* Every step preserves the invariant.                                     *)
LEMMA NextInv ==
    ASSUME IndInv, DelIndex, [Next]_vars
    PROVE  IndInv'
<1>1. CASE UNCHANGED vars
  <2>1. ContentsInv'
    BY <1>1, ContentsUnchanged DEF vars, contents
  <2> QED
    BY <1>1, <2>1 DEF vars, IndInv, TypeOK, ContentsInv
<1>2. ASSUME NEW w \in Source, Stop(w)
      PROVE  IndInv'
  <2>1. ContentsInv'
    BY <1>2, ContentsUnchanged DEF Stop
  <2> QED
    BY <1>2, <2>1 DEF Stop, IndInv, TypeOK, ContentsInv, ContentsType
<1>3. CASE \E w \in Source, i \in Piece, begin \in Chunk, n \in 0 .. Chunks :
               AddData(w, i, begin, n)
  BY <1>3, AddDataInv
<1>4. CASE \E f \in Finaliser, i \in Piece : FinaliseCall(f, i)
  BY <1>4, FinaliseCallInv
<1>5. CASE \E f \in Finaliser : FinaliseNext(f)
  BY <1>5, FinaliseInv
<1>6. CASE \E e \in Expirer :
               \/ \E keep \in 0 .. Num : ExpireCall(e, keep)
               \/ \E i \in Piece : ExpireStep(e, i)
  BY <1>6, ExpireInv
<1>7. CASE DelNext
  BY <1>7, DelInv
<1> QED
  BY <1>1, <1>2, <1>3, <1>4, <1>5, <1>6, <1>7 DEF Next

-----------------------------------------------------------------------------
(* The invariant holds throughout.                                         *)
THEOREM Invariance == Spec => [](IndInv /\ DelIndex)
<1>1. Init => IndInv /\ DelIndex
  BY InitInv DEF Init, DelIndex
<1>2. IndInv /\ DelIndex /\ [Next]_vars => IndInv' /\ DelIndex'
  BY NextInv, DelIndexInv DEF IndInv
<1> QED
  BY <1>1, <1>2, PTL DEF Spec

(* Variables keep their types: in particular Finalise and Del never touch  *)
(* a piece that the torrent does not have.                                 *)
THEOREM TypeCorrect == Spec => []TypeOK
<1>1. IndInv => TypeOK
  BY DEF IndInv
<1> QED
  BY <1>1, Invariance, PTL

(* ReadAt only returns data whose hash has been validated.                 *)
THEOREM OnlyVerifiedDataIsRead == Spec => []ReadVerified
<1>1. IndInv => ReadVerified
  BY DEF IndInv, Validated, ReadVerified, ReadAt, HashMatches
<1> QED
  BY <1>1, Invariance, PTL

(* Busy pieces belong to exactly one Finalise, so that the panic of        *)
(* setState cannot be reached.                                             *)
THEOREM BusyPiecesAreOwned == Spec => []BusyOwned
<1>1. IndInv => BusyOwned
  BY DEF IndInv
<1> QED
  BY <1>1, Invariance, PTL

(* The bitmap of a piece tells which chunks of its buffer were written.    *)
THEOREM BitmapsAreTruthful == Spec => []BitmapTruthful
<1>1. IndInv => BitmapTruthful
  BY DEF IndInv
<1> QED
  BY <1>1, Invariance, PTL

-----------------------------------------------------------------------------
(* What a step may do to the contents: nothing, add data, make a full      *)
(* piece busy, discard a piece that is not busy, or end a Finalise.        *)
LEMMA StepKinds ==
    ASSUME IndInv, DelIndex, [Next]_vars
    PROVE  \/ UNCHANGED contents
           \/ \E w \in Source, i \in Piece, begin \in Chunk, n \in 0 .. Chunks :
                 AddData(w, i, begin, n)
           \/ \E i \in Piece : /\ ~busyOrComplete(i)
                               /\ state' = [state EXCEPT ![i] = "busy"]
                               /\ UNCHANGED <<data, bitmap, peers, count>>
           \/ \E i \in Piece : /\ ~busy(i) /\ Discard(i)
                               /\ data[i] # Nil \/ del'.waited
           \/ \E i \in Piece : busy(i) /\ HashMatches(i, data[i]) /\ Validate(i)
           \/ \E i \in Piece : busy(i) /\ Reject(i)
<1>0. TypeOK /\ BusyOwned /\ Verdict
  BY DEF IndInv
<1>2. CASE UNCHANGED vars
  BY <1>2 DEF vars, contents
<1>4. CASE \E w \in Source : Stop(w)
  BY <1>4 DEF Stop
<1>5. CASE \E f \in Finaliser, i \in Piece : FinaliseCall(f, i)
  BY <1>5 DEF FinaliseCall
<1>6. ASSUME NEW f \in Finaliser, FinalisePretest(f) \/ FinaliseHash(f)
      PROVE  UNCHANGED contents
  BY <1>6 DEF FinalisePretest, FinaliseHash
<1>7. ASSUME NEW f \in Finaliser, FinaliseLock(f)
      PROVE  \/ UNCHANGED contents
             \/ \E i \in Piece : /\ ~busyOrComplete(i)
                                 /\ state' = [state EXCEPT ![i] = "busy"]
                                 /\ UNCHANGED <<data, bitmap, peers, count>>
  <2>1. fin[f].index \in Piece
    BY <1>0 DEF TypeOK
  <2>2. CASE Finalisable(fin[f].index)
    BY <1>7, <2>1, <2>2 DEF FinaliseLock, Finalisable
  <2>3. CASE ~Finalisable(fin[f].index)
    BY <1>7, <2>3 DEF FinaliseLock, contents
  <2> QED
    BY <2>2, <2>3
<1>8. ASSUME NEW f \in Finaliser, FinaliseEnd(f)
      PROVE  \E i \in Piece : /\ busy(i)
                              /\ \/ HashMatches(i, data[i]) /\ Validate(i)
                                 \/ Reject(i)
  <2>1. fin[f].index \in Piece /\ busy(fin[f].index)
    BY <1>0, <1>8 DEF TypeOK, BusyOwned, Hashing, FinaliseEnd
  <2> QED
    BY <1>0, <1>8, <2>1 DEF Verdict, FinaliseEnd
<1>9. CASE \E e \in Expirer, keep \in 0 .. Num : ExpireCall(e, keep)
  BY <1>9 DEF ExpireCall
<1>10. ASSUME NEW e \in Expirer, NEW i \in Piece, ExpireStep(e, i)
       PROVE  \/ UNCHANGED contents
              \/ ~busy(i) /\ data[i] # Nil /\ Discard(i)
  BY <1>10 DEF ExpireStep, Evictable
<1>11. ASSUME DelNext
       PROVE  \/ UNCHANGED contents
              \/ \E i \in Piece : /\ ~busy(i) /\ Discard(i)
                                  /\ data[i] # Nil \/ del'.waited
  <2>1. CASE DelCall \/ DelSkip \/ DelUnlock \/ DelPoll \/ DelEnd
    BY <2>1 DEF DelCall, DelSkip, DelUnlock, DelPoll, DelEnd
  <2>2. CASE DelPiece
    <3>1. del.index \in Piece
      BY <1>0, <2>2, SizesAssumption DEF TypeOK, DelPiece, Piece
    <3> QED
      BY <2>2, <3>1 DEF DelPiece
  <2>3. CASE DelRelock
    BY <1>0, <2>3, Zenon DEF TypeOK, DelRelock, DelIndex
  <2> QED
    BY <1>11, <2>1, <2>2, <2>3 DEF DelNext
<1> QED
  BY <1>2, <1>4, <1>5, <1>6, <1>7, <1>8, <1>9, <1>10, <1>11
     DEF Next, FinaliseNext

(* Data is added only to pieces that are neither hashed nor served.        *)
LEMMA AddDataElsewhere ==
    ASSUME TypeOK, NEW w \in Source, NEW i \in Piece, NEW begin \in Chunk,
           NEW n \in 0 .. Chunks, AddData(w, i, begin, n)
    PROVE  /\ state' = state
           /\ \A j \in Piece : busyOrComplete(j) => data'[j] = data[j]
BY DEF TypeOK, AddData, Writable

(* The buffer that Finalise hashes without the lock is neither freed nor   *)
(* written to by anybody else.                                             *)
THEOREM HashedBufferIsStable == Spec => HashStable
<1>1. IndInv /\ DelIndex /\ [Next]_vars
      => [\A i \in Piece : busy(i) /\ busy(i)' => data'[i] = data[i]]_vars
  <2> SUFFICES ASSUME IndInv, DelIndex, [Next]_vars, NEW j \in Piece,
                      busy(j), busy(j)'
               PROVE  data'[j] = data[j]
    OBVIOUS
  <2>0. TypeOK
    BY DEF IndInv
  <2>1. ASSUME NEW w \in Source, NEW i \in Piece, NEW begin \in Chunk,
               NEW n \in 0 .. Chunks, AddData(w, i, begin, n)
        PROVE  data'[j] = data[j]
    BY <2>0, <2>1, AddDataElsewhere DEF busy, busyOrComplete
  <2>2. ASSUME NEW i \in Piece, ~busy(i), Discard(i)
        PROVE  data'[j] = data[j]
    BY <2>0, <2>2 DEF TypeOK, Discard, busy
  <2>3. ASSUME NEW i \in Piece, busy(i), Reject(i)
        PROVE  data'[j] = data[j]
    BY <2>0, <2>3 DEF TypeOK, Reject, busy
  <2> QED
    BY StepKinds, <2>1, <2>2, <2>3 DEF Validate, contents
<1> QED
  BY <1>1, Invariance, PTL DEF Spec, HashStable

(* What readers can see of a torrent implements the abstract store: each   *)
(* piece appears as a whole, validated, and disappears as a whole.         *)
THEOREM ReadersSeeAVerifiedStore == Spec => StoreSpec
<1> DEFINE S == [i \in Piece |-> IF complete(i) THEN data[i] ELSE Nil]
<1>1. Init => Store!Init
  BY DEF Init, Store!Init, complete
<1>2. IndInv /\ DelIndex /\ [Next]_vars => [Store!Next]_S
  <2> SUFFICES ASSUME IndInv, DelIndex, [Next]_vars
               PROVE  Store!Next \/ S' = S
    BY DEF Store!Next
  <2>0. TypeOK /\ Validated
    BY DEF IndInv
  <2>1. ASSUME NEW w \in Source, NEW i \in Piece, NEW begin \in Chunk,
               NEW n \in 0 .. Chunks, AddData(w, i, begin, n)
        PROVE  S' = S
    BY <2>0, <2>1, AddDataElsewhere, Zenon DEF complete, busyOrComplete
  <2>2. ASSUME NEW i \in Piece, ~busyOrComplete(i), data' = data,
               state' = [state EXCEPT ![i] = "busy"]
        PROVE  S' = S
    BY <2>0, <2>2 DEF TypeOK, complete, busyOrComplete
  <2>3. ASSUME NEW i \in Piece, busy(i), Reject(i)
        PROVE  S' = S
    BY <2>0, <2>3 DEF TypeOK, Reject, busy, complete
  <2>4. ASSUME NEW i \in Piece, ~busy(i), Discard(i)
        PROVE  Store!Next \/ S' = S
    <3>1. S' = [S EXCEPT ![i] = Nil]
      BY <2>0, <2>4, Zenon DEF TypeOK, Discard, busy, complete
    <3>2. CASE S[i] = Nil
      BY <3>1, <3>2, Zenon
    <3>3. CASE S[i] # Nil
      BY <3>1, <3>3, Zenon DEF Store!Next, Store!Evict
    <3> QED
      BY <3>2, <3>3
  <2>5. ASSUME NEW i \in Piece, busy(i), HashMatches(i, data[i]), Validate(i)
        PROVE  Store!Next
    <3>1. S' = [S EXCEPT ![i] = data[i]]
      BY <2>0, <2>5, Zenon DEF TypeOK, Validate, busy, complete
    <3>2. S[i] = Nil
      BY <2>5 DEF busy, complete
    <3>3. data[i] \in ValidContents[i]
      BY <2>0, <2>5 DEF TypeOK, ValidContents, HashMatches
    <3> QED
      BY <3>1, <3>2, <3>3, Zenon DEF Store!Next, Store!Publish
  <2> QED
    BY StepKinds, <2>1, <2>2, <2>3, <2>4, <2>5 DEF contents, complete
<1> QED
  BY <1>1, <1>2, Invariance, PTL DEF Spec, StoreSpec, Store!Spec

-----------------------------------------------------------------------------
(* AddData credits the peer that wrote a chunk with the piece, whether or  *)
(* not the peer had contributed to it before.                              *)
LEMMA AddDataAttribution ==
    ASSUME IndInv, Attribution, NEW w \in Source, NEW i \in Piece,
           NEW begin \in Chunk, NEW n \in 0 .. Chunks, AddData(w, i, begin, n)
    PROVE  Attribution'
<1> DEFINE new == Fresh(i, begin, n)
           old == IF data[i] = Nil THEN [c \in Chunk |-> Zero] ELSE data[i]
           buf == [c \in Chunk |-> IF c \in new THEN w ELSE old[c]]
           W(j) == {data[j][c] : c \in bitmap[j]} \cap Peer
<1>0. TypeOK /\ BitmapTruthful
  BY DEF IndInv
<1>1. /\ data' = [data EXCEPT ![i] = buf]
      /\ bitmap' = [bitmap EXCEPT ![i] = @ \cup new]
      /\ peers' = [peers EXCEPT ![i] = addPeer(w, i, new)]
      /\ state' = state
      /\ ~complete(i)
  BY DEF AddData, Writable, busyOrComplete, complete
<1>2. new \subseteq Chunk /\ new \cap bitmap[i] = {} /\ bitmap[i] \subseteq Chunk
  BY <1>0, PieceChunkNonempty DEF Fresh, TypeOK
<1>3. data[i] = Nil => bitmap[i] = {}
  BY <1>0, Zenon DEF BitmapTruthful
<1>4. \A c \in bitmap[i] : buf[c] = data[i][c]
  BY <1>2, <1>3
<1>5. \A c \in new : buf[c] = w
  BY <1>2
<1> HIDE DEF new, old, buf
<1>6. {buf[c] : c \in bitmap[i] \cup new}
      = {data[i][c] : c \in bitmap[i]} \cup (IF new # {} THEN {w} ELSE {})
  BY <1>4, <1>5
<1>7. peers[i] = W(i)
  BY <1>1, Zenon DEF Attribution
<1>8. addPeer(w, i, new) = {buf[c] : c \in bitmap[i] \cup new} \cap Peer
  BY <1>6, <1>7 DEF addPeer
<1>9. ASSUME NEW j \in Piece
      PROVE  peers'[j] = IF complete(j)' THEN {}
                         ELSE {data'[j][c] : c \in bitmap'[j]} \cap Peer
  <2>1. CASE j = i
    <3>1. peers'[j] = addPeer(w, i, new) /\ data'[j] = buf
          /\ bitmap'[j] = bitmap[i] \cup new /\ ~complete(j)'
      BY <1>0, <1>1, <2>1 DEF TypeOK, complete
    <3> QED
      BY <3>1, <1>8
  <2>2. CASE j # i
    <3>1. peers'[j] = peers[j] /\ data'[j] = data[j]
          /\ bitmap'[j] = bitmap[j] /\ (complete(j)' <=> complete(j))
      BY <1>0, <1>1, <2>2 DEF TypeOK, complete
    <3> QED
      BY <3>1, Zenon DEF Attribution
  <2> QED
    BY <2>1, <2>2
<1> QED
  BY <1>9, Zenon DEF Attribution

(* A step credits every contributor, and nobody else.                      *)
LEMMA NextAttribution ==
    ASSUME IndInv, DelIndex, Attribution, [Next]_vars
    PROVE  Attribution'
<1>0. TypeOK /\ BitmapTruthful
  BY DEF IndInv
<1>1. CASE UNCHANGED contents
  BY <1>1 DEF contents, Attribution, complete
<1>2. ASSUME NEW i \in Piece, ~busyOrComplete(i),
             state' = [state EXCEPT ![i] = "busy"],
             UNCHANGED <<data, bitmap, peers, count>>
      PROVE  Attribution'
  <2>1. \A j \in Piece : complete(j)' <=> complete(j)
    BY <1>0, <1>2 DEF TypeOK, complete, busyOrComplete
  <2> QED
    BY <1>2, <2>1, Zenon DEF Attribution
<1>3. ASSUME NEW i \in Piece, peers' = [peers EXCEPT ![i] = {}],
             \A j \in Piece : j # i => /\ state'[j] = state[j]
                                       /\ data'[j] = data[j]
                                       /\ bitmap'[j] = bitmap[j],
             complete(i)' \/ bitmap'[i] = {}
      PROVE  Attribution'
  <2> SUFFICES ASSUME NEW j \in Piece
               PROVE  peers'[j] = IF complete(j)' THEN {}
                                  ELSE {data'[j][c] : c \in bitmap'[j]} \cap Peer
    BY Zenon DEF Attribution
  <2>1. CASE j = i
    <3>1. peers'[i] = {}
      BY <1>0, <1>3 DEF TypeOK
    <3>2. bitmap'[i] = {} => {data'[i][c] : c \in bitmap'[i]} = {}
      OBVIOUS
    <3> QED
      BY <1>3, <2>1, <3>1, <3>2
  <2>2. CASE j # i
    <3>1. /\ peers'[j] = peers[j] /\ data'[j] = data[j]
          /\ bitmap'[j] = bitmap[j] /\ state'[j] = state[j]
      BY <1>0, <1>3, <2>2 DEF TypeOK
    <3>2. complete(j)' <=> complete(j)
      BY <3>1 DEF complete
    <3> QED
      BY <3>1, <3>2, Zenon DEF Attribution
  <2> QED
    BY <2>1, <2>2
<1>4. ASSUME NEW i \in Piece, ~busy(i), Discard(i)
      PROVE  Attribution'
  BY <1>0, <1>3, <1>4, Zenon DEF TypeOK, Discard
<1>5. ASSUME NEW i \in Piece, busy(i), Validate(i)
      PROVE  Attribution'
  BY <1>0, <1>3, <1>5, Zenon DEF TypeOK, Validate, complete
<1>6. ASSUME NEW i \in Piece, busy(i), Reject(i)
      PROVE  Attribution'
  BY <1>0, <1>3, <1>6, Zenon DEF TypeOK, Reject, BitmapTruthful
<1> QED
  BY StepKinds, AddDataAttribution, <1>1, <1>2, <1>4, <1>5, <1>6

(* The peers reported by Finalise as good or bad are the ones that wrote   *)
(* the chunks it has hashed.                                               *)
THEOREM PeersAreCredited == Spec => []Attribution
<1>1. Init => Attribution
  BY DEF Init, Attribution, complete
<1>2. IndInv /\ DelIndex /\ Attribution /\ [Next]_vars => Attribution'
  BY NextAttribution
<1> QED
  BY <1>1, <1>2, Invariance, PTL DEF Spec

-----------------------------------------------------------------------------
NonEmpty == {i \in Piece : data[i] # Nil}

(* Pieces.count follows the allocation and the release of buffers.         *)
LEMMA NextCount ==
    ASSUME IndInv, DelIndex, CountExact, [Next]_vars
    PROVE  CountExact'
<1>0. TypeOK
  BY DEF IndInv
<1>1. IsFiniteSet(NonEmpty) /\ Cardinality(NonEmpty) \in Nat
  <2>1. IsFiniteSet(Piece)
    BY FS_Interval, SizesAssumption DEF Piece
  <2> QED
    BY <2>1, FS_Subset, FS_CardinalityType DEF NonEmpty
<1>2. del.waited => del'.waited
  <2>1. CASE UNCHANGED del
    BY <2>1
  <2>2. CASE DelNext
    BY <1>0, <2>2, Zenon DEF TypeOK, DelNext, DelCall, DelSkip, DelPiece, DelUnlock,
                      DelPoll, DelRelock, DelEnd
  <2> QED
    BY <2>1, <2>2 DEF Next, vars, AddData, Stop, FinaliseCall, FinaliseNext,
       FinalisePretest, FinaliseLock, FinaliseHash, FinaliseEnd, ExpireCall,
       ExpireStep
<1> SUFFICES ASSUME ~del'.waited
             PROVE  count' = Cardinality(NonEmpty')
  BY DEF CountExact, NonEmpty
<1>3. count = Cardinality(NonEmpty)
  BY <1>2 DEF CountExact, NonEmpty
<1>4. ASSUME NonEmpty' = NonEmpty, UNCHANGED count
      PROVE  count' = Cardinality(NonEmpty')
  BY <1>3, <1>4
<1>5. ASSUME NEW i \in Piece, data[i] # Nil, count' = count - 1,
             data' = [data EXCEPT ![i] = Nil]
      PROVE  count' = Cardinality(NonEmpty')
  <2>1. NonEmpty' = NonEmpty \ {i} /\ i \in NonEmpty
    BY <1>0, <1>5 DEF TypeOK, NonEmpty
  <2>2. Cardinality(NonEmpty \ {i}) = Cardinality(NonEmpty) - 1
    BY <1>1, <2>1, FS_RemoveElement, Zenon
  <2> QED
    BY <1>3, <1>5, <2>1, <2>2
<1>6. ASSUME NEW w \in Source, NEW i \in Piece, NEW begin \in Chunk,
             NEW n \in 0 .. Chunks, AddData(w, i, begin, n)
      PROVE  count' = Cardinality(NonEmpty')
  <2>1. PICK b \in Buffer : data' = [data EXCEPT ![i] = b]
    <3>1. (IF data[i] = Nil THEN [c \in Chunk |-> Zero] ELSE data[i]) \in Buffer
      BY <1>0 DEF TypeOK, Buffer
    <3> QED
      BY <1>6, <3>1, Zenon DEF AddData, Buffer
  <2>2. NonEmpty' = NonEmpty \cup {i}
    BY <1>0, <2>1, SourcesAssumption DEF TypeOK, NonEmpty
  <2>3. CASE data[i] = Nil
    <3>1. i \notin NonEmpty /\ count' = count + 1
      BY <1>6, <2>3 DEF NonEmpty, AddData
    <3>2. Cardinality(NonEmpty \cup {i}) = Cardinality(NonEmpty) + 1
      BY <1>1, <3>1, FS_AddElement, Zenon
    <3> QED
      BY <1>3, <2>2, <3>1, <3>2
  <2>4. CASE data[i] # Nil
    <3>1. NonEmpty' = NonEmpty /\ count' = count
      BY <1>6, <2>2, <2>4 DEF NonEmpty, AddData
    <3> QED
      BY <1>4, <3>1
  <2> QED
    BY <2>3, <2>4
<1>7. CASE UNCHANGED <<data, count>>
  BY <1>4, <1>7 DEF NonEmpty
<1>8. ASSUME NEW i \in Piece, Reject(i)
      PROVE  count' = Cardinality(NonEmpty')
  BY <1>5, <1>7, <1>8 DEF Reject
<1>9. ASSUME NEW i \in Piece, Discard(i), data[i] # Nil
      PROVE  count' = Cardinality(NonEmpty')
  BY <1>5, <1>9, Zenon DEF Discard
<1> QED
  BY StepKinds, <1>6, <1>7, <1>8, <1>9 DEF Validate, contents

(* Pieces.count is the number of non-empty pieces until Del has to wait.   *)
THEOREM CountIsExact == Spec => []CountExact
<1>1. Init => CountExact
  <2> SUFFICES ASSUME Init PROVE count = Cardinality({i \in Piece : data[i] # Nil})
    BY DEF CountExact
  <2>1. {i \in Piece : data[i] # Nil} = {}
    BY DEF Init
  <2> QED
    BY <2>1, FS_EmptySet DEF Init
<1>2. IndInv /\ DelIndex /\ CountExact /\ [Next]_vars => CountExact'
  BY NextCount
<1> QED
  BY <1>1, <1>2, Invariance, PTL DEF Spec

=============================================================================
