------------------------ MODULE RequestQueueProofs -------------------------
(***************************************************************************)
(* Theorems about RequestQueue, for any set of chunks and any timeouts.    *)
(***************************************************************************)
EXTENDS RequestQueue, FiniteSetTheorems, TLAPS

(* The invariant of the structure.  Consistent alone is inductive once the *)
(* types are known; Conserved needs Consistent to know that a request that *)
(* is removed was there once, and that at most one is held.                *)
Single == \A i, j \in held : i = j

IndInv == TypeOK /\ Consistent /\ Conserved /\ Single

(* The facts about the slices used below, without the loop and the ledger. *)
SliceType ==
    queue \in Seq(Index) /\ requested \in Seq(Request) /\ bitmap \subseteq Index

Slices ==
    /\ bitmap = Members
    /\ \A j, k \in DOMAIN queue : queue[j] = queue[k] => j = k
    /\ \A j, k \in DOMAIN requested :
           requested[j].index = requested[k].index => j = k
    /\ \A j \in DOMAIN queue, k \in DOMAIN requested :
           queue[j] # requested[k].index

-----------------------------------------------------------------------------
(* Moving the last element into the place of the removed one loses no      *)
(* other element and duplicates none.                                      *)
LEMMA RemovedFacts ==
    ASSUME NEW S, NEW s \in Seq(S), NEW k \in DOMAIN s
    PROVE  /\ Removed(s, k) \in Seq(S)
           /\ DOMAIN Removed(s, k) = 1 .. Len(s) - 1
           /\ \A j \in DOMAIN Removed(s, k) :
                 Removed(s, k)[j] = IF j = k THEN s[Len(s)] ELSE s[j]
           /\ \A j \in DOMAIN s : j # k =>
                 \E m \in DOMAIN Removed(s, k) : Removed(s, k)[m] = s[j]
<1>1. Len(s) \in Nat \ {0} /\ k \in 1 .. Len(s) /\ DOMAIN s = 1 .. Len(s)
  OBVIOUS
<1>2. \A j \in 1 .. Len(s) - 1 :
          (IF j = k THEN s[Len(s)] ELSE s[j]) \in S
  BY <1>1
<1>3. Len(s) - 1 \in Nat
  BY <1>1
<1>4. Removed(s, k) \in [1 .. Len(s) - 1 -> S]
  BY <1>2 DEF Removed
<1>5. Removed(s, k) \in Seq(S)
  BY <1>3, <1>4
<1>6. /\ DOMAIN Removed(s, k) = 1 .. Len(s) - 1
      /\ \A j \in DOMAIN Removed(s, k) :
            Removed(s, k)[j] = IF j = k THEN s[Len(s)] ELSE s[j]
  BY DEF Removed
<1>7. ASSUME NEW j \in DOMAIN s, j # k
      PROVE  \E m \in DOMAIN Removed(s, k) : Removed(s, k)[m] = s[j]
  <2>1. CASE j = Len(s)
    BY <1>1, <1>6, <1>7, <2>1
  <2>2. CASE j # Len(s)
    BY <1>1, <1>6, <1>7, <2>2
  <2> QED
    BY <2>1, <2>2
<1> QED
  BY <1>5, <1>6, <1>7

(* del of a request that was sent.                                         *)
LEMMA DelRequestedAtInv ==
    ASSUME SliceType, Slices, NEW k \in DOMAIN requested, DelRequestedAt(k)
    PROVE  /\ SliceType' /\ Slices'
           /\ requested[k].index \in bitmap
           /\ bitmap' = bitmap \ {requested[k].index}
<1> DEFINE new == Removed(requested, k)
<1>1. /\ requested' = new /\ queue' = queue
      /\ bitmap' = bitmap \ {requested[k].index}
  BY DEF DelRequestedAt
<1>2. /\ new \in Seq(Request)
      /\ DOMAIN new = 1 .. Len(requested) - 1
      /\ \A j \in DOMAIN new :
            new[j] = IF j = k THEN requested[Len(requested)] ELSE requested[j]
      /\ \A j \in DOMAIN requested : j # k =>
            \E m \in DOMAIN new : new[m] = requested[j]
  BY RemovedFacts DEF SliceType
<1>3. DOMAIN requested = 1 .. Len(requested) /\ Len(requested) \in Nat \ {0}
  BY DEF SliceType
<1> HIDE DEF new
<1>4. \A m \in DOMAIN new : \E j \in DOMAIN requested : j # k /\ new[m] = requested[j]
  BY <1>2, <1>3
<1>5. SliceType'
  BY <1>1, <1>2 DEF SliceType
<1>6. bitmap' = Members'
  <2>1. {new[m].index : m \in DOMAIN new}
        = {requested[j].index : j \in DOMAIN requested} \ {requested[k].index}
    <3>1. ASSUME NEW m \in DOMAIN new
          PROVE  new[m].index \in {requested[j].index : j \in DOMAIN requested}
                                     \ {requested[k].index}
      <4>1. PICK j \in DOMAIN requested : j # k /\ new[m] = requested[j]
        BY <1>4
      <4> QED
        BY <4>1 DEF Slices
    <3>2. ASSUME NEW j \in DOMAIN requested,
                 requested[j].index # requested[k].index
          PROVE  requested[j].index \in {new[m].index : m \in DOMAIN new}
      <4>1. PICK m \in DOMAIN new : new[m] = requested[j]
        BY <1>2, <3>2
      <4> QED
        BY <4>1
    <3> QED
      BY <3>1, <3>2
  <2>2. requested[k].index \notin {queue[j] : j \in DOMAIN queue}
    BY DEF Slices
  <2>3. Members' = {queue[j] : j \in DOMAIN queue}
                       \cup {new[m].index : m \in DOMAIN new}
    BY <1>1 DEF Members
  <2>4. Members' = Members \ {requested[k].index}
    BY <2>1, <2>2, <2>3, Zenon DEF Members
  <2> QED
    BY <1>1, <2>4 DEF Slices
<1>7. \A m, n \in DOMAIN new : new[m].index = new[n].index => m = n
  BY <1>2, <1>3 DEF Slices
<1>8. \A j \in DOMAIN queue, m \in DOMAIN new : queue[j] # new[m].index
  BY <1>4 DEF Slices
<1>9. requested[k].index \in bitmap
  BY DEF Slices, Members
<1> QED
  BY <1>1, <1>5, <1>6, <1>7, <1>8, <1>9 DEF Slices

(* del of a request that was not sent.                                     *)
LEMMA DelQueuedAtInv ==
    ASSUME SliceType, Slices, NEW k \in DOMAIN queue, DelQueuedAt(k)
    PROVE  /\ SliceType' /\ Slices'
           /\ queue[k] \in bitmap
           /\ bitmap' = bitmap \ {queue[k]}
<1> DEFINE new == Removed(queue, k)
<1>1. /\ queue' = new /\ requested' = requested
      /\ bitmap' = bitmap \ {queue[k]}
  BY DEF DelQueuedAt
<1>2. /\ new \in Seq(Index)
      /\ DOMAIN new = 1 .. Len(queue) - 1
      /\ \A j \in DOMAIN new :
            new[j] = IF j = k THEN queue[Len(queue)] ELSE queue[j]
      /\ \A j \in DOMAIN queue : j # k =>
            \E m \in DOMAIN new : new[m] = queue[j]
  BY RemovedFacts DEF SliceType
<1>3. DOMAIN queue = 1 .. Len(queue) /\ Len(queue) \in Nat \ {0}
  BY DEF SliceType
<1> HIDE DEF new
<1>4. \A m \in DOMAIN new : \E j \in DOMAIN queue : j # k /\ new[m] = queue[j]
  BY <1>2, <1>3
<1>5. SliceType'
  BY <1>1, <1>2 DEF SliceType
<1>6. bitmap' = Members'
  <2>1. {new[m] : m \in DOMAIN new} = {queue[j] : j \in DOMAIN queue} \ {queue[k]}
    BY <1>2, <1>4 DEF Slices
  <2>2. queue[k] \notin {requested[j].index : j \in DOMAIN requested}
    BY DEF Slices
  <2> QED
    BY <1>1, <2>1, <2>2 DEF Slices, Members
<1>7. \A m, n \in DOMAIN new : new[m] = new[n] => m = n
  BY <1>2, <1>3 DEF Slices
<1>8. \A m \in DOMAIN new, j \in DOMAIN requested : new[m] # requested[j].index
  BY <1>4 DEF Slices
<1>9. queue[k] \in bitmap
  BY DEF Slices, Members
<1> QED
  BY <1>1, <1>5, <1>6, <1>7, <1>8, <1>9 DEF Slices

(* Marking a request, or letting time pass, moves no request.              *)
LEMMA SameIndices ==
    ASSUME SliceType, Slices, UNCHANGED <<queue, bitmap>>,
           requested' \in Seq(Request), Len(requested') = Len(requested),
           \A k \in DOMAIN requested : requested'[k].index = requested[k].index
    PROVE  SliceType' /\ Slices'
<1>1. DOMAIN requested' = DOMAIN requested
  BY DEF SliceType
<1>2. Members' = Members
  BY <1>1 DEF Members
<1> QED
  BY <1>1, <1>2 DEF SliceType, Slices

(* CancelAt marks a request at most.                                       *)
LEMMA CancelAtInv ==
    ASSUME SliceType, Slices, cancels \in [Index -> Nat],
           NEW k \in DOMAIN requested, CancelAt(k), UNCHANGED <<queue, bitmap>>
    PROVE  /\ SliceType' /\ Slices'
           /\ DOMAIN requested' = DOMAIN requested
           /\ Len(requested') = Len(requested)
           /\ cancels' \in [Index -> Nat]
<1>1. CASE requested[k].cancelled
  BY <1>1, SameIndices DEF CancelAt, SliceType
<1>2. CASE ~requested[k].cancelled
  <2>1. /\ requested' = [requested EXCEPT ![k].cancelled = TRUE]
        /\ cancels' = [cancels EXCEPT ![requested[k].index] = @ + 1]
    BY <1>2 DEF CancelAt
  <2>2. requested[k] \in Request
    BY DEF SliceType
  <2>3. [requested[k] EXCEPT !.cancelled = TRUE] \in Request
    BY <2>2, Zenon DEF Request
  <2>4. requested' = [requested EXCEPT ![k] = [requested[k] EXCEPT !.cancelled = TRUE]]
    BY <2>1
  <2>5. requested' \in Seq(Request) /\ Len(requested') = Len(requested)
        /\ DOMAIN requested' = DOMAIN requested
    BY <2>3, <2>4 DEF SliceType
  <2>6. \A j \in DOMAIN requested : requested'[j].index = requested[j].index
    BY <2>2, <2>4 DEF Request
  <2>7. SliceType' /\ Slices'
    BY <2>5, <2>6, SameIndices
  <2>8. cancels' \in [Index -> Nat]
    BY <2>1, <2>2 DEF Request
  <2> QED
    BY <2>5, <2>7, <2>8
<1> QED
  BY <1>1, <1>2

(* The ledger when a request leaves the structure.                         *)
LEMMA GiveBack ==
    ASSUME Conserved, NEW i \in Index, i \in bitmap \cup held,
           out' = [out EXCEPT ![i] = @ - 1],
           bitmap' \cup held' = (bitmap \cup held) \ {i}
    PROVE  Conserved' /\ out' \in [Index -> 0 .. 1]
<1>1. out[i] = 1 /\ i \notin bitmap' \cup held'
  BY DEF Conserved
<1>2. \A j \in Index : out'[j] = IF j \in bitmap' \cup held' THEN 1 ELSE 0
  BY <1>1 DEF Conserved
<1>3. out' = [j \in Index |-> out'[j]]
  BY DEF Conserved
<1>4. out' = [j \in Index |-> IF j \in bitmap' \cup held' THEN 1 ELSE 0]
  BY <1>2, <1>3
<1> QED
  BY <1>4 DEF Conserved

(* The ledger when it stays as it is.                                      *)
LEMMA Keep ==
    ASSUME Conserved, UNCHANGED out, bitmap' \cup held' = bitmap \cup held
    PROVE  Conserved'
BY DEF Conserved

-----------------------------------------------------------------------------
(* The structure is empty to begin with.                                   *)
LEMMA InitInv == Init => IndInv
<1> SUFFICES ASSUME Init PROVE IndInv
  OBVIOUS
<1>1. TypeOK
  BY DEF Init, TypeOK
<1>2. Consistent
  <2>1. Members = {}
    BY DEF Init, Members
  <2> QED
    BY <2>1 DEF Init, Consistent
<1>3. Conserved
  BY DEF Init, Conserved
<1> QED
  BY <1>1, <1>2, <1>3 DEF IndInv, Single, Init

(* Enqueue adds a request that was not there.                              *)
LEMMA EnqueueInv ==
    ASSUME IndInv, NEW i \in Index, Enqueue(i)
    PROVE  IndInv'
<1>0. TypeOK /\ Consistent /\ Conserved /\ held = {} /\ loop = 0
  BY DEF IndInv, Enqueue, Free
<1>1. /\ queue' = Append(queue, i) /\ bitmap' = bitmap \cup {i}
      /\ out' = [out EXCEPT ![i] = @ + 1] /\ i \notin bitmap
      /\ UNCHANGED <<requested, held, loop, cancels>>
  BY DEF Enqueue
<1>2. /\ queue' \in Seq(Index) /\ DOMAIN queue' = 1 .. Len(queue) + 1
      /\ Len(queue) \in Nat /\ DOMAIN queue = 1 .. Len(queue)
      /\ \A j \in DOMAIN queue : queue'[j] = queue[j]
      /\ queue'[Len(queue) + 1] = i
  BY <1>0, <1>1 DEF TypeOK
<1>3. {queue'[j] : j \in DOMAIN queue'} = {queue[j] : j \in DOMAIN queue} \cup {i}
  BY <1>2
<1>4. Members' = Members \cup {i}
  BY <1>1, <1>3 DEF Members
<1>5. /\ \A j \in DOMAIN queue : queue[j] # i
      /\ \A j \in DOMAIN requested : requested[j].index # i
  BY <1>0, <1>1 DEF Consistent, Members
<1>6. \A j, k \in DOMAIN queue' : queue'[j] = queue'[k] => j = k
  BY <1>0, <1>2, <1>5 DEF Consistent
<1>7. \A j \in DOMAIN queue', k \in DOMAIN requested : queue'[j] # requested[k].index
  BY <1>0, <1>2, <1>5 DEF Consistent
<1>8. Consistent'
  BY <1>0, <1>1, <1>4, <1>6, <1>7 DEF Consistent
<1>9. Conserved' /\ out' \in [Index -> 0 .. 1]
  <2>1. out[i] = 0
    BY <1>0, <1>1 DEF Conserved
  <2>2. \A j \in Index : out'[j] = IF j \in bitmap' \cup held' THEN 1 ELSE 0
    BY <1>0, <1>1, <2>1 DEF Conserved
  <2>3. out' = [j \in Index |-> out'[j]]
    BY <1>0, <1>1 DEF Conserved
  <2>4. out' = [j \in Index |-> IF j \in bitmap' \cup held' THEN 1 ELSE 0]
    BY <2>2, <2>3
  <2> QED
    BY <2>4 DEF Conserved
<1>10. TypeOK'
  BY <1>0, <1>1, <1>2, <1>9 DEF TypeOK
<1> QED
  BY <1>0, <1>1, <1>8, <1>9, <1>10 DEF IndInv, Single

(* Dequeue moves the head of the queue into the caller's hands.            *)
LEMMA DequeueInv ==
    ASSUME IndInv, Dequeue
    PROVE  IndInv'
<1> DEFINE h == Head(queue)
<1>0. TypeOK /\ Consistent /\ Conserved /\ held = {} /\ loop = 0 /\ queue # <<>>
  BY DEF IndInv, Dequeue, Free
<1>1. /\ queue' = Tail(queue) /\ bitmap' = bitmap \ {h} /\ held' = {h}
      /\ UNCHANGED <<requested, loop, out, cancels>>
  BY DEF Dequeue
<1>2. /\ queue' \in Seq(Index) /\ DOMAIN queue' = 1 .. Len(queue) - 1
      /\ Len(queue) \in Nat \ {0} /\ DOMAIN queue = 1 .. Len(queue)
      /\ \A j \in DOMAIN queue' : queue'[j] = queue[j + 1]
      /\ queue[1] = h /\ h \in Index
  BY <1>0, <1>1 DEF TypeOK
<1> HIDE DEF h
<1>3. /\ \A j \in DOMAIN queue : j # 1 => queue[j] # h
      /\ \A j \in DOMAIN requested : requested[j].index # h
      /\ h \in bitmap
  BY <1>0, <1>2 DEF Consistent, Members
<1>4. {queue'[j] : j \in DOMAIN queue'} = {queue[j] : j \in DOMAIN queue} \ {h}
  <2>1. ASSUME NEW j \in DOMAIN queue'
        PROVE  queue'[j] \in {queue[k] : k \in DOMAIN queue} \ {h}
    BY <1>2, <1>3
  <2>2. ASSUME NEW k \in DOMAIN queue, queue[k] # h
        PROVE  queue[k] \in {queue'[j] : j \in DOMAIN queue'}
    <3>1. k - 1 \in DOMAIN queue' /\ queue'[k - 1] = queue[k]
      BY <1>2, <2>2
    <3> QED
      BY <3>1
  <2> QED
    BY <2>1, <2>2
<1>5. h \notin {requested[j].index : j \in DOMAIN requested}
  BY <1>3
<1>6. Members' = {queue'[j] : j \in DOMAIN queue'}
                     \cup {requested[j].index : j \in DOMAIN requested}
  BY <1>1 DEF Members
<1>7. Members' = Members \ {h}
  BY <1>4, <1>5, <1>6, Zenon DEF Members
<1>8. /\ \A j, k \in DOMAIN queue' : queue'[j] = queue'[k] => j = k
      /\ \A j \in DOMAIN queue', k \in DOMAIN requested :
            queue'[j] # requested[k].index
  <2>1. \A j \in DOMAIN queue' : j + 1 \in DOMAIN queue /\ queue'[j] = queue[j + 1]
    BY <1>2
  <2>2. ASSUME NEW j \in DOMAIN queue', NEW k \in DOMAIN queue',
               queue'[j] = queue'[k]
        PROVE  j = k
    <3>1. j + 1 = k + 1
      BY <2>1, <2>2, <1>0 DEF Consistent
    <3>2. j \in Int /\ k \in Int
      BY <1>2
    <3> QED
      BY <3>1, <3>2
  <2>3. ASSUME NEW j \in DOMAIN queue', NEW k \in DOMAIN requested
        PROVE  queue'[j] # requested[k].index
    BY <2>1, <1>0 DEF Consistent
  <2> QED
    BY <2>2, <2>3
<1>9. Consistent'
  BY <1>0, <1>1, <1>7, <1>8 DEF Consistent
<1>10. Conserved'
  BY <1>0, <1>1, <1>3, Keep
<1>11. TypeOK'
  BY <1>0, <1>1, <1>2 DEF TypeOK
<1> QED
  BY <1>1, <1>9, <1>10, <1>11 DEF IndInv, Single

(* EnqueueRequest puts it among the requested ones.                        *)
LEMMA EnqueueRequestInv ==
    ASSUME IndInv, NEW i \in Index, EnqueueRequest(i)
    PROVE  IndInv'
<1> DEFINE r == [index |-> i, sent |-> 0, cancelled |-> FALSE, since |-> 0]
<1>0. TypeOK /\ Consistent /\ Conserved /\ i \in held /\ loop = 0
  BY DEF IndInv, EnqueueRequest, Consistent
<1>1. /\ requested' = Append(requested, r) /\ bitmap' = bitmap \cup {i}
      /\ held' = {} /\ cancels' = [cancels EXCEPT ![i] = 0]
      /\ UNCHANGED <<queue, loop, out>>
  BY DEF EnqueueRequest
<1>2. r \in Request /\ r.index = i
  BY TimesAssumption DEF Request
<1> HIDE DEF r
<1>3. /\ requested' \in Seq(Request) /\ DOMAIN requested' = 1 .. Len(requested) + 1
      /\ Len(requested) \in Nat /\ DOMAIN requested = 1 .. Len(requested)
      /\ \A j \in DOMAIN requested : requested'[j] = requested[j]
      /\ requested'[Len(requested) + 1] = r
  BY <1>0, <1>1, <1>2 DEF TypeOK
<1>4. {requested'[j].index : j \in DOMAIN requested'}
      = {requested[j].index : j \in DOMAIN requested} \cup {i}
  BY <1>2, <1>3
<1>5. Members' = Members \cup {i}
  BY <1>1, <1>4, Zenon DEF Members
<1>6. /\ i \notin bitmap
      /\ \A j \in DOMAIN queue : queue[j] # i
      /\ \A j \in DOMAIN requested : requested[j].index # i
  BY <1>0 DEF Consistent, Members
<1>7. \A j, k \in DOMAIN requested' :
          requested'[j].index = requested'[k].index => j = k
  BY <1>0, <1>2, <1>3, <1>6 DEF Consistent
<1>8. \A j \in DOMAIN queue, k \in DOMAIN requested' :
          queue[j] # requested'[k].index
  BY <1>0, <1>2, <1>3, <1>6 DEF Consistent
<1>9. Consistent'
  BY <1>0, <1>1, <1>5, <1>7, <1>8 DEF Consistent
<1>10. held = {i}
  BY <1>0 DEF IndInv, Single
<1>11. Conserved'
  BY <1>0, <1>1, <1>10, Keep
<1>12. TypeOK'
  BY <1>0, <1>1, <1>3 DEF TypeOK
<1> QED
  BY <1>1, <1>9, <1>11, <1>12 DEF IndInv, Single

(* A request that could not be sent is given back.                         *)
LEMMA DropHeldInv ==
    ASSUME IndInv, NEW i \in Index, DropHeld(i)
    PROVE  IndInv'
<1>0. TypeOK /\ Consistent /\ Conserved /\ held = {i}
  BY DEF IndInv, DropHeld, Single
<1>1. i \notin bitmap
  BY <1>0 DEF Consistent
<1>2. Conserved' /\ out' \in [Index -> 0 .. 1]
  BY <1>0, <1>1, GiveBack, Zenon DEF DropHeld
<1>3. Consistent'
  BY <1>0 DEF DropHeld, Consistent, Members
<1>4. TypeOK'
  BY <1>0, <1>2 DEF TypeOK, DropHeld
<1> QED
  BY <1>2, <1>3, <1>4 DEF IndInv, DropHeld, Single

(* Removal of a request at the peer's or the torrent's initiative.         *)
LEMMA RemovalInv ==
    ASSUME IndInv, NEW i \in Index, Free, UNCHANGED <<held, loop>>,
           out' = [out EXCEPT ![i] = @ - 1], cancels' \in [Index -> Nat],
           \/ \E k \in Sent(i) : DelRequestedAt(k)
           \/ \E k \in Queued(i) : DelQueuedAt(k)
    PROVE  IndInv'
<1>0. TypeOK /\ Consistent /\ Conserved /\ SliceType /\ Slices /\ Single
  BY DEF IndInv, TypeOK, Consistent, SliceType, Slices
<1>1. SliceType' /\ Slices' /\ i \in bitmap /\ bitmap' = bitmap \ {i}
  <2>1. ASSUME NEW k \in Sent(i), DelRequestedAt(k)
        PROVE  SliceType' /\ Slices' /\ i \in bitmap /\ bitmap' = bitmap \ {i}
    BY <1>0, <2>1, DelRequestedAtInv DEF Sent
  <2>2. ASSUME NEW k \in Queued(i), DelQueuedAt(k)
        PROVE  SliceType' /\ Slices' /\ i \in bitmap /\ bitmap' = bitmap \ {i}
    BY <1>0, <2>2, DelQueuedAtInv DEF Queued
  <2> QED
    BY <2>1, <2>2
<1>2. Consistent'
  BY <1>0, <1>1 DEF Consistent, Slices, Free
<1>3. Conserved' /\ out' \in [Index -> 0 .. 1]
  BY <1>0, <1>1, GiveBack, Zenon DEF Free
<1>4. TypeOK'
  BY <1>0, <1>1, <1>3 DEF TypeOK, SliceType
<1> QED
  BY <1>0, <1>2, <1>3, <1>4 DEF IndInv, Single

(* Cancelling marks a sent request and removes an unsent one.              *)
LEMMA CancelInv ==
    ASSUME IndInv, NEW i \in Index, Cancel(i)
    PROVE  IndInv'
<1>0. TypeOK /\ Consistent /\ Conserved /\ SliceType /\ Slices /\ Single /\ Free
  BY DEF IndInv, TypeOK, Consistent, SliceType, Slices, Cancel
<1>1. ASSUME NEW k \in Sent(i), CancelAt(k), UNCHANGED <<queue, bitmap, out>>
      PROVE  IndInv'
  <2>1. SliceType' /\ Slices' /\ cancels' \in [Index -> Nat]
    BY <1>0, <1>1, CancelAtInv DEF Sent, TypeOK
  <2>2. Consistent'
    BY <1>0, <2>1 DEF Consistent, Slices, Free, Cancel
  <2>3. Conserved'
    BY <1>0, <1>1, Keep DEF Cancel
  <2>4. TypeOK'
    BY <1>0, <1>1, <2>1 DEF TypeOK, SliceType, Cancel
  <2> QED
    BY <1>0, <2>2, <2>3, <2>4 DEF IndInv, Single, Cancel
<1>2. CASE /\ \E k \in Queued(i) : DelQueuedAt(k)
           /\ out' = [out EXCEPT ![i] = @ - 1]
           /\ UNCHANGED cancels
  BY <1>0, <1>2, RemovalInv, Zenon DEF Cancel, TypeOK
<1> QED
  BY <1>1, <1>2 DEF Cancel

(* A chunk has at most one request of each kind.                           *)
LEMMA AtMostOne ==
    ASSUME SliceType, Slices, NEW i \in Index
    PROVE  /\ Cardinality(Sent(i)) = IF Sent(i) = {} THEN 0 ELSE 1
           /\ Cardinality(Queued(i)) = IF Queued(i) = {} THEN 0 ELSE 1
           /\ Sent(i) = {} \/ Queued(i) = {}
           /\ i \in bitmap <=> Sent(i) # {} \/ Queued(i) # {}
           /\ i \in {requested[k].index : k \in DOMAIN requested}
                 <=> Sent(i) # {}
<1>1. \A S : (\A j, k \in S : j = k)
              => Cardinality(S) = IF S = {} THEN 0 ELSE 1
  <2> SUFFICES ASSUME NEW S, \A j, k \in S : j = k
               PROVE  Cardinality(S) = IF S = {} THEN 0 ELSE 1
    OBVIOUS
  <2>1. CASE S = {}
    BY <2>1, FS_EmptySet
  <2>2. CASE S # {}
    <3>1. PICK x : x \in S
      BY <2>2
    <3>2. S = {x}
      BY <3>1
    <3> QED
      BY <2>2, <3>2, FS_Singleton, Zenon
  <2> QED
    BY <2>1, <2>2
<1>2. \A j, k \in Sent(i) : j = k
  BY DEF Sent, Slices
<1>3. \A j, k \in Queued(i) : j = k
  BY DEF Queued, Slices
<1>4. Sent(i) = {} \/ Queued(i) = {}
  BY DEF Sent, Queued, Slices
<1>5. i \in bitmap <=> Sent(i) # {} \/ Queued(i) # {}
  BY DEF Sent, Queued, Slices, Members
<1>6. i \in {requested[k].index : k \in DOMAIN requested} <=> Sent(i) # {}
  BY DEF Sent
<1> QED
  BY <1>1, <1>2, <1>3, <1>4, <1>5, <1>6

(* Clear gives back what it removes.                                       *)
LEMMA ClearInv ==
    ASSUME IndInv, NEW both \in BOOLEAN, Clear(both)
    PROVE  IndInv'
<1>0. TypeOK /\ Consistent /\ Conserved /\ SliceType /\ Slices /\ Single /\ Free
  BY DEF IndInv, TypeOK, Consistent, SliceType, Slices, Clear
<1>1. queue' = <<>> /\ UNCHANGED <<held, loop, cancels>>
  BY DEF Clear
<1>2. \A i \in Index : out[i] = IF i \in bitmap THEN 1 ELSE 0
  BY <1>0 DEF Conserved, Free
<1>3. CASE both
  <2>1. requested' = <<>> /\ bitmap' = {}
    BY <1>3 DEF Clear
  <2>2. out' = [i \in Index |->
                   out[i] - Cardinality(Sent(i)) - Cardinality(Queued(i))]
    BY <1>3 DEF Clear
  <2>3. \A i \in Index : out[i] - Cardinality(Sent(i)) - Cardinality(Queued(i)) = 0
    BY <1>0, <1>2, AtMostOne
  <2>4. out' = [i \in Index |-> 0]
    BY <2>2, <2>3
  <2>5. Members' = {}
    BY <1>1, <2>1 DEF Members
  <2>6. Consistent'
    BY <1>0, <1>1, <2>1, <2>5 DEF Consistent, Free
  <2>7. Conserved'
    BY <1>0, <1>1, <2>1, <2>4 DEF Conserved, Free
  <2>8. TypeOK'
    BY <1>0, <1>1, <2>1, <2>4 DEF TypeOK
  <2> QED
    BY <1>0, <1>1, <2>6, <2>7, <2>8 DEF IndInv, Single
<1>4. CASE ~both
  <2>1. /\ requested' = requested
        /\ bitmap' = {requested[k].index : k \in DOMAIN requested}
    BY <1>4 DEF Clear
  <2>2. out' = [i \in Index |-> out[i] - Cardinality(Queued(i))]
    BY <1>4 DEF Clear
  <2>3. \A i \in Index : out[i] - Cardinality(Queued(i))
                          = IF i \in bitmap' THEN 1 ELSE 0
    BY <1>0, <1>2, <2>1, AtMostOne
  <2>4. out' = [i \in Index |-> IF i \in bitmap' THEN 1 ELSE 0]
    BY <2>2, <2>3
  <2>5. Members' = bitmap'
    BY <1>1, <2>1 DEF Members
  <2>6. Consistent'
    BY <1>0, <1>1, <2>1, <2>5 DEF Consistent, Free
  <2>7. Conserved'
    BY <1>0, <1>1, <2>4 DEF Conserved, Free
  <2>8. bitmap' \subseteq Index
    <3>1. \A k \in DOMAIN requested : requested[k] \in Request
      BY <1>0 DEF TypeOK
    <3> QED
      BY <2>1, <3>1 DEF Request
  <2>9. TypeOK'
    BY <1>0, <1>1, <2>1, <2>4, <2>8 DEF TypeOK
  <2> QED
    BY <1>0, <1>1, <2>6, <2>7, <2>9 DEF IndInv, Single
<1> QED
  BY <1>3, <1>4

(* The steps of Expire's loop.                                             *)
LEMMA ExpireInv ==
    ASSUME IndInv, Expire
    PROVE  IndInv'
<1>0. TypeOK /\ Consistent /\ Conserved /\ SliceType /\ Slices /\ Single
  BY DEF IndInv, TypeOK, Consistent, SliceType, Slices
<1>1. CASE ExpireCall
  <2>1. 1 \in DOMAIN requested
    BY <1>0, <1>1 DEF ExpireCall, TypeOK
  <2>2. Consistent'
    BY <1>0, <1>1, <2>1 DEF ExpireCall, Consistent, Members, Free
  <2>3. TypeOK' /\ Conserved' /\ Single'
    BY <1>0, <1>1 DEF ExpireCall, TypeOK, Conserved, Single
  <2> QED
    BY <2>2, <2>3 DEF IndInv
<1>2. CASE ExpireDrop
  <2> DEFINE i == requested[loop].index
  <2>1. loop \in DOMAIN requested /\ held = {} /\ i \in Index
    <3>1. loop \in DOMAIN requested /\ held = {}
      BY <1>0, <1>2 DEF ExpireDrop, Consistent
    <3>2. requested[loop] \in Request
      BY <1>0, <3>1 DEF TypeOK
    <3> QED
      BY <3>1, <3>2 DEF Request
  <2>2. PICK k \in Sent(i) : DelRequestedAt(k)
    BY <1>2 DEF ExpireDrop
  <2>3. /\ SliceType' /\ Slices'
        /\ i \in bitmap /\ bitmap' = bitmap \ {i}
    BY <1>0, <2>2, DelRequestedAtInv DEF Sent
  <2>4. /\ out' = [out EXCEPT ![i] = @ - 1]
        /\ loop' = Advance(loop)
        /\ UNCHANGED <<held, cancels>>
    BY <1>2 DEF ExpireDrop
  <2> HIDE DEF i
  <2>5. loop' \in Nat /\ (loop' # 0 => loop' \in DOMAIN requested')
    <3>1. Len(requested') \in Nat /\ DOMAIN requested' = 1 .. Len(requested')
      BY <2>3 DEF SliceType
    <3>2. loop \in Nat \ {0}
      BY <1>0, <1>2 DEF TypeOK, ExpireDrop
    <3> QED
      BY <2>4, <3>1, <3>2 DEF Advance
  <2>6. Consistent'
    BY <1>0, <2>1, <2>3, <2>4, <2>5 DEF Consistent, Slices
  <2>7. Conserved' /\ out' \in [Index -> 0 .. 1]
    BY <1>0, <2>1, <2>3, <2>4, GiveBack, Zenon
  <2>8. TypeOK'
    BY <1>0, <2>3, <2>4, <2>5, <2>7 DEF TypeOK, SliceType
  <2> QED
    BY <1>0, <2>4, <2>6, <2>7, <2>8 DEF IndInv, Single
<1>3. CASE ExpireNext
  <2>1. loop \in DOMAIN requested /\ held = {}
    BY <1>0, <1>3 DEF ExpireNext, Consistent
  <2>2. /\ loop' = Advance(loop + 1)
        /\ UNCHANGED <<queue, bitmap, held, out>>
    BY <1>3 DEF ExpireNext
  <2>3. /\ SliceType' /\ Slices'
        /\ Len(requested') = Len(requested)
        /\ cancels' \in [Index -> Nat]
    <3>1. CASE Old(requested[loop])
      BY <1>0, <1>3, <2>1, <2>2, <3>1, CancelAtInv DEF ExpireNext, TypeOK
    <3>2. CASE ~Old(requested[loop])
      <4>1. requested' = requested /\ cancels' = cancels
        BY <1>3, <3>2 DEF ExpireNext
      <4> QED
        BY <1>0, <2>2, <4>1 DEF SliceType, Slices, Members, TypeOK
    <3> QED
      BY <3>1, <3>2
  <2>4. loop' \in Nat /\ (loop' # 0 => loop' \in DOMAIN requested')
    <3>1. Len(requested') \in Nat /\ DOMAIN requested' = 1 .. Len(requested')
      BY <2>3 DEF SliceType
    <3>2. loop + 1 \in Nat \ {0}
      BY <1>0 DEF TypeOK
    <3> QED
      BY <2>2, <3>1, <3>2 DEF Advance
  <2>5. Consistent'
    BY <1>0, <2>1, <2>2, <2>3, <2>4 DEF Consistent, Slices
  <2>6. Conserved'
    BY <1>0, <2>2, Keep
  <2>7. TypeOK'
    BY <1>0, <2>2, <2>3, <2>4 DEF TypeOK, SliceType
  <2> QED
    BY <1>0, <2>2, <2>5, <2>6, <2>7 DEF IndInv, Single
<1> QED
  BY <1>1, <1>2, <1>3 DEF Expire

(* Time changes no index.                                                  *)
LEMMA TickInv ==
    ASSUME IndInv, Tick
    PROVE  IndInv'
<1>0. TypeOK /\ Consistent /\ Conserved /\ SliceType /\ Slices /\ Single
  BY DEF IndInv, TypeOK, Consistent, SliceType, Slices
<1>1. /\ requested' = [k \in DOMAIN requested |-> Older(requested[k])]
      /\ UNCHANGED <<queue, bitmap, held, loop, out, cancels>>
  BY DEF Tick
<1>2. \A r \in Request : Older(r) \in Request /\ Older(r).index = r.index
  BY TimesAssumption DEF Older, Request
<1>3. /\ DOMAIN requested = 1 .. Len(requested) /\ Len(requested) \in Nat
      /\ \A k \in DOMAIN requested : requested[k] \in Request
  BY <1>0 DEF TypeOK
<1>4. requested' \in [1 .. Len(requested) -> Request]
  BY <1>1, <1>2, <1>3
<1>5. requested' \in Seq(Request) /\ Len(requested') = Len(requested)
  BY <1>3, <1>4
<1>6. \A k \in DOMAIN requested : requested'[k].index = requested[k].index
  BY <1>1, <1>2, <1>3
<1>7. SliceType' /\ Slices' /\ DOMAIN requested' = DOMAIN requested
  BY <1>0, <1>1, <1>5, <1>6, SameIndices
<1>8. Consistent'
  BY <1>0, <1>1, <1>7 DEF Consistent, Slices
<1>9. TypeOK' /\ Conserved' /\ Single'
  BY <1>0, <1>1, <1>5 DEF TypeOK, Conserved, Single
<1> QED
  BY <1>8, <1>9 DEF IndInv

-----------------------------------------------------------------------------
(* The invariant holds throughout.                                         *)
THEOREM Invariance == Spec => []IndInv
<1>1. Init => IndInv
  BY InitInv
<1>2. IndInv /\ [Next]_vars => IndInv'
  <2> SUFFICES ASSUME IndInv, [Next]_vars PROVE IndInv'
    OBVIOUS
  <2>1. CASE UNCHANGED vars
    BY <2>1 DEF vars, IndInv, TypeOK, Consistent, Members, Conserved, Single
  <2>2. ASSUME NEW i \in Index, Del(i) \/ DelRequested(i)
        PROVE  IndInv'
    <3>1. cancels' \in [Index -> Nat]
      BY <2>2 DEF IndInv, TypeOK, Del, DelRequested
    <3> QED
      BY <2>2, <3>1, RemovalInv DEF Del, DelRequested
  <2> QED
    BY <2>1, <2>2, EnqueueInv, EnqueueRequestInv, DropHeldInv, CancelInv,
       DequeueInv, ClearInv, ExpireInv, TickInv DEF Next
<1> QED
  BY <1>1, <1>2, PTL DEF Spec

(* The variables keep their types; the ledger never leaves 0 and 1.        *)
THEOREM TypeCorrect == Spec => []TypeOK
<1>1. IndInv => TypeOK
  BY DEF IndInv
<1> QED
  BY <1>1, Invariance, PTL

(* The bitmap is the set of chunks with a request and no chunk has two, so *)
(* that none of the package's panics can be reached.                       *)
THEOREM StructureIsConsistent == Spec => []Consistent
<1>1. IndInv => Consistent
  BY DEF IndInv
<1> QED
  BY <1>1, Invariance, PTL

(* Every accepted request is given back to the torrent exactly once.       *)
THEOREM RequestsAreConserved == Spec => []Conserved
<1>1. IndInv => Conserved
  BY DEF IndInv
<1> QED
  BY <1>1, Invariance, PTL
-----------------------------------------------------------------------------
(* The marks on the sent requests.  Expire leaves a request that it marks  *)
(* behind its position, so the clock of that request must not have been    *)
(* running before: this is what ExpireThorough needs to be inductive.      *)
Unmarked ==
    \A k \in DOMAIN requested :
        ~requested[k].cancelled => requested[k].since = 0

Marks == CancelledOnce /\ Unmarked /\ ExpireThorough

(* A step that only removes requests keeps their marks.                    *)
LEMMA FewerRequests ==
    ASSUME CancelledOnce, Unmarked, UNCHANGED cancels,
           \A j \in DOMAIN requested' :
               \E k \in DOMAIN requested : requested'[j] = requested[k]
    PROVE  CancelledOnce' /\ Unmarked'
BY DEF CancelledOnce, Unmarked

(* CancelAt cancels the request at k if that was not done before, starts   *)
(* its clock and touches no other.                                         *)
LEMMA CancelAtMarks ==
    ASSUME TypeOK, Consistent, CancelledOnce, Unmarked,
           NEW k \in DOMAIN requested, CancelAt(k)
    PROVE  /\ CancelledOnce' /\ Unmarked'
           /\ \A j \in DOMAIN requested : j # k => requested'[j] = requested[j]
           /\ requested'[k].cancelled
           /\ requested'[k].since = requested[k].since
<1>0. \A j \in DOMAIN requested : requested[j] \in Request
  BY DEF TypeOK
<1>1. CASE requested[k].cancelled
  BY <1>1 DEF CancelAt, CancelledOnce, Unmarked
<1>2. CASE ~requested[k].cancelled
  <2> DEFINE i == requested[k].index
  <2>1. /\ requested' = [requested EXCEPT ![k] = [requested[k] EXCEPT !.cancelled = TRUE]]
        /\ cancels' = [cancels EXCEPT ![i] = cancels[i] + 1]
    BY <1>2 DEF CancelAt
  <2>2. /\ DOMAIN requested' = DOMAIN requested
        /\ requested'[k] = [requested[k] EXCEPT !.cancelled = TRUE]
        /\ \A j \in DOMAIN requested : j # k => requested'[j] = requested[j]
    BY <2>1
  <2>3. /\ requested'[k].cancelled = TRUE
        /\ requested'[k].since = requested[k].since
        /\ requested'[k].index = i
    BY <1>0, <2>2 DEF Request
  <2>4. /\ i \in Index /\ cancels'[i] = cancels[i] + 1
        /\ \A j \in Index : j # i => cancels'[j] = cancels[j]
    <3>1. i \in Index /\ cancels \in [Index -> Nat]
      BY <1>0 DEF Request, TypeOK
    <3> QED
      BY <2>1, <3>1
  <2>5. cancels[i] = 0
    BY <1>2 DEF CancelledOnce
  <2>6. CancelledOnce'
    <3> SUFFICES ASSUME NEW j \in DOMAIN requested
                 PROVE  cancels'[requested'[j].index]
                           = IF requested'[j].cancelled THEN 1 ELSE 0
      BY <2>2 DEF CancelledOnce
    <3>1. CASE j = k
      BY <2>3, <2>4, <2>5, <3>1
    <3>2. CASE j # k
      <4>1. requested[j].index \in Index /\ requested[j].index # i
        BY <1>0, <3>2 DEF Consistent, Request
      <4> QED
        BY <2>2, <2>4, <3>2, <4>1 DEF CancelledOnce
    <3> QED
      BY <3>1, <3>2
  <2>7. Unmarked'
    BY <2>2, <2>3 DEF Unmarked
  <2> QED
    BY <2>2, <2>3, <2>6, <2>7
<1> QED
  BY <1>1, <1>2

(* What del leaves of the sent requests.                                   *)
LEMMA DelLeaves ==
    ASSUME TypeOK, NEW k \in DOMAIN requested, DelRequestedAt(k)
    PROVE  /\ \A j \in DOMAIN requested' :
                 \E m \in DOMAIN requested : requested'[j] = requested[m]
           /\ \A j \in 1 .. k - 1 : requested'[j] = requested[j]
<1>1. /\ requested' = Removed(requested, k)
      /\ DOMAIN requested = 1 .. Len(requested) /\ Len(requested) \in Nat
  BY DEF DelRequestedAt, TypeOK
<1>2. /\ DOMAIN requested' = 1 .. Len(requested) - 1
      /\ \A j \in DOMAIN requested' :
            requested'[j] = IF j = k THEN requested[Len(requested)]
                                     ELSE requested[j]
  BY <1>1 DEF Removed
<1> QED
  BY <1>1, <1>2

(* No step disturbs the marks.                                             *)
LEMMA MarksStep ==
    ASSUME IndInv, Marks, [Next]_vars
    PROVE  Marks'
<1>0. /\ TypeOK /\ Consistent /\ CancelledOnce /\ Unmarked /\ ExpireThorough
      /\ \A j \in DOMAIN requested : requested[j] \in Request
  BY DEF IndInv, Marks, TypeOK
<1>1. CASE UNCHANGED <<requested, cancels, loop>>
  BY <1>0, <1>1 DEF Marks, CancelledOnce, Unmarked, ExpireThorough
<1>2. ASSUME NEW i \in Index, EnqueueRequest(i)
      PROVE  Marks'
  <2> DEFINE r == [index |-> i, sent |-> 0, cancelled |-> FALSE, since |-> 0]
  <2>1. /\ loop' = 0 /\ requested' = Append(requested, r)
        /\ cancels' = [cancels EXCEPT ![i] = 0] /\ i \in held
    BY <1>0, <1>2 DEF EnqueueRequest, Consistent
  <2>2. r.index = i /\ ~r.cancelled /\ r.since = 0
    OBVIOUS
  <2> HIDE DEF r
  <2>3. \A j \in DOMAIN requested : requested[j].index \in Index \ {i}
    BY <1>0, <2>1 DEF Consistent, Members, Request
  <2>4. /\ \A j \in DOMAIN requested : requested'[j] = requested[j]
        /\ DOMAIN requested' = DOMAIN requested \cup {Len(requested) + 1}
        /\ requested'[Len(requested) + 1] = r
    BY <1>0, <2>1 DEF TypeOK
  <2>5. cancels'[i] = 0 /\ \A j \in Index \ {i} : cancels'[j] = cancels[j]
    BY <1>0, <2>1 DEF TypeOK
  <2>6. CancelledOnce'
    BY <1>0, <2>2, <2>3, <2>4, <2>5 DEF CancelledOnce
  <2>7. Unmarked'
    BY <1>0, <2>2, <2>4 DEF Unmarked
  <2> QED
    BY <2>1, <2>6, <2>7 DEF Marks, ExpireThorough
<1>3. ASSUME NEW i \in Index, NEW k \in Sent(i), DelRequestedAt(k), Free,
             UNCHANGED <<loop, cancels>>
      PROVE  Marks'
  <2>1. CancelledOnce' /\ Unmarked'
    BY <1>0, <1>3, DelLeaves, FewerRequests DEF Sent
  <2> QED
    BY <1>3, <2>1 DEF Marks, ExpireThorough, Free
<1>4. ASSUME NEW i \in Index, NEW k \in Sent(i), CancelAt(k), Free, UNCHANGED loop
      PROVE  Marks'
  <2>1. CancelledOnce' /\ Unmarked'
    BY <1>0, <1>4, CancelAtMarks DEF Sent
  <2> QED
    BY <1>4, <2>1 DEF Marks, ExpireThorough, Free
<1>5. ASSUME NEW both \in BOOLEAN, Clear(both)
      PROVE  Marks'
  <2>1. loop' = 0 /\ cancels' = cancels /\ (requested' = requested \/ requested' = <<>>)
    BY <1>5 DEF Clear, Free
  <2>2. CancelledOnce' /\ Unmarked'
    BY <1>0, <2>1 DEF CancelledOnce, Unmarked
  <2> QED
    BY <2>1, <2>2 DEF Marks, ExpireThorough
<1>6. CASE ExpireCall
  BY <1>0, <1>6 DEF ExpireCall, Marks, CancelledOnce, Unmarked, ExpireThorough
<1>7. CASE ExpireDrop
  <2>1. PICK k \in Sent(requested[loop].index) : DelRequestedAt(k)
    BY <1>7 DEF ExpireDrop
  <2>2. loop \in DOMAIN requested /\ k = loop
    BY <1>0, <1>7, <2>1 DEF ExpireDrop, Consistent, Sent
  <2>3. CancelledOnce' /\ Unmarked'
    BY <1>0, <1>7, <2>1, <2>2, DelLeaves, FewerRequests DEF ExpireDrop
  <2>4. loop' \in {0, loop} /\ \A j \in 1 .. loop - 1 : requested'[j] = requested[j]
    BY <1>0, <1>7, <2>1, <2>2, DelLeaves DEF ExpireDrop, Advance
  <2>5. ExpireThorough'
    BY <1>0, <1>7, <2>4 DEF ExpireThorough, Late, Old, ExpireDrop
  <2> QED
    BY <2>3, <2>5 DEF Marks
<1>8. CASE ExpireNext
  <2>1. loop \in DOMAIN requested /\ loop \in Nat \ {0} /\ loop' \in {0, loop + 1}
    BY <1>0, <1>8 DEF ExpireNext, Consistent, TypeOK, Advance
  <2>2. /\ CancelledOnce' /\ Unmarked'
        /\ \A j \in 1 .. loop - 1 : requested'[j] = requested[j]
        /\ ~Late(requested'[loop]) /\ ~Old(requested'[loop])
    <3>0. \A j \in 1 .. loop - 1 : j \in DOMAIN requested /\ j # loop
      BY <1>0, <2>1 DEF TypeOK
    <3>1. CASE Old(requested[loop])
      <4>1. CancelAt(loop) /\ requested[loop].since = 0
        BY <1>0, <1>8, <2>1, <3>1 DEF ExpireNext, Old, Unmarked
      <4>2. /\ CancelledOnce' /\ Unmarked'
            /\ \A j \in DOMAIN requested : j # loop => requested'[j] = requested[j]
            /\ requested'[loop].cancelled /\ requested'[loop].since = 0
        BY <1>0, <2>1, <4>1, CancelAtMarks
      <4> QED
        BY <3>0, <4>2, TimesAssumption DEF Late, Old
    <3>2. CASE ~Old(requested[loop])
      <4>1. requested' = requested /\ cancels' = cancels /\ ~Late(requested[loop])
        BY <1>8, <3>2 DEF ExpireNext
      <4> QED
        BY <1>0, <3>2, <4>1 DEF CancelledOnce, Unmarked
    <3> QED
      BY <3>1, <3>2
  <2>3. ExpireThorough'
    <3> SUFFICES ASSUME loop' # 0, NEW j \in 1 .. loop' - 1
                 PROVE  ~Late(requested'[j]) /\ ~Old(requested'[j])
      BY DEF ExpireThorough, Late, Old
    <3>0. loop' = loop + 1
      BY <2>1
    <3>1. CASE j = loop
      BY <2>2, <3>1
    <3>2. CASE j # loop
      <4>1. j \in 1 .. loop - 1
        BY <2>1, <3>0, <3>2
      <4>2. ~Late(requested[j]) /\ ~Old(requested[j])
        BY <1>0, <2>1, <4>1 DEF ExpireThorough
      <4> QED
        BY <2>2, <4>1, <4>2 DEF Late, Old
    <3> QED
      BY <3>1, <3>2
  <2> QED
    BY <2>2, <2>3 DEF Marks
<1>9. CASE Tick
  <2>1. /\ requested' = [k \in DOMAIN requested |-> Older(requested[k])]
        /\ loop' = 0 /\ cancels' = cancels
    BY <1>9 DEF Tick, Free
  <2>2. \A k \in DOMAIN requested :
            /\ requested'[k].index = requested[k].index
            /\ requested'[k].cancelled = requested[k].cancelled
            /\ ~requested[k].cancelled => requested'[k].since = requested[k].since
    BY <1>0, <2>1 DEF Older, Request
  <2>3. CancelledOnce' /\ Unmarked'
    BY <1>0, <2>1, <2>2 DEF CancelledOnce, Unmarked
  <2> QED
    BY <2>1, <2>3 DEF Marks, ExpireThorough
<1>10. ASSUME NEW i \in Index, Cancel(i)
       PROVE  Marks'
  <2>1. CASE \E k \in Sent(i) : CancelAt(k)
    BY <1>4, <1>10, <2>1 DEF Cancel
  <2>2. CASE (\E k \in Queued(i) : DelQueuedAt(k)) /\ UNCHANGED cancels
    BY <1>1, <1>10, <2>2 DEF Cancel, DelQueuedAt
  <2> QED
    BY <1>10, <2>1, <2>2 DEF Cancel
<1>11. ASSUME NEW i \in Index, Del(i) \/ DelRequested(i)
       PROVE  Marks'
  <2>1. Free /\ UNCHANGED <<loop, cancels>>
    BY <1>11 DEF Del, DelRequested
  <2>2. CASE \E k \in Sent(i) : DelRequestedAt(k)
    BY <1>3, <2>1, <2>2
  <2>3. CASE \E k \in Queued(i) : DelQueuedAt(k)
    BY <1>1, <2>1, <2>3 DEF DelQueuedAt
  <2> QED
    BY <1>11, <2>2, <2>3 DEF Del, DelRequested
<1>12. ASSUME NEW i \in Index, Enqueue(i) \/ DropHeld(i)
       PROVE  Marks'
  BY <1>1, <1>12 DEF Enqueue, DropHeld
<1>13. CASE Dequeue
  BY <1>1, <1>13 DEF Dequeue
<1>14. CASE UNCHANGED vars
  BY <1>1, <1>14 DEF vars
<1> QED
  BY <1>2, <1>5, <1>6, <1>7, <1>8, <1>9, <1>10, <1>11, <1>12, <1>13, <1>14
     DEF Next, Expire

(* The marks are right throughout.                                         *)
LEMMA MarksInvariance == Spec => []Marks
<1>1. Init => Marks
  BY DEF Init, Marks, CancelledOnce, Unmarked, ExpireThorough
<1>2. IndInv /\ Marks /\ [Next]_vars => Marks'
  BY MarksStep
<1> QED
  BY <1>1, <1>2, Invariance, PTL DEF Spec

(* A Cancel message goes out for exactly the requests that are marked, and *)
(* once for each, whether PeerCancel or Expire marked it.                  *)
THEOREM CancelsOnlyOnce == Spec => []CancelledOnce
<1>1. Marks => CancelledOnce
  BY DEF Marks
<1> QED
  BY <1>1, MarksInvariance, PTL

(* Expire's loop has dealt with every request that is behind its position, *)
(* although removing one moves the last one to its place.                  *)
THEOREM ExpireMissesNone == Spec => []ExpireThorough
<1>1. Marks => ExpireThorough
  BY DEF Marks
<1> QED
  BY <1>1, MarksInvariance, PTL
=============================================================================
