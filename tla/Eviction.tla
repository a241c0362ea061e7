------------------------------ MODULE Eviction ------------------------------
(***************************************************************************)
(* Which pieces Pieces.Expire evicts (tor/piece/piece.go).  It takes the   *)
(* idle time of every piece, sorts the pieces, computes how much there is  *)
(* to free, and then takes the pieces one by one, locking anew for each of *)
(* them.  Meanwhile other goroutines add and free pieces.                  *)
(*                                                                         *)
(* Module Pieces has the same loop with the pieces in any order, and what  *)
(* becomes of their contents; here only the memory they take matters.      *)
(***************************************************************************)
EXTENDS Integers, FiniteSets

CONSTANTS
    Piece,
    Old,       \* 7200 seconds
    MaxTime,   \* bound: idle times
    MaxAvail   \* bound: number of peers that have a piece

ASSUME BoundsAssumption ==
    /\ Old \in Nat /\ MaxTime \in Nat /\ MaxAvail \in Nat
    /\ IsFiniteSet(Piece)

VARIABLES
    t,           \* t[i]: how long ago piece i was accessed, when Expire began
    available,   \* available[i]: how many peers have it, 0 if unknown
    stored,      \* the pieces that have a buffer
    busy,        \* those that are being hashed
    todo,        \* how many pieces Expire has yet to evict
    left         \* the pieces Expire has not considered yet

vars == <<t, available, stored, busy, todo, left>>

\* Comparator of SortFunc, for idle times t and availability a: negative
\* when i comes before j.
Compare(t1, a, i, j) ==
    IF t1[i] >= Old /\ t1[j] >= Old /\ a[i] # a[j] THEN a[j] - a[i]
    ELSE t1[j] - t1[i]

Before(t1, a, i, j) == Compare(t1, a, i, j) < 0

Init ==
    /\ t \in [Piece -> 0 .. MaxTime]
    /\ available \in [Piece -> 0 .. MaxAvail]
    /\ stored \in SUBSET Piece
    /\ busy = {}
    /\ \E keep \in 0 .. Cardinality(Piece) - 1 : todo = Cardinality(stored) - keep
    /\ left = Piece

\* Faulty variant: the pieces are not sorted.
FirstAny(i) == i \in left

\* The next piece in the order; ties are broken at random.
First(i) == i \in left /\ \A j \in left : ~Before(t, available, j, i)

\* del(i, false) has something to do.
Evictable(i) == i \in stored \ busy

\* One turn of the loop.
Evict(i) ==
    /\ todo > 0
    /\ First(i)
    /\ left' = left \ {i}
    /\ IF Evictable(i)
       THEN /\ todo' = todo - 1
            /\ stored' = stored \ {i}
       ELSE UNCHANGED <<todo, stored>>
    /\ UNCHANGED <<t, available, busy>>

(* The other goroutines: data for a piece arrives, Finalise is called and  *)
(* ends, with a piece that is discarded if its hash does not match.        *)
Other(i) ==
    /\ left # {} /\ todo > 0
    /\ \/ i \notin stored /\ stored' = stored \cup {i} /\ UNCHANGED busy
       \/ i \in stored \ busy /\ busy' = busy \cup {i} /\ UNCHANGED stored
       \/ i \in busy /\ busy' = busy \ {i} /\ stored' \in {stored, stored \ {i}}
    /\ UNCHANGED <<t, available, todo, left>>

Done == (left = {} \/ todo <= 0) /\ UNCHANGED vars

Next == (\E i \in Piece : Evict(i) \/ Other(i)) \/ Done

Spec == Init /\ [][Next]_vars

-----------------------------------------------------------------------------
TypeOK ==
    /\ t \in [Piece -> Nat] /\ available \in [Piece -> Nat]
    /\ stored \subseteq Piece /\ busy \subseteq stored
    /\ todo \in Int
    /\ left \subseteq Piece

(* "commonest first", "least recently requested": while a piece that       *)
(* nobody has used for two hours remains to be considered, no piece used   *)
(* since then is evicted, and of two such old pieces the one fewer peers   *)
(* have is not evicted first.                                              *)
KeepsValuable ==
    \A i \in Piece \ left, j \in left :
        /\ t[i] < Old => t[j] <= t[i]
        /\ t[i] >= Old /\ t[j] >= Old => available[j] <= available[i]

(* The comparator orders the pieces whatever their idle times and          *)
(* availability, as SortFunc requires although it mixes two criteria:      *)
(* comparing j with i gives the opposite answer to comparing i with j, and *)
(* "does not come after" is transitive.                                    *)
WeakOrder ==
    \A i, j, k \in Piece :
        LET c(x, y) == Compare(t, available, x, y)
        IN  /\ c(i, j) < 0 <=> c(j, i) > 0
            /\ c(i, j) <= 0 /\ c(j, k) <= 0 => c(i, k) <= 0
=============================================================================
