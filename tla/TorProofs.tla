------------------------------ MODULE TorProofs ------------------------------
(***************************************************************************)
(* How memory is shared among any number of torrents of any size; the      *)
(* order of eviction for any number of pieces, any idle times and any      *)
(* availability; and the metadata, whatever sizes peers announce.          *)
(***************************************************************************)
EXTENDS Memory, Eviction, Metadata, FiniteSetTheorems, TLAPS

-----------------------------------------------------------------------------
(* tor.Expire.                                                             *)

\* The buffers of the torrents in U when torrent u has bs[u] of them.
Held(bs, U) == {b \in Torrent \X (1 .. MaxPieces) : b[1] \in U /\ b[2] <= bs[b[1]]}

Small == {u \in Torrent \ toscan : bytes[u] <= fair}
Big == {u \in Torrent \ toscan : bytes[u] > fair}

Types ==
    /\ live \subseteq Torrent /\ dying \subseteq live
    /\ bytes \in [Torrent -> 0 .. MaxPieces]
    /\ pc \in {"sleep", "count", "scan", "launch", "panic"}
    /\ toscan \subseteq Torrent
    /\ fair \in Nat /\ smallspace \in Nat /\ bigcount \in Nat /\ fair2 \in Int
    /\ freed \in BOOLEAN /\ added \in BOOLEAN

\* A torrent that has ended has no buffers, nor has one that starts.
Empty == \A u \in Torrent \ (live \ dying) : bytes[u] = 0

Looked == pc = "count" /\ ~freed => Bytes >= high

\* The small torrents seen so far leave room for the others, fair each;
\* what they had and what the others have is what was in use, unless some
\* is big; and while nothing changes the two local variables are exact.
Scanning ==
    pc = "scan" =>
        /\ smallspace + fair * Cardinality(toscan) <= low
        /\ ~freed /\ bigcount = 0 => smallspace + Cardinality(Held(bytes, toscan)) >= high
        /\ ~freed /\ ~added => /\ smallspace = Cardinality(Held(bytes, Small))
                               /\ bigcount = Cardinality(Big)

MemoryInv == Types /\ Empty /\ Looked /\ Scanning /\ MeetsTarget /\ PanicsOnlyIfFreed

Sized(bs) == bs \in [Torrent -> 0 .. MaxPieces]

LEMMA HeldFinite ==
    ASSUME NEW bs, NEW U
    PROVE  IsFiniteSet(Held(bs, U)) /\ Cardinality(Held(bs, U)) \in Nat
<1>1. IsFiniteSet(1 .. MaxPieces)
  BY SizesAssumption, FS_Interval
<1>2. IsFiniteSet(Torrent \X (1 .. MaxPieces))
  BY <1>1, SizesAssumption, FS_Product
<1>3. Held(bs, U) \in SUBSET (Torrent \X (1 .. MaxPieces))
  BY DEF Held
<1> QED BY <1>2, <1>3, FS_Subset, FS_CardinalityType

LEMMA HeldAll == Buffers = Held(bytes, Torrent)
BY DEF Buffers, Held

\* A torrent has the buffers that it counts.
LEMMA HeldOne ==
    ASSUME NEW bs, Sized(bs), NEW u \in Torrent PROVE Cardinality(Held(bs, {u})) = bs[u]
<1>1. bs[u] \in Nat /\ bs[u] <= MaxPieces
  BY SizesAssumption DEF Sized
<1>2. Held(bs, {u}) = {u} \X (1 .. bs[u])
  BY <1>1, SizesAssumption DEF Held
<1>3. IsFiniteSet(1 .. bs[u]) /\ Cardinality(1 .. bs[u]) = bs[u]
  <2>1. 1 \in Int /\ bs[u] \in Int
    BY <1>1
  <2>2. /\ IsFiniteSet(1 .. bs[u])
        /\ Cardinality(1 .. bs[u]) = IF 1 > bs[u] THEN 0 ELSE bs[u] - 1 + 1
    BY <2>1, FS_Interval, Zenon
  <2> QED BY <1>1, <2>2
<1>4. IsFiniteSet({u}) /\ Cardinality({u}) = 1
  BY FS_Singleton, Zenon
<1>5. Cardinality({u} \X (1 .. bs[u])) = 1 * bs[u]
  BY <1>3, <1>4, FS_Product, Zenon
<1>6. Cardinality(Held(bs, {u})) = 1 * bs[u]
  BY <1>2, <1>5, Zenon
<1> QED BY <1>1, <1>6

\* The counts of disjoint sets of torrents add up.
LEMMA HeldSplit ==
    ASSUME NEW bs, NEW U, NEW V, U \cap V = {}
    PROVE  Cardinality(Held(bs, U \cup V)) = Cardinality(Held(bs, U)) + Cardinality(Held(bs, V))
<1>1. Held(bs, U \cup V) = Held(bs, U) \cup Held(bs, V)
  BY DEF Held
<1>2. Held(bs, U) \cap Held(bs, V) = {}
  BY DEF Held
<1>3. /\ IsFiniteSet(Held(bs, U)) /\ IsFiniteSet(Held(bs, V))
      /\ Cardinality(Held(bs, U)) \in Nat /\ Cardinality(Held(bs, V)) \in Nat
  BY HeldFinite
<1>4. Cardinality(Held(bs, U) \cup Held(bs, V))
         = Cardinality(Held(bs, U)) + Cardinality(Held(bs, V))
              - Cardinality(Held(bs, U) \cap Held(bs, V))
  BY <1>3, FS_Union, Zenon
<1>5. Cardinality(Held(bs, U) \cap Held(bs, V)) = 0
  BY <1>2, FS_EmptySet, Zenon
<1>6. Cardinality(Held(bs, U \cup V))
         = Cardinality(Held(bs, U)) + Cardinality(Held(bs, V)) - 0
  BY <1>1, <1>4, <1>5, Zenon
<1>7. Cardinality(Held(bs, U)) \in Nat /\ Cardinality(Held(bs, V)) \in Nat
  BY <1>3
<1> QED BY <1>6, <1>7

LEMMA HeldNone ==
    ASSUME NEW bs, NEW U, \A u \in U \cap Torrent : bs[u] = 0
    PROVE  Held(bs, U) = {} /\ Cardinality(Held(bs, U)) = 0
<1>1. Held(bs, U) = {}
  BY SizesAssumption DEF Held
<1> QED BY <1>1, FS_EmptySet

\* No torrent loses buffers.
LEMMA HeldGrows ==
    ASSUME NEW bs, Sized(bs), NEW cs, Sized(cs), NEW U, \A u \in Torrent : bs[u] <= cs[u]
    PROVE  Cardinality(Held(bs, U)) <= Cardinality(Held(cs, U))
<1>1. Held(bs, U) \subseteq Held(cs, U)
  <2>1. SUFFICES ASSUME NEW b \in Held(bs, U) PROVE b \in Held(cs, U)
    OBVIOUS
  <2>2. b \in Torrent \X (1 .. MaxPieces) /\ b[1] \in U /\ b[2] <= bs[b[1]]
    BY DEF Held
  <2>3. b[1] \in Torrent /\ b[2] \in Int
    BY <2>2
  <2>4. bs[b[1]] \in Int /\ cs[b[1]] \in Int /\ bs[b[1]] <= cs[b[1]]
    BY <2>3, SizesAssumption DEF Sized
  <2>5. b[2] <= cs[b[1]]
    BY <2>2, <2>3, <2>4
  <2> QED BY <2>2, <2>5 DEF Held
<1> QED BY <1>1, HeldFinite, FS_Subset

LEMMA Marks == low \in Nat /\ high \in Nat /\ low < high
BY SizesAssumption DEF low, high

LEMMA MemoryStart == ASSUME MemoryInit PROVE MemoryInv
<1>0. 0 \in 0 .. MaxPieces
  BY SizesAssumption
<1>1. Types
  <2>1. bytes \in [Torrent -> 0 .. MaxPieces]
    BY <1>0 DEF MemoryInit
  <2>2. /\ live = Torrent /\ dying = {} /\ pc = "sleep" /\ toscan = {}
        /\ fair = 0 /\ smallspace = 0 /\ bigcount = 0 /\ fair2 = 0
        /\ freed = FALSE /\ added = FALSE
    BY Zenon DEF MemoryInit
  <2>3. freed \in BOOLEAN /\ added \in BOOLEAN
    BY <2>2, Zenon
  <2>4. live \subseteq Torrent /\ dying \subseteq live /\ toscan \subseteq Torrent
    BY <2>2, Zenon
  <2>5. pc \in {"sleep", "count", "scan", "launch", "panic"}
    BY <2>2, Zenon
  <2>6. fair \in Nat /\ smallspace \in Nat /\ bigcount \in Nat /\ fair2 \in Int
    BY <2>2
  <2> QED BY <2>1, <2>3, <2>4, <2>5, <2>6, Zenon DEF Types
<1>2. Empty
  BY DEF MemoryInit, Empty
<1> QED BY <1>1, <1>2 DEF MemoryInit, MemoryInv, Looked, Scanning, MeetsTarget, PanicsOnlyIfFreed

\* Torrents that have no buffers come and go.
LEMMA QuietStep ==
    ASSUME MemoryInv, UNCHANGED <<bytes, pc, locals, freed, added>>,
           live' \subseteq Torrent, dying' \subseteq live', Empty'
    PROVE  MemoryInv'
<1>1. Types'
  BY DEF MemoryInv, Types, locals
<1>2. Looked' /\ MeetsTarget' /\ PanicsOnlyIfFreed'
  BY DEF MemoryInv, Looked, MeetsTarget, PanicsOnlyIfFreed, Bytes, Buffers, locals
<1>3. Scanning'
  BY DEF MemoryInv, Scanning, Held, Small, Big, locals
<1> QED BY <1>1, <1>2, <1>3 DEF MemoryInv

\* Memory is freed: what is claimed of an undisturbed round is void.
LEMMA FreedStep ==
    ASSUME MemoryInv, UNCHANGED <<pc, locals, added>>, freed', live' = live,
           dying' \subseteq live, bytes' \in [Torrent -> 0 .. MaxPieces], Empty'
    PROVE  MemoryInv'
<1>1. Types'
  BY DEF MemoryInv, Types, locals
<1>2. Looked' /\ MeetsTarget' /\ PanicsOnlyIfFreed'
  BY DEF Looked, MeetsTarget, PanicsOnlyIfFreed
<1>3. Scanning'
  BY DEF MemoryInv, Scanning, locals
<1> QED BY <1>1, <1>2, <1>3 DEF MemoryInv

\* AddData allocates a piece: no torrent has less than before.
LEMMA AddStep ==
    ASSUME MemoryInv, NEW x \in Torrent, Add(x) PROVE MemoryInv'
<1>1. /\ bytes \in [Torrent -> 0 .. MaxPieces] /\ bytes' \in [Torrent -> 0 .. MaxPieces]
      /\ \A u \in Torrent : bytes[u] <= bytes'[u]
  BY SizesAssumption DEF MemoryInv, Types, Add
<1>2. Types' /\ added' /\ freed' = freed /\ UNCHANGED <<pc, locals>>
  BY <1>1 DEF MemoryInv, Types, Add, locals
<1>3. Empty'
  BY DEF MemoryInv, Types, Empty, Add
<1>4. ASSUME NEW U PROVE Cardinality(Held(bytes, U)) <= Cardinality(Held(bytes', U))
  BY <1>1, HeldGrows DEF Sized
<1>5. Looked'
  <2>1. SUFFICES ASSUME pc = "count", ~freed PROVE Bytes' >= high
    BY <1>2 DEF Looked, high
  <2>2. Bytes = Cardinality(Held(bytes, Torrent)) /\ Bytes' = Cardinality(Held(bytes', Torrent))
    BY HeldAll DEF Bytes, Buffers, Held
  <2>3. Bytes \in Nat /\ Bytes' \in Nat
    BY <2>2, HeldFinite
  <2>4. Bytes >= high
    BY <2>1 DEF MemoryInv, Looked
  <2> QED BY <1>4, <2>2, <2>3, <2>4, Marks
<1>6. Scanning'
  <2>1. SUFFICES ASSUME pc = "scan"
                 PROVE  /\ smallspace + fair * Cardinality(toscan) <= low
                        /\ ~freed /\ bigcount = 0 =>
                             smallspace + Cardinality(Held(bytes', toscan)) >= high
    BY <1>2 DEF Scanning, low, high, Held, locals
  <2>2. /\ smallspace + fair * Cardinality(toscan) <= low
        /\ ~freed /\ bigcount = 0 => smallspace + Cardinality(Held(bytes, toscan)) >= high
    BY <2>1 DEF MemoryInv, Scanning
  <2>3. Cardinality(Held(bytes, toscan)) \in Nat /\ Cardinality(Held(bytes', toscan)) \in Nat
    BY HeldFinite
  <2>4. smallspace \in Nat
    BY DEF MemoryInv, Types
  <2>5. Cardinality(Held(bytes, toscan)) <= Cardinality(Held(bytes', toscan))
    BY <1>4
  <2> QED BY <2>2, <2>3, <2>4, <2>5, Marks
<1>7. MeetsTarget' /\ PanicsOnlyIfFreed'
  BY <1>2 DEF MeetsTarget, PanicsOnlyIfFreed, Add, Alive
<1> QED BY <1>2, <1>3, <1>5, <1>6, <1>7 DEF MemoryInv

LEMMA KillStep == ASSUME MemoryInv, NEW x \in Torrent, Kill(x) PROVE MemoryInv'
<1>1. /\ bytes' \in [Torrent -> 0 .. MaxPieces] /\ UNCHANGED <<live, pc, locals, added>>
      /\ dying' \subseteq live /\ live \subseteq Torrent
  BY SizesAssumption DEF MemoryInv, Types, Kill
<1>2. Empty'
  BY DEF MemoryInv, Types, Empty, Kill
<1>3. CASE bytes[x] > 0
  <2>1. freed'
    BY <1>3 DEF Kill
  <2> QED BY <1>1, <1>2, <2>1, FreedStep
<1>4. CASE ~(bytes[x] > 0)
  <2>1. bytes[x] = 0
    BY <1>4, SizesAssumption DEF MemoryInv, Types
  <2>2. bytes' = bytes
    BY <2>1 DEF MemoryInv, Types, Kill
  <2>3. freed' = freed
    BY <1>4 DEF MemoryInv, Types, Kill
  <2> QED BY <1>1, <1>2, <2>2, <2>3, QuietStep
<1> QED BY <1>3, <1>4

\* A goroutine evicts a piece of its torrent, or finds none.
LEMMA EvictStep == ASSUME MemoryInv, NEW e \in Expirer, ExpirePiece(e) PROVE MemoryInv'
<1> DEFINE x == exp[e].tor
<1>1. UNCHANGED <<live, dying, pc, locals, added>>
  BY DEF ExpirePiece
<1>2. CASE bytes[x] > 0
  <2>1. freed' /\ bytes' = [bytes EXCEPT ![x] = @ - 1]
    BY <1>2 DEF ExpirePiece
  <2>2. bytes' \in [Torrent -> 0 .. MaxPieces] /\ \A u \in Torrent : bytes[u] = 0 => bytes'[u] = 0
    <3>1. CASE x \in Torrent
      <4>1. bytes \in [Torrent -> 0 .. MaxPieces] /\ bytes[x] \in Int /\ bytes[x] - 1 \in 0 .. MaxPieces
        BY <1>2, <3>1, SizesAssumption DEF MemoryInv, Types
      <4> HIDE DEF x
      <4> QED BY <1>2, <2>1, <3>1, <4>1
    <3>2. CASE x \notin Torrent
      <4>1. bytes \in [Torrent -> 0 .. MaxPieces]
        BY DEF MemoryInv, Types
      <4> HIDE DEF x
      <4> QED BY <2>1, <3>2, <4>1
    <3> QED BY <3>1, <3>2
  <2>3. Empty' /\ dying \subseteq live
    BY <1>1, <2>2 DEF MemoryInv, Types, Empty
  <2> QED BY <1>1, <2>1, <2>2, <2>3, FreedStep
<1>3. CASE ~(bytes[x] > 0)
  <2>1. UNCHANGED <<bytes, freed>>
    BY <1>3 DEF ExpirePiece
  <2>2. Empty' /\ live' \subseteq Torrent /\ dying' \subseteq live'
    BY <1>1, <2>1 DEF MemoryInv, Types, Empty
  <2> QED BY <1>1, <2>1, <2>2, QuietStep
<1> QED BY <1>2, <1>3

LEMMA ExpireStep == ASSUME MemoryInv, Expire PROVE MemoryInv'
<1>1. Types' /\ Empty'
  BY DEF MemoryInv, Types, Empty, Expire, locals
<1>2. Looked'
  BY DEF Expire, Pressed, Looked, Bytes, Buffers, high
<1>3. Scanning' /\ MeetsTarget' /\ PanicsOnlyIfFreed'
  BY DEF Expire, Scanning, MeetsTarget, PanicsOnlyIfFreed
<1> QED BY <1>1, <1>2, <1>3 DEF MemoryInv

\* A share of a natural number, times the number of shares.
LEMMA QuoNat ==
    ASSUME NEW a \in Nat, NEW n \in Nat \ {0}
    PROVE  Quo(a, n) \in Nat /\ n * Quo(a, n) <= a
<1>1. Quo(a, n) = a \div n
  BY DEF Quo
<1>2. a \div n \in Nat /\ n * (a \div n) <= a
  OBVIOUS
<1> QED BY <1>1, <1>2

LEMMA QuoInt ==
    ASSUME NEW a \in Int, NEW n \in Nat \ {0}
    PROVE  Quo(a, n) \in Int /\ (a < 0 => Quo(a, n) <= 0)
<1>1. CASE a >= 0
  BY <1>1, QuoNat
<1>2. CASE a < 0
  <2>1. Quo(a, n) = -((-a) \div n)
    BY <1>2 DEF Quo
  <2>2. -a \in Nat
    BY <1>2
  <2>3. (-a) \div n \in Nat
    BY <2>2
  <2> QED BY <2>1, <2>3
<1> QED BY <1>1, <1>2

\* What is in use belongs to registered torrents.
LEMMA AllRegistered ==
    ASSUME Types, Empty PROVE Bytes = Cardinality(Held(bytes, live))
<1>1. Torrent = live \cup (Torrent \ live) /\ live \cap (Torrent \ live) = {}
  BY DEF Types
<1>2. Cardinality(Held(bytes, Torrent \ live)) = 0
  BY HeldNone DEF Empty
<1>3. Cardinality(Held(bytes, live \cup (Torrent \ live)))
         = Cardinality(Held(bytes, live)) + Cardinality(Held(bytes, Torrent \ live))
  BY <1>1, HeldSplit, Zenon
<1>4. Bytes = Cardinality(Held(bytes, live)) + 0
  BY <1>1, <1>2, <1>3, HeldAll, Zenon DEF Bytes
<1>5. Cardinality(Held(bytes, live)) \in Nat
  BY HeldFinite
<1> QED BY <1>4, <1>5

\* There are torrents, or else memory was freed since it was looked at.
LEMMA CountStep == ASSUME MemoryInv, Count PROVE MemoryInv'
<1>1. Types /\ Empty /\ Looked /\ pc = "count"
  BY DEF MemoryInv, Count
<1>2. Bytes = Cardinality(Held(bytes, live))
  BY <1>1, AllRegistered
<1>3. UNCHANGED <<live, dying, bytes, freed, added>>
  BY DEF Count
<1>4. CASE live = {}
  <2>1. pc' = "panic" /\ UNCHANGED locals
    BY <1>4 DEF Count
  <2>2. Bytes = 0
    BY <1>2, <1>4, HeldNone
  <2>3. freed
    BY <1>1, <2>2, Marks DEF Looked, Types
  <2>4. Types' /\ Empty'
    BY <1>1, <1>3, <2>1 DEF Types, Empty, locals
  <2> QED BY <1>3, <2>1, <2>3, <2>4
          DEF MemoryInv, Looked, Scanning, MeetsTarget, PanicsOnlyIfFreed
<1>5. CASE live # {}
  <2> DEFINE n == Cardinality(live)
  <2>1. /\ pc' = "scan" /\ fair' = Quo(low, n) /\ toscan' = live
        /\ smallspace' = 0 /\ bigcount' = 0 /\ fair2' = fair2
    BY <1>5 DEF Count
  <2>2. n \in Nat \ {0}
    <3>1. IsFiniteSet(live)
      BY <1>1, SizesAssumption, FS_Subset DEF Types
    <3> QED BY <1>5, <3>1, FS_CardinalityType, FS_EmptySet
  <2>3. fair' \in Nat /\ n * fair' <= low
    <3> HIDE DEF n
    <3> QED BY <2>1, <2>2, Marks, QuoNat
  <2>4. Types' /\ Empty'
    BY <1>1, <1>3, <2>1, <2>3 DEF Types, Empty
  <2>5. 0 + fair' * n <= low
    <3> HIDE DEF n
    <3> QED BY <2>2, <2>3
  <2>6. ~freed => 0 + Cardinality(Held(bytes, live)) >= high
    <3>1. Cardinality(Held(bytes, live)) \in Nat
      BY HeldFinite
    <3> QED BY <1>1, <1>2, <3>1 DEF Looked
  <2>7. \A u \in Torrent \ live : bytes[u] = 0
    BY <1>1 DEF Empty
  <2>8. 0 = Cardinality(Held(bytes, Small'))
    <3>1. Small' \subseteq Torrent \ live
      BY <2>1 DEF Small
    <3> QED BY <2>7, <3>1, HeldNone
  <2>9. 0 = Cardinality(Big')
    <3>1. Big' = {}
      BY <1>3, <2>1, <2>3, <2>7 DEF Big
    <3> QED BY <3>1, FS_EmptySet
  <2>10. Scanning'
    <3>1. Held(bytes, live)' = Held(bytes, live) /\ Held(bytes, Small)' = Held(bytes, Small')
          /\ low' = low /\ high' = high
      BY <1>3 DEF Held, low, high
    <3> QED BY <1>3, <2>1, <2>5, <2>6, <2>8, <2>9, <3>1 DEF Scanning, Held, low, high
  <2> QED BY <2>1, <2>4, <2>10 DEF MemoryInv, Looked, MeetsTarget, PanicsOnlyIfFreed
<1> QED BY <1>4, <1>5

\* A torrent that is scanned is small, and goes from one sum to the other,
\* or big, and is counted.
LEMMA ScanStep == ASSUME MemoryInv, NEW x \in Torrent, Scan(x) PROVE MemoryInv'
<1>1. /\ Types /\ Empty /\ Scanning /\ pc = "scan" /\ pc' = "scan"
      /\ x \in toscan /\ toscan' = toscan \ {x}
      /\ UNCHANGED <<live, dying, bytes, fair, fair2, freed, added>>
  BY DEF MemoryInv, Scan
<1>2. /\ bytes \in [Torrent -> 0 .. MaxPieces] /\ bytes[x] \in Nat
      /\ fair \in Nat /\ smallspace \in Nat /\ bigcount \in Nat
  BY <1>1, SizesAssumption DEF Types
<1>3. \/ bytes[x] <= fair /\ smallspace' = smallspace + bytes[x] /\ bigcount' = bigcount
      \/ bytes[x] > fair /\ smallspace' = smallspace /\ bigcount' = bigcount + 1
  <2>1. CASE x \notin live
    <3>1. bytes[x] = 0
      BY <1>1, <2>1 DEF Empty
    <3> QED BY <1>2, <2>1, <3>1 DEF Scan
  <2>2. CASE x \in live
    BY <1>2, <2>2 DEF Scan
  <2> QED BY <2>1, <2>2
<1>4. Types' /\ Empty'
  BY <1>1, <1>2, <1>3 DEF Types, Empty
<1> DEFINE n == Cardinality(toscan)
           m == Cardinality(toscan')
           h == Cardinality(Held(bytes, toscan))
           k == Cardinality(Held(bytes, toscan'))
           s == Cardinality(Held(bytes, Small))
<1>5. n \in Nat /\ m \in Nat /\ n = m + 1
  <2>1. IsFiniteSet(toscan)
    BY <1>1, SizesAssumption, FS_Subset DEF Types
  <2>2. /\ IsFiniteSet(toscan \ {x})
        /\ Cardinality(toscan \ {x}) = Cardinality(toscan) - 1
    BY <1>1, <2>1, FS_RemoveElement
  <2>3. Cardinality(toscan \ {x}) \in Nat /\ Cardinality(toscan) \in Nat
    BY <2>1, <2>2, FS_CardinalityType
  <2>4. Cardinality(toscan) = Cardinality(toscan \ {x}) + 1
    BY <2>2, <2>3
  <2> QED BY <1>1, <2>3, <2>4, Zenon
<1>6. Cardinality(Held(bytes, {x})) = bytes[x]
  BY <1>2, HeldOne DEF Sized
<1>7. h \in Nat /\ k \in Nat /\ s \in Nat
  BY HeldFinite
<1>8. h = k + bytes[x]
  <2>1. toscan = toscan' \cup {x} /\ toscan' \cap {x} = {}
    BY <1>1
  <2> QED BY <1>6, <2>1, HeldSplit
<1>9. /\ smallspace + fair * n <= low
      /\ ~freed /\ bigcount = 0 => smallspace + h >= high
      /\ ~freed /\ ~added => smallspace = s /\ bigcount = Cardinality(Big)
  BY <1>1 DEF Scanning
<1>10. CASE bytes[x] <= fair /\ smallspace' = smallspace + bytes[x] /\ bigcount' = bigcount
  <2>1. Cardinality(Held(bytes, Small')) = s + bytes[x]
    <3>1. Small' = Small \cup {x} /\ Small \cap {x} = {}
      BY <1>1, <1>10 DEF Small
    <3> QED BY <1>6, <3>1, HeldSplit
  <2>2. Big' = Big
    BY <1>1, <1>2, <1>10 DEF Big
  <2>3. smallspace' + fair * m <= low
    <3>1. fair * n = fair * m + fair
      BY <1>2, <1>5
    <3>2. fair * n \in Int /\ fair * m \in Int
      BY <1>2, <1>5
    <3> HIDE DEF n, m
    <3> QED BY <1>2, <1>9, <1>10, <3>1, <3>2, Marks
  <2>4. ~freed /\ bigcount' = 0 => smallspace' + k >= high
    <3> HIDE DEF h, k
    <3> QED BY <1>2, <1>7, <1>8, <1>9, <1>10, Marks
  <2>5. ~freed /\ ~added => smallspace' = Cardinality(Held(bytes, Small')) /\ bigcount' = Cardinality(Big')
    BY <1>9, <1>10, <2>1, <2>2
  <2>6. Scanning'
    BY <1>1, <2>3, <2>4, <2>5 DEF Scanning, Held, low, high
  <2> QED BY <1>1, <1>4, <2>6 DEF MemoryInv, Looked, MeetsTarget, PanicsOnlyIfFreed
<1>11. CASE bytes[x] > fair /\ smallspace' = smallspace /\ bigcount' = bigcount + 1
  <2>1. Small' = Small
    BY <1>1, <1>2, <1>11 DEF Small
  <2>2. Cardinality(Big') = Cardinality(Big) + 1
    <3>1. Big' = Big \cup {x} /\ x \notin Big
      BY <1>1, <1>11 DEF Big
    <3>2. IsFiniteSet(Big)
      BY SizesAssumption, FS_Subset DEF Big
    <3> QED BY <3>1, <3>2, FS_AddElement
  <2>3. smallspace' + fair * m <= low
    <3>1. fair * n = fair * m + fair
      BY <1>2, <1>5
    <3>2. fair * n \in Int /\ fair * m \in Int
      BY <1>2, <1>5
    <3> HIDE DEF n, m
    <3> QED BY <1>2, <1>9, <1>11, <3>1, <3>2, Marks
  <2>4. bigcount' # 0
    BY <1>2, <1>11
  <2>5. ~freed /\ ~added => smallspace' = Cardinality(Held(bytes, Small')) /\ bigcount' = Cardinality(Big')
    BY <1>9, <1>11, <2>1, <2>2
  <2>6. Scanning'
    BY <1>1, <2>3, <2>4, <2>5 DEF Scanning, Held, low, high
  <2> QED BY <1>1, <1>4, <2>6 DEF MemoryInv, Looked, MeetsTarget, PanicsOnlyIfFreed
<1> QED BY <1>3, <1>10, <1>11

\* What the torrents keep when each of n big ones keeps no more than f.
LEMMA KeepsLittle ==
    ASSUME Types, toscan = {}, NEW f \in Nat, smallspace = Cardinality(Held(bytes, Small)),
           bigcount = Cardinality(Big), smallspace + bigcount * f <= low
    PROVE  Cardinality({b \in Buffers : b[2] <= f}) <= low
<1> DEFINE K == {b \in Buffers : b[2] <= f}
           P == Big \X (1 .. f)
<1>1. bytes \in [Torrent -> 0 .. MaxPieces] /\ fair \in Nat /\ smallspace \in Nat /\ bigcount \in Nat
  BY DEF Types
<1>2. K \subseteq Held(bytes, Small) \cup P
  <2>1. SUFFICES ASSUME NEW b \in K, b \notin Held(bytes, Small) PROVE b \in P
    OBVIOUS
  <2>2. b \in Torrent \X (1 .. MaxPieces) /\ b[2] <= bytes[b[1]] /\ b[2] <= f
    BY DEF Buffers
  <2>3. b[1] \notin Small
    BY <2>1, <2>2 DEF Held
  <2>4. b[1] \in Torrent /\ b[2] \in 1 .. f /\ b = <<b[1], b[2]>>
    BY <2>2, SizesAssumption
  <2>5. bytes[b[1]] \in Int
    BY <1>1, <2>4, SizesAssumption
  <2>6. b[1] \in Big
    BY <1>1, <2>3, <2>4, <2>5 DEF Small, Big
  <2> QED BY <2>4, <2>6
<1>3. IsFiniteSet(Big) /\ IsFiniteSet(1 .. f) /\ Cardinality(1 .. f) = f
  <2>1. IsFiniteSet(Big)
    BY SizesAssumption, FS_Subset DEF Big
  <2>2. Cardinality(1 .. f) = f /\ IsFiniteSet(1 .. f)
    BY FS_Interval
  <2> QED BY <2>1, <2>2
<1>4. IsFiniteSet(P) /\ Cardinality(P) = bigcount * f
  BY <1>3, FS_Product
<1>5. IsFiniteSet(Held(bytes, Small)) /\ Cardinality(Held(bytes, Small)) = smallspace
  BY HeldFinite
<1> HIDE DEF K, P
<1>6. /\ IsFiniteSet(Held(bytes, Small) \cup P)
      /\ Cardinality(Held(bytes, Small) \cup P)
            = Cardinality(Held(bytes, Small)) + Cardinality(P) - Cardinality(Held(bytes, Small) \cap P)
  BY <1>4, <1>5, FS_Union
<1>7. Cardinality(Held(bytes, Small) \cap P) \in Nat
  BY <1>5, FS_Intersection, FS_CardinalityType
<1>8. bigcount * f \in Nat
  BY <1>1
<1>9. Cardinality(Held(bytes, Small) \cup P) <= low
  BY <1>1, <1>4, <1>5, <1>6, <1>7, <1>8, Marks
<1>10. Cardinality(K) <= Cardinality(Held(bytes, Small) \cup P) /\ Cardinality(K) \in Nat
  BY <1>2, <1>6, FS_Subset, FS_CardinalityType
<1>11. Cardinality(Held(bytes, Small) \cup P) \in Nat
  BY <1>6, FS_CardinalityType
<1>12. Cardinality(K) <= low
  BY <1>9, <1>10, <1>11, Marks
<1> QED BY <1>12 DEF K

\* The scan is over: the sums are those of all the torrents.
LEMMA ScanEndStep == ASSUME MemoryInv, ScanEnd PROVE MemoryInv'
<1>1. /\ Types /\ Empty /\ Scanning /\ pc = "scan" /\ toscan = {}
      /\ UNCHANGED <<live, dying, bytes, fair, smallspace, bigcount, freed, added>>
  BY DEF MemoryInv, ScanEnd
<1>2. fair \in Nat /\ smallspace \in Nat /\ bigcount \in Nat
  BY <1>1 DEF Types
<1>3. low - smallspace \in Int
  BY <1>2, Marks
<1>4. CASE bigcount = 0
  <2>1. pc' = "panic" /\ UNCHANGED <<toscan, fair2>>
    BY <1>4 DEF ScanEnd
  <2>2. smallspace <= low
    <3>1. Cardinality(toscan) = 0
      BY <1>1, FS_EmptySet
    <3>2. fair * Cardinality(toscan) = 0
      BY <1>2, <3>1
    <3>3. smallspace + fair * Cardinality(toscan) <= low
      BY <1>1 DEF Scanning
    <3> QED BY <1>2, <3>2, <3>3, Marks
  <2>3. ~freed => smallspace >= high
    <3>1. Cardinality(Held(bytes, toscan)) = 0
      <4>1. Held(bytes, toscan) = {}
        BY <1>1 DEF Held
      <4> QED BY <4>1, FS_EmptySet
    <3>2. ~freed => smallspace + Cardinality(Held(bytes, toscan)) >= high
      BY <1>1, <1>4 DEF Scanning
    <3> QED BY <1>2, <3>1, <3>2, Marks
  <2>4. freed
    BY <1>2, <2>2, <2>3, Marks
  <2>5. Types' /\ Empty'
    BY <1>1, <2>1 DEF Types, Empty
  <2>6. PanicsOnlyIfFreed'
    BY <1>1, <2>4, Zenon DEF PanicsOnlyIfFreed
  <2> QED BY <2>1, <2>5, <2>6 DEF MemoryInv, Looked, Scanning, MeetsTarget
<1>5. CASE bigcount # 0
  <2>1. pc' = "launch" /\ fair2' = Share /\ toscan' = live
    BY <1>5 DEF ScanEnd
  <2>2. bigcount \in Nat \ {0}
    BY <1>2, <1>5
  <2>3. Share \in Int /\ (low - smallspace < 0 => Share <= 0)
    BY <1>3, <2>2, QuoInt DEF Share
  <2>4. Types' /\ Empty'
    BY <1>1, <2>1, <2>3 DEF Types, Empty
  <2>5. ASSUME ~freed, ~added PROVE Cardinality({b \in Buffers : b[2] <= Share}) <= low
    <3>1. CASE Share <= 0
      <4>1. {b \in Buffers : b[2] <= Share} = {}
        <5>1. SUFFICES ASSUME NEW b \in Buffers, b[2] <= Share PROVE FALSE
          OBVIOUS
        <5>2. b \in Torrent \X (1 .. MaxPieces)
          BY DEF Buffers
        <5>3. b[2] \in 1 .. MaxPieces
          BY <5>2
        <5> QED BY <2>3, <3>1, <5>1, <5>3, SizesAssumption
      <4>2. Cardinality({b \in Buffers : b[2] <= Share}) = 0
        BY <4>1, FS_EmptySet
      <4> QED BY <4>2, Marks
    <3>2. CASE Share > 0
      <4>1. low - smallspace \in Nat
        BY <1>3, <2>3, <3>2
      <4>2. Share \in Nat /\ bigcount * Share <= low - smallspace
        BY <2>2, <4>1, QuoNat DEF Share
      <4>3. bigcount * Share \in Int
        BY <1>2, <4>2
      <4>4. smallspace + bigcount * Share <= low
        BY <1>2, <4>2, <4>3, Marks
      <4>5. smallspace = Cardinality(Held(bytes, Small)) /\ bigcount = Cardinality(Big)
        BY <1>1, <2>5 DEF Scanning
      <4> QED BY <1>1, <4>2, <4>4, <4>5, KeepsLittle
    <3> QED BY <2>3, <3>1, <3>2
  <2>6. MeetsTarget'
    <3>1. Buffers' = Buffers /\ low' = low
      BY <1>1 DEF Buffers, low
    <3> QED BY <1>1, <2>1, <2>5, <3>1 DEF MeetsTarget
  <2> QED BY <2>1, <2>4, <2>6 DEF MemoryInv, Looked, Scanning, PanicsOnlyIfFreed
<1> QED BY <1>4, <1>5

\* A goroutine is started, or none, and then the round is over.
LEMMA LaunchStep == ASSUME MemoryInv, NEW x \in Torrent, Launch(x) PROVE MemoryInv'
<1>1. /\ pc = "launch" /\ toscan' = toscan \ {x}
      /\ UNCHANGED <<live, dying, bytes, pc, fair, smallspace, bigcount, fair2, freed, added>>
  BY DEF Launch
<1>2. Types' /\ Empty'
  BY <1>1 DEF MemoryInv, Types, Empty
<1>3. MeetsTarget'
  BY <1>1 DEF MemoryInv, MeetsTarget, Buffers, low
<1> QED BY <1>1, <1>2, <1>3 DEF MemoryInv, Looked, Scanning, PanicsOnlyIfFreed

LEMMA LaunchEndStep == ASSUME MemoryInv, LaunchEnd PROVE MemoryInv'
<1>1. /\ pc' = "sleep" /\ fair' = 0 /\ smallspace' = 0 /\ bigcount' = 0 /\ fair2' = 0
      /\ UNCHANGED <<live, dying, bytes, toscan, freed, added>>
  BY DEF LaunchEnd
<1>2. Types' /\ Empty'
  BY <1>1 DEF MemoryInv, Types, Empty
<1> QED BY <1>1, <1>2 DEF MemoryInv, Looked, Scanning, MeetsTarget, PanicsOnlyIfFreed

LEMMA UnregisterStep == ASSUME MemoryInv, NEW x \in Torrent, Unregister(x) PROVE MemoryInv'
<1>1. /\ live' = live \ {x} /\ dying' = dying \ {x} /\ x \in dying
      /\ UNCHANGED <<bytes, pc, locals, freed, added>>
  BY DEF Unregister
<1>2. live' \subseteq Torrent /\ dying' \subseteq live' /\ Empty'
  BY <1>1 DEF MemoryInv, Types, Empty
<1> QED BY <1>1, <1>2, QuietStep

LEMMA AddTorrentStep == ASSUME MemoryInv, NEW x \in Torrent, AddTorrent(x) PROVE MemoryInv'
<1>1. /\ live' = live \cup {x} /\ dying' = dying
      /\ UNCHANGED <<bytes, pc, locals, freed, added>>
  BY DEF AddTorrent
<1>2. live' \subseteq Torrent /\ dying' \subseteq live' /\ Empty'
  BY <1>1 DEF MemoryInv, Types, Empty
<1> QED BY <1>1, <1>2, QuietStep

LEMMA ExpireStartStep == ASSUME MemoryInv, NEW e \in Expirer, ExpireStart(e) PROVE MemoryInv'
<1>1. UNCHANGED <<live, dying, bytes, pc, locals, freed, added>>
  BY DEF ExpireStart
<1>2. live' \subseteq Torrent /\ dying' \subseteq live' /\ Empty'
  BY <1>1 DEF MemoryInv, Types, Empty
<1> QED BY <1>1, <1>2, QuietStep

LEMMA MemoryKeeps == ASSUME MemoryInv, [MemoryNext]_memoryVars PROVE MemoryInv'
<1>1. CASE UNCHANGED memoryVars
  <2>1. UNCHANGED <<live, dying, bytes, pc, locals, freed, added>>
    BY <1>1 DEF memoryVars
  <2>2. live' \subseteq Torrent /\ dying' \subseteq live' /\ Empty'
    BY <2>1 DEF MemoryInv, Types, Empty
  <2> QED BY <2>1, <2>2, QuietStep
<1>2. ASSUME NEW x \in Torrent, Add(x) \/ Kill(x) \/ Unregister(x) \/ AddTorrent(x)
      PROVE  MemoryInv'
  BY <1>2, AddStep, KillStep, UnregisterStep, AddTorrentStep
<1>3. ASSUME NEW e \in Expirer, ExpireStart(e) \/ ExpirePiece(e) PROVE MemoryInv'
  BY <1>3, ExpireStartStep, EvictStep
<1>4. ASSUME NEW x \in Torrent, Scan(x) \/ Launch(x) PROVE MemoryInv'
  BY <1>4, ScanStep, LaunchStep
<1>5. CASE Expire \/ Count \/ ScanEnd \/ LaunchEnd
  BY <1>5, ExpireStep, CountStep, ScanEndStep, LaunchEndStep
<1> QED BY <1>1, <1>2, <1>3, <1>4, <1>5 DEF MemoryNext, Reaper

LEMMA MemoryInvariant == MemorySpec => []MemoryInv
BY MemoryStart, MemoryKeeps, PTL DEF MemorySpec

\* When tor.Expire has computed fair2, and nobody added or freed memory in
\* the meantime, what the torrents may keep is no more than the low mark,
\* whatever their number and sizes: the two roundings never add up to more.
THEOREM MemoryMeetsTarget == MemorySpec => []MeetsTarget
<1>1. MemoryInv => MeetsTarget
  BY DEF MemoryInv
<1> QED BY <1>1, MemoryInvariant, PTL

\* tor.Expire divides by zero only if memory was freed after it had found
\* memory to be above the high mark, by a torrent's end or an earlier round.
THEOREM MemoryPanicsOnlyIfFreed == MemorySpec => []PanicsOnlyIfFreed
<1>1. MemoryInv => PanicsOnlyIfFreed
  BY DEF MemoryInv
<1> QED BY <1>1, MemoryInvariant, PTL

-----------------------------------------------------------------------------
(* Pieces.Expire.                                                          *)

(* What is not in left was taken out when nothing in left came before it,  *)
(* and left only shrinks.                                                  *)
Sorted == \A i \in Piece \ left, j \in left : ~Before(t, available, j, i)

IndInv == TypeOK /\ Sorted

LEMMA InitInv == Init => IndInv
<1> SUFFICES ASSUME Init PROVE IndInv
    OBVIOUS
<1>1. Cardinality(stored) \in Nat /\ Cardinality(Piece) \in Nat
  <2>1. IsFiniteSet(stored)
    BY BoundsAssumption, FS_Subset DEF Init
  <2> QED
    BY <2>1, FS_CardinalityType, BoundsAssumption DEF Init
<1>2. TypeOK
    BY <1>1, BoundsAssumption DEF Init, TypeOK
<1> QED
    BY <1>2 DEF Init, IndInv, Sorted

LEMMA NextInv == IndInv /\ [Next]_vars => IndInv'
<1> SUFFICES ASSUME IndInv, [Next]_vars PROVE IndInv'
    OBVIOUS
<1>1. ASSUME NEW i \in Piece, Evict(i) PROVE IndInv'
  <2>1. TypeOK'
    BY <1>1 DEF IndInv, TypeOK, Evict, First, Evictable
  <2>2. t' = t /\ available' = available /\ left' = left \ {i}
    BY <1>1 DEF Evict
  <2>3. Sorted'
    BY <1>1, <2>2 DEF IndInv, Sorted, Evict, First, Before, Compare
  <2> QED
    BY <2>1, <2>3 DEF IndInv
<1>2. ASSUME NEW i \in Piece, Other(i) PROVE IndInv'
    BY <1>2 DEF IndInv, TypeOK, Other, Sorted, Before, Compare
<1>3. CASE Done \/ UNCHANGED vars
    BY <1>3 DEF IndInv, TypeOK, Done, vars, Sorted, Before, Compare
<1> QED
    BY <1>1, <1>2, <1>3 DEF Next

(* The invariant holds throughout an Expire.                               *)
THEOREM Invariance == Spec => []IndInv
    BY InitInv, NextInv, PTL DEF Spec

(* Expire's data is always well formed.                                    *)
THEOREM TypeCorrect == Spec => []TypeOK
    BY Invariance, PTL DEF IndInv

(* Expire considers pieces nobody used for two hours before the others,    *)
(* and among them the commonest first, whatever else happens meanwhile.    *)
THEOREM ValuablePiecesAreKept == Spec => []KeepsValuable
<1>1. IndInv => KeepsValuable
  <2> SUFFICES ASSUME IndInv, NEW i \in Piece \ left, NEW j \in left
               PROVE  /\ t[i] < Old => t[j] <= t[i]
                      /\ t[i] >= Old /\ t[j] >= Old => available[j] <= available[i]
    BY DEF KeepsValuable
  <2>1. t[i] \in Nat /\ t[j] \in Nat /\ available[i] \in Nat /\ available[j] \in Nat
    BY DEF IndInv, TypeOK
  <2>2. ~Before(t, available, j, i)
    BY DEF IndInv, Sorted
  <2> QED
    BY <2>1, <2>2, BoundsAssumption DEF Before, Compare
<1> QED
    BY <1>1, Invariance, PTL

\* The two criteria together, for pieces that are x, y and z old and that a,
\* b and c peers have.
Rank(x, a, y, b) == IF x >= Old /\ y >= Old /\ a # b THEN b - a ELSE y - x

LEMMA Ranked ==
    ASSUME NEW x \in Nat, NEW y \in Nat, NEW z \in Nat,
           NEW a \in Nat, NEW b \in Nat, NEW c \in Nat
    PROVE  /\ Rank(x, a, y, b) < 0 <=> Rank(y, b, x, a) > 0
           /\ Rank(x, a, y, b) <= 0 /\ Rank(y, b, z, c) <= 0 => Rank(x, a, z, c) <= 0
<1>1. Old \in Nat
  BY BoundsAssumption
<1> QED BY <1>1 DEF Rank

(* The comparator given to SortFunc is a total preorder.                   *)
THEOREM ComparatorIsAnOrder == Spec => []WeakOrder
<1>1. IndInv => WeakOrder
  <2> SUFFICES ASSUME IndInv, NEW i \in Piece, NEW j \in Piece, NEW k \in Piece
      PROVE /\ Compare(t, available, i, j) < 0 <=> Compare(t, available, j, i) > 0
            /\ Compare(t, available, i, j) <= 0 /\ Compare(t, available, j, k) <= 0
                 => Compare(t, available, i, k) <= 0
    BY DEF WeakOrder
  <2>1. /\ t[i] \in Nat /\ t[j] \in Nat /\ t[k] \in Nat
        /\ available[i] \in Nat /\ available[j] \in Nat /\ available[k] \in Nat
    BY DEF IndInv, TypeOK
  <2>2. \A l, m : Compare(t, available, l, m) = Rank(t[l], available[l], t[m], available[m])
    BY DEF Compare, Rank
  <2>3. /\ Rank(t[i], available[i], t[j], available[j]) < 0
            <=> Rank(t[j], available[j], t[i], available[i]) > 0
        /\ Rank(t[i], available[i], t[j], available[j]) <= 0
            /\ Rank(t[j], available[j], t[k], available[k]) <= 0
            => Rank(t[i], available[i], t[k], available[k]) <= 0
    BY <2>1, Ranked, Zenon
  <2> QED
    BY <2>2, <2>3, Zenon
<1> QED
    BY <1>1, Invariance, PTL

-----------------------------------------------------------------------------
(* The metadata.                                                           *)

\* What is known of the metadata is consistent.
Sound(m) ==
    /\ m = [size |-> m.size, info |-> m.info, bitmap |-> m.bitmap, requested |-> m.requested]
    /\ m.size \in Nat
    /\ DOMAIN m.info = 1 .. Chunks(m.size)
    /\ \A i \in m.bitmap : i \in DOMAIN m.info /\ m.info[i] # "zero"

LEMMA Shape ==
    ASSUME NEW m, NEW s, NEW f, NEW b, NEW r, m = [size |-> s, info |-> f, bitmap |-> b, requested |-> r]
    PROVE  /\ m = [size |-> m.size, info |-> m.info, bitmap |-> m.bitmap, requested |-> m.requested]
           /\ m.size = s /\ m.info = f /\ m.bitmap = b /\ m.requested = r
OBVIOUS

LEMMA ChunksNat == ASSUME NEW s \in Nat PROVE Chunks(s) \in Nat
BY MetadataAssumption DEF Chunks

LEMMA NoMetaSound == Sound(NoMeta)
<1>1. Chunks(0) = 0
  BY MetadataAssumption DEF Chunks
<1>2. DOMAIN NoMeta.info = 1 .. Chunks(0)
  BY <1>1 DEF NoMeta
<1> QED BY <1>2 DEF Sound, NoMeta

LEMMA ResizeSound ==
    ASSUME NEW m, Sound(m), NEW size \in Nat PROVE Sound(resizeMetadata(m, size))
<1>1. CASE m.size = size
  BY <1>1 DEF resizeMetadata
<1>2. CASE m.size # size
  <2> DEFINE n == resizeMetadata(m, size)
             f == [i \in 1 .. Chunks(size) |-> "zero"]
             g == [i \in 1 .. Chunks(size) |-> 0]
  <2>1. n = [size |-> size, info |-> f, bitmap |-> {}, requested |-> g]
    BY <1>2 DEF resizeMetadata
  <2>2. DOMAIN f = 1 .. Chunks(size)
    OBVIOUS
  <2> HIDE DEF n, f, g
  <2>3. Sound(n)
    BY <2>1, <2>2, Shape DEF Sound
  <2> QED BY <2>3 DEF n
<1> QED BY <1>1, <1>2

\* The bytes of a chunk that starts within the metadata belong to a chunk.
LEMMA WithinSize ==
    ASSUME NEW size \in Nat, NEW i \in Nat \ {0}, (i - 1) * ChunkSize < size
    PROVE  i \in 1 .. Chunks(size)
<1> DEFINE c == ChunkSize
           q == (size + c - 1) \div c
<1>1. c \in Nat \ {0}
  BY MetadataAssumption
<1>2. q \in Int /\ size + c - 1 < c * q + c
  BY <1>1
<1>3. (i - 1) * c = i * c - c /\ i * c \in Int /\ c * q \in Int /\ c * (q + 1) = c * q + c
  BY <1>1, <1>2
<1>4. i * c < c * (q + 1)
  BY <1>1, <1>2, <1>3
<1>5. i < q + 1
  <2>1. SUFFICES ASSUME i >= q + 1 PROVE FALSE
    BY <1>2
  <2>2. i * c >= (q + 1) * c
    BY <1>1, <1>2, <2>1
  <2> QED BY <1>1, <1>2, <1>3, <1>4, <2>2
<1> QED BY <1>2, <1>5 DEF Chunks

LEMMA StoredSound ==
    ASSUME Sound(meta), NEW p, NEW i \in 1 .. Chunks(meta.size), NEW long
    PROVE  Sound(Stored(p, i, long))
<1> DEFINE n == Stored(p, i, long)
           f == [j \in DOMAIN meta.info |->
                     IF j # i /\ ~(long /\ j > i) THEN meta.info[j]
                     ELSE IF p \in Good THEN "good" ELSE "bad"]
<1>1. n = [size |-> meta.size, info |-> f, bitmap |-> meta.bitmap \cup {i}, requested |-> meta.requested]
  <2>1. n = [meta EXCEPT !.info = f, !.bitmap = meta.bitmap \cup {i}]
    BY DEF Stored
  <2>2. meta = [size |-> meta.size, info |-> meta.info, bitmap |-> meta.bitmap, requested |-> meta.requested]
    BY DEF Sound
  <2> HIDE DEF n, f
  <2> QED BY <2>1, <2>2
<1>2. DOMAIN f = 1 .. Chunks(meta.size) /\ f[i] # "zero"
  BY DEF Sound
<1>3. \A j \in meta.bitmap : j \in DOMAIN f /\ f[j] # "zero"
  BY DEF Sound
<1>4. meta.size \in Nat
  BY DEF Sound
<1> HIDE DEF n, f
<1>5. Sound(n)
  BY <1>1, <1>2, <1>3, <1>4, Shape DEF Sound
<1> QED BY <1>5 DEF n

LEMMA RequestSound ==
    ASSUME NEW v, NEW m, Sound(m), NEW a, NEW qs, requestMetadata(v, m, a, qs)
    PROVE  Sound(meta')
<1>1. CASE meta' = m
  BY <1>1
<1>2. CASE \E size \in metadataGuess(v) : \E now :
             meta' = [resizeMetadata(m, size) EXCEPT !.requested = [i \in DOMAIN @ |->
                          IF i \in now THEN (@[i] + 1) % Wrap ELSE @[i]]]
  <2>0. PICK size \in metadataGuess(v) : \E now :
             meta' = [resizeMetadata(m, size) EXCEPT !.requested = [i \in DOMAIN @ |->
                          IF i \in now THEN (@[i] + 1) % Wrap ELSE @[i]]]
    BY <1>2
  <2>1. PICK now :
             meta' = [resizeMetadata(m, size) EXCEPT !.requested = [i \in DOMAIN @ |->
                          IF i \in now THEN (@[i] + 1) % Wrap ELSE @[i]]]
    BY <2>0
  <2> DEFINE n == resizeMetadata(m, size)
             g == [i \in DOMAIN n.requested |->
                     IF i \in now THEN (n.requested[i] + 1) % Wrap ELSE n.requested[i]]
  <2>2. Sound(n)
    BY ResizeSound, MetadataAssumption DEF metadataGuess, Size
  <2>3. meta' = [n EXCEPT !.requested = g]
    BY <2>1
  <2> HIDE DEF n, g
  <2>4. meta' = [size |-> n.size, info |-> n.info, bitmap |-> n.bitmap, requested |-> g]
    BY <2>2, <2>3 DEF Sound
  <2> QED BY <2>2, <2>4, Shape DEF Sound
<1> QED BY <1>1, <1>2 DEF requestMetadata

LEMMA SoundStep == ASSUME Sound(meta), [MetadataNext]_metadataVars PROVE Sound(meta')
<1>1. CASE UNCHANGED metadataVars
  BY <1>1 DEF metadataVars
<1>2. CASE Ticker
  BY <1>2, RequestSound DEF Ticker
<1>3. ASSUME NEW p \in Peer, PeerExtended(p) PROVE Sound(meta')
  <2>1. CASE complete
    BY <1>3, <2>1 DEF PeerExtended
  <2>2. CASE ~complete
    <3>1. requestMetadata(votes', meta, asked, <<p>>)
      BY <1>3, <2>2 DEF PeerExtended
    <3> QED BY <3>1, RequestSound
  <2> QED BY <2>1, <2>2
<1>4. ASSUME NEW p \in Peer, PeerGoaway(p) PROVE Sound(meta')
  BY <1>4 DEF PeerGoaway
<1>5. ASSUME NEW p \in Peer, NEW i \in Index, NEW long \in BOOLEAN, TorMetadata(p, i, long)
      PROVE  Sound(meta')
  <2>0. i \in Nat \ {0}
    BY MetadataAssumption, ChunksNat DEF Index, Size
  <2>1. CASE Useless(p, i, long)
    BY <2>1 DEF Useless
  <2>2. CASE Redundant(p, i, long)
    BY <2>2, RequestSound DEF Redundant
  <2>3. ASSUME Received(p, i, long), Useful(p) PROVE Sound(Stored(p, i, long))
    <3>1. i \in 1 .. Chunks(meta.size)
      BY <2>0, <2>3, WithinSize DEF Received, Useful, Sound
    <3> QED BY <3>1, StoredSound
  <2>4. CASE Chunk(p, i, long)
    <3>1. Sound(Stored(p, i, long))
      BY <2>3, <2>4 DEF Chunk
    <3>2. requestMetadata(votes, Stored(p, i, long), Answered(p, i), <<p>>)
      BY <2>4 DEF Chunk
    <3> QED BY <3>1, <3>2, RequestSound
  <2>5. CASE HashMismatch(p, i, long)
    BY <2>5, NoMetaSound DEF HashMismatch, Rejected
  <2>6. CASE MetadataComplete(p, i, long)
    <3> DEFINE n == Stored(p, i, long)
    <3>1. Sound(n)
      BY <2>3, <2>6 DEF MetadataComplete
    <3>2. meta' = [n EXCEPT !.bitmap = {}, !.requested = <<>>]
      BY <2>6 DEF MetadataComplete
    <3> HIDE DEF n
    <3>3. meta' = [size |-> n.size, info |-> n.info, bitmap |-> {}, requested |-> <<>>]
      BY <3>1, <3>2 DEF Sound
    <3> QED BY <3>1, <3>3, Shape DEF Sound
  <2> QED BY <1>5, <2>1, <2>2, <2>4, <2>5, <2>6 DEF TorMetadata
<1> QED BY <1>1, <1>2, <1>3, <1>4, <1>5 DEF MetadataNext

\* Whatever sizes the peers announce, in whatever order their chunks come and
\* whenever the torrent changes its mind, a chunk that is marked was received
\* since the size last changed, and is within the buffer.
THEOREM MetadataTruthful == MetadataSpec => []BitmapTruthful
<1>1. MetadataInit => Sound(meta)
  BY NoMetaSound DEF MetadataInit
<1>2. Sound(meta) /\ [MetadataNext]_metadataVars => Sound(meta)'
  BY SoundStep
<1>3. Sound(meta) => BitmapTruthful
  BY DEF Sound, BitmapTruthful
<1> QED BY <1>1, <1>2, <1>3, PTL DEF MetadataSpec
=============================================================================
