---------------------------- MODULE ReaderProofs ----------------------------
(***************************************************************************)
(* What readers request and what the torrent wants agree, and no wake-up   *)
(* of a reader is lost, for any number of readers and pieces and any       *)
(* capacity of the torrent's channel: the inductive invariant, the         *)
(* counting it takes, the readers' steps, and the torrent's.               *)
(***************************************************************************)
EXTENDS Reader, FiniteSetTheorems, TLAPS

Chunk == Piece \X Prio

\* The events e for the chunk c, and how many of the first m of q they are.
Is(e, type, c) == e.type = type /\ e.index = c[1] /\ e.prio = c[2]
First(q, m, type, c) == {k \in 1 .. m : Is(q[k], type, c)}
Count(q, m, type, c) == Cardinality(First(q, m, type, c))

Sum(type, c) == Count(torEvent, Len(torEvent), type, c)

\* The readers that count for c in RequestsBalanced.
Holding(c)  == {r \in Reader : c \in reader[r].requested}
Dropping(c) == {r \in Reader : c \in reader[r].old}
Asking(c)   == {r \in Reader : reader[r].pc = "reply" /\ c = <<reader[r].goal, 1>>}

EventType == [type : {"request", "cancel", "have"}, index : Piece,
              prio : Prio, want : BOOLEAN, from : Reader \cup {{}}]
ReaderType == [pc : {"idle", "add", "send", "reply", "del", "wait"},
               goal : Piece \cup {None}, add : Seq(Chunk), old : SUBSET Chunk,
               requested : SUBSET Chunk, open : BOOLEAN]

Types ==
    /\ torEvent \in Seq(EventType)
    /\ haves \in [Piece -> Nat]
    /\ there \subseteq Piece
    /\ prio \in [Piece -> [Prio -> Nat]]
    /\ done \in [Piece -> BOOLEAN]
    /\ reader \in [Reader -> ReaderType]

\* What a reader's list and its requests have to do with each other, and
\* with where it is.
Lists(s) ==
    /\ \A j, k \in DOMAIN s.add : s.add[j][1] = s.add[k][1] => j = k
    /\ \A k \in DOMAIN s.add : s.add[k][2] = 1 <=> s.add[k][1] = s.goal
    /\ \A d \in s.requested : \A k \in DOMAIN s.add : d[1] # s.add[k][1]
    /\ \A d \in s.requested : d[2] = 1 <=> d[1] = s.goal
    /\ s.open => <<s.goal, 1>> \in s.requested

Shape(s) ==
    /\ Lists(s)
    /\ s.pc \in {"idle", "wait"} => s.old = {} /\ s.add = <<>>
    /\ s.pc \in {"add", "send"} => s.add # <<>>
    /\ s.pc = "reply" => /\ \A d \in s.requested : d[1] # s.goal
                         /\ \A k \in DOMAIN s.add : s.add[k][1] # s.goal

Shapes == \A r \in Reader : Shape(reader[r])

\* A reader waits for the answer to one event, and only to a request for
\* the piece it is to read.
Answers ==
    \A k \in DOMAIN torEvent :
        LET e == torEvent[k]
        IN  /\ e.want => /\ e.type = "request" /\ e.prio = 1 /\ e.from \in Reader
                         /\ reader[e.from].pc = "reply" /\ reader[e.from].goal = e.index
            /\ e.type = "request" /\ e.prio = 1 => e.want
            /\ \A j \in DOMAIN torEvent :
                  e.want /\ torEvent[j].want /\ torEvent[j].from = e.from => j = k

\* RequestsBalanced
Balance(c) ==
    prio[c[1]][c[2]] + Sum("request", c) - Sum("cancel", c)
        = Cardinality(Holding(c)) + Cardinality(Dropping(c)) + Cardinality(Asking(c))

\* The requests on their way for a piece that is to be read are those of the
\* readers that wait for the answer.
Awaited(c) == c[2] = 1 => Sum("request", c) = Cardinality(Asking(c))

\* However far the torrent gets with its events, it finds what it cancels.
Ordered(c) ==
    \A m \in 0 .. Len(torEvent) :
        prio[c[1]][c[2]] + Count(torEvent, m, "request", c) >= Count(torEvent, m, "cancel", c)

Level(c) == Balance(c) /\ Awaited(c) /\ Ordered(c)
Balances == \A c \in Chunk : Level(c)

\* A piece with a channel is not complete, or the torrent is to hear of it.
Heard ==
    \A i \in Piece : done[i] /\ i \in complete => haves[i] > 0 \/ Pending("have", i) # {}

\* A reader's open channel is the one of its piece.
Channels == \A r \in Reader : reader[r].open => done[reader[r].goal]

Inv == Types /\ Shapes /\ Answers /\ Balances /\ Heard /\ Channels /\ ClientsAreNotIdle

-----------------------------------------------------------------------------
(* Counting.                                                               *)

One(b) == IF b THEN 1 ELSE 0

LEMMA CountIsNat ==
    ASSUME NEW q, NEW m \in Nat, NEW type, NEW c
    PROVE  IsFiniteSet(First(q, m, type, c)) /\ Count(q, m, type, c) \in Nat
<1>1. IsFiniteSet(1 .. m)
  BY FS_Interval
<1>2. IsFiniteSet(First(q, m, type, c))
  BY <1>1, FS_Subset DEF First
<1> QED BY <1>2, FS_CardinalityType DEF Count

\* Nothing among the first 0 events, and one more event.
LEMMA CountGrows ==
    ASSUME NEW q, NEW type, NEW c
    PROVE  /\ Count(q, 0, type, c) = 0
           /\ \A m \in Nat : Count(q, m + 1, type, c)
                                = Count(q, m, type, c) + One(Is(q[m + 1], type, c))
<1>1. First(q, 0, type, c) = {}
  BY DEF First
<1>2. ASSUME NEW m \in Nat
      PROVE  Count(q, m + 1, type, c) = Count(q, m, type, c) + One(Is(q[m + 1], type, c))
  <2>1. IsFiniteSet(First(q, m, type, c)) /\ Count(q, m, type, c) \in Nat
    BY CountIsNat
  <2>2. CASE Is(q[m + 1], type, c)
    <3>1. First(q, m + 1, type, c) = First(q, m, type, c) \cup {m + 1}
      BY <2>2 DEF First
    <3>2. m + 1 \notin First(q, m, type, c)
      BY DEF First
    <3>3. Count(q, m + 1, type, c) = Count(q, m, type, c) + 1
      BY <2>1, <3>1, <3>2, FS_AddElement DEF Count
    <3> QED BY <2>2, <3>3 DEF One
  <2>3. CASE ~Is(q[m + 1], type, c)
    <3>1. First(q, m + 1, type, c) = First(q, m, type, c)
      BY <2>3 DEF First
    <3> QED BY <2>1, <2>3, <3>1 DEF Count, One
  <2> QED BY <2>2, <2>3
<1> QED BY <1>1, <1>2, FS_EmptySet DEF Count

\* An event is sent.
LEMMA Sent ==
    ASSUME NEW q \in Seq(EventType), NEW e \in EventType, NEW type, NEW c
    PROVE  LET n == Len(q)
               a == Append(q, e)
           IN  /\ n \in Nat /\ Len(a) = n + 1
               /\ \A m \in 0 .. n : Count(a, m, type, c) = Count(q, m, type, c)
               /\ Count(a, n + 1, type, c) = Count(q, n, type, c) + One(Is(e, type, c))
<1> DEFINE n == Len(q)
           a == Append(q, e)
<1>1. /\ n \in Nat /\ Len(a) = n + 1 /\ a[n + 1] = e
      /\ \A k \in 1 .. n : a[k] = q[k]
  OBVIOUS
<1> HIDE DEF n, a
<1>2. ASSUME NEW m \in 0 .. n
      PROVE  Count(a, m, type, c) = Count(q, m, type, c)
  <2>1. \A k \in 1 .. m : a[k] = q[k]
    BY <1>1
  <2>2. First(a, m, type, c) = First(q, m, type, c)
    BY <2>1 DEF First, Is
  <2> QED BY <2>2 DEF Count
<1>3. Count(a, n + 1, type, c) = Count(a, n, type, c) + One(Is(e, type, c))
  <2>1. \A m \in Nat : Count(a, m + 1, type, c)
                         = Count(a, m, type, c) + One(Is(a[m + 1], type, c))
    BY CountGrows, Zenon
  <2> QED BY <1>1, <2>1
<1>4. Count(a, n, type, c) = Count(q, n, type, c)
  BY <1>1, <1>2
<1> QED BY <1>1, <1>2, <1>3, <1>4 DEF n, a

\* An event is received.
LEMMA Received ==
    ASSUME NEW q \in Seq(EventType), q # <<>>, NEW type, NEW c
    PROVE  /\ Len(q) \in Nat \ {0} /\ Len(Tail(q)) = Len(q) - 1
           /\ \A m \in 0 .. Len(q) - 1 : Count(Tail(q), m, type, c)
                 = Count(q, m + 1, type, c) - One(Is(Head(q), type, c))
<1> DEFINE n == Len(q)
           t == Tail(q)
<1>1. /\ n \in Nat \ {0} /\ Len(t) = n - 1 /\ Head(q) = q[1]
      /\ \A k \in 1 .. n - 1 : t[k] = q[k + 1]
  OBVIOUS
<1> HIDE DEF n, t
<1>2. ASSUME NEW m \in 0 .. n - 1
      PROVE  Count(t, m, type, c) = Count(q, m + 1, type, c) - One(Is(Head(q), type, c))
  <2>0. m \in Nat /\ m + 1 \in Nat
    BY <1>1
  <2> DEFINE S == First(t, m, type, c)
             T == First(q, m + 1, type, c)
             f == [k \in S |-> k + 1]
  <2>1. /\ IsFiniteSet(T) /\ Cardinality(T) \in Nat
        /\ IsFiniteSet(S) /\ Cardinality(S) \in Nat
    BY <2>0, CountIsNat DEF Count
  <2>2. \A k \in S : k + 1 \in T \ {1} /\ k \in Int
    BY <1>1 DEF First, Is
  <2>3. \A l \in T \ {1} : l - 1 \in S /\ l \in Int
    BY <1>1 DEF First, Is
  <2>4. 1 \in T <=> Is(Head(q), type, c)
    BY <1>1 DEF First
  <2> HIDE DEF S, T
  <2>5. f \in Bijection(S, T \ {1})
    <3>1. f \in [S -> T \ {1}]
      BY <2>2
    <3>2. \A j, k \in S : f[j] = f[k] => j = k
      BY <2>2
    <3>3. \A l \in T \ {1} : f[l - 1] = l
      BY <2>3
    <3> HIDE DEF f
    <3> QED BY <2>3, <3>1, <3>2, <3>3 DEF Bijection, Injection, Surjection, IsInjective
  <2>6. Cardinality(T \ {1}) = Cardinality(S)
    <3>1. ExistsBijection(S, T \ {1})
      BY <2>5, Zenon DEF ExistsBijection
    <3> QED BY <2>1, <3>1, FS_Bijection
  <2>7. Cardinality(T \ {1}) = IF 1 \in T THEN Cardinality(T) - 1 ELSE Cardinality(T)
    BY <2>1, FS_RemoveElement, Zenon
  <2>8. Cardinality(S) = Cardinality(T) - One(Is(Head(q), type, c))
    BY <2>1, <2>4, <2>6, <2>7 DEF One
  <2> QED BY <2>8 DEF Count, S, T
<1> QED BY <1>1, <1>2 DEF n, t

\* Sets of readers that differ in one reader at most.
LEMMA OneReader ==
    ASSUME NEW S \in SUBSET Reader, NEW T \in SUBSET Reader, NEW r \in Reader,
           S \ {r} = T \ {r}
    PROVE  /\ Cardinality(S) \in Nat /\ Cardinality(T) \in Nat
           /\ Cardinality(T) = Cardinality(S) + One(r \in T) - One(r \in S)
<1>1. IsFiniteSet(S) /\ IsFiniteSet(T)
  BY FS_Subset, SizesAssumption
<1>2. Cardinality(S) \in Nat /\ Cardinality(T) \in Nat
  BY <1>1, FS_CardinalityType
<1>3. Cardinality(S \ {r}) = IF r \in S THEN Cardinality(S) - 1 ELSE Cardinality(S)
  BY <1>1, FS_RemoveElement
<1>4. Cardinality(T \ {r}) = IF r \in T THEN Cardinality(T) - 1 ELSE Cardinality(T)
  BY <1>1, FS_RemoveElement
<1>5. Cardinality(S \ {r}) = Cardinality(T \ {r})
  OBVIOUS
<1> QED BY <1>2, <1>3, <1>4, <1>5 DEF One

-----------------------------------------------------------------------------
(* The balance of one chunk.                                               *)

Total(c) ==
    Cardinality(Holding(c)) + Cardinality(Dropping(c)) + Cardinality(Asking(c))

Waits(s, c) == s.pc = "reply" /\ c = <<s.goal, 1>>
Weight(s, c) == One(c \in s.requested) + One(c \in s.old) + One(Waits(s, c))
Alike(s, t) == /\ s.requested = t.requested /\ s.old = t.old
               /\ s.pc = t.pc /\ s.goal = t.goal

LEMMA TotalIsNat ==
    ASSUME NEW c
    PROVE  Total(c) \in Nat /\ Cardinality(Asking(c)) \in Nat
<1>1. /\ IsFiniteSet(Holding(c)) /\ IsFiniteSet(Dropping(c)) /\ IsFiniteSet(Asking(c))
  BY FS_Subset, SizesAssumption DEF Holding, Dropping, Asking
<1> QED BY <1>1, FS_CardinalityType DEF Total

LEMMA TotalIsNatNext ==
    ASSUME NEW c
    PROVE  Total(c)' \in Nat /\ Cardinality(Asking(c))' \in Nat
<1>1. /\ IsFiniteSet(Holding(c)') /\ IsFiniteSet(Dropping(c)') /\ IsFiniteSet(Asking(c)')
  BY FS_Subset, SizesAssumption DEF Holding, Dropping, Asking
<1> QED BY <1>1, FS_CardinalityType DEF Total

\* A step of one reader.
LEMMA TotalMoves ==
    ASSUME NEW r \in Reader, \A x \in Reader \ {r} : reader'[x] = reader[x], NEW c
    PROVE  /\ Total(c)' = Total(c) + Weight(reader'[r], c) - Weight(reader[r], c)
           /\ Cardinality(Asking(c))' = Cardinality(Asking(c))
                  + One(Waits(reader'[r], c)) - One(Waits(reader[r], c))
<1>1. /\ Holding(c) \in SUBSET Reader /\ Holding(c)' \in SUBSET Reader
      /\ Holding(c) \ {r} = Holding(c)' \ {r}
      /\ r \in Holding(c) <=> c \in reader[r].requested
      /\ r \in Holding(c)' <=> c \in reader'[r].requested
  BY DEF Holding
<1>2. /\ Dropping(c) \in SUBSET Reader /\ Dropping(c)' \in SUBSET Reader
      /\ Dropping(c) \ {r} = Dropping(c)' \ {r}
      /\ r \in Dropping(c) <=> c \in reader[r].old
      /\ r \in Dropping(c)' <=> c \in reader'[r].old
  BY DEF Dropping
<1>3. /\ Asking(c) \in SUBSET Reader /\ Asking(c)' \in SUBSET Reader
      /\ Asking(c) \ {r} = Asking(c)' \ {r}
      /\ r \in Asking(c) <=> Waits(reader[r], c)
      /\ r \in Asking(c)' <=> Waits(reader'[r], c)
  BY DEF Asking, Waits
<1> DEFINE h == Cardinality(Holding(c))
           d == Cardinality(Dropping(c))
           a == Cardinality(Asking(c))
           hh == Cardinality(Holding(c)')
           dd == Cardinality(Dropping(c)')
           aa == Cardinality(Asking(c)')
<1>4. /\ h \in Nat /\ hh \in Nat
      /\ hh = h + One(r \in Holding(c)') - One(r \in Holding(c))
  BY <1>1, OneReader
<1>5. /\ d \in Nat /\ dd \in Nat
      /\ dd = d + One(r \in Dropping(c)') - One(r \in Dropping(c))
  BY <1>2, OneReader
<1>6. /\ a \in Nat /\ aa \in Nat
      /\ aa = a + One(r \in Asking(c)') - One(r \in Asking(c))
  BY <1>3, OneReader
<1>7. Total(c) = h + d + a /\ Total(c)' = hh + dd + aa
  BY DEF Total
<1> HIDE DEF h, d, a, hh, dd, aa
<1>8. hh = h + One(c \in reader'[r].requested) - One(c \in reader[r].requested)
  BY <1>1, <1>4 DEF One
<1>9. dd = d + One(c \in reader'[r].old) - One(c \in reader[r].old)
  BY <1>2, <1>5 DEF One
<1>10. aa = a + One(Waits(reader'[r], c)) - One(Waits(reader[r], c))
  BY <1>3, <1>6 DEF One
<1>11. Total(c)' = Total(c) + Weight(reader'[r], c) - Weight(reader[r], c)
  BY <1>4, <1>5, <1>6, <1>7, <1>8, <1>9, <1>10 DEF Weight, One
<1> QED BY <1>10, <1>11 DEF a, aa

\* A step after which every reader has what it had.
LEMMA TotalStays ==
    ASSUME \A r \in Reader : Alike(reader'[r], reader[r]), NEW c
    PROVE  Total(c)' = Total(c) /\ Cardinality(Asking(c))' = Cardinality(Asking(c))
<1>1. Holding(c)' = Holding(c) /\ Dropping(c)' = Dropping(c) /\ Asking(c)' = Asking(c)
  BY DEF Holding, Dropping, Asking, Alike
<1> QED BY <1>1 DEF Total

\* A step that neither sends nor receives an event.
LEMMA LevelStays ==
    ASSUME NEW c, Level(c), UNCHANGED torEvent,
           prio'[c[1]][c[2]] = prio[c[1]][c[2]],
           Total(c)' = Total(c), Cardinality(Asking(c))' = Cardinality(Asking(c))
    PROVE  Level(c)'
<1>1. Sum("request", c)' = Sum("request", c) /\ Sum("cancel", c)' = Sum("cancel", c)
  BY DEF Sum
<1>2. Balance(c)'
  BY <1>1 DEF Level, Balance, Total
<1>3. Awaited(c)'
  BY <1>1 DEF Level, Awaited
<1>4. Ordered(c)'
  BY DEF Level, Ordered
<1> QED BY <1>2, <1>3, <1>4 DEF Level

\* A step that sends one.
LEMMA LevelSent ==
    ASSUME Types, NEW c \in Chunk, Level(c), NEW e \in EventType,
           torEvent' = Append(torEvent, e), UNCHANGED prio,
           Total(c)' = Total(c) + One(Is(e, "request", c)) - One(Is(e, "cancel", c)),
           c[2] = 1 => Cardinality(Asking(c))'
                          = Cardinality(Asking(c)) + One(Is(e, "request", c))
    PROVE  Level(c)'
<1> DEFINE n == Len(torEvent)
           p == prio[c[1]][c[2]]
           R(m) == Count(torEvent, m, "request", c)
           C(m) == Count(torEvent, m, "cancel", c)
           RR(m) == Count(torEvent', m, "request", c)
           CC(m) == Count(torEvent', m, "cancel", c)
<1>1. /\ n \in Nat /\ Len(torEvent') = n + 1
      /\ \A m \in 0 .. n : RR(m) = R(m) /\ CC(m) = C(m)
      /\ RR(n + 1) = R(n) + One(Is(e, "request", c))
      /\ CC(n + 1) = C(n) + One(Is(e, "cancel", c))
  BY Sent DEF Types
<1>2. R(n) \in Nat /\ C(n) \in Nat
  BY <1>1, CountIsNat
<1>3. p \in Nat
  BY DEF Types, Chunk
<1>4. /\ p + R(n) - C(n) = Total(c)
      /\ c[2] = 1 => R(n) = Cardinality(Asking(c))
      /\ \A m \in 0 .. n : p + R(m) >= C(m)
  BY DEF Level, Balance, Awaited, Ordered, Sum, Total
<1>5. Total(c) \in Nat /\ Cardinality(Asking(c)) \in Nat /\ Total(c)' \in Nat
  BY TotalIsNat, TotalIsNatNext
<1>6. p + RR(n + 1) - CC(n + 1) = Total(c)'
  <2> DEFINE req == One(Is(e, "request", c))
             can == One(Is(e, "cancel", c))
             r0 == R(n)
             c0 == C(n)
             t0 == Total(c)
             t1 == Total(c)'
  <2>1. req \in 0 .. 1 /\ can \in 0 .. 1 /\ t1 = t0 + req - can
    BY DEF One
  <2>2. RR(n + 1) = r0 + req /\ CC(n + 1) = c0 + can
    BY <1>1
  <2>3. r0 \in Nat /\ c0 \in Nat /\ p + r0 - c0 = t0
    BY <1>2, <1>4
  <2> HIDE DEF p, RR, CC, req, can, r0, c0, t0, t1
  <2>4. p + RR(n + 1) - CC(n + 1) = t1
    BY <1>3, <2>1, <2>2, <2>3
  <2> QED BY <2>4 DEF t1
<1>7. c[2] = 1 => RR(n + 1) = Cardinality(Asking(c))'
  BY <1>1, <1>4
<1>8. ASSUME NEW m \in 0 .. n + 1
      PROVE  p + RR(m) >= CC(m)
  <2>1. CASE m \in 0 .. n
    BY <1>1, <1>4, <2>1
  <2>2. CASE m = n + 1
    <3>1. RR(n + 1) \in Nat /\ CC(n + 1) \in Nat
      BY <1>1, CountIsNat
    <3>2. p + RR(n + 1) - CC(n + 1) \in Nat
      BY <1>5, <1>6
    <3> HIDE DEF p, RR, CC
    <3> QED BY <1>3, <2>2, <3>1, <3>2
  <2> QED BY <1>1, <2>1, <2>2
<1>9. Balance(c)'
  BY <1>1, <1>6 DEF Balance, Sum, Total
<1>10. Awaited(c)'
  BY <1>1, <1>7 DEF Awaited, Sum
<1>11. Ordered(c)'
  BY <1>1, <1>8 DEF Ordered
<1> QED BY <1>9, <1>10, <1>11 DEF Level

\* A step that receives one: the list of priorities changes as it says.
LEMMA LevelReceived ==
    ASSUME Types, Types', NEW c \in Chunk, Level(c),
           torEvent # <<>>, torEvent' = Tail(torEvent),
           prio'[c[1]][c[2]] = prio[c[1]][c[2]] + One(Is(Head(torEvent), "request", c))
                                                - One(Is(Head(torEvent), "cancel", c)),
           Total(c)' = Total(c),
           c[2] = 1 => Cardinality(Asking(c))'
                          = Cardinality(Asking(c)) - One(Is(Head(torEvent), "request", c))
    PROVE  Level(c)'
<1> DEFINE n == Len(torEvent)
           p == prio[c[1]][c[2]]
           pp == prio'[c[1]][c[2]]
           R(m) == Count(torEvent, m, "request", c)
           C(m) == Count(torEvent, m, "cancel", c)
           RR(m) == Count(torEvent', m, "request", c)
           CC(m) == Count(torEvent', m, "cancel", c)
           req == One(Is(Head(torEvent), "request", c))
           can == One(Is(Head(torEvent), "cancel", c))
<1>1. /\ n \in Nat \ {0} /\ Len(torEvent') = n - 1
      /\ \A m \in 0 .. n - 1 : RR(m) = R(m + 1) - req /\ CC(m) = C(m + 1) - can
  BY Received DEF Types
<1>2. \A m \in 0 .. n : R(m) \in Nat /\ C(m) \in Nat
  BY <1>1, CountIsNat
<1>3. p \in Nat /\ pp \in Nat
  BY DEF Types, Chunk
<1>4. /\ p + R(n) - C(n) = Total(c)
      /\ c[2] = 1 => R(n) = Cardinality(Asking(c))
      /\ \A m \in 0 .. n : p + R(m) >= C(m)
  BY DEF Level, Balance, Awaited, Ordered, Sum, Total
<1>5. req \in 0 .. 1 /\ can \in 0 .. 1 /\ pp = p + req - can
  BY DEF One
<1> HIDE DEF n, p, pp, R, C, RR, CC, req, can
<1>6. pp + RR(n - 1) - CC(n - 1) = Total(c)
  <2>1. n - 1 \in 0 .. n - 1 /\ n \in 0 .. n /\ (n - 1) + 1 = n
    BY <1>1
  <2>2. RR(n - 1) = R(n) - req /\ CC(n - 1) = C(n) - can
    BY <1>1, <2>1
  <2>3. R(n) \in Nat /\ C(n) \in Nat
    BY <1>2, <2>1
  <2> QED BY <1>3, <1>4, <1>5, <2>2, <2>3
<1>7. c[2] = 1 => RR(n - 1) = Cardinality(Asking(c)) - req
  BY <1>1, <1>4
<1>8. ASSUME NEW m \in 0 .. n - 1
      PROVE  pp + RR(m) >= CC(m)
  <2>1. m + 1 \in 0 .. n
    BY <1>1
  <2>2. RR(m) = R(m + 1) - req /\ CC(m) = C(m + 1) - can
    BY <1>1
  <2>3. R(m + 1) \in Nat /\ C(m + 1) \in Nat /\ p + R(m + 1) >= C(m + 1)
    BY <1>2, <1>4, <2>1
  <2> QED BY <1>3, <1>5, <2>2, <2>3
<1>9. Balance(c)'
  BY <1>1, <1>6 DEF Balance, Sum, Total, pp, RR, CC
<1>10. Awaited(c)'
  BY <1>1, <1>7 DEF Awaited, Sum, RR, req
<1>11. Ordered(c)'
  BY <1>1, <1>8 DEF Ordered, pp, RR, CC
<1> QED BY <1>9, <1>10, <1>11 DEF Level

-----------------------------------------------------------------------------
(* The steps of a reader.                                                  *)

\* Continue changes nothing but where the reader is.
LEMMA Continues ==
    ASSUME NEW s \in ReaderType, Lists(s)
    PROVE  /\ Continue(s) \in ReaderType /\ Shape(Continue(s))
           /\ Continue(s).pc \in {"add", "del", "idle", "wait"}
           /\ Continue(s).goal = s.goal /\ Continue(s).add = s.add
           /\ Continue(s).old = s.old /\ Continue(s).requested = s.requested
           /\ Continue(s).open = s.open
<1> DEFINE t == Continue(s)
<1>1. /\ t \in ReaderType /\ t.pc \in {"add", "del", "idle", "wait"}
      /\ t.goal = s.goal /\ t.add = s.add /\ t.old = s.old
      /\ t.requested = s.requested /\ t.open = s.open
      /\ t.pc \in {"idle", "wait"} => s.old = {} /\ s.add = <<>>
      /\ t.pc = "add" => s.add # <<>>
  BY DEF Continue, ReaderType
<1> HIDE DEF t
<1>2. Lists(t)
  BY <1>1 DEF Lists
<1>3. Shape(t)
  BY <1>1, <1>2 DEF Shape
<1> QED BY <1>1, <1>3 DEF t

\* A list of chunks for request: the first is to be read.
List(a) ==
    /\ a \in Seq(Chunk)
    /\ \A j, k \in DOMAIN a : a[j][1] = a[k][1] => j = k
    /\ \A k \in DOMAIN a : a[k][2] = 1 <=> k = 1

\* request trades what was requested for what is to be cancelled.
LEMMA Requests ==
    ASSUME NEW s \in ReaderType, s.pc # "reply", s.old = {}, NEW a, List(a)
    PROVE  /\ request(s, a) \in ReaderType /\ Shape(request(s, a))
           /\ request(s, a).pc # "reply" /\ request(s, a).open = FALSE
           /\ request(s, a).requested = {} /\ request(s, a).old = s.requested
<1> DEFINE g == IF a = <<>> THEN None ELSE a[1][1]
           u == [s EXCEPT !.goal = g, !.add = a, !.old = s.requested,
                          !.requested = {}, !.open = FALSE]
<1>1. g \in Piece \cup {None}
  BY DEF List, Chunk
<1>2. \A k \in DOMAIN a : a[k][2] = 1 <=> a[k][1] = g
  BY DEF List
<1>3. a \in Seq(Chunk) /\ \A j, k \in DOMAIN a : a[j][1] = a[k][1] => j = k
  BY DEF List
<1> HIDE DEF g
<1>4. /\ u \in ReaderType /\ u.goal = g /\ u.add = a /\ u.old = s.requested
      /\ u.requested = {} /\ u.open = FALSE
  BY <1>1, <1>3, Zenon DEF ReaderType
<1>5. request(s, a) = Continue(u)
  BY DEF request, g
<1> HIDE DEF u
<1>6. Lists(u)
  BY <1>2, <1>3, <1>4 DEF Lists
<1> QED BY <1>4, <1>5, <1>6, Continues

LEMMA ChunksList ==
    ASSUME NEW i \in Piece, NEW n \in 0 .. Num - 1 - i
    PROVE  List(chunks(i, n))
<1> DEFINE a == chunks(i, n)
<1>1. i \in Nat /\ n \in Nat /\ i + n <= Num - 1 /\ Num \in Nat
  BY SizesAssumption DEF Piece
<1>2. /\ a = [k \in 1 .. n + 1 |-> <<i + k - 1, IF k = 1 THEN 1 ELSE -1>>]
      /\ DOMAIN a = 1 .. n + 1
  BY DEF chunks
<1>3. \A k \in 1 .. n + 1 : a[k] = <<i + k - 1, IF k = 1 THEN 1 ELSE -1>> /\ a[k] \in Chunk
  BY <1>1, <1>2 DEF Chunk, Piece, Prio
<1> HIDE DEF a
<1>4. a \in Seq(Chunk)
  <2> DEFINE b(k) == <<i + k - 1, IF k = 1 THEN 1 ELSE -1>>
             m == n + 1
  <2>1. m \in Nat /\ \A k \in 1 .. m : b(k) \in Chunk
    BY <1>1, <1>3
  <2>2. a = [k \in 1 .. m |-> b(k)]
    BY <1>2
  <2> HIDE DEF b, m
  <2>3. [k \in 1 .. m |-> b(k)] \in Seq(Chunk)
    BY <2>1
  <2> QED BY <2>2, <2>3
<1>5. \A k \in 1 .. n + 1 : a[k][1] = i + k - 1 /\ (a[k][2] = 1 <=> k = 1)
  BY <1>3
<1>6. \A j, k \in DOMAIN a : a[j][1] = a[k][1] => j = k
  BY <1>1, <1>2, <1>5
<1>7. List(a)
  BY <1>2, <1>4, <1>5, <1>6 DEF List
<1> QED BY <1>7 DEF a

LEMMA EmptyList == List(<<>>)
BY DEF List

\* Reader r goes on as t, which weighs what it did, and sends nothing.
LEMMA QuietStep ==
    ASSUME Inv, UNCHANGED <<complete, haves, torEvent, requests>>,
           NEW r \in Reader, NEW t \in ReaderType, reader' = [reader EXCEPT ![r] = t],
           Shape(t), reader[r].pc # "reply", t.pc # "reply",
           \A c \in Chunk : One(c \in t.requested) + One(c \in t.old)
                               = One(c \in reader[r].requested) + One(c \in reader[r].old),
           t.open => reader[r].open /\ t.goal = reader[r].goal
    PROVE  Inv'
<1>0. /\ UNCHANGED there /\ UNCHANGED prio /\ UNCHANGED done
      /\ reader \in [Reader -> ReaderType]
      /\ reader'[r] = t /\ \A x \in Reader \ {r} : reader'[x] = reader[x]
  BY DEF requests, Inv, Types
<1>1. Types'
  BY <1>0 DEF Inv, Types
<1>2. Shapes'
  BY <1>0 DEF Inv, Shapes
<1>3. Answers'
  BY <1>0 DEF Inv, Answers
<1>4. Balances'
  <2> SUFFICES ASSUME NEW c \in Chunk PROVE Level(c)'
    BY DEF Balances
  <2>1. ~Waits(t, c) /\ ~Waits(reader[r], c)
    BY DEF Waits
  <2>2. Weight(t, c) = Weight(reader[r], c) /\ One(Waits(t, c)) = One(Waits(reader[r], c))
    BY <2>1 DEF Weight, One
  <2>3. Total(c) \in Nat /\ Cardinality(Asking(c)) \in Nat /\ Weight(t, c) \in Int
    BY TotalIsNat DEF Weight, One
  <2>4. Total(c)' = Total(c)
    BY <1>0, <2>2, <2>3, TotalMoves
  <2>5. Cardinality(Asking(c))' = Cardinality(Asking(c))
    <3>1. One(Waits(t, c)) = 0 /\ One(Waits(reader[r], c)) = 0
      BY <2>1 DEF One
    <3> QED BY <1>0, <2>3, <3>1, TotalMoves
  <2> QED BY <1>0, <2>4, <2>5, LevelStays DEF Inv, Balances
<1>5. Heard'
  BY <1>0 DEF Inv, Heard, Pending
<1>6. Channels'
  BY <1>0 DEF Inv, Channels
<1>7. ClientsAreNotIdle'
  BY <1>0 DEF Inv, ClientsAreNotIdle
<1> QED BY <1>1, <1>2, <1>3, <1>4, <1>5, <1>6, <1>7 DEF Inv

\* The head of the list is done with.
LEMMA TailOfList ==
    ASSUME NEW s \in ReaderType, Lists(s), s.add # <<>>
    PROVE  /\ Head(s.add) \in Chunk /\ Tail(s.add) \in Seq(Chunk)
           /\ \A j, k \in DOMAIN Tail(s.add) : Tail(s.add)[j][1] = Tail(s.add)[k][1] => j = k
           /\ \A k \in DOMAIN Tail(s.add) :
                 /\ Tail(s.add)[k][2] = 1 <=> Tail(s.add)[k][1] = s.goal
                 /\ \A d \in s.requested : d[1] # Tail(s.add)[k][1]
                 /\ Tail(s.add)[k][1] # Head(s.add)[1]
           /\ Head(s.add)[2] = 1 <=> Head(s.add)[1] = s.goal
           /\ \A d \in s.requested : d[1] # Head(s.add)[1]
<1> DEFINE a == s.add
           b == Tail(a)
<1>1. /\ a \in Seq(Chunk) /\ a # <<>>
      /\ \A j, k \in DOMAIN a : a[j][1] = a[k][1] => j = k
      /\ \A k \in DOMAIN a : /\ a[k][2] = 1 <=> a[k][1] = s.goal
                             /\ \A d \in s.requested : d[1] # a[k][1]
  BY DEF ReaderType, Lists
<1> HIDE DEF a
<1>2. /\ Head(a) = a[1] /\ 1 \in DOMAIN a /\ a[1] \in Chunk /\ b \in Seq(Chunk)
      /\ \A k \in DOMAIN b : b[k] = a[k + 1] /\ k + 1 \in DOMAIN a /\ k + 1 # 1 /\ k \in Int
  BY <1>1
<1> HIDE DEF b
<1>3. \A j, k \in DOMAIN b : b[j][1] = b[k][1] => j = k
  <2> SUFFICES ASSUME NEW j \in DOMAIN b, NEW k \in DOMAIN b, b[j][1] = b[k][1] PROVE j = k
    OBVIOUS
  <2>1. /\ j + 1 \in DOMAIN a /\ k + 1 \in DOMAIN a /\ j \in Int /\ k \in Int
        /\ b[j] = a[j + 1] /\ b[k] = a[k + 1]
    BY <1>2
  <2>2. j + 1 = k + 1
    BY <1>1, <2>1
  <2> QED BY <2>1, <2>2
<1>4. \A k \in DOMAIN b : /\ b[k][2] = 1 <=> b[k][1] = s.goal
                          /\ \A d \in s.requested : d[1] # b[k][1]
                          /\ b[k][1] # a[1][1]
  BY <1>1, <1>2
<1> QED BY <1>1, <1>2, <1>3, <1>4 DEF a, b

LEMMA ReadInv ==
    ASSUME Inv, NEW r \in Reader, NEW i \in Piece, Read(r, i)
    PROVE  Inv'
<1> DEFINE s == reader[r]
<1>1. s \in ReaderType /\ Shape(s) /\ s.pc = "idle" /\ s.old = {} /\ Lists(s)
  BY DEF Inv, Types, Shapes, Shape, Read
<1>2. PICK n \in 0 .. Num - 1 - i :
         reader' = [reader EXCEPT ![r] =
              IF s.goal = i THEN Continue(@) ELSE request(@, chunks(i, n))]
  BY Zenon DEF Read
<1>3. CASE s.goal = i
  <2>1. reader' = [reader EXCEPT ![r] = Continue(s)]
    BY <1>2, <1>3
  <2> HIDE DEF s
  <2>2. /\ Continue(s) \in ReaderType /\ Shape(Continue(s)) /\ Continue(s).pc # "reply"
        /\ Continue(s).old = s.old /\ Continue(s).requested = s.requested
        /\ Continue(s).open = s.open /\ Continue(s).goal = s.goal
    BY <1>1, Continues
  <2> QED BY <1>1, <2>1, <2>2, QuietStep, Zenon DEF Read, s
<1>4. CASE s.goal # i
  <2> DEFINE t == request(s, chunks(i, n))
  <2>1. reader' = [reader EXCEPT ![r] = t]
    BY <1>2, <1>4
  <2>2. /\ t \in ReaderType /\ Shape(t) /\ t.pc # "reply" /\ t.open = FALSE
        /\ t.requested = {} /\ t.old = s.requested
    BY <1>1, ChunksList, Requests, Zenon
  <2> HIDE DEF t
  <2>3. \A c \in Chunk : One(c \in t.requested) + One(c \in t.old)
                            = One(c \in s.requested) + One(c \in s.old)
    BY <1>1, <2>2 DEF One
  <2> QED BY <1>1, <2>1, <2>2, <2>3, QuietStep, Zenon DEF Read
<1> QED BY <1>3, <1>4

\* What Cancel and ReadAt have in common.
LEMMA CancelAllInv ==
    ASSUME Inv, NEW r \in Reader, reader[r].pc \in {"wait", "idle"},
           reader' = [reader EXCEPT ![r] = request(@, <<>>)],
           UNCHANGED <<complete, haves, torEvent, requests>>
    PROVE  Inv'
<1> DEFINE s == reader[r]
           t == request(s, <<>>)
<1>1. s \in ReaderType /\ s.old = {} /\ s.pc # "reply"
  BY DEF Inv, Types, Shapes, Shape
<1>2. reader' = [reader EXCEPT ![r] = t]
  OBVIOUS
<1>3. /\ t \in ReaderType /\ Shape(t) /\ t.pc # "reply" /\ t.open = FALSE
      /\ t.requested = {} /\ t.old = s.requested
  BY <1>1, EmptyList, Requests, Zenon
<1> HIDE DEF t
<1>4. \A c \in Chunk : One(c \in t.requested) + One(c \in t.old)
                          = One(c \in s.requested) + One(c \in s.old)
  BY <1>1, <1>3 DEF One
<1> QED BY <1>1, <1>2, <1>3, <1>4, QuietStep, Zenon

LEMMA CancelInv ==
    ASSUME Inv, NEW r \in Reader, Cancel(r)
    PROVE  Inv'
BY CancelAllInv, Zenon DEF Cancel

LEMMA ReadAtInv ==
    ASSUME Inv, NEW r \in Reader, ReadAt(r)
    PROVE  Inv'
<1>1. CASE reader' = [reader EXCEPT ![r] = request(@, <<>>)]
  BY <1>1, CancelAllInv, Zenon DEF ReadAt
<1>2. CASE reader' = [reader EXCEPT ![r].pc = "idle"]
  <2> DEFINE s == reader[r]
             t == [s EXCEPT !.pc = "idle"]
  <2>1. s \in ReaderType /\ Lists(s) /\ s.pc = "wait" /\ s.old = {} /\ s.add = <<>>
    BY DEF Inv, Types, Shapes, Shape, ReadAt
  <2>2. /\ t \in ReaderType /\ t.pc = "idle" /\ t.goal = s.goal /\ t.add = s.add
        /\ t.old = s.old /\ t.requested = s.requested /\ t.open = s.open
    BY <2>1 DEF ReaderType
  <2>3. reader' = [reader EXCEPT ![r] = t]
    BY <1>2
  <2> HIDE DEF t
  <2>4. Shape(t)
    BY <2>1, <2>2 DEF Shape, Lists
  <2> QED BY <2>1, <2>2, <2>3, <2>4, QuietStep, Zenon DEF ReadAt
<1> QED BY <1>1, <1>2 DEF ReadAt

LEMMA RequestInv ==
    ASSUME Inv, NEW r \in Reader, Request(r)
    PROVE  Inv'
<1> DEFINE s == reader[r]
<1>1. s \in ReaderType /\ Shape(s) /\ Lists(s) /\ s.pc = "add" /\ s.add # <<>>
  BY DEF Inv, Types, Shapes, Shape, Request
<1>2. CASE Head(s.add)[1] \in complete
  <2> DEFINE u == [s EXCEPT !.add = Tail(s.add)]
  <2>1. reader' = [reader EXCEPT ![r] = Continue(u)]
    BY <1>2 DEF Request
  <2>2. /\ u \in ReaderType /\ u.add = Tail(s.add) /\ u.goal = s.goal /\ u.old = s.old
        /\ u.requested = s.requested /\ u.open = s.open
    BY <1>1, TailOfList, Zenon DEF ReaderType
  <2> HIDE DEF u
  <2>3. Lists(u)
    <3> DEFINE b == Tail(s.add)
    <3>1. /\ \A j, k \in DOMAIN b : b[j][1] = b[k][1] => j = k
          /\ \A k \in DOMAIN b : /\ b[k][2] = 1 <=> b[k][1] = s.goal
                                 /\ \A d \in s.requested : d[1] # b[k][1]
      BY <1>1, TailOfList, Zenon
    <3>2. /\ \A d \in s.requested : d[2] = 1 <=> d[1] = s.goal
          /\ s.open => <<s.goal, 1>> \in s.requested
      BY <1>1 DEF Lists
    <3> HIDE DEF b, s
    <3>3. u.add = b /\ u.goal = s.goal /\ u.requested = s.requested /\ u.open = s.open
      BY <2>2 DEF b, s
    <3> QED BY <3>1, <3>2, <3>3 DEF Lists
  <2>4. /\ Continue(u) \in ReaderType /\ Shape(Continue(u)) /\ Continue(u).pc # "reply"
        /\ Continue(u).old = s.old /\ Continue(u).requested = s.requested
        /\ Continue(u).open = s.open /\ Continue(u).goal = s.goal
    BY <2>2, <2>3, Continues
  <2> QED BY <1>1, <2>1, <2>4, QuietStep, Zenon DEF Request
<1>3. CASE Head(s.add)[1] \notin complete
  <2> DEFINE t == [s EXCEPT !.pc = "send"]
  <2>1. reader' = [reader EXCEPT ![r] = t]
    BY <1>3 DEF Request
  <2>2. /\ t \in ReaderType /\ t.pc = "send" /\ t.goal = s.goal /\ t.add = s.add
        /\ t.old = s.old /\ t.requested = s.requested /\ t.open = s.open
    BY <1>1 DEF ReaderType
  <2> HIDE DEF t
  <2>3. Shape(t)
    BY <1>1, <2>2 DEF Shape, Lists
  <2> QED BY <1>1, <2>1, <2>2, <2>3, QuietStep, Zenon DEF Request
<1> QED BY <1>2, <1>3

\* Reader r goes on as t and sends e, which weighs what it gains.
Sends(r, t, e) ==
    /\ torEvent' = Append(torEvent, e) /\ e.type # "have"
    /\ reader' = [reader EXCEPT ![r] = t]
    /\ Shape(t) /\ reader[r].pc # "reply"
    /\ t.open => reader[r].open /\ t.goal = reader[r].goal

Weighs(r, t, e) ==
    \A c \in Chunk :
        /\ Weight(t, c) - Weight(reader[r], c)
              = One(Is(e, "request", c)) - One(Is(e, "cancel", c))
        /\ c[2] = 1 => One(Waits(t, c)) = One(Is(e, "request", c))

Awaits(r, t, e) ==
    /\ e.want => /\ e.type = "request" /\ e.prio = 1 /\ e.from = r
                 /\ t.pc = "reply" /\ t.goal = e.index
    /\ e.type = "request" /\ e.prio = 1 => e.want

LEMMA SendStep ==
    ASSUME Inv, UNCHANGED <<complete, haves, requests>>,
           NEW e \in EventType, NEW r \in Reader, NEW t \in ReaderType,
           Sends(r, t, e), Weighs(r, t, e), Awaits(r, t, e)
    PROVE  Inv'
<1>0. /\ UNCHANGED complete /\ UNCHANGED haves /\ UNCHANGED there /\ UNCHANGED prio
      /\ UNCHANGED done /\ torEvent' = Append(torEvent, e)
      /\ reader \in [Reader -> ReaderType] /\ reader' = [reader EXCEPT ![r] = t]
      /\ reader'[r] = t /\ \A x \in Reader \ {r} : reader'[x] = reader[x]
  BY DEF requests, Inv, Types, Sends
<1>1. Types'
  BY <1>0 DEF Inv, Types
<1>2. Shapes'
  BY <1>0 DEF Inv, Shapes, Sends
<1>3. /\ DOMAIN torEvent' = DOMAIN torEvent \cup {Len(torEvent) + 1}
      /\ torEvent'[Len(torEvent) + 1] = e /\ Len(torEvent) + 1 \notin DOMAIN torEvent
      /\ \A k \in DOMAIN torEvent : torEvent'[k] = torEvent[k]
  BY <1>0 DEF Inv, Types
<1>4. Answers'
  <2>1. \A k \in DOMAIN torEvent : torEvent[k].want => torEvent[k].from # r
    BY DEF Inv, Answers, Sends
  <2> QED BY <1>0, <1>3, <2>1 DEF Inv, Answers, Awaits
<1>5. Balances'
  <2> SUFFICES ASSUME NEW c \in Chunk PROVE Level(c)'
    BY DEF Balances
  <2> DEFINE w == Weight(t, c)
             v == Weight(reader[r], c)
             req == One(Is(e, "request", c))
             can == One(Is(e, "cancel", c))
             tot == Total(c)
             a == Cardinality(Asking(c))
  <2>1. tot \in Nat /\ a \in Nat
    BY TotalIsNat
  <2>2. /\ Total(c)' = tot + w - v
        /\ Cardinality(Asking(c))' = a + One(Waits(t, c)) - One(Waits(reader[r], c))
    BY <1>0, TotalMoves
  <2>3. w \in Int /\ v \in Int /\ req \in Int /\ can \in Int
    BY DEF Weight, One
  <2>4. One(Waits(reader[r], c)) = 0
    BY DEF One, Waits, Sends
  <2>5. w - v = req - can /\ (c[2] = 1 => One(Waits(t, c)) = req)
    BY DEF Weighs
  <2> HIDE DEF w, v, req, can, tot, a
  <2>6. Total(c)' = tot + req - can
    BY <2>1, <2>2, <2>3, <2>5
  <2>7. c[2] = 1 => Cardinality(Asking(c))' = a + req
    BY <2>1, <2>2, <2>3, <2>4, <2>5
  <2>8. Types /\ Level(c)
    BY DEF Inv, Balances
  <2> QED BY <1>0, <2>6, <2>7, <2>8, LevelSent DEF req, can, tot, a
<1>6. Heard'
  <2>1. \A i \in Piece : Pending("have", i) \subseteq Pending("have", i)'
    BY <1>3 DEF Pending
  <2> QED BY <1>0, <2>1 DEF Inv, Heard
<1>7. Channels'
  BY <1>0 DEF Inv, Channels, Sends
<1>8. ClientsAreNotIdle'
  BY <1>0 DEF Inv, ClientsAreNotIdle
<1> QED BY <1>1, <1>2, <1>4, <1>5, <1>6, <1>7, <1>8 DEF Inv

\* Chunks are pairs: an event is for one only.
LEMMA EventIs ==
    ASSUME NEW d \in Chunk, NEW e, e.index = d[1], e.prio = d[2]
    PROVE  \A c \in Chunk : Is(e, e.type, c) <=> c = d
<1>1. \A c \in Chunk : c = d <=> c[1] = d[1] /\ c[2] = d[2]
  BY DEF Chunk
<1> QED BY <1>1 DEF Is

LEMMA RequestSendInv ==
    ASSUME Inv, NEW r \in Reader, RequestSend(r)
    PROVE  Inv'
<1> DEFINE s == reader[r]
           d == Head(s.add)
           first == d = <<s.goal, 1>>
           e == Event("request", d[1], d[2], first, r)
<1>1. s \in ReaderType /\ Shape(s) /\ Lists(s) /\ s.pc = "send" /\ s.add # <<>>
  BY DEF Inv, Types, Shapes, Shape, RequestSend
<1>2. torEvent' = Append(torEvent, e) /\ UNCHANGED <<complete, haves, requests>>
  BY DEF RequestSend
<1>3. /\ d \in Chunk /\ Tail(s.add) \in Seq(Chunk)
      /\ \A x \in s.requested : x[1] # d[1]
      /\ d[2] = 1 <=> d[1] = s.goal
      /\ first <=> d[2] = 1
  <2>1. /\ d \in Chunk /\ Tail(s.add) \in Seq(Chunk)
        /\ \A x \in s.requested : x[1] # d[1]
        /\ d[2] = 1 <=> d[1] = s.goal
    BY <1>1, TailOfList
  <2>2. d = <<s.goal, 1>> <=> d[1] = s.goal /\ d[2] = 1
    BY <2>1 DEF Chunk
  <2> QED BY <2>1, <2>2
<1>4. /\ e \in EventType /\ e.type = "request" /\ e.index = d[1] /\ e.prio = d[2]
      /\ e.from = r /\ e.want = first
      /\ \A c \in Chunk : (Is(e, "request", c) <=> c = d) /\ ~Is(e, "cancel", c)
  <2>1. d[1] \in Piece /\ d[2] \in Prio /\ first \in BOOLEAN
    BY <1>3 DEF Chunk
  <2>2. /\ e \in EventType /\ e.type = "request" /\ e.index = d[1] /\ e.prio = d[2]
        /\ e.from = r /\ e.want = first
    BY <2>1, Zenon DEF Event, EventType
  <2> HIDE DEF e, d
  <2>3. \A c \in Chunk : Is(e, "request", c) <=> c = d
    BY <1>3, <2>2, EventIs
  <2>4. \A c \in Chunk : ~Is(e, "cancel", c)
    BY <2>2 DEF Is
  <2> QED BY <2>2, <2>3, <2>4
<1> HIDE DEF e
<1>5. CASE first
  <2> DEFINE t == [s EXCEPT !.pc = "reply", !.add = Tail(s.add)]
  <2>1. reader' = [reader EXCEPT ![r] = t]
    BY <1>5, Zenon DEF RequestSend
  <2>2. /\ t \in ReaderType /\ t.pc = "reply" /\ t.add = Tail(s.add) /\ t.goal = s.goal
        /\ t.old = s.old /\ t.requested = s.requested /\ t.open = s.open
    BY <1>1, <1>3, Zenon DEF ReaderType
  <2> HIDE DEF t
  <2>3. Lists(t)
    <3> DEFINE b == Tail(s.add)
    <3>1. /\ \A j, k \in DOMAIN b : b[j][1] = b[k][1] => j = k
          /\ \A k \in DOMAIN b : /\ b[k][2] = 1 <=> b[k][1] = s.goal
                                 /\ \A x \in s.requested : x[1] # b[k][1]
      BY <1>1, TailOfList, Zenon
    <3>2. /\ \A x \in s.requested : x[2] = 1 <=> x[1] = s.goal
          /\ s.open => <<s.goal, 1>> \in s.requested
      BY <1>1 DEF Lists
    <3>3. t.add = b
      BY <2>2
    <3> HIDE DEF b, s
    <3> QED BY <2>2, <3>1, <3>2, <3>3, ZenonT(30) DEF Lists
  <2>4. Shape(t)
    BY <1>1, <1>3, <1>5, <2>2, <2>3, TailOfList DEF Shape
  <2>5. \A c \in Chunk : (Waits(t, c) <=> c = d) /\ ~Waits(s, c)
    BY <1>1, <1>5, <2>2, Zenon DEF Waits
  <2>6. \A c \in Chunk :
           /\ One(Waits(t, c)) = One(Is(e, "request", c))
           /\ Weight(t, c) - Weight(s, c) = One(Is(e, "request", c)) - One(Is(e, "cancel", c))
    <3> SUFFICES ASSUME NEW c \in Chunk
                 PROVE  /\ One(Waits(t, c)) = One(Is(e, "request", c))
                        /\ Weight(t, c) - Weight(s, c)
                              = One(Is(e, "request", c)) - One(Is(e, "cancel", c))
      OBVIOUS
    <3>1. /\ One(Waits(t, c)) = One(Is(e, "request", c)) /\ One(Waits(t, c)) \in Int
          /\ One(Is(e, "cancel", c)) = 0 /\ One(Waits(s, c)) = 0
      BY <1>4, <2>5 DEF One
    <3>2. /\ One(c \in t.requested) = One(c \in s.requested) /\ One(c \in t.old) = One(c \in s.old)
          /\ One(c \in s.requested) \in Int /\ One(c \in s.old) \in Int
      BY <2>2 DEF One
    <3> QED BY <3>1, <3>2 DEF Weight
  <2>7. e.want /\ t.goal = e.index /\ e.prio = 1
    BY <1>3, <1>4, <1>5, <2>2, Zenon
  <2> QED BY <1>1, <1>2, <1>4, <2>1, <2>2, <2>4, <2>6, <2>7, SendStep, Zenon DEF Sends, Weighs, Awaits
<1>6. CASE ~first
  <2> DEFINE u == [s EXCEPT !.add = Tail(s.add), !.requested = s.requested \cup {d}]
             t == Continue(u)
  <2>1. reader' = [reader EXCEPT ![r] = t]
    BY <1>6, Zenon DEF RequestSend
  <2>2. /\ u \in ReaderType /\ u.add = Tail(s.add) /\ u.goal = s.goal
        /\ u.old = s.old /\ u.requested = s.requested \cup {d} /\ u.open = s.open
    BY <1>1, <1>3, Zenon DEF ReaderType
  <2> HIDE DEF u
  <2>3. Lists(u)
    <3> DEFINE b == Tail(s.add)
    <3>1. /\ \A j, k \in DOMAIN b : b[j][1] = b[k][1] => j = k
          /\ \A k \in DOMAIN b : /\ b[k][2] = 1 <=> b[k][1] = s.goal
                                 /\ \A x \in s.requested : x[1] # b[k][1]
                                 /\ b[k][1] # d[1]
      <4> HIDE DEF s
      <4> QED BY <1>1, TailOfList
    <3> HIDE DEF b, d, s, first
    <3>2. /\ \A x \in s.requested : x[2] = 1 <=> x[1] = s.goal
          /\ s.open => <<s.goal, 1>> \in s.requested
      BY <1>1 DEF Lists
    <3>3. u.add = b
      BY <2>2 DEF b
    <3>4. ASSUME NEW x \in u.requested, NEW k \in DOMAIN b
          PROVE  x[1] # b[k][1]
      <4>1. x \in s.requested \/ x = d
        BY <2>2
      <4>2. b[k][1] # d[1] /\ \A y \in s.requested : y[1] # b[k][1]
        BY <3>1
      <4> QED BY <4>1, <4>2
    <3>5. \A x \in u.requested : x[2] = 1 <=> x[1] = u.goal
      BY <1>3, <2>2, <3>2
    <3>6. u.open => <<u.goal, 1>> \in u.requested
      BY <2>2, <3>2
    <3>7. /\ \A j, k \in DOMAIN u.add : u.add[j][1] = u.add[k][1] => j = k
          /\ \A k \in DOMAIN u.add : u.add[k][2] = 1 <=> u.add[k][1] = u.goal
      BY <2>2, <3>1, <3>3, Zenon
    <3>8. \A x \in u.requested : \A k \in DOMAIN u.add : x[1] # u.add[k][1]
      BY <3>3, <3>4
    <3> QED BY <3>5, <3>6, <3>7, <3>8 DEF Lists
  <2>4. /\ t \in ReaderType /\ Shape(t) /\ t.pc # "reply" /\ t.goal = s.goal
        /\ t.old = s.old /\ t.requested = s.requested \cup {d} /\ t.open = s.open
    BY <2>2, <2>3, Continues
  <2> HIDE DEF t
  <2>5. \A c \in Chunk : ~Waits(t, c) /\ ~Waits(s, c) /\ (c[2] = 1 => c # d)
    BY <1>1, <1>3, <1>6, <2>4 DEF Waits
  <2>6. d \notin s.requested
    BY <1>3
  <2>7. \A c \in Chunk :
           /\ c[2] = 1 => One(Waits(t, c)) = One(Is(e, "request", c))
           /\ Weight(t, c) - Weight(s, c) = One(Is(e, "request", c)) - One(Is(e, "cancel", c))
    <3> SUFFICES ASSUME NEW c \in Chunk
                 PROVE  /\ c[2] = 1 => One(Waits(t, c)) = One(Is(e, "request", c))
                        /\ Weight(t, c) - Weight(s, c)
                              = One(Is(e, "request", c)) - One(Is(e, "cancel", c))
      OBVIOUS
    <3>1. /\ One(Waits(t, c)) = 0 /\ One(Waits(s, c)) = 0 /\ One(Is(e, "cancel", c)) = 0
          /\ c[2] = 1 => One(Is(e, "request", c)) = 0
      BY <1>4, <2>5 DEF One
    <3>2. /\ One(c \in t.requested) = One(c \in s.requested) + One(Is(e, "request", c))
          /\ One(c \in t.old) = One(c \in s.old)
          /\ One(c \in s.requested) \in Int /\ One(c \in s.old) \in Int
          /\ One(Is(e, "request", c)) \in Int
      BY <1>4, <2>4, <2>6 DEF One
    <3> QED BY <3>1, <3>2 DEF Weight
  <2>8. ~e.want /\ e.prio # 1
    BY <1>3, <1>4, <1>6, Zenon
  <2> QED BY <1>1, <1>2, <1>4, <2>1, <2>4, <2>7, <2>8, SendStep, Zenon DEF Sends, Weighs, Awaits
<1> QED BY <1>5, <1>6

LEMMA RequestDelInv ==
    ASSUME Inv, NEW r \in Reader, RequestDel(r)
    PROVE  Inv'
<1> DEFINE s == reader[r]
<1>1. s \in ReaderType /\ Lists(s) /\ s.pc = "del"
  BY DEF Inv, Types, Shapes, Shape, RequestDel
<1>2. PICK d \in s.old :
         /\ torEvent' = Append(torEvent, Event("cancel", d[1], d[2], FALSE, r))
         /\ reader' = [reader EXCEPT ![r] = Continue([s EXCEPT !.old = s.old \ {d}])]
  BY Zenon DEF RequestDel
<1> DEFINE e == Event("cancel", d[1], d[2], FALSE, r)
           u == [s EXCEPT !.old = s.old \ {d}]
           t == Continue(u)
<1>3. reader' = [reader EXCEPT ![r] = t] /\ UNCHANGED <<complete, haves, requests>>
  BY <1>2, Zenon DEF RequestDel
<1>4. d \in Chunk
  BY <1>1 DEF ReaderType
<1>5. /\ e \in EventType /\ e.type = "cancel" /\ e.want = FALSE
      /\ \A c \in Chunk : (Is(e, "cancel", c) <=> c = d) /\ ~Is(e, "request", c)
  <2>1. d[1] \in Piece /\ d[2] \in Prio
    BY <1>4 DEF Chunk
  <2>2. /\ e \in EventType /\ e.type = "cancel" /\ e.want = FALSE
        /\ e.index = d[1] /\ e.prio = d[2]
    BY <2>1, Zenon DEF Event, EventType
  <2> HIDE DEF e
  <2>3. \A c \in Chunk : Is(e, "cancel", c) <=> c = d
    BY <1>4, <2>2, EventIs
  <2>4. \A c \in Chunk : ~Is(e, "request", c)
    BY <2>2 DEF Is
  <2> QED BY <2>2, <2>3, <2>4
<1>6. torEvent' = Append(torEvent, e)
  BY <1>2
<1>7. /\ u \in ReaderType /\ u.add = s.add /\ u.goal = s.goal
      /\ u.old = s.old \ {d} /\ u.requested = s.requested /\ u.open = s.open
  BY <1>1 DEF ReaderType
<1> HIDE DEF e, u
<1>8. Lists(u)
  BY <1>1, <1>7 DEF Lists
<1>9. /\ t \in ReaderType /\ Shape(t) /\ t.pc # "reply" /\ t.goal = s.goal
      /\ t.old = s.old \ {d} /\ t.requested = s.requested /\ t.open = s.open
  BY <1>7, <1>8, Continues
<1> HIDE DEF t
<1>10. ASSUME NEW c \in Chunk
       PROVE  /\ One(Waits(t, c)) = One(Is(e, "request", c))
              /\ Weight(t, c) - Weight(s, c)
                    = One(Is(e, "request", c)) - One(Is(e, "cancel", c))
  <2>1. /\ One(Waits(t, c)) = 0 /\ One(Waits(s, c)) = 0 /\ One(Is(e, "request", c)) = 0
    BY <1>1, <1>5, <1>9 DEF One, Waits
  <2>2. /\ One(c \in t.old) = One(c \in s.old) - One(Is(e, "cancel", c))
        /\ One(c \in t.requested) = One(c \in s.requested)
        /\ One(c \in s.requested) \in Int /\ One(c \in s.old) \in Int
        /\ One(Is(e, "cancel", c)) \in Int
    BY <1>2, <1>5, <1>9 DEF One
  <2> QED BY <2>1, <2>2 DEF Weight
<1> QED BY <1>1, <1>3, <1>5, <1>6, <1>9, <1>10, SendStep, Zenon DEF Sends, Weighs, Awaits


-----------------------------------------------------------------------------
(* The pieces.                                                             *)

LEMMA FinaliseInv ==
    ASSUME Inv, NEW i \in Piece, Finalise(i)
    PROVE  Inv'
<1>0. /\ UNCHANGED torEvent /\ UNCHANGED there /\ UNCHANGED prio /\ UNCHANGED done
      /\ UNCHANGED reader /\ haves \in [Piece -> Nat]
      /\ haves' = [haves EXCEPT ![i] = @ + 1] /\ complete' = complete \cup {i}
  BY DEF Finalise, requests, Inv, Types
<1>1. Types'
  BY <1>0 DEF Inv, Types
<1>2. Shapes' /\ Answers' /\ Channels' /\ ClientsAreNotIdle'
  BY <1>0 DEF Inv, Shapes, Answers, Channels, ClientsAreNotIdle
<1>3. Balances'
  <2> SUFFICES ASSUME NEW c \in Chunk PROVE Level(c)'
    BY DEF Balances
  <2>1. \A r \in Reader : Alike(reader'[r], reader[r])
    BY <1>0 DEF Alike
  <2> QED BY <1>0, <2>1, TotalStays, LevelStays DEF Inv, Balances
<1>4. Heard'
  BY <1>0 DEF Inv, Heard, Pending
<1> QED BY <1>1, <1>2, <1>3, <1>4 DEF Inv

LEMMA ExpireInv ==
    ASSUME Inv, NEW i \in Piece, Expire(i)
    PROVE  Inv'
<1>0. /\ UNCHANGED torEvent /\ UNCHANGED there /\ UNCHANGED prio /\ UNCHANGED done
      /\ UNCHANGED reader /\ UNCHANGED haves /\ complete' = complete \ {i}
  BY DEF Expire, requests
<1>1. Types'
  BY <1>0 DEF Inv, Types
<1>2. Shapes' /\ Answers' /\ Channels' /\ ClientsAreNotIdle'
  BY <1>0 DEF Inv, Shapes, Answers, Channels, ClientsAreNotIdle
<1>3. Balances'
  <2> SUFFICES ASSUME NEW c \in Chunk PROVE Level(c)'
    BY DEF Balances
  <2>1. \A r \in Reader : Alike(reader'[r], reader[r])
    BY <1>0 DEF Alike
  <2> QED BY <1>0, <2>1, TotalStays, LevelStays DEF Inv, Balances
<1>4. Heard'
  BY <1>0 DEF Inv, Heard, Pending
<1> QED BY <1>1, <1>2, <1>3, <1>4 DEF Inv

LEMMA HaveInv ==
    ASSUME Inv, NEW i \in Piece, Have(i)
    PROVE  Inv'
<1> DEFINE e == Event("have", i, 1, FALSE, {})
<1>0. /\ UNCHANGED complete /\ UNCHANGED there /\ UNCHANGED prio /\ UNCHANGED done
      /\ UNCHANGED reader /\ haves \in [Piece -> Nat] /\ haves[i] > 0
      /\ haves' = [haves EXCEPT ![i] = @ - 1] /\ torEvent' = Append(torEvent, e)
  BY DEF Have, requests, Inv, Types
<1>1. e \in EventType /\ e.type = "have" /\ e.want = FALSE /\ e.index = i
  BY Zenon DEF Event, EventType, Prio
<1> HIDE DEF e
<1>2. Types'
  <2>1. haves' \in [Piece -> Nat]
    BY <1>0
  <2>2. torEvent' \in Seq(EventType)
    BY <1>0, <1>1 DEF Inv, Types
  <2> QED BY <1>0, <2>1, <2>2 DEF Inv, Types
<1>3. Shapes' /\ Channels' /\ ClientsAreNotIdle'
  BY <1>0 DEF Inv, Shapes, Channels, ClientsAreNotIdle
<1>4. /\ DOMAIN torEvent' = DOMAIN torEvent \cup {Len(torEvent) + 1}
      /\ torEvent'[Len(torEvent) + 1] = e
      /\ \A k \in DOMAIN torEvent : torEvent'[k] = torEvent[k]
  BY <1>0, <1>1 DEF Inv, Types
<1>5. Answers'
  BY <1>0, <1>1, <1>4 DEF Inv, Answers
<1>6. Balances'
  <2> SUFFICES ASSUME NEW c \in Chunk PROVE Level(c)'
    BY DEF Balances
  <2>1. \A r \in Reader : Alike(reader'[r], reader[r])
    BY <1>0 DEF Alike
  <2>2. Total(c)' = Total(c) /\ Cardinality(Asking(c))' = Cardinality(Asking(c))
    BY <2>1, TotalStays
  <2>3. One(Is(e, "request", c)) = 0 /\ One(Is(e, "cancel", c)) = 0
    BY <1>1 DEF Is, One
  <2>4. Total(c) \in Nat /\ Cardinality(Asking(c)) \in Nat
    BY TotalIsNat
  <2>5. /\ Total(c)' = Total(c) + One(Is(e, "request", c)) - One(Is(e, "cancel", c))
        /\ Cardinality(Asking(c))' = Cardinality(Asking(c)) + One(Is(e, "request", c))
    BY <2>2, <2>3, <2>4
  <2>6. Types /\ Level(c)
    BY DEF Inv, Balances
  <2> QED BY <1>0, <1>1, <2>5, <2>6, LevelSent
<1>7. Heard'
  <2>1. \A j \in Piece : Pending("have", j) \subseteq Pending("have", j)'
    BY <1>4 DEF Pending
  <2>2. Pending("have", i)' # {}
    BY <1>1, <1>4 DEF Pending
  <2>3. \A j \in Piece \ {i} : haves'[j] = haves[j]
    BY <1>0
  <2> QED BY <1>0, <2>1, <2>2, <2>3 DEF Inv, Heard
<1> QED BY <1>2, <1>3, <1>5, <1>6, <1>7 DEF Inv

-----------------------------------------------------------------------------
(* The torrent's loop.                                                     *)

\* Closing channels changes nothing but what is open.
LEMMA Closes ==
    ASSUME Types, Shapes, NEW S, CloseDone(S)
    PROVE  /\ reader' \in [Reader -> ReaderType] /\ done' \in [Piece -> BOOLEAN]
           /\ Shapes'
           /\ \A r \in Reader : Alike(reader'[r], reader[r])
           /\ \A i \in Piece : done'[i] <=> done[i] /\ i \notin S
           /\ \A r \in Reader : reader'[r].open <=> reader[r].open /\ reader[r].goal \notin S
<1>1. ASSUME NEW r \in Reader
      PROVE  /\ reader'[r] \in ReaderType /\ Alike(reader'[r], reader[r])
             /\ reader'[r].add = reader[r].add
             /\ reader'[r].open <=> reader[r].open /\ reader[r].goal \notin S
  <2> DEFINE s == reader[r]
             o == s.open /\ s.goal \notin S
             t == [s EXCEPT !.open = o]
  <2>1. reader'[r] = t
    BY DEF CloseDone
  <2>2. s \in ReaderType /\ o \in BOOLEAN
    BY DEF Types
  <2> HIDE DEF s, o
  <2>3. t \in ReaderType /\ Alike(t, s) /\ t.add = s.add /\ t.open = o
    BY <2>2 DEF ReaderType, Alike
  <2> HIDE DEF t
  <2> QED BY <2>1, <2>3, Zenon DEF s, o
<1>2. reader' \in [Reader -> ReaderType]
  BY <1>1 DEF CloseDone
<1>3. done' \in [Piece -> BOOLEAN] /\ \A i \in Piece : done'[i] <=> done[i] /\ i \notin S
  BY Zenon DEF CloseDone
<1>4. Shapes'
  <2> SUFFICES ASSUME NEW r \in Reader PROVE Shape(reader'[r])
    BY DEF Shapes
  <2>1. Shape(reader[r])
    BY DEF Shapes
  <2> DEFINE s == reader[r]
             t == reader'[r]
  <2>2. /\ t.pc = s.pc /\ t.goal = s.goal /\ t.old = s.old /\ t.requested = s.requested
        /\ t.add = s.add /\ (t.open => s.open)
    BY <1>1 DEF Alike
  <2> HIDE DEF s, t
  <2>3. Shape(s)
    BY <2>1 DEF s
  <2>4. Lists(t)
    BY <2>2, <2>3 DEF Shape, Lists
  <2>5. Shape(t)
    BY <2>2, <2>3, <2>4 DEF Shape
  <2> QED BY <2>5 DEF t
<1> QED BY <1>1, <1>2, <1>3, <1>4

\* The channel of a piece is closed for all of them.
LEMMA ClosesChannels ==
    ASSUME Inv, NEW S, CloseDone(S)
    PROVE  Channels'
<1> SUFFICES ASSUME NEW r \in Reader, reader'[r].open PROVE done'[reader'[r].goal]
  BY DEF Channels
<1> DEFINE s == reader[r]
<1>1. s.open /\ s.goal \notin S /\ reader'[r].goal = s.goal
  BY Closes DEF Inv, Alike
<1>2. s.goal \in Piece
  <2>1. s \in ReaderType /\ <<s.goal, 1>> \in s.requested
    BY <1>1 DEF Inv, Types, Shapes, Shape, Lists
  <2> HIDE DEF s
  <2>2. <<s.goal, 1>> \in Chunk
    BY <2>1 DEF ReaderType
  <2> QED BY <2>2 DEF Chunk
<1>3. done[s.goal]
  BY <1>1 DEF Inv, Channels
<1>4. \A i \in Piece : done'[i] <=> done[i] /\ i \notin S
  BY Closes DEF Inv
<1> QED BY <1>1, <1>2, <1>3, <1>4

\* Pieces that no client wants come and go.
LEMMA IdleInv ==
    ASSUME Inv, UNCHANGED <<complete, haves, torEvent>>,
           NEW S, S \subseteq Piece, there' = S,
           \A i \in there : prio[i] # Rest => i \in S,
           prio' = [i \in Piece |-> IF i \in there' THEN prio[i] ELSE Rest],
           CloseDone(there \ there')
    PROVE  Inv'
<1>0. Types /\ Shapes /\ ClientsAreNotIdle
  BY DEF Inv
<1>1. \A i \in Piece : prio[i] # Rest \/ done[i] => i \in there' /\ prio[i] # Rest
  BY <1>0 DEF ClientsAreNotIdle
<1>2. prio' = prio
  <2>1. prio \in [Piece -> [Prio -> Nat]]
    BY <1>0 DEF Types
  <2>2. \A i \in Piece : prio'[i] = prio[i]
    BY <1>1
  <2> QED BY <2>1, <2>2
<1>3. /\ reader' \in [Reader -> ReaderType] /\ done' \in [Piece -> BOOLEAN]
      /\ Shapes'
      /\ \A r \in Reader : Alike(reader'[r], reader[r])
      /\ \A i \in Piece : done'[i] => done[i]
      /\ \A i \in Piece : done'[i] <=> done[i] /\ i \notin there \ there'
      /\ \A r \in Reader : reader'[r].open <=> reader[r].open /\ reader[r].goal \notin there \ there'
  BY <1>0, Closes
<1>4. Types'
  BY <1>0, <1>2, <1>3 DEF Types
<1>5. Answers'
  BY <1>3 DEF Inv, Answers, Alike
<1>6. Balances'
  <2> SUFFICES ASSUME NEW c \in Chunk PROVE Level(c)'
    BY DEF Balances
  <2> QED BY <1>2, <1>3, TotalStays, LevelStays, Zenon DEF Inv, Balances
<1>7. Heard'
  BY <1>3 DEF Inv, Heard, Pending
<1>8. Channels'
  BY ClosesChannels
<1>9. ClientsAreNotIdle'
  BY <1>1, <1>2, <1>3 DEF ClientsAreNotIdle
<1> QED BY <1>3, <1>4, <1>5, <1>6, <1>7, <1>8, <1>9 DEF Inv

LEMMA PeriodicRequestInv ==
    ASSUME Inv, PeriodicRequest
    PROVE  Inv'
<1>1. there \subseteq Piece
  BY DEF Inv, Types
<1>2. there' \subseteq Piece /\ \A i \in there : prio[i] # Rest => i \in there'
  BY <1>1 DEF PeriodicRequest, Pressed, Picks, Idle
<1> QED BY <1>2, IdleInv DEF PeriodicRequest

LEMMA SetConfInv ==
    ASSUME Inv, SetConf
    PROVE  Inv'
<1>1. there' \subseteq Piece /\ \A i \in there : prio[i] # Rest => i \in there'
  BY DEF Inv, Types, SetConf, Idle
<1> QED BY <1>1, IdleInv DEF SetConf

\* What is left of the channel when its first event was received.
LEMMA Rests ==
    ASSUME Types, torEvent # <<>>, torEvent' = Tail(torEvent)
    PROVE  /\ 1 \in DOMAIN torEvent /\ Head(torEvent) = torEvent[1]
           /\ Head(torEvent) \in EventType /\ torEvent' \in Seq(EventType)
           /\ \A k \in DOMAIN torEvent' : /\ k \in Int /\ k + 1 \in DOMAIN torEvent /\ k + 1 # 1
                                          /\ torEvent'[k] = torEvent[k + 1]
           /\ \A i : Pending("have", i) # {} => \/ Pending("have", i)' # {}
                                                \/ /\ Head(torEvent).type = "have"
                                                   /\ Head(torEvent).index = i
<1>1. /\ 1 \in DOMAIN torEvent /\ Head(torEvent) = torEvent[1]
      /\ Head(torEvent) \in EventType /\ torEvent' \in Seq(EventType)
      /\ \A k \in DOMAIN torEvent' : /\ k \in Int /\ k + 1 \in DOMAIN torEvent /\ k + 1 # 1
                                     /\ torEvent'[k] = torEvent[k + 1]
      /\ \A k \in DOMAIN torEvent \ {1} : k - 1 \in DOMAIN torEvent' /\ (k - 1) + 1 = k
  BY DEF Types
<1>2. ASSUME NEW i, Pending("have", i) # {}, Pending("have", i)' = {}
      PROVE  Head(torEvent).type = "have" /\ Head(torEvent).index = i
  <2>1. PICK k \in DOMAIN torEvent : torEvent[k].type = "have" /\ torEvent[k].index = i
    BY <1>2 DEF Pending
  <2>2. k = 1
    <3> SUFFICES ASSUME k # 1 PROVE FALSE
      OBVIOUS
    <3>1. k - 1 \in DOMAIN torEvent' /\ torEvent'[k - 1] = torEvent[k]
      BY <1>1
    <3> QED BY <1>2, <2>1, <3>1 DEF Pending
  <2> QED BY <1>1, <2>1, <2>2
<1> QED BY <1>1, <1>2

\* The answers that are left are for the same readers.
LEMMA RestAnswers ==
    ASSUME Inv, torEvent # <<>>, torEvent' = Tail(torEvent),
           \A r \in Reader :
               \/ reader'[r].pc = reader[r].pc /\ reader'[r].goal = reader[r].goal
               \/ Head(torEvent).want /\ Head(torEvent).from = r
    PROVE  Answers'
<1>1. /\ 1 \in DOMAIN torEvent /\ Head(torEvent) = torEvent[1]
      /\ \A k \in DOMAIN torEvent' : /\ k \in Int /\ k + 1 \in DOMAIN torEvent /\ k + 1 # 1
                                     /\ torEvent'[k] = torEvent[k + 1]
  BY Rests DEF Inv
<1>2. Answers
  BY DEF Inv
<1> SUFFICES ASSUME NEW k \in DOMAIN torEvent'
             PROVE  LET e == torEvent'[k]
                    IN  /\ e.want => /\ e.type = "request" /\ e.prio = 1 /\ e.from \in Reader
                                     /\ reader'[e.from].pc = "reply"
                                     /\ reader'[e.from].goal = e.index
                        /\ e.type = "request" /\ e.prio = 1 => e.want
                        /\ \A j \in DOMAIN torEvent' :
                              e.want /\ torEvent'[j].want /\ torEvent'[j].from = e.from => j = k
  BY DEF Answers
<1> DEFINE e == torEvent[k + 1]
<1>3. torEvent'[k] = e /\ k + 1 \in DOMAIN torEvent /\ k + 1 # 1
  BY <1>1
<1>4. /\ e.want => /\ e.type = "request" /\ e.prio = 1 /\ e.from \in Reader
                   /\ reader[e.from].pc = "reply" /\ reader[e.from].goal = e.index
      /\ e.type = "request" /\ e.prio = 1 => e.want
      /\ \A j \in DOMAIN torEvent :
            e.want /\ torEvent[j].want /\ torEvent[j].from = e.from => j = k + 1
  BY <1>2, <1>3 DEF Answers
<1> HIDE DEF e
<1>5. e.want => ~(Head(torEvent).want /\ Head(torEvent).from = e.from)
  BY <1>1, <1>3, <1>4
<1>6. e.want => reader'[e.from].pc = "reply" /\ reader'[e.from].goal = e.index
  BY <1>4, <1>5
<1>7. ASSUME NEW j \in DOMAIN torEvent', e.want, torEvent'[j].want, torEvent'[j].from = e.from
      PROVE  j = k
  <2>1. j + 1 = k + 1 /\ j \in Int /\ k \in Int
    BY <1>1, <1>4, <1>7
  <2> QED BY <2>1
<1> QED BY <1>3, <1>4, <1>6, <1>7

LEMMA HavePieceInv ==
    ASSUME Inv, HavePiece
    PROVE  Inv'
<1> DEFINE e == Head(torEvent)
           i == e.index
<1>0. Types /\ Shapes /\ ClientsAreNotIdle
  BY DEF Inv
<1>1. /\ torEvent # <<>> /\ torEvent' = Tail(torEvent) /\ e.type = "have"
      /\ UNCHANGED complete /\ UNCHANGED haves /\ CloseDone({i})
      /\ there' = there \ (Idle(there, prio) \cap {i})
      /\ prio' = [prio EXCEPT ![i] = IF i \in there' THEN @ ELSE Rest]
  BY DEF HavePiece, Handle
<1>2. /\ e \in EventType /\ torEvent' \in Seq(EventType)
      /\ \A j : Pending("have", j) # {} /\ j # i => Pending("have", j)' # {}
  BY <1>0, <1>1, Rests
<1>3. i \in Piece
  BY <1>2 DEF EventType
<1> HIDE DEF e, i
<1>4. prio' = prio
  <2>1. prio \in [Piece -> [Prio -> Nat]]
    BY <1>0 DEF Types
  <2>2. i \notin there' => prio[i] = Rest
    BY <1>0, <1>1, <1>3 DEF ClientsAreNotIdle, Idle
  <2> QED BY <1>1, <2>1, <2>2
<1>5. /\ reader' \in [Reader -> ReaderType] /\ done' \in [Piece -> BOOLEAN]
      /\ Shapes'
      /\ \A r \in Reader : Alike(reader'[r], reader[r])
      /\ \A j \in Piece : done'[j] <=> done[j] /\ j # i
      /\ \A r \in Reader : reader'[r].open <=> reader[r].open /\ reader[r].goal # i
  BY <1>0, <1>1, Closes
<1>6. Types'
  BY <1>0, <1>1, <1>2, <1>4, <1>5, Zenon DEF Types
<1>7. Answers'
  BY <1>1, <1>5, RestAnswers DEF Alike
<1>8. Balances'
  <2> SUFFICES ASSUME NEW c \in Chunk PROVE Level(c)'
    BY DEF Balances
  <2>1. Total(c)' = Total(c) /\ Cardinality(Asking(c))' = Cardinality(Asking(c))
    BY <1>5, TotalStays
  <2>2. One(Is(Head(torEvent), "request", c)) = 0 /\ One(Is(Head(torEvent), "cancel", c)) = 0
    BY <1>1 DEF Is, One, e
  <2>3. prio[c[1]][c[2]] \in Nat /\ Cardinality(Asking(c)) \in Nat
    BY <1>0, TotalIsNat DEF Types, Chunk
  <2>4. /\ prio'[c[1]][c[2]] = prio[c[1]][c[2]] + One(Is(Head(torEvent), "request", c))
                                                - One(Is(Head(torEvent), "cancel", c))
        /\ Cardinality(Asking(c))' = Cardinality(Asking(c)) - One(Is(Head(torEvent), "request", c))
    BY <1>4, <2>1, <2>2, <2>3
  <2>5. Level(c)
    BY DEF Inv, Balances
  <2> QED BY <1>0, <1>1, <1>6, <2>1, <2>4, <2>5, LevelReceived
<1>9. Heard'
  BY <1>1, <1>2, <1>5 DEF Inv, Heard
<1>10. Channels'
  BY <1>1, ClosesChannels
<1>11. ClientsAreNotIdle'
  BY <1>0, <1>1, <1>4, <1>5 DEF ClientsAreNotIdle, Idle
<1> QED BY <1>5, <1>6, <1>7, <1>8, <1>9, <1>10, <1>11 DEF Inv

LEMMA CancelPieceInv ==
    ASSUME Inv, CancelPiece
    PROVE  Inv'
<1> DEFINE e == Head(torEvent)
           i == e.index
           p == e.prio
           d == <<i, p>>
           rest == [prio[i] EXCEPT ![p] = @ - 1]
           last == {j \in {i} : rest = Rest}
<1>0. Types /\ Shapes /\ ClientsAreNotIdle /\ Balances
  BY DEF Inv
<1>1. /\ torEvent # <<>> /\ torEvent' = Tail(torEvent) /\ e.type = "cancel"
      /\ UNCHANGED complete /\ UNCHANGED haves
      /\ ~(i \notin there \/ prio[i][p] = 0) =>
            /\ prio' = [prio EXCEPT ![i] = rest]
            /\ there' = there \ last
            /\ CloseDone(last)
  BY DEF CancelPiece, Handle
<1>2. /\ e \in EventType /\ torEvent' \in Seq(EventType) /\ e = torEvent[1]
      /\ \A j : Pending("have", j) # {} => Pending("have", j)' # {}
  BY <1>0, <1>1, Rests
<1>3. i \in Piece /\ p \in Prio /\ d \in Chunk /\ d[1] = i /\ d[2] = p
  BY <1>2 DEF EventType, Chunk
<1>4. prio \in [Piece -> [Prio -> Nat]] /\ prio[i] \in [Prio -> Nat] /\ prio[i][p] \in Nat
  BY <1>0, <1>3 DEF Types
<1> HIDE DEF e, i, p, d
<1>5. prio[i][p] >= 1
  <2>1. 1 \in 0 .. Len(torEvent)
    BY <1>0, <1>1 DEF Types
  <2>2. prio[i][p] + Count(torEvent, 1, "request", d) >= Count(torEvent, 1, "cancel", d)
    BY <1>0, <1>3, <2>1 DEF Balances, Level, Ordered
  <2>3. ~Is(e, "request", d) /\ Is(e, "cancel", d)
    BY <1>1, <1>3 DEF Is, i, p
  <2>4. Count(torEvent, 0 + 1, "request", d) = 0 /\ Count(torEvent, 0 + 1, "cancel", d) = 1
    <3>1. /\ Count(torEvent, 0 + 1, "request", d)
                = Count(torEvent, 0, "request", d) + One(Is(torEvent[0 + 1], "request", d))
          /\ Count(torEvent, 0 + 1, "cancel", d)
                = Count(torEvent, 0, "cancel", d) + One(Is(torEvent[0 + 1], "cancel", d))
          /\ Count(torEvent, 0, "request", d) = 0 /\ Count(torEvent, 0, "cancel", d) = 0
      BY CountGrows
    <3> QED BY <1>2, <2>3, <3>1 DEF One
  <2> QED BY <1>4, <2>2, <2>4
<1>6. i \in there
  BY <1>0, <1>3, <1>4, <1>5 DEF ClientsAreNotIdle, Rest
<1>7. prio' = [prio EXCEPT ![i] = rest] /\ there' = there \ last /\ CloseDone(last)
  BY <1>1, <1>4, <1>5, <1>6
<1>8. /\ rest \in [Prio -> Nat] /\ rest[p] = prio[i][p] - 1
      /\ \A y \in Prio \ {p} : rest[y] = prio[i][y]
  BY <1>3, <1>4, <1>5
<1>9. last = IF rest = Rest THEN {i} ELSE {}
  OBVIOUS
<1> HIDE DEF rest, last
<1>10. /\ reader' \in [Reader -> ReaderType] /\ done' \in [Piece -> BOOLEAN]
       /\ Shapes'
       /\ \A r \in Reader : Alike(reader'[r], reader[r])
       /\ \A j \in Piece : done'[j] <=> done[j] /\ j \notin last
  BY <1>0, <1>7, Closes
<1>11. prio' \in [Piece -> [Prio -> Nat]]
  BY <1>4, <1>7, <1>8, Zenon
<1>12. Types'
  BY <1>0, <1>1, <1>2, <1>7, <1>10, <1>11 DEF Types
<1>13. Answers'
  BY <1>1, <1>10, RestAnswers DEF Alike
<1>14. Balances'
  <2> SUFFICES ASSUME NEW c \in Chunk PROVE Level(c)'
    BY DEF Balances
  <2>1. Total(c)' = Total(c) /\ Cardinality(Asking(c))' = Cardinality(Asking(c))
    BY <1>10, TotalStays
  <2>2. Is(e, "cancel", c) <=> c = d
    BY <1>1, <1>3, EventIs DEF i, p
  <2>3. c[1] \in Piece /\ c[2] \in Prio /\ (c = d <=> c[1] = i /\ c[2] = p)
    BY <1>3 DEF Chunk, d
  <2>4. One(Is(e, "request", c)) = 0
    BY <1>1 DEF Is, One
  <2>5. prio[c[1]][c[2]] \in Nat /\ Cardinality(Asking(c)) \in Nat
    BY <1>4, <2>3, TotalIsNat
  <2>6. prio'[c[1]][c[2]] = prio[c[1]][c[2]] - One(Is(e, "cancel", c))
    <3>1. CASE c = d
      <4>1. One(Is(e, "cancel", c)) = 1
        BY <2>2, <3>1 DEF One
      <4> QED BY <1>3, <1>4, <1>7, <1>8, <2>3, <3>1, <4>1
    <3>2. CASE c # d
      <4>1. One(Is(e, "cancel", c)) = 0
        BY <2>2, <3>2 DEF One
      <4>2. prio'[c[1]][c[2]] = prio[c[1]][c[2]]
        <5>1. CASE c[1] = i
          BY <1>3, <1>4, <1>7, <1>8, <2>3, <3>2, <5>1
        <5>2. CASE c[1] # i
          BY <1>4, <1>7, <2>3, <5>2
        <5> QED BY <5>1, <5>2
      <4> QED BY <2>5, <4>1, <4>2
    <3> QED BY <3>1, <3>2
  <2>7. One(Is(e, "cancel", c)) \in Int
    BY DEF One
  <2>8. /\ prio'[c[1]][c[2]] = prio[c[1]][c[2]] + One(Is(e, "request", c))
                                                - One(Is(e, "cancel", c))
        /\ Cardinality(Asking(c))' = Cardinality(Asking(c)) - One(Is(e, "request", c))
    BY <2>1, <2>4, <2>5, <2>6, <2>7
  <2>9. Level(c)
    BY <1>0 DEF Balances
  <2> QED BY <1>0, <1>1, <1>12, <2>1, <2>8, <2>9, LevelReceived, Zenon DEF e
<1>15. Heard'
  BY <1>1, <1>2, <1>10 DEF Inv, Heard
<1>16. Channels'
  BY <1>7, ClosesChannels
<1>17. ClientsAreNotIdle'
  <2> SUFFICES ASSUME NEW j \in Piece, prio'[j] # Rest \/ done'[j]
               PROVE  j \in there' /\ prio'[j] # Rest
    BY DEF ClientsAreNotIdle
  <2>1. CASE j = i
    BY <1>3, <1>4, <1>6, <1>7, <1>9, <1>10, <2>1
  <2>2. CASE j # i
    BY <1>0, <1>4, <1>7, <1>9, <1>10, <2>2 DEF ClientsAreNotIdle
  <2> QED BY <2>1, <2>2
<1> QED BY <1>10, <1>12, <1>13, <1>14, <1>15, <1>16, <1>17 DEF Inv

\* A reader that got its answer goes on.
LEMMA Answered ==
    ASSUME NEW s \in ReaderType, Shape(s), s.pc = "reply", s.goal \in Piece,
           NEW u \in ReaderType, u.goal = s.goal, u.add = s.add, u.old = s.old,
           u.requested = s.requested \cup {<<s.goal, 1>>}, NEW t, t = Continue(u)
    PROVE  /\ t \in ReaderType /\ Shape(t) /\ t.pc # "reply"
           /\ t.goal = s.goal /\ t.open = u.open
           /\ \A c \in Chunk : Weight(t, c) = Weight(s, c)
<1> DEFINE d == <<s.goal, 1>>
<1>1. d \in Chunk /\ d[1] = s.goal /\ d[2] = 1
  BY DEF Chunk, Prio
<1>2. Lists(s) /\ d \notin s.requested /\ \A k \in DOMAIN s.add : s.add[k][1] # s.goal
  BY <1>1 DEF Shape
<1>3. u.requested = s.requested \cup {d}
  OBVIOUS
<1> HIDE DEF d
<1>5. Lists(u)
  <2>1. /\ \A x \in u.requested : \A k \in DOMAIN u.add : x[1] # u.add[k][1]
        /\ \A x \in u.requested : x[2] = 1 <=> x[1] = u.goal
    BY <1>1, <1>2, <1>3 DEF Lists
  <2>2. <<u.goal, 1>> \in u.requested
    BY <1>3 DEF d
  <2> QED BY <1>2, <1>3, <2>1, <2>2 DEF Lists
<1>6. /\ t \in ReaderType /\ Shape(t) /\ t.pc # "reply" /\ t.goal = s.goal /\ t.open = u.open
      /\ t.old = s.old /\ t.requested = s.requested \cup {d}
  BY <1>3, <1>5, Continues
<1>7. ASSUME NEW c \in Chunk
      PROVE  Weight(t, c) = Weight(s, c)
  <2>1. Waits(s, c) <=> c = d
    BY DEF Waits, d
  <2>2. ~Waits(t, c)
    BY <1>6 DEF Waits
  <2>3. /\ One(c \in t.requested) = One(c \in s.requested) + One(Waits(s, c))
        /\ One(c \in s.requested) \in Int /\ One(Waits(s, c)) \in Int
    BY <1>2, <1>6, <2>1 DEF One
  <2>4. One(c \in t.old) = One(c \in s.old) /\ One(c \in s.old) \in Int /\ One(Waits(t, c)) = 0
    BY <1>6, <2>2 DEF One
  <2> QED BY <2>3, <2>4 DEF Weight
<1> QED BY <1>6, <1>7

LEMMA RequestPieceInv ==
    ASSUME Inv, RequestPiece
    PROVE  Inv'
<1> DEFINE e == Head(torEvent)
           i == e.index
           p == e.prio
           d == <<i, p>>
           f == e.from
           o == done[i] \/ Wanted(e)
           s == reader[f]
           t == Continue([s EXCEPT !.requested = s.requested \cup {d}, !.open = o])
<1>0. Types /\ Shapes /\ ClientsAreNotIdle /\ Balances /\ Answers
  BY DEF Inv
<1>1. /\ torEvent # <<>> /\ torEvent' = Tail(torEvent) /\ e.type = "request"
      /\ UNCHANGED complete /\ UNCHANGED haves
      /\ prio' = [prio EXCEPT ![i][p] = @ + 1] /\ done' = [done EXCEPT ![i] = o]
      /\ there' \in Pressed(there \cup {i}, prio')
      /\ ~e.want => reader' = reader
      /\ e.want => reader' = [reader EXCEPT ![f] = t]
  BY DEF RequestPiece, Handle, AddPiece
<1>2. /\ e \in EventType /\ torEvent' \in Seq(EventType) /\ e = torEvent[1]
      /\ 1 \in DOMAIN torEvent
      /\ \A j : Pending("have", j) # {} => Pending("have", j)' # {}
  BY <1>0, <1>1, Rests
<1>3. i \in Piece /\ p \in Prio /\ d \in Chunk /\ d[1] = i /\ d[2] = p /\ e.want \in BOOLEAN
  BY <1>2 DEF EventType, Chunk
<1>4. /\ e.want => p = 1 /\ f \in Reader /\ s.pc = "reply" /\ s.goal = i
      /\ p = 1 => e.want
  BY <1>0, <1>1, <1>2 DEF Answers
<1>5. /\ o \in BOOLEAN /\ (o => done[i] \/ i \notin complete) /\ (done[i] => o)
      /\ done \in [Piece -> BOOLEAN]
      /\ o /\ ~done[i] => e.want
  BY <1>0, <1>3 DEF Types, Wanted
<1>6. prio \in [Piece -> [Prio -> Nat]] /\ prio[i] \in [Prio -> Nat] /\ prio[i][p] \in Nat
  BY <1>0, <1>3, Zenon DEF Types
<1> HIDE DEF e, i, p, d, f, o, s
<1>7. /\ prio' \in [Piece -> [Prio -> Nat]] /\ prio'[i][p] = prio[i][p] + 1
      /\ \A y \in Prio \ {p} : prio'[i][y] = prio[i][y]
      /\ \A j \in Piece \ {i} : prio'[j] = prio[j]
  BY <1>1, <1>3, <1>6
<1>8. /\ done' \in [Piece -> BOOLEAN] /\ done'[i] = o
      /\ \A j \in Piece \ {i} : done'[j] = done[j]
  BY <1>1, <1>3, <1>5
<1>9. prio'[i] # Rest
  BY <1>3, <1>6, <1>7 DEF Rest
<1>10. there' \subseteq Piece /\ \A j \in there \cup {i} : prio'[j] # Rest => j \in there'
  BY <1>0, <1>1, <1>3 DEF Pressed, Idle, Types
<1>11. e.want => /\ t \in ReaderType /\ Shape(t) /\ t.pc # "reply" /\ t.goal = i /\ t.open = o
                 /\ \A c \in Chunk : Weight(t, c) = Weight(s, c)
  <2> SUFFICES ASSUME e.want
               PROVE  /\ t \in ReaderType /\ Shape(t) /\ t.pc # "reply" /\ t.goal = i /\ t.open = o
                      /\ \A c \in Chunk : Weight(t, c) = Weight(s, c)
    OBVIOUS
  <2>1. s \in ReaderType /\ Shape(s)
    BY <1>0, <1>4 DEF Types, Shapes, s
  <2>2. s.pc = "reply" /\ s.goal = i /\ d = <<s.goal, 1>>
    BY <1>4 DEF d
  <2> DEFINE u == [s EXCEPT !.requested = s.requested \cup {d}, !.open = o]
  <2>3. t = Continue(u)
    OBVIOUS
  <2>4. /\ u \in ReaderType /\ u.goal = s.goal /\ u.add = s.add /\ u.old = s.old
        /\ u.requested = s.requested \cup {d} /\ u.open = o
    BY <1>3, <1>5, <2>1, Zenon DEF ReaderType
  <2> HIDE DEF t, u
  <2> QED BY <1>3, <2>1, <2>2, <2>3, <2>4, Answered
<1> HIDE DEF t
<1>12. /\ reader' \in [Reader -> ReaderType] /\ reader \in [Reader -> ReaderType]
       /\ e.want => reader'[f] = t
       /\ \A r \in Reader : (e.want /\ r = f) \/ reader'[r] = reader[r]
  BY <1>0, <1>1, <1>4, <1>11, Zenon DEF Types
<1>13. Types'
  BY <1>0, <1>1, <1>2, <1>7, <1>8, <1>10, <1>12 DEF Types
<1>14. Shapes'
  BY <1>0, <1>11, <1>12 DEF Shapes
<1>15. Answers'
  BY <1>1, <1>12, RestAnswers DEF e, f
<1>16. Balances'
  <2> SUFFICES ASSUME NEW c \in Chunk PROVE Level(c)'
    BY DEF Balances
  <2>1. Is(e, "request", c) <=> c = d
    BY <1>1, <1>3, EventIs DEF i, p
  <2>2. c[1] \in Piece /\ c[2] \in Prio /\ (c = d <=> c[1] = i /\ c[2] = p)
    BY <1>3 DEF Chunk, d
  <2>3. One(Is(e, "cancel", c)) = 0 /\ One(Is(e, "request", c)) = One(c = d)
    BY <1>1, <2>1 DEF Is, One
  <2>4. /\ prio[c[1]][c[2]] \in Nat /\ Cardinality(Asking(c)) \in Nat
        /\ Total(c) \in Nat /\ One(c = d) \in Int
    BY <1>6, <2>2, TotalIsNat DEF One
  <2>5. prio'[c[1]][c[2]] = prio[c[1]][c[2]] + One(c = d)
    <3>1. CASE c = d
      BY <1>7, <2>2, <3>1 DEF One
    <3>2. CASE c # d
      <4>1. prio'[c[1]][c[2]] = prio[c[1]][c[2]]
        <5>1. CASE c[1] = i
          BY <1>7, <2>2, <3>2, <5>1
        <5>2. CASE c[1] # i
          BY <1>7, <2>2, <5>2
        <5> QED BY <5>1, <5>2
      <4> QED BY <2>4, <3>2, <4>1 DEF One
    <3> QED BY <3>1, <3>2
  <2>6. /\ Total(c)' = Total(c)
        /\ c[2] = 1 => Cardinality(Asking(c))' = Cardinality(Asking(c)) - One(c = d)
    <3>1. CASE ~e.want
      <4>1. \A r \in Reader : Alike(reader'[r], reader[r])
        BY <1>12, <3>1 DEF Alike
      <4>2. Total(c)' = Total(c) /\ Cardinality(Asking(c))' = Cardinality(Asking(c))
        BY <4>1, TotalStays
      <4>3. c[2] = 1 => One(c = d) = 0
        BY <1>3, <1>4, <3>1 DEF One
      <4> QED BY <2>4, <4>2, <4>3
    <3>2. CASE e.want
      <4>1. /\ f \in Reader /\ \A x \in Reader \ {f} : reader'[x] = reader[x]
            /\ reader'[f] = t /\ reader[f] = s
        BY <1>4, <1>12, <3>2 DEF s
      <4>2. /\ Total(c)' = Total(c) + Weight(t, c) - Weight(s, c)
            /\ Cardinality(Asking(c))' = Cardinality(Asking(c))
                   + One(Waits(t, c)) - One(Waits(s, c))
        BY <4>1, TotalMoves
      <4>3. Weight(t, c) = Weight(s, c) /\ Weight(s, c) \in Int
        BY <1>11, <3>2 DEF Weight, One
      <4>4. One(Waits(t, c)) = 0
        BY <1>11, <3>2 DEF Waits, One
      <4>5. One(Waits(s, c)) = One(c = d)
        BY <1>4, <3>2 DEF Waits, One, d
      <4> QED BY <2>4, <4>2, <4>3, <4>4, <4>5
    <3> QED BY <1>3, <3>1, <3>2
  <2>7. /\ prio'[c[1]][c[2]] = prio[c[1]][c[2]] + One(Is(e, "request", c))
                                                - One(Is(e, "cancel", c))
        /\ c[2] = 1 => Cardinality(Asking(c))'
                          = Cardinality(Asking(c)) - One(Is(e, "request", c))
    BY <2>3, <2>4, <2>5, <2>6
  <2>8. Level(c)
    BY <1>0 DEF Balances
  <2> QED BY <1>0, <1>1, <1>13, <2>6, <2>7, <2>8, LevelReceived DEF e
<1>17. Heard'
  <2> SUFFICES ASSUME NEW j \in Piece, done'[j], j \in complete
               PROVE  haves[j] > 0 \/ Pending("have", j)' # {}
    BY <1>1 DEF Heard
  <2>1. done[j]
    BY <1>5, <1>8
  <2> QED BY <1>2, <2>1 DEF Inv, Heard
<1>18. Channels'
  <2> SUFFICES ASSUME NEW r \in Reader, reader'[r].open PROVE done'[reader'[r].goal]
    BY DEF Channels
  <2>1. CASE e.want /\ r = f
    BY <1>8, <1>11, <1>12, <2>1
  <2>2. CASE reader'[r] = reader[r]
    <3>1. done[reader[r].goal]
      BY <2>2 DEF Inv, Channels
    <3>2. reader[r].goal \in Piece
      <4>1. reader[r] \in ReaderType /\ <<reader[r].goal, 1>> \in reader[r].requested
        BY <1>0, <2>2 DEF Types, Shapes, Shape, Lists
      <4>2. <<reader[r].goal, 1>> \in Chunk
        BY <4>1 DEF ReaderType
      <4> QED BY <4>2 DEF Chunk
    <3> QED BY <1>5, <1>8, <2>2, <3>1, <3>2
  <2> QED BY <1>12, <2>1, <2>2
<1>19. ClientsAreNotIdle'
  <2> SUFFICES ASSUME NEW j \in Piece, prio'[j] # Rest \/ done'[j]
               PROVE  j \in there' /\ prio'[j] # Rest
    BY DEF ClientsAreNotIdle
  <2>1. CASE j = i
    BY <1>9, <1>10, <2>1
  <2>2. CASE j # i
    BY <1>0, <1>7, <1>8, <1>10, <2>2 DEF ClientsAreNotIdle
  <2> QED BY <2>1, <2>2
<1> QED BY <1>13, <1>14, <1>15, <1>16, <1>17, <1>18, <1>19 DEF Inv

-----------------------------------------------------------------------------
(* The theorems.                                                           *)

LEMMA InitInv ==
    ASSUME Init
    PROVE  Inv
<1>1. Fresh \in ReaderType /\ Shape(Fresh)
  <2>1. /\ Fresh \in ReaderType /\ Fresh.pc = "idle" /\ Fresh.add = <<>>
        /\ Fresh.old = {} /\ Fresh.requested = {} /\ ~Fresh.open
    BY DEF Fresh, ReaderType
  <2>2. DOMAIN Fresh.add = {}
    BY <2>1
  <2>3. Lists(Fresh)
    BY <2>1, <2>2 DEF Lists
  <2> QED BY <2>1, <2>3 DEF Shape
<1>2. Types /\ Shapes /\ Answers /\ Heard /\ Channels /\ ClientsAreNotIdle
  <2>1. Rest \in [Prio -> Nat]
    BY DEF Rest
  <2>2. Types
    BY <1>1, <2>1 DEF Init, Types
  <2>3. Shapes
    BY <1>1 DEF Init, Shapes
  <2>4. Answers
    BY DEF Init, Answers
  <2>5. Heard /\ ClientsAreNotIdle
    BY DEF Init, Heard, ClientsAreNotIdle
  <2>6. Channels
    BY DEF Init, Channels, Fresh
  <2> QED BY <2>2, <2>3, <2>4, <2>5, <2>6
<1>3. ASSUME NEW c \in Chunk
      PROVE  Level(c)
  <2>1. Holding(c) = {} /\ Dropping(c) = {} /\ Asking(c) = {}
    BY DEF Init, Fresh, Holding, Dropping, Asking
  <2>2. prio[c[1]][c[2]] = 0
    BY DEF Init, Rest, Chunk
  <2>3. /\ Len(torEvent) = 0
        /\ Count(torEvent, 0, "request", c) = 0 /\ Count(torEvent, 0, "cancel", c) = 0
    BY CountGrows DEF Init
  <2>4. Sum("request", c) = 0 /\ Sum("cancel", c) = 0
    BY <2>3 DEF Sum
  <2>5. /\ Cardinality(Holding(c)) = 0 /\ Cardinality(Dropping(c)) = 0
        /\ Cardinality(Asking(c)) = 0
    BY <2>1, FS_EmptySet
  <2>6. Balance(c) /\ Awaited(c)
    BY <2>2, <2>4, <2>5 DEF Balance, Awaited
  <2>7. \A m \in 0 .. Len(torEvent) : m = 0
    BY <2>3
  <2>8. Ordered(c)
    BY <2>2, <2>3, <2>7 DEF Ordered
  <2> QED BY <2>6, <2>8 DEF Level
<1> QED BY <1>2, <1>3 DEF Inv, Balances

LEMMA StutterInv ==
    ASSUME Inv, UNCHANGED vars
    PROVE  Inv'
<1>0. /\ UNCHANGED complete /\ UNCHANGED haves /\ UNCHANGED torEvent /\ UNCHANGED there
      /\ UNCHANGED prio /\ UNCHANGED done /\ UNCHANGED reader
  BY DEF vars
<1>1. Types' /\ Shapes' /\ Answers' /\ Heard' /\ Channels' /\ ClientsAreNotIdle'
  BY <1>0, Zenon DEF Inv, Types, Shapes, Answers, Heard, Pending, Channels, ClientsAreNotIdle
<1>2. Balances'
  <2> SUFFICES ASSUME NEW c \in Chunk PROVE Level(c)'
    BY DEF Balances
  <2>1. \A r \in Reader : Alike(reader'[r], reader[r])
    BY <1>0 DEF Alike
  <2> QED BY <1>0, <2>1, TotalStays, LevelStays, Zenon DEF Inv, Balances
<1> QED BY <1>1, <1>2 DEF Inv

LEMMA NextInv ==
    ASSUME Inv, [Next]_vars
    PROVE  Inv'
<1>1. ASSUME NEW r \in Reader,
             Request(r) \/ RequestSend(r) \/ RequestDel(r) \/ ReadAt(r) \/ Cancel(r)
      PROVE  Inv'
  BY <1>1, RequestInv, RequestSendInv, RequestDelInv, ReadAtInv, CancelInv
<1>2. ASSUME NEW r \in Reader, NEW i \in Piece, Read(r, i)
      PROVE  Inv'
  BY <1>2, ReadInv
<1>3. ASSUME RequestPiece \/ CancelPiece \/ HavePiece \/ PeriodicRequest \/ SetConf
      PROVE  Inv'
  BY <1>3, RequestPieceInv, CancelPieceInv, HavePieceInv, PeriodicRequestInv, SetConfInv
<1>4. ASSUME NEW i \in Piece, Finalise(i) \/ Have(i) \/ Expire(i)
      PROVE  Inv'
  BY <1>4, FinaliseInv, HaveInv, ExpireInv
<1>5. CASE UNCHANGED vars
  BY <1>5, StutterInv
<1> QED BY <1>1, <1>2, <1>3, <1>4, <1>5 DEF Next

LEMMA InvHolds == Spec => []Inv
<1>1. Init => Inv
  BY InitInv
<1>2. Inv /\ [Next]_vars => Inv'
  BY NextInv
<1> QED BY <1>1, <1>2, PTL DEF Spec

LEMMA InvBalanced == Inv => RequestsBalanced
<1> SUFFICES ASSUME Inv, NEW c \in Piece \X Prio
             PROVE  prio[c[1]][c[2]] + OnTheirWay("request", c) - OnTheirWay("cancel", c)
                       = Cardinality(Holding(c)) + Cardinality(Dropping(c))
                         + Cardinality(Asking(c))
  BY DEF RequestsBalanced, Holding, Dropping, Asking
<1>1. Balance(c)
  BY DEF Inv, Balances, Level, Chunk
<1>2. DOMAIN torEvent = 1 .. Len(torEvent)
  BY DEF Inv, Types
<1>3. ASSUME NEW type
      PROVE  OnTheirWay(type, c) = Sum(type, c)
  <2>1. {k \in Pending(type, c[1]) : torEvent[k].prio = c[2]}
           = First(torEvent, Len(torEvent), type, c)
    BY <1>2 DEF Pending, First, Is
  <2> QED BY <2>1, Zenon DEF OnTheirWay, Sum, Count
<1> QED BY <1>1, <1>3 DEF Balance

LEMMA InvWakeup == Inv => NoLostWakeup
<1> SUFFICES ASSUME Inv, NEW r \in Reader, reader[r].open
             PROVE  LET i == reader[r].goal
                    IN  /\ i \in there /\ prio[i][1] > 0 /\ done[i]
                        /\ i \in complete => haves[i] > 0 \/ Pending("have", i) # {}
  BY DEF NoLostWakeup
<1> DEFINE i == reader[r].goal
           c == <<i, 1>>
<1>1. c \in reader[r].requested /\ reader[r].requested \subseteq Chunk
  BY DEF Inv, Types, ReaderType, Shapes, Shape, Lists
<1>2. c \in Chunk /\ i \in Piece /\ c[1] = i /\ c[2] = 1
  BY <1>1 DEF Chunk
<1>3. done[i]
  BY DEF Inv, Channels
<1> HIDE DEF i, c
<1>4. i \in there /\ (i \in complete => haves[i] > 0 \/ Pending("have", i) # {})
  BY <1>2, <1>3 DEF Inv, ClientsAreNotIdle, Heard
<1>5. prio[i][1] > 0
  <2> DEFINE R == Sum("request", c)
             C == Sum("cancel", c)
             h == Cardinality(Holding(c))
             d == Cardinality(Dropping(c))
             a == Cardinality(Asking(c))
             n == prio[i][1]
  <2>1. n + R - C = h + d + a /\ R = a
    BY <1>2, Zenon DEF Inv, Balances, Level, Balance, Awaited
  <2>2. R \in Nat /\ C \in Nat /\ n \in Nat
    <3>1. Len(torEvent) \in Nat /\ prio[i][1] \in Nat
      BY <1>2 DEF Inv, Types, Prio
    <3> QED BY <3>1, CountIsNat DEF Sum
  <2>3. h \in Nat /\ d \in Nat /\ a \in Nat /\ h # 0
    <3>1. IsFiniteSet(Holding(c)) /\ IsFiniteSet(Dropping(c)) /\ IsFiniteSet(Asking(c))
      BY FS_Subset, SizesAssumption DEF Holding, Dropping, Asking
    <3>2. Holding(c) # {}
      BY <1>1 DEF Holding
    <3> QED BY <3>1, <3>2, FS_CardinalityType, FS_EmptySet
  <2> HIDE DEF R, C, h, d, a, n
  <2>4. n = h + d + C
    BY <2>1, <2>2, <2>3
  <2>5. n > 0
    BY <2>2, <2>3, <2>4
  <2> QED BY <2>5 DEF n
<1> QED BY <1>3, <1>4, <1>5 DEF i

(* However readers read, seek and close, whichever pieces are complete or  *)
(* evicted meanwhile, and in whichever order the torrent gets to their     *)
(* events, the lists of priorities that Requested keeps are those of what  *)
(* the readers requested.                                                  *)
THEOREM ReaderRequestsBalanced == Spec => []RequestsBalanced
BY InvHolds, InvBalanced, PTL

(* A reader that waits on a channel is woken: its piece is wanted, and if  *)
(* the piece is complete then a TorHave is yet to reach the torrent, which *)
(* closes the channel.                                                     *)
THEOREM ReaderNoLostWakeup == Spec => []NoLostWakeup
BY InvHolds, InvWakeup, PTL

(* DelIdlePiece deletes no piece that a client asked for.                  *)
THEOREM ReaderClientsAreNotIdle == Spec => []ClientsAreNotIdle
<1>1. Inv => ClientsAreNotIdle
  BY DEF Inv
<1> QED BY <1>1, InvHolds, PTL
=============================================================================
