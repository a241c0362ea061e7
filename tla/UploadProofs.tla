---------------------------- MODULE UploadProofs ----------------------------
(***************************************************************************)
(* numUnchoking is exact, and a peer that speaks the Fast extension has    *)
(* every request it made in exactly one place until it is answered, for    *)
(* any number of peers, any capacity of their writers and any behaviour of *)
(* the remote ends.                                                        *)
(***************************************************************************)
EXTENDS Upload, FiniteSetTheorems, TLAPS

Types ==
    /\ status \in [Peer -> {"running", "leaving", "gone"}]
    /\ amUnchoking \in [Peer -> BOOLEAN]
    /\ numUnchoking \in Int

Counted == {p \in Peer : amUnchoking[p] /\ status[p] # "gone"}
Inv == Types /\ UnchokingExact

\* What numUnchoking must change by when a flag does.
Difference(before, after) == IF before = after THEN 0 ELSE IF after THEN 1 ELSE -1

\* Only the peer p, which has not returned, changes its flag.
LEMMA FlagChanges ==
    ASSUME Inv, NEW p \in Peer, status[p] # "gone", NEW b \in BOOLEAN,
           amUnchoking' = [amUnchoking EXCEPT ![p] = b],
           numUnchoking' = numUnchoking + Difference(amUnchoking[p], b),
           Types', status'[p] # "gone", \A q \in Peer \ {p} : status'[q] = status[q]
    PROVE  Inv'
<1> USE UploadAssumption
<1>1. IsFiniteSet(Counted) /\ Cardinality(Counted) \in Nat
  <2>1. IsFiniteSet(Counted)
    BY FS_Subset DEF Counted
  <2> QED BY <2>1, FS_CardinalityType
<1>2. numUnchoking = Cardinality(Counted)
  BY DEF Inv, UnchokingExact, Counted
<1>3. CASE amUnchoking[p] = b
  <2>1. Counted' = Counted
    BY <1>3 DEF Counted, Inv, Types
  <2>2. numUnchoking' = numUnchoking
    BY <1>3 DEF Difference, Inv, Types
  <2> QED BY <1>2, <2>1, <2>2, Zenon DEF Inv, UnchokingExact, Counted
<1>4. CASE ~amUnchoking[p] /\ b
  <2>1. Counted' = Counted \cup {p} /\ p \notin Counted
    BY <1>4 DEF Counted, Inv, Types
  <2>2. Cardinality(Counted') = Cardinality(Counted) + 1
    BY <1>1, <2>1, FS_AddElement, Zenon
  <2>3. numUnchoking' = numUnchoking + 1
    BY <1>4, Zenon DEF Difference
  <2> QED BY <1>2, <2>2, <2>3 DEF Inv, UnchokingExact, Counted
<1>5. CASE amUnchoking[p] /\ ~b
  <2>1. Counted' = Counted \ {p} /\ p \in Counted
    BY <1>5 DEF Counted, Inv, Types
  <2>2. Cardinality(Counted') = Cardinality(Counted) - 1
    BY <1>1, <2>1, FS_RemoveElement, Zenon
  <2>3. numUnchoking' = numUnchoking - 1
    BY <1>5, Zenon DEF Difference, Inv, Types
  <2> QED BY <1>2, <2>2, <2>3 DEF Inv, UnchokingExact, Counted
<1>6. amUnchoking[p] \in BOOLEAN
  BY DEF Inv, Types
<1> QED BY <1>3, <1>4, <1>5, <1>6

\* A step that leaves the flags alone, after which the same peers have
\* returned as before.
LEMMA FlagsStay ==
    ASSUME Inv, UNCHANGED <<amUnchoking, numUnchoking>>, Types',
           \A p \in Peer : (status'[p] = "gone") <=> (status[p] = "gone")
    PROVE  Inv'
<1>1. Counted' = Counted
  BY DEF Counted
<1> QED BY <1>1 DEF Inv, UnchokingExact, Counted, Types

\* Every outcome of unchoke, whatever was written, changes numUnchoking by
\* what the flag changes.
LEMMA UnchokeCounts ==
    ASSUME Types, NEW p \in Peer, NEW want, NEW o \in Unchoke(p, want)
    PROVE  o.unch \in BOOLEAN /\ o.num = Difference(amUnchoking[p], o.unch)
<1> DEFINE w == want /\ interested[p]
<1>1. w \in BOOLEAN /\ amUnchoking[p] \in BOOLEAN
  BY DEF Types
<1>2. CASE w = amUnchoking[p]
  <2>1. o.unch = w /\ o.num = 0
    BY <1>2 DEF Unchoke
  <2> QED BY <1>1, <1>2, <2>1 DEF Difference
<1>3. CASE w # amUnchoking[p]
  <2>1. o \in Changed(p, w)
    BY <1>3 DEF Unchoke
  <2> DEFINE out == IF w THEN <<Sig("unchoke")>>
                         ELSE <<Sig("choke")>> \o Reject(p, requested[p])
             O(k) == [err  |-> ~w /\ k < Len(out),
                      unch |-> IF k = 0 THEN ~w ELSE w,
                      num  |-> IF k = 0 THEN 0 ELSE IF w THEN 1 ELSE -1,
                      ms   |-> SubSeq(out, 1, k),
                      rest |-> IF ~w /\ k = Len(out) THEN <<>> ELSE requested[p]]
  <2>2. PICK k \in Written(p, out) : o = O(k)
    BY <2>1, Zenon DEF Changed
  <2>3. /\ o.unch = IF k = 0 THEN ~w ELSE w
        /\ o.num = IF k = 0 THEN 0 ELSE IF w THEN 1 ELSE -1
    BY <2>2, Zenon
  <2> QED BY <1>1, <1>3, <2>3, Zenon DEF Difference
<1> QED BY <1>2, <1>3

\* A running peer that runs unchoke, and keeps running or leaves.
LEMMA UnchokeInv ==
    ASSUME Inv, NEW p \in Peer, Running(p), NEW want, NEW o \in Unchoke(p, want),
           Apply(p, o), Leave(p) \/ UNCHANGED status
    PROVE  Inv'
<1>1. o.unch \in BOOLEAN /\ o.num = Difference(amUnchoking[p], o.unch)
  BY UnchokeCounts DEF Inv
<1>2. /\ amUnchoking' = [amUnchoking EXCEPT ![p] = o.unch]
      /\ numUnchoking' = numUnchoking + Difference(amUnchoking[p], o.unch)
  BY <1>1 DEF Apply
<1>3. /\ status' \in [Peer -> {"running", "leaving", "gone"}]
      /\ status[p] # "gone" /\ status'[p] # "gone"
      /\ \A q \in Peer \ {p} : status'[q] = status[q]
  BY DEF Inv, Types, Leave, Running
<1>4. amUnchoking' \in [Peer -> BOOLEAN] /\ numUnchoking' \in Int
  BY <1>1, <1>2 DEF Inv, Types, Difference
<1> QED BY <1>1, <1>2, <1>3, <1>4, FlagChanges, Zenon DEF Types

\* A step of a running peer that leaves the flags alone.
LEMMA PeerInv ==
    ASSUME Inv, NEW p \in Peer, Running(p), UNCHANGED <<amUnchoking, numUnchoking>>,
           Leave(p) \/ UNCHANGED status
    PROVE  Inv'
<1>1. Types' /\ \A q \in Peer : (status'[q] = "gone") <=> (status[q] = "gone")
  BY DEF Inv, Types, Leave, Running
<1> QED BY <1>1, FlagsStay

\* The deferred function of Run: an unchoked peer that has returned is not
\* counted any more.
LEMMA ReturnInv == ASSUME Inv, NEW p \in Peer, Return(p) PROVE Inv'
<1> USE UploadAssumption
<1>1. Types'
  BY DEF Return, Inv, Types
<1>2. IsFiniteSet(Counted) /\ Cardinality(Counted) \in Nat
  <2>1. IsFiniteSet(Counted)
    BY FS_Subset DEF Counted
  <2> QED BY <2>1, FS_CardinalityType
<1>3. numUnchoking = Cardinality(Counted)
  BY DEF Inv, UnchokingExact, Counted
<1>4. CASE amUnchoking[p]
  <2>1. Counted' = Counted \ {p} /\ p \in Counted
    BY <1>4 DEF Counted, Return, Inv, Types
  <2>2. Cardinality(Counted') = Cardinality(Counted) - 1
    BY <1>2, <2>1, FS_RemoveElement, Zenon
  <2> QED BY <1>1, <1>3, <1>4, <2>2 DEF Return, Inv, UnchokingExact, Counted
<1>5. CASE ~amUnchoking[p]
  <2>1. Counted' = Counted
    BY <1>5 DEF Counted, Return, Inv, Types
  <2> QED BY <1>1, <1>3, <1>5, <2>1, Zenon DEF Return, Inv, UnchokingExact, Counted
<1> QED BY <1>4, <1>5

\* A step that concerns neither flag nor status.
LEMMA OtherInv ==
    ASSUME Inv, UNCHANGED <<amUnchoking, numUnchoking, status>> PROVE Inv'
BY DEF Inv, Types, UnchokingExact

LEMMA InitInv == ASSUME Init PROVE Inv
<1>1. Counted = {}
  BY DEF Init, Counted
<1>2. Types /\ numUnchoking = 0
  BY DEF Init, Types
<1> QED BY <1>1, <1>2, FS_EmptySet DEF Inv, UnchokingExact, Counted

LEMMA StepInv == ASSUME Inv, [Next]_vars PROVE Inv'
<1>1. CASE Torrent
  BY <1>1, OtherInv, Zenon DEF Torrent, PeerInterested, PeerGoaway, SlowTicker, MaybeUnchoke
<1>2. ASSUME NEW p \in Peer, Messages(p) PROVE Inv'
  <2>1. CASE HandleInterested(p)
    BY <2>1, OtherInv DEF HandleInterested
  <2>2. CASE HandleNotInterested(p)
    <3>1. PICK o \in Unchoke(p, FALSE) : Apply(p, o)
      BY <2>2, Zenon DEF HandleNotInterested
    <3>2. Running(p) /\ UNCHANGED status
      BY <2>2 DEF HandleNotInterested, Take
    <3> QED BY <3>1, <3>2, UnchokeInv, Zenon
  <2>3. CASE HandleRequest(p)
    <3>1. Leave(p) \/ UNCHANGED status
      BY <2>3 DEF HandleRequest
    <3> QED BY <2>3, <3>1, PeerInv DEF HandleRequest, Take
  <2>4. CASE HandleCancel(p)
    <3>1. Leave(p) \/ UNCHANGED status
      BY <2>4, Zenon DEF HandleCancel
    <3> QED BY <2>4, <3>1, PeerInv DEF HandleCancel, Take
  <2> QED BY <1>2, <2>1, <2>2, <2>3, <2>4 DEF Messages
<1>3. ASSUME NEW p \in Peer, Serve(p) \/ IdleTick(p) PROVE Inv'
  BY <1>3, OtherInv DEF Serve, IdleTick
<1>4. ASSUME NEW p \in Peer, HandleUnchoke(p) PROVE Inv'
  <2>1. PICK o \in Unchoke(p, Head(event[p])) :
           Apply(p, o) /\ (Leave(p) \/ UNCHANGED status)
    BY <1>4 DEF HandleUnchoke
  <2> QED BY <1>4, <2>1, UnchokeInv DEF HandleUnchoke
<1>5. ASSUME NEW p \in Peer, Disconnect(p) PROVE Inv'
  BY <1>5, PeerInv DEF Disconnect
<1>6. ASSUME NEW p \in Peer, Return(p) PROVE Inv'
  BY <1>6, ReturnInv
<1>7. ASSUME NEW p \in Peer,
             RemoteInterest(p) \/ RemoteRequest(p) \/ RemoteCancel(p) \/ RemoteReceive(p)
      PROVE  Inv'
  BY <1>7, OtherInv DEF RemoteInterest, RemoteRequest, RemoteCancel, RemoteReceive
<1>8. CASE UNCHANGED vars
  BY <1>8, OtherInv DEF vars
<1> QED BY <1>1, <1>2, <1>3, <1>4, <1>5, <1>6, <1>7, <1>8 DEF Next

(* numUnchoking is shared by all peers and changed in three places: when   *)
(* unchoke has written its message, whatever it fails to write afterwards, *)
(* and when Run returns (peer/peer.go:190, 1240).  It is the number of     *)
(* peers that are unchoked and have not returned, for all sets of peers    *)
(* and whatever their remote ends do.                                      *)
THEOREM UploadUnchokingExact == Spec => []UnchokingExact
<1>1. Init => Inv
  BY InitInv
<1>2. Inv /\ [Next]_vars => Inv'
  BY StepInv
<1>3. Inv => UnchokingExact
  BY DEF Inv
<1> QED BY <1>1, <1>2, <1>3, PTL DEF Spec

(* So it is never negative: the panic of Run's first deferred function is  *)
(* not reached, nor is a share of the upload rate computed from a negative *)
(* number of peers.                                                        *)
THEOREM UploadNeverNegative == Spec => [](numUnchoking >= 0)
<1>1. UnchokingExact => numUnchoking >= 0
  <2>1. IsFiniteSet(Counted)
    BY UploadAssumption, FS_Subset DEF Counted
  <2> QED BY <2>1, FS_CardinalityType DEF UnchokingExact, Counted
<1> QED BY <1>1, UploadUnchokingExact, PTL

-----------------------------------------------------------------------------
(* Counting in sequences.                                                  *)

\* f is one-to-one and onto.
Matches(f, S, T) ==
    /\ f \in [S -> T]
    /\ \A x, y \in S : f[x] = f[y] => x = y
    /\ \A z \in T : \E x \in S : f[x] = z

LEMMA SizeSame == ASSUME NEW S, NEW T, IsFiniteSet(S), NEW f, Matches(f, S, T)
                  PROVE  IsFiniteSet(T) /\ Cardinality(T) = Cardinality(S)
<1>1. f \in Bijection(S, T)
  BY DEF Matches, Bijection, Injection, Surjection, IsInjective
<1>2. ExistsBijection(S, T)
  BY <1>1, Zenon DEF ExistsBijection
<1> QED BY <1>2, FS_Bijection

LEMMA SizeUnion == ASSUME NEW S, NEW T, IsFiniteSet(S), IsFiniteSet(T), S \cap T = {}
                   PROVE  /\ IsFiniteSet(S \cup T)
                          /\ Cardinality(S \cup T) = Cardinality(S) + Cardinality(T)
<1>1. /\ IsFiniteSet(S \cup T)
      /\ Cardinality(S \cup T) = Cardinality(S) + Cardinality(T) - Cardinality(S \cap T)
  BY FS_Union
<1>2. Cardinality(S) \in Nat /\ Cardinality(T) \in Nat /\ Cardinality(S \cap T) = 0
  BY FS_CardinalityType, FS_EmptySet, Zenon
<1> QED BY <1>1, <1>2

\* How often elements of V occur in s.
At(s, V) == {k \in DOMAIN s : s[k] \in V}
One(x, V) == IF x \in V THEN 1 ELSE 0

\* A count is a number, and that of the empty sequence is 0.
LEMMA TimesNat == ASSUME NEW S, NEW s \in Seq(S), NEW V
                  PROVE  IsFiniteSet(At(s, V)) /\ Times(s, V) \in Nat
<1>1. At(s, V) \subseteq 1..Len(s) /\ Len(s) \in Nat
  BY DEF At
<1>2. IsFiniteSet(1..Len(s))
  BY <1>1, FS_Interval
<1>3. IsFiniteSet(At(s, V))
  BY <1>1, <1>2, FS_Subset, Zenon
<1> QED BY <1>3, FS_CardinalityType DEF Times, At

LEMMA TimesEmpty == ASSUME NEW V PROVE Times(<<>>, V) = 0
<1>1. At(<<>>, V) = {}
  BY DEF At
<1> QED BY <1>1, FS_EmptySet DEF Times, At

LEMMA TimesOne == ASSUME NEW x, NEW V PROVE Times(<<x>>, V) = One(x, V)
<1>1. CASE x \in V
  <2>1. At(<<x>>, V) = {1}
    BY <1>1 DEF At
  <2> QED BY <1>1, <2>1, FS_Singleton, Zenon DEF Times, At, One
<1>2. CASE x \notin V
  <2>1. At(<<x>>, V) = {}
    BY <1>2 DEF At
  <2> QED BY <1>2, <2>1, FS_EmptySet DEF Times, At, One
<1> QED BY <1>1, <1>2

\* The counts of two parts add up.
LEMMA TimesConcat ==
    ASSUME NEW S, NEW s \in Seq(S), NEW t \in Seq(S), NEW V
    PROVE  Times(s \o t, V) = Times(s, V) + Times(t, V)
<1> DEFINE A == At(s, V)
           B == {k \in Len(s) + 1..Len(s) + Len(t) : t[k - Len(s)] \in V}
           f == [k \in At(t, V) |-> k + Len(s)]
<1>0. Len(s) \in Nat /\ Len(t) \in Nat /\ DOMAIN s = 1..Len(s) /\ DOMAIN t = 1..Len(t)
  OBVIOUS
<1>1. At(s \o t, V) = A \cup B
  BY <1>0 DEF At
<1>2. A \cap B = {}
  BY <1>0 DEF At
<1>3. Matches(f, At(t, V), B)
  <2>1. \A k \in At(t, V) : k \in Int /\ k + Len(s) \in B
    BY <1>0 DEF At
  <2>2. \A k \in B : k - Len(s) \in At(t, V) /\ (k - Len(s)) + Len(s) = k
    BY <1>0 DEF At
  <2>3. f \in [At(t, V) -> B] /\ \A x, y \in At(t, V) : f[x] = f[y] => x = y
    BY <1>0, <2>1
  <2>4. \A z \in B : \E x \in At(t, V) : f[x] = z
    BY <2>1, <2>2
  <2> QED BY <2>3, <2>4 DEF Matches
<1>4. IsFiniteSet(A) /\ IsFiniteSet(At(t, V))
  BY TimesNat
<1>5. IsFiniteSet(B) /\ Cardinality(B) = Cardinality(At(t, V))
  <2> HIDE DEF f, B
  <2> QED BY <1>3, <1>4, SizeSame
<1>6. Cardinality(A \cup B) = Cardinality(A) + Cardinality(B)
  <2> HIDE DEF A, B
  <2> QED BY <1>2, <1>4, <1>5, SizeUnion, Zenon
<1> QED BY <1>1, <1>5, <1>6, Zenon DEF Times, At

\* The head of a sequence counts for itself.
LEMMA TimesTail ==
    ASSUME NEW S, NEW s \in Seq(S), s # <<>>, NEW V
    PROVE  Times(s, V) = One(Head(s), V) + Times(Tail(s), V)
<1>1. Head(s) \in S /\ Tail(s) \in Seq(S) /\ <<Head(s)>> \in Seq(S)
  OBVIOUS
<1>2. s = <<Head(s)>> \o Tail(s)
  OBVIOUS
<1>3. Times(<<Head(s)>> \o Tail(s), V) = Times(<<Head(s)>>, V) + Times(Tail(s), V)
  BY <1>1, TimesConcat, Zenon
<1> QED BY <1>2, <1>3, TimesOne, Zenon

LEMMA TimesAppend ==
    ASSUME NEW S, NEW s \in Seq(S), NEW x \in S, NEW V
    PROVE  Times(s \o <<x>>, V) = Times(s, V) + One(x, V)
<1>1. <<x>> \in Seq(S)
  OBVIOUS
<1>2. Times(s \o <<x>>, V) = Times(s, V) + Times(<<x>>, V)
  BY <1>1, TimesConcat, Zenon
<1> QED BY <1>2, TimesOne

LEMMA HeadCounts ==
    ASSUME NEW S, NEW s \in Seq(S), s # <<>>
    PROVE  \A r \in S : Times(s, {r}) = Times(Tail(s), {r}) + One(Head(s), {r})
<1>1. SUFFICES ASSUME NEW r \in S
               PROVE  Times(s, {r}) = Times(Tail(s), {r}) + One(Head(s), {r})
  OBVIOUS
<1>2. Tail(s) \in Seq(S)
  OBVIOUS
<1>3. Times(Tail(s), {r}) \in Nat /\ One(Head(s), {r}) \in Nat
  BY <1>2, TimesNat, Zenon DEF One
<1>4. Times(s, {r}) = One(Head(s), {r}) + Times(Tail(s), {r})
  BY TimesTail, Zenon
<1> QED BY <1>3, <1>4

LEMMA HeadTail == ASSUME NEW S, NEW s \in Seq(S), s # <<>>
                  PROVE  Head(s) \in S /\ Tail(s) \in Seq(S)
OBVIOUS

LEMMA ConcatIs ==
    ASSUME NEW S, NEW s \in Seq(S), NEW t \in Seq(S)
    PROVE  /\ s \o t \in Seq(S) /\ Len(s \o t) = Len(s) + Len(t)
           /\ \A k \in 1..Len(s) + Len(t) :
                 (s \o t)[k] = IF k <= Len(s) THEN s[k] ELSE t[k - Len(s)]
OBVIOUS

LEMMA AppendIs ==
    ASSUME NEW S, NEW s \in Seq(S), NEW x \in S
    PROVE  s \o <<x>> \in Seq(S) /\ Append(s, x) = s \o <<x>>
OBVIOUS

\* t is s without its element i, which counts no more.
LEMMA TimesWithout ==
    ASSUME NEW S, NEW s \in Seq(S), NEW i \in DOMAIN s, NEW V,
           NEW t \in Seq(S), Len(t) = Len(s) - 1,
           \A k \in 1..Len(s) - 1 : t[k] = IF k < i THEN s[k] ELSE s[k + 1]
    PROVE  Times(s, V) = Times(t, V) + One(s[i], V)
<1> DEFINE A == At(s, V) \ {i}
           F(k) == IF k < i THEN k ELSE k + 1
           f == [k \in At(t, V) |-> F(k)]
<1>0. /\ Len(s) \in Nat /\ i \in 1..Len(s) /\ DOMAIN s = 1..Len(s)
      /\ DOMAIN t = 1..Len(s) - 1
  OBVIOUS
<1>1. At(t, V) \subseteq 1..Len(s) - 1 /\ A \subseteq 1..Len(s)
  BY <1>0 DEF At
<1>2. ASSUME NEW k \in At(t, V) PROVE F(k) \in A
  <2>1. k \in 1..Len(s) - 1 /\ t[k] = s[F(k)] /\ t[k] \in V
    BY <1>0 DEF At
  <2>2. F(k) \in 1..Len(s) /\ F(k) # i
    BY <1>0, <2>1
  <2> HIDE DEF F
  <2> QED BY <1>0, <2>1, <2>2 DEF At
<1>3. ASSUME NEW z \in A PROVE \E k \in At(t, V) : F(k) = z
  <2> DEFINE k == IF z < i THEN z ELSE z - 1
  <2>1. z \in 1..Len(s) /\ z # i /\ s[z] \in V
    BY <1>0 DEF At
  <2>2. k \in 1..Len(s) - 1 /\ F(k) = z
    BY <1>0, <2>1
  <2>3. t[k] = s[F(k)]
    BY <2>2
  <2> HIDE DEF F, k
  <2> QED BY <1>0, <2>1, <2>2, <2>3, Zenon DEF At
<1>4. \A x, y \in 1..Len(s) - 1 : F(x) = F(y) => x = y
  BY <1>0
<1>5. Matches(f, At(t, V), A)
  <2> HIDE DEF F
  <2> QED BY <1>1, <1>2, <1>3, <1>4 DEF Matches
<1>6. /\ IsFiniteSet(At(s, V)) /\ IsFiniteSet(At(t, V))
      /\ Times(t, V) \in Nat /\ Times(s, V) \in Nat
  BY TimesNat
<1>7. Cardinality(A) = Times(t, V)
  <2> HIDE DEF A, f
  <2> QED BY <1>5, <1>6, SizeSame, Zenon DEF Times, At
<1>8. Cardinality(A) = IF i \in At(s, V) THEN Times(s, V) - 1 ELSE Times(s, V)
  BY <1>6, FS_RemoveElement, Zenon DEF Times, At
<1>9. One(s[i], V) = IF i \in At(s, V) THEN 1 ELSE 0
  BY <1>0 DEF One, At
<1> QED BY <1>6, <1>7, <1>8, <1>9

-----------------------------------------------------------------------------
(* Requests and their answers.                                             *)

InMsg == [type : {"interested", "notinterested"}, req : {0}]
            \cup [type : {"request", "cancel"}, req : Req]
OutMsg == [type : {"choke", "unchoke"}, req : {0}]
            \cup [type : {"piece", "reject"}, req : Req]

Loaded == [turns : Nat, cancels : Nat, reqs : SUBSET Req, fast : BOOLEAN, ends : BOOLEAN]

Mail ==
    /\ load \in [Peer -> Loaded]
    /\ inbox \in [Peer -> Seq(InMsg)]
    /\ requested \in [Peer -> Seq(Req)]
    /\ writer \in [Peer -> Seq(OutMsg)]
    /\ outstanding \in [Peer -> SUBSET Req]
    /\ torn \in [Peer -> BOOLEAN]

Asks(r) == {Msg("request", r)}
Answers(r) == {Msg("piece", r), Msg("reject", r)}

\* No request is made a second time.
Fresh == \A p \in Peer : load[p].reqs \cap outstanding[p] = {}

\* The places of a request, in a queue of messages to us, among the requests
\* that wait, and in a queue of messages from us; S are the unanswered ones.
Balanced(in, rq, wr, S) ==
    \A r \in Req : Times(in, Asks(r)) + Times(rq, {r}) + Times(wr, Answers(r)) = One(r, S)

Book(p) == Running(p) /\ Fast(p) /\ ~torn[p]
                => Balanced(inbox[p], requested[p], writer[p], outstanding[p])

Accounts == Mail /\ Fresh /\ \A p \in Peer : Book(p)

LEMMA AccountsSuffice == ASSUME Accounts PROVE AnsweredOnce
BY Zenon DEF Accounts, Book, Balanced, AnsweredOnce, Asks, Answers, One

\* A step of one peer, after which its queues are in, rq and wr.
LEMMA PeerStep ==
    ASSUME Accounts, NEW p \in Peer,
           NEW ld \in Loaded,
           NEW in \in Seq(InMsg), NEW rq \in Seq(Req), NEW wr \in Seq(OutMsg),
           NEW S \in SUBSET Req, NEW tn \in BOOLEAN,
           load' = [load EXCEPT ![p] = ld],
           inbox' = [inbox EXCEPT ![p] = in],
           requested' = [requested EXCEPT ![p] = rq],
           writer' = [writer EXCEPT ![p] = wr],
           outstanding' = [outstanding EXCEPT ![p] = S],
           torn' = [torn EXCEPT ![p] = tn],
           \A q \in Peer : status'[q] = "running" => status[q] = "running",
           ld.fast = load[p].fast, ld.reqs \cap S = {},
           status'[p] = "running" /\ load[p].fast /\ ~tn => Balanced(in, rq, wr, S)
    PROVE  Accounts'
<1>1. Mail'
  BY DEF Accounts, Mail
<1>2. Fresh'
  BY DEF Accounts, Mail, Fresh
<1>3. ASSUME NEW q \in Peer PROVE Book(q)'
  <2>1. CASE q = p
    <3>1. /\ load'[p] = ld /\ inbox'[p] = in /\ requested'[p] = rq /\ writer'[p] = wr
          /\ outstanding'[p] = S /\ torn'[p] = tn
      BY DEF Accounts, Mail
    <3>2. Book(p)' <=> (status'[p] = "running" /\ ld.fast /\ ~tn => Balanced(in, rq, wr, S))
      BY <3>1, Zenon DEF Book, Running, Fast
    <3> QED BY <2>1, <3>2, Zenon
  <2>2. CASE q # p
    <3>1. /\ load'[q] = load[q] /\ inbox'[q] = inbox[q] /\ requested'[q] = requested[q]
          /\ writer'[q] = writer[q] /\ outstanding'[q] = outstanding[q] /\ torn'[q] = torn[q]
      BY <2>2 DEF Accounts, Mail
    <3> QED BY <3>1, Zenon DEF Accounts, Book, Running, Fast
  <2> QED BY <2>1, <2>2
<1> QED BY <1>1, <1>2, <1>3, Zenon DEF Accounts

\* The same when the remote end does nothing.
LEMMA OwnStep ==
    ASSUME Accounts, NEW p \in Peer,
           NEW in \in Seq(InMsg), NEW rq \in Seq(Req), NEW wr \in Seq(OutMsg),
           NEW tn \in BOOLEAN,
           UNCHANGED <<load, outstanding>>,
           inbox' = [inbox EXCEPT ![p] = in],
           requested' = [requested EXCEPT ![p] = rq],
           writer' = [writer EXCEPT ![p] = wr],
           torn' = [torn EXCEPT ![p] = tn],
           Leave(p) \/ UNCHANGED status, Types,
           status'[p] = "running" /\ load[p].fast /\ ~tn
              => Balanced(in, rq, wr, outstanding[p])
    PROVE  Accounts'
<1>1. /\ load[p] \in Loaded
      /\ outstanding[p] \in SUBSET Req
      /\ load' = [load EXCEPT ![p] = load[p]]
      /\ outstanding' = [outstanding EXCEPT ![p] = outstanding[p]]
  BY DEF Accounts, Mail
<1>2. \A q \in Peer : status'[q] = "running" => status[q] = "running"
  BY DEF Leave, Types
<1>3. load[p].reqs \cap outstanding[p] = {}
  BY DEF Accounts, Fresh
<1> QED BY <1>1, <1>2, <1>3, PeerStep, Zenon

\* A step that touches none of this; status may change from running.
LEMMA QuietStep ==
    ASSUME Accounts,
           UNCHANGED <<load, inbox, requested, writer, outstanding, torn>>,
           \A q \in Peer : status'[q] = "running" => status[q] = "running"
    PROVE  Accounts'
<1>1. Mail' /\ Fresh'
  BY DEF Accounts, Mail, Fresh
<1>2. ASSUME NEW q \in Peer PROVE Book(q)'
  BY DEF Accounts, Book, Running, Fast
<1> QED BY <1>1, <1>2, Zenon DEF Accounts

\* The message that is handled counts no more.
LEMMA TakeIs ==
    ASSUME Mail, NEW p \in Peer, NEW type, Take(p, type)
    PROVE  /\ Running(p) /\ Head(inbox[p]) \in InMsg /\ Tail(inbox[p]) \in Seq(InMsg)
           /\ Head(inbox[p]).type = type
           /\ inbox' = [inbox EXCEPT ![p] = Tail(inbox[p])]
           /\ \A r \in Req : Times(inbox[p], Asks(r)) = One(Head(inbox[p]), Asks(r))
                                                        + Times(Tail(inbox[p]), Asks(r))
<1>1. inbox[p] \in Seq(InMsg) /\ inbox[p] # <<>>
  BY DEF Mail, Take
<1>2. Head(inbox[p]) \in InMsg /\ Tail(inbox[p]) \in Seq(InMsg)
  BY <1>1
<1>3. \A r \in Req : Times(inbox[p], Asks(r)) = One(Head(inbox[p]), Asks(r))
                                                  + Times(Tail(inbox[p]), Asks(r))
  BY <1>1, TimesTail
<1> QED BY <1>2, <1>3 DEF Take

\* A message that is not a request is none, and one that is asks for its req.
LEMMA AsksIs ==
    ASSUME NEW m \in InMsg, NEW r \in Req
    PROVE  /\ m.type # "request" => One(m, Asks(r)) = 0
           /\ m.type = "request" => m.req \in Req /\ One(m, Asks(r)) = One(m.req, {r})
BY DEF InMsg, Asks, Msg, One

LEMMA TakeOther ==
    ASSUME Mail, NEW p \in Peer, NEW type, Take(p, type), type # "request"
    PROVE  /\ Running(p) /\ Tail(inbox[p]) \in Seq(InMsg)
           /\ inbox' = [inbox EXCEPT ![p] = Tail(inbox[p])]
           /\ \A r \in Req : Times(Tail(inbox[p]), Asks(r)) = Times(inbox[p], Asks(r))
<1>1. /\ Running(p) /\ Head(inbox[p]) \in InMsg /\ Tail(inbox[p]) \in Seq(InMsg)
      /\ Head(inbox[p]).type = type
      /\ inbox' = [inbox EXCEPT ![p] = Tail(inbox[p])]
      /\ \A r \in Req : Times(inbox[p], Asks(r)) = One(Head(inbox[p]), Asks(r))
                                                      + Times(Tail(inbox[p]), Asks(r))
  BY TakeIs
<1>2. ASSUME NEW r \in Req PROVE Times(Tail(inbox[p]), Asks(r)) = Times(inbox[p], Asks(r))
  <2>1. One(Head(inbox[p]), Asks(r)) = 0
    BY <1>1, AsksIs, Zenon
  <2>2. Times(Tail(inbox[p]), Asks(r)) \in Nat
    BY <1>1, TimesNat, Zenon
  <2> QED BY <1>1, <2>1, <2>2
<1> QED BY <1>1, <1>2

LEMMA TypesOf ==
    ASSUME Mail, NEW p \in Peer
    PROVE  /\ inbox[p] \in Seq(InMsg) /\ requested[p] \in Seq(Req) /\ writer[p] \in Seq(OutMsg)
           /\ outstanding[p] \in SUBSET Req /\ torn[p] \in BOOLEAN
           /\ \A r \in Req : /\ Times(inbox[p], Asks(r)) \in Nat
                             /\ Times(requested[p], {r}) \in Nat
                             /\ Times(writer[p], Answers(r)) \in Nat
<1>1. /\ inbox[p] \in Seq(InMsg) /\ requested[p] \in Seq(Req) /\ writer[p] \in Seq(OutMsg)
      /\ outstanding[p] \in SUBSET Req /\ torn[p] \in BOOLEAN
  BY DEF Mail
<1> QED BY <1>1, TimesNat

\* What holds of a peer with the Fast extension before a step.
LEMMA Before ==
    ASSUME Accounts, NEW p \in Peer, Running(p), Fast(p), ~torn[p], NEW r \in Req
    PROVE  /\ Times(inbox[p], Asks(r)) \in Nat
           /\ Times(requested[p], {r}) \in Nat
           /\ Times(writer[p], Answers(r)) \in Nat
           /\ Times(inbox[p], Asks(r)) + Times(requested[p], {r})
                + Times(writer[p], Answers(r)) = One(r, outstanding[p])
<1>1. Balanced(inbox[p], requested[p], writer[p], outstanding[p])
  BY Zenon DEF Accounts, Book
<1> QED BY <1>1, TypesOf, Zenon DEF Balanced, Accounts

\* Rejections answer what they reject.
LEMMA RejectIs ==
    ASSUME NEW p \in Peer, NEW rs \in Seq(Req)
    PROVE  /\ Reject(p, rs) \in Seq(OutMsg)
           /\ Fast(p) => /\ Len(Reject(p, rs)) = Len(rs)
                         /\ \A r \in Req : Times(Reject(p, rs), Answers(r)) = Times(rs, {r})
           /\ ~Fast(p) => Reject(p, rs) = <<>>
<1>1. CASE Fast(p)
  <2>1. Reject(p, rs) = [i \in DOMAIN rs |-> Msg("reject", rs[i])]
    BY <1>1 DEF Reject
  <2>2. \A i \in DOMAIN rs : Msg("reject", rs[i]) \in OutMsg
    BY DEF Msg, OutMsg
  <2>3. Reject(p, rs) \in Seq(OutMsg) /\ Len(Reject(p, rs)) = Len(rs)
    BY <2>1, <2>2
  <2>4. ASSUME NEW r \in Req PROVE Times(Reject(p, rs), Answers(r)) = Times(rs, {r})
    <3>1. \A i \in DOMAIN rs : Msg("reject", rs[i]) \in Answers(r) <=> rs[i] \in {r}
      BY DEF Answers, Msg
    <3>2. {k \in DOMAIN Reject(p, rs) : Reject(p, rs)[k] \in Answers(r)}
              = {k \in DOMAIN rs : rs[k] \in {r}}
      BY <2>1, <3>1
    <3> QED BY <3>2, Zenon DEF Times
  <2> QED BY <1>1, <2>3, <2>4
<1>2. CASE ~Fast(p)
  BY <1>2 DEF Reject
<1> QED BY <1>1, <1>2

\* What a write that may fail leaves in the channel.
LEMMA WrittenIs ==
    ASSUME NEW S, NEW ms \in Seq(S), NEW k \in 0..Len(ms)
    PROVE  /\ SubSeq(ms, 1, k) \in Seq(S)
           /\ k = Len(ms) => SubSeq(ms, 1, k) = ms
           /\ k = 0 => SubSeq(ms, 1, k) = <<>>
OBVIOUS

\* More in the channel.
LEMMA ChannelIs ==
    ASSUME Mail, NEW p \in Peer, NEW ms \in Seq(OutMsg)
    PROVE  /\ writer[p] \o ms \in Seq(OutMsg)
           /\ \A r \in Req : Times(writer[p] \o ms, Answers(r))
                                = Times(writer[p], Answers(r)) + Times(ms, Answers(r))
<1>1. writer[p] \in Seq(OutMsg)
  BY TypesOf
<1>2. writer[p] \o ms \in Seq(OutMsg)
  BY <1>1, ConcatIs
<1> QED BY <1>1, <1>2, TimesConcat

\* S are the unanswered requests once the message m is on its way.
Asked(S, T, m) == \A r \in Req : One(r, S) = One(r, T) + One(m, Asks(r))

\* A balanced account stays so when a message is sent to us...
LEMMA BalancedSent ==
    ASSUME NEW in \in Seq(InMsg), NEW rq \in Seq(Req), NEW wr \in Seq(OutMsg), NEW T, NEW S,
           NEW m \in InMsg, Balanced(in, rq, wr, T), Asked(S, T, m)
    PROVE  Balanced(in \o <<m>>, rq, wr, S)
<1>1. SUFFICES ASSUME NEW r \in Req
               PROVE  Times(in \o <<m>>, Asks(r)) + Times(rq, {r}) + Times(wr, Answers(r))
                         = One(r, S)
  BY DEF Balanced
<1>2. Times(in \o <<m>>, Asks(r)) = Times(in, Asks(r)) + One(m, Asks(r))
  BY TimesAppend, Zenon
<1>3. /\ Times(in, Asks(r)) \in Nat /\ Times(rq, {r}) \in Nat /\ Times(wr, Answers(r)) \in Nat
      /\ One(m, Asks(r)) \in Nat
  BY TimesNat, Zenon DEF One
<1>4. Times(in, Asks(r)) + Times(rq, {r}) + Times(wr, Answers(r)) = One(r, T)
  BY Zenon DEF Balanced
<1>5. One(r, S) = One(r, T) + One(m, Asks(r))
  BY Zenon DEF Asked
<1> QED BY <1>2, <1>3, <1>4, <1>5

\* ... and when the request x, which waits, is answered by the messages ms.
LEMMA BalancedAnswered ==
    ASSUME NEW in \in Seq(InMsg), NEW rq \in Seq(Req), NEW wr \in Seq(OutMsg), NEW T,
           Balanced(in, rq, wr, T),
           NEW in2, \A r \in Req : Times(in2, Asks(r)) = Times(in, Asks(r)),
           NEW x, NEW rest \in Seq(Req),
           \A r \in Req : Times(rq, {r}) = Times(rest, {r}) + One(x, {r}),
           NEW ms \in Seq(OutMsg),
           \A r \in Req : Times(ms, Answers(r)) = One(x, {r})
    PROVE  Balanced(in2, rest, wr \o ms, T)
<1>1. SUFFICES ASSUME NEW r \in Req
               PROVE  Times(in2, Asks(r)) + Times(rest, {r}) + Times(wr \o ms, Answers(r))
                         = One(r, T)
  BY DEF Balanced
<1>2. Times(wr \o ms, Answers(r)) = Times(wr, Answers(r)) + Times(ms, Answers(r))
  BY TimesConcat
<1>3. /\ Times(in, Asks(r)) \in Nat /\ Times(rest, {r}) \in Nat /\ Times(wr, Answers(r)) \in Nat
      /\ One(x, {r}) \in Nat
  BY TimesNat, Zenon DEF One
<1>4. Times(in, Asks(r)) + Times(rq, {r}) + Times(wr, Answers(r)) = One(r, T)
  BY Zenon DEF Balanced
<1>5. /\ Times(in2, Asks(r)) = Times(in, Asks(r))
      /\ Times(rq, {r}) = Times(rest, {r}) + One(x, {r})
      /\ Times(ms, Answers(r)) = One(x, {r})
  OBVIOUS
<1> QED BY <1>2, <1>3, <1>4, <1>5

\* A peer with the Fast extension that runs has a balanced account.
LEMMA BalancedBefore ==
    ASSUME Accounts, NEW p \in Peer, Running(p), Fast(p), ~torn[p]
    PROVE  Balanced(inbox[p], requested[p], writer[p], outstanding[p])
BY Zenon DEF Accounts, Book

\* The outcomes of unchoke that do not tear a choke apart write no answer and
\* leave the requests alone, or answer all of them.
LEMMA UnchokeIs ==
    ASSUME Types, Mail, NEW p \in Peer, NEW want, NEW o \in Unchoke(p, want)
    PROVE  /\ o.ms \in Seq(OutMsg) /\ o.rest \in Seq(Req) /\ o.err \in BOOLEAN
           /\ \/ o.err /\ o.num # 0
              \/ o.rest = requested[p] /\ o.ms \in {<<>>, <<Sig("unchoke")>>}
              \/ o.rest = <<>> /\ o.ms = <<Sig("choke")>> \o Reject(p, requested[p])
<1> DEFINE w == want /\ interested[p]
<1>0. w \in BOOLEAN /\ amUnchoking[p] \in BOOLEAN /\ requested[p] \in Seq(Req)
  BY TypesOf DEF Types
<1>1. CASE w = amUnchoking[p]
  <2>1. o.ms = <<>> /\ o.rest = requested[p] /\ o.err = FALSE
    BY <1>1 DEF Unchoke
  <2>2. o.ms \in Seq(OutMsg) /\ o.rest \in Seq(Req) /\ o.err \in BOOLEAN
    <3>1. <<>> \in Seq(OutMsg)
      OBVIOUS
    <3> QED BY <1>0, <2>1, <3>1, Zenon
  <2> QED BY <2>1, <2>2, Zenon
<1>2. CASE w # amUnchoking[p]
  <2>1. o \in Changed(p, w)
    BY <1>2 DEF Unchoke
  <2> DEFINE choke == <<Sig("choke")>> \o Reject(p, requested[p])
             out == IF w THEN <<Sig("unchoke")>> ELSE choke
             O(k) == [err  |-> ~w /\ k < Len(out),
                      unch |-> IF k = 0 THEN ~w ELSE w,
                      num  |-> IF k = 0 THEN 0 ELSE IF w THEN 1 ELSE -1,
                      ms   |-> SubSeq(out, 1, k),
                      rest |-> IF ~w /\ k = Len(out) THEN <<>> ELSE requested[p]]
  <2>2. PICK k \in Written(p, out) : o = O(k)
    BY <2>1, Zenon DEF Changed
  <2>3. /\ o.err = (~w /\ k < Len(out))
        /\ o.num = IF k = 0 THEN 0 ELSE IF w THEN 1 ELSE -1
        /\ o.ms = SubSeq(out, 1, k)
        /\ o.rest = IF ~w /\ k = Len(out) THEN <<>> ELSE requested[p]
    BY <2>2, Zenon
  <2>4. Sig("choke") \in OutMsg /\ Sig("unchoke") \in OutMsg
    BY DEF Sig, Msg, OutMsg
  <2>5. choke \in Seq(OutMsg)
    <3>1. Reject(p, requested[p]) \in Seq(OutMsg) /\ <<Sig("choke")>> \in Seq(OutMsg)
      BY <1>0, <2>4, RejectIs
    <3> QED BY <3>1, ConcatIs
  <2>6. out \in Seq(OutMsg) /\ k \in 0..Len(out)
    BY <2>4, <2>5 DEF Written
  <2> HIDE DEF out, choke, w, O
  <2>7. /\ SubSeq(out, 1, k) \in Seq(OutMsg)
        /\ k = Len(out) => SubSeq(out, 1, k) = out
        /\ k = 0 => SubSeq(out, 1, k) = <<>>
    BY <2>6, WrittenIs
  <2>8. o.ms \in Seq(OutMsg) /\ o.rest \in Seq(Req) /\ o.err \in BOOLEAN
    BY <1>0, <2>3, <2>7
  <2>9. CASE k = 0
    <3>1. Len(out) # 0
      BY <2>4 DEF out, choke
    <3> QED BY <2>3, <2>7, <2>8, <2>9, <3>1
  <2>10. CASE k # 0 /\ w
    <3>1. out = <<Sig("unchoke")>> /\ Len(out) = 1
      BY <2>10 DEF out
    <3>2. k = Len(out)
      BY <2>6, <2>10, <3>1
    <3> QED BY <2>3, <2>7, <2>8, <2>10, <3>1, <3>2
  <2>11. CASE k # 0 /\ ~w /\ k = Len(out)
    <3>1. out = choke
      BY <2>11 DEF out
    <3> QED BY <2>3, <2>7, <2>8, <2>11, <3>1 DEF choke
  <2>12. CASE k # 0 /\ ~w /\ k # Len(out)
    <3>1. k < Len(out)
      BY <2>6, <2>12
    <3>2. o.err
      BY <2>3, <2>12, <3>1, Zenon
    <3>3. o.num = -1
      BY <2>3, <2>12, Zenon
    <3> QED BY <2>8, <3>2, <3>3
  <2> QED BY <2>9, <2>10, <2>11, <2>12
<1> QED BY <1>1, <1>2

\* Choking and unchoking keep a peer's account, unless a choke is torn.
LEMMA UnchokeBalances ==
    ASSUME Types, Accounts, NEW p \in Peer, NEW want, NEW o \in Unchoke(p, want),
           Running(p), Fast(p), ~torn[p], ~(o.err /\ o.num # 0),
           NEW in \in Seq(InMsg), \A r \in Req : Times(in, Asks(r)) = Times(inbox[p], Asks(r))
    PROVE  Balanced(in, o.rest, writer[p] \o o.ms, outstanding[p])
<1>0. Mail
  BY DEF Accounts
<1>1. /\ o.ms \in Seq(OutMsg)
      /\ \/ o.rest = requested[p] /\ o.ms \in {<<>>, <<Sig("unchoke")>>}
         \/ o.rest = <<>> /\ o.ms = <<Sig("choke")>> \o Reject(p, requested[p])
  BY <1>0, UnchokeIs
<1>2. SUFFICES ASSUME NEW r \in Req
               PROVE  Times(in, Asks(r)) + Times(o.rest, {r})
                        + Times(writer[p] \o o.ms, Answers(r)) = One(r, outstanding[p])
  BY DEF Balanced
<1>3. /\ Times(in, Asks(r)) \in Nat
      /\ Times(requested[p], {r}) \in Nat
      /\ Times(writer[p], Answers(r)) \in Nat
      /\ Times(in, Asks(r)) + Times(requested[p], {r})
            + Times(writer[p], Answers(r)) = One(r, outstanding[p])
  BY Before, Zenon
<1>4. Times(writer[p] \o o.ms, Answers(r))
         = Times(writer[p], Answers(r)) + Times(o.ms, Answers(r))
  BY <1>0, <1>1, ChannelIs
<1>5. One(Sig("choke"), Answers(r)) = 0 /\ One(Sig("unchoke"), Answers(r)) = 0
  BY DEF One, Sig, Msg, Answers
<1>6. CASE o.rest = requested[p] /\ o.ms \in {<<>>, <<Sig("unchoke")>>}
  <2>1. Times(o.ms, Answers(r)) = 0
    BY <1>5, <1>6, TimesEmpty, TimesOne
  <2> QED BY <1>3, <1>4, <1>6, <2>1
<1>7. CASE o.rest = <<>> /\ o.ms = <<Sig("choke")>> \o Reject(p, requested[p])
  <2>1. requested[p] \in Seq(Req)
    BY <1>0, TypesOf
  <2>2. /\ Reject(p, requested[p]) \in Seq(OutMsg)
        /\ Times(Reject(p, requested[p]), Answers(r)) = Times(requested[p], {r})
    BY <2>1, RejectIs
  <2>3. <<Sig("choke")>> \in Seq(OutMsg)
    BY DEF Sig, Msg, OutMsg
  <2>4. Times(<<Sig("choke")>> \o Reject(p, requested[p]), Answers(r))
           = Times(<<Sig("choke")>>, Answers(r)) + Times(Reject(p, requested[p]), Answers(r))
    <3> DEFINE c == <<Sig("choke")>>
    <3>1. c \in Seq(OutMsg)
      BY <2>3
    <3> HIDE DEF c
    <3>2. Times(c \o Reject(p, requested[p]), Answers(r))
             = Times(c, Answers(r)) + Times(Reject(p, requested[p]), Answers(r))
      BY <2>2, <3>1, TimesConcat
    <3> QED BY <3>2 DEF c
  <2>5. Times(o.ms, Answers(r)) = Times(requested[p], {r})
    <3>1. Times(<<Sig("choke")>>, Answers(r)) = 0
      BY <1>5, TimesOne, Zenon
    <3>2. Times(o.ms, Answers(r)) = 0 + Times(requested[p], {r})
      BY <1>7, <2>2, <2>4, <3>1, Zenon
    <3> QED BY <1>3, <3>2
  <2>6. Times(o.rest, {r}) = 0
    BY <1>7, TimesEmpty, Zenon
  <2> QED BY <1>3, <1>4, <2>5, <2>6
<1> QED BY <1>1, <1>6, <1>7

LEMMA InterestedKeeps ==
    ASSUME Types, Accounts, NEW p \in Peer, HandleInterested(p) PROVE Accounts'
<1>1. /\ Running(p) /\ Tail(inbox[p]) \in Seq(InMsg)
      /\ inbox' = [inbox EXCEPT ![p] = Tail(inbox[p])]
      /\ \A r \in Req : Times(Tail(inbox[p]), Asks(r)) = Times(inbox[p], Asks(r))
  BY TakeOther DEF HandleInterested, Accounts
<1>2. /\ requested' = [requested EXCEPT ![p] = requested[p]]
      /\ writer' = [writer EXCEPT ![p] = writer[p]]
      /\ torn' = [torn EXCEPT ![p] = torn[p]]
      /\ UNCHANGED <<load, outstanding, status>>
  BY DEF HandleInterested, Accounts, Mail, remote
<1>3. /\ requested[p] \in Seq(Req) /\ writer[p] \in Seq(OutMsg) /\ torn[p] \in BOOLEAN
  BY TypesOf DEF Accounts
<1>4. Running(p) /\ Fast(p) /\ ~torn[p]
         => Balanced(Tail(inbox[p]), requested[p], writer[p], outstanding[p])
  BY <1>1, Before, Zenon DEF Balanced
<1> QED BY <1>1, <1>2, <1>3, <1>4, OwnStep, Zenon DEF Fast

LEMMA NotInterestedKeeps ==
    ASSUME Types, Accounts, NEW p \in Peer, HandleNotInterested(p) PROVE Accounts'
<1>1. /\ Running(p) /\ Tail(inbox[p]) \in Seq(InMsg)
      /\ inbox' = [inbox EXCEPT ![p] = Tail(inbox[p])]
      /\ \A r \in Req : Times(Tail(inbox[p]), Asks(r)) = Times(inbox[p], Asks(r))
  BY TakeOther DEF HandleNotInterested, Accounts
<1>2. PICK o \in Unchoke(p, FALSE) : Apply(p, o)
  BY Zenon DEF HandleNotInterested
<1>3. o.ms \in Seq(OutMsg) /\ o.rest \in Seq(Req) /\ o.err \in BOOLEAN
  BY UnchokeIs, Zenon DEF Accounts
<1> DEFINE tn == torn[p] \/ (o.err /\ o.num # 0)
<1>4. /\ requested' = [requested EXCEPT ![p] = o.rest]
      /\ writer' = [writer EXCEPT ![p] = writer[p] \o o.ms]
      /\ torn' = [torn EXCEPT ![p] = tn]
      /\ UNCHANGED <<load, outstanding, status>>
  BY <1>2, Zenon DEF HandleNotInterested, Apply, remote
<1>5. writer[p] \o o.ms \in Seq(OutMsg) /\ tn \in BOOLEAN
  BY <1>3, ChannelIs DEF Accounts
<1>6. Running(p) /\ Fast(p) /\ ~tn
         => Balanced(Tail(inbox[p]), o.rest, writer[p] \o o.ms, outstanding[p])
  BY <1>1, UnchokeBalances, Zenon
<1> HIDE DEF tn
<1> QED BY <1>1, <1>3, <1>4, <1>5, <1>6, OwnStep, Zenon DEF Fast

LEMMA UnchokeKeeps ==
    ASSUME Types, Accounts, NEW p \in Peer, HandleUnchoke(p) PROVE Accounts'
<1>1. inbox[p] \in Seq(InMsg) /\ inbox' = [inbox EXCEPT ![p] = inbox[p]] /\ Running(p)
  BY DEF HandleUnchoke, Accounts, Mail
<1>2. PICK o \in Unchoke(p, Head(event[p])) :
         Apply(p, o) /\ (Leave(p) \/ UNCHANGED status)
  BY DEF HandleUnchoke
<1>3. o.ms \in Seq(OutMsg) /\ o.rest \in Seq(Req) /\ o.err \in BOOLEAN
  BY UnchokeIs DEF Accounts
<1> DEFINE tn == torn[p] \/ (o.err /\ o.num # 0)
<1>4. /\ requested' = [requested EXCEPT ![p] = o.rest]
      /\ writer' = [writer EXCEPT ![p] = writer[p] \o o.ms]
      /\ torn' = [torn EXCEPT ![p] = tn]
      /\ UNCHANGED <<load, outstanding>>
  BY <1>2, Zenon DEF HandleUnchoke, Apply, remote
<1>5. writer[p] \o o.ms \in Seq(OutMsg) /\ tn \in BOOLEAN
  BY <1>3, ChannelIs, Zenon DEF Accounts
<1>6. Running(p) /\ Fast(p) /\ ~tn
         => Balanced(inbox[p], o.rest, writer[p] \o o.ms, outstanding[p])
  BY <1>1, UnchokeBalances
<1> HIDE DEF tn
<1> QED BY <1>1, <1>2, <1>3, <1>4, <1>5, <1>6, OwnStep, Zenon DEF Fast

\* A request that cannot be taken is rejected, or the peer leaves.
LEMMA RequestRefused ==
    ASSUME Types, Accounts, NEW p \in Peer, HandleRequest(p), ~amUnchoking[p]
    PROVE  Accounts'
<1> DEFINE m == Head(inbox[p])
           rej == Reject(p, <<m.req>>)
<1>1. /\ Running(p) /\ m \in InMsg /\ Tail(inbox[p]) \in Seq(InMsg)
      /\ m.type = "request"
      /\ inbox' = [inbox EXCEPT ![p] = Tail(inbox[p])]
      /\ \A r \in Req : Times(inbox[p], Asks(r)) = One(m, Asks(r))
                                                      + Times(Tail(inbox[p]), Asks(r))
  BY TakeIs, Zenon DEF HandleRequest, Accounts
<1>2. \A r \in Req : m.req \in Req /\ One(m, Asks(r)) = One(m.req, {r})
  BY <1>1, AsksIs, Zenon
<1>3. m.req \in Req
  BY <1>1 DEF InMsg
<1>4. PICK k \in Written(p, rej) :
         /\ Wrote(p, rej, k)
         /\ IF k < Len(rej) THEN Leave(p) ELSE UNCHANGED <<status, uploadTicker>>
  BY Zenon DEF HandleRequest
<1>5. /\ requested' = [requested EXCEPT ![p] = requested[p]]
      /\ torn' = [torn EXCEPT ![p] = torn[p]]
      /\ UNCHANGED <<load, outstanding>>
  BY Zenon DEF HandleRequest, Accounts, Mail, remote
<1>6. /\ rej \in Seq(OutMsg)
      /\ Fast(p) => \A r \in Req : Times(rej, Answers(r)) = One(m.req, {r})
  <2>1. <<m.req>> \in Seq(Req)
    BY <1>3
  <2> QED BY <2>1, RejectIs, TimesOne, Zenon
<1> HIDE DEF m, rej
<1>7. k \in 0..Len(rej)
  BY <1>4 DEF Written
<1>8. SubSeq(rej, 1, k) \in Seq(OutMsg) /\ (k = Len(rej) => SubSeq(rej, 1, k) = rej)
  BY <1>6, <1>7, WrittenIs
<1> DEFINE wr == writer[p] \o SubSeq(rej, 1, k)
<1>9. writer' = [writer EXCEPT ![p] = wr] /\ wr \in Seq(OutMsg)
  BY <1>4, <1>8, ChannelIs, Zenon DEF Wrote, Accounts
<1>10. /\ requested[p] \in Seq(Req) /\ torn[p] \in BOOLEAN
  BY TypesOf DEF Accounts
<1>11. ASSUME status'[p] = "running", Fast(p), ~torn[p]
       PROVE  Balanced(Tail(inbox[p]), requested[p], wr, outstanding[p])
  <2>1. k = Len(rej)
    BY <1>4, <1>6, <1>7, <1>11 DEF Leave, Types
  <2>2. ASSUME NEW r \in Req
        PROVE  Times(Tail(inbox[p]), Asks(r)) + Times(requested[p], {r})
                 + Times(wr, Answers(r)) = One(r, outstanding[p])
    <3>1. Times(wr, Answers(r)) = Times(writer[p], Answers(r)) + One(m.req, {r})
      <4>1. wr = writer[p] \o rej
        BY <1>8, <2>1, Zenon
      <4>2. Times(writer[p] \o rej, Answers(r))
               = Times(writer[p], Answers(r)) + Times(rej, Answers(r))
        BY <1>6, ChannelIs, Zenon DEF Accounts
      <4> QED BY <1>6, <1>11, <4>1, <4>2, Zenon
    <3>2. /\ Times(requested[p], {r}) \in Nat
          /\ Times(writer[p], Answers(r)) \in Nat
          /\ Times(inbox[p], Asks(r)) + Times(requested[p], {r})
                + Times(writer[p], Answers(r)) = One(r, outstanding[p])
      BY <1>1, <1>11, Before, Zenon
    <3>3. Times(inbox[p], Asks(r)) = One(m.req, {r}) + Times(Tail(inbox[p]), Asks(r))
      BY <1>1, <1>2
    <3>4. Times(Tail(inbox[p]), Asks(r)) \in Nat /\ One(m.req, {r}) \in Nat
      BY <1>1, TimesNat, Zenon DEF One
    <3> HIDE DEF wr
    <3> QED BY <3>1, <3>2, <3>3, <3>4
  <2> QED BY <2>2, Zenon DEF Balanced
<1>12. Leave(p) \/ UNCHANGED status
  BY <1>4
<1> HIDE DEF wr
<1> QED BY <1>1, <1>5, <1>9, <1>10, <1>11, <1>12, OwnStep, Zenon DEF Fast

\* A request that is taken waits; when there are too many, the oldest is
\* rejected, or stays as well.
LEMMA RequestTaken ==
    ASSUME Types, Accounts, NEW p \in Peer, HandleRequest(p), amUnchoking[p]
    PROVE  Accounts'
<1> DEFINE m == Head(inbox[p])
           full == Len(requested[p]) >= ReqQ
           rej == IF full THEN Reject(p, <<Head(requested[p])>>) ELSE <<>>
<1>1. /\ Running(p) /\ m \in InMsg /\ Tail(inbox[p]) \in Seq(InMsg)
      /\ m.type = "request"
      /\ inbox' = [inbox EXCEPT ![p] = Tail(inbox[p])]
      /\ \A r \in Req : Times(inbox[p], Asks(r)) = One(m, Asks(r))
                                                      + Times(Tail(inbox[p]), Asks(r))
  BY TakeIs, Zenon DEF HandleRequest, Accounts
<1>2. \A r \in Req : m.req \in Req /\ One(m, Asks(r)) = One(m.req, {r})
  BY <1>1, AsksIs, Zenon
<1>3. m.req \in Req
  BY <1>1 DEF InMsg
<1> DEFINE Kept(k) == IF full /\ k = Len(rej) THEN Tail(requested[p]) ELSE requested[p]
<1>4. PICK k \in Written(p, rej) :
         /\ Wrote(p, rej, k)
         /\ requested' = [requested EXCEPT ![p] = Kept(k) \o <<m.req>>]
         /\ UNCHANGED status
  BY Zenon DEF HandleRequest
<1> DEFINE kept == Kept(k)
           rq == kept \o <<m.req>>
           wr == writer[p] \o SubSeq(rej, 1, k)
<1>5. /\ torn' = [torn EXCEPT ![p] = torn[p]]
      /\ UNCHANGED <<load, outstanding>>
  BY Zenon DEF HandleRequest, Accounts, Mail, remote
<1>6. requested[p] \in Seq(Req) /\ torn[p] \in BOOLEAN
  BY TypesOf, Zenon DEF Accounts
<1>7. full => requested[p] # <<>> /\ Head(requested[p]) \in Req /\ Tail(requested[p]) \in Seq(Req)
  BY <1>6, UploadAssumption
<1>8. /\ rej \in Seq(OutMsg)
      /\ full /\ Fast(p) => \A r \in Req :
              Times(rej, Answers(r)) = One(Head(requested[p]), {r})
      /\ full /\ Fast(p) => Len(rej) = 1
      /\ ~full => rej = <<>>
  <2>1. CASE full
    <3>1. <<Head(requested[p])>> \in Seq(Req)
      BY <1>7, <2>1
    <3>2. Len(<<Head(requested[p])>>) = 1
      OBVIOUS
    <3> QED BY <2>1, <3>1, <3>2, RejectIs, TimesOne, Zenon
  <2>2. CASE ~full
    BY <2>2
  <2> QED BY <2>1, <2>2
<1>9. k \in 0..Len(rej)
  BY <1>4 DEF Written
<1>10. kept \in Seq(Req)
  BY <1>6, <1>7
<1> HIDE DEF m, rej, full
<1>11. /\ SubSeq(rej, 1, k) \in Seq(OutMsg)
       /\ k = Len(rej) => SubSeq(rej, 1, k) = rej
       /\ k = 0 => SubSeq(rej, 1, k) = <<>>
  BY <1>8, <1>9, WrittenIs
<1>12. ASSUME Fast(p), NEW r \in Req
       PROVE  Times(kept, {r}) + Times(SubSeq(rej, 1, k), Answers(r)) = Times(requested[p], {r})
  <2>0. Times(requested[p], {r}) \in Nat
    BY <1>6, TimesNat
  <2>1. CASE full /\ k = Len(rej)
    <3>1. Times(SubSeq(rej, 1, k), Answers(r)) = One(Head(requested[p]), {r})
      BY <1>8, <1>11, <1>12, <2>1, Zenon
    <3>2. Times(requested[p], {r}) = One(Head(requested[p]), {r}) + Times(Tail(requested[p]), {r})
      BY <1>6, <1>7, <2>1, TimesTail
    <3>3. Times(Tail(requested[p]), {r}) \in Nat /\ One(Head(requested[p]), {r}) \in Nat
      BY <1>7, <2>1, TimesNat, Zenon DEF One
    <3> QED BY <2>1, <3>1, <3>2, <3>3
  <2>2. CASE ~(full /\ k = Len(rej))
    <3>1. k = 0
      BY <1>8, <1>9, <1>12, <2>2
    <3>2. Times(SubSeq(rej, 1, k), Answers(r)) = 0
      BY <1>11, <3>1, TimesEmpty, Zenon
    <3>3. kept = requested[p]
      BY <2>2
    <3> QED BY <2>0, <3>2, <3>3
  <2> QED BY <2>1, <2>2
<1>13. writer' = [writer EXCEPT ![p] = wr] /\ wr \in Seq(OutMsg)
  BY <1>4, <1>11, ChannelIs, Zenon DEF Wrote, Accounts
<1>14. rq \in Seq(Req) /\ requested' = [requested EXCEPT ![p] = rq]
  BY <1>3, <1>4, <1>10
<1> HIDE DEF kept, Kept
<1>15. ASSUME Fast(p), ~torn[p]
       PROVE  Balanced(Tail(inbox[p]), rq, wr, outstanding[p])
  <2>1. ASSUME NEW r \in Req
        PROVE  Times(Tail(inbox[p]), Asks(r)) + Times(rq, {r})
                 + Times(wr, Answers(r)) = One(r, outstanding[p])
    <3>1. Times(wr, Answers(r))
             = Times(writer[p], Answers(r)) + Times(SubSeq(rej, 1, k), Answers(r))
      BY <1>11, ChannelIs, Zenon DEF Accounts
    <3>2. Times(rq, {r}) = Times(kept, {r}) + One(m.req, {r})
      BY <1>3, <1>10, TimesAppend
    <3>3. /\ Times(requested[p], {r}) \in Nat
          /\ Times(writer[p], Answers(r)) \in Nat
          /\ Times(inbox[p], Asks(r)) + Times(requested[p], {r})
                + Times(writer[p], Answers(r)) = One(r, outstanding[p])
      BY <1>1, <1>15, Before, Zenon
    <3>4. Times(inbox[p], Asks(r)) = One(m.req, {r}) + Times(Tail(inbox[p]), Asks(r))
      BY <1>1, <1>2, Zenon
    <3>5. Times(Tail(inbox[p]), Asks(r)) \in Nat /\ One(m.req, {r}) \in Nat
      BY <1>1, TimesNat, Zenon DEF One
    <3>6. Times(kept, {r}) \in Nat /\ Times(SubSeq(rej, 1, k), Answers(r)) \in Nat
      BY <1>10, <1>11, TimesNat, Zenon
    <3>7. Times(kept, {r}) + Times(SubSeq(rej, 1, k), Answers(r)) = Times(requested[p], {r})
      BY <1>12, <1>15
    <3> HIDE DEF wr, rq
    <3> QED BY <3>1, <3>2, <3>3, <3>4, <3>5, <3>6, <3>7
  <2> QED BY <2>1, Zenon DEF Balanced
<1> HIDE DEF wr, rq
<1> QED BY <1>1, <1>4, <1>5, <1>13, <1>14, <1>6, <1>15, OwnStep, Zenon DEF Fast

\* What is cancelled waits no more.
LEMMA FoundIs ==
    ASSUME Mail, NEW p \in Peer, NEW i \in Found(p), NEW r \in Req
    PROVE  /\ requested[p][i] \in Req /\ Deleted(requested[p], i) \in Seq(Req)
           /\ Times(requested[p], {r})
                = Times(Deleted(requested[p], i), {r}) + One(requested[p][i], {r})
<1>1. requested[p] \in Seq(Req)
  BY DEF Mail
<1>2. i \in DOMAIN requested[p] /\ requested[p][i] \in Req
  BY <1>1 DEF Found
<1>3. /\ Deleted(requested[p], i) \in Seq(Req)
      /\ Len(Deleted(requested[p], i)) = Len(requested[p]) - 1
      /\ \A k \in 1..Len(requested[p]) - 1 : Deleted(requested[p], i)[k]
             = IF k < i THEN requested[p][k] ELSE requested[p][k + 1]
  BY <1>1, <1>2 DEF Deleted
<1> QED BY <1>1, <1>2, <1>3, TimesWithout

\* What is cancelled is rejected, or the peer leaves.
LEMMA CancelKeeps ==
    ASSUME Types, Accounts, NEW p \in Peer, HandleCancel(p) PROVE Accounts'
<1>1. /\ Running(p) /\ Tail(inbox[p]) \in Seq(InMsg)
      /\ inbox' = [inbox EXCEPT ![p] = Tail(inbox[p])]
      /\ \A r \in Req : Times(Tail(inbox[p]), Asks(r)) = Times(inbox[p], Asks(r))
  BY TakeOther, Zenon DEF HandleCancel, Accounts
<1>2. /\ torn' = [torn EXCEPT ![p] = torn[p]]
      /\ UNCHANGED <<load, outstanding>>
  BY DEF HandleCancel, Accounts, Mail, remote
<1>3. requested[p] \in Seq(Req) /\ writer[p] \in Seq(OutMsg) /\ torn[p] \in BOOLEAN
  BY TypesOf, Zenon DEF Accounts
<1>4. CASE UNCHANGED <<requested, writer, status>>
  <2>1. /\ requested' = [requested EXCEPT ![p] = requested[p]]
        /\ writer' = [writer EXCEPT ![p] = writer[p]]
        /\ UNCHANGED status
    BY <1>4 DEF Accounts, Mail
  <2>2. Fast(p) /\ ~torn[p]
           => Balanced(Tail(inbox[p]), requested[p], writer[p], outstanding[p])
    BY <1>1, Before, Zenon DEF Balanced
  <2> QED BY <1>1, <1>2, <1>3, <2>1, <2>2, OwnStep, Zenon DEF Fast
<1>5. ASSUME NEW i \in Found(p),
             requested' = [requested EXCEPT ![p] = Deleted(requested[p], i)],
             NEW k \in Written(p, Reject(p, <<requested[p][i]>>)),
             Wrote(p, Reject(p, <<requested[p][i]>>), k),
             IF k < Len(Reject(p, <<requested[p][i]>>)) THEN Leave(p)
             ELSE StartStop(p, Deleted(requested[p], i)) /\ UNCHANGED status
      PROVE  Accounts'
  <2> DEFINE x == requested[p][i]
             rej == Reject(p, <<x>>)
             rq == Deleted(requested[p], i)
             wr == writer[p] \o SubSeq(rej, 1, k)
  <2>1. x \in Req
    BY <1>3 DEF Found
  <2>2. rq \in Seq(Req) /\ \A r \in Req : Times(requested[p], {r}) = Times(rq, {r}) + One(x, {r})
    BY <2>1, FoundIs, Zenon DEF Accounts
  <2>3. /\ rej \in Seq(OutMsg)
        /\ Fast(p) => \A r \in Req : Times(rej, Answers(r)) = One(x, {r})
    <3>1. <<x>> \in Seq(Req)
      BY <2>1
    <3> QED BY <3>1, RejectIs, TimesOne, Zenon
  <2>4. k \in 0..Len(rej)
    BY <1>5 DEF Written
  <2>5. /\ writer' = [writer EXCEPT ![p] = wr]
        /\ IF k < Len(rej) THEN Leave(p) ELSE UNCHANGED status
    BY <1>5, Zenon DEF Wrote
  <2>6. requested' = [requested EXCEPT ![p] = rq]
    BY <1>5
  <2> HIDE DEF x, rej, rq
  <2>7. SubSeq(rej, 1, k) \in Seq(OutMsg) /\ (k = Len(rej) => SubSeq(rej, 1, k) = rej)
    BY <2>3, <2>4, WrittenIs
  <2>8. wr \in Seq(OutMsg)
    BY <2>7, ChannelIs, Zenon DEF Accounts
  <2>9. ASSUME status'[p] = "running", Fast(p), ~torn[p]
        PROVE  Balanced(Tail(inbox[p]), rq, wr, outstanding[p])
    <3>1. k = Len(rej)
      <4>1. ~Leave(p)
        BY <2>9 DEF Leave, Types
      <4>2. ~(k < Len(rej))
        BY <2>5, <4>1, Zenon
      <4> QED BY <2>3, <2>4, <4>2
    <3>2. Balanced(inbox[p], requested[p], writer[p], outstanding[p])
      BY <1>1, <2>9, BalancedBefore, Zenon
    <3>3. inbox[p] \in Seq(InMsg)
      BY TypesOf, Zenon DEF Accounts
    <3>4. \A r \in Req : Times(rej, Answers(r)) = One(x, {r})
      BY <2>3, <2>9, Zenon
    <3>5. Balanced(Tail(inbox[p]), rq, writer[p] \o rej, outstanding[p])
      BY <1>1, <1>3, <2>2, <2>3, <3>2, <3>3, <3>4, BalancedAnswered, Zenon
    <3> QED BY <2>7, <3>1, <3>5, Zenon
  <2>10. Leave(p) \/ UNCHANGED status
    BY <2>5
  <2> HIDE DEF wr
  <2> QED BY <1>1, <1>2, <1>3, <2>2, <2>5, <2>6, <2>8, <2>9, <2>10, OwnStep, Zenon DEF Fast
<1> QED BY <1>4, <1>5, Zenon DEF HandleCancel

\* The oldest request is answered.
LEMMA ServeKeeps ==
    ASSUME Types, Accounts, NEW p \in Peer, Serve(p) PROVE Accounts'
<1> DEFINE x == Head(requested[p])
<1>1. requested[p] \in Seq(Req) /\ inbox[p] \in Seq(InMsg) /\ torn[p] \in BOOLEAN
  BY TypesOf, Zenon DEF Accounts
<1>2. Running(p) /\ requested[p] # <<>> /\ x \in Req /\ Tail(requested[p]) \in Seq(Req)
  <2>1. Running(p) /\ requested[p] # <<>>
    BY Zenon DEF Serve
  <2> QED BY <1>1, <2>1, HeadTail, Zenon
<1>3. PICK ms \in {<<Msg("piece", x)>>, Reject(p, <<x>>)} : Wrote(p, ms, Len(ms))
  BY Zenon DEF Serve
<1>4. ms \in Seq(OutMsg) /\ (Fast(p) => \A r \in Req : Times(ms, Answers(r)) = One(x, {r}))
  <2>1. CASE ms = <<Msg("piece", x)>>
    <3>1. Msg("piece", x) \in OutMsg
      BY <1>2 DEF Msg, OutMsg
    <3>2. \A r \in Req : One(Msg("piece", x), Answers(r)) = One(x, {r})
      BY DEF One, Msg, Answers
    <3>3. ms \in Seq(OutMsg)
      BY <2>1, <3>1
    <3>4. \A r \in Req : Times(ms, Answers(r)) = One(Msg("piece", x), Answers(r))
      BY <2>1, TimesOne, Zenon
    <3> QED BY <3>2, <3>3, <3>4
  <2>2. CASE ms = Reject(p, <<x>>)
    <3>1. <<x>> \in Seq(Req)
      BY <1>2
    <3> QED BY <2>2, <3>1, RejectIs, TimesOne, Zenon
  <2> QED BY <1>3, <2>1, <2>2
<1> HIDE DEF x
<1> DEFINE wr == writer[p] \o ms
<1>5. SubSeq(ms, 1, Len(ms)) = ms
  <2>1. Len(ms) \in 0..Len(ms)
    BY <1>4
  <2> QED BY <1>4, <2>1, WrittenIs
<1>6. /\ inbox' = [inbox EXCEPT ![p] = inbox[p]]
      /\ requested' = [requested EXCEPT ![p] = Tail(requested[p])]
      /\ writer' = [writer EXCEPT ![p] = wr]
      /\ torn' = [torn EXCEPT ![p] = torn[p]]
      /\ UNCHANGED <<load, outstanding, status>>
  BY <1>3, <1>5, Zenon DEF Serve, Wrote, Accounts, Mail, remote
<1>7. wr \in Seq(OutMsg)
  BY <1>4, ChannelIs, Zenon DEF Accounts
<1>8. ASSUME Fast(p), ~torn[p]
      PROVE  Balanced(inbox[p], Tail(requested[p]), wr, outstanding[p])
  <2>1. Balanced(inbox[p], requested[p], writer[p], outstanding[p])
    BY <1>2, <1>8, BalancedBefore, Zenon
  <2>2. writer[p] \in Seq(OutMsg)
    BY TypesOf, Zenon DEF Accounts
  <2>3. \A r \in Req : Times(requested[p], {r}) = Times(Tail(requested[p]), {r}) + One(x, {r})
    BY <1>1, <1>2, HeadCounts, Zenon DEF x
  <2>4. \A r \in Req : Times(inbox[p], Asks(r)) = Times(inbox[p], Asks(r))
    OBVIOUS
  <2>5. \A r \in Req : Times(ms, Answers(r)) = One(x, {r})
    BY <1>4, <1>8, Zenon
  <2> QED BY <1>1, <1>2, <1>4, <2>1, <2>2, <2>3, <2>4, <2>5, BalancedAnswered, Zenon
<1> HIDE DEF wr
<1> QED BY <1>1, <1>2, <1>6, <1>7, <1>8, OwnStep, Zenon DEF Fast

\* The peer itself does nothing.
Aside(p) ==
    /\ requested' = [requested EXCEPT ![p] = requested[p]]
    /\ writer' = [writer EXCEPT ![p] = writer[p]]
    /\ torn' = [torn EXCEPT ![p] = torn[p]]
    /\ \A q \in Peer : status'[q] = "running" => status[q] = "running"

LEMMA AsideIs ==
    ASSUME Mail, NEW p \in Peer, UNCHANGED <<requested, writer, torn, status>>
    PROVE  Aside(p)
BY DEF Mail, Aside

\* A message of the remote end: only a request counts, and makes a request
\* that was not made before unanswered.
LEMMA SendKeeps ==
    ASSUME Accounts, NEW p \in Peer, Running(p), NEW m \in InMsg,
           NEW ld \in Loaded,
           load' = [load EXCEPT ![p] = ld], ld.fast = load[p].fast,
           NEW S \in SUBSET Req, outstanding' = [outstanding EXCEPT ![p] = S],
           ld.reqs \cap S = {},
           Asked(S, outstanding[p], m),
           RemoteSend(p, m), Aside(p)
    PROVE  Accounts'
<1> DEFINE in == inbox[p] \o <<m>>
<1>1. /\ inbox[p] \in Seq(InMsg) /\ requested[p] \in Seq(Req) /\ writer[p] \in Seq(OutMsg)
      /\ torn[p] \in BOOLEAN
  BY TypesOf, Zenon DEF Accounts
<1>2. in \in Seq(InMsg) /\ Append(inbox[p], m) = in
  BY <1>1, AppendIs, Zenon
<1>3. inbox' = [inbox EXCEPT ![p] = in]
  BY <1>2, Zenon DEF RemoteSend
<1>4. ASSUME Fast(p), ~torn[p] PROVE Balanced(in, requested[p], writer[p], S)
  <2>1. Balanced(inbox[p], requested[p], writer[p], outstanding[p])
    BY <1>4, BalancedBefore, Zenon
  <2> QED BY <1>1, <2>1, BalancedSent, Zenon
<1>5. /\ requested' = [requested EXCEPT ![p] = requested[p]]
      /\ writer' = [writer EXCEPT ![p] = writer[p]]
      /\ torn' = [torn EXCEPT ![p] = torn[p]]
      /\ \A q \in Peer : status'[q] = "running" => status[q] = "running"
  BY DEF Aside
<1>6. status'[p] = "running" /\ load[p].fast /\ ~torn[p]
         => Balanced(in, requested[p], writer[p], S)
  BY <1>4, Zenon DEF Fast
<1> HIDE DEF in
<1> QED BY <1>1, <1>2, <1>3, <1>5, <1>6, PeerStep, Zenon

LEMMA RemoteKeeps ==
    ASSUME Accounts, NEW p \in Peer,
           RemoteInterest(p) \/ RemoteRequest(p) \/ RemoteCancel(p)
    PROVE  Accounts'
<1>0. /\ load \in [Peer -> Loaded] /\ load[p] \in Loaded /\ outstanding[p] \in SUBSET Req
      /\ load[p].reqs \cap outstanding[p] = {}
      /\ outstanding = [outstanding EXCEPT ![p] = outstanding[p]]
  BY Zenon DEF Accounts, Mail, Fresh
<1>1. CASE RemoteInterest(p)
  <2> DEFINE ld == [load[p] EXCEPT !.turns = load[p].turns - 1]
             m == Sig(IF load[p].turns % 2 = 0 THEN "notinterested" ELSE "interested")
  <2>1. ld \in Loaded /\ ld.fast = load[p].fast /\ ld.reqs = load[p].reqs
    BY <1>0, <1>1 DEF RemoteInterest, Loaded
  <2>2. load' = [load EXCEPT ![p] = ld] /\ RemoteSend(p, m)
    BY <1>1 DEF RemoteInterest
  <2>3. /\ outstanding' = [outstanding EXCEPT ![p] = outstanding[p]]
        /\ Running(p) /\ Aside(p)
    BY <1>0, <1>1, AsideIs DEF RemoteInterest, remote, Accounts
  <2>4. m \in InMsg /\ m.type # "request"
    BY DEF Sig, Msg, InMsg
  <2> HIDE DEF m, ld
  <2>5. Asked(outstanding[p], outstanding[p], m)
    BY <2>4, AsksIs DEF One, Asked
  <2> QED BY <1>0, <2>1, <2>2, <2>3, <2>4, <2>5, SendKeeps, Zenon
<1>2. CASE RemoteRequest(p)
  <2>1. PICK x \in load[p].reqs :
           /\ load' = [load EXCEPT ![p].reqs = @ \ {x}]
           /\ outstanding' = [outstanding EXCEPT ![p] = @ \cup {x}]
           /\ RemoteSend(p, Msg("request", x))
    BY <1>2, Zenon DEF RemoteRequest
  <2> DEFINE ld == [load[p] EXCEPT !.reqs = load[p].reqs \ {x}]
             S == outstanding[p] \cup {x}
             m == Msg("request", x)
  <2>2. x \in Req /\ x \notin outstanding[p]
    BY <1>0 DEF Loaded
  <2>3. /\ ld \in Loaded /\ ld.fast = load[p].fast /\ S \in SUBSET Req
        /\ ld.reqs \cap S = {}
    BY <1>0, <2>2 DEF Loaded
  <2>4. load' = [load EXCEPT ![p] = ld] /\ outstanding' = [outstanding EXCEPT ![p] = S]
    BY <2>1
  <2>5. Running(p) /\ Aside(p)
    BY <1>2, AsideIs DEF RemoteRequest, Accounts
  <2>6. m \in InMsg /\ \A r \in Req : One(m, Asks(r)) = One(x, {r})
    BY <2>2 DEF Msg, InMsg, Asks, One
  <2>7. \A r \in Req : One(r, S) = One(r, outstanding[p]) + One(x, {r})
    BY <2>2 DEF One
  <2>8. Asked(S, outstanding[p], m)
    BY <2>6, <2>7, Zenon DEF Asked
  <2>9. RemoteSend(p, m)
    BY <2>1
  <2> HIDE DEF m, ld, S
  <2> QED BY <2>3, <2>4, <2>5, <2>6, <2>8, <2>9, SendKeeps, Zenon
<1>3. CASE RemoteCancel(p)
  <2>1. PICK x \in outstanding[p] : RemoteSend(p, Msg("cancel", x))
    BY <1>3, Zenon DEF RemoteCancel
  <2> DEFINE ld == [load[p] EXCEPT !.cancels = load[p].cancels - 1]
             m == Msg("cancel", x)
  <2>2. ld \in Loaded /\ ld.fast = load[p].fast /\ ld.reqs = load[p].reqs
    BY <1>0, <1>3 DEF RemoteCancel, Loaded
  <2>3. load' = [load EXCEPT ![p] = ld]
    BY <1>3 DEF RemoteCancel
  <2>4. /\ outstanding' = [outstanding EXCEPT ![p] = outstanding[p]]
        /\ Running(p) /\ Aside(p)
    BY <1>0, <1>3, AsideIs DEF RemoteCancel, remote, Accounts
  <2>5. m \in InMsg /\ m.type # "request"
    BY <1>0 DEF Msg, InMsg
  <2>6. RemoteSend(p, m)
    BY <2>1
  <2> HIDE DEF m, ld
  <2>7. Asked(outstanding[p], outstanding[p], m)
    BY <2>5, AsksIs DEF One, Asked
  <2> QED BY <1>0, <2>2, <2>3, <2>4, <2>5, <2>6, <2>7, SendKeeps, Zenon
<1> QED BY <1>1, <1>2, <1>3

\* An answer that arrives settles its request.
LEMMA ReceiveKeeps ==
    ASSUME Accounts, NEW p \in Peer, RemoteReceive(p) PROVE Accounts'
<1> DEFINE m == Head(writer[p])
           S == IF m.type = "choke" /\ ~Fast(p) THEN {} ELSE outstanding[p] \ {m.req}
<1>1. /\ inbox[p] \in Seq(InMsg) /\ requested[p] \in Seq(Req) /\ writer[p] \in Seq(OutMsg)
      /\ outstanding[p] \in SUBSET Req /\ torn[p] \in BOOLEAN
  BY TypesOf DEF Accounts
<1>2. Running(p) /\ writer[p] # <<>> /\ m \in OutMsg /\ Tail(writer[p]) \in Seq(OutMsg)
  <2>1. Running(p) /\ writer[p] # <<>>
    BY Zenon DEF RemoteReceive
  <2> QED BY <1>1, <2>1, HeadTail, Zenon
<1>3. /\ load' = [load EXCEPT ![p] = load[p]]
      /\ inbox' = [inbox EXCEPT ![p] = inbox[p]]
      /\ requested' = [requested EXCEPT ![p] = requested[p]]
      /\ torn' = [torn EXCEPT ![p] = torn[p]]
      /\ writer' = [writer EXCEPT ![p] = Tail(writer[p])]
      /\ outstanding' = [outstanding EXCEPT ![p] = S]
      /\ \A q \in Peer : status'[q] = "running" => status[q] = "running"
  BY Zenon DEF RemoteReceive, Accounts, Mail
<1>4. /\ load[p] \in Loaded
      /\ S \in SUBSET Req /\ load[p].reqs \cap S = {}
  BY <1>1, Zenon DEF Accounts, Mail, Fresh
<1>5. ASSUME Fast(p), ~torn[p]
      PROVE  Balanced(inbox[p], requested[p], Tail(writer[p]), S)
  <2>1. ASSUME NEW r \in Req
        PROVE  Times(inbox[p], Asks(r)) + Times(requested[p], {r})
                 + Times(Tail(writer[p]), Answers(r)) = One(r, S)
    <3>1. Times(writer[p], Answers(r)) = One(m, Answers(r)) + Times(Tail(writer[p]), Answers(r))
      BY <1>1, <1>2, TimesTail, Zenon
    <3>2. /\ Times(inbox[p], Asks(r)) \in Nat
          /\ Times(requested[p], {r}) \in Nat
          /\ Times(inbox[p], Asks(r)) + Times(requested[p], {r})
                + Times(writer[p], Answers(r)) = One(r, outstanding[p])
      BY <1>2, <1>5, Before, Zenon
    <3>3. Times(Tail(writer[p]), Answers(r)) \in Nat
      BY <1>2, TimesNat, Zenon
    <3>4. S = outstanding[p] \ {m.req}
      BY <1>5, Zenon
    <3>5. CASE m \in Answers(r)
      <4>1. m.req = r
        BY <3>5 DEF Answers, Msg
      <4>2. One(r, S) = 0 /\ One(m, Answers(r)) = 1 /\ One(r, outstanding[p]) \in 0..1
        BY <3>4, <3>5, <4>1 DEF One
      <4> HIDE DEF m, S
      <4> QED BY <3>1, <3>2, <3>3, <4>2
    <3>6. CASE m \notin Answers(r)
      <4>1. m.req # r
        BY <1>2, <3>6, UploadAssumption DEF Answers, Msg, OutMsg
      <4>2. One(r, S) = One(r, outstanding[p]) /\ One(m, Answers(r)) = 0
        BY <3>4, <3>6, <4>1, Zenon DEF One
      <4> HIDE DEF m, S
      <4> QED BY <3>1, <3>2, <3>3, <4>2
    <3> QED BY <3>5, <3>6, Zenon
  <2> QED BY <2>1, Zenon DEF Balanced
<1>6. status'[p] = "running" /\ load[p].fast /\ ~torn[p]
         => Balanced(inbox[p], requested[p], Tail(writer[p]), S)
  BY <1>5, Zenon DEF Fast
<1> HIDE DEF S, m
<1> QED BY <1>1, <1>2, <1>3, <1>4, <1>6, PeerStep, Zenon

LEMMA AccountsInit == ASSUME Init PROVE Accounts
<1>1. Mail /\ Fresh
  BY UploadAssumption DEF Init, Mail, Fresh, Loaded
<1>2. ASSUME NEW p \in Peer PROVE Book(p)
  <2>1. /\ inbox[p] = <<>> /\ requested[p] = <<>> /\ writer[p] = <<>> /\ outstanding[p] = {}
    BY DEF Init
  <2>2. \A r \in Req : One(r, {}) = 0
    BY DEF One
  <2>3. \A r \in Req : Times(<<>>, Asks(r)) + Times(<<>>, {r}) + Times(<<>>, Answers(r)) = 0
    BY TimesEmpty
  <2> QED BY <2>1, <2>2, <2>3, Zenon DEF Book, Balanced
<1> QED BY <1>1, <1>2 DEF Accounts

LEMMA AccountsStep == ASSUME Inv, Accounts, [Next]_vars PROVE Accounts'
<1>0. Types
  BY DEF Inv
<1>1. CASE Torrent
  <2>1. UNCHANGED <<load, inbox, requested, writer, outstanding, torn, status>>
    BY <1>1, Zenon DEF Torrent, PeerInterested, PeerGoaway, SlowTicker, MaybeUnchoke, remote
  <2> QED BY <2>1, QuietStep
<1>2. ASSUME NEW p \in Peer, Messages(p) PROVE Accounts'
  <2>1. CASE HandleRequest(p)
    BY <1>0, <2>1, RequestRefused, RequestTaken
  <2> QED BY <1>0, <1>2, <2>1, InterestedKeeps, NotInterestedKeeps, CancelKeeps DEF Messages
<1>3. ASSUME NEW p \in Peer, IdleTick(p) \/ Disconnect(p) \/ Return(p) PROVE Accounts'
  <2>1. UNCHANGED <<load, inbox, requested, writer, outstanding, torn>>
    BY <1>3, Zenon DEF IdleTick, Disconnect, Return, remote
  <2>2. \A q \in Peer : status'[q] = "running" => status[q] = "running"
    BY <1>0, <1>3 DEF IdleTick, Disconnect, Return, Leave, Types
  <2> QED BY <2>1, <2>2, QuietStep
<1>4. CASE UNCHANGED vars
  <2>1. UNCHANGED <<load, inbox, requested, writer, outstanding, torn, status>>
    BY <1>4 DEF vars, remote
  <2> QED BY <2>1, QuietStep
<1> QED BY <1>0, <1>1, <1>2, <1>3, <1>4, ServeKeeps, UnchokeKeeps, RemoteKeeps, ReceiveKeeps,
           Zenon DEF Next

(* No request of a peer that has the Fast extension is lost or answered    *)
(* twice, whatever is choked, cancelled, dropped for being one too many or *)
(* evicted meanwhile, for any number of requests and any capacities; the   *)
(* exception is the choke of NotInterested whose rejections could not all  *)
(* be written (peer/peer.go:825, where the error of unchoke is dropped).   *)
THEOREM UploadAnsweredOnce == Spec => []AnsweredOnce
<1>1. Init => Inv /\ Accounts
  BY InitInv, AccountsInit
<1>2. Inv /\ Accounts /\ [Next]_vars => (Inv /\ Accounts)'
  BY StepInv, AccountsStep
<1>3. Accounts => AnsweredOnce
  BY AccountsSuffice
<1> QED BY <1>1, <1>2, <1>3, PTL DEF Spec
=============================================================================
