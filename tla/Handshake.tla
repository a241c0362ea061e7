------------------------------ MODULE Handshake ------------------------------
(***************************************************************************)
(* The handshake that opens a connection between two storrents: the        *)
(* BitTorrent handshake of protocol/handshake.go, in clear or inside the   *)
(* obfuscated handshake of crypto/crypto.go, and DialClient's second try   *)
(* (tor/initial.go).  "C" is the end that dials, "S" the end that accepts. *)
(*                                                                         *)
(* A stream is a sequence of cells.  A field of a message is a few cells,  *)
(* so that the network may cut it anywhere: TCP hands a Read any non-empty *)
(* prefix of what has arrived.  A cell is <<field, number, position>>;     *)
(* position is its place in the RC4 key stream it was encrypted with, or   *)
(* Clear.  Decrypting a cell at any other place yields noise, which is     *)
(* what makes a lost or a doubled byte, or a buffer that was decrypted     *)
(* twice or not at all, visible.                                           *)
(*                                                                         *)
(* Both ends run the code under src/; the lengths below are scaled, and    *)
(* keep the inequalities between the real ones.  The padding of unused     *)
(* length (padC, padD) that storrent always sends empty is left out.       *)
(***************************************************************************)
EXTENDS Integers, Sequences

CONSTANTS
    KeyLen,      \* a public key (96 bytes)
    PadMax,      \* the longest padding after it (511)
    HeaderLen,   \* "\19BitTorrent protocol" (20)
    HashLen,     \* reserved bits and info hash (8 + 20)
    IdLen,       \* peer id (20)
    ReqLen,      \* req1, and req2 xor req3 (20 each)
    VcLen,       \* the verification constant (8)
    SelLen,      \* crypto_provide or crypto_select, and a length (4 + 2)
    IaLen,       \* the length of the initial payload (2)
    MaxMsg       \* bound: cells an end sends after its handshake

HandshakeLen == HeaderLen + HashLen + IdLen

(* A clear handshake is shorter than a key: it is what lets the server     *)
(* pass everything it has read to the obfuscated handshake.                *)
ASSUME LengthsAssumption ==
    /\ {KeyLen, PadMax, HeaderLen, HashLen, IdLen, ReqLen, VcLen, SelLen, IaLen}
          \subseteq Nat \ {0}
    /\ HandshakeLen < KeyLen
    /\ MaxMsg \in Nat

VARIABLES
    options,          \* the encryption policy of each end
    served,           \* the server has the client's torrent
    cryptoHandshake,  \* DialClient's local variable of that name
    pc,               \* where each end is
    wire,             \* what is on its way to each end
    buf,              \* what each end has read and not yet parsed
    grew,             \* the current readMore had to read
    select,           \* crypto_select as the server chose it; 0: not yet
    conn,             \* "plain" or "rc4": the connection each end uses
    enc, dec,         \* the places in the key streams
    sent,             \* cells sent after the handshake
    data,             \* cells handed to the peer's reader
    expired,          \* history: some deadline passed
    cut               \* history: the server's parsing met a cut, see Filled

config == <<options, served>>
handshakeVars == <<options, served, cryptoHandshake, pc, wire, buf, grew, select, conn,
          enc, dec, sent, data, expired, cut>>

Side == {"C", "S"}
Other(e) == IF e = "C" THEN "S" ELSE "C"

-----------------------------------------------------------------------------
(* Policies (crypto.DefaultOptions).                                       *)

DefaultOptions(prefer, force) ==
    [AllowCryptoHandshake  |-> TRUE,
     PreferCryptoHandshake |-> prefer \/ force,
     ForceCryptoHandshake  |-> force,
     AllowEncryption       |-> TRUE,
     PreferEncryption      |-> prefer \/ force,
     ForceEncryption       |-> force]

Policies == UNION {{DefaultOptions(p, f) : p \in BOOLEAN} : f \in BOOLEAN}

(* What a client offers: 1 is clear text, 2 is RC4.                        *)
CryptoProvide(o) ==
    (IF o.ForceEncryption THEN {} ELSE {1})
        \cup (IF o.AllowEncryption THEN {2} ELSE {})

(* Faulty variant: only preferences are looked at.                         *)
CryptoSelectPreferred(provide, o) ==
    CASE 2 \in provide /\ o.AllowEncryption /\ o.PreferEncryption -> 2
      [] 1 \in provide /\ ~o.ForceEncryption /\ ~o.PreferEncryption -> 1
      [] OTHER -> 0

(* Faulty variant: the first method that the client offers.                *)
CryptoSelectFirst(provide, o) == IF 1 \in provide THEN 1 ELSE 2

(* What the server chooses from that; 0 when nothing suits both.           *)
CryptoSelect(provide, o) ==
    CASE 2 \in provide /\ o.AllowEncryption /\ o.PreferEncryption -> 2
      [] 1 \in provide /\ ~o.ForceEncryption /\ ~o.PreferEncryption -> 1
      [] 2 \in provide /\ o.AllowEncryption -> 2
      [] 1 \in provide /\ ~o.ForceEncryption -> 1
      [] OTHER -> 0

-----------------------------------------------------------------------------
(* Cells.                                                                  *)

Clear == -1
Noise == <<"noise", 0, Clear>>
Field(f, n) == [k \in 1..n |-> <<f, k, Clear>>]
Zeros(n) == Field("zero", n)

Encrypt(cells, p) ==
    [i \in DOMAIN cells |-> <<cells[i][1], cells[i][2], p + i - 1>>]

Decrypt(cells, p) ==
    [i \in DOMAIN cells |->
        IF cells[i][3] = p + i - 1 THEN <<cells[i][1], cells[i][2], Clear>>
                                   ELSE Noise]

Drop(s, n) == SubSeq(s, n + 1, Len(s))
Take(s, n) == SubSeq(s, 1, n)

HasPrefix(b, f) == Len(f) <= Len(b) /\ \A k \in 1..Len(f) : b[k] = f[k]

(* protocol.handshake and checkHeader.                                     *)
Handshake == Field("header", HeaderLen) \o Field("hash", HashLen) \o Field("id", IdLen)
CheckHeader(b) == HasPrefix(b, Field("header", HeaderLen))

(* What Read returns on e's connection (crypto.Conn decrypts).             *)
Received(e, cells) ==
    IF conn[e] = "rc4" THEN Decrypt(cells, dec[e]) ELSE cells

(* What Write puts on the wire (crypto.Conn encrypts).                     *)
Written(e, cells) ==
    IF conn[e] = "rc4" THEN Encrypt(cells, enc[e]) ELSE cells

-----------------------------------------------------------------------------
(* Reading.  readMore(conn, buf, n, m) reads until n cells are there, and  *)
(* leaves room for m; synchronise reads until it finds a pattern.          *)

KeyRoom == KeyLen + PadMax + 1
Whole == 2 * ReqLen + VcLen + SelLen + IaLen + HandshakeLen   \* C's second write
Large == PadMax + Whole + 1                                   \* 1024, 1500

Need == [yb     |-> KeyLen,              ya    |-> KeyLen,
         select |-> SelLen,              reply |-> HandshakeLen,
         head   |-> HeaderLen,           req23 |-> ReqLen,
         vc     |-> VcLen + SelLen,      lenIa |-> IaLen,
         ia     |-> HandshakeLen,        hash  |-> HashLen,
         id     |-> IdLen,
         sync   |-> VcLen + PadMax + 1,  req1  |-> 4 + KeyLen + PadMax + 1]

Room == [yb     |-> KeyRoom,             ya    |-> KeyRoom,
         select |-> SelLen,              reply |-> HandshakeLen,
         head   |-> HandshakeLen,        req23 |-> Large,
         vc     |-> VcLen + SelLen + IaLen + PadMax + 1,
         lenIa  |-> Large,
         ia     |-> HandshakeLen,        hash  |-> HashLen + IdLen,
         id     |-> IdLen,
         sync   |-> VcLen + PadMax + 1 + SelLen,
         req1   |-> Large]

(* The pattern each side synchronises on: the encrypted verification       *)
(* constant, and hash("req1", s).                                          *)
Pattern(e) ==
    IF e = "C" THEN Encrypt(Field("vc", VcLen), 0) ELSE Field("req1", ReqLen)

Synchronising(e) == pc[e] \in {"sync", "req1"}
Found(e) == {i \in 0..(Len(buf[e]) - Len(Pattern(e))) :
                SubSeq(buf[e], i + 1, i + Len(Pattern(e))) = Pattern(e)}

(* The end is blocked in Read.                                             *)
Starved(e) ==
    /\ pc[e] \in DOMAIN Need
    /\ Len(buf[e]) < Need[pc[e]]
    /\ Synchronising(e) => Found(e) = {}

(* crypto.readMore returns the buffer it enlarged, not the part of it that *)
(* it filled: what the server has not received yet reads as zeros.  (The   *)
(* client only calls it with m = n, and protocol.readMore truncates.)      *)
Padded(e) == grew[e] /\ pc[e] \in {"req23", "vc", "lenIa"}
Filled(e) ==
    IF Padded(e) THEN buf[e] \o Zeros(Room[pc[e]] - Len(buf[e])) ELSE buf[e]

-----------------------------------------------------------------------------
(* Steps common to both ends.                                              *)

Put(e, cells) ==
    wire' = IF pc[Other(e)] = "closed" THEN wire
            ELSE [wire EXCEPT ![Other(e)] = @ \o cells]

Goto(e, next, rest) ==
    /\ pc' = [pc EXCEPT ![e] = next]
    /\ buf' = [buf EXCEPT ![e] = rest]
    /\ grew' = [grew EXCEPT ![e] = FALSE]
    /\ cut' = (cut \/ Padded(e))

(* An error: Server and Client close the connection.                       *)
Fail(e) ==
    /\ Goto(e, "closed", <<>>)
    /\ wire' = [wire EXCEPT ![e] = <<>>]
    /\ UNCHANGED <<cryptoHandshake, select, conn, enc, dec, sent, data>>

Read(e) ==
    /\ Starved(e)
    /\ \E k \in 1..Len(wire[e]) :
        /\ Len(buf[e]) + k <= Room[pc[e]]
        /\ buf' = [buf EXCEPT ![e] = @ \o Received(e, Take(wire[e], k))]
        /\ wire' = [wire EXCEPT ![e] = Drop(@, k)]
        /\ dec' = [dec EXCEPT ![e] = IF conn[e] = "rc4" THEN @ + k ELSE @]
    /\ grew' = [grew EXCEPT ![e] = TRUE]
    /\ UNCHANGED <<config, cryptoHandshake, pc, select, conn, enc, sent, data,
                   expired, cut>>

EOF(e) ==
    /\ Starved(e)
    /\ wire[e] = <<>>
    /\ pc[Other(e)] = "closed"
    /\ Fail(e)
    /\ UNCHANGED <<config, expired>>

(* The deadline set at the start of the handshake: 30 or 90 seconds.       *)
Expire(e) ==
    /\ pc[e] \notin {"up", "closed"}
    /\ Fail(e)
    /\ expired' = TRUE
    /\ UNCHANGED config

-----------------------------------------------------------------------------
(* The client: DialClient, protocol.ClientHandshake, crypto.ClientHandshake *)

Dial ==
    /\ pc["C"] = "dial"
    /\ IF cryptoHandshake
       THEN \E n \in 0..PadMax :
                /\ Put("C", Field("key", KeyLen) \o Field("pad", n))
                /\ Goto("C", "yb", <<>>)
       ELSE /\ Put("C", Handshake)
            /\ Goto("C", "reply", <<>>)
    /\ UNCHANGED <<config, cryptoHandshake, select, conn, enc, dec, sent, data,
                   expired>>

ClientKey ==
    /\ pc["C"] = "yb" /\ ~Starved("C")
    /\ LET secret == Field("vc", VcLen) \o Field("provide", SelLen)
                        \o Field("lenIa", IaLen) \o Handshake
       IN  /\ Put("C", Field("req1", ReqLen) \o Field("req23", ReqLen)
                          \o Encrypt(secret, 0))
           /\ enc' = [enc EXCEPT !["C"] = Len(secret)]
    /\ Goto("C", "sync", Drop(buf["C"], KeyLen))
    /\ UNCHANGED <<config, cryptoHandshake, select, conn, dec, sent, data, expired>>

Synchronise(e, next) ==
    /\ pc[e] \in {"sync", "req1"} /\ ~Starved(e)
    /\ \/ /\ Found(e) = {}
          /\ Fail(e)
       \/ \E i \in Found(e) :
            /\ \A j \in Found(e) : i <= j
            /\ Goto(e, next, Drop(buf[e], i + Len(Pattern(e))))
            /\ dec' = [dec EXCEPT ![e] = IF e = "C" THEN VcLen ELSE 0]
            /\ UNCHANGED <<cryptoHandshake, wire, select, conn, enc, sent, data>>
    /\ UNCHANGED <<config, expired>>

(* Faulty variant: the cells read together with crypto_select are handed   *)
(* on as they were received.                                               *)
ClientSelectRaw ==
    /\ pc["C"] = "select" /\ ~Starved("C")
    /\ LET rest == Drop(buf["C"], SelLen)
           p == dec["C"] + SelLen
       IN  /\ Goto("C", "reply", rest)
           /\ conn' = [conn EXCEPT !["C"] = IF select = 2 THEN "rc4" ELSE "plain"]
           /\ dec' = [dec EXCEPT !["C"] = p]
           /\ UNCHANGED <<cryptoHandshake, wire, select, enc, sent, data>>
    /\ UNCHANGED <<config, expired>>

ClientSelect ==
    /\ pc["C"] = "select" /\ ~Starved("C")
    /\ LET stuff == Decrypt(Take(buf["C"], SelLen), dec["C"])
           rest == Drop(buf["C"], SelLen)
           p == dec["C"] + SelLen
           known == stuff = Field("select", SelLen)
       IN  \/ /\ known /\ select = 1 /\ ~options["C"].ForceEncryption
              /\ Goto("C", "reply", rest)
              /\ dec' = [dec EXCEPT !["C"] = p]
              /\ UNCHANGED <<cryptoHandshake, wire, select, conn, enc, sent, data>>
           \/ /\ known /\ select = 2 /\ options["C"].AllowEncryption
              /\ Goto("C", "reply", Decrypt(rest, p))
              /\ conn' = [conn EXCEPT !["C"] = "rc4"]
              /\ dec' = [dec EXCEPT !["C"] = p + Len(rest)]
              /\ UNCHANGED <<cryptoHandshake, wire, select, enc, sent, data>>
           \/ /\ ~known \/ (select = 1 /\ options["C"].ForceEncryption)
              /\ Fail("C")
    /\ UNCHANGED <<config, expired>>

(* Faulty variant: the second try repeats the first.                       *)
FallbackSame(crypto) == crypto

(* The kind of handshake of the second try.                                *)
Fallback(crypto) == ~crypto

(* DialClient's conditions for another try after ErrBadHandshake.          *)
Again(o, crypto) ==
    \/ o.PreferCryptoHandshake /\ ~o.ForceCryptoHandshake /\ crypto
    \/ ~o.PreferCryptoHandshake /\ o.AllowCryptoHandshake /\ ~crypto

(* A new connection, and a new Server at the other side of it.             *)
Redial ==
    /\ cryptoHandshake' = Fallback(cryptoHandshake)
    /\ pc' = [C |-> "dial", S |-> IF options["S"] \in Policies THEN "head" ELSE "alien"]
    /\ wire' = [e \in Side |-> <<>>]
    /\ buf' = [e \in Side |-> <<>>]
    /\ grew' = [e \in Side |-> FALSE]
    /\ select' = 0
    /\ conn' = [e \in Side |-> "plain"]
    /\ enc' = [e \in Side |-> 0]
    /\ dec' = [e \in Side |-> 0]
    /\ UNCHANGED <<sent, data, cut>>

ClientReply ==
    /\ pc["C"] = "reply" /\ ~Starved("C")
    /\ \/ /\ ~CheckHeader(buf["C"])             \* ErrBadHandshake
          /\ IF Again(options["C"], cryptoHandshake) THEN Redial ELSE Fail("C")
       \/ /\ CheckHeader(buf["C"]) /\ ~HasPrefix(buf["C"], Handshake)
          /\ Fail("C")                          \* unexpected infoHash
       \/ /\ HasPrefix(buf["C"], Handshake)
          /\ Goto("C", "up", <<>>)
          /\ data' = [data EXCEPT !["C"] = Drop(buf["C"], HandshakeLen)]
          /\ UNCHANGED <<cryptoHandshake, wire, select, conn, enc, dec, sent>>
    /\ UNCHANGED <<config, expired>>

-----------------------------------------------------------------------------
(* The server: protocol.ServerHandshake, crypto.ServerHandshake.           *)

ServerHead ==
    /\ pc["S"] = "head" /\ ~Starved("S")
    /\ LET ok == CheckHeader(buf["S"])
       IN  \/ /\ ok /\ ~options["S"].ForceCryptoHandshake
              /\ Goto("S", "hash", Drop(buf["S"], HeaderLen))
              /\ UNCHANGED <<cryptoHandshake, wire, select, conn, enc, dec, sent, data>>
           \/ /\ ~ok /\ options["S"].AllowCryptoHandshake
              /\ Goto("S", "ya", buf["S"])
              /\ UNCHANGED <<cryptoHandshake, wire, select, conn, enc, dec, sent, data>>
           \/ /\ IF ok THEN options["S"].ForceCryptoHandshake
                       ELSE ~options["S"].AllowCryptoHandshake
              /\ Fail("S")
    /\ UNCHANGED <<config, expired>>

ServerKey ==
    /\ pc["S"] = "ya" /\ ~Starved("S")
    /\ \E n \in 0..PadMax : Put("S", Field("key", KeyLen) \o Field("pad", n))
    /\ Goto("S", "req1", Drop(buf["S"], KeyLen))
    /\ UNCHANGED <<config, cryptoHandshake, select, conn, enc, dec, sent, data, expired>>

ServerReq23 ==
    /\ pc["S"] = "req23" /\ ~Starved("S")
    /\ LET b == Filled("S")
       IN  IF served /\ HasPrefix(b, Field("req23", ReqLen))
           THEN /\ Goto("S", "vc", Drop(b, ReqLen))
                /\ UNCHANGED <<cryptoHandshake, wire, select, conn, enc, dec, sent, data>>
           ELSE Fail("S")                       \* unknown torrent
    /\ UNCHANGED <<config, expired>>

(* A field that is noise fails here: "bad VC", or, after a verification    *)
(* constant that arrived whole, lengths and offers made of key stream.     *)
ServerSecret(f, n, at, next) ==
    /\ pc["S"] = at /\ ~Starved("S")
    /\ LET b == Filled("S")
       IN  IF HasPrefix(Decrypt(b, dec["S"]), f)
           THEN /\ Goto("S", next, Drop(b, n))
                /\ dec' = [dec EXCEPT !["S"] = @ + n]
                /\ UNCHANGED <<cryptoHandshake, wire, select, conn, enc, sent, data>>
           ELSE Fail("S")
    /\ UNCHANGED <<config, expired>>

ServerVc ==
    ServerSecret(Field("vc", VcLen) \o Field("provide", SelLen), VcLen + SelLen,
                 "vc", "lenIa")

ServerLenIa ==
    ServerSecret(Field("lenIa", IaLen), IaLen, "lenIa", "ia")

ServerIa ==
    /\ pc["S"] = "ia" /\ ~Starved("S")
    /\ LET ia == Decrypt(Take(buf["S"], HandshakeLen), dec["S"])
           choice == CryptoSelect(CryptoProvide(options["C"]), options["S"])
           secret == Field("vc", VcLen) \o Field("select", SelLen)
       IN  IF /\ Len(buf["S"]) = HandshakeLen   \* no extra data after handshake
              /\ choice # 0
              /\ CheckHeader(ia)
           THEN /\ Put("S", Encrypt(secret, 0))
                /\ Goto("S", "hash", Drop(ia, HeaderLen))
                /\ select' = choice
                /\ conn' = [conn EXCEPT !["S"] = IF choice = 2 THEN "rc4" ELSE "plain"]
                /\ enc' = [enc EXCEPT !["S"] = Len(secret)]
                /\ dec' = [dec EXCEPT !["S"] = @ + HandshakeLen]
                /\ UNCHANGED <<cryptoHandshake, sent, data>>
           ELSE Fail("S")
    /\ UNCHANGED <<config, expired>>

(* The reply is written before the peer's id is read.                      *)
ServerHash ==
    /\ pc["S"] = "hash" /\ ~Starved("S")
    /\ IF served /\ HasPrefix(buf["S"], Field("hash", HashLen))
       THEN /\ Put("S", Written("S", Handshake))
            /\ enc' = [enc EXCEPT !["S"] = IF conn["S"] = "rc4" THEN @ + HandshakeLen ELSE @]
            /\ Goto("S", "id", Drop(buf["S"], HashLen))
            /\ UNCHANGED <<cryptoHandshake, select, conn, dec, sent, data>>
       ELSE Fail("S")                           \* unknown torrent
    /\ UNCHANGED <<config, expired>>

ServerId ==
    /\ pc["S"] = "id" /\ ~Starved("S")
    /\ Goto("S", "up", <<>>)
    /\ data' = [data EXCEPT !["S"] = Drop(buf["S"], IdLen)]
    /\ UNCHANGED <<config, cryptoHandshake, wire, select, conn, enc, dec, sent, expired>>

-----------------------------------------------------------------------------
(* After the handshake the peer's Writer and Reader use the connection.    *)

Write(e) ==
    /\ pc[e] = "up" /\ sent[e] < MaxMsg
    /\ Put(e, Written(e, <<<<"msg", sent[e] + 1, Clear>>>>))
    /\ enc' = [enc EXCEPT ![e] = IF conn[e] = "rc4" THEN @ + 1 ELSE @]
    /\ sent' = [sent EXCEPT ![e] = @ + 1]
    /\ UNCHANGED <<config, cryptoHandshake, pc, buf, grew, select, conn, dec, data,
                   expired, cut>>

Receive(e) ==
    /\ pc[e] = "up" /\ wire[e] # <<>>
    /\ data' = [data EXCEPT ![e] = @ \o Received(e, wire[e])]
    /\ dec' = [dec EXCEPT ![e] = IF conn[e] = "rc4" THEN @ + Len(wire[e]) ELSE @]
    /\ wire' = [wire EXCEPT ![e] = <<>>]
    /\ UNCHANGED <<config, cryptoHandshake, pc, buf, grew, select, conn, enc, sent,
                   expired, cut>>

-----------------------------------------------------------------------------
(* Something that is not a BitTorrent server answers in its own protocol.  *)
Alien ==
    /\ pc["S"] = "alien"
    /\ \E n \in {HandshakeLen, KeyLen + Need.sync} : Put("S", [k \in 1..n |-> Noise])
    /\ pc' = [pc EXCEPT !["S"] = "closed"]
    /\ UNCHANGED <<config, cryptoHandshake, buf, grew, select, conn, enc, dec, sent,
                   data, expired, cut>>

HandshakeInit ==
    /\ options \in [C : Policies, S : Policies \cup {[alien |-> TRUE]}]
    /\ served \in BOOLEAN
    /\ cryptoHandshake = (options["C"].PreferCryptoHandshake
                            /\ options["C"].AllowCryptoHandshake)
    /\ pc = [C |-> "dial", S |-> IF options["S"] \in Policies THEN "head" ELSE "alien"]
    /\ wire = [e \in Side |-> <<>>]
    /\ buf = [e \in Side |-> <<>>]
    /\ grew = [e \in Side |-> FALSE]
    /\ select = 0
    /\ conn = [e \in Side |-> "plain"]
    /\ enc = [e \in Side |-> 0]
    /\ dec = [e \in Side |-> 0]
    /\ sent = [e \in Side |-> 0]
    /\ data = [e \in Side |-> <<>>]
    /\ expired = FALSE
    /\ cut = FALSE

ClientStep == Dial \/ ClientKey \/ Synchronise("C", "select") \/ ClientSelect \/ ClientReply

ServerStep == \/ ServerHead \/ ServerKey \/ Synchronise("S", "req23") \/ ServerReq23
              \/ ServerVc \/ ServerLenIa \/ ServerIa \/ ServerHash \/ ServerId

EndStep(e) ==
    \/ e = "C" /\ ClientStep
    \/ e = "S" /\ (ServerStep \/ Alien)
    \/ Read(e) \/ EOF(e) \/ Expire(e) \/ Write(e) \/ Receive(e)

HandshakeNext == \E e \in Side : EndStep(e)

HandshakeSpec == HandshakeInit /\ [][HandshakeNext]_handshakeVars

(* The scheduler runs both ends, and deadlines pass.                       *)
HandshakeFairSpec == HandshakeSpec /\ \A e \in Side : WF_handshakeVars(EndStep(e))

-----------------------------------------------------------------------------
Up(e) == pc[e] = "up"

(* The two ends mean the same thing by the connection: when both hand it   *)
(* to a peer they use the same cipher, and neither hands over one that its *)
(* policy forbids, in the handshake or after it.                           *)
Agreement ==
    /\ Up("C") /\ Up("S") => conn["C"] = conn["S"]
    /\ \A e \in Side : Up(e) =>
        /\ options[e].ForceEncryption => conn[e] = "rc4"
        /\ options[e].ForceCryptoHandshake => cryptoHandshake

(* No cell is lost, repeated, or decrypted at the wrong place at the joint *)
(* between the handshake and the connection: what the reader of either end *)
(* sees is what the other end wrote, from its first cell.                  *)
StreamIntact ==
    \A e \in Side : Up(e) =>
        /\ data[e] = Field("msg", Len(data[e]))
        /\ Len(data[e]) <= sent[Other(e)]

(* Two willing ends connect.  A handshake is refused only when a deadline  *)
(* passed, the torrent is not there, the client spoke in clear to a server *)
(* that forbids it, the server is not one, or the network cut the client's *)
(* second message before the length of its payload.                        *)
RefusedForCause ==
    \A e \in Side : pc[e] = "closed" =>
        \/ expired \/ cut \/ ~served
        \/ options["S"] \notin Policies
        \/ options["S"].ForceCryptoHandshake /\ ~cryptoHandshake

(* Every connection ends up with a peer or closed, second tries included.  *)
Settles == <>[](\A e \in Side : pc[e] \in {"up", "closed"})

=============================================================================
