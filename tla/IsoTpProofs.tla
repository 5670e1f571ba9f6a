---------------------------- MODULE IsoTpProofs ----------------------------
(***************************************************************************)
(* Theorems about the ISO-TP transport, for any frame sizes, sequence      *)
(* numbers, block sizes, lengths and bounds: its types, that it implements *)
(* the abstract exchange of PduExchange, that responses are whole as long  *)
(* as no frame is repeated, however many are lost, that the sending loop   *)
(* stays within the ECU's blocks, and that nothing is broken off that      *)
(* meets no fault.                                                         *)
(*                                                                         *)
(* Wholeness and the exchange need to know, while the ends are in step,    *)
(* what the frames on the bus are parts of and how far the other end can   *)
(* have got (InStep): a receiver that has missed a frame stays behind      *)
(* every frame that is still to come, whatever sequence numbers say, and   *)
(* so never reaches the announced length.  Blocks relates the two ends'    *)
(* counts of a block; LockStep says exactly where both are as long as      *)
(* there is no fault.                                                      *)
(***************************************************************************)
EXTENDS IsoTp, SequenceTheorems, FiniteSetTheorems, TLAPS

Pdus == Requests \cup Responses
PduBytes == Seq(Pdus \X Nat)

Singles == [type : {"SF"}, data : PduBytes \ {<<>>}]
Firsts == {f \in [type : {"FF"}, len : Nat, data : PduBytes \ {<<>>}] : Len(f.data) <= f.len}
Consecutives == [type : {"CF"}, seq : Nat, data : PduBytes]
Flows(S) == [type : {"FC"}, status : {"cts", "wait", "overflow"}, bs : S]
Frames(S) == Singles \cup Firsts \cup Consecutives \cup Flows(S)

\* What holds of a queue whatever happens: its frames are frames, and the PDUs
\* whose first bytes are on their way in it are in P.
QueueOK(q, S, P) ==
    /\ q \in Seq(Frames(S))
    /\ \A i \in 1..Len(q) : q[i].type \in {"SF", "FF"} => Meaning(q[i].data) \in P

CallOK ==
    /\ call \in 0..MaxCalls /\ (call = 0 <=> req = NoRequest)
    /\ req \in Requests \cup {NoRequest} /\ asked \subseteq Requests
    /\ given \subseteq Responses
    /\ faults \in 0..MaxFaults /\ repeated \in BOOLEAN

Txs == [off : Nat, seq : 0..(SeqMod - 1), block : Nat, bs : EcuBlocks \cup {0}]
Rxs == [bytes : PduBytes, len : 0..MaxPayload, seq : 0..(SeqMod - 1), block : Nat]
Counts == [wait : 0..MaxWait, unrelated : 0..MaxUnrelated,
           foreign : 0..MaxForeign, pending : 0..MaxPending]
Results == [status : {"idle", "pending", "ok", "broken", "limit", "refused"}, bytes : PduBytes]

LocalsOK ==
    /\ pc \in {"idle", "flow", "send", "pdu", "cont"}
    /\ tx \in Txs /\ rx \in Rxs /\ count \in Counts /\ result \in Results
    /\ Len(rx.bytes) <= rx.len
    /\ pc = "idle" <=> result.status # "pending"
    /\ result.status # "ok" => result.bytes = <<>>
    /\ clean \in BOOLEAN

\* The exchange under way was asked, its request is sent piece by piece, and what
\* is being reassembled was given.
ExchangeOK ==
    /\ pc # "idle" => call # 0 /\ req \in asked /\ req.len > 0
    /\ pc \in {"flow", "send"} => tx.off < req.len
    /\ pc = "cont" => rx.bytes # <<>> /\ Meaning(rx.bytes) \in given

BusOK ==
    /\ QueueOK(toEcu, {BlockSize}, asked)
    /\ QueueOK(toTester, EcuBlocks \cup {0}, given)

Ecus == [st : {"idle", "grant", "recv", "answer", "flow", "send"}, bytes : PduBytes, len : Nat,
         seq : Nat, block : Nat, bs : Nat, pdu : Pdus \cup {GarbledRequest, NoRequest}, off : Nat]

\* The ECU takes requests that were asked, or a mixture of them.
EcuOK ==
    /\ ecu \in Ecus
    /\ heard \subseteq asked \cup {GarbledRequest}
    /\ ecu.st \in {"grant", "recv"} => ecu.bytes # <<>> /\ Meaning(ecu.bytes) \in asked
    /\ ecu.st = "answer" => ecu.pdu \in heard
    /\ ecu.st \in {"flow", "send"} => ecu.pdu \in given /\ ecu.off < ecu.pdu.len

Always == CallOK /\ LocalsOK /\ ExchangeOK /\ BusOK /\ EcuOK

----------------------------------------------------------------------------
(* In step *)

NextOff(p, o) == Lesser(o + CfCap, p.len)

\* Where in its PDU a consecutive frame's data begins.
Off(f) == f.data[1][2] - 1

\* A piece of p that was sent before the sender got to off.
PieceOf(f, p, off) ==
    /\ f.type = "CF" /\ Off(f) \in Nat /\ FfCap <= Off(f) /\ Off(f) < p.len
    /\ f.data = Chunk(p, Off(f)) /\ NextOff(p, Off(f)) <= off

FirstOf(f, p) == f = First(p.len, SubSeq(Bytes(p), 1, FfCap))
SingleOf(f, p) == f = Single(Bytes(p))

Only(q, types) == \A i \in 1..Len(q) : q[i].type \in types

\* p has been sent up to off: what is left of its pieces in q comes in the order
\* of the offsets, behind the first frame.
Pieces(q, p, off) ==
    /\ \A i \in 1..Len(q) : /\ q[i].type = "FF" => FirstOf(q[i], p)
                            /\ q[i].type = "CF" => PieceOf(q[i], p, off)
    /\ \A i, j \in 1..Len(q) :
            i < j /\ q[i].type \in {"FF", "CF"} /\ q[j].type # "FC" =>
                /\ q[j].type = "CF"
                /\ q[i].type = "CF" => NextOff(p, Off(q[i])) <= Off(q[j])

\* Who holds b and waits for the bytes of p from o on has all before them, or has
\* missed some and cannot make up for it.
Reached(b, p, o) == Len(b) < o \/ (Len(b) = o /\ b = SubSeq(Bytes(p), 1, o))

\* That is so of all the pieces on their way, and of those still to send.
Behind(b, p, q, off) ==
    /\ Only(q, {"FC", "CF"})
    /\ Reached(b, p, off)
    /\ \A i \in 1..Len(q) : q[i].type = "CF" => Reached(b, p, Off(q[i]))

\* A request of one frame, r, at most once.
Asks(q, r) ==
    /\ \A i \in 1..Len(q) : q[i].type = "FC" \/ SingleOf(q[i], r)
    /\ \A i, j \in 1..Len(q) : i < j /\ q[i].type = "SF" => q[j].type = "FC"

\* f is a response of one frame to r, one of G.
Responds(f, r, G) ==
    LET p == Meaning(f.data) IN p \in G /\ p.to = r /\ p.len > 0 /\ SingleOf(f, p)

Waits(f) == Meaning(f.data).kind = "pending"

\* Responses to r of one frame; only pending ones are followed by another.
Answers(q, r, G) ==
    /\ \A i \in 1..Len(q) : q[i].type = "FC" \/ Responds(q[i], r, G)
    /\ \A i, j \in 1..Len(q) : i < j /\ q[i].type = "SF" /\ ~Waits(q[i]) => q[j].type = "FC"

AllWait(q, r, G) == \A i \in 1..Len(q) : q[i].type = "SF" => Responds(q[i], r, G) /\ Waits(q[i])

\* No exchange under way.
Rest == pc = "idle" /\ ecu.st = "idle" /\ Only(toEcu, {"FC"}) /\ Only(toTester, {"FC"})

\* A request of one frame is on its way.
AskShort == pc = "pdu" /\ ecu.st = "idle" /\ Asks(toEcu, req) /\ Only(toTester, {"FC"})

\* A request of several frames is.
AskLong ==
    /\ pc \in {"flow", "send", "pdu"} /\ ecu.st \in {"idle", "grant", "recv"}
    /\ req.len > SfCap /\ FfCap <= tx.off /\ tx.off <= req.len
    /\ pc = "pdu" => tx.off = req.len
    /\ Only(toEcu, {"FC", "FF", "CF"}) /\ Pieces(toEcu, req, tx.off)
    /\ ecu.st # "idle" => ecu.len = req.len /\ Behind(ecu.bytes, req, toEcu, tx.off)
    /\ Only(toTester, {"FC"})

\* The answers are of one frame so far.
AnswerShort ==
    /\ pc = "pdu" /\ ecu.st \in {"answer", "idle"} /\ Only(toEcu, {"FC"})
    /\ Answers(toTester, req, given)
    /\ ecu.st = "answer" => ecu.pdu = req /\ AllWait(toTester, req, given)

\* p, a response of several frames, has been sent up to off.
AnswerLong(p, off) ==
    /\ pc \in {"pdu", "cont"} /\ Only(toEcu, {"FC"})
    /\ p \in given /\ p.to = req /\ p.len > SfCap /\ off \in Nat /\ FfCap <= off /\ off <= p.len
    /\ \/ ecu.st \in {"flow", "send"} /\ ecu.pdu = p /\ ecu.off = off /\ off < p.len
       \/ ecu.st = "idle" /\ off = p.len
    /\ AllWait(toTester, req, given) /\ Pieces(toTester, p, off)
    /\ pc = "cont" => rx.len = p.len /\ Behind(rx.bytes, p, toTester, off)

InStep ==
    clean /\ ~repeated =>
        Rest \/ AskShort \/ AskLong \/ AnswerShort \/ \E p \in given, off \in Nat : AnswerLong(p, off)

\* What was returned in step was given to this request, and whole.
Returned ==
    clean /\ ~repeated /\ result.status = "ok" =>
        \E p \in given : p.to = req /\ result.bytes = Bytes(p)

IInv == Always /\ InStep /\ Returned

(***************************************************************************)
(* Bytes and frames                                                        *)
(***************************************************************************)

\* The bytes of a PDU.
LEMMA BytesOf ==
    ASSUME NEW p \in Pdus
    PROVE  /\ p.len \in Nat
           /\ Bytes(p) \in PduBytes /\ Len(Bytes(p)) = p.len
           /\ \A i \in 1..p.len : Bytes(p)[i] = <<p, i>>
<1>1. p.len \in Nat
  BY IsoTpAssumption DEF Pdus, Requests, Responses
<1>2. \A i \in 1..p.len : <<p, i>> \in Pdus \X Nat
  BY <1>1
<1>3. Bytes(p) \in [1..p.len -> Pdus \X Nat]
  BY <1>2 DEF Bytes
<1>4. \A i \in 1..p.len : Bytes(p)[i] = <<p, i>>
  BY DEF Bytes
<1> DEFINE b == Bytes(p)
<1> HIDE DEF b
<1>5. b \in PduBytes /\ Len(b) = p.len
  BY <1>1, <1>3 DEF PduBytes, b
<1> QED
  BY <1>1, <1>4, <1>5 DEF b

\* A part of it.
LEMMA PartOf ==
    ASSUME NEW p \in Pdus, NEW a \in Nat, NEW n \in Nat, a + n <= p.len
    PROVE  LET c == SubSeq(Bytes(p), a + 1, a + n) IN
           /\ c \in PduBytes /\ Len(c) = n
           /\ \A i \in 1..n : c[i] = <<p, a + i>>
<1> DEFINE b == Bytes(p)
           c == SubSeq(b, a + 1, a + n)
<1>1. p.len \in Nat /\ b \in Seq(Pdus \X Nat) /\ Len(b) = p.len /\ \A i \in 1..p.len : b[i] = <<p, i>>
  BY BytesOf DEF PduBytes
<1> HIDE DEF b
<1>2. c \in Seq(Pdus \X Nat) /\ Len(c) = n /\ \A i \in 1..n : c[i] = b[a + i]
  BY <1>1
<1> HIDE DEF c
<1>3. \A i \in 1..n : c[i] = <<p, a + i>>
  <2> SUFFICES ASSUME NEW i \in 1..n PROVE c[i] = <<p, a + i>>
    OBVIOUS
  <2>1. a + i \in 1..p.len
    BY <1>1
  <2> QED
    BY <1>1, <1>2, <2>1
<1> QED
  BY <1>2, <1>3 DEF PduBytes, b, c

\* What a first frame carries.
FirstPart(c, p) == c \in PduBytes /\ Len(c) = FfCap /\ c # <<>> /\ c[1] = <<p, 1>> /\ Meaning(c) = p

\* A first frame carries the first bytes of its PDU.
LEMMA FirstBytes ==
    ASSUME NEW p \in Pdus, FfCap <= p.len
    PROVE  FirstPart(SubSeq(Bytes(p), 1, FfCap), p)
<1> DEFINE c == SubSeq(Bytes(p), 1, FfCap)
<1>1. FfCap \in Nat /\ FfCap >= 1
  BY IsoTpAssumption
<1>2. c \in PduBytes /\ Len(c) = FfCap /\ \A i \in 1..FfCap : c[i] = <<p, 0 + i>>
  <2>1. 0 \in Nat /\ 0 + FfCap <= p.len /\ 0 + 1 = 1 /\ 0 + FfCap = FfCap
    BY <1>1
  <2>2. LET d == SubSeq(Bytes(p), 0 + 1, 0 + FfCap) IN
        d \in PduBytes /\ Len(d) = FfCap /\ \A i \in 1..FfCap : d[i] = <<p, 0 + i>>
    BY <1>1, <2>1, PartOf
  <2> QED
    BY <2>1, <2>2
<1> HIDE DEF c
<1>3. c[1] = <<p, 1>> /\ c # <<>>
  BY <1>1, <1>2 DEF PduBytes
<1>4. Meaning(c) = p
  BY <1>3 DEF Meaning
<1>5. FirstPart(c, p)
  BY <1>2, <1>3, <1>4 DEF FirstPart
<1> QED
  BY <1>5 DEF c

\* What a single frame carries.
LEMMA WholeBytes ==
    ASSUME NEW p \in Pdus, p.len > 0
    PROVE  Bytes(p) \in PduBytes \ {<<>>} /\ Meaning(Bytes(p)) = p
<1> DEFINE b == Bytes(p)
<1>1. p.len \in Nat /\ b \in PduBytes /\ Len(b) = p.len /\ b[1] = <<p, 1>>
  BY BytesOf
<1> HIDE DEF b
<1>2. b # <<>> /\ Meaning(b) = p
  BY <1>1 DEF Meaning, PduBytes
<1> QED
  BY <1>1, <1>2 DEF b

\* What a consecutive frame carries.
Piece(c, p, o) ==
    /\ c \in PduBytes /\ Len(c) = NextOff(p, o) - o /\ Len(c) > 0
    /\ \A i \in 1..Len(c) : c[i] = <<p, o + i>>

\* A consecutive frame carries the bytes from its place to the next one.
LEMMA ChunkOf ==
    ASSUME NEW p \in Pdus, NEW o \in Nat, o < p.len
    PROVE  /\ Piece(Chunk(p, o), p, o)
           /\ NextOff(p, o) \in Nat /\ o < NextOff(p, o) /\ NextOff(p, o) <= p.len
           /\ NextOff(p, o) <= o + CfCap
<1> DEFINE x == NextOff(p, o)
           n == x - o
           c == Chunk(p, o)
<1>1. p.len \in Nat /\ CfCap \in Nat /\ CfCap >= 1
  BY BytesOf, IsoTpAssumption
<1>2. x \in Nat /\ o < x /\ x <= p.len /\ x <= o + CfCap
  BY <1>1 DEF NextOff, Lesser
<1>3. c = SubSeq(Bytes(p), o + 1, x)
  BY DEF Chunk, NextOff
<1> HIDE DEF x, c
<1>4. n \in Nat /\ n > 0 /\ o + n = x /\ o + n <= p.len
  BY <1>2
<1>5. LET d == SubSeq(Bytes(p), o + 1, o + n) IN
      d \in PduBytes /\ Len(d) = n /\ \A i \in 1..n : d[i] = <<p, o + i>>
  BY <1>4, PartOf
<1>6. c \in PduBytes /\ Len(c) = n /\ \A i \in 1..n : c[i] = <<p, o + i>>
  BY <1>3, <1>4, <1>5
<1>7. Piece(c, p, o)
  BY <1>4, <1>6 DEF Piece, x
<1> QED
  BY <1>2, <1>7 DEF x, c

\* A sequence number stays one.
LEMMA NextSeqTyped ==
    ASSUME NEW s \in Nat
    PROVE  NextSeq(s) \in 0..(SeqMod - 1) /\ NextSeq(s) \in Nat
<1>1. SeqMod \in Nat /\ SeqMod > 1
  BY IsoTpAssumption
<1>2. (s + 1) % SeqMod \in 0..(SeqMod - 1)
  BY <1>1
<1> QED
  BY <1>1, <1>2 DEF NextSeq

\* The frames by their type.
FrameFacts(f, S) ==
    /\ f.type \in {"SF", "FF", "CF", "FC"}
    /\ f.type \in {"SF", "FF", "CF"} => f.data \in PduBytes
    /\ f.type \in {"SF", "FF"} => f.data # <<>>
    /\ f.type = "FF" => f.len \in Nat /\ Len(f.data) <= f.len
    /\ f.type = "CF" => f.seq \in Nat
    /\ f.type = "FC" => f.status \in {"cts", "wait", "overflow"} /\ f.bs \in S

\* What is known of a frame by its type.
LEMMA FrameKinds ==
    ASSUME NEW S, NEW f \in Frames(S)
    PROVE  FrameFacts(f, S)
<1>1. CASE f \in Singles
  BY <1>1 DEF Singles, FrameFacts
<1>2. CASE f \in Firsts
  BY <1>2 DEF Firsts, FrameFacts
<1>3. CASE f \in Consecutives
  BY <1>3 DEF Consecutives, FrameFacts
<1>4. CASE f \in Flows(S)
  BY <1>4 DEF Flows, FrameFacts
<1> QED
  BY <1>1, <1>2, <1>3, <1>4 DEF Frames

\* The frames that are sent are frames.
LEMMA FrameMade ==
    ASSUME NEW S
    PROVE  /\ \A d \in PduBytes \ {<<>>} : Single(d) \in Frames(S)
           /\ \A n \in Nat, d \in PduBytes \ {<<>>} : Len(d) <= n => First(n, d) \in Frames(S)
           /\ \A n \in Nat, d \in PduBytes : Consecutive(n, d) \in Frames(S)
           /\ \A st \in {"cts", "wait", "overflow"}, n \in S : FlowControl(st, n) \in Frames(S)
<1>1. \A d \in PduBytes \ {<<>>} : Single(d) \in Singles
  BY DEF Single, Singles
<1>2. \A n \in Nat, d \in PduBytes \ {<<>>} : Len(d) <= n => First(n, d) \in Firsts
  BY DEF First, Firsts
<1>3. \A n \in Nat, d \in PduBytes : Consecutive(n, d) \in Consecutives
  BY DEF Consecutive, Consecutives
<1>4. \A st \in {"cts", "wait", "overflow"}, n \in S : FlowControl(st, n) \in Flows(S)
  BY DEF FlowControl, Flows
<1> QED
  BY <1>1, <1>2, <1>3, <1>4 DEF Frames

(***************************************************************************)
(* Queues                                                                  *)
(***************************************************************************)

\* r is what is left of q when frames at its front are gone.
Rear(r, q) ==
    \E n \in 0..Len(q) : /\ Len(r) = Len(q) - n
                         /\ \A i \in 1..Len(r) : n + i \in 1..Len(q) /\ r[i] = q[n + i]

\* A frame taken or a burst lost leaves the rear of a queue.
LEMMA Shorter ==
    ASSUME NEW S, NEW q \in Seq(S)
    PROVE  /\ Rear(q, q)
           /\ q # <<>> => Head(q) \in S /\ Tail(q) \in Seq(S) /\ Rear(Tail(q), q)
                          /\ Head(q) = q[1] /\ 1 \in 1..Len(q)
           /\ \A n \in 1..Len(q) : SubSeq(q, n + 1, Len(q)) \in Seq(S) /\ Rear(SubSeq(q, n + 1, Len(q)), q)
<1>1. Rear(q, q)
  <2>1. 0 \in 0..Len(q) /\ Len(q) = Len(q) - 0 /\ \A i \in 1..Len(q) : 0 + i = i
    OBVIOUS
  <2> QED
    BY <2>1 DEF Rear
<1>2. ASSUME NEW n \in 1..Len(q)
      PROVE  SubSeq(q, n + 1, Len(q)) \in Seq(S) /\ Rear(SubSeq(q, n + 1, Len(q)), q)
  <2> DEFINE r == SubSeq(q, n + 1, Len(q))
  <2>1. r \in Seq(S) /\ Len(r) = Len(q) - n /\ \A i \in 1..Len(r) : n + i \in 1..Len(q) /\ r[i] = q[n + i]
    OBVIOUS
  <2> HIDE DEF r
  <2>2. Rear(r, q)
    BY <2>1 DEF Rear
  <2> QED
    BY <2>1, <2>2 DEF r
<1>3. ASSUME q # <<>>
      PROVE  Head(q) \in S /\ Tail(q) \in Seq(S) /\ Rear(Tail(q), q) /\ Head(q) = q[1] /\ 1 \in 1..Len(q)
  <2>1. Head(q) \in S /\ Tail(q) \in Seq(S) /\ Head(q) = q[1] /\ 1 \in 1..Len(q)
        /\ Len(Tail(q)) = Len(q) - 1 /\ \A i \in 1..Len(Tail(q)) : 1 + i \in 1..Len(q) /\ Tail(q)[i] = q[1 + i]
    BY <1>3
  <2>2. 1 \in 0..Len(q)
    BY <2>1
  <2> QED
    BY <2>1, <2>2 DEF Rear
<1> QED
  BY <1>1, <1>2, <1>3

\* A frame sent comes last.
Longer(r, q, f) ==
    /\ Len(r) = Len(q) + 1 /\ r[Len(q) + 1] = f /\ Len(q) \in Nat
    /\ \A i \in 1..Len(q) : r[i] = q[i]
    /\ \A i \in 1..Len(r) : i \in 1..Len(q) \/ i = Len(q) + 1

\* A frame that is sent goes behind those on their way.
LEMMA Added ==
    ASSUME NEW S, NEW q \in Seq(S), NEW f \in S
    PROVE  Append(q, f) \in Seq(S) /\ Longer(Append(q, f), q, f)
BY DEF Longer

\* r is q without its oldest frame.
After(r, q) == Len(r) \in Nat /\ \A i \in 1..Len(r) : 1 + i \in 1..Len(q) /\ r[i] = q[1 + i]

\* What a queue is known to carry stays true of what is left of it.
LEMMA RearKeeps ==
    ASSUME NEW q, NEW r, Rear(r, q), Len(q) \in Nat
    PROVE  /\ \A T : Only(q, T) => Only(r, T)
           /\ \A p, o : Pieces(q, p, o) => Pieces(r, p, o)
           /\ \A b, p, o : Behind(b, p, q, o) => Behind(b, p, r, o)
           /\ \A x : Asks(q, x) => Asks(r, x)
           /\ \A x, G : Answers(q, x, G) => Answers(r, x, G)
           /\ \A x, G : AllWait(q, x, G) => AllWait(r, x, G)
<1>1. PICK n \in 0..Len(q) : /\ Len(r) = Len(q) - n
                             /\ \A i \in 1..Len(r) : n + i \in 1..Len(q) /\ r[i] = q[n + i]
  BY DEF Rear
<1>2. \A i \in 1..Len(r) : n + i \in 1..Len(q) /\ r[i] = q[n + i]
  BY <1>1
<1>3. \A i, j \in 1..Len(r) : i < j => n + i < n + j
  BY <1>1
<1>4. \A T : Only(q, T) => Only(r, T)
  BY <1>2, Zenon DEF Only
<1>5. ASSUME NEW p, NEW o, Pieces(q, p, o) PROVE Pieces(r, p, o)
  <2>1. \A i \in 1..Len(r) : /\ r[i].type = "FF" => FirstOf(r[i], p)
                             /\ r[i].type = "CF" => PieceOf(r[i], p, o)
    BY <1>2, <1>5, Zenon DEF Pieces
  <2>2. ASSUME NEW i \in 1..Len(r), NEW j \in 1..Len(r), i < j, r[i].type \in {"FF", "CF"}, r[j].type # "FC"
        PROVE  /\ r[j].type = "CF"
               /\ r[i].type = "CF" => NextOff(p, Off(r[i])) <= Off(r[j])
    <3>1. n + i \in 1..Len(q) /\ n + j \in 1..Len(q) /\ r[i] = q[n + i] /\ r[j] = q[n + j] /\ n + i < n + j
      BY <1>2, <1>3, <2>2, Zenon
    <3> QED
      BY <1>5, <2>2, <3>1, Zenon DEF Pieces
  <2> QED
    BY <2>1, <2>2, Zenon DEF Pieces
<1>6. ASSUME NEW b, NEW p, NEW o, Behind(b, p, q, o) PROVE Behind(b, p, r, o)
  BY <1>2, <1>4, <1>6, Zenon DEF Behind
<1>7. ASSUME NEW x, Asks(q, x) PROVE Asks(r, x)
  <2>1. \A i \in 1..Len(r) : r[i].type = "FC" \/ SingleOf(r[i], x)
    BY ONLY <1>2, <1>7, Zenon DEF Asks
  <2>2. ASSUME NEW i \in 1..Len(r), NEW j \in 1..Len(r), i < j, r[i].type = "SF"
        PROVE  r[j].type = "FC"
    <3>1. n + i \in 1..Len(q) /\ n + j \in 1..Len(q) /\ r[i] = q[n + i] /\ r[j] = q[n + j] /\ n + i < n + j
      BY ONLY <1>2, <1>3, <2>2, Zenon
    <3>2. q[n + i].type = "SF"
      BY ONLY <2>2, <3>1, Zenon
    <3> QED
      BY ONLY <1>7, <3>1, <3>2, Zenon DEF Asks
  <2> QED
    BY ONLY <2>1, <2>2, Zenon DEF Asks
<1>8. ASSUME NEW x, NEW G, Answers(q, x, G) PROVE Answers(r, x, G)
  BY <1>2, <1>3, <1>8, Zenon DEF Answers
<1>9. ASSUME NEW x, NEW G, AllWait(q, x, G) PROVE AllWait(r, x, G)
  BY <1>2, <1>9, Zenon DEF AllWait
<1> QED
  BY <1>4, <1>5, <1>6, <1>7, <1>8, <1>9, Zenon

\* A flow control frame changes nothing for what else a queue carries.
LEMMA FlowSent ==
    ASSUME NEW q, NEW r, NEW f, Longer(r, q, f), f.type = "FC"
    PROVE  /\ \A T : Only(q, T) /\ "FC" \in T => Only(r, T)
           /\ \A p, o : Pieces(q, p, o) => Pieces(r, p, o)
           /\ \A b, p, o : Behind(b, p, q, o) => Behind(b, p, r, o)
           /\ \A x : Asks(q, x) => Asks(r, x)
           /\ \A x, G : Answers(q, x, G) => Answers(r, x, G)
           /\ \A x, G : AllWait(q, x, G) => AllWait(r, x, G)
<1>1. \A i \in 1..Len(r) : (i \in 1..Len(q) /\ r[i] = q[i]) \/ r[i] = f
  BY DEF Longer
<1>2. r[Len(q) + 1] = f /\ \A i \in 1..Len(r) : i \in 1..Len(q) \/ i = Len(q) + 1
  BY DEF Longer
<1>3. \A T : Only(q, T) /\ "FC" \in T => Only(r, T)
  BY <1>1, Zenon DEF Only
<1>4. ASSUME NEW p, NEW o, Pieces(q, p, o) PROVE Pieces(r, p, o)
  <2>1. \A i \in 1..Len(r) : /\ r[i].type = "FF" => FirstOf(r[i], p)
                             /\ r[i].type = "CF" => PieceOf(r[i], p, o)
    BY <1>1, <1>4 DEF Pieces
  <2>2. ASSUME NEW i \in 1..Len(r), NEW j \in 1..Len(r), i < j, r[i].type \in {"FF", "CF"}, r[j].type # "FC"
        PROVE  /\ r[j].type = "CF"
               /\ r[i].type = "CF" => NextOff(p, Off(r[i])) <= Off(r[j])
    <3>1. i \in 1..Len(q) /\ j \in 1..Len(q) /\ r[i] = q[i] /\ r[j] = q[j]
      BY <1>1, <2>2
    <3> QED
      BY <1>4, <2>2, <3>1, Zenon DEF Pieces
  <2> QED
    BY <2>1, <2>2, Zenon DEF Pieces
<1>5. ASSUME NEW b, NEW p, NEW o, Behind(b, p, q, o) PROVE Behind(b, p, r, o)
  <2>1. Only(r, {"FC", "CF"})
    BY <1>3, <1>5 DEF Behind
  <2>2. \A i \in 1..Len(r) : r[i].type = "CF" => Reached(b, p, Off(r[i]))
    BY <1>1, <1>5 DEF Behind
  <2> QED
    BY <1>5, <2>1, <2>2, Zenon DEF Behind
<1>6. ASSUME NEW x, Asks(q, x) PROVE Asks(r, x)
  <2>1. \A i \in 1..Len(r) : r[i].type = "FC" \/ SingleOf(r[i], x)
    BY <1>1, <1>6, Zenon DEF Asks
  <2>2. ASSUME NEW i \in 1..Len(r), NEW j \in 1..Len(r), i < j, r[i].type = "SF"
        PROVE  r[j].type = "FC"
    <3>1. i \in 1..Len(q) /\ r[i] = q[i]
      BY <1>1, <2>2
    <3> QED
      BY <1>1, <1>6, <2>2, <3>1, Zenon DEF Asks
  <2> QED
    BY <2>1, <2>2, Zenon DEF Asks
<1>7. ASSUME NEW x, NEW G, Answers(q, x, G) PROVE Answers(r, x, G)
  <2>1. \A i \in 1..Len(r) : r[i].type = "FC" \/ Responds(r[i], x, G)
    BY <1>1, <1>7, Zenon DEF Answers
  <2>2. ASSUME NEW i \in 1..Len(r), NEW j \in 1..Len(r), i < j, r[i].type = "SF", ~Waits(r[i])
        PROVE  r[j].type = "FC"
    <3>1. i \in 1..Len(q) /\ r[i] = q[i]
      BY <1>1, <2>2
    <3> QED
      BY <1>1, <1>7, <2>2, <3>1, Zenon DEF Answers
  <2> QED
    BY <2>1, <2>2, Zenon DEF Answers
<1>8. ASSUME NEW x, NEW G, AllWait(q, x, G) PROVE AllWait(r, x, G)
  BY <1>1, <1>8 DEF AllWait
<1> QED
  BY <1>3, <1>4, <1>5, <1>6, <1>7, <1>8, Zenon

\* The next piece of a PDU is sent.
LEMMA PieceSent ==
    ASSUME NEW q, NEW r, NEW f, NEW p \in Pdus, NEW o \in Nat, FfCap <= o, o < p.len, NEW s,
           Longer(r, q, f), f = Consecutive(s, Chunk(p, o)), Pieces(q, p, o)
    PROVE  /\ Pieces(r, p, NextOff(p, o))
           /\ \A b : Behind(b, p, q, o) /\ Len(b) \in Nat => Behind(b, p, r, NextOff(p, o))
<1> DEFINE x == NextOff(p, o)
<1>1. x \in Nat /\ o < x /\ Piece(Chunk(p, o), p, o)
  BY ChunkOf
<1>2. f.type = "CF" /\ f.data = Chunk(p, o) /\ Off(f) = o
  <2>1. f.type = "CF" /\ f.data = Chunk(p, o)
    BY DEF Consecutive
  <2>2. Chunk(p, o)[1] = <<p, o + 1>>
    BY <1>1 DEF Piece, PduBytes
  <2> QED
    BY <2>1, <2>2 DEF Off
<1>3. PieceOf(f, p, x)
  BY <1>1, <1>2 DEF PieceOf
<1>4. \A i \in 1..Len(r) : (i \in 1..Len(q) /\ r[i] = q[i]) \/ (i = Len(q) + 1 /\ r[i] = f)
  BY DEF Longer
<1>5. Len(q) \in Nat
  BY DEF Longer
<1> HIDE DEF x
<1>6. ASSUME NEW i \in 1..Len(q), q[i].type = "CF"
      PROVE  PieceOf(q[i], p, x) /\ NextOff(p, Off(q[i])) <= o
  <2>1. PieceOf(q[i], p, o)
    BY <1>6 DEF Pieces
  <2>2. Off(q[i]) \in Nat /\ Off(q[i]) < p.len /\ NextOff(p, Off(q[i])) <= o
    BY <2>1 DEF PieceOf
  <2>3. NextOff(p, Off(q[i])) \in Nat
    BY <2>2, ChunkOf
  <2>4. NextOff(p, Off(q[i])) <= x
    BY <1>1, <2>2, <2>3
  <2> QED
    BY <2>1, <2>2, <2>4 DEF PieceOf
<1>7. Pieces(r, p, x)
  <2>1. \A i \in 1..Len(r) : /\ r[i].type = "FF" => FirstOf(r[i], p)
                             /\ r[i].type = "CF" => PieceOf(r[i], p, x)
    <3> SUFFICES ASSUME NEW i \in 1..Len(r)
                 PROVE  /\ r[i].type = "FF" => FirstOf(r[i], p)
                        /\ r[i].type = "CF" => PieceOf(r[i], p, x)
      OBVIOUS
    <3>1. CASE i \in 1..Len(q) /\ r[i] = q[i]
      BY <1>6, <3>1 DEF Pieces
    <3>2. CASE r[i] = f
      BY <1>2, <1>3, <3>2
    <3> QED
      BY <1>4, <3>1, <3>2
  <2>2. ASSUME NEW i \in 1..Len(r), NEW j \in 1..Len(r), i < j, r[i].type \in {"FF", "CF"}, r[j].type # "FC"
        PROVE  /\ r[j].type = "CF"
               /\ r[i].type = "CF" => NextOff(p, Off(r[i])) <= Off(r[j])
    <3>1. i \in 1..Len(q) /\ r[i] = q[i]
      BY <1>4, <1>5, <2>2
    <3>2. CASE j \in 1..Len(q) /\ r[j] = q[j]
      BY <2>2, <3>1, <3>2, Zenon DEF Pieces
    <3>3. CASE r[j] = f
      BY <1>2, <1>6, <3>1, <3>3
    <3> QED
      BY <1>4, <3>2, <3>3
  <2> QED
    BY <2>1, <2>2, Zenon DEF Pieces
<1>8. ASSUME NEW b, Behind(b, p, q, o), Len(b) \in Nat
      PROVE  Behind(b, p, r, x)
  <2>1. Only(r, {"FC", "CF"})
    <3>1. \A i \in 1..Len(q) : q[i].type \in {"FC", "CF"}
      BY <1>8, Zenon DEF Behind, Only
    <3>2. \A i \in 1..Len(r) : r[i].type \in {"FC", "CF"}
      BY <1>2, <1>4, <3>1
    <3> QED
      BY <3>2 DEF Only
  <2>2. Reached(b, p, o)
    BY <1>8 DEF Behind
  <2>3. Reached(b, p, x)
    BY <1>1, <1>8, <2>2 DEF Reached
  <2>4. \A i \in 1..Len(r) : r[i].type = "CF" => Reached(b, p, Off(r[i]))
    <3>1. \A i \in 1..Len(q) : q[i].type = "CF" => Reached(b, p, Off(q[i]))
      BY <1>8 DEF Behind
    <3> QED
      BY <1>2, <1>4, <2>2, <3>1
  <2> QED
    BY <2>1, <2>3, <2>4, Zenon DEF Behind
<1> QED
  BY <1>7, <1>8 DEF x

\* The first frame of a PDU is read: nothing of it has been missed so far.
LEMMA FirstTaken ==
    ASSUME NEW q, NEW r, NEW p \in Pdus, NEW o \in Nat, FfCap <= o, o <= p.len,
           NEW S, q \in Seq(Frames(S)), q # <<>>, q[1].type = "FF", After(r, q), Pieces(q, p, o)
    PROVE  /\ q[1].len = p.len /\ FirstPart(q[1].data, p)
           /\ Behind(q[1].data, p, r, o)
<1> DEFINE b == q[1].data
<1>1. FfCap \in Nat /\ p.len \in Nat /\ FfCap <= p.len
  BY BytesOf, IsoTpAssumption
<1>2. 1 \in 1..Len(q) /\ \A j \in 1..Len(r) : 1 + j \in 1..Len(q) /\ 1 < 1 + j /\ r[j] = q[1 + j]
  BY DEF After
<1>3. FirstOf(q[1], p)
  BY <1>2, Zenon DEF Pieces
<1>4. q[1].len = p.len /\ b = SubSeq(Bytes(p), 1, FfCap)
  <2> DEFINE c == SubSeq(Bytes(p), 1, FfCap)
  <2> HIDE DEF c
  <2>1. q[1] = First(p.len, c)
    BY <1>3 DEF FirstOf, c
  <2>2. q[1].len = p.len /\ q[1].data = c
    BY <2>1 DEF First
  <2> QED
    BY <2>2 DEF c
<1>5. FirstPart(b, p)
  BY <1>1, <1>4, FirstBytes
<1> HIDE DEF b
<1>6. Len(b) = FfCap
  BY <1>5 DEF FirstPart
<1>7. \A k \in Nat : FfCap <= k => Reached(b, p, k)
  BY <1>1, <1>4, <1>6 DEF Reached
<1>8. \A j \in 1..Len(r) : r[j].type = "FC" \/ r[j].type = "CF"
  BY <1>2, ZenonT(40) DEF Pieces
<1>9. Only(r, {"FC", "CF"})
  BY <1>8 DEF Only
<1>10. \A j \in 1..Len(r) : r[j].type = "CF" => Reached(b, p, Off(r[j]))
  <2> SUFFICES ASSUME NEW j \in 1..Len(r), r[j].type = "CF" PROVE Reached(b, p, Off(r[j]))
    OBVIOUS
  <2>1. PieceOf(r[j], p, o)
    BY <1>2, Zenon DEF Pieces
  <2> QED
    BY <1>7, <2>1 DEF PieceOf
<1> QED
  BY <1>4, <1>5, <1>7, <1>9, <1>10, Zenon DEF Behind, b

\* Joined bytes.
LEMMA BytesJoined ==
    ASSUME NEW b \in PduBytes, NEW d \in PduBytes, b # <<>>
    PROVE  /\ b \o d \in PduBytes /\ b \o d # <<>> /\ Meaning(b \o d) = Meaning(b)
           /\ Len(b \o d) = Len(b) + Len(d) /\ Len(b) \in Nat /\ Len(d) \in Nat
           /\ \A i \in 1..Len(b) : (b \o d)[i] = b[i]
           /\ \A i \in 1..Len(d) : (b \o d)[Len(b) + i] = d[i]
<1>1. b \in Seq(Pdus \X Nat) /\ d \in Seq(Pdus \X Nat) /\ b # <<>>
  BY DEF PduBytes
<1>2. /\ b \o d \in Seq(Pdus \X Nat) /\ b \o d # <<>> /\ (b \o d)[1] = b[1]
      /\ Len(b \o d) = Len(b) + Len(d) /\ Len(b) \in Nat /\ Len(d) \in Nat
      /\ \A i \in 1..Len(b) : (b \o d)[i] = b[i]
      /\ \A i \in 1..Len(d) : (b \o d)[Len(b) + i] = d[i]
  BY ONLY <1>1
<1> QED
  BY <1>2 DEF PduBytes, Meaning

\* Two sequences of the same bytes are the same.
LEMMA SameBytes ==
    ASSUME NEW b \in PduBytes, NEW c \in PduBytes, Len(b) = Len(c),
           \A i \in 1..Len(b) : b[i] = c[i]
    PROVE  b = c
<1>1. b \in Seq(Pdus \X Nat) /\ c \in Seq(Pdus \X Nat)
  BY DEF PduBytes
<1> QED
  BY <1>1, SeqEqual

\* The bytes of a PDU up to o, with the piece that follows them, are its bytes up to
\* the next offset.
LEMMA PieceFits ==
    ASSUME NEW p \in Pdus, NEW o \in Nat, o > 0, o < p.len, NEW b \in PduBytes, b = SubSeq(Bytes(p), 1, o)
    PROVE  b \o Chunk(p, o) = SubSeq(Bytes(p), 1, NextOff(p, o))
<1> DEFINE x == NextOff(p, o)
           d == Chunk(p, o)
           c == b \o d
           e == SubSeq(Bytes(p), 1, x)
<1>1. p.len \in Nat /\ Piece(d, p, o) /\ x \in Nat /\ o < x /\ x <= p.len
  BY ChunkOf, BytesOf
<1>2. b \in PduBytes /\ Len(b) = o /\ \A i \in 1..o : b[i] = <<p, i>>
  <2>1. 0 \in Nat /\ 0 + o <= p.len /\ 0 + 1 = 1 /\ 0 + o = o /\ \A i \in 1..o : 0 + i = i
    BY <1>1
  <2>2. LET w == SubSeq(Bytes(p), 0 + 1, 0 + o) IN
        w \in PduBytes /\ Len(w) = o /\ \A i \in 1..o : w[i] = <<p, 0 + i>>
    BY <2>1, PartOf
  <2> QED
    BY <2>1, <2>2
<1>3. e \in PduBytes /\ Len(e) = x /\ \A i \in 1..x : e[i] = <<p, i>>
  <2>1. 0 \in Nat /\ 0 + x <= p.len /\ 0 + 1 = 1 /\ 0 + x = x /\ \A i \in 1..x : 0 + i = i
    BY <1>1
  <2>2. LET w == SubSeq(Bytes(p), 0 + 1, 0 + x) IN
        w \in PduBytes /\ Len(w) = x /\ \A i \in 1..x : w[i] = <<p, 0 + i>>
    BY <1>1, <2>1, PartOf
  <2> QED
    BY <2>1, <2>2
<1>4. d \in PduBytes /\ Len(d) = x - o /\ \A i \in 1..Len(d) : d[i] = <<p, o + i>>
  BY <1>1 DEF Piece
<1> HIDE DEF x, d, e
<1>5. b # <<>>
  <2>1. Len(b) > 0
    BY <1>2
  <2>2. Len(<<>>) = 0
    OBVIOUS
  <2> QED
    BY ONLY <2>1, <2>2
<1>6. /\ c \in PduBytes /\ Len(c) = Len(b) + Len(d)
      /\ \A i \in 1..Len(b) : c[i] = b[i]
      /\ \A i \in 1..Len(d) : c[Len(b) + i] = d[i]
  BY <1>2, <1>4, <1>5, BytesJoined
<1> HIDE DEF c
<1>7. Len(c) = x
  BY <1>1, <1>2, <1>4, <1>6
<1>8. ASSUME NEW i \in 1..Len(c) PROVE c[i] = e[i]
  <2>1. CASE i <= o
    <3>1. i \in 1..Len(b) /\ i \in 1..o /\ i \in 1..x
      BY <1>1, <1>2, <1>7, <2>1
    <3> QED
      BY <1>2, <1>3, <1>6, <3>1
  <2>2. CASE i > o
    <3>1. i - o \in 1..Len(d) /\ i = o + (i - o) /\ i \in 1..x
      BY <1>1, <1>4, <1>7, <2>2
    <3>2. c[o + (i - o)] = d[i - o] /\ d[i - o] = <<p, o + (i - o)>>
      BY <1>2, <1>4, <1>6, <3>1
    <3> QED
      BY <1>3, <3>1, <3>2
  <2> QED
    BY <1>1, <1>7, <2>1, <2>2
<1>9. c = e
  BY <1>3, <1>6, <1>7, <1>8, SameBytes
<1> QED
  BY <1>9 DEF c, d, e, x

\* The next piece on its way is read: no more bytes than there are, and all of them
\* only when nothing was missed and nothing is left to come.
Taken(b, d, p, r, o) ==
    /\ d \in PduBytes /\ Len(d) > 0 /\ Len(b) + Len(d) <= p.len
    /\ b \o d \in PduBytes /\ b \o d # <<>> /\ Meaning(b \o d) = Meaning(b)
    /\ Len(b \o d) = Len(b) + Len(d)
    /\ Behind(b \o d, p, r, o)
    /\ Len(b \o d) >= p.len => b \o d = Bytes(p) /\ o = p.len /\ Only(r, {"FC"})

\* The receiver takes the next piece of the PDU, or is behind and stays so.
LEMMA PieceTaken ==
    ASSUME NEW q, NEW r, NEW p \in Pdus, NEW o \in Nat, o <= p.len,
           NEW S, q \in Seq(Frames(S)), q # <<>>, q[1].type = "CF", After(r, q), Pieces(q, p, o),
           NEW b \in PduBytes, b # <<>>, Behind(b, p, q, o)
    PROVE  Taken(b, q[1].data, p, r, o)
<1> DEFINE d == q[1].data
           k == Off(q[1])
           x == NextOff(p, k)
           c == b \o d
<1>1. p.len \in Nat
  BY BytesOf
<1>2. 1 \in 1..Len(q) /\ \A j \in 1..Len(r) : 1 + j \in 1..Len(q) /\ 1 < 1 + j /\ r[j] = q[1 + j]
  BY DEF After
<1>3. PieceOf(q[1], p, o)
  BY <1>2, Zenon DEF Pieces
<1>4. k \in Nat /\ FfCap <= k /\ k < p.len /\ d = Chunk(p, k) /\ x <= o
  BY <1>3 DEF PieceOf
<1>5. Piece(d, p, k) /\ x \in Nat /\ k < x /\ x <= p.len
  BY <1>4, ChunkOf
<1>6. Reached(b, p, k)
  BY <1>2 DEF Behind
<1>7. d \in PduBytes /\ Len(d) = x - k
  BY <1>5 DEF Piece
<1>8. \A j \in 1..Len(r) : (r[j].type = "FC" \/ r[j].type = "CF") /\ (r[j].type = "CF" => x <= Off(r[j]) /\ PieceOf(r[j], p, o))
  BY <1>2, Zenon DEF Pieces
<1> HIDE DEF d, k, x
<1>9. c \in PduBytes /\ c # <<>> /\ Meaning(c) = Meaning(b) /\ Len(c) = Len(b) + Len(d) /\ Len(b) \in Nat
  BY <1>7, BytesJoined
<1>10. Len(b) = k /\ b = SubSeq(Bytes(p), 1, k) => c = SubSeq(Bytes(p), 1, x)
  <2>1. Len(b) = k => k > 0
    BY <1>4, BytesJoined DEF PduBytes
  <2> QED
    BY <1>4, <2>1, PieceFits DEF x
<1> HIDE DEF c
<1>11. Len(b) <= k
  BY <1>4, <1>6, <1>9 DEF Reached
<1>12. Len(c) <= x /\ Len(d) > 0 /\ Len(b) + Len(d) <= p.len
  BY <1>1, <1>4, <1>5, <1>7, <1>9, <1>11
<1>13. ASSUME NEW y \in Nat, x <= y PROVE Reached(c, p, y)
  <2>1. CASE Len(b) < k
    BY <1>4, <1>5, <1>7, <1>9, <1>13, <2>1 DEF Reached
  <2>2. CASE Len(b) = k /\ b = SubSeq(Bytes(p), 1, k)
    <3>1. Len(c) = x /\ c = SubSeq(Bytes(p), 1, x)
      BY <1>4, <1>5, <1>7, <1>9, <1>10, <2>2
    <3> QED
      BY <1>5, <1>13, <3>1 DEF Reached
  <2> QED
    BY <1>6, <2>1, <2>2 DEF Reached
<1>14. Behind(c, p, r, o)
  <2>1. Only(r, {"FC", "CF"})
    BY <1>8 DEF Only
  <2>2. Reached(c, p, o)
    BY <1>4, <1>13
  <2>3. \A j \in 1..Len(r) : r[j].type = "CF" => Reached(c, p, Off(r[j]))
    BY <1>8, <1>13 DEF PieceOf
  <2> QED
    BY <2>1, <2>2, <2>3, Zenon DEF Behind
<1>15. ASSUME Len(c) >= p.len PROVE c = Bytes(p) /\ o = p.len /\ Only(r, {"FC"})
  <2>1. Len(c) = x /\ x = p.len /\ Len(b) = k
    BY <1>1, <1>4, <1>5, <1>7, <1>9, <1>11, <1>12, <1>15
  <2>2. b = SubSeq(Bytes(p), 1, k)
    BY <1>4, <1>6, <2>1 DEF Reached
  <2>3. c = SubSeq(Bytes(p), 1, p.len)
    BY <1>10, <2>1, <2>2
  <2>4. Bytes(p) = SubSeq(Bytes(p), 1, p.len)
    <3> DEFINE w == Bytes(p)
    <3>1. w \in Seq(Pdus \X Nat) /\ Len(w) = p.len
      BY BytesOf DEF PduBytes
    <3> HIDE DEF w
    <3>2. w = SubSeq(w, 1, Len(w))
      BY ONLY <3>1
    <3> QED
      BY <3>1, <3>2 DEF w
  <2>5. o = p.len
    BY <1>1, <1>4, <2>1
  <2>6. \A j \in 1..Len(r) : r[j].type = "FC"
    <3> SUFFICES ASSUME NEW j \in 1..Len(r), r[j].type = "CF" PROVE FALSE
      BY <1>8
    <3>1. Off(r[j]) \in Nat /\ Off(r[j]) < p.len /\ p.len <= Off(r[j])
      BY <1>8, <2>1 DEF PieceOf
    <3> QED
      BY <1>1, <3>1
  <2> QED
    BY <2>3, <2>4, <2>5, <2>6 DEF Only
<1> QED
  BY <1>7, <1>9, <1>12, <1>14, <1>15, Zenon DEF Taken, c, d

\* A queue from which frames are read or lost.
LEMMA QueueRead ==
    ASSUME NEW S, NEW P, NEW q, QueueOK(q, S, P)
    PROVE  /\ q \in Seq(Frames(S)) /\ Len(q) \in Nat
           /\ q # <<>> => /\ QueueOK(Tail(q), S, P) /\ Rear(Tail(q), q) /\ After(Tail(q), q)
                          /\ Head(q) = q[1] /\ FrameFacts(q[1], S)
                          /\ q[1].type \in {"SF", "FF"} => Meaning(q[1].data) \in P
           /\ \A n \in 1..Len(q) : /\ QueueOK(SubSeq(q, n + 1, Len(q)), S, P)
                                   /\ Rear(SubSeq(q, n + 1, Len(q)), q)
<1>1. q \in Seq(Frames(S)) /\ Len(q) \in Nat
  BY DEF QueueOK
<1>2. \A i \in 1..Len(q) : q[i].type \in {"SF", "FF"} => Meaning(q[i].data) \in P
  BY Zenon DEF QueueOK
<1>3. ASSUME NEW r \in Seq(Frames(S)), Rear(r, q) PROVE QueueOK(r, S, P)
  <2>1. PICK n \in 0..Len(q) : \A i \in 1..Len(r) : n + i \in 1..Len(q) /\ r[i] = q[n + i]
    BY <1>3 DEF Rear
  <2>2. \A i \in 1..Len(r) : r[i].type \in {"SF", "FF"} => Meaning(r[i].data) \in P
    BY <1>2, <2>1, Zenon
  <2> QED
    BY <1>3, <2>2, Zenon DEF QueueOK
<1>4. \A n \in 1..Len(q) : /\ QueueOK(SubSeq(q, n + 1, Len(q)), S, P)
                           /\ Rear(SubSeq(q, n + 1, Len(q)), q)
  BY <1>1, <1>3, Shorter
<1>5. ASSUME q # <<>>
      PROVE  /\ QueueOK(Tail(q), S, P) /\ Rear(Tail(q), q) /\ After(Tail(q), q)
             /\ Head(q) = q[1] /\ FrameFacts(q[1], S)
             /\ q[1].type \in {"SF", "FF"} => Meaning(q[1].data) \in P
  <2>1. Head(q) \in Frames(S) /\ Tail(q) \in Seq(Frames(S)) /\ Rear(Tail(q), q) /\ Head(q) = q[1] /\ 1 \in 1..Len(q)
    BY <1>1, <1>5, Shorter
  <2>2. q \in Seq(Frames(S)) /\ q # <<>>
    BY <1>1, <1>5
  <2>3. Len(Tail(q)) \in Nat /\ \A i \in 1..Len(Tail(q)) : 1 + i \in 1..Len(q) /\ Tail(q)[i] = q[1 + i]
    BY ONLY <2>2
  <2>4. FrameFacts(q[1], S)
    BY <2>1, FrameKinds
  <2> QED
    BY <1>2, <1>3, <2>1, <2>3, <2>4, Zenon DEF After
<1> QED
  BY <1>1, <1>4, <1>5, Zenon

\* A queue in which a frame is sent.
LEMMA QueueSent ==
    ASSUME NEW S, NEW P, NEW R, P \subseteq R, NEW q, QueueOK(q, S, P), NEW f \in Frames(S),
           f.type \in {"SF", "FF"} => Meaning(f.data) \in R
    PROVE  QueueOK(Append(q, f), S, R) /\ Longer(Append(q, f), q, f)
<1> DEFINE r == Append(q, f)
<1>1. q \in Seq(Frames(S))
  BY DEF QueueOK
<1>2. r \in Seq(Frames(S)) /\ Longer(r, q, f)
  BY <1>1, Added
<1> HIDE DEF r
<1>3. \A i \in 1..Len(q) : q[i].type \in {"SF", "FF"} => Meaning(q[i].data) \in P
  BY Zenon DEF QueueOK
<1>4. \A i \in 1..Len(r) : (i \in 1..Len(q) /\ r[i] = q[i]) \/ r[i] = f
  BY <1>2 DEF Longer
<1>5. \A i \in 1..Len(r) : r[i].type \in {"SF", "FF"} => Meaning(r[i].data) \in R
  BY <1>3, <1>4
<1>6. QueueOK(r, S, R)
  BY <1>2, <1>5, Zenon DEF QueueOK
<1> QED
  BY <1>2, <1>6 DEF r

\* A queue whose oldest frame is repeated, or which is left alone while more is sent elsewhere.
LEMMA QueueSame ==
    ASSUME NEW S, NEW P, NEW R, P \subseteq R, NEW q, QueueOK(q, S, P)
    PROVE  /\ QueueOK(q, S, R)
           /\ q # <<>> => QueueOK(<<Head(q)>> \o q, S, P)
<1>1. q \in Seq(Frames(S))
  BY DEF QueueOK
<1>2. \A i \in 1..Len(q) : q[i].type \in {"SF", "FF"} => Meaning(q[i].data) \in P
  BY Zenon DEF QueueOK
<1>3. QueueOK(q, S, R)
  BY <1>1, <1>2 DEF QueueOK
<1>4. ASSUME q # <<>> PROVE QueueOK(<<Head(q)>> \o q, S, P)
  <2> DEFINE h == Head(q)
             r == <<h>> \o q
  <2>1. h \in Frames(S) /\ h = q[1] /\ 1 \in 1..Len(q)
    BY <1>1, <1>4, Shorter
  <2> HIDE DEF h
  <2>2. h \in Frames(S) /\ q \in Seq(Frames(S))
    BY <1>1, <2>1
  <2>3. r \in Seq(Frames(S)) /\ Len(r) = 1 + Len(q) /\ Len(q) \in Nat
        /\ \A i \in 1..Len(r) : IF i = 1 THEN r[i] = h ELSE i - 1 \in 1..Len(q) /\ r[i] = q[i - 1]
    BY ONLY <2>2
  <2> HIDE DEF r
  <2>4. \A i \in 1..Len(r) : \E j \in 1..Len(q) : r[i] = q[j]
    BY <2>1, <2>3
  <2>5. \A i \in 1..Len(r) : r[i].type \in {"SF", "FF"} => Meaning(r[i].data) \in P
    BY <1>2, <2>4
  <2>6. QueueOK(r, S, P)
    BY <2>3, <2>5, Zenon DEF QueueOK
  <2> QED
    BY <2>6 DEF r, h
<1> QED
  BY <1>3, <1>4

(***************************************************************************)
(* What always holds                                                       *)
(***************************************************************************)

\* The values a local starts from.
LEMMA Starts ==
    /\ NoTx \in Txs /\ NoRx \in Rxs /\ NoCount \in Counts /\ EcuIdle \in Ecus
    /\ StartTx \in Txs /\ StartTx.off = FfCap
    /\ NoTx.off = 0 /\ NoRx.bytes = <<>> /\ NoRx.len = 0 /\ Len(<<>>) = 0 /\ <<>> \in PduBytes
    /\ EcuIdle.st = "idle" /\ EcuIdle.bytes = <<>>
    /\ \A n \in 0..MaxPending : [NoCount EXCEPT !.pending = n] \in Counts
    /\ \A b \in PduBytes, st \in {"idle", "pending", "ok", "broken", "limit", "refused"} :
            Result(st, b) \in Results /\ Result(st, b).status = st /\ Result(st, b).bytes = b
<1>1. /\ SeqMod \in Nat /\ SeqMod > 1 /\ FfCap \in Nat
      /\ MaxPayload \in Nat /\ MaxWait \in Nat /\ MaxUnrelated \in Nat /\ MaxForeign \in Nat /\ MaxPending \in Nat
  BY IsoTpAssumption
<1>2. <<>> \in PduBytes /\ Len(<<>>) = 0
  BY DEF PduBytes
<1>3. 0 \in 0..(SeqMod - 1) /\ 1 \in 0..(SeqMod - 1) /\ 0 \in 0..MaxPayload /\ 0 \in 0..MaxWait
      /\ 0 \in 0..MaxUnrelated /\ 0 \in 0..MaxForeign /\ 0 \in 0..MaxPending
  BY <1>1
<1>4. NoTx \in Txs /\ StartTx \in Txs /\ StartTx.off = FfCap /\ NoTx.off = 0
  BY <1>1, <1>3 DEF NoTx, StartTx, Txs
<1>5. NoRx \in Rxs /\ NoRx.bytes = <<>> /\ NoRx.len = 0
  BY <1>2, <1>3 DEF NoRx, Rxs
<1>6. NoCount \in Counts /\ \A n \in 0..MaxPending : [NoCount EXCEPT !.pending = n] \in Counts
  BY <1>3 DEF NoCount, Counts
<1>7. EcuIdle \in Ecus /\ EcuIdle.st = "idle" /\ EcuIdle.bytes = <<>>
  BY <1>2 DEF EcuIdle, Ecus
<1>8. \A b \in PduBytes, st \in {"idle", "pending", "ok", "broken", "limit", "refused"} :
          Result(st, b) \in Results /\ Result(st, b).status = st /\ Result(st, b).bytes = b
  BY DEF Result, Results
<1> QED
  BY <1>2, <1>4, <1>5, <1>6, <1>7, <1>8

\* Nothing is on its way at first.
LEMMA InitAlways == Init => Always
<1> SUFFICES ASSUME Init PROVE Always
  OBVIOUS
<1> USE DEF Init
<1>1. MaxCalls \in Nat /\ MaxFaults \in Nat
  BY IsoTpAssumption
<1>2. CallOK
  <2>1. call = 0 /\ req = NoRequest /\ asked = {} /\ given = {} /\ faults = 0
    OBVIOUS
  <2>2. call \in 0..MaxCalls /\ faults \in 0..MaxFaults
    BY <1>1, <2>1
  <2>3. repeated \in BOOLEAN
    BY Zenon
  <2> QED
    BY <2>1, <2>2, <2>3, Zenon DEF CallOK
<1>3. LocalsOK
  <2>1. result \in Results /\ result.status = "idle" /\ result.bytes = <<>>
    BY Starts
  <2>2. rx.bytes = <<>> /\ rx.len = 0 /\ Len(<<>>) = 0
    BY Starts
  <2>3. Len(rx.bytes) <= rx.len
    BY <2>2
  <2> QED
    BY <2>1, <2>3, Starts DEF LocalsOK
<1>4. ExchangeOK
  BY DEF ExchangeOK
<1>5. BusOK
  <2>1. <<>> \in Seq(Frames({BlockSize})) /\ <<>> \in Seq(Frames(EcuBlocks \cup {0})) /\ 1..Len(<<>>) = {}
    OBVIOUS
  <2> QED
    BY <2>1 DEF BusOK, QueueOK
<1>6. EcuOK
  BY Starts DEF EcuOK
<1> QED
  BY <1>2, <1>3, <1>4, <1>5, <1>6 DEF Always

\* A failure leaves the locals as they were before the exchange.
LEMMA FailedLocals ==
    ASSUME NEW why \in {"broken", "limit", "refused"}, Failed(why)
    PROVE  LocalsOK' /\ pc' = "idle" /\ ~clean' /\ result'.status = why
<1>1. pc' = "idle" /\ result' = Result(why, <<>>) /\ tx' = NoTx /\ rx' = NoRx /\ count' = NoCount
  BY DEF Failed
<1>2. clean' = FALSE
  BY DEF Failed
<1>3. result' \in Results /\ result'.status = why /\ result'.bytes = <<>>
  BY <1>1, Starts
<1>4. rx'.bytes = <<>> /\ rx'.len = 0 /\ Len(<<>>) = 0
  BY <1>1, Starts
<1>5. Len(rx'.bytes) <= rx'.len
  BY <1>4
<1>6. tx' \in Txs /\ rx' \in Rxs /\ count' \in Counts
  BY <1>1, Starts
<1>7. (pc' = "idle" <=> result'.status # "pending") /\ (result'.status # "ok" => result'.bytes = <<>>)
  BY <1>1, <1>3
<1>8. pc' \in {"idle", "flow", "send", "pdu", "cont"}
  BY <1>1
<1>9. clean' \in BOOLEAN
  BY <1>2, Zenon
<1>10. LocalsOK'
  BY <1>3, <1>5, <1>6, <1>7, <1>8, <1>9, Zenon DEF LocalsOK
<1> QED
  BY <1>1, <1>2, <1>3, <1>10, Zenon

\* What a reassembled PDU leads to.
WaitsOn(bytes) ==
    /\ Meaning(bytes).kind = "pending" /\ pc' = "pdu" /\ rx' = NoRx /\ UNCHANGED <<tx, result, clean>>

Returns(bytes) ==
    /\ pc' = "idle" /\ result' = Result("ok", bytes)
    /\ clean' = (clean /\ Meaning(bytes).kind # "pending")
    /\ req.raw \/ strip_response_for_request(bytes)

FailsNow == \E why \in {"broken", "limit", "refused"} : Failed(why)

\* A PDU in hand is waited on, returned, or fails the exchange.
LEMMA ReceivedLocals ==
    ASSUME LocalsOK, pc # "idle", NEW bytes \in PduBytes, Received(bytes)
    PROVE  /\ LocalsOK' /\ pc' \in {"idle", "pdu"}
           /\ WaitsOn(bytes) \/ Returns(bytes) \/ FailsNow
<1>1. CASE /\ ~req.raw /\ is_response_pending_for(bytes) /\ count.pending < MaxPending
           /\ count' = [NoCount EXCEPT !.pending = count.pending + 1]
           /\ pc' = "pdu"
           /\ rx' = NoRx
           /\ UNCHANGED <<tx, result, clean>>
  <2>1. pc' = "pdu" /\ rx' = NoRx /\ tx' = tx /\ result' = result /\ clean' = clean
    BY <1>1, Zenon
  <2>2. count' \in Counts
    <3>1. count.pending \in 0..MaxPending /\ MaxPending \in Nat
      BY IsoTpAssumption DEF LocalsOK, Counts
    <3>2. count.pending + 1 \in 0..MaxPending
      BY <1>1, <3>1
    <3> QED
      BY <1>1, <3>2, Starts
  <2>3. rx' \in Rxs /\ Len(rx'.bytes) <= rx'.len
    <3>1. rx'.bytes = <<>> /\ rx'.len = 0 /\ Len(<<>>) = 0 /\ rx' \in Rxs
      BY <2>1, Starts
    <3> QED
      BY <3>1
  <2>4. /\ tx \in Txs /\ result \in Results /\ result.status = "pending"
        /\ result.status # "ok" => result.bytes = <<>>
    BY DEF LocalsOK
  <2>5. pc' \in {"idle", "flow", "send", "pdu", "cont"} /\ (pc' = "idle" <=> result'.status # "pending")
    BY <2>1, <2>4
  <2>6. LocalsOK'
    <3>1. clean \in BOOLEAN
      BY Zenon DEF LocalsOK
    <3> QED
      BY <2>1, <2>2, <2>3, <2>4, <2>5, <3>1, Zenon DEF LocalsOK
  <2>7. WaitsOn(bytes)
    BY <1>1, Zenon DEF WaitsOn, is_response_pending_for
  <2> QED
    BY <2>1, <2>6, <2>7
<1>2. CASE /\ req.raw \/ (~is_response_pending_for(bytes) /\ strip_response_for_request(bytes))
           /\ pc' = "idle"
           /\ result' = Result("ok", bytes)
           /\ tx' = NoTx /\ rx' = NoRx /\ count' = NoCount
           /\ clean' = (clean /\ Meaning(bytes).kind # "pending")
  <2>1. pc' = "idle" /\ result' = Result("ok", bytes) /\ tx' = NoTx /\ rx' = NoRx /\ count' = NoCount
    BY <1>2
  <2>2. result' \in Results /\ result'.status = "ok"
    BY <2>1, Starts
  <2>3. rx' \in Rxs /\ Len(rx'.bytes) <= rx'.len
    <3>1. rx'.bytes = <<>> /\ rx'.len = 0 /\ Len(<<>>) = 0 /\ rx' \in Rxs
      BY <2>1, Starts
    <3> QED
      BY <3>1
  <2>4. tx' \in Txs /\ count' \in Counts
    BY <2>1, Starts
  <2>5. /\ pc' \in {"idle", "flow", "send", "pdu", "cont"}
        /\ pc' = "idle" <=> result'.status # "pending"
        /\ result'.status # "ok" => result'.bytes = <<>>
    BY <2>1, <2>2
  <2>6. clean' \in BOOLEAN
    BY <1>2, Zenon
  <2>7. LocalsOK'
    BY <2>2, <2>3, <2>4, <2>5, <2>6, Zenon DEF LocalsOK
  <2>8. Returns(bytes)
    BY <1>2, Zenon DEF Returns
  <2> QED
    BY <2>1, <2>7, <2>8
<1>3. CASE Failed("limit") \/ Failed("broken")
  BY <1>3, FailedLocals DEF FailsNow
<1> QED
  BY <1>1, <1>2, <1>3, Zenon DEF Received

\* A frame is read by the tester.
LEMMA TesterReads ==
    ASSUME BusOK, recv_frame
    PROVE  /\ pc # "idle" /\ toTester # <<>> /\ toTester' = Tail(toTester) /\ Head(toTester) = toTester[1]
           /\ QueueOK(toTester', EcuBlocks \cup {0}, given)
           /\ Rear(toTester', toTester) /\ After(toTester', toTester)
           /\ FrameFacts(toTester[1], EcuBlocks \cup {0})
           /\ toTester[1].type \in {"SF", "FF"} => Meaning(toTester[1].data) \in given
<1>1. pc # "idle" /\ toTester # <<>> /\ toTester' = Tail(toTester)
  BY DEF recv_frame, Awaiting
<1>2. QueueOK(toTester, EcuBlocks \cup {0}, given)
  BY DEF BusOK
<1> QED
  BY <1>1, <1>2, QueueRead

\* What does not change with the tester's locals.
LEMMA CallSame ==
    ASSUME CallOK, UNCHANGED <<call, req, asked, given, repeated>>, faults' \in 0..MaxFaults
    PROVE  CallOK'
BY Zenon DEF CallOK

\* What a step leaves alone of the ECU stays well-typed.
LEMMA EcuSame ==
    ASSUME EcuOK, UNCHANGED <<asked, ecu, heard, given>>
    PROVE  EcuOK'
BY Zenon DEF EcuOK

\* Always is kept by wait_for_continue_to_send.
LEMMA WaitAlways == Always /\ wait_for_continue_to_send => Always'
<1> SUFFICES ASSUME Always, wait_for_continue_to_send PROVE Always'
  OBVIOUS
<1> DEFINE f == Head(toTester)
<1>1. recv_frame /\ pc = "flow" /\ UNCHANGED <<call, req, asked, toEcu, ecu, heard, given, repeated, faults>>
  BY DEF wait_for_continue_to_send
<1>2. /\ pc # "idle" /\ f = toTester[1] /\ FrameFacts(f, EcuBlocks \cup {0})
      /\ QueueOK(toTester', EcuBlocks \cup {0}, given)
  BY <1>1, TesterReads DEF Always
<1>3. CallOK' /\ EcuOK'
  BY <1>1, CallSame, EcuSame DEF Always, CallOK
<1>4. BusOK'
  BY <1>1, <1>2 DEF Always, BusOK
<1>5. \/ /\ f.type = "FC" /\ f.status = "cts"
         /\ tx' = [tx EXCEPT !.block = 0, !.bs = f.bs]
         /\ count' = NoCount /\ pc' = "send" /\ UNCHANGED <<rx, result, clean>>
      \/ /\ count.wait < MaxWait /\ count' = CountWait /\ UNCHANGED <<pc, tx, rx, result, clean>>
      \/ FailsNow
  BY Zenon DEF wait_for_continue_to_send, FailsNow
<1> HIDE DEF f
<1>6. LocalsOK' /\ ExchangeOK'
  <2>1. CASE /\ f.type = "FC" /\ f.status = "cts"
             /\ tx' = [tx EXCEPT !.block = 0, !.bs = f.bs]
             /\ count' = NoCount /\ pc' = "send" /\ UNCHANGED <<rx, result, clean>>
    <3>1. f.bs \in EcuBlocks \cup {0}
      BY <1>2, <2>1 DEF FrameFacts
    <3>2. tx' \in Txs /\ tx'.off = tx.off
      BY <2>1, <3>1 DEF Always, LocalsOK, Txs
    <3>3. count' \in Counts
      BY <2>1, Starts
    <3>4. /\ rx \in Rxs /\ result \in Results /\ Len(rx.bytes) <= rx.len
          /\ pc = "idle" <=> result.status # "pending"
          /\ result.status # "ok" => result.bytes = <<>>
      BY DEF Always, LocalsOK
    <3>5. clean \in BOOLEAN
      BY Zenon DEF Always, LocalsOK
    <3>6. rx' = rx /\ result' = result /\ clean' = clean /\ pc' = "send"
      BY <2>1
    <3>7. pc' \in {"idle", "flow", "send", "pdu", "cont"} /\ (pc' = "idle" <=> result'.status # "pending")
      BY <1>2, <3>4, <3>6
    <3>8. LocalsOK'
      BY <3>2, <3>3, <3>4, <3>5, <3>6, <3>7, Zenon DEF LocalsOK
    <3>9. ExchangeOK'
      BY <1>1, <3>2, <3>6 DEF Always, ExchangeOK
    <3> QED
      BY <3>8, <3>9
  <2>2. CASE count.wait < MaxWait /\ count' = CountWait /\ UNCHANGED <<pc, tx, rx, result, clean>>
    <3>1. count.wait \in 0..MaxWait /\ MaxWait \in Nat
      BY IsoTpAssumption DEF Always, LocalsOK, Counts
    <3>2. count.wait + 1 \in 0..MaxWait /\ NoCount \in Counts
      BY <2>2, <3>1, Starts
    <3>3. count' \in Counts
      BY <2>2, <3>2 DEF CountWait, Counts
    <3>4. LocalsOK'
      BY <2>2, <3>3, Zenon DEF Always, LocalsOK
    <3>5. ExchangeOK'
      BY <1>1, <2>2, Zenon DEF Always, ExchangeOK
    <3> QED
      BY <3>4, <3>5
  <2>3. CASE FailsNow
    <3>1. LocalsOK' /\ pc' = "idle"
      BY <2>3, FailedLocals DEF FailsNow
    <3> QED
      BY <3>1 DEF ExchangeOK
  <2> QED
    BY <1>5, <2>1, <2>2, <2>3
<1> QED
  BY <1>3, <1>4, <1>6 DEF Always

\* Always is kept by a consecutive frame of the tester.
LEMMA SendAlways == Always /\ send_consecutive => Always'
<1> SUFFICES ASSUME Always, send_consecutive PROVE Always'
  OBVIOUS
<1> DEFINE o == NextOff(req, tx.off)
           f == Consecutive(tx.seq, Chunk(req, tx.off))
<1>1. /\ pc = "send" /\ toEcu' = Append(toEcu, f)
      /\ tx' = [tx EXCEPT !.off = o, !.seq = NextSeq(@), !.block = @ + 1]
      /\ pc' = IF o >= req.len THEN "pdu" ELSE IF SentBlock THEN "flow" ELSE "send"
      /\ UNCHANGED <<call, req, asked, rx, count, result, toTester, ecu, heard, given, clean, repeated, faults>>
  BY DEF send_consecutive, NextOff
<1>2. req \in Pdus /\ tx.off \in Nat /\ tx.off < req.len /\ tx.seq \in Nat /\ tx.block \in Nat
  <2>1. req \in asked /\ tx.off < req.len /\ asked \subseteq Requests
    BY <1>1 DEF Always, ExchangeOK, CallOK
  <2>2. SeqMod \in Nat
    BY IsoTpAssumption
  <2> QED
    BY <2>1, <2>2 DEF Always, LocalsOK, Txs, Pdus
<1>3. Piece(Chunk(req, tx.off), req, tx.off) /\ o \in Nat /\ req.len \in Nat
  BY <1>2, ChunkOf, BytesOf
<1>4. f \in Frames({BlockSize}) /\ f.type = "CF"
  <2>1. Chunk(req, tx.off) \in PduBytes
    BY <1>3 DEF Piece
  <2>2. f \in Frames({BlockSize})
    BY <1>2, <2>1, FrameMade
  <2> QED
    BY <2>2 DEF Consecutive
<1> HIDE DEF o, f
<1>5. QueueOK(toEcu', {BlockSize}, asked')
  <2>1. QueueOK(toEcu, {BlockSize}, asked) /\ asked \subseteq asked
    BY DEF Always, BusOK
  <2>2. f.type \in {"SF", "FF"} => Meaning(f.data) \in asked
    BY <1>4
  <2> QED
    BY <1>1, <1>4, <2>1, <2>2, QueueSent
<1>6. CallOK' /\ EcuOK'
  BY <1>1, CallSame, EcuSame DEF Always, CallOK
<1>7. BusOK'
  BY <1>1, <1>5 DEF Always, BusOK
<1>8. tx' \in Txs /\ tx'.off = o
  <2>1. NextSeq(tx.seq) \in 0..(SeqMod - 1)
    BY <1>2, NextSeqTyped
  <2>2. tx.block + 1 \in Nat
    BY <1>2
  <2>3. tx \in Txs
    BY DEF Always, LocalsOK
  <2> QED
    BY <1>1, <1>3, <2>1, <2>2, <2>3 DEF Txs
<1>9. pc' \in {"pdu", "flow", "send"} /\ (pc' \in {"flow", "send"} => o < req.len)
  BY <1>1, <1>3
<1>10. LocalsOK'
  <2>1. pc' \in {"idle", "flow", "send", "pdu", "cont"} /\ (pc' = "idle" <=> result'.status # "pending")
    BY <1>1, <1>9 DEF Always, LocalsOK
  <2>2. rx' = rx /\ count' = count /\ result' = result /\ clean' = clean
    BY <1>1
  <2> QED
    BY <1>8, <2>1, <2>2, Zenon DEF Always, LocalsOK
<1>11. ExchangeOK'
  BY <1>1, <1>8, <1>9 DEF Always, ExchangeOK
<1> QED
  BY <1>6, <1>7, <1>10, <1>11 DEF Always

\* What recv_pdu does with the frame it reads.
OneFrame(f) == f.type = "SF" /\ Received(f.data) /\ UNCHANGED toEcu

StartsPdu(f) ==
    /\ f.type = "FF" /\ f.len > SfCap /\ validate_pdu_len(f.len)
    /\ toEcu' = Append(toEcu, FlowControl("cts", BlockSize))
    /\ rx' = [bytes |-> f.data, len |-> f.len, seq |-> 1, block |-> 0]
    /\ count' = [NoCount EXCEPT !.pending = count.pending]
    /\ pc' = "cont" /\ UNCHANGED <<tx, result, clean>>

Fails == FailsNow /\ UNCHANGED toEcu

\* What recv_pdu makes of a frame: a PDU, the start of one, or a failure.
LEMMA PduCases ==
    ASSUME Always, recv_pdu
    PROVE  /\ pc = "pdu" /\ recv_frame /\ Head(toTester) = toTester[1]
           /\ UNCHANGED <<call, req, asked, ecu, heard, given, repeated, faults>>
           /\ OneFrame(toTester[1]) \/ StartsPdu(toTester[1]) \/ Fails
<1>1. recv_frame /\ pc = "pdu" /\ UNCHANGED <<call, req, asked, ecu, heard, given, repeated, faults>>
  BY DEF recv_pdu
<1>2. Head(toTester) = toTester[1]
  BY <1>1, TesterReads DEF Always
<1>3. OneFrame(Head(toTester)) \/ StartsPdu(Head(toTester)) \/ Fails
  <2> DEFINE f == Head(toTester)
             fits == f.type \in {"SF", "FF"} /\ validate_pdu_len(IF f.type = "SF" THEN Len(f.data) ELSE f.len)
  <2>1. CASE f.type = "SF" /\ fits /\ Received(f.data) /\ UNCHANGED toEcu
    BY <2>1, Zenon DEF OneFrame
  <2>2. CASE /\ f.type = "FF" /\ f.len > SfCap /\ fits
             /\ toEcu' = Append(toEcu, FlowControl("cts", BlockSize))
             /\ rx' = [bytes |-> f.data, len |-> f.len, seq |-> 1, block |-> 0]
             /\ count' = [NoCount EXCEPT !.pending = count.pending]
             /\ pc' = "cont"
             /\ UNCHANGED <<tx, result, clean>>
    <3>1. f.type # "SF"
      BY <2>2
    <3>2. validate_pdu_len(f.len)
      BY <2>2, <3>1
    <3> QED
      BY <2>2, <3>2, Zenon DEF StartsPdu
  <2>3. CASE (Failed("refused") \/ Failed("broken")) /\ UNCHANGED toEcu
    BY <2>3, Zenon DEF Fails, FailsNow
  <2> QED
    BY <2>1, <2>2, <2>3, Zenon DEF recv_pdu
<1> QED
  BY <1>1, <1>2, <1>3

\* Always is kept by recv_pdu.
LEMMA PduAlways == Always /\ recv_pdu => Always'
<1> SUFFICES ASSUME Always, recv_pdu PROVE Always'
  OBVIOUS
<1> DEFINE f == toTester[1]
<1>1. /\ pc = "pdu" /\ recv_frame
      /\ UNCHANGED <<call, req, asked, ecu, heard, given, repeated, faults>>
      /\ OneFrame(f) \/ StartsPdu(f) \/ Fails
  BY PduCases
<1>2. /\ pc # "idle" /\ FrameFacts(f, EcuBlocks \cup {0})
      /\ QueueOK(toTester', EcuBlocks \cup {0}, given)
      /\ f.type \in {"SF", "FF"} => Meaning(f.data) \in given
  BY <1>1, TesterReads DEF Always
<1>3. CallOK' /\ EcuOK'
  BY <1>1, CallSame, EcuSame DEF Always, CallOK
<1> HIDE DEF f
<1>4. pc # "idle" => call # 0 /\ req \in asked /\ req.len > 0
  BY DEF Always, ExchangeOK
<1>5. QueueOK(toEcu, {BlockSize}, asked) /\ asked \subseteq asked
  BY DEF Always, BusOK
<1>6. LocalsOK' /\ ExchangeOK' /\ QueueOK(toEcu', {BlockSize}, asked)
  <2>1. CASE OneFrame(f)
    <3>1. f.data \in PduBytes /\ Received(f.data) /\ toEcu' = toEcu
      BY <1>2, <2>1 DEF OneFrame, FrameFacts
    <3>2. LocalsOK' /\ pc' \in {"idle", "pdu"}
      BY <1>2, <3>1, ReceivedLocals DEF Always
    <3>3. ExchangeOK'
      BY <1>1, <1>2, <1>4, <3>2 DEF ExchangeOK
    <3> QED
      BY <1>5, <3>1, <3>2, <3>3
  <2>2. CASE StartsPdu(f)
    <3>1. /\ f.type = "FF" /\ validate_pdu_len(f.len) /\ toEcu' = Append(toEcu, FlowControl("cts", BlockSize))
          /\ rx' = [bytes |-> f.data, len |-> f.len, seq |-> 1, block |-> 0]
          /\ count' = [NoCount EXCEPT !.pending = count.pending]
          /\ pc' = "cont" /\ tx' = tx /\ result' = result /\ clean' = clean
      BY <2>2 DEF StartsPdu
    <3>2. f.data \in PduBytes /\ f.data # <<>> /\ f.len \in Nat /\ Len(f.data) <= f.len
      BY <1>2, <3>1 DEF FrameFacts
    <3>3. rx' \in Rxs /\ Len(rx'.bytes) <= rx'.len /\ rx'.bytes = f.data
      <4>1. MaxPayload \in Nat /\ SeqMod \in Nat /\ SeqMod > 1
        BY IsoTpAssumption
      <4>2. f.len \in 0..MaxPayload /\ 1 \in 0..(SeqMod - 1)
        BY <3>1, <3>2, <4>1 DEF validate_pdu_len
      <4> QED
        BY <3>1, <3>2, <4>2 DEF Rxs
    <3>4. count' \in Counts
      <4>1. count.pending \in 0..MaxPending
        BY DEF Always, LocalsOK, Counts
      <4> QED
        BY <3>1, <4>1, Starts
    <3>5. pc' \in {"idle", "flow", "send", "pdu", "cont"} /\ (pc' = "idle" <=> result'.status # "pending")
      BY <1>2, <3>1 DEF Always, LocalsOK
    <3>6. LocalsOK'
      BY <3>1, <3>3, <3>4, <3>5, Zenon DEF Always, LocalsOK
    <3>7. ExchangeOK'
      BY <1>1, <1>2, <1>4, <3>1, <3>2, <3>3 DEF ExchangeOK
    <3>8. FlowControl("cts", BlockSize) \in Frames({BlockSize}) /\ FlowControl("cts", BlockSize).type = "FC"
      <4>1. FlowControl("cts", BlockSize).type = "FC"
        BY DEF FlowControl
      <4> QED
        BY <4>1, FrameMade
    <3>9. QueueOK(toEcu', {BlockSize}, asked)
      <4> DEFINE g == FlowControl("cts", BlockSize)
      <4> HIDE DEF g
      <4>1. g \in Frames({BlockSize}) /\ g.type = "FC"
        BY <3>8 DEF g
      <4>2. g.type \in {"SF", "FF"} => Meaning(g.data) \in asked
        BY <4>1
      <4>3. toEcu' = Append(toEcu, g)
        BY <3>1 DEF g
      <4> QED
        BY <1>5, <4>1, <4>2, <4>3, QueueSent
    <3> QED
      BY <3>6, <3>7, <3>9
  <2>3. CASE Fails
    <3>1. LocalsOK' /\ pc' = "idle" /\ toEcu' = toEcu
      BY <2>3, FailedLocals DEF Fails, FailsNow
    <3> QED
      BY <1>5, <3>1 DEF ExchangeOK
  <2> QED
    BY <1>1, <2>1, <2>2, <2>3
<1>7. BusOK'
  BY <1>1, <1>2, <1>6 DEF BusOK
<1> QED
  BY <1>3, <1>6, <1>7 DEF Always

\* The bytes held once a consecutive frame has been read: no more than announced.
Grown(f) == rx.bytes \o SubSeq(f.data, 1, Lesser(rx.len - Len(rx.bytes), Len(f.data)))

\* The bytes held grow to no more than was announced.
LEMMA GrownBytes ==
    ASSUME LocalsOK, rx.bytes # <<>>, NEW f, f.data \in PduBytes
    PROVE  /\ Grown(f) \in PduBytes /\ Grown(f) # <<>> /\ Meaning(Grown(f)) = Meaning(rx.bytes)
           /\ Len(Grown(f)) <= rx.len /\ Len(Grown(f)) \in Nat
           /\ Len(rx.bytes) + Len(f.data) <= rx.len => Grown(f) = rx.bytes \o f.data
<1> DEFINE b == rx.bytes
           d == f.data
           k == Lesser(rx.len - Len(b), Len(d))
           e == SubSeq(d, 1, k)
           g == b \o e
<1>1. b \in PduBytes /\ b # <<>> /\ d \in PduBytes /\ rx.len \in Nat /\ Len(b) <= rx.len
  <2>1. MaxPayload \in Nat
    BY IsoTpAssumption
  <2> QED
    BY <2>1 DEF LocalsOK, Rxs
<1> DEFINE n == rx.len
<1> HIDE DEF b, d, n
<1>2. b \in Seq(Pdus \X Nat) /\ d \in Seq(Pdus \X Nat)
  BY <1>1 DEF PduBytes
<1>3. Len(b) \in Nat /\ Len(d) \in Nat
  BY ONLY <1>2
<1>4. k \in Nat /\ k <= Len(d) /\ Len(b) + k <= n /\ (Len(b) + Len(d) <= n => k = Len(d))
  BY <1>1, <1>3 DEF Lesser, n
<1> HIDE DEF k
<1>5. d \in Seq(Pdus \X Nat) /\ k \in Nat /\ k <= Len(d)
  BY <1>2, <1>4
<1>6. e \in Seq(Pdus \X Nat) /\ Len(e) = k /\ (k = Len(d) => e = d)
  BY ONLY <1>5
<1> HIDE DEF e
<1>7. g \in PduBytes /\ g # <<>> /\ Meaning(g) = Meaning(b) /\ Len(g) = Len(b) + Len(e)
  <2>1. e \in PduBytes
    BY <1>6 DEF PduBytes
  <2> QED
    BY <1>1, <2>1, BytesJoined
<1>8. Len(b) + Len(d) <= n => g = b \o d
  BY <1>4, <1>6
<1> HIDE DEF g
<1>9. Len(g) <= n /\ Len(g) \in Nat
  BY <1>3, <1>4, <1>6, <1>7
<1>10. g = Grown(f)
  BY DEF Grown, g, e, k, b, d
<1> QED
  BY <1>7, <1>8, <1>9, <1>10 DEF n, b, d

\* What recv_consecutive does with the frame it reads.
GoesOn(f) ==
    /\ Continues(f) /\ Len(Grown(f)) < rx.len
    /\ \E n \in Nat : rx' = [rx EXCEPT !.bytes = Grown(f), !.seq = NextSeq(@), !.block = n]
    /\ toEcu' = toEcu \/ toEcu' = Append(toEcu, FlowControl("cts", BlockSize))
    /\ count' = [NoCount EXCEPT !.pending = count.pending]
    /\ UNCHANGED <<pc, tx, result, clean>>

Completes(f) ==
    Continues(f) /\ ~(Len(Grown(f)) < rx.len) /\ Received(Grown(f)) /\ UNCHANGED toEcu

\* What recv_consecutive makes of a frame: more bytes, the whole PDU, or a failure.
LEMMA ConsecutiveCases ==
    ASSUME Always, recv_consecutive
    PROVE  /\ pc = "cont" /\ recv_frame /\ Head(toTester) = toTester[1]
           /\ UNCHANGED <<call, req, asked, ecu, heard, given, repeated, faults>>
           /\ GoesOn(toTester[1]) \/ Completes(toTester[1]) \/ Fails
<1>1. recv_frame /\ pc = "cont" /\ UNCHANGED <<call, req, asked, ecu, heard, given, repeated, faults>>
  BY DEF recv_consecutive
<1>2. Head(toTester) = toTester[1]
  BY <1>1, TesterReads DEF Always
<1> DEFINE f == Head(toTester)
<1>3. \/ /\ Continues(f) /\ Len(Grown(f)) < rx.len
         /\ rx' = [rx EXCEPT !.bytes = Grown(f), !.seq = NextSeq(@),
                             !.block = IF ReceivedBlock THEN 0 ELSE @ + 1]
         /\ toEcu' = IF ReceivedBlock THEN Append(toEcu, FlowControl("cts", BlockSize)) ELSE toEcu
         /\ count' = [NoCount EXCEPT !.pending = count.pending]
         /\ UNCHANGED <<pc, tx, result, clean>>
      \/ Continues(f) /\ ~(Len(Grown(f)) < rx.len) /\ Received(Grown(f)) /\ UNCHANGED toEcu
      \/ Failed("broken") /\ UNCHANGED toEcu
  BY Zenon DEF recv_consecutive, Grown
<1> HIDE DEF f
<1>4. GoesOn(f) \/ Completes(f) \/ Fails
  <2>1. CASE /\ Continues(f) /\ Len(Grown(f)) < rx.len
             /\ rx' = [rx EXCEPT !.bytes = Grown(f), !.seq = NextSeq(@),
                                 !.block = IF ReceivedBlock THEN 0 ELSE @ + 1]
             /\ toEcu' = IF ReceivedBlock THEN Append(toEcu, FlowControl("cts", BlockSize)) ELSE toEcu
             /\ count' = [NoCount EXCEPT !.pending = count.pending]
             /\ UNCHANGED <<pc, tx, result, clean>>
    <3> DEFINE n == IF ReceivedBlock THEN 0 ELSE rx.block + 1
    <3>1. n \in Nat
      BY DEF Always, LocalsOK, Rxs
    <3>2. rx' = [rx EXCEPT !.bytes = Grown(f), !.seq = NextSeq(@), !.block = n]
      BY <2>1
    <3>3. toEcu' = toEcu \/ toEcu' = Append(toEcu, FlowControl("cts", BlockSize))
      BY <2>1, Zenon
    <3> HIDE DEF n
    <3>4. \E m \in Nat : rx' = [rx EXCEPT !.bytes = Grown(f), !.seq = NextSeq(@), !.block = m]
      BY <3>1, <3>2
    <3> QED
      BY <2>1, <3>3, <3>4, Zenon DEF GoesOn
  <2>2. CASE Continues(f) /\ ~(Len(Grown(f)) < rx.len) /\ Received(Grown(f)) /\ UNCHANGED toEcu
    BY <2>2, Zenon DEF Completes
  <2>3. CASE Failed("broken") /\ UNCHANGED toEcu
    BY <2>3, Zenon DEF Fails, FailsNow
  <2> QED
    BY <1>3, <2>1, <2>2, <2>3, Zenon
<1> QED
  BY <1>1, <1>2, <1>4 DEF f

\* The tester's flow control is a frame like any other on the bus.
LEMMA FlowToEcu ==
    ASSUME BusOK
    PROVE  /\ QueueOK(Append(toEcu, FlowControl("cts", BlockSize)), {BlockSize}, asked)
           /\ Longer(Append(toEcu, FlowControl("cts", BlockSize)), toEcu, FlowControl("cts", BlockSize))
           /\ FlowControl("cts", BlockSize).type = "FC"
<1> DEFINE g == FlowControl("cts", BlockSize)
<1>1. g.type = "FC"
  BY DEF FlowControl
<1>2. g \in Frames({BlockSize})
  BY FrameMade
<1> HIDE DEF g
<1>3. g.type \in {"SF", "FF"} => Meaning(g.data) \in asked
  BY <1>1
<1>4. QueueOK(toEcu, {BlockSize}, asked) /\ asked \subseteq asked
  BY DEF BusOK
<1>5. QueueOK(Append(toEcu, g), {BlockSize}, asked) /\ Longer(Append(toEcu, g), toEcu, g)
  BY <1>2, <1>3, <1>4, QueueSent
<1> QED
  BY <1>1, <1>5 DEF g

\* Always is kept by recv_consecutive.
LEMMA ConsecutiveAlways == Always /\ recv_consecutive => Always'
<1> SUFFICES ASSUME Always, recv_consecutive PROVE Always'
  OBVIOUS
<1> DEFINE f == toTester[1]
<1>1. /\ pc = "cont" /\ recv_frame
      /\ UNCHANGED <<call, req, asked, ecu, heard, given, repeated, faults>>
      /\ GoesOn(f) \/ Completes(f) \/ Fails
  BY ConsecutiveCases
<1>2. /\ pc # "idle" /\ FrameFacts(f, EcuBlocks \cup {0})
      /\ QueueOK(toTester', EcuBlocks \cup {0}, given)
  BY <1>1, TesterReads DEF Always
<1>3. CallOK' /\ EcuOK'
  BY <1>1, CallSame, EcuSame DEF Always, CallOK
<1> HIDE DEF f
<1>4. call # 0 /\ req \in asked /\ req.len > 0 /\ rx.bytes # <<>> /\ Meaning(rx.bytes) \in given
  BY <1>1 DEF Always, ExchangeOK
<1>5. QueueOK(toEcu, {BlockSize}, asked)
  BY DEF Always, BusOK
<1>6. ASSUME Continues(f)
      PROVE  /\ Grown(f) \in PduBytes /\ Grown(f) # <<>> /\ Meaning(Grown(f)) = Meaning(rx.bytes)
             /\ Len(Grown(f)) <= rx.len
  <2>1. f.data \in PduBytes
    BY <1>2, <1>6 DEF Continues, FrameFacts
  <2> QED
    BY <1>4, <2>1, GrownBytes DEF Always
<1>7. LocalsOK' /\ ExchangeOK' /\ QueueOK(toEcu', {BlockSize}, asked)
  <2>1. CASE GoesOn(f)
    <3>1. /\ Continues(f) /\ Len(Grown(f)) < rx.len
          /\ toEcu' = toEcu \/ toEcu' = Append(toEcu, FlowControl("cts", BlockSize))
          /\ count' = [NoCount EXCEPT !.pending = count.pending]
          /\ pc' = pc /\ tx' = tx /\ result' = result /\ clean' = clean
      BY <2>1 DEF GoesOn
    <3>2. PICK n \in Nat : rx' = [rx EXCEPT !.bytes = Grown(f), !.seq = NextSeq(@), !.block = n]
      BY <2>1 DEF GoesOn
    <3>3. NextSeq(rx.seq) \in 0..(SeqMod - 1)
      <4>1. rx.seq \in Nat
        <5>1. SeqMod \in Nat
          BY IsoTpAssumption
        <5> QED
          BY <5>1 DEF Always, LocalsOK, Rxs
      <4> QED
        BY <4>1, NextSeqTyped
    <3>4. Grown(f) \in PduBytes /\ Len(Grown(f)) <= rx.len
      BY <1>6, <3>1
    <3>5. rx' \in Rxs /\ Len(rx'.bytes) <= rx'.len /\ rx'.bytes = Grown(f)
      BY <3>2, <3>3, <3>4 DEF Always, LocalsOK, Rxs
    <3>6. count' \in Counts
      <4>1. count.pending \in 0..MaxPending
        BY DEF Always, LocalsOK, Counts
      <4> QED
        BY <3>1, <4>1, Starts
    <3>7. LocalsOK'
      BY <3>1, <3>5, <3>6, Zenon DEF Always, LocalsOK
    <3>8. ExchangeOK'
      BY <1>1, <1>4, <1>6, <3>1, <3>5 DEF ExchangeOK
    <3>9. QueueOK(toEcu', {BlockSize}, asked)
      BY <1>5, <3>1, FlowToEcu DEF Always
    <3> QED
      BY <3>7, <3>8, <3>9
  <2>2. CASE Completes(f)
    <3>1. Grown(f) \in PduBytes /\ Received(Grown(f)) /\ toEcu' = toEcu
      BY <1>6, <2>2 DEF Completes
    <3>2. LocalsOK' /\ pc' \in {"idle", "pdu"}
      BY <1>2, <3>1, ReceivedLocals DEF Always
    <3> QED
      BY <1>1, <1>4, <1>5, <3>1, <3>2 DEF ExchangeOK
  <2>3. CASE Fails
    <3>1. LocalsOK' /\ pc' = "idle" /\ toEcu' = toEcu
      BY <2>3, FailedLocals DEF Fails, FailsNow
    <3> QED
      BY <1>5, <3>1 DEF ExchangeOK
  <2> QED
    BY <1>1, <2>1, <2>2, <2>3
<1>8. BusOK'
  BY <1>1, <1>2, <1>7 DEF BusOK
<1> QED
  BY <1>3, <1>7, <1>8 DEF Always

\* Frames of others: they are skipped, or end the exchange; nothing on the bus changes.
Skips == count' \in Counts /\ UNCHANGED <<pc, tx, rx, result, clean>>

\* A frame of others is skipped or ends the exchange.
LEMMA NoiseCases ==
    ASSUME Always, ReadUnrelated \/ ReadForeign \/ ReadFails
    PROVE  /\ pc # "idle" /\ UNCHANGED <<call, req, asked, toEcu, toTester, ecu, heard, given, repeated>>
           /\ faults' \in 0..MaxFaults
           /\ Skips \/ FailsNow
<1>1. count \in Counts /\ MaxFaults \in Nat /\ MaxUnrelated \in Nat /\ MaxForeign \in Nat
      /\ faults \in 0..MaxFaults
  BY IsoTpAssumption DEF Always, LocalsOK, CallOK
<1>2. 0 \in 0..MaxForeign
  BY <1>1
<1>3. CASE ReadUnrelated
  <2>1. pc # "idle" /\ UNCHANGED <<call, req, asked, toEcu, toTester, ecu, heard, given, repeated, faults>>
    BY <1>3 DEF ReadUnrelated, Awaiting, bus
  <2>2. \/ /\ count.unrelated < MaxUnrelated
           /\ count' = [count EXCEPT !.unrelated = @ + 1, !.foreign = 0]
           /\ UNCHANGED <<pc, tx, rx, result, clean>>
        \/ FailsNow
    BY <1>3, Zenon DEF ReadUnrelated, FailsNow
  <2>3. count.unrelated < MaxUnrelated => count.unrelated + 1 \in 0..MaxUnrelated
    BY <1>1 DEF Counts
  <2>4. count.unrelated < MaxUnrelated => [count EXCEPT !.unrelated = @ + 1, !.foreign = 0] \in Counts
    BY <1>1, <1>2, <2>3 DEF Counts
  <2>5. Skips \/ FailsNow
    BY <2>2, <2>4, Zenon DEF Skips
  <2> QED
    BY <1>1, <2>1, <2>5
<1>4. CASE ReadForeign
  <2>1. pc # "idle" /\ UNCHANGED <<call, req, asked, toEcu, toTester, ecu, heard, given, repeated, faults>>
    BY <1>4 DEF ReadForeign, Awaiting, bus
  <2>2. \/ /\ count.foreign < MaxForeign
           /\ count' = [count EXCEPT !.foreign = @ + 1]
           /\ UNCHANGED <<pc, tx, rx, result, clean>>
        \/ FailsNow
    BY <1>4, Zenon DEF ReadForeign, FailsNow
  <2>3. count.foreign < MaxForeign => count.foreign + 1 \in 0..MaxForeign
    BY <1>1 DEF Counts
  <2>4. count.foreign < MaxForeign => [count EXCEPT !.foreign = @ + 1] \in Counts
    BY <1>1, <2>3 DEF Counts
  <2>5. Skips \/ FailsNow
    BY <2>2, <2>4, Zenon DEF Skips
  <2> QED
    BY <1>1, <2>1, <2>5
<1>5. CASE ReadFails
  <2>1. pc # "idle" /\ UNCHANGED <<call, req, asked, toEcu, toTester, ecu, heard, given, repeated>>
    BY <1>5 DEF ReadFails, Awaiting, bus
  <2>2. faults' = faults \/ (faults < MaxFaults /\ faults' = faults + 1)
    BY <1>5 DEF ReadFails
  <2>3. FailsNow
    BY <1>5, Zenon DEF ReadFails, FailsNow
  <2> QED
    BY <1>1, <2>1, <2>2, <2>3
<1> QED
  BY <1>3, <1>4, <1>5

\* Always is kept by reads of frames of others and by failing reads.
LEMMA NoiseAlways == Always /\ (ReadUnrelated \/ ReadForeign \/ ReadFails) => Always'
<1> SUFFICES ASSUME Always, ReadUnrelated \/ ReadForeign \/ ReadFails PROVE Always'
  OBVIOUS
<1>1. /\ pc # "idle" /\ UNCHANGED <<call, req, asked, toEcu, toTester, ecu, heard, given, repeated>>
      /\ faults' \in 0..MaxFaults
      /\ Skips \/ FailsNow
  BY NoiseCases
<1>2. CallOK' /\ EcuOK'
  BY <1>1, CallSame, EcuSame DEF Always
<1>3. BusOK'
  BY <1>1 DEF Always, BusOK
<1>4. LocalsOK' /\ ExchangeOK'
  <2>1. CASE Skips
    <3>1. LocalsOK'
      BY <2>1, Zenon DEF Skips, Always, LocalsOK
    <3>2. ExchangeOK'
      BY <1>1, <2>1, Zenon DEF Skips, Always, ExchangeOK
    <3> QED
      BY <3>1, <3>2
  <2>2. CASE FailsNow
    <3>1. LocalsOK' /\ pc' = "idle"
      BY <2>2, FailedLocals DEF FailsNow
    <3> QED
      BY <3>1 DEF ExchangeOK
  <2> QED
    BY <1>1, <2>1, <2>2
<1> QED
  BY <1>2, <1>3, <1>4 DEF Always

(***************************************************************************)
(* The ECU and the bus                                                     *)
(***************************************************************************)

\* What does not change with the ECU.
LEMMA TesterSame ==
    ASSUME Always, UNCHANGED tester, UNCHANGED <<clean, repeated>>, faults' \in 0..MaxFaults,
           given \subseteq given', given' \subseteq Responses
    PROVE  CallOK' /\ LocalsOK' /\ ExchangeOK'
<1>1. UNCHANGED <<call, req, asked, pc, tx, rx, count, result>>
  BY DEF tester
<1>2. LocalsOK'
  BY <1>1, Zenon DEF Always, LocalsOK
<1>3. CallOK'
  BY <1>1, Zenon DEF Always, CallOK
<1>4. ExchangeOK'
  BY <1>1 DEF Always, ExchangeOK
<1> QED
  BY <1>2, <1>3, <1>4

\* The frame that the ECU reads was sent to it.
LEMMA EcuReadsFrame ==
    ASSUME BusOK, EcuReads
    PROVE  /\ toEcu # <<>> /\ toEcu' = Tail(toEcu) /\ Head(toEcu) = toEcu[1]
           /\ QueueOK(toEcu', {BlockSize}, asked)
           /\ Rear(toEcu', toEcu) /\ After(toEcu', toEcu)
           /\ FrameFacts(toEcu[1], {BlockSize})
           /\ toEcu[1].type \in {"SF", "FF"} => Meaning(toEcu[1].data) \in asked
<1>1. toEcu # <<>> /\ toEcu' = Tail(toEcu)
  BY DEF EcuReads
<1>2. QueueOK(toEcu, {BlockSize}, asked)
  BY DEF BusOK
<1> QED
  BY <1>1, <1>2, QueueRead

\* What EcuReads does with the frame it reads.
EcuBegins(f) ==
    /\ f.type = "FF" /\ UNCHANGED heard
    /\ ecu' = [EcuIdle EXCEPT !.st = "grant", !.bytes = f.data, !.len = f.len, !.seq = 1]

EcuGoesOn(f) ==
    /\ f.type = "CF" /\ ecu.st = "recv" /\ ~(Len(ecu.bytes \o f.data) >= ecu.len) /\ UNCHANGED heard
    /\ \E st \in {"grant", "recv"} :
            ecu' = [ecu EXCEPT !.bytes = ecu.bytes \o f.data, !.seq = NextSeq(@), !.block = @ + 1, !.st = st]

EcuCompletes(f) ==
    f.type = "CF" /\ ecu.st = "recv" /\ Len(ecu.bytes \o f.data) >= ecu.len /\ Takes(ecu.bytes \o f.data)

EcuIgnores(f) ==
    /\ UNCHANGED heard
    /\ \/ f.type = "CF" /\ ecu.st \in {"recv", "grant"} /\ ecu' = EcuIdle
       \/ f.type = "CF" /\ ecu.st \notin {"recv", "grant"} /\ ecu' = ecu
       \/ f.type = "FC" /\ ecu.st # "flow" /\ ecu' = ecu

EcuGoesAhead(f) ==
    /\ f.type = "FC" /\ ecu.st = "flow" /\ UNCHANGED heard
    /\ ecu' = [ecu EXCEPT !.st = "send", !.block = 0, !.bs = f.bs]

\* What the ECU makes of a frame, by its type and the state it is in.
LEMMA EcuCases ==
    ASSUME EcuReads, BusOK
    PROVE  /\ ecu.st \notin {"answer", "send"} /\ Head(toEcu) = toEcu[1]
           /\ UNCHANGED <<tester, toTester, given, clean, repeated, faults>>
           /\ LET f == toEcu[1] IN
              \/ f.type = "SF" /\ Takes(f.data)
              \/ EcuBegins(f) \/ EcuGoesOn(f) \/ EcuCompletes(f) \/ EcuIgnores(f) \/ EcuGoesAhead(f)
<1>1. ecu.st \notin {"answer", "send"} /\ UNCHANGED <<tester, toTester, given, clean, repeated, faults>>
  BY DEF EcuReads
<1>2. Head(toEcu) = toEcu[1]
  BY EcuReadsFrame
<1> DEFINE f == Head(toEcu)
           bytes == ecu.bytes \o f.data
           full == ecu.bs # 0 /\ ecu.block + 1 >= ecu.bs
           inOrder == f.type = "CF" /\ ecu.st = "recv" /\ f.seq = ecu.seq
<1>3. \/ f.type = "SF" /\ Takes(f.data)
      \/ /\ f.type = "FF"
         /\ ecu' = [EcuIdle EXCEPT !.st = "grant", !.bytes = f.data, !.len = f.len, !.seq = 1]
         /\ UNCHANGED heard
      \/ /\ inOrder
         /\ IF Len(bytes) >= ecu.len
            THEN Takes(bytes)
            ELSE /\ ecu' = [ecu EXCEPT !.bytes = bytes, !.seq = NextSeq(@), !.block = @ + 1,
                                       !.st = IF full THEN "grant" ELSE "recv"]
                 /\ UNCHANGED heard
      \/ /\ f.type = "CF" /\ ~inOrder
         /\ ecu' = IF ecu.st \in {"recv", "grant"} THEN EcuIdle ELSE ecu
         /\ UNCHANGED heard
      \/ /\ f.type = "FC"
         /\ ecu' = IF ecu.st = "flow" THEN [ecu EXCEPT !.st = "send", !.block = 0, !.bs = f.bs]
                   ELSE ecu
         /\ UNCHANGED heard
  BY Zenon DEF EcuReads
<1> HIDE DEF f
<1>4. \/ f.type = "SF" /\ Takes(f.data)
      \/ EcuBegins(f) \/ EcuGoesOn(f) \/ EcuCompletes(f) \/ EcuIgnores(f) \/ EcuGoesAhead(f)
  <2>1. ASSUME f.type = "FF", ecu' = [EcuIdle EXCEPT !.st = "grant", !.bytes = f.data, !.len = f.len, !.seq = 1],
               UNCHANGED heard
        PROVE  EcuBegins(f)
    BY <2>1, Zenon DEF EcuBegins
  <2>2. ASSUME inOrder, Len(bytes) >= ecu.len, Takes(bytes) PROVE EcuCompletes(f)
    BY <2>2, Zenon DEF EcuCompletes
  <2>3. ASSUME inOrder, ~(Len(bytes) >= ecu.len), UNCHANGED heard,
               ecu' = [ecu EXCEPT !.bytes = bytes, !.seq = NextSeq(@), !.block = @ + 1,
                                  !.st = IF full THEN "grant" ELSE "recv"]
        PROVE  EcuGoesOn(f)
    <3> DEFINE st == IF full THEN "grant" ELSE "recv"
    <3>1. st \in {"grant", "recv"}
      OBVIOUS
    <3>2. ecu' = [ecu EXCEPT !.bytes = bytes, !.seq = NextSeq(@), !.block = @ + 1, !.st = st]
      BY <2>3
    <3> HIDE DEF st
    <3> QED
      BY <2>3, <3>1, <3>2, Zenon DEF EcuGoesOn
  <2>4. ASSUME f.type = "CF", ecu' = IF ecu.st \in {"recv", "grant"} THEN EcuIdle ELSE ecu, UNCHANGED heard
        PROVE  EcuIgnores(f)
    BY <2>4, Zenon DEF EcuIgnores
  <2>5. ASSUME f.type = "FC", UNCHANGED heard,
               ecu' = IF ecu.st = "flow" THEN [ecu EXCEPT !.st = "send", !.block = 0, !.bs = f.bs] ELSE ecu
        PROVE  EcuIgnores(f) \/ EcuGoesAhead(f)
    BY <2>5, Zenon DEF EcuIgnores, EcuGoesAhead
  <2> QED
    BY <1>3, <2>1, <2>2, <2>3, <2>4, <2>5, Zenon
<1> QED
  BY <1>1, <1>2, <1>4 DEF f

\* A request that arrived: it was asked, or is garbled.
LEMMA TakesOne ==
    ASSUME CallOK, EcuOK, NEW bytes, Meaning(bytes) \in asked, Takes(bytes), UNCHANGED <<asked, given>>
    PROVE  /\ EcuOK' /\ ecu'.st = "answer" /\ ecu'.pdu = RequestOf(bytes)
           /\ RequestOf(bytes) \in asked \cup {GarbledRequest}
<1> DEFINE r == RequestOf(bytes)
<1>1. r \in asked \cup {GarbledRequest}
  BY DEF RequestOf
<1> HIDE DEF r
<1>2. heard' = heard \cup {r} /\ ecu' = [EcuIdle EXCEPT !.st = "answer", !.pdu = r]
  BY DEF Takes, r
<1>3. r \in Pdus \cup {GarbledRequest, NoRequest}
  BY <1>1 DEF CallOK, Pdus
<1>4. ecu' \in Ecus /\ ecu'.st = "answer" /\ ecu'.pdu = r
  BY <1>2, <1>3, Starts DEF Ecus
<1>5. EcuOK'
  BY <1>1, <1>2, <1>4 DEF EcuOK
<1> QED
  BY <1>1, <1>4, <1>5 DEF r

\* Always is kept by the ECU reading a frame.
LEMMA EcuReadsAlways == Always /\ EcuReads => Always'
<1> SUFFICES ASSUME Always, EcuReads PROVE Always'
  OBVIOUS
<1> DEFINE f == toEcu[1]
<1>1. /\ QueueOK(toEcu', {BlockSize}, asked) /\ FrameFacts(f, {BlockSize})
      /\ f.type \in {"SF", "FF"} => Meaning(f.data) \in asked
  BY EcuReadsFrame DEF Always
<1>2. /\ UNCHANGED tester /\ UNCHANGED <<toTester, given, clean, repeated, faults>>
      /\ ecu.st \notin {"answer", "send"}
      /\ \/ f.type = "SF" /\ Takes(f.data)
         \/ EcuBegins(f) \/ EcuGoesOn(f) \/ EcuCompletes(f) \/ EcuIgnores(f) \/ EcuGoesAhead(f)
  BY EcuCases DEF Always
<1>3. UNCHANGED <<asked, given>>
  BY <1>2 DEF tester
<1>4. CallOK' /\ LocalsOK' /\ ExchangeOK'
  BY <1>2, TesterSame DEF Always, CallOK
<1>5. BusOK'
  BY <1>1, <1>2, <1>3 DEF Always, BusOK
<1> HIDE DEF f
<1>6. /\ ecu \in Ecus /\ heard \subseteq asked \cup {GarbledRequest}
      /\ ecu.st \in {"grant", "recv"} => ecu.bytes # <<>> /\ Meaning(ecu.bytes) \in asked
      /\ ecu.st \in {"flow", "send"} => ecu.pdu \in given /\ ecu.off < ecu.pdu.len
  BY DEF Always, EcuOK
<1>7. ASSUME f.type = "CF", ecu.st = "recv"
      PROVE  /\ ecu.bytes \o f.data \in PduBytes /\ ecu.bytes \o f.data # <<>>
             /\ Meaning(ecu.bytes \o f.data) \in asked
  <2>1. ecu.bytes \in PduBytes /\ ecu.bytes # <<>> /\ f.data \in PduBytes /\ Meaning(ecu.bytes) \in asked
    BY <1>1, <1>6, <1>7 DEF Ecus, FrameFacts
  <2> QED
    BY <2>1, BytesJoined
<1>8. EcuOK'
  <2>1. CASE f.type = "SF" /\ Takes(f.data)
    BY <1>1, <1>3, <2>1, TakesOne DEF Always
  <2>2. CASE EcuBegins(f)
    <3>1. f.data \in PduBytes /\ f.data # <<>> /\ f.len \in Nat /\ Meaning(f.data) \in asked
      BY <1>1, <2>2 DEF EcuBegins, FrameFacts
    <3>2. ecu' \in Ecus /\ ecu'.st = "grant" /\ ecu'.bytes = f.data /\ heard' = heard
      BY <2>2, <3>1, Starts DEF EcuBegins, Ecus
    <3> QED
      BY <1>3, <1>6, <3>1, <3>2 DEF EcuOK
  <2>3. CASE EcuGoesOn(f)
    <3>1. f.type = "CF" /\ ecu.st = "recv" /\ heard' = heard
      BY <2>3 DEF EcuGoesOn
    <3> DEFINE b == ecu.bytes \o f.data
    <3>2. b \in PduBytes /\ b # <<>> /\ Meaning(b) \in asked
      BY <1>7, <3>1
    <3>3. PICK st \in {"grant", "recv"} :
              ecu' = [ecu EXCEPT !.bytes = b, !.seq = NextSeq(@), !.block = @ + 1, !.st = st]
      BY <2>3 DEF EcuGoesOn
    <3> HIDE DEF b
    <3>4. NextSeq(ecu.seq) \in Nat
      BY <1>6, NextSeqTyped DEF Ecus
    <3>5. ecu' \in Ecus /\ ecu'.bytes = b /\ ecu'.st = st
      <4> DEFINE n == ecu.block + 1
                 k == NextSeq(ecu.seq)
      <4>1. n \in Nat /\ k \in Nat /\ ecu \in Ecus
        BY <1>6, <3>4 DEF Ecus
      <4>2. ecu' = [ecu EXCEPT !.bytes = b, !.seq = k, !.block = n, !.st = st]
        BY <3>3, Zenon
      <4> HIDE DEF n, k
      <4> QED
        BY <3>2, <4>1, <4>2 DEF Ecus
    <3> QED
      BY <1>3, <1>6, <3>1, <3>2, <3>5 DEF EcuOK
  <2>4. CASE EcuCompletes(f)
    BY <1>3, <1>7, <2>4, TakesOne DEF Always, EcuCompletes
  <2>5. CASE EcuIgnores(f)
    <3>1. heard' = heard /\ (ecu' = ecu \/ ecu' = EcuIdle)
      BY <2>5 DEF EcuIgnores
    <3>2. CASE ecu' = ecu
      BY <1>3, <3>1, <3>2, EcuSame DEF Always
    <3>3. CASE ecu' = EcuIdle
      BY <1>3, <1>6, <3>1, <3>3, Starts DEF EcuOK
    <3> QED
      BY <3>1, <3>2, <3>3
  <2>6. CASE EcuGoesAhead(f)
    <3>1. f.type = "FC" /\ ecu.st = "flow" /\ heard' = heard
          /\ ecu' = [ecu EXCEPT !.st = "send", !.block = 0, !.bs = f.bs]
      BY <2>6 DEF EcuGoesAhead
    <3>2. f.bs \in Nat
      BY <1>1, <3>1, IsoTpAssumption DEF FrameFacts
    <3>3. ecu' \in Ecus /\ ecu'.st = "send" /\ ecu'.pdu = ecu.pdu /\ ecu'.off = ecu.off
      BY <1>6, <3>1, <3>2 DEF Ecus
    <3> QED
      BY <1>3, <1>6, <3>1, <3>3 DEF EcuOK
  <2> QED
    BY <1>2, <2>1, <2>2, <2>3, <2>4, <2>5, <2>6
<1> QED
  BY <1>4, <1>5, <1>8 DEF Always

\* The ways EcuGrants goes.
GoAhead == \E bs \in EcuBlocks : /\ toTester' = Append(toTester, FlowControl("cts", bs))
                                 /\ ecu' = [ecu EXCEPT !.st = "recv", !.bs = bs, !.block = 0]

\* Always is kept by a flow control of the ECU, which changes nothing else.
LEMMA GrantsAlways ==
    ASSUME Always, EcuGrants
    PROVE  /\ Always' /\ ecu.st = "grant" /\ UNCHANGED <<tester, toEcu, heard, given, clean, repeated>>
           /\ \E g : g.type = "FC" /\ Longer(toTester', toTester, g)
           /\ \/ ecu'.st = "recv" /\ ecu'.bytes = ecu.bytes /\ ecu'.len = ecu.len
              \/ ecu' = ecu
              \/ ecu' = EcuIdle
<1>1. ecu.st = "grant" /\ UNCHANGED tester /\ UNCHANGED <<toEcu, heard, given, clean, repeated>>
  BY DEF EcuGrants
<1>2. /\ \/ GoAhead
         \/ toTester' = Append(toTester, FlowControl("wait", 0)) /\ ecu' = ecu
         \/ toTester' = Append(toTester, FlowControl("overflow", 0)) /\ ecu' = EcuIdle
      /\ faults' = faults \/ (faults < MaxFaults /\ faults' = faults + 1)
  BY DEF EcuGrants, GoAhead
<1>3. UNCHANGED <<asked, given>>
  BY <1>1 DEF tester
<1>4. faults' \in 0..MaxFaults
  BY <1>2, IsoTpAssumption DEF Always, CallOK
<1>5. CallOK' /\ LocalsOK' /\ ExchangeOK'
  BY <1>1, <1>4, TesterSame DEF Always, CallOK
<1>6. \E g \in Frames(EcuBlocks \cup {0}) : g.type = "FC" /\ toTester' = Append(toTester, g)
  <2>1. \A st \in {"cts", "wait", "overflow"}, n \in EcuBlocks \cup {0} :
            FlowControl(st, n) \in Frames(EcuBlocks \cup {0}) /\ FlowControl(st, n).type = "FC"
    BY FrameMade DEF FlowControl
  <2>2. \E st \in {"cts", "wait", "overflow"}, n \in EcuBlocks \cup {0} :
            toTester' = Append(toTester, FlowControl(st, n))
    BY <1>2, Zenon DEF GoAhead
  <2> QED
    BY <2>1, <2>2, Zenon
<1>7. PICK g \in Frames(EcuBlocks \cup {0}) : g.type = "FC" /\ toTester' = Append(toTester, g)
  BY <1>6
<1>8. QueueOK(toTester', EcuBlocks \cup {0}, given) /\ Longer(toTester', toTester, g)
  <2>1. QueueOK(toTester, EcuBlocks \cup {0}, given) /\ given \subseteq given
    BY DEF Always, BusOK
  <2>2. g.type \in {"SF", "FF"} => Meaning(g.data) \in given
    BY <1>7
  <2> QED
    BY <1>7, <2>1, <2>2, QueueSent
<1>9. BusOK'
  BY <1>1, <1>3, <1>8 DEF Always, BusOK
<1>10. /\ EcuOK'
       /\ \/ ecu'.st = "recv" /\ ecu'.bytes = ecu.bytes /\ ecu'.len = ecu.len
          \/ ecu' = ecu
          \/ ecu' = EcuIdle
  <2>1. ecu \in Ecus /\ heard \subseteq asked \cup {GarbledRequest}
        /\ ecu.bytes # <<>> /\ Meaning(ecu.bytes) \in asked
    BY <1>1 DEF Always, EcuOK
  <2>2. CASE GoAhead
    <3>1. PICK bs \in EcuBlocks : ecu' = [ecu EXCEPT !.st = "recv", !.bs = bs, !.block = 0]
      BY <2>2 DEF GoAhead
    <3>2. bs \in Nat
      BY IsoTpAssumption
    <3>3. ecu' \in Ecus /\ ecu'.st = "recv" /\ ecu'.bytes = ecu.bytes /\ ecu'.len = ecu.len
      BY <2>1, <3>1, <3>2 DEF Ecus
    <3> QED
      BY <1>1, <1>3, <2>1, <3>3 DEF EcuOK
  <2>3. CASE ecu' = ecu
    BY <1>1, <1>3, <2>3, EcuSame DEF Always
  <2>4. CASE ecu' = EcuIdle
    BY <1>1, <1>3, <2>1, <2>4, Starts DEF EcuOK
  <2> QED
    BY <1>2, <2>2, <2>3, <2>4
<1> QED
  BY <1>1, <1>5, <1>7, <1>8, <1>9, <1>10 DEF Always

\* The frames a PDU is sent in, but for the consecutive ones.
LEMMA PduFrames ==
    ASSUME NEW p \in Pdus, p.len > 0, NEW S
    PROVE  /\ Single(Bytes(p)) \in Frames(S) /\ Single(Bytes(p)).type = "SF"
           /\ Meaning(Single(Bytes(p)).data) = p
           /\ p.len > SfCap =>
                /\ FfCap < p.len
                /\ First(p.len, SubSeq(Bytes(p), 1, FfCap)) \in Frames(S)
                /\ First(p.len, SubSeq(Bytes(p), 1, FfCap)).type = "FF"
                /\ Meaning(First(p.len, SubSeq(Bytes(p), 1, FfCap)).data) = p
<1>1. Bytes(p) \in PduBytes \ {<<>>} /\ Meaning(Bytes(p)) = p /\ p.len \in Nat
  BY WholeBytes, BytesOf
<1>2. Single(Bytes(p)) \in Frames(S)
  BY <1>1, FrameMade
<1>3. Single(Bytes(p)).type = "SF" /\ Single(Bytes(p)).data = Bytes(p)
  BY DEF Single
<1>4. ASSUME p.len > SfCap
      PROVE  /\ FfCap < p.len
             /\ First(p.len, SubSeq(Bytes(p), 1, FfCap)) \in Frames(S)
             /\ First(p.len, SubSeq(Bytes(p), 1, FfCap)).type = "FF"
             /\ Meaning(First(p.len, SubSeq(Bytes(p), 1, FfCap)).data) = p
  <2> DEFINE c == SubSeq(Bytes(p), 1, FfCap)
  <2>1. FfCap < p.len /\ FfCap <= p.len
    BY <1>1, <1>4, IsoTpAssumption
  <2>2. FirstPart(c, p)
    BY <2>1, FirstBytes
  <2> HIDE DEF c
  <2>3. c \in PduBytes \ {<<>>} /\ Len(c) <= p.len /\ Meaning(c) = p
    BY <2>1, <2>2 DEF FirstPart
  <2>4. First(p.len, c) \in Frames(S)
    BY <1>1, <2>3, FrameMade
  <2>5. First(p.len, c).type = "FF" /\ First(p.len, c).data = c
    BY DEF First
  <2>6. Meaning(First(p.len, c).data) = p
    BY <2>3, <2>5
  <2> QED
    BY <2>1, <2>4, <2>5, <2>6 DEF c
<1> QED
  BY <1>1, <1>2, <1>3, <1>4

\* The ways EcuAnswers goes.
Answering(p) ==
    /\ p \in Responses /\ p.to = ecu.pdu /\ p.len > 0 /\ given' = given \cup {p}
    /\ \/ /\ p.len <= SfCap /\ Longer(toTester', toTester, Single(Bytes(p)))
          /\ ecu' = IF p.kind = "pending" THEN ecu ELSE EcuIdle
       \/ /\ p.len > SfCap /\ Longer(toTester', toTester, First(p.len, SubSeq(Bytes(p), 1, FfCap)))
          /\ ecu'.st = "flow" /\ ecu'.pdu = p /\ ecu'.off = FfCap

\* Always is kept by the ECU answering the request it heard.
LEMMA AnswersAlways ==
    ASSUME Always, EcuAnswers
    PROVE  /\ Always' /\ ecu.st = "answer" /\ UNCHANGED <<tester, toEcu, heard, clean, repeated, faults>>
           /\ \E p : Answering(p)
<1>1. ecu.st = "answer" /\ UNCHANGED tester /\ UNCHANGED <<toEcu, heard, clean, repeated, faults>>
  BY DEF EcuAnswers
<1>2. PICK p \in Responses :
        /\ p.to = ecu.pdu
        /\ given' = given \cup {p}
        /\ IF p.len <= SfCap
           THEN /\ toTester' = Append(toTester, Single(Bytes(p)))
                /\ ecu' = IF p.kind = "pending" THEN ecu ELSE EcuIdle
           ELSE /\ toTester' = Append(toTester, First(p.len, SubSeq(Bytes(p), 1, FfCap)))
                /\ ecu' = [EcuIdle EXCEPT !.st = "flow", !.pdu = p, !.off = FfCap, !.seq = 1]
  BY DEF EcuAnswers
<1>3. UNCHANGED asked
  BY <1>1 DEF tester
<1>4. p \in Pdus /\ p.len \in Nat /\ p.len > 0 /\ SfCap \in Nat /\ FfCap \in Nat
  BY IsoTpAssumption DEF Pdus, Responses
<1>5. given \subseteq given' /\ given' \subseteq Responses /\ p \in given'
  BY <1>2 DEF Always, CallOK
<1>6. CallOK' /\ LocalsOK' /\ ExchangeOK'
  BY <1>1, <1>5, TesterSame DEF Always, CallOK
<1>7. QueueOK(toTester, EcuBlocks \cup {0}, given)
  BY DEF Always, BusOK
<1>8. /\ ecu \in Ecus /\ heard \subseteq asked \cup {GarbledRequest} /\ ecu.pdu \in heard
  BY <1>1 DEF Always, EcuOK
<1>9. /\ QueueOK(toTester', EcuBlocks \cup {0}, given') /\ EcuOK' /\ Answering(p)
  <2>1. CASE p.len <= SfCap
    <3> DEFINE f == Single(Bytes(p))
    <3>1. f \in Frames(EcuBlocks \cup {0}) /\ Meaning(f.data) = p
      BY <1>4, PduFrames
    <3>2. toTester' = Append(toTester, f) /\ ecu' = IF p.kind = "pending" THEN ecu ELSE EcuIdle
      BY <1>2, <2>1, Zenon
    <3>3. Answering(p) <=> Longer(toTester', toTester, f)
      BY <1>2, <1>4, <2>1, <3>2 DEF Answering
    <3> HIDE DEF f
    <3>4. QueueOK(toTester', EcuBlocks \cup {0}, given') /\ Longer(toTester', toTester, f)
      BY <1>5, <1>7, <3>1, <3>2, QueueSent
    <3>5. EcuOK'
      <4>1. ecu' = ecu \/ ecu' = EcuIdle
        BY <3>2, Zenon
      <4>2. CASE ecu' = ecu
        BY <1>1, <1>3, <1>8, <4>2 DEF EcuOK
      <4>3. CASE ecu' = EcuIdle
        BY <1>1, <1>3, <1>8, <4>3, Starts DEF EcuOK
      <4> QED
        BY <4>1, <4>2, <4>3
    <3> QED
      BY <3>3, <3>4, <3>5
  <2>2. CASE p.len > SfCap
    <3> DEFINE f == First(p.len, SubSeq(Bytes(p), 1, FfCap))
    <3>1. f \in Frames(EcuBlocks \cup {0}) /\ Meaning(f.data) = p /\ FfCap < p.len
      BY <1>4, <2>2, PduFrames
    <3>2. ~(p.len <= SfCap)
      BY <1>4, <2>2
    <3>3. toTester' = Append(toTester, f)
          /\ ecu' = [EcuIdle EXCEPT !.st = "flow", !.pdu = p, !.off = FfCap, !.seq = 1]
      BY <1>2, <3>2, Zenon
    <3>4. ecu' \in Ecus /\ ecu'.st = "flow" /\ ecu'.pdu = p /\ ecu'.off = FfCap
      BY <1>4, <3>3, Starts DEF Ecus
    <3>5. Answering(p) <=> Longer(toTester', toTester, f)
      BY <1>2, <1>4, <2>2, <3>2, <3>4 DEF Answering
    <3> HIDE DEF f
    <3>6. QueueOK(toTester', EcuBlocks \cup {0}, given') /\ Longer(toTester', toTester, f)
      BY <1>5, <1>7, <3>1, <3>3, QueueSent
    <3>7. EcuOK'
      BY <1>1, <1>3, <1>5, <1>8, <3>1, <3>4 DEF EcuOK
    <3> QED
      BY <3>5, <3>6, <3>7
  <2> QED
    BY <1>4, <2>1, <2>2
<1>10. BusOK'
  BY <1>1, <1>3, <1>9 DEF Always, BusOK
<1> QED
  BY <1>1, <1>6, <1>9, <1>10 DEF Always

\* The ways EcuSends goes.
SendsOn ==
    /\ \E s \in Nat : Longer(toTester', toTester, Consecutive(s, Chunk(ecu.pdu, ecu.off)))
    /\ \/ NextOff(ecu.pdu, ecu.off) = ecu.pdu.len /\ ecu' = EcuIdle
       \/ /\ NextOff(ecu.pdu, ecu.off) < ecu.pdu.len /\ ecu'.st \in {"flow", "send"}
          /\ ecu'.pdu = ecu.pdu /\ ecu'.off = NextOff(ecu.pdu, ecu.off)

\* Always is kept by a consecutive frame of the ECU.
LEMMA SendsAlways ==
    ASSUME Always, EcuSends
    PROVE  /\ Always' /\ ecu.st = "send" /\ UNCHANGED <<tester, toEcu, heard, given, clean, repeated, faults>>
           /\ ecu.pdu \in Pdus /\ ecu.off \in Nat /\ ecu.off < ecu.pdu.len
           /\ SendsOn
<1> DEFINE p == ecu.pdu
           o == NextOff(p, ecu.off)
           f == Consecutive(ecu.seq, Chunk(p, ecu.off))
           full == ecu.bs # 0 /\ ecu.block + 1 >= ecu.bs
           st == IF full THEN "flow" ELSE "send"
<1>1. ecu.st = "send" /\ UNCHANGED tester /\ UNCHANGED <<toEcu, heard, given, clean, repeated, faults>>
  BY DEF EcuSends
<1>2. /\ toTester' = Append(toTester, f)
      /\ ecu' = IF o >= p.len THEN EcuIdle
                ELSE [ecu EXCEPT !.off = o, !.seq = NextSeq(@), !.block = @ + 1, !.st = st]
  BY Zenon DEF EcuSends, NextOff
<1>3. ecu \in Ecus /\ heard \subseteq asked \cup {GarbledRequest} /\ p \in given /\ ecu.off < p.len
  BY <1>1 DEF Always, EcuOK
<1>4. p \in Pdus /\ ecu.off \in Nat /\ ecu.seq \in Nat /\ ecu.block \in Nat
  BY <1>3 DEF Always, CallOK, Ecus, Pdus
<1>5. Piece(Chunk(p, ecu.off), p, ecu.off) /\ o \in Nat /\ o <= p.len /\ p.len \in Nat
  BY <1>3, <1>4, ChunkOf, BytesOf
<1>6. f \in Frames(EcuBlocks \cup {0}) /\ f.type = "CF"
  <2>1. Chunk(p, ecu.off) \in PduBytes
    BY <1>5 DEF Piece
  <2>2. f \in Frames(EcuBlocks \cup {0})
    BY <1>4, <2>1, FrameMade
  <2> QED
    BY <2>2 DEF Consecutive
<1>7. st \in {"flow", "send"}
  OBVIOUS
<1>8. \E s \in Nat : f = Consecutive(s, Chunk(p, ecu.off))
  BY <1>4
<1> HIDE DEF o, f, st
<1>9. UNCHANGED <<asked, given>> /\ given \subseteq given
  BY <1>1 DEF tester
<1>10. QueueOK(toTester', EcuBlocks \cup {0}, given) /\ Longer(toTester', toTester, f)
  <2>1. QueueOK(toTester, EcuBlocks \cup {0}, given)
    BY DEF Always, BusOK
  <2>2. f.type \in {"SF", "FF"} => Meaning(f.data) \in given
    BY <1>6
  <2> QED
    BY <1>2, <1>6, <1>9, <2>1, <2>2, QueueSent
<1>11. CallOK' /\ LocalsOK' /\ ExchangeOK'
  BY <1>1, <1>9, TesterSame DEF Always, CallOK
<1>12. BusOK'
  BY <1>1, <1>9, <1>10 DEF Always, BusOK
<1>13. /\ EcuOK'
       /\ \/ o = p.len /\ ecu' = EcuIdle
          \/ o < p.len /\ ecu'.st \in {"flow", "send"} /\ ecu'.pdu = p /\ ecu'.off = o
  <2>1. CASE o >= p.len
    <3>1. o = p.len /\ ecu' = EcuIdle
      BY <1>2, <1>5, <2>1
    <3> QED
      BY <1>1, <1>3, <1>9, <3>1, Starts DEF EcuOK
  <2>2. CASE ~(o >= p.len)
    <3> DEFINE n == ecu.block + 1
               k == NextSeq(ecu.seq)
    <3>1. n \in Nat /\ k \in Nat
      BY <1>4, NextSeqTyped
    <3>2. ecu' = [ecu EXCEPT !.off = o, !.seq = k, !.block = n, !.st = st]
      BY <1>2, <2>2, Zenon
    <3> HIDE DEF n, k
    <3>3. ecu' \in Ecus /\ ecu'.st = st /\ ecu'.pdu = p /\ ecu'.off = o
      BY <1>3, <1>5, <1>7, <3>1, <3>2 DEF Ecus
    <3>4. o < p.len
      BY <1>5, <2>2
    <3>5. EcuOK'
      BY <1>1, <1>3, <1>7, <1>9, <3>3, <3>4 DEF EcuOK
    <3> QED
      BY <1>7, <3>3, <3>4, <3>5
  <2> QED
    BY <2>1, <2>2
<1>14. SendsOn
  <2>1. \E s \in Nat : Longer(toTester', toTester, Consecutive(s, Chunk(p, ecu.off)))
    BY <1>8, <1>10
  <2> QED
    BY <1>13, <2>1 DEF SendsOn, o
<1> QED
  BY <1>1, <1>3, <1>4, <1>11, <1>12, <1>13, <1>14 DEF Always

\* Always is kept by an ECU that gives up.
LEMMA GivesUpAlways == Always /\ EcuGivesUp => Always'
<1> SUFFICES ASSUME Always, EcuGivesUp PROVE Always'
  OBVIOUS
<1>1. ecu' = EcuIdle /\ UNCHANGED tester /\ UNCHANGED <<toEcu, toTester, heard, given, clean, repeated, faults>>
  BY DEF EcuGivesUp, bus
<1>2. UNCHANGED asked
  BY <1>1 DEF tester
<1>3. CallOK' /\ LocalsOK' /\ ExchangeOK'
  BY <1>1, TesterSame DEF Always, CallOK
<1>4. BusOK'
  BY <1>1, <1>2 DEF Always, BusOK
<1>5. EcuOK'
  BY <1>1, <1>2, Starts DEF Always, EcuOK
<1> QED
  BY <1>3, <1>4, <1>5 DEF Always

\* The bus loses frames at the front of a queue, or repeats one and is no longer in step.
LEMMA FaultAlways ==
    ASSUME Always, BusFault
    PROVE  /\ Always' /\ UNCHANGED <<tester, ecu, heard, given, clean>>
           /\ repeated' \/ (repeated' = repeated /\ Rear(toEcu', toEcu) /\ Rear(toTester', toTester))
<1>1. UNCHANGED tester /\ UNCHANGED <<ecu, heard, given, clean>>
  BY DEF BusFault
<1>2. UNCHANGED asked /\ asked \subseteq asked /\ given \subseteq given
  BY <1>1 DEF tester
<1>3. QueueOK(toEcu, {BlockSize}, asked) /\ QueueOK(toTester, EcuBlocks \cup {0}, given)
  BY DEF Always, BusOK
<1>4. Rear(toEcu, toEcu) /\ Rear(toTester, toTester)
  BY <1>3, QueueRead, Shorter
<1>5. repeated \in BOOLEAN /\ repeated' \in BOOLEAN
  <2>1. repeated \in BOOLEAN
    BY Zenon DEF Always, CallOK
  <2>2. repeated' = repeated \/ repeated' = TRUE
    BY Zenon DEF BusFault
  <2> QED
    BY <2>1, <2>2, Zenon
<1>6. faults' \in 0..MaxFaults
  <2>1. faults < MaxFaults /\ faults' = faults + 1 /\ faults \in 0..MaxFaults /\ MaxFaults \in Nat
    BY IsoTpAssumption DEF BusFault, Always, CallOK
  <2> QED
    BY <2>1
<1>7. CallOK' /\ LocalsOK' /\ ExchangeOK'
  <2>1. UNCHANGED <<call, req, asked, pc, tx, rx, count, result>>
    BY <1>1 DEF tester
  <2>2. CallOK'
    BY <1>1, <1>5, <1>6, <2>1, Zenon DEF Always, CallOK
  <2>3. LocalsOK'
    BY <1>1, <2>1, Zenon DEF Always, LocalsOK
  <2>4. ExchangeOK'
    BY <1>1, <2>1, Zenon DEF Always, ExchangeOK
  <2> QED
    BY <2>2, <2>3, <2>4
<1>8. EcuOK'
  BY <1>1, <1>2, EcuSame DEF Always
<1>9. /\ QueueOK(toEcu', {BlockSize}, asked) /\ QueueOK(toTester', EcuBlocks \cup {0}, given)
      /\ repeated' \/ (repeated' = repeated /\ Rear(toEcu', toEcu) /\ Rear(toTester', toTester))
  <2>1. CASE (\E n \in 1..Len(toEcu) : toEcu' = SubSeq(toEcu, n + 1, Len(toEcu)) /\ UNCHANGED toTester)
             /\ UNCHANGED repeated
    <3>1. PICK n \in 1..Len(toEcu) : toEcu' = SubSeq(toEcu, n + 1, Len(toEcu)) /\ toTester' = toTester
      BY <2>1
    <3>2. QueueOK(SubSeq(toEcu, n + 1, Len(toEcu)), {BlockSize}, asked)
          /\ Rear(SubSeq(toEcu, n + 1, Len(toEcu)), toEcu)
      BY <1>3, QueueRead
    <3> QED
      BY <1>3, <1>4, <2>1, <3>1, <3>2, Zenon
  <2>2. CASE (\E n \in 1..Len(toTester) : toTester' = SubSeq(toTester, n + 1, Len(toTester)) /\ UNCHANGED toEcu)
             /\ UNCHANGED repeated
    <3>1. PICK n \in 1..Len(toTester) :
                  toTester' = SubSeq(toTester, n + 1, Len(toTester)) /\ toEcu' = toEcu
      BY <2>2
    <3>2. QueueOK(SubSeq(toTester, n + 1, Len(toTester)), EcuBlocks \cup {0}, given)
          /\ Rear(SubSeq(toTester, n + 1, Len(toTester)), toTester)
      BY <1>3, QueueRead
    <3> QED
      BY <1>3, <1>4, <2>2, <3>1, <3>2, Zenon
  <2>3. CASE toEcu # <<>> /\ toEcu' = <<Head(toEcu)>> \o toEcu /\ UNCHANGED toTester /\ repeated' = TRUE
    BY <1>2, <1>3, <2>3, QueueSame
  <2>4. CASE toTester # <<>> /\ toTester' = <<Head(toTester)>> \o toTester /\ UNCHANGED toEcu /\ repeated' = TRUE
    BY <1>2, <1>3, <2>4, QueueSame
  <2> QED
    BY <2>1, <2>2, <2>3, <2>4, Zenon DEF BusFault
<1>10. BusOK'
  BY <1>1, <1>2, <1>9 DEF BusOK
<1> QED
  BY <1>1, <1>7, <1>8, <1>9, <1>10 DEF Always

\* The ways exchange goes.
Refuses == result'.status = "refused" /\ UNCHANGED <<asked, pc, toEcu>>

Asking(r) ==
    /\ asked' = asked \cup {r} /\ r.len > 0
    /\ \/ r.len <= SfCap /\ Longer(toEcu', toEcu, Single(Bytes(r))) /\ pc' = "pdu"
       \/ /\ r.len > SfCap /\ Longer(toEcu', toEcu, First(r.len, SubSeq(Bytes(r), 1, FfCap)))
          /\ pc' = "flow" /\ tx'.off = FfCap

\* Always is kept by a new exchange, which is refused or asks.
LEMMA ExchangeAlways ==
    ASSUME Always, NEW r \in Requests, exchange(r)
    PROVE  /\ Always' /\ pc = "idle" /\ req' = r /\ call' = call + 1
           /\ UNCHANGED <<toTester, ecu, heard, given, clean, repeated, faults>>
           /\ (Refuses /\ result'.status = "refused") \/ (Asking(r) /\ result'.status = "pending")
<1>1. /\ pc = "idle" /\ call < MaxCalls /\ r.call = call + 1 /\ call' = call + 1 /\ req' = r
      /\ rx' = NoRx /\ count' = NoCount
      /\ UNCHANGED <<toTester, ecu, heard, given, clean, repeated, faults>>
  BY DEF exchange
<1>2. \/ /\ result' = Result("refused", <<>>) /\ UNCHANGED <<asked, pc, tx, toEcu>>
      \/ /\ r.len # 0 /\ asked' = asked \cup {r} /\ result' = Result("pending", <<>>)
         /\ IF r.len <= SfCap
            THEN toEcu' = Append(toEcu, Single(Bytes(r))) /\ pc' = "pdu" /\ tx' = NoTx
            ELSE /\ toEcu' = Append(toEcu, First(r.len, SubSeq(Bytes(r), 1, FfCap)))
                 /\ pc' = "flow" /\ tx' = StartTx
  BY Zenon DEF exchange
<1>3. r \in Pdus /\ r.len \in Nat /\ SfCap \in Nat /\ FfCap \in Nat
  BY IsoTpAssumption DEF Pdus, Requests
<1>4. CallOK'
  <2>1. call \in Nat /\ MaxCalls \in Nat
    BY IsoTpAssumption DEF Always, CallOK
  <2>2. call' \in 0..MaxCalls /\ call' # 0
    BY <1>1, <2>1
  <2>3. req' # NoRequest /\ req' \in Requests
    BY <1>1, <2>1 DEF NoRequest
  <2>4. asked' \subseteq Requests
    BY <1>2 DEF Always, CallOK
  <2> QED
    BY <1>1, <2>2, <2>3, <2>4, Zenon DEF Always, CallOK
<1>5. /\ rx' \in Rxs /\ count' \in Counts /\ Len(rx'.bytes) <= rx'.len
      /\ result' \in Results /\ result'.bytes = <<>>
  <2>1. rx'.bytes = <<>> /\ rx'.len = 0 /\ Len(<<>>) = 0 /\ rx' \in Rxs /\ count' \in Counts
    BY <1>1, Starts
  <2>2. result' \in Results /\ result'.bytes = <<>>
    BY <1>2, Starts
  <2> QED
    BY <2>1, <2>2
<1>6. asked \subseteq asked'
  BY <1>2
<1>7. EcuOK'
  BY <1>1, <1>6 DEF Always, EcuOK
<1>8. clean' \in BOOLEAN
  BY <1>1, Zenon DEF Always, LocalsOK
<1>9. QueueOK(toEcu, {BlockSize}, asked)
  BY DEF Always, BusOK
<1>10. /\ LocalsOK' /\ ExchangeOK' /\ QueueOK(toEcu', {BlockSize}, asked')
       /\ (Refuses /\ result'.status = "refused") \/ (Asking(r) /\ result'.status = "pending")
  <2>1. CASE result' = Result("refused", <<>>) /\ UNCHANGED <<asked, pc, tx, toEcu>>
    <3>1. result'.status = "refused"
      BY <2>1, Starts
    <3>2. tx' \in Txs /\ pc' = "idle"
      BY <1>1, <2>1 DEF Always, LocalsOK
    <3>3. /\ pc' \in {"idle", "flow", "send", "pdu", "cont"} /\ (pc' = "idle" <=> result'.status # "pending")
          /\ result'.status # "ok" => result'.bytes = <<>>
      BY <1>5, <3>1, <3>2
    <3>4. LocalsOK'
      BY <1>5, <1>8, <3>2, <3>3, Zenon DEF LocalsOK
    <3>5. ExchangeOK'
      BY <3>2 DEF ExchangeOK
    <3> QED
      BY <1>9, <2>1, <3>1, <3>4, <3>5 DEF Refuses
  <2>2. CASE /\ r.len # 0 /\ asked' = asked \cup {r} /\ result' = Result("pending", <<>>)
             /\ IF r.len <= SfCap
                THEN toEcu' = Append(toEcu, Single(Bytes(r))) /\ pc' = "pdu" /\ tx' = NoTx
                ELSE /\ toEcu' = Append(toEcu, First(r.len, SubSeq(Bytes(r), 1, FfCap)))
                     /\ pc' = "flow" /\ tx' = StartTx
    <3>1. result'.status = "pending" /\ r.len > 0 /\ r \in asked'
      BY <1>3, <2>2, Starts
    <3>2. call' # 0
      BY <1>1 DEF Always, CallOK
    <3>3. /\ tx' \in Txs /\ pc' \in {"pdu", "flow"} /\ (pc' = "flow" => tx'.off < r.len)
          /\ QueueOK(toEcu', {BlockSize}, asked') /\ Asking(r)
      <4>1. CASE r.len <= SfCap
        <5> DEFINE f == Single(Bytes(r))
        <5>1. f \in Frames({BlockSize}) /\ Meaning(f.data) = r
          BY <1>3, <3>1, PduFrames
        <5>2. toEcu' = Append(toEcu, f) /\ pc' = "pdu" /\ tx' = NoTx
          BY <2>2, <4>1, Zenon
        <5>3. Longer(toEcu', toEcu, f) => Asking(r)
          BY <2>2, <3>1, <4>1, <5>2 DEF Asking
        <5> HIDE DEF f
        <5>4. QueueOK(toEcu', {BlockSize}, asked') /\ Longer(toEcu', toEcu, f)
          BY <1>6, <1>9, <3>1, <5>1, <5>2, QueueSent
        <5> QED
          BY <5>2, <5>3, <5>4, Starts
      <4>2. CASE r.len > SfCap
        <5> DEFINE f == First(r.len, SubSeq(Bytes(r), 1, FfCap))
        <5>1. f \in Frames({BlockSize}) /\ Meaning(f.data) = r /\ FfCap < r.len
          BY <1>3, <3>1, <4>2, PduFrames
        <5>2. ~(r.len <= SfCap)
          BY <1>3, <4>2
        <5>3. toEcu' = Append(toEcu, f) /\ pc' = "flow" /\ tx' = StartTx
          BY <2>2, <5>2, Zenon
        <5>4. tx' \in Txs /\ tx'.off = FfCap
          BY <5>3, Starts
        <5>5. Longer(toEcu', toEcu, f) => Asking(r)
          BY <2>2, <3>1, <4>2, <5>3, <5>4 DEF Asking
        <5> HIDE DEF f
        <5>6. QueueOK(toEcu', {BlockSize}, asked') /\ Longer(toEcu', toEcu, f)
          BY <1>6, <1>9, <3>1, <5>1, <5>3, QueueSent
        <5> QED
          BY <5>1, <5>3, <5>4, <5>5, <5>6
      <4> QED
        BY <1>3, <4>1, <4>2
    <3>4. /\ pc' \in {"idle", "flow", "send", "pdu", "cont"} /\ (pc' = "idle" <=> result'.status # "pending")
          /\ result'.status # "ok" => result'.bytes = <<>>
      BY <1>5, <3>1, <3>3
    <3>5. LocalsOK'
      BY <1>5, <1>8, <3>3, <3>4, Zenon DEF LocalsOK
    <3>6. ExchangeOK'
      BY <1>1, <3>1, <3>2, <3>3 DEF ExchangeOK
    <3> QED
      BY <3>1, <3>3, <3>5, <3>6
  <2> QED
    BY <1>2, <2>1, <2>2
<1>11. BusOK'
  BY <1>1, <1>10 DEF Always, BusOK
<1> QED
  BY <1>1, <1>4, <1>7, <1>10, <1>11 DEF Always

\* Always is kept when nothing happens.
LEMMA StutterAlways == Always /\ UNCHANGED vars => Always'
<1> SUFFICES ASSUME Always, UNCHANGED vars PROVE Always'
  OBVIOUS
<1>1. UNCHANGED tester /\ UNCHANGED <<toEcu, toTester, ecu, heard, given, clean, repeated, faults>>
  BY DEF vars, bus
<1>2. UNCHANGED <<call, req, asked, pc, tx, rx, count, result>>
  BY <1>1 DEF tester
<1>3. CallOK'
  BY <1>1, <1>2, Zenon DEF Always, CallOK
<1>4. LocalsOK'
  BY <1>1, <1>2, Zenon DEF Always, LocalsOK
<1>5. ExchangeOK' /\ BusOK'
  BY <1>1, <1>2 DEF Always, ExchangeOK, BusOK
<1>6. EcuOK'
  BY <1>1, <1>2, EcuSame DEF Always
<1> QED
  BY <1>3, <1>4, <1>5, <1>6 DEF Always

\* Always is kept by every step.
LEMMA StepAlways == Always /\ [Next]_vars => Always'
BY StutterAlways, ExchangeAlways, WaitAlways, SendAlways, PduAlways, ConsecutiveAlways, NoiseAlways,
   EcuReadsAlways, GrantsAlways, AnswersAlways, SendsAlways, GivesUpAlways, FaultAlways, Zenon
   DEF Next, TesterStep, EcuStep

\* The locals of the exchange and the ECU stay within their sizes, and bytes on the bus
\* and in hand are of PDUs that were sent (TypeOK of the runs, for every constant).
THEOREM Types == Spec => []TypeOK
<1>1. Always => TypeOK
  <2> SUFFICES ASSUME Always PROVE TypeOK
    OBVIOUS
  <2>1. rx.len \in 0..MaxPayload /\ rx.seq \in 0..(SeqMod - 1)
    BY DEF Always, LocalsOK, Rxs
  <2>2. result.status \in {"idle", "pending", "ok", "broken", "limit", "refused"}
    BY DEF Always, LocalsOK, Results
  <2> QED
    BY <2>1, <2>2, Zenon DEF TypeOK, Always, CallOK, LocalsOK, Txs, Counts
<1> QED
  BY <1>1, InitAlways, StepAlways, PTL DEF Spec

(***************************************************************************)
(* In step                                                                 *)
(***************************************************************************)

\* The first frame of a PDU follows only flow control and single frames.
LEMMA FirstSent ==
    ASSUME NEW q, NEW r, NEW f, NEW p, NEW o, Longer(r, q, f), FirstOf(f, p),
           \A i \in 1..Len(q) : q[i].type \notin {"FF", "CF"}
    PROVE  Pieces(r, p, o) /\ f.type = "FF"
<1> DEFINE c == SubSeq(Bytes(p), 1, FfCap)
<1> HIDE DEF c
<1>1. f = First(p.len, c)
  BY DEF FirstOf, c
<1>2. f.type = "FF"
  BY <1>1 DEF First
<1>3. Len(q) \in Nat /\ \A i \in 1..Len(r) : (i \in 1..Len(q) /\ r[i] = q[i]) \/ (i = Len(q) + 1 /\ r[i] = f)
  BY DEF Longer
<1>4. \A i \in 1..Len(r) : /\ r[i].type = "FF" => FirstOf(r[i], p)
                           /\ r[i].type = "CF" => PieceOf(r[i], p, o)
  BY <1>2, <1>3
<1>5. \A i \in 1..Len(r), j \in 1..Len(r) : r[i].type \in {"FF", "CF"} => ~(i < j)
  <2> SUFFICES ASSUME NEW i \in 1..Len(r), NEW j \in 1..Len(r), r[i].type \in {"FF", "CF"}, i < j PROVE FALSE
    OBVIOUS
  <2>1. i = Len(q) + 1
    BY <1>3
  <2>2. j <= Len(q) + 1
    BY <1>3
  <2> QED
    BY <1>3, <2>1, <2>2
<1>6. Pieces(r, p, o)
  BY <1>4, <1>5, Zenon DEF Pieces
<1> QED
  BY <1>2, <1>6

\* A request of one frame follows only flow control.
LEMMA SingleSent ==
    ASSUME NEW q, NEW r, NEW f, NEW x, Longer(r, q, f), SingleOf(f, x), Only(q, {"FC"})
    PROVE  Asks(r, x)
<1>1. Len(q) \in Nat /\ \A i \in 1..Len(r) : (i \in 1..Len(q) /\ r[i] = q[i]) \/ (i = Len(q) + 1 /\ r[i] = f)
  BY DEF Longer
<1>2. \A i \in 1..Len(q) : q[i].type = "FC"
  BY DEF Only
<1>3. \A i \in 1..Len(r) : r[i].type = "FC" \/ SingleOf(r[i], x)
  BY <1>1, <1>2
<1>4. ASSUME NEW i \in 1..Len(r), NEW j \in 1..Len(r), i < j, r[i].type = "SF"
      PROVE  r[j].type = "FC"
  <2>1. i = Len(q) + 1
    BY <1>1, <1>2, <1>4
  <2>2. j <= Len(q) + 1
    BY <1>1
  <2> QED
    BY <1>1, <1>4, <2>1, <2>2
<1> QED
  BY <1>3, <1>4, Zenon DEF Asks

\* Only these states are there for the awaits of the tester.
LEMMA StepWhere ==
    ASSUME InStep, clean, ~repeated
    PROVE  /\ pc = "idle" => Rest
           /\ pc \in {"flow", "send"} => AskLong
           /\ pc = "cont" => \E p \in given, off \in Nat : AnswerLong(p, off)
           /\ pc = "pdu" => AskShort \/ AskLong \/ AnswerShort \/ \E p \in given, off \in Nat : AnswerLong(p, off)
<1>1. Rest \/ AskShort \/ AskLong \/ AnswerShort \/ \E p \in given, off \in Nat : AnswerLong(p, off)
  BY Zenon DEF InStep
<1>2. Rest => pc = "idle"
  BY DEF Rest
<1>3. AskShort \/ AnswerShort => pc = "pdu"
  BY DEF AskShort, AnswerShort
<1>4. AskLong => pc \in {"flow", "send", "pdu"}
  BY DEF AskLong
<1>5. (\E p \in given, off \in Nat : AnswerLong(p, off)) => pc \in {"pdu", "cont"}
  BY DEF AnswerLong
<1> QED
  BY <1>1, <1>2, <1>3, <1>4, <1>5

\* A failed exchange is a fault: the ends are not in step any more.
LEMMA FailedStep == FailsNow => InStep' /\ Returned'
<1>1. FailsNow => clean' = FALSE
  BY DEF FailsNow, Failed
<1> QED
  BY <1>1, Zenon DEF InStep, Returned

\* What was returned is not changed by a step that returns nothing.
LEMMA ReturnedSame ==
    ASSUME Returned, clean' => clean, ~repeated' => ~repeated, result' = result, req' = req, given \subseteq given'
    PROVE  Returned'
BY Zenon DEF Returned

\* The ends are in step at first, and nothing has been returned.
LEMMA InitStep == Init => InStep /\ Returned
<1> SUFFICES ASSUME Init PROVE InStep /\ Returned
  OBVIOUS
<1>1. pc = "idle" /\ ecu = EcuIdle /\ toEcu = <<>> /\ toTester = <<>> /\ result = Result("idle", <<>>)
  BY DEF Init
<1>2. ecu.st = "idle" /\ result.status = "idle" /\ 1..Len(<<>>) = {}
  BY <1>1, Starts
<1>3. Rest
  BY <1>1, <1>2 DEF Rest, Only
<1>4. result.status # "ok"
  BY <1>2
<1> QED
  BY <1>3, <1>4, Zenon DEF InStep, Returned

\* A new exchange starts in step.
LEMMA ExchangeStep ==
    ASSUME IInv, NEW r \in Requests, exchange(r)
    PROVE  InStep' /\ Returned'
<1>1. /\ Always /\ Always' /\ pc = "idle" /\ req' = r
      /\ UNCHANGED <<toTester, ecu, heard, given, clean, repeated, faults>>
      /\ (Refuses /\ result'.status = "refused") \/ (Asking(r) /\ result'.status = "pending")
  BY ExchangeAlways DEF IInv
<1>2. result'.status # "ok"
  BY <1>1
<1>3. ASSUME clean', ~repeated' PROVE Rest' \/ AskShort' \/ AskLong'
  <2>1. clean /\ ~repeated
    BY <1>1, <1>3, Zenon
  <2>2. Rest
    BY <1>1, <2>1, StepWhere DEF IInv
  <2>3. ecu'.st = "idle" /\ Only(toEcu, {"FC"}) /\ Only(toTester', {"FC"})
    BY <1>1, <2>2 DEF Rest
  <2>4. CASE Refuses
    BY <1>1, <2>3, <2>4 DEF Refuses, Rest
  <2>5. CASE Asking(r) /\ r.len <= SfCap /\ Longer(toEcu', toEcu, Single(Bytes(r))) /\ pc' = "pdu"
    <3>1. Asks(toEcu', r)
      <4> DEFINE f == Single(Bytes(r))
      <4>1. SingleOf(f, r)
        BY DEF SingleOf
      <4> HIDE DEF f
      <4> QED
        BY <2>3, <2>5, <4>1, SingleSent DEF f
    <3> QED
      BY <1>1, <2>3, <2>5, <3>1 DEF AskShort
  <2>6. CASE /\ Asking(r) /\ r.len > SfCap
             /\ Longer(toEcu', toEcu, First(r.len, SubSeq(Bytes(r), 1, FfCap)))
             /\ pc' = "flow" /\ tx'.off = FfCap
    <3> DEFINE f == First(r.len, SubSeq(Bytes(r), 1, FfCap))
    <3>1. FirstOf(f, r)
      BY DEF FirstOf
    <3>2. Longer(toEcu', toEcu, f)
      BY <2>6
    <3> HIDE DEF f
    <3>3. \A i \in 1..Len(toEcu) : toEcu[i].type = "FC"
      BY <2>3 DEF Only
    <3>4. Pieces(toEcu', r, FfCap) /\ f.type = "FF"
      <4>1. \A i \in 1..Len(toEcu) : toEcu[i].type \notin {"FF", "CF"}
        BY <3>3
      <4> QED
        BY <3>1, <3>2, <4>1, FirstSent
    <3>5. Only(toEcu', {"FC", "FF", "CF"})
      BY <3>2, <3>3, <3>4 DEF Only, Longer
    <3>6. r \in Pdus /\ r.len > 0 /\ FfCap \in Nat /\ FfCap <= FfCap
      BY <2>6, IsoTpAssumption DEF Asking, Pdus
    <3>7. FfCap < r.len /\ r.len \in Nat
      BY <2>6, <3>6, PduFrames, BytesOf
    <3>8. FfCap <= tx'.off /\ tx'.off <= r.len
      BY <2>6, <3>6, <3>7
    <3> QED
      BY <1>1, <2>3, <2>6, <3>4, <3>5, <3>8 DEF AskLong
  <2> QED
    BY <1>1, <2>4, <2>5, <2>6 DEF Asking
<1> QED
  BY <1>2, <1>3, Zenon DEF InStep, Returned

\* The ends stay in step when the tester reads a flow control.
LEMMA WaitStep == IInv /\ wait_for_continue_to_send => InStep' /\ Returned'
<1> SUFFICES ASSUME IInv, wait_for_continue_to_send PROVE InStep' /\ Returned'
  OBVIOUS
<1>1. recv_frame /\ pc = "flow" /\ UNCHANGED <<call, req, asked, toEcu, ecu, heard, given, repeated, faults>>
  BY DEF wait_for_continue_to_send
<1>2. Rear(toTester', toTester) /\ Len(toTester) \in Nat
  <2>1. QueueOK(toTester, EcuBlocks \cup {0}, given)
    BY DEF IInv, Always, BusOK
  <2> QED
    BY <1>1, <2>1, TesterReads, QueueRead DEF IInv, Always
<1>3. CASE FailsNow
  BY <1>3, FailedStep
<1>4. CASE pc' \in {"flow", "send"} /\ tx'.off = tx.off /\ UNCHANGED <<result, clean>>
  <2>1. ASSUME clean', ~repeated' PROVE AskLong'
    <3>1. AskLong
      BY <1>1, <1>4, <2>1, StepWhere DEF IInv
    <3>2. Only(toTester', {"FC"})
      BY <1>2, <3>1, RearKeeps DEF AskLong
    <3> QED
      BY <1>1, <1>4, <3>1, <3>2 DEF AskLong
  <2>2. Returned'
    BY <1>1, <1>4, ReturnedSame DEF IInv
  <2> QED
    BY <2>1, <2>2, Zenon DEF InStep
<1>5. FailsNow \/ (pc' \in {"flow", "send"} /\ tx'.off = tx.off /\ UNCHANGED <<result, clean>>)
  <2> DEFINE f == Head(toTester)
  <2>1. \/ tx' = [tx EXCEPT !.block = 0, !.bs = f.bs] /\ pc' = "send" /\ UNCHANGED <<rx, result, clean>>
        \/ UNCHANGED <<pc, tx, rx, result, clean>>
        \/ FailsNow
    BY Zenon DEF wait_for_continue_to_send, FailsNow
  <2> HIDE DEF f
  <2>2. tx' = [tx EXCEPT !.block = 0, !.bs = f.bs] => tx'.off = tx.off
    BY DEF IInv, Always, LocalsOK, Txs
  <2> QED
    BY <1>1, <2>1, <2>2
<1> QED
  BY <1>3, <1>4, <1>5

\* The ends stay in step when the tester sends a consecutive frame.
LEMMA SendStep == IInv /\ send_consecutive => InStep' /\ Returned'
<1> SUFFICES ASSUME IInv, send_consecutive PROVE InStep' /\ Returned'
  OBVIOUS
<1> DEFINE o == NextOff(req, tx.off)
           f == Consecutive(tx.seq, Chunk(req, tx.off))
<1>1. /\ pc = "send" /\ toEcu' = Append(toEcu, f)
      /\ tx' = [tx EXCEPT !.off = o, !.seq = NextSeq(@), !.block = @ + 1]
      /\ pc' = IF o >= req.len THEN "pdu" ELSE IF SentBlock THEN "flow" ELSE "send"
      /\ UNCHANGED <<call, req, asked, rx, count, result, toTester, ecu, heard, given, clean, repeated, faults>>
  BY DEF send_consecutive, NextOff
<1>2. req \in Pdus /\ tx.off \in Nat /\ tx.off < req.len /\ tx \in Txs
  <2>1. req \in asked /\ tx.off < req.len /\ asked \subseteq Requests
    BY <1>1 DEF IInv, Always, ExchangeOK, CallOK
  <2> QED
    BY <2>1 DEF IInv, Always, LocalsOK, Txs, Pdus
<1>3. o \in Nat /\ req.len \in Nat /\ tx.off < o /\ o <= req.len /\ tx'.off = o
  <2>1. o \in Nat /\ req.len \in Nat /\ tx.off < o /\ o <= req.len
    BY <1>2, ChunkOf, BytesOf
  <2> QED
    BY <1>1, <1>2, <2>1 DEF Txs
<1>4. Returned'
  BY <1>1, ReturnedSame DEF IInv
<1>5. ASSUME clean', ~repeated' PROVE AskLong'
  <2>1. AskLong
    BY <1>1, <1>5, StepWhere DEF IInv
  <2>2. /\ ecu.st \in {"idle", "grant", "recv"} /\ req.len > SfCap /\ FfCap <= tx.off /\ tx.off <= req.len
        /\ Only(toEcu, {"FC", "FF", "CF"}) /\ Pieces(toEcu, req, tx.off)
        /\ ecu.st # "idle" => ecu.len = req.len /\ Behind(ecu.bytes, req, toEcu, tx.off)
        /\ Only(toTester, {"FC"})
    BY <2>1 DEF AskLong
  <2>3. Longer(toEcu', toEcu, f)
    <3>1. f \in Frames({BlockSize})
      <4>1. tx.seq \in Nat /\ Chunk(req, tx.off) \in PduBytes
        BY <1>2, ChunkOf, IsoTpAssumption DEF Txs, Piece
      <4> QED
        BY <4>1, FrameMade
    <3>2. toEcu \in Seq(Frames({BlockSize}))
      BY DEF IInv, Always, BusOK, QueueOK
    <3> HIDE DEF f
    <3> QED
      BY <1>1, <3>1, <3>2, Added
  <2>4. f.type = "CF"
    BY DEF Consecutive
  <2>5. Only(toEcu', {"FC", "FF", "CF"})
    <3> HIDE DEF f
    <3> QED
      BY <2>2, <2>3, <2>4 DEF Only, Longer
  <2>6. /\ Pieces(toEcu', req, o)
        /\ \A b : Behind(b, req, toEcu, tx.off) /\ Len(b) \in Nat => Behind(b, req, toEcu', o)
    BY <1>2, <2>2, <2>3, PieceSent
  <2>7. Len(ecu.bytes) \in Nat
    BY DEF IInv, Always, EcuOK, Ecus, PduBytes
  <2> HIDE DEF o, f
  <2>8. pc' \in {"pdu", "flow", "send"} /\ (pc' = "pdu" => o = req.len)
    BY <1>1, <1>3
  <2>9. FfCap <= o
    BY <1>2, <1>3, <2>2, IsoTpAssumption
  <2> QED
    BY <1>1, <1>3, <2>2, <2>5, <2>6, <2>7, <2>8, <2>9 DEF AskLong
<1> QED
  BY <1>4, <1>5, Zenon DEF InStep

\* A response of one frame is a single frame, of bytes of a response.
LEMMA RespondsFacts ==
    ASSUME NEW f, NEW r, NEW G, Responds(f, r, G)
    PROVE  f.type = "SF" /\ Meaning(f.data) \in G /\ Meaning(f.data).to = r /\ f.data = Bytes(Meaning(f.data))
<1> DEFINE p == Meaning(f.data)
           b == Bytes(p)
<1>1. p \in G /\ p.to = r /\ f = Single(b)
  BY DEF Responds, SingleOf
<1> HIDE DEF b
<1>2. f.type = "SF" /\ f.data = b
  BY <1>1 DEF Single
<1> QED
  BY <1>1, <1>2 DEF b

\* The ends stay in step when the tester reads the first frame of a PDU.
LEMMA PduStep == IInv /\ recv_pdu => InStep' /\ Returned'
<1> SUFFICES ASSUME IInv, recv_pdu PROVE InStep' /\ Returned'
  OBVIOUS
<1> DEFINE f == toTester[1]
<1>1. /\ pc = "pdu" /\ recv_frame
      /\ UNCHANGED <<call, req, asked, ecu, heard, given, repeated, faults>>
      /\ OneFrame(f) \/ StartsPdu(f) \/ Fails
  BY PduCases DEF IInv
<1>2. /\ toTester # <<>> /\ FrameFacts(f, EcuBlocks \cup {0})
      /\ Rear(toTester', toTester) /\ After(toTester', toTester)
  BY <1>1, TesterReads DEF IInv, Always
<1>3. toTester \in Seq(Frames(EcuBlocks \cup {0})) /\ Len(toTester) \in Nat /\ 1 \in 1..Len(toTester)
  BY <1>2 DEF IInv, Always, BusOK, QueueOK
<1>4. /\ \A x, G : Answers(toTester, x, G) => Answers(toTester', x, G)
      /\ \A x, G : AllWait(toTester, x, G) => AllWait(toTester', x, G)
      /\ \A p, o : Pieces(toTester, p, o) => Pieces(toTester', p, o)
  BY <1>2, <1>3, RearKeeps
<1>5. Fails => InStep' /\ Returned'
  BY FailedStep DEF Fails
<1>6. f.type # "FC" => ~AskShort /\ ~AskLong
  BY <1>3 DEF AskShort, AskLong, Only
<1> HIDE DEF f
<1>7. ASSUME clean, ~repeated, f.type # "FC"
      PROVE  AnswerShort \/ \E p \in given, off \in Nat : AnswerLong(p, off)
  BY <1>1, <1>6, <1>7, StepWhere DEF IInv
<1>8. AnswerShort => f.type = "FC" \/ Responds(f, req, given)
  BY <1>3 DEF AnswerShort, Answers, f
<1>9. ASSUME OneFrame(f) PROVE InStep' /\ Returned'
  <2>1. f.type = "SF" /\ Received(f.data) /\ toEcu' = toEcu /\ f.data \in PduBytes
    BY <1>2, <1>9 DEF OneFrame, FrameFacts
  <2>2. WaitsOn(f.data) \/ Returns(f.data) \/ FailsNow
    BY <1>1, <2>1, ReceivedLocals DEF IInv, Always
  <2>3. CASE WaitsOn(f.data)
    <3>1. Waits(f) /\ pc' = "pdu" /\ rx' = NoRx /\ tx' = tx /\ result' = result /\ clean' = clean
      BY <2>3, Zenon DEF WaitsOn, Waits
    <3>2. Returned'
      BY <1>1, <3>1, ReturnedSame DEF IInv
    <3>3. ASSUME clean', ~repeated'
          PROVE  AnswerShort' \/ \E p \in given', off \in Nat : AnswerLong(p, off)'
      <4>1. clean /\ ~repeated
        BY <1>1, <3>1, <3>3, Zenon
      <4>2. CASE AnswerShort
        BY <1>1, <1>4, <2>1, <3>1, <4>2 DEF AnswerShort
      <4>3. CASE \E p \in given, off \in Nat : AnswerLong(p, off)
        <5>1. PICK p \in given, off \in Nat : AnswerLong(p, off)
          BY <4>3
        <5>2. AnswerLong(p, off)'
          BY <1>1, <1>4, <2>1, <3>1, <5>1 DEF AnswerLong
        <5> QED
          BY <1>1, <5>2
      <4> QED
        BY <1>7, <2>1, <4>1, <4>2, <4>3
    <3> QED
      BY <3>2, <3>3, Zenon DEF InStep
  <2>4. CASE Returns(f.data)
    <3>1. pc' = "idle" /\ result' = Result("ok", f.data)
      BY <2>4 DEF Returns
    <3>2. ASSUME clean', ~repeated'
          PROVE  Rest' /\ \E p \in given' : p.to = req' /\ result'.bytes = Bytes(p)
      <4>1. clean /\ ~repeated /\ ~Waits(f)
        BY <1>1, <2>4, <3>2, Zenon DEF Returns, Waits
      <4>2. ~(\E p \in given, off \in Nat : AnswerLong(p, off))
        BY <1>3, <2>1, <4>1 DEF AnswerLong, AllWait, f
      <4>3. AnswerShort
        BY <1>7, <2>1, <4>1, <4>2
      <4>4. Responds(f, req, given)
        BY <1>8, <2>1, <4>3
      <4>5. ecu.st = "idle"
        BY <1>3, <2>1, <4>1, <4>3 DEF AnswerShort, AllWait, f
      <4>6. Only(toTester', {"FC"})
        <5>1. Answers(toTester, req, given)
          BY <4>3 DEF AnswerShort
        <5>2. \A j \in 1..Len(toTester') : 1 + j \in 1..Len(toTester) /\ 1 < 1 + j /\ toTester'[j] = toTester[1 + j]
          BY <1>2 DEF After
        <5>3. toTester[1].type = "SF" /\ ~Waits(toTester[1])
          BY <2>1, <4>1 DEF f
        <5>4. \A j \in 1..Len(toTester') : toTester'[j].type = "FC"
          BY <1>3, <5>1, <5>2, <5>3, ZenonT(40) DEF Answers
        <5> QED
          BY <5>4 DEF Only
      <4>7. Rest'
        BY <1>1, <2>1, <3>1, <4>3, <4>5, <4>6 DEF Rest, AnswerShort
      <4>8. Meaning(f.data) \in given /\ Meaning(f.data).to = req /\ f.data = Bytes(Meaning(f.data))
        BY <4>4, RespondsFacts
      <4>9. result'.bytes = f.data
        BY <2>1, <3>1, Starts
      <4> QED
        BY <1>1, <4>7, <4>8, <4>9
    <3> QED
      BY <3>2, Zenon DEF InStep, Returned
  <2> QED
    BY <2>2, <2>3, <2>4, FailedStep
<1>10. ASSUME StartsPdu(f) PROVE InStep' /\ Returned'
  <2>1. /\ f.type = "FF" /\ toEcu' = Append(toEcu, FlowControl("cts", BlockSize))
        /\ rx' = [bytes |-> f.data, len |-> f.len, seq |-> 1, block |-> 0]
        /\ pc' = "cont" /\ tx' = tx /\ result' = result /\ clean' = clean
    BY <1>10 DEF StartsPdu
  <2>2. Returned'
    BY <1>1, <2>1, ReturnedSame DEF IInv
  <2>3. ASSUME clean', ~repeated' PROVE \E p \in given', off \in Nat : AnswerLong(p, off)'
    <3>1. clean /\ ~repeated
      BY <1>1, <2>1, <2>3, Zenon
    <3>2. ~AnswerShort
      <4>1. Responds(f, req, given) => f.type = "SF"
        BY RespondsFacts
      <4> QED
        BY <1>8, <2>1, <4>1
    <3>3. PICK p \in given, off \in Nat : AnswerLong(p, off)
      BY <1>7, <2>1, <3>1, <3>2
    <3>4. p \in Pdus
      BY DEF IInv, Always, CallOK, Pdus
    <3>5. FfCap <= off /\ off <= p.len /\ Pieces(toTester, p, off)
      BY <3>3 DEF AnswerLong
    <3>6. f.len = p.len /\ Behind(f.data, p, toTester', off)
      BY <1>2, <1>3, <2>1, <3>4, <3>5, FirstTaken DEF f
    <3>7. rx'.len = p.len /\ Behind(rx'.bytes, p, toTester', off)
      BY <2>1, <3>6
    <3>8. Only(toEcu', {"FC"})
      <4> DEFINE g == FlowControl("cts", BlockSize)
      <4>1. Longer(toEcu', toEcu, g) /\ g.type = "FC"
        BY <2>1, FlowToEcu DEF IInv, Always
      <4>2. Only(toEcu, {"FC"})
        BY <3>3 DEF AnswerLong
      <4> HIDE DEF g
      <4> QED
        BY <4>1, <4>2, FlowSent
    <3>9. AnswerLong(p, off)'
      BY <1>1, <1>4, <2>1, <3>3, <3>7, <3>8 DEF AnswerLong
    <3> QED
      BY <1>1, <3>9
  <2> QED
    BY <2>2, <2>3, Zenon DEF InStep
<1> QED
  BY <1>1, <1>5, <1>9, <1>10

\* In step, a frame that continues the PDU in hand is a piece of the response under way.
LEMMA ContinuesPiece ==
    ASSUME IInv, recv_consecutive, clean, ~repeated, Continues(toTester[1])
    PROVE  \E p \in given, off \in Nat :
                /\ AnswerLong(p, off) /\ rx.len = p.len
                /\ Taken(rx.bytes, toTester[1].data, p, toTester', off)
                /\ Grown(toTester[1]) = rx.bytes \o toTester[1].data
<1> DEFINE f == toTester[1]
<1>1. pc = "cont" /\ recv_frame
  BY ConsecutiveCases DEF IInv
<1>2. toTester # <<>> /\ After(toTester', toTester)
  BY <1>1, TesterReads DEF IInv, Always
<1>3. toTester \in Seq(Frames(EcuBlocks \cup {0}))
  BY DEF IInv, Always, BusOK, QueueOK
<1>4. rx.bytes \in PduBytes /\ rx.bytes # <<>>
  BY <1>1 DEF IInv, Always, ExchangeOK, LocalsOK, Rxs
<1>5. PICK p \in given, off \in Nat : AnswerLong(p, off)
  BY <1>1, StepWhere DEF IInv
<1>6. p \in Pdus
  BY DEF IInv, Always, CallOK, Pdus
<1>7. /\ off <= p.len /\ Pieces(toTester, p, off) /\ rx.len = p.len
      /\ Behind(rx.bytes, p, toTester, off)
  BY <1>1, <1>5 DEF AnswerLong
<1>8. f.type = "CF"
  BY DEF Continues
<1>9. Taken(rx.bytes, f.data, p, toTester', off)
  BY <1>2, <1>3, <1>4, <1>6, <1>7, <1>8, PieceTaken
<1> HIDE DEF f
<1>10. f.data \in PduBytes /\ Len(rx.bytes) + Len(f.data) <= rx.len
  BY <1>7, <1>9 DEF Taken
<1>11. Grown(f) = rx.bytes \o f.data
  BY <1>4, <1>10, GrownBytes DEF IInv, Always
<1> QED
  BY <1>5, <1>7, <1>9, <1>11 DEF f

\* The ends stay in step when the tester reads a consecutive frame.
LEMMA ConsecutiveStep == IInv /\ recv_consecutive => InStep' /\ Returned'
<1> SUFFICES ASSUME IInv, recv_consecutive PROVE InStep' /\ Returned'
  OBVIOUS
<1> DEFINE f == toTester[1]
<1>1. /\ pc = "cont" /\ recv_frame
      /\ UNCHANGED <<call, req, asked, ecu, heard, given, repeated, faults>>
      /\ GoesOn(f) \/ Completes(f) \/ Fails
  BY ConsecutiveCases DEF IInv
<1>2. /\ toTester # <<>> /\ FrameFacts(f, EcuBlocks \cup {0})
      /\ Rear(toTester', toTester) /\ After(toTester', toTester)
  BY <1>1, TesterReads DEF IInv, Always
<1>3. toTester \in Seq(Frames(EcuBlocks \cup {0})) /\ Len(toTester) \in Nat /\ 1 \in 1..Len(toTester)
  BY <1>2 DEF IInv, Always, BusOK, QueueOK
<1>4. /\ \A x, G : AllWait(toTester, x, G) => AllWait(toTester', x, G)
      /\ \A p, o : Pieces(toTester, p, o) => Pieces(toTester', p, o)
  BY <1>2, <1>3, RearKeeps
<1>5. Fails => InStep' /\ Returned'
  BY FailedStep DEF Fails
<1>6. rx.bytes \in PduBytes /\ rx.bytes # <<>>
  BY <1>1 DEF IInv, Always, ExchangeOK, LocalsOK, Rxs
<1>7. ASSUME clean, ~repeated, Continues(f)
      PROVE  \E p \in given, off \in Nat :
                /\ AnswerLong(p, off) /\ rx.len = p.len
                /\ Taken(rx.bytes, f.data, p, toTester', off) /\ Grown(f) = rx.bytes \o f.data
  BY <1>7, ContinuesPiece
<1> HIDE DEF f
<1>8. ASSUME GoesOn(f) PROVE InStep' /\ Returned'
  <2>1. /\ Continues(f) /\ pc' = pc /\ tx' = tx /\ result' = result /\ clean' = clean
        /\ toEcu' = toEcu \/ toEcu' = Append(toEcu, FlowControl("cts", BlockSize))
    BY <1>8 DEF GoesOn
  <2>2. rx'.bytes = Grown(f) /\ rx'.len = rx.len
    BY <1>8 DEF GoesOn, IInv, Always, LocalsOK, Rxs
  <2>3. Returned'
    BY <1>1, <2>1, ReturnedSame DEF IInv
  <2>4. ASSUME clean', ~repeated' PROVE \E p \in given', off \in Nat : AnswerLong(p, off)'
    <3>1. clean /\ ~repeated
      BY <1>1, <2>1, <2>4, Zenon
    <3>2. PICK p \in given, off \in Nat :
                /\ AnswerLong(p, off) /\ rx.len = p.len
                /\ Taken(rx.bytes, f.data, p, toTester', off) /\ Grown(f) = rx.bytes \o f.data
      BY <1>7, <2>1, <3>1
    <3>3. rx'.len = p.len /\ Behind(rx'.bytes, p, toTester', off)
      BY <2>2, <3>2 DEF Taken
    <3>4. Only(toEcu', {"FC"})
      <4> DEFINE g == FlowControl("cts", BlockSize)
      <4>1. Longer(Append(toEcu, g), toEcu, g) /\ g.type = "FC"
        BY FlowToEcu DEF IInv, Always
      <4>2. Only(toEcu, {"FC"})
        BY <3>2 DEF AnswerLong
      <4>3. toEcu' = toEcu \/ toEcu' = Append(toEcu, g)
        BY <2>1
      <4> HIDE DEF g
      <4> QED
        BY <4>1, <4>2, <4>3, FlowSent
    <3>5. AnswerLong(p, off)'
      BY <1>1, <1>4, <2>1, <3>2, <3>3, <3>4 DEF AnswerLong
    <3> QED
      BY <1>1, <3>5
  <2> QED
    BY <2>3, <2>4, Zenon DEF InStep
<1>9. ASSUME Completes(f) PROVE InStep' /\ Returned'
  <2> DEFINE b == Grown(f)
  <2>1. Continues(f) /\ ~(Len(b) < rx.len) /\ Received(b) /\ toEcu' = toEcu
    BY <1>9 DEF Completes
  <2>2. b \in PduBytes /\ Len(b) \in Nat /\ rx.len \in Nat
    <3>1. f.data \in PduBytes
      BY <1>2, <2>1 DEF Continues, FrameFacts
    <3>2. MaxPayload \in Nat
      BY IsoTpAssumption
    <3> QED
      BY <1>6, <3>1, <3>2, GrownBytes DEF IInv, Always, LocalsOK, Rxs
  <2>3. WaitsOn(b) \/ Returns(b) \/ FailsNow
    BY <1>1, <2>1, <2>2, ReceivedLocals DEF IInv, Always
  <2> HIDE DEF b
  <2>4. ASSUME clean, ~repeated
        PROVE  \E p \in given, off \in Nat :
                  AnswerLong(p, off) /\ b = Bytes(p) /\ off = p.len /\ Only(toTester', {"FC"})
    <3>1. PICK p \in given, off \in Nat :
                /\ AnswerLong(p, off) /\ rx.len = p.len
                /\ Taken(rx.bytes, f.data, p, toTester', off) /\ b = rx.bytes \o f.data
      BY <1>7, <2>1, <2>4 DEF b
    <3>2. Len(b) >= p.len
      <4> DEFINE n == rx.len
                 k == Len(b)
      <4>1. ~(k < n) /\ k \in Nat /\ n \in Nat
        BY <2>1, <2>2
      <4> HIDE DEF k, n
      <4>2. k >= n
        BY <4>1
      <4> QED
        BY <3>1, <4>2 DEF k, n
    <3>3. b = Bytes(p) /\ off = p.len /\ Only(toTester', {"FC"})
      BY <3>1, <3>2 DEF Taken
    <3> QED
      BY <3>1, <3>3
  <2>5. CASE WaitsOn(b)
    <3>1. pc' = "pdu" /\ rx' = NoRx /\ tx' = tx /\ result' = result /\ clean' = clean
      BY <2>5, Zenon DEF WaitsOn
    <3>2. Returned'
      BY <1>1, <3>1, ReturnedSame DEF IInv
    <3>3. ASSUME clean', ~repeated' PROVE \E p \in given', off \in Nat : AnswerLong(p, off)'
      <4>1. clean /\ ~repeated
        BY <1>1, <3>1, <3>3, Zenon
      <4>2. PICK p \in given, off \in Nat : AnswerLong(p, off)
        BY <2>4, <4>1
      <4>3. AnswerLong(p, off)'
        BY <1>1, <1>4, <2>1, <3>1, <4>2 DEF AnswerLong
      <4> QED
        BY <1>1, <4>3
    <3> QED
      BY <3>2, <3>3, Zenon DEF InStep
  <2>6. CASE Returns(b)
    <3>1. pc' = "idle" /\ result' = Result("ok", b)
      BY <2>6 DEF Returns
    <3>2. ASSUME clean', ~repeated'
          PROVE  Rest' /\ \E p \in given' : p.to = req' /\ result'.bytes = Bytes(p)
      <4>1. clean /\ ~repeated
        BY <1>1, <2>6, <3>2, Zenon DEF Returns
      <4>2. PICK p \in given, off \in Nat :
                  AnswerLong(p, off) /\ b = Bytes(p) /\ off = p.len /\ Only(toTester', {"FC"})
        BY <2>4, <4>1
      <4>3. ecu.st = "idle" /\ p.to = req /\ Only(toEcu, {"FC"})
        BY <4>2 DEF AnswerLong
      <4>4. Rest'
        BY <1>1, <2>1, <3>1, <4>2, <4>3 DEF Rest
      <4>5. result'.bytes = b
        BY <2>2, <3>1, Starts
      <4> QED
        BY <1>1, <4>2, <4>3, <4>4, <4>5
    <3> QED
      BY <3>2, Zenon DEF InStep, Returned
  <2> QED
    BY <2>3, <2>5, <2>6, FailedStep
<1> QED
  BY <1>1, <1>5, <1>8, <1>9

\* Nothing that the ends know of each other changes.
LEMMA NothingMoves ==
    ASSUME IInv, UNCHANGED <<req, pc, tx, rx, result, clean, toEcu, toTester, ecu, given, repeated>>
    PROVE  InStep' /\ Returned'
<1>1. Rest => Rest'
  BY Zenon DEF Rest
<1>2. AskShort => AskShort'
  BY Zenon DEF AskShort
<1>3. AskLong => AskLong'
  BY Zenon DEF AskLong
<1>4. AnswerShort => AnswerShort'
  BY Zenon DEF AnswerShort
<1>5. \A p, off : AnswerLong(p, off) => AnswerLong(p, off)'
  BY ZenonT(40) DEF AnswerLong
<1>6. InStep'
  BY <1>1, <1>2, <1>3, <1>4, <1>5, Zenon DEF IInv, InStep
<1>7. Returned'
  BY Zenon DEF IInv, Returned
<1> QED
  BY <1>6, <1>7

\* The ends stay in step when the tester reads frames of others, or fails.
LEMMA NoiseStep == IInv /\ (ReadUnrelated \/ ReadForeign \/ ReadFails) => InStep' /\ Returned'
<1> SUFFICES ASSUME IInv, ReadUnrelated \/ ReadForeign \/ ReadFails PROVE InStep' /\ Returned'
  OBVIOUS
<1>1. /\ UNCHANGED <<call, req, asked, toEcu, toTester, ecu, heard, given, repeated>>
      /\ Skips \/ FailsNow
  BY NoiseCases DEF IInv
<1>2. CASE Skips
  <2>1. UNCHANGED <<pc, tx, rx, result, clean>>
    BY <1>2 DEF Skips
  <2> QED
    BY <1>1, <2>1, NothingMoves
<1> QED
  BY <1>1, <1>2, FailedStep

\* The ends stay in step when nothing happens.
LEMMA StutterStep == IInv /\ UNCHANGED vars => InStep' /\ Returned'
<1> SUFFICES ASSUME IInv, UNCHANGED vars PROVE InStep' /\ Returned'
  OBVIOUS
<1>1. UNCHANGED tester /\ UNCHANGED <<toEcu, toTester, ecu, heard, given, clean, repeated, faults>>
  BY DEF vars, bus
<1>2. UNCHANGED <<call, req, asked, pc, tx, rx, count, result>>
  BY <1>1 DEF tester
<1> QED
  BY <1>1, <1>2, NothingMoves

\* The ends stay in step when the ECU gives up.
LEMMA GivesUpStep == IInv /\ EcuGivesUp => InStep' /\ Returned'
<1> SUFFICES ASSUME IInv, EcuGivesUp PROVE InStep' /\ Returned'
  OBVIOUS
<1>1. ecu.st \in {"recv", "flow"} /\ pc = "idle" /\ UNCHANGED tester
      /\ UNCHANGED <<heard, given, clean, repeated>>
  BY DEF EcuGivesUp
<1>2. ecu.st # "idle" /\ result' = result /\ req' = req
  BY <1>1 DEF tester
<1>3. ~(clean /\ ~repeated)
  BY <1>1, <1>2, StepWhere DEF IInv, Rest
<1>4. ~(clean' /\ ~repeated')
  BY <1>1, <1>3, Zenon
<1> QED
  BY <1>4, Zenon DEF InStep, Returned

\* The ends stay in step when a frame is lost, as long as none is repeated.
LEMMA FaultStep == IInv /\ BusFault => InStep' /\ Returned'
<1> SUFFICES ASSUME IInv, BusFault PROVE InStep' /\ Returned'
  OBVIOUS
<1>1. /\ UNCHANGED tester /\ UNCHANGED <<ecu, heard, given, clean>>
      /\ repeated' \/ (repeated' = repeated /\ Rear(toEcu', toEcu) /\ Rear(toTester', toTester))
  BY FaultAlways DEF IInv
<1>2. UNCHANGED <<call, req, asked, pc, tx, rx, count, result>>
  BY <1>1 DEF tester
<1>3. CASE repeated'
  BY <1>3, Zenon DEF InStep, Returned
<1>4. CASE repeated' = repeated /\ Rear(toEcu', toEcu) /\ Rear(toTester', toTester)
  <2>1. Len(toEcu) \in Nat /\ Len(toTester) \in Nat
    BY QueueRead DEF IInv, Always, BusOK
  <2>2. /\ \A T : Only(toEcu, T) => Only(toEcu', T)
        /\ \A p, o : Pieces(toEcu, p, o) => Pieces(toEcu', p, o)
        /\ \A b, p, o : Behind(b, p, toEcu, o) => Behind(b, p, toEcu', o)
        /\ \A x : Asks(toEcu, x) => Asks(toEcu', x)
    BY <1>4, <2>1, RearKeeps
  <2>3. /\ \A T : Only(toTester, T) => Only(toTester', T)
        /\ \A p, o : Pieces(toTester, p, o) => Pieces(toTester', p, o)
        /\ \A b, p, o : Behind(b, p, toTester, o) => Behind(b, p, toTester', o)
        /\ \A x, G : Answers(toTester, x, G) => Answers(toTester', x, G)
        /\ \A x, G : AllWait(toTester, x, G) => AllWait(toTester', x, G)
    BY <1>4, <2>1, RearKeeps
  <2>4. Rest => Rest'
    BY <1>1, <1>2, <2>2, <2>3, Zenon DEF Rest
  <2>5. AskShort => AskShort'
    BY <1>1, <1>2, <2>2, <2>3, Zenon DEF AskShort
  <2>6. AskLong => AskLong'
    BY <1>1, <1>2, <2>2, <2>3, Zenon DEF AskLong
  <2>7. AnswerShort => AnswerShort'
    BY <1>1, <1>2, <2>2, <2>3, Zenon DEF AnswerShort
  <2>8. \A p, off : AnswerLong(p, off) => AnswerLong(p, off)'
    BY <1>1, <1>2, <2>2, <2>3, ZenonT(40) DEF AnswerLong
  <2>9. InStep'
    BY <1>1, <1>4, <2>4, <2>5, <2>6, <2>7, <2>8, Zenon DEF IInv, InStep
  <2>10. Returned'
    BY <1>1, <1>2, <1>4, Zenon DEF IInv, Returned
  <2> QED
    BY <2>9, <2>10
<1> QED
  BY <1>1, <1>3, <1>4

\* The ends stay in step when the ECU sends a flow control.
LEMMA GrantsStep == IInv /\ EcuGrants => InStep' /\ Returned'
<1> SUFFICES ASSUME IInv, EcuGrants PROVE InStep' /\ Returned'
  OBVIOUS
<1>1. /\ ecu.st = "grant" /\ UNCHANGED tester /\ UNCHANGED <<toEcu, heard, given, clean, repeated>>
      /\ \E g : g.type = "FC" /\ Longer(toTester', toTester, g)
      /\ \/ ecu'.st = "recv" /\ ecu'.bytes = ecu.bytes /\ ecu'.len = ecu.len
         \/ ecu' = ecu
         \/ ecu' = EcuIdle
  BY GrantsAlways DEF IInv
<1>2. UNCHANGED <<call, req, asked, pc, tx, rx, count, result>>
  BY <1>1 DEF tester
<1>3. Returned'
  BY <1>1, <1>2, Zenon DEF IInv, Returned
<1>4. ASSUME clean', ~repeated' PROVE AskLong'
  <2>1. AskLong
    <3>1. Rest \/ AskShort \/ AskLong \/ AnswerShort \/ \E p \in given, off \in Nat : AnswerLong(p, off)
      BY <1>1, <1>4, Zenon DEF IInv, InStep
    <3> QED
      BY <1>1, <3>1 DEF Rest, AskShort, AnswerShort, AnswerLong
  <2>2. Only(toTester', {"FC"})
    <3>1. PICK g : g.type = "FC" /\ Longer(toTester', toTester, g)
      BY <1>1
    <3> QED
      BY <2>1, <3>1, FlowSent DEF AskLong
  <2>3. ecu'.st \in {"idle", "grant", "recv"} /\ (ecu'.st # "idle" => ecu'.bytes = ecu.bytes /\ ecu'.len = ecu.len)
    BY <1>1, Starts
  <2>4. ecu'.st # "idle" => ecu'.len = req.len /\ Behind(ecu'.bytes, req, toEcu, tx.off)
    BY <1>1, <2>1, <2>3 DEF AskLong
  <2> QED
    BY <1>1, <1>2, <2>1, <2>2, <2>3, <2>4 DEF AskLong
<1> QED
  BY <1>3, <1>4, Zenon DEF InStep

\* The ends stay in step when the ECU sends a consecutive frame.
LEMMA SendsStep == IInv /\ EcuSends => InStep' /\ Returned'
<1> SUFFICES ASSUME IInv, EcuSends PROVE InStep' /\ Returned'
  OBVIOUS
<1>1. /\ ecu.st = "send" /\ UNCHANGED tester /\ UNCHANGED <<toEcu, heard, given, clean, repeated>>
      /\ ecu.pdu \in Pdus /\ ecu.off \in Nat /\ ecu.off < ecu.pdu.len
      /\ SendsOn
  BY SendsAlways DEF IInv
<1>2. UNCHANGED <<call, req, asked, pc, tx, rx, count, result>>
  BY <1>1 DEF tester
<1>3. Returned'
  BY <1>1, <1>2, Zenon DEF IInv, Returned
<1>4. ASSUME clean', ~repeated' PROVE \E p \in given', off \in Nat : AnswerLong(p, off)'
  <2>1. PICK p \in given, off \in Nat : AnswerLong(p, off)
    <3>1. Rest \/ AskShort \/ AskLong \/ AnswerShort \/ \E p \in given, off \in Nat : AnswerLong(p, off)
      BY <1>1, <1>4, Zenon DEF IInv, InStep
    <3> QED
      BY <1>1, <3>1 DEF Rest, AskShort, AskLong, AnswerShort
  <2>2. /\ ecu.pdu = p /\ ecu.off = off /\ FfCap <= off /\ Pieces(toTester, p, off) /\ AllWait(toTester, req, given)
        /\ pc = "cont" => rx.len = p.len /\ Behind(rx.bytes, p, toTester, off)
    BY <1>1, <2>1 DEF AnswerLong
  <2> DEFINE o == NextOff(p, off)
  <2>3. p \in Pdus /\ off < p.len
    BY <1>1, <2>2
  <2>4. o \in Nat /\ off < o /\ o <= p.len /\ p.len \in Nat
    BY <2>3, ChunkOf, BytesOf
  <2>5. PICK s \in Nat : Longer(toTester', toTester, Consecutive(s, Chunk(p, off)))
    BY <1>1, <2>2 DEF SendsOn
  <2>6. /\ Pieces(toTester', p, o)
        /\ \A b : Behind(b, p, toTester, off) /\ Len(b) \in Nat => Behind(b, p, toTester', o)
    BY <2>2, <2>3, <2>5, PieceSent
  <2>7. AllWait(toTester', req, given)
    <3> DEFINE f == Consecutive(s, Chunk(p, off))
    <3>1. f.type = "CF"
      BY DEF Consecutive
    <3>2. Longer(toTester', toTester, f)
      BY <2>5
    <3> HIDE DEF f
    <3>3. \A i \in 1..Len(toTester') : (i \in 1..Len(toTester) /\ toTester'[i] = toTester[i]) \/ toTester'[i] = f
      BY <3>2 DEF Longer
    <3> QED
      BY <2>2, <3>1, <3>3 DEF AllWait
  <2>8. \/ o = p.len /\ ecu' = EcuIdle
        \/ o < p.len /\ ecu'.st \in {"flow", "send"} /\ ecu'.pdu = p /\ ecu'.off = o
    BY <1>1, <2>2 DEF SendsOn
  <2>9. \/ ecu'.st \in {"flow", "send"} /\ ecu'.pdu = p /\ ecu'.off = o /\ o < p.len
        \/ ecu'.st = "idle" /\ o = p.len
    BY <2>8, Starts
  <2>10. Len(rx.bytes) \in Nat
    BY DEF IInv, Always, LocalsOK, Rxs, PduBytes
  <2> HIDE DEF o
  <2>11. FfCap <= o
    BY <2>2, <2>4, IsoTpAssumption
  <2>12. pc' = "cont" => rx'.len = p.len /\ Behind(rx'.bytes, p, toTester', o)
    BY <1>2, <2>2, <2>6, <2>10
  <2>13. AnswerLong(p, o)'
    BY <1>1, <1>2, <2>1, <2>4, <2>6, <2>7, <2>9, <2>11, <2>12 DEF AnswerLong
  <2> QED
    BY <1>1, <2>4, <2>13
<1> QED
  BY <1>3, <1>4, Zenon DEF InStep

\* The ends stay in step when the ECU answers.
LEMMA AnswersStep == IInv /\ EcuAnswers => InStep' /\ Returned'
<1> SUFFICES ASSUME IInv, EcuAnswers PROVE InStep' /\ Returned'
  OBVIOUS
<1>1. /\ ecu.st = "answer" /\ UNCHANGED tester /\ UNCHANGED <<toEcu, heard, clean, repeated>>
      /\ \E p : Answering(p)
  BY AnswersAlways DEF IInv
<1>2. UNCHANGED <<call, req, asked, pc, tx, rx, count, result>>
  BY <1>1 DEF tester
<1>3. PICK p : Answering(p)
  BY <1>1
<1>4. p \in Responses /\ p \in Pdus /\ p.to = ecu.pdu /\ p.len > 0 /\ given' = given \cup {p}
  BY <1>3 DEF Answering, Pdus
<1>5. given \subseteq given' /\ p \in given'
  BY <1>4
<1>6. Returned'
  BY <1>1, <1>2, <1>5, Zenon DEF IInv, Returned
<1>7. ASSUME clean', ~repeated'
      PROVE  AnswerShort' \/ \E x \in given', off \in Nat : AnswerLong(x, off)'
  <2>1. AnswerShort
    <3>1. Rest \/ AskShort \/ AskLong \/ AnswerShort \/ \E x \in given, off \in Nat : AnswerLong(x, off)
      BY <1>1, <1>7, Zenon DEF IInv, InStep
    <3> QED
      BY <1>1, <3>1 DEF Rest, AskShort, AskLong, AnswerLong
  <2>2. /\ pc = "pdu" /\ Only(toEcu, {"FC"}) /\ p.to = req
        /\ Answers(toTester, req, given) /\ AllWait(toTester, req, given)
    BY <1>1, <1>4, <2>1 DEF AnswerShort
  <2>3. \A i \in 1..Len(toTester) :
            toTester[i].type = "FC" \/ (toTester[i].type = "SF" /\ Responds(toTester[i], req, given') /\ Waits(toTester[i]))
    <3> SUFFICES ASSUME NEW i \in 1..Len(toTester), toTester[i].type # "FC"
                 PROVE  toTester[i].type = "SF" /\ Responds(toTester[i], req, given') /\ Waits(toTester[i])
      OBVIOUS
    <3>1. Responds(toTester[i], req, given)
      BY <2>2 DEF Answers
    <3>2. toTester[i].type = "SF"
      BY <3>1, RespondsFacts
    <3>3. Waits(toTester[i])
      BY <2>2, <3>2 DEF AllWait
    <3>4. Responds(toTester[i], req, given')
      BY <1>5, <3>1 DEF Responds
    <3> QED
      BY <3>2, <3>3, <3>4
  <2>4. CASE /\ p.len <= SfCap /\ Longer(toTester', toTester, Single(Bytes(p)))
             /\ ecu' = IF p.kind = "pending" THEN ecu ELSE EcuIdle
    <3> DEFINE f == Single(Bytes(p))
    <3>1. f.type = "SF" /\ Meaning(f.data) = p
      BY <1>4, PduFrames
    <3>2. Responds(f, req, given')
      BY <1>4, <1>5, <2>2, <3>1 DEF Responds, SingleOf
    <3>3. Longer(toTester', toTester, f)
      BY <2>4
    <3>4. Waits(f) <=> p.kind = "pending"
      BY <3>1 DEF Waits
    <3> HIDE DEF f
    <3>5. Len(toTester) \in Nat
          /\ \A i \in 1..Len(toTester') : \/ i \in 1..Len(toTester) /\ toTester'[i] = toTester[i]
                                          \/ i = Len(toTester) + 1 /\ toTester'[i] = f
      BY <3>3 DEF Longer
    <3>6. \A i \in 1..Len(toTester') : toTester'[i].type = "FC" \/ Responds(toTester'[i], req, given')
      BY <2>3, <3>2, <3>5
    <3>7. ASSUME NEW i \in 1..Len(toTester'), NEW j \in 1..Len(toTester'), i < j,
                 toTester'[i].type = "SF", ~Waits(toTester'[i])
          PROVE  FALSE
      <4>1. i = Len(toTester) + 1
        BY <2>3, <3>5, <3>7
      <4>2. j <= Len(toTester) + 1
        BY <3>5
      <4> QED
        BY <3>5, <3>7, <4>1, <4>2
    <3>8. Answers(toTester', req, given')
      BY <3>6, <3>7, Zenon DEF Answers
    <3>9. CASE p.kind = "pending"
      <4>1. AllWait(toTester', req, given')
        BY <2>3, <3>2, <3>4, <3>5, <3>9 DEF AllWait
      <4>2. ecu' = ecu
        BY <2>4, <3>9
      <4> QED
        BY <1>1, <1>2, <2>1, <2>2, <3>8, <4>1, <4>2 DEF AnswerShort
    <3>10. CASE p.kind # "pending"
      <4>1. ecu'.st = "idle"
        BY <2>4, <3>10, Starts
      <4> QED
        BY <1>1, <1>2, <2>2, <3>8, <4>1 DEF AnswerShort
    <3> QED
      BY <3>9, <3>10
  <2>5. CASE /\ p.len > SfCap /\ Longer(toTester', toTester, First(p.len, SubSeq(Bytes(p), 1, FfCap)))
             /\ ecu'.st = "flow" /\ ecu'.pdu = p /\ ecu'.off = FfCap
    <3> DEFINE f == First(p.len, SubSeq(Bytes(p), 1, FfCap))
    <3>1. FirstOf(f, p)
      BY DEF FirstOf
    <3>2. Longer(toTester', toTester, f)
      BY <2>5
    <3> HIDE DEF f
    <3>3. \A i \in 1..Len(toTester) : toTester[i].type \notin {"FF", "CF"}
      BY <2>3
    <3>4. Pieces(toTester', p, FfCap) /\ f.type = "FF"
      BY <3>1, <3>2, <3>3, FirstSent
    <3>5. \A i \in 1..Len(toTester') : (i \in 1..Len(toTester) /\ toTester'[i] = toTester[i]) \/ toTester'[i] = f
      BY <3>2 DEF Longer
    <3>6. AllWait(toTester', req, given')
      BY <2>3, <3>4, <3>5 DEF AllWait
    <3>7. FfCap < p.len /\ FfCap \in Nat /\ p.len \in Nat
      BY <1>4, <2>5, PduFrames, BytesOf, IsoTpAssumption
    <3>8. FfCap <= FfCap /\ FfCap <= p.len
      BY <3>7
    <3>9. AnswerLong(p, FfCap)'
      BY <1>1, <1>2, <1>5, <2>2, <2>5, <3>4, <3>6, <3>7, <3>8 DEF AnswerLong
    <3> QED
      BY <1>5, <3>7, <3>9
  <2> QED
    BY <1>3, <2>4, <2>5 DEF Answering
<1> QED
  BY <1>6, <1>7, Zenon DEF InStep

\* The ends stay in step when the ECU reads a frame.
LEMMA EcuReadsStep == IInv /\ EcuReads => InStep' /\ Returned'
<1> SUFFICES ASSUME IInv, EcuReads PROVE InStep' /\ Returned'
  OBVIOUS
<1> DEFINE f == toEcu[1]
<1>1. /\ toEcu # <<>> /\ FrameFacts(f, {BlockSize})
      /\ Rear(toEcu', toEcu) /\ After(toEcu', toEcu)
  BY EcuReadsFrame DEF IInv, Always
<1>2. /\ UNCHANGED tester /\ UNCHANGED <<toTester, given, clean, repeated>>
      /\ ecu.st \notin {"answer", "send"}
      /\ \/ f.type = "SF" /\ Takes(f.data)
         \/ EcuBegins(f) \/ EcuGoesOn(f) \/ EcuCompletes(f) \/ EcuIgnores(f) \/ EcuGoesAhead(f)
  BY EcuCases DEF IInv, Always
<1>3. UNCHANGED <<call, req, asked, pc, tx, rx, count, result>>
  BY <1>2 DEF tester
<1>4. Returned'
  BY <1>2, <1>3, Zenon DEF IInv, Returned
<1>5. toEcu \in Seq(Frames({BlockSize})) /\ Len(toEcu) \in Nat /\ 1 \in 1..Len(toEcu)
  BY <1>1 DEF IInv, Always, BusOK, QueueOK
<1>6. /\ \A T : Only(toEcu, T) => Only(toEcu', T)
      /\ \A p, o : Pieces(toEcu, p, o) => Pieces(toEcu', p, o)
      /\ \A b, p, o : Behind(b, p, toEcu, o) => Behind(b, p, toEcu', o)
      /\ \A x : Asks(toEcu, x) => Asks(toEcu', x)
  BY <1>1, <1>5, RearKeeps
<1>7. \A T : Only(toEcu, T) => f.type \in T
  BY <1>5 DEF Only
<1>8. AskShort => f.type = "FC" \/ SingleOf(f, req)
  BY <1>5 DEF AskShort, Asks
<1>9. SingleOf(f, req) => f.type = "SF" /\ f.data = Bytes(req)
  <2> DEFINE b == Bytes(req)
  <2> HIDE DEF b
  <2>1. SingleOf(f, req) => f = Single(b)
    BY DEF SingleOf, b
  <2> HIDE DEF f
  <2>2. f = Single(b) => f.type = "SF" /\ f.data = b
    BY DEF Single
  <2> QED
    BY <2>1, <2>2 DEF b
<1>10. \A j \in 1..Len(toEcu') : 1 + j \in 1..Len(toEcu) /\ 1 < 1 + j /\ toEcu'[j] = toEcu[1 + j]
  BY <1>1 DEF After
<1>11. ecu \in Ecus /\ (pc # "idle" => req \in asked /\ asked \subseteq Requests /\ req.len > 0)
       /\ (pc \in {"flow", "send"} => tx.off < req.len) /\ tx.off \in Nat
  BY DEF IInv, Always, EcuOK, ExchangeOK, CallOK, LocalsOK, Txs
<1> HIDE DEF f
<1>12. ASSUME clean', ~repeated'
       PROVE  Rest' \/ AskShort' \/ AskLong' \/ AnswerShort' \/ \E p \in given', off \in Nat : AnswerLong(p, off)'
  <2>1. Rest \/ AskShort \/ AskLong \/ AnswerShort \/ \E p \in given, off \in Nat : AnswerLong(p, off)
    BY <1>2, <1>12, Zenon DEF IInv, InStep
  <2>2. f.type # "FC" => AskShort \/ AskLong
    BY <1>7, <2>1 DEF Rest, AnswerShort, AnswerLong
  <2>3. f.type \in {"FF", "CF"} => AskLong
    BY <1>8, <1>9, <2>2
  <2>4. AskLong => f.type # "SF"
    BY <1>7 DEF AskLong
  <2>5. CASE f.type = "SF" /\ Takes(f.data)
    <3>1. AskShort
      BY <2>2, <2>4, <2>5
    <3>2. SingleOf(f, req) /\ f.data = Bytes(req)
      BY <1>8, <1>9, <2>5, <3>1
    <3>3. req \in Pdus /\ req.len > 0 /\ req \in asked
      BY <1>11, <3>1 DEF AskShort, Pdus
    <3>4. Meaning(f.data) = req /\ f.data = Bytes(Meaning(f.data))
      BY <3>2, <3>3, WholeBytes
    <3>5. RequestOf(f.data) = req
      BY <3>4 DEF RequestOf
    <3>6. ecu'.st = "answer" /\ ecu'.pdu = req
      BY <1>2, <1>3, <2>5, <3>3, <3>4, <3>5, TakesOne DEF IInv, Always
    <3>7. Only(toEcu', {"FC"})
      <4>1. \A j \in 1..Len(toEcu') : toEcu'[j].type = "FC"
        BY <1>5, <1>10, <2>5, <3>1, Zenon DEF AskShort, Asks, f
      <4> QED
        BY <4>1 DEF Only
    <3>8. \A i \in 1..Len(toTester) : toTester[i].type = "FC"
      BY <3>1 DEF AskShort, Only
    <3>9. Answers(toTester, req, given) /\ AllWait(toTester, req, given)
      BY <3>8 DEF Answers, AllWait
    <3> QED
      BY <1>2, <1>3, <3>1, <3>6, <3>7, <3>9 DEF AnswerShort, AskShort
  <2>6. CASE EcuBegins(f)
    <3>1. f.type = "FF" /\ ecu' = [EcuIdle EXCEPT !.st = "grant", !.bytes = f.data, !.len = f.len, !.seq = 1]
      BY <2>6 DEF EcuBegins
    <3>2. ecu'.st = "grant" /\ ecu'.bytes = f.data /\ ecu'.len = f.len
      BY <3>1, Starts DEF Ecus
    <3>3. AskLong
      BY <2>3, <3>1
    <3>4. req \in Pdus /\ FfCap <= tx.off /\ tx.off <= req.len /\ Pieces(toEcu, req, tx.off)
      BY <1>11, <3>3 DEF AskLong, Pdus
    <3>5. f.len = req.len /\ Behind(f.data, req, toEcu', tx.off)
      BY <1>1, <1>5, <1>11, <3>1, <3>4, FirstTaken DEF f
    <3> QED
      BY <1>2, <1>3, <1>6, <3>2, <3>3, <3>5 DEF AskLong
  <2>7. ASSUME f.type = "CF", ecu.st = "recv"
        PROVE  /\ AskLong /\ req \in Pdus /\ ecu.len = req.len
               /\ Taken(ecu.bytes, f.data, req, toEcu', tx.off)
    <3>1. AskLong
      BY <2>3, <2>7
    <3>2. /\ req \in Pdus /\ ecu.len = req.len /\ tx.off <= req.len /\ Pieces(toEcu, req, tx.off)
          /\ Behind(ecu.bytes, req, toEcu, tx.off)
      BY <1>11, <2>7, <3>1 DEF AskLong, Pdus
    <3>3. ecu.bytes \in PduBytes /\ ecu.bytes # <<>>
      BY <1>11, <2>7 DEF IInv, Always, EcuOK, Ecus
    <3>4. Taken(ecu.bytes, f.data, req, toEcu', tx.off)
      BY <1>1, <1>5, <1>11, <2>7, <3>2, <3>3, PieceTaken DEF f
    <3> QED
      BY <3>1, <3>2, <3>4
  <2>8. CASE EcuGoesOn(f)
    <3> DEFINE b == ecu.bytes \o f.data
    <3>1. f.type = "CF" /\ ecu.st = "recv"
      BY <2>8 DEF EcuGoesOn
    <3>2. PICK st \in {"grant", "recv"} :
              ecu' = [ecu EXCEPT !.bytes = b, !.seq = NextSeq(@), !.block = @ + 1, !.st = st]
      BY <2>8 DEF EcuGoesOn
    <3>3. AskLong /\ ecu.len = req.len /\ Behind(b, req, toEcu', tx.off)
      BY <2>7, <3>1 DEF Taken
    <3> HIDE DEF b
    <3>4. ecu'.bytes = b /\ ecu'.st = st /\ ecu'.len = ecu.len
      BY <1>11, <3>2 DEF Ecus
    <3> QED
      BY <1>2, <1>3, <1>6, <3>3, <3>4 DEF AskLong
  <2>9. CASE EcuCompletes(f)
    <3> DEFINE b == ecu.bytes \o f.data
    <3>1. f.type = "CF" /\ ecu.st = "recv" /\ Len(b) >= ecu.len /\ Takes(b)
      BY <2>9 DEF EcuCompletes
    <3>2. AskLong /\ req \in Pdus /\ ecu.len = req.len /\ Taken(ecu.bytes, f.data, req, toEcu', tx.off)
      BY <2>7, <3>1
    <3>3. b = Bytes(req) /\ tx.off = req.len /\ Only(toEcu', {"FC"})
      BY <3>1, <3>2 DEF Taken
    <3> HIDE DEF b
    <3>4. pc # "idle" /\ pc \in {"flow", "send", "pdu"}
      BY <3>2 DEF AskLong
    <3>5. req \in asked /\ req.len > 0 /\ req.len \in Nat
      BY <1>11, <3>2, <3>4, BytesOf
    <3>6. pc = "pdu"
      BY <1>11, <3>3, <3>4, <3>5
    <3>7. Meaning(b) = req /\ b = Bytes(Meaning(b))
      BY <3>2, <3>3, <3>5, WholeBytes
    <3>8. RequestOf(b) = req
      BY <3>7 DEF RequestOf
    <3>9. ecu'.st = "answer" /\ ecu'.pdu = req
      BY <1>2, <1>3, <3>1, <3>5, <3>7, <3>8, TakesOne DEF IInv, Always
    <3>10. \A i \in 1..Len(toTester) : toTester[i].type = "FC"
      BY <3>2 DEF AskLong, Only
    <3>11. Answers(toTester, req, given) /\ AllWait(toTester, req, given)
      BY <3>10 DEF Answers, AllWait
    <3> QED
      BY <1>2, <1>3, <3>3, <3>6, <3>9, <3>11 DEF AnswerShort
  <2>10. CASE EcuIgnores(f)
    <3>1. ecu' = ecu \/ (f.type = "CF" /\ ecu' = EcuIdle)
      BY <2>10 DEF EcuIgnores
    <3>2. CASE ecu' = ecu
      <4>1. Rest => Rest'
        BY <1>2, <1>3, <1>6, <3>2, Zenon DEF Rest
      <4>2. AskShort => AskShort'
        BY <1>2, <1>3, <1>6, <3>2, Zenon DEF AskShort
      <4>3. AskLong => AskLong'
        BY <1>2, <1>3, <1>6, <3>2, Zenon DEF AskLong
      <4>4. AnswerShort => AnswerShort'
        BY <1>2, <1>3, <1>6, <3>2, Zenon DEF AnswerShort
      <4>5. \A p, off : AnswerLong(p, off) => AnswerLong(p, off)'
        BY <1>2, <1>3, <1>6, <3>2, ZenonT(40) DEF AnswerLong
      <4> QED
        BY <1>2, <2>1, <4>1, <4>2, <4>3, <4>4, <4>5
    <3>3. CASE f.type = "CF" /\ ecu' = EcuIdle
      <4>1. AskLong /\ ecu'.st = "idle"
        BY <2>3, <3>3, Starts
      <4> QED
        BY <1>2, <1>3, <1>6, <4>1 DEF AskLong
    <3> QED
      BY <3>1, <3>2, <3>3
  <2>11. CASE EcuGoesAhead(f)
    <3>1. ecu.st = "flow" /\ ecu' = [ecu EXCEPT !.st = "send", !.block = 0, !.bs = f.bs]
      BY <2>11 DEF EcuGoesAhead
    <3>2. ecu'.st = "send" /\ ecu'.pdu = ecu.pdu /\ ecu'.off = ecu.off
      BY <1>11, <3>1 DEF Ecus
    <3>3. PICK p \in given, off \in Nat : AnswerLong(p, off)
      BY <2>1, <3>1 DEF Rest, AskShort, AskLong, AnswerShort
    <3>4. AnswerLong(p, off)'
      BY <1>2, <1>3, <1>6, <3>1, <3>2, <3>3 DEF AnswerLong
    <3> QED
      BY <1>2, <3>4
  <2> QED
    BY <1>2, <2>5, <2>6, <2>8, <2>9, <2>10, <2>11
<1> QED
  BY <1>4, <1>12, Zenon DEF InStep

\* The invariant holds at first.
LEMMA InvInit == Init => IInv
BY InitAlways, InitStep DEF IInv

\* Every step keeps the invariant.
LEMMA InvStep == IInv /\ [Next]_vars => IInv'
<1> SUFFICES ASSUME IInv, [Next]_vars PROVE IInv'
  OBVIOUS
<1>1. Always'
  BY StepAlways DEF IInv
<1>2. InStep' /\ Returned'
  BY StutterStep, ExchangeStep, WaitStep, SendStep, PduStep, ConsecutiveStep, NoiseStep,
     EcuReadsStep, GrantsStep, AnswersStep, SendsStep, GivesUpStep, FaultStep, Zenon
     DEF Next, TesterStep, EcuStep
<1> QED
  BY <1>1, <1>2 DEF IInv

\* The frames on their way are parts of what was sent, and as long as the ends are in
\* step neither has more than the other has sent it (exchange, recv_pdu and the ECU).
THEOREM Invariance == Spec => []IInv
BY InvInit, InvStep, PTL DEF Spec

\* However many frames are lost, and whatever the ECU does, a response returned before
\* the first failed exchange is whole (WholeResponse) as long as none is repeated: a
\* receiver that missed a frame never gets to the announced length.
THEOREM WholeUnlessRepeated == Spec => [](~repeated => WholeResponse)
<1>1. IInv => (~repeated => WholeResponse)
  <2> SUFFICES ASSUME IInv, ~repeated, clean, result.status = "ok"
               PROVE  result.bytes = Bytes(Meaning(result.bytes))
    BY Zenon DEF WholeResponse
  <2>1. PICK p \in given : p.to = req /\ result.bytes = Bytes(p)
    BY Zenon DEF IInv, Returned
  <2>2. p \in Pdus /\ p.len > 0
    BY IsoTpAssumption DEF IInv, Always, CallOK, Responses, Pdus
  <2>3. Meaning(Bytes(p)) = p
    BY <2>2, WholeBytes
  <2> QED
    BY <2>1, <2>3
<1> QED
  BY <1>1, Invariance, PTL

(***************************************************************************)
(* The abstract exchange                                                   *)
(***************************************************************************)

\* The transport starts as the abstract exchange does.
LEMMA ExchangeInit == Init => Exchange!Init
<1> SUFFICES ASSUME Init PROVE Exchange!Init
  OBVIOUS
<1>1. result.status = "idle"
  BY Starts DEF Init
<1>2. (clean /\ ~repeated) = TRUE
  BY Zenon DEF Init
<1> QED
  BY <1>1, <1>2 DEF Exchange!Init, Init

\* An exchange that fails is an abstract failure.
LEMMA AbsFail ==
    ASSUME IInv, FailsNow, pc # "idle", UNCHANGED <<call, req, asked, heard, given>>
    PROVE  Exchange!Fail
<1>1. result.status = "pending"
  BY DEF IInv, Always, LocalsOK
<1>2. result'.status \in {"broken", "limit", "refused"}
  BY FailedLocals DEF FailsNow
<1>3. (clean' /\ ~repeated') = FALSE
  BY FailedLocals, Zenon DEF FailsNow
<1> QED
  BY <1>1, <1>2, <1>3 DEF Exchange!Fail

\* What Return asks of the response.
Fitting(b) ==
    /\ b \in PduBytes /\ Meaning(b) \in given
    /\ clean /\ ~repeated => b = Bytes(Meaning(b)) /\ Meaning(b).to = req

\* An exchange that returns a fitting response is an abstract return.
LEMMA AbsReturn ==
    ASSUME IInv, NEW b, Fitting(b), Returns(b), pc # "idle", UNCHANGED <<call, req, asked, heard, given, repeated>>
    PROVE  Exchange!Return
<1> DEFINE q == ResponseOf(b)
           m == Meaning(b)
<1>1. result.status = "pending" /\ call # 0
  BY DEF IInv, Always, LocalsOK, ExchangeOK
<1>2. result'.status = "ok" /\ result'.bytes = b
  BY Starts DEF Returns, Fitting
<1>3. m \in Responses
  BY DEF Fitting, IInv, Always, CallOK
<1>4. q \in given \cup MixedResponses /\ q.kind = m.kind /\ q.to = m.to
  <2>1. CASE b = Bytes(m)
    BY <2>1 DEF ResponseOf, Fitting
  <2>2. CASE b # Bytes(m)
    <3>1. q = [m EXCEPT !.len = 0]
      BY <2>2 DEF ResponseOf
    <3> QED
      BY <1>3, <3>1 DEF MixedResponses, Responses
  <2> QED
    BY <2>1, <2>2
<1>5. clean /\ ~repeated => q \in given /\ q.to = req
  BY DEF ResponseOf, Fitting
<1>6. Accepts(q, req)
  BY <1>4 DEF Accepts, Returns, strip_response_for_request
<1> HIDE DEF q, m
<1>7. (clean' /\ ~repeated') \in {clean /\ ~repeated, FALSE}
  <2>1. clean \in BOOLEAN /\ repeated \in BOOLEAN /\ repeated' = repeated
    BY Zenon DEF IInv, Always, LocalsOK, CallOK
  <2>2. (clean' = clean) \/ (clean' = FALSE)
    <3>1. clean' = (clean /\ Meaning(b).kind # "pending")
      BY DEF Returns
    <3> QED
      BY <2>1, <3>1, Zenon
  <2>3. CASE clean' = clean
    <3>1. CASE clean /\ ~repeated
      <4>1. (clean /\ ~repeated) = TRUE /\ (clean' /\ ~repeated') = TRUE
        BY <2>1, <2>3, <3>1, Zenon
      <4> QED
        BY <4>1
    <3>2. CASE ~(clean /\ ~repeated)
      <4>1. clean' /\ ~repeated' => clean /\ ~repeated
        BY ONLY <2>3, UNCHANGED repeated, Zenon
      <4>2. (clean' /\ ~repeated') = FALSE
        BY <3>2, <4>1, Zenon
      <4> QED
        BY <4>2
    <3> QED
      BY <3>1, <3>2, Zenon
  <2>4. CASE clean' = FALSE
    <3>1. (clean' /\ ~repeated') = FALSE
      BY <2>4, Zenon
    <3> QED
      BY <3>1
  <2> QED
    BY <2>2, <2>3, <2>4, Zenon
<1>8. \E p \in (IF clean /\ ~repeated THEN given ELSE given \cup MixedResponses), r \in {req} :
        /\ Accepts(p, r)
        /\ clean /\ ~repeated => Answered(p) = r
        /\ {q} = {p}
  BY <1>4, <1>5, <1>6, Zenon DEF Answered
<1>9. call' = call /\ req' = req /\ asked' = asked /\ heard' = heard /\ given' = given
  OBVIOUS
<1> QED
  BY <1>1, <1>2, <1>7, <1>8, <1>9 DEF Exchange!Return, q

\* The ends stay in step, or out of it, as long as nothing changes that.
LEMMA SameStep ==
    ASSUME UNCHANGED <<clean, repeated>>
    PROVE  (clean' /\ ~repeated') = (clean /\ ~repeated)
<1>1. CASE clean /\ ~repeated
  <2>1. (clean /\ ~repeated) = TRUE
    BY <1>1, Zenon
  <2>2. (clean' /\ ~repeated') = TRUE
    BY <1>1, Zenon
  <2> QED
    BY <2>1, <2>2
<1>2. CASE ~(clean /\ ~repeated)
  <2>1. clean' /\ ~repeated' => clean /\ ~repeated
    BY ONLY UNCHANGED clean, UNCHANGED repeated, Zenon
  <2>2. (clean /\ ~repeated) = FALSE
    BY <1>2, Zenon
  <2>3. (clean' /\ ~repeated') = FALSE
    BY <1>2, <2>1, Zenon
  <2> QED
    BY <2>2, <2>3
<1> QED
  BY <1>1, <1>2, Zenon

\* Steps the abstract exchange does not see.
LEMMA AbsStutter ==
    ASSUME UNCHANGED <<call, req, asked, result, heard, given, clean, repeated>>
    PROVE  UNCHANGED Exchange!vars
<1>1. (clean' /\ ~repeated') = (clean /\ ~repeated)
  BY SameStep
<1>2. call' = call /\ req' = req /\ asked' = asked /\ result' = result /\ heard' = heard /\ given' = given
  OBVIOUS
<1> QED
  BY <1>1, <1>2 DEF Exchange!vars

\* exchange is Ask, or Refuse when the request has no acceptable length.
LEMMA AbsExchange ==
    ASSUME IInv, NEW r \in Requests, exchange(r)
    PROVE  Exchange!Next
<1>1. /\ pc = "idle" /\ req' = r /\ call' = call + 1 /\ heard' = heard /\ given' = given
      /\ UNCHANGED <<clean, repeated>>
      /\ \/ asked' = asked /\ result'.status = "refused"
         \/ asked' = asked \cup {r} /\ result'.status = "pending"
  BY ExchangeAlways DEF IInv, Refuses, Asking
<1>2. call' # 0
  BY <1>1 DEF IInv, Always, CallOK
<1>3. result.status # "pending"
  BY <1>1 DEF IInv, Always, LocalsOK
<1>4. (clean' /\ ~repeated') = (clean /\ ~repeated)
  BY <1>1, SameStep
<1>5. CASE result'.status = "refused" /\ asked' = asked
  BY <1>1, <1>2, <1>3, <1>4, <1>5 DEF Exchange!Next, Exchange!Refuse
<1>6. CASE result'.status = "pending" /\ asked' = asked \cup {r}
  BY <1>1, <1>2, <1>3, <1>4, <1>6 DEF Exchange!Next, Exchange!Ask
<1> QED
  BY <1>1, <1>5, <1>6

\* A step of the transport implements [Next]_vars of the abstract exchange.
Implements == Exchange!Next \/ UNCHANGED Exchange!vars

\* What the steps that wait, send or meet frames of others do: nothing, or Fail.
LEMMA AbsWaits ==
    ASSUME IInv, pc # "idle", UNCHANGED <<call, req, asked, heard, given, repeated>>,
           FailsNow \/ UNCHANGED <<result, clean>>
    PROVE  Implements
<1>1. CASE FailsNow
  <2>1. Exchange!Fail
    BY <1>1, AbsFail
  <2> QED
    BY <2>1 DEF Implements, Exchange!Next
<1>2. CASE UNCHANGED <<result, clean>>
  <2>1. UNCHANGED Exchange!vars
    BY <1>2, AbsStutter
  <2> QED
    BY <2>1 DEF Implements
<1> QED
  BY <1>1, <1>2

\* A reassembled PDU is waited through, fails the exchange or is returned.
LEMMA AbsReceived ==
    ASSUME IInv, pc # "idle", NEW b, Fitting(b), Received(b),
           UNCHANGED <<call, req, asked, heard, given, repeated>>
    PROVE  Implements
<1>1. WaitsOn(b) \/ Returns(b) \/ FailsNow
  BY ReceivedLocals DEF IInv, Always, Fitting
<1>2. CASE WaitsOn(b)
  <2>1. UNCHANGED <<result, clean>>
    BY <1>2 DEF WaitsOn
  <2> QED
    BY <2>1, AbsWaits
<1>3. CASE Returns(b)
  <2>1. Exchange!Return
    BY <1>3, AbsReturn
  <2> QED
    BY <2>1 DEF Implements, Exchange!Next
<1>4. CASE FailsNow
  BY <1>4, AbsWaits
<1> QED
  BY <1>1, <1>2, <1>3, <1>4

\* In step, what recv_pdu gets in one frame is the response to this request, and whole.
LEMMA OneFrameFits ==
    ASSUME IInv, recv_pdu, OneFrame(toTester[1])
    PROVE  Fitting(toTester[1].data)
<1> DEFINE f == toTester[1]
<1>1. pc = "pdu" /\ recv_frame
  BY DEF recv_pdu
<1>2. toTester # <<>> /\ FrameFacts(f, EcuBlocks \cup {0}) /\ f.type = "SF" /\ Meaning(f.data) \in given
  BY <1>1, TesterReads DEF IInv, Always, OneFrame
<1>3. toTester \in Seq(Frames(EcuBlocks \cup {0})) /\ 1 \in 1..Len(toTester)
  BY <1>2 DEF IInv, Always, BusOK, QueueOK
<1>4. f.data \in PduBytes
  BY <1>2 DEF FrameFacts
<1>5. ~AskShort /\ ~AskLong
  BY <1>2, <1>3 DEF AskShort, AskLong, Only
<1>6. AnswerShort => Responds(f, req, given)
  BY <1>2, <1>3 DEF AnswerShort, Answers
<1>7. \A p \in given, off \in Nat : AnswerLong(p, off) => Responds(f, req, given)
  BY <1>2, <1>3 DEF AnswerLong, AllWait
<1>8. ASSUME clean, ~repeated PROVE Responds(f, req, given)
  <2>1. AnswerShort \/ \E p \in given, off \in Nat : AnswerLong(p, off)
    BY <1>1, <1>5, <1>8, StepWhere DEF IInv
  <2> QED
    BY <1>6, <1>7, <2>1
<1> HIDE DEF f
<1>9. ASSUME clean, ~repeated PROVE f.data = Bytes(Meaning(f.data)) /\ Meaning(f.data).to = req
  BY <1>8, <1>9, RespondsFacts
<1>10. Fitting(f.data)
  BY <1>2, <1>4, <1>9, Zenon DEF Fitting
<1> QED
  BY <1>10 DEF f

\* So is what recv_consecutive completes.
LEMMA CompletedFits ==
    ASSUME IInv, recv_consecutive, Completes(toTester[1])
    PROVE  Fitting(Grown(toTester[1]))
<1> DEFINE f == toTester[1]
           b == Grown(f)
<1>1. pc = "cont" /\ recv_frame
  BY DEF recv_consecutive
<1>2. Continues(f) /\ ~(Len(b) < rx.len)
  BY DEF Completes
<1>3. f.type = "CF" /\ f.data \in PduBytes
  <2>1. FrameFacts(f, EcuBlocks \cup {0})
    BY <1>1, TesterReads DEF IInv, Always
  <2> QED
    BY <1>2, <2>1 DEF Continues, FrameFacts
<1>4. /\ rx.bytes # <<>> /\ Meaning(rx.bytes) \in given /\ rx.len \in Nat
  <2>1. MaxPayload \in Nat
    BY IsoTpAssumption
  <2> QED
    BY <1>1, <2>1 DEF IInv, Always, ExchangeOK, LocalsOK, Rxs
<1>5. b \in PduBytes /\ Meaning(b) \in given /\ Len(b) \in Nat
  BY <1>3, <1>4, GrownBytes DEF IInv, Always
<1>6. ASSUME clean, ~repeated
      PROVE  \E p \in given, off \in Nat :
                /\ AnswerLong(p, off) /\ rx.len = p.len
                /\ Taken(rx.bytes, f.data, p, toTester', off)
                /\ b = rx.bytes \o f.data
  BY <1>2, <1>6, ContinuesPiece
<1> HIDE DEF b, f
<1>7. ASSUME clean, ~repeated PROVE b = Bytes(Meaning(b)) /\ Meaning(b).to = req
  <2>1. PICK p \in given, off \in Nat :
                /\ AnswerLong(p, off) /\ rx.len = p.len
                /\ Taken(rx.bytes, f.data, p, toTester', off)
                /\ b = rx.bytes \o f.data
    BY <1>6, <1>7
  <2>2. p \in Pdus /\ p.len > 0
    BY IsoTpAssumption DEF IInv, Always, CallOK, Responses, Pdus
  <2>3. Len(b) >= p.len
    <3> DEFINE n == rx.len
               k == Len(b)
    <3>1. ~(k < n) /\ k \in Nat /\ n \in Nat
      BY <1>2, <1>4, <1>5
    <3> HIDE DEF k, n
    <3>2. k >= n
      BY <3>1
    <3> QED
      BY <2>1, <3>2 DEF k, n
  <2>4. b = Bytes(p)
    BY <2>1, <2>3 DEF Taken
  <2>5. p.to = req
    BY <2>1 DEF AnswerLong
  <2>6. Meaning(Bytes(p)) = p
    BY <2>2, WholeBytes
  <2> QED
    BY <2>4, <2>5, <2>6
<1>8. Fitting(b)
  BY <1>5, <1>7, Zenon DEF Fitting
<1> QED
  BY <1>8 DEF b, f

\* The steps of the tester: Return, Fail, or nothing the abstract exchange sees.
LEMMA AbsTester ==
    ASSUME IInv, TesterStep
    PROVE  Implements
<1>1. CASE wait_for_continue_to_send
  <2>1. recv_frame /\ pc = "flow" /\ UNCHANGED <<call, req, asked, heard, given, repeated>>
    BY <1>1 DEF wait_for_continue_to_send
  <2>2. FailsNow \/ UNCHANGED <<result, clean>>
    BY <1>1, Zenon DEF wait_for_continue_to_send, FailsNow
  <2> QED
    BY <2>1, <2>2, AbsWaits
<1>2. CASE send_consecutive
  BY <1>2, AbsWaits DEF send_consecutive
<1>3. CASE recv_pdu
  <2> DEFINE f == toTester[1]
  <2>1. /\ pc = "pdu" /\ UNCHANGED <<call, req, asked, heard, given, repeated>>
        /\ OneFrame(f) \/ StartsPdu(f) \/ Fails
    BY <1>3, PduCases DEF IInv
  <2>2. CASE OneFrame(f)
    <3>1. Fitting(f.data) /\ Received(f.data)
      BY <1>3, <2>2, OneFrameFits DEF OneFrame
    <3> HIDE DEF f
    <3> QED
      BY <2>1, <3>1, AbsReceived
  <2>3. CASE StartsPdu(f)
    BY <2>1, <2>3, AbsWaits DEF StartsPdu
  <2>4. CASE Fails
    BY <2>1, <2>4, AbsWaits DEF Fails
  <2> QED
    BY <2>1, <2>2, <2>3, <2>4
<1>4. CASE recv_consecutive
  <2> DEFINE f == toTester[1]
             b == Grown(f)
  <2>1. /\ pc = "cont" /\ UNCHANGED <<call, req, asked, heard, given, repeated>>
        /\ GoesOn(f) \/ Completes(f) \/ Fails
    BY <1>4, ConsecutiveCases DEF IInv
  <2>2. CASE Completes(f)
    <3>1. Fitting(b) /\ Received(b)
      BY <1>4, <2>2, CompletedFits DEF Completes
    <3> HIDE DEF b
    <3> QED
      BY <2>1, <3>1, AbsReceived
  <2>3. CASE GoesOn(f)
    BY <2>1, <2>3, AbsWaits DEF GoesOn
  <2>4. CASE Fails
    BY <2>1, <2>4, AbsWaits DEF Fails
  <2> QED
    BY <2>1, <2>2, <2>3, <2>4
<1>5. CASE ReadUnrelated \/ ReadForeign \/ ReadFails
  <2>1. /\ pc # "idle" /\ UNCHANGED <<call, req, asked, heard, given, repeated>>
        /\ Skips \/ FailsNow
    BY <1>5, NoiseCases DEF IInv
  <2> QED
    BY <2>1, AbsWaits DEF Skips
<1> QED
  BY <1>1, <1>2, <1>3, <1>4, <1>5 DEF TesterStep

\* The steps that neither the tester nor what was asked, heard and given takes part in.
LEMMA AbsElsewhere ==
    ASSUME UNCHANGED tester, UNCHANGED <<heard, given, clean, repeated>>
    PROVE  Implements
<1>1. UNCHANGED <<call, req, asked, result>>
  BY DEF tester
<1>2. UNCHANGED Exchange!vars
  BY <1>1, AbsStutter
<1> QED
  BY <1>2 DEF Implements

\* The ECU takes a request: in step, one that was asked.
LEMMA AbsHear ==
    ASSUME IInv, EcuReads, NEW b, Meaning(b) \in asked, Takes(b)
    PROVE  Exchange!Hear
<1> DEFINE r == RequestOf(b)
<1>1. UNCHANGED tester /\ UNCHANGED <<toTester, given, clean, repeated>>
  BY EcuCases DEF IInv, Always
<1>2. UNCHANGED <<call, req, asked, pc, result>>
  BY <1>1 DEF tester
<1>3. ecu'.st = "answer" /\ ecu'.pdu = r /\ r \in asked \cup {GarbledRequest}
  BY <1>1, <1>2, TakesOne DEF IInv, Always
<1>4. heard' = heard \cup {r}
  BY DEF Takes
<1>5. ASSUME clean /\ ~repeated PROVE r \in asked
  <2>1. clean' /\ ~repeated'
    BY <1>1, <1>5, Zenon
  <2>2. InStep'
    BY EcuReadsStep
  <2>3. Rest' \/ AskShort' \/ AskLong' \/ AnswerShort' \/ \E p \in given', off \in Nat : AnswerLong(p, off)'
    BY <2>1, <2>2, Zenon DEF InStep
  <2>4. ~Rest' /\ ~AskShort' /\ ~AskLong' /\ \A p, off : ~AnswerLong(p, off)'
    BY <1>3 DEF Rest, AskShort, AskLong, AnswerLong
  <2>5. AnswerShort'
    BY <2>3, <2>4
  <2>6. pc = "pdu" /\ r = req
    BY <1>2, <1>3, <2>5 DEF AnswerShort
  <2> QED
    BY <2>6 DEF IInv, Always, ExchangeOK
<1> HIDE DEF r
<1>6. \E x \in (IF clean /\ ~repeated THEN asked ELSE asked \cup {GarbledRequest}) : heard' = heard \cup {x}
  BY <1>3, <1>4, <1>5
<1>7. (clean' /\ ~repeated') = (clean /\ ~repeated)
  BY <1>1, SameStep
<1>8. call' = call /\ req' = req /\ asked' = asked /\ result' = result /\ given' = given
  BY <1>1, <1>2
<1> QED
  BY <1>6, <1>7, <1>8 DEF Exchange!Hear

\* The ECU answers what it heard.
LEMMA AbsGive ==
    ASSUME IInv, EcuAnswers
    PROVE  Exchange!Give
<1>1. UNCHANGED tester /\ heard' = heard /\ UNCHANGED <<clean, repeated>> /\ ecu.st = "answer"
  BY DEF EcuAnswers
<1>2. PICK p \in Responses : p.to = ecu.pdu /\ given' = given \cup {p}
  BY DEF EcuAnswers
<1>3. p.to \in heard
  BY <1>1, <1>2 DEF IInv, Always, EcuOK
<1>4. call' = call /\ req' = req /\ asked' = asked /\ result' = result
  BY <1>1 DEF tester
<1>5. (clean' /\ ~repeated') = (clean /\ ~repeated)
  BY <1>1, SameStep
<1> QED
  BY <1>1, <1>2, <1>3, <1>4, <1>5 DEF Exchange!Give, Answered

\* A repetition puts the ends out of step; a loss is not seen.
LEMMA AbsDisturb ==
    ASSUME IInv, BusFault
    PROVE  Implements
<1>1. UNCHANGED tester /\ UNCHANGED <<heard, given, clean>>
  BY DEF BusFault
<1>2. repeated' = repeated \/ repeated' = TRUE
  BY Zenon DEF BusFault
<1>3. CASE repeated' = repeated
  BY <1>1, <1>3, AbsElsewhere
<1>4. CASE repeated' = TRUE
  <2>1. (clean' /\ ~repeated') = FALSE
    BY <1>4, Zenon
  <2>2. call' = call /\ req' = req /\ asked' = asked /\ result' = result /\ heard' = heard /\ given' = given
    BY <1>1 DEF tester
  <2>3. Exchange!Disturb
    BY <2>1, <2>2 DEF Exchange!Disturb
  <2> QED
    BY <2>3 DEF Implements, Exchange!Next
<1> QED
  BY <1>2, <1>3, <1>4, Zenon

\* Every step of the transport implements a step of the abstract exchange, or none.
LEMMA AbsStep == IInv /\ [Next]_vars => Implements
<1> SUFFICES ASSUME IInv, [Next]_vars PROVE Implements
  OBVIOUS
<1>1. ASSUME NEW r \in Requests, exchange(r) PROVE Implements
  BY <1>1, AbsExchange DEF Implements
<1>2. CASE TesterStep
  BY <1>2, AbsTester
<1>3. CASE EcuReads
  <2> DEFINE f == toEcu[1]
  <2>1. /\ UNCHANGED tester /\ UNCHANGED <<given, clean, repeated>>
        /\ ecu.st \notin {"answer", "send"}
        /\ \/ f.type = "SF" /\ Takes(f.data)
           \/ EcuBegins(f) \/ EcuGoesOn(f) \/ EcuCompletes(f) \/ EcuIgnores(f) \/ EcuGoesAhead(f)
    BY <1>3, EcuCases DEF IInv, Always
  <2>2. FrameFacts(f, {BlockSize}) /\ (f.type = "SF" => Meaning(f.data) \in asked)
    BY <1>3, EcuReadsFrame DEF IInv, Always
  <2> HIDE DEF f
  <2>3. CASE f.type = "SF" /\ Takes(f.data)
    <3>1. Exchange!Hear
      BY <1>3, <2>2, <2>3, AbsHear
    <3> QED
      BY <3>1 DEF Implements, Exchange!Next
  <2>4. CASE EcuCompletes(f)
    <3> DEFINE b == ecu.bytes \o f.data
    <3>1. ecu.bytes \in PduBytes /\ ecu.bytes # <<>> /\ Meaning(ecu.bytes) \in asked
      BY <2>4 DEF EcuCompletes, IInv, Always, EcuOK, Ecus
    <3>2. f.data \in PduBytes
      BY <2>2, <2>4 DEF EcuCompletes, FrameFacts
    <3>3. Meaning(b) = Meaning(ecu.bytes)
      BY <3>1, <3>2, BytesJoined
    <3>4. Takes(b)
      BY <2>4 DEF EcuCompletes
    <3> HIDE DEF b
    <3>5. Exchange!Hear
      BY <1>3, <3>1, <3>3, <3>4, AbsHear
    <3> QED
      BY <3>5 DEF Implements, Exchange!Next
  <2>5. CASE EcuBegins(f) \/ EcuGoesOn(f) \/ EcuIgnores(f) \/ EcuGoesAhead(f)
    <3>1. heard' = heard
      BY <2>5 DEF EcuBegins, EcuGoesOn, EcuIgnores, EcuGoesAhead
    <3> QED
      BY <2>1, <3>1, AbsElsewhere
  <2> QED
    BY <2>1, <2>3, <2>4, <2>5
<1>4. CASE EcuAnswers
  <2>1. Exchange!Give
    BY <1>4, AbsGive
  <2> QED
    BY <2>1 DEF Implements, Exchange!Next
<1>5. CASE EcuGrants \/ EcuSends \/ EcuGivesUp
  BY <1>5, AbsElsewhere DEF EcuGrants, EcuSends, EcuGivesUp
<1>6. CASE BusFault
  BY <1>6, AbsDisturb
<1>7. CASE UNCHANGED vars
  BY <1>7, AbsElsewhere DEF vars
<1> QED
  BY <1>1, <1>2, <1>3, <1>4, <1>5, <1>6, <1>7 DEF Next, EcuStep

\* The transport implements the abstract exchange (ImplementsExchange): whatever the bus
\* loses, repeats or delays and whatever the ECU does, an exchange returns the response
\* the ECU gave to its request, whole, as long as the ends are in step.
THEOREM ExchangeImplemented == Spec => ImplementsExchange
<1>1. IInv /\ [Next]_vars => [Exchange!Next]_Exchange!vars
  BY AbsStep DEF Implements
<1>2. Spec => Exchange!Spec
  BY <1>1, ExchangeInit, Invariance, PTL DEF Spec, Exchange!Spec
<1> QED
  BY <1>2 DEF ImplementsExchange

(***************************************************************************)
(* Blocks of the request                                                   *)
(***************************************************************************)

\* The places of the consecutive frames in a queue.
CFs(q) == {i \in 1..Len(q) : q[i].type = "CF"}

\* They can be counted.
LEMMA Counted ==
    ASSUME NEW q, Len(q) \in Nat
    PROVE  IsFiniteSet(CFs(q)) /\ Cardinality(CFs(q)) \in Nat
<1>1. IsFiniteSet(1..Len(q))
  BY FS_Interval
<1>2. CFs(q) \in SUBSET (1..Len(q))
  BY DEF CFs
<1> QED
  BY <1>1, <1>2, FS_Subset, FS_CardinalityType

\* A consecutive frame that is sent is one more, any other none.
LEMMA CountSent ==
    ASSUME NEW q, NEW r, NEW f, Longer(r, q, f)
    PROVE  Cardinality(CFs(r)) = IF f.type = "CF" THEN Cardinality(CFs(q)) + 1 ELSE Cardinality(CFs(q))
<1> DEFINE n == Len(q) + 1
<1>1. Len(q) \in Nat /\ IsFiniteSet(CFs(q))
  BY Counted DEF Longer
<1>2. n \notin CFs(q)
  BY <1>1 DEF CFs
<1>3. CFs(r) = IF f.type = "CF" THEN CFs(q) \cup {n} ELSE CFs(q)
  <2>1. \A i : i \in 1..Len(r) <=> i \in 1..Len(q) \/ i = n
    BY <1>1 DEF Longer
  <2>2. r[n] = f /\ \A i \in 1..Len(q) : r[i] = q[i]
    BY DEF Longer
  <2> HIDE DEF n
  <2> QED
    BY <2>1, <2>2 DEF CFs
<1> HIDE DEF n
<1> QED
  BY <1>1, <1>2, <1>3, FS_AddElement

\* Where frames at the front are gone, there are no more than before.
LEMMA CountRear ==
    ASSUME NEW q, NEW r, Rear(r, q), Len(q) \in Nat
    PROVE  Len(r) \in Nat /\ Cardinality(CFs(r)) <= Cardinality(CFs(q))
<1>1. PICK n \in 0..Len(q) : /\ Len(r) = Len(q) - n
                             /\ \A i \in 1..Len(r) : n + i \in 1..Len(q) /\ r[i] = q[n + i]
  BY DEF Rear
<1> DEFINE g == [i \in CFs(r) |-> n + i]
<1>2. Len(r) \in Nat
  BY <1>1
<1>3. \A i \in CFs(r) : n + i \in CFs(q)
  BY <1>1 DEF CFs
<1>4. \A i \in CFs(r), j \in CFs(r) : n + i = n + j => i = j
  BY <1>1, <1>2 DEF CFs
<1>5. g \in Injection(CFs(r), CFs(q))
  BY <1>3, <1>4 DEF Injection, IsInjective
<1>6. IsFiniteSet(CFs(q))
  BY Counted
<1> HIDE DEF g
<1> QED
  BY <1>2, <1>5, <1>6, FS_Injection

\* A consecutive frame that is read is one less.
LEMMA CountRead ==
    ASSUME NEW q, NEW r, After(r, q), Len(q) \in Nat, 1 \in 1..Len(q), q[1].type = "CF"
    PROVE  Cardinality(CFs(r)) < Cardinality(CFs(q))
<1> DEFINE g == [i \in CFs(r) |-> 1 + i]
<1>1. Len(r) \in Nat /\ \A i \in 1..Len(r) : 1 + i \in 1..Len(q) /\ r[i] = q[1 + i] /\ 1 + i # 1
  BY DEF After
<1>2. \A i \in CFs(r) : 1 + i \in CFs(q) \ {1}
  BY <1>1 DEF CFs
<1>3. \A i \in CFs(r), j \in CFs(r) : 1 + i = 1 + j => i = j
  BY <1>1 DEF CFs
<1>4. g \in Injection(CFs(r), CFs(q) \ {1})
  BY <1>2, <1>3 DEF Injection, IsInjective
<1>5. IsFiniteSet(CFs(q)) /\ Cardinality(CFs(q)) \in Nat /\ IsFiniteSet(CFs(r)) /\ Cardinality(CFs(r)) \in Nat
  BY <1>1, Counted
<1>6. 1 \in CFs(q)
  BY DEF CFs
<1>7. IsFiniteSet(CFs(q) \ {1}) /\ Cardinality(CFs(q) \ {1}) = Cardinality(CFs(q)) - 1
  BY <1>5, <1>6, FS_RemoveElement
<1> HIDE DEF g
<1>8. Cardinality(CFs(r)) <= Cardinality(CFs(q) \ {1})
  BY <1>4, <1>7, FS_Injection
<1> QED
  BY <1>5, <1>7, <1>8

\* There are none where there are only others.
LEMMA CountNone ==
    ASSUME NEW q, NEW T, Only(q, T), "CF" \notin T
    PROVE  Cardinality(CFs(q)) = 0
<1>1. CFs(q) = {}
  BY DEF CFs, Only
<1> QED
  BY <1>1, FS_EmptySet

\* A flow control that lets the tester go on.
GoesAhead(f) == f.type = "FC" /\ f.status = "cts"

\* None of those is on its way.
Heeded(q) == \A i \in 1..Len(q) : ~GoesAhead(q[i])

NoFlow(q) == \A i \in 1..Len(q) : q[i].type # "FC"
FlowFirst(q) == \A i, j \in 1..Len(q) : i < j /\ q[j].type = "FC" => q[i].type = "FC"
LastGo(q, bs) == \A i \in 1..Len(q) : GoesAhead(q[i]) => i = Len(q) /\ q[i].bs = bs
NoFirst(q) == \A i \in 1..Len(q) : q[i].type # "FF"

\* The ECU has asked for the next block and the tester has not seen it yet.
Announced ==
    /\ pc # "send" /\ Unread = 0 /\ ecu.block = 0
    /\ LastGo(toTester, ecu.bs)

\* The tester is sending it, or has: both count the same block, and the ECU is behind
\* by the frames on their way at most.
Within ==
    /\ Heeded(toTester)
    /\ ecu.bs # 0 => ecu.block + Unread <= ecu.bs
    /\ pc = "send" => tx.bs = ecu.bs
    /\ pc = "send" /\ tx.bs # 0 => tx.block < tx.bs /\ ecu.block + Unread <= tx.block

\* Nothing of an earlier block is left when a new request or a new block begins.
Fresh == pc # "send" /\ Unread = 0 /\ Heeded(toTester)

Blocks ==
    clean /\ ~repeated =>
        /\ pc = "idle" => NoFlow(toTester)
        /\ FlowFirst(toTester)
        /\ ~NoFirst(toEcu) => pc = "flow" /\ Fresh
        /\ ecu.st = "grant" => Fresh
        /\ ecu.st = "recv" => Announced \/ Within

\* What a queue to the tester is known to carry stays true of its rear.
LEMMA RearFlow ==
    ASSUME NEW q, NEW r, Rear(r, q), Len(q) \in Nat
    PROVE  /\ Heeded(q) => Heeded(r)
           /\ NoFlow(q) => NoFlow(r)
           /\ FlowFirst(q) => FlowFirst(r)
           /\ NoFirst(q) => NoFirst(r)
           /\ \A bs : LastGo(q, bs) => LastGo(r, bs)
<1>1. PICK n \in 0..Len(q) : /\ Len(r) = Len(q) - n
                             /\ \A i \in 1..Len(r) : n + i \in 1..Len(q) /\ r[i] = q[n + i]
  BY DEF Rear
<1>2. \A i \in 1..Len(r) : n + i \in 1..Len(q) /\ r[i] = q[n + i] /\ (n + i = Len(q) => i = Len(r))
  BY <1>1
<1>3. \A i, j \in 1..Len(r) : i < j => n + i < n + j
  BY <1>1
<1>4. Heeded(q) => Heeded(r)
  BY <1>2, Zenon DEF Heeded
<1>5. NoFlow(q) => NoFlow(r)
  BY <1>2, Zenon DEF NoFlow
<1>6. FlowFirst(q) => FlowFirst(r)
  BY <1>2, <1>3, Zenon DEF FlowFirst
<1>7. NoFirst(q) => NoFirst(r)
  BY <1>2, Zenon DEF NoFirst
<1>8. ASSUME NEW bs, LastGo(q, bs) PROVE LastGo(r, bs)
  BY <1>2, <1>8, Zenon DEF LastGo
<1> QED
  BY <1>4, <1>5, <1>6, <1>7, <1>8, Zenon

\* The numbers are numbers.
LEMMA BlockTypes ==
    ASSUME Always
    PROVE  /\ Len(toEcu) \in Nat /\ Len(toTester) \in Nat /\ Unread \in Nat /\ Unread = Cardinality(CFs(toEcu))
           /\ tx.block \in Nat /\ tx.bs \in Nat /\ ecu.block \in Nat /\ ecu.bs \in Nat
<1>1. Len(toEcu) \in Nat /\ Len(toTester) \in Nat
  BY QueueRead DEF Always, BusOK
<1>2. Unread = Cardinality(CFs(toEcu))
  BY DEF Unread, CFs
<1>3. EcuBlocks \subseteq Nat
  BY IsoTpAssumption
<1>4. Unread \in Nat
  BY <1>1, <1>2, Counted
<1>5. tx \in Txs /\ ecu \in Ecus
  BY DEF Always, LocalsOK, EcuOK
<1>6. tx.block \in Nat /\ tx.bs \in EcuBlocks \cup {0}
  BY <1>5 DEF Txs
<1>7. ecu.block \in Nat /\ ecu.bs \in Nat
  BY <1>5 DEF Ecus
<1>8. tx.bs \in Nat
  <2>1. \A b \in EcuBlocks \cup {0} : b \in Nat
    BY <1>3
  <2> QED
    BY <1>6, <2>1, Zenon
<1> QED
  BY <1>1, <1>2, <1>4, <1>6, <1>7, <1>8, Zenon

\* Steps that neither start a block nor move within one.
LEMMA BlocksKept ==
    ASSUME IInv, Always', Blocks, clean' => clean, ~repeated' => ~repeated,
           Rear(toTester', toTester), Unread' <= Unread, NoFirst(toEcu) => NoFirst(toEcu'),
           ecu' = ecu \/ ecu'.st \notin {"grant", "recv"},
           pc' = "send" => pc = "send" /\ tx' = tx,
           pc = "flow" => pc' = "flow",
           pc' = "idle" => pc = "idle" \/ NoFlow(toTester')
    PROVE  Blocks'
<1> SUFFICES ASSUME clean', ~repeated'
             PROVE  /\ pc' = "idle" => NoFlow(toTester')
                    /\ FlowFirst(toTester')
                    /\ ~NoFirst(toEcu') => pc' = "flow" /\ Fresh'
                    /\ ecu'.st = "grant" => Fresh'
                    /\ ecu'.st = "recv" => Announced' \/ Within'
  BY Zenon DEF Blocks
<1>1. /\ pc = "idle" => NoFlow(toTester)
      /\ FlowFirst(toTester)
      /\ ~NoFirst(toEcu) => pc = "flow" /\ Fresh
      /\ ecu.st = "grant" => Fresh
      /\ ecu.st = "recv" => Announced \/ Within
  BY Zenon DEF Blocks
<1>2. /\ Len(toTester) \in Nat /\ Unread \in Nat /\ Unread' \in Nat /\ ecu.block \in Nat /\ ecu.bs \in Nat
      /\ tx.block \in Nat /\ tx.bs \in Nat
  <2>1. /\ Len(toTester) \in Nat /\ Unread \in Nat /\ ecu.block \in Nat /\ ecu.bs \in Nat
        /\ tx.block \in Nat /\ tx.bs \in Nat
    BY BlockTypes DEF IInv
  <2>2. Len(toEcu') \in Nat
    BY QueueRead DEF Always, BusOK
  <2>3. Unread' = Cardinality(CFs(toEcu'))
    BY DEF Unread, CFs
  <2> QED
    BY <2>1, <2>2, <2>3, Counted
<1>3. /\ Heeded(toTester) => Heeded(toTester')
      /\ NoFlow(toTester) => NoFlow(toTester')
      /\ FlowFirst(toTester) => FlowFirst(toTester')
      /\ LastGo(toTester, ecu.bs) => LastGo(toTester', ecu.bs)
  BY <1>2, RearFlow
<1>4. Fresh => Fresh'
  <2>1. Unread = 0 => Unread' = 0
    BY <1>2
  <2> QED
    BY <1>3, <2>1, Zenon DEF Fresh
<1>5. ASSUME ecu' = ecu, Announced PROVE Announced'
  <2>1. Unread' = 0 /\ pc' # "send" /\ ecu'.block = 0
    BY <1>2, <1>5 DEF Announced
  <2>2. LastGo(toTester', ecu'.bs)
    BY <1>3, <1>5, Zenon DEF Announced
  <2> QED
    BY <2>1, <2>2, Zenon DEF Announced
<1>6. ASSUME ecu' = ecu, Within PROVE Within'
  <2>1. Heeded(toTester')
    BY <1>3, <1>6, Zenon DEF Within
  <2>2. /\ ecu.bs # 0 => ecu.block + Unread' <= ecu.bs
        /\ pc = "send" => tx.bs = ecu.bs
        /\ pc = "send" /\ tx.bs # 0 => tx.block < tx.bs /\ ecu.block + Unread' <= tx.block
    BY <1>2, <1>6 DEF Within
  <2> QED
    BY <1>6, <2>1, <2>2, Zenon DEF Within
<1> QED
  BY <1>1, <1>3, <1>4, <1>5, <1>6, Zenon

\* A queue that is left alone, or in which a flow control is sent, has no more
\* consecutive frames and no new first frame.
LEMMA Lighter ==
    ASSUME IInv, toEcu' = toEcu \/ Rear(toEcu', toEcu) \/ (\E g : g.type = "FC" /\ Longer(toEcu', toEcu, g))
    PROVE  Unread' <= Unread /\ (NoFirst(toEcu) => NoFirst(toEcu'))
<1>1. Unread = Cardinality(CFs(toEcu)) /\ Unread' = Cardinality(CFs(toEcu')) /\ Unread \in Nat /\ Len(toEcu) \in Nat
  BY BlockTypes DEF IInv, Unread, CFs
<1>2. CASE toEcu' = toEcu
  BY <1>1, <1>2
<1>3. CASE Rear(toEcu', toEcu)
  BY <1>1, <1>3, CountRear, RearFlow
<1>4. ASSUME NEW g, g.type = "FC", Longer(toEcu', toEcu, g) PROVE Unread' <= Unread /\ (NoFirst(toEcu) => NoFirst(toEcu'))
  <2>1. Cardinality(CFs(toEcu')) = Cardinality(CFs(toEcu))
    BY <1>4, CountSent
  <2>2. \A i \in 1..Len(toEcu') : (i \in 1..Len(toEcu) /\ toEcu'[i] = toEcu[i]) \/ toEcu'[i] = g
    BY <1>4 DEF Longer
  <2>3. NoFirst(toEcu) => NoFirst(toEcu')
    BY <1>4, <2>2 DEF NoFirst
  <2> QED
    BY <1>1, <2>1, <2>3
<1> QED
  BY <1>2, <1>3, <1>4

\* The conditions on blocks hold at first.
LEMMA BlocksInit == Init => Blocks
<1> SUFFICES ASSUME Init PROVE Blocks
  OBVIOUS
<1>1. pc = "idle" /\ toEcu = <<>> /\ toTester = <<>> /\ ecu.st = "idle"
  BY Starts DEF Init
<1>2. 1..Len(<<>>) = {}
  OBVIOUS
<1>3. NoFlow(toTester) /\ FlowFirst(toTester) /\ NoFirst(toEcu)
  BY <1>1, <1>2, Zenon DEF NoFlow, FlowFirst, NoFirst
<1> QED
  BY <1>1, <1>3 DEF Blocks

\* A failure ends what is claimed.
LEMMA BlocksFail == FailsNow => Blocks'
<1>1. FailsNow => clean' = FALSE
  BY DEF FailsNow, Failed
<1> QED
  BY <1>1, Zenon DEF Blocks

\* A queue is its own rear.
LEMMA RearSame ==
    ASSUME Always
    PROVE  Rear(toEcu, toEcu) /\ Rear(toTester, toTester)
BY QueueRead, Shorter DEF Always, BusOK

\* Blocks is kept by frames of others, and by nothing.
LEMMA NoiseBlocks ==
    ASSUME IInv, Always', Blocks, ReadUnrelated \/ ReadForeign \/ ReadFails \/ UNCHANGED vars
    PROVE  Blocks'
<1>1. CASE FailsNow
  BY <1>1, BlocksFail
<1>2. CASE UNCHANGED <<pc, tx, clean, repeated, toEcu, toTester, ecu>>
  <2>1. Rear(toTester', toTester) /\ Unread' <= Unread /\ (NoFirst(toEcu) => NoFirst(toEcu'))
    BY <1>2, RearSame, Lighter DEF IInv
  <2> QED
    BY <1>2, <2>1, BlocksKept
<1>3. FailsNow \/ UNCHANGED <<pc, tx, clean, repeated, toEcu, toTester, ecu>>
  <2>1. CASE ReadUnrelated \/ ReadForeign \/ ReadFails
    BY <2>1, NoiseCases, Zenon DEF IInv, Skips
  <2>2. CASE UNCHANGED vars
    BY <2>2, Zenon DEF vars, tester, bus
  <2> QED
    BY <2>1, <2>2
<1> QED
  BY <1>1, <1>2, <1>3

\* Blocks is kept when the bus loses frames and when the ECU gives up.
LEMMA FaultBlocks ==
    ASSUME IInv, Always', Blocks, BusFault \/ EcuGivesUp
    PROVE  Blocks'
<1>1. CASE repeated'
  BY <1>1, Zenon DEF Blocks
<1>2. CASE /\ UNCHANGED <<pc, tx, clean, repeated>> /\ Rear(toEcu', toEcu) /\ Rear(toTester', toTester)
           /\ ecu' = ecu \/ ecu'.st = "idle"
  <2>1. Unread' <= Unread /\ (NoFirst(toEcu) => NoFirst(toEcu'))
    BY <1>2, Lighter
  <2> QED
    BY <1>2, <2>1, BlocksKept
<1>3. CASE BusFault
  <2>1. /\ UNCHANGED tester /\ UNCHANGED <<ecu, clean>>
        /\ repeated' \/ (repeated' = repeated /\ Rear(toEcu', toEcu) /\ Rear(toTester', toTester))
    BY <1>3, FaultAlways DEF IInv
  <2>2. UNCHANGED <<pc, tx>>
    BY <2>1 DEF tester
  <2> QED
    BY <1>1, <1>2, <2>1, <2>2
<1>4. CASE EcuGivesUp
  <2>1. ecu' = EcuIdle /\ UNCHANGED <<toEcu, toTester, clean, repeated, pc, tx>>
    BY <1>4 DEF EcuGivesUp, bus, tester
  <2> QED
    BY <1>2, <2>1, RearSame, Starts DEF IInv
<1> QED
  BY <1>3, <1>4

\* Behind a frame that is no flow control there is none.
LEMMA NoFlowBehind ==
    ASSUME NEW q, NEW r, After(r, q), FlowFirst(q), 1 \in 1..Len(q), q[1].type # "FC"
    PROVE  NoFlow(r)
<1>1. \A i \in 1..Len(r) : 1 + i \in 1..Len(q) /\ 1 < 1 + i /\ r[i] = q[1 + i]
  BY DEF After
<1> QED
  BY <1>1, Zenon DEF FlowFirst, NoFlow

\* Blocks is kept when the tester reads a response.
LEMMA ReadBlocks ==
    ASSUME IInv, Always', Blocks, recv_pdu \/ recv_consecutive
    PROVE  Blocks'
<1> DEFINE f == toTester[1]
<1>1. /\ pc \in {"pdu", "cont"} /\ recv_frame /\ UNCHANGED <<ecu, repeated>>
      /\ FailsNow \/ /\ clean' => clean
                     /\ pc' \in {"pdu", "cont"} \/ (pc' = "idle" /\ f.type # "FC")
                     /\ toEcu' = toEcu \/ (\E g : g.type = "FC" /\ Longer(toEcu', toEcu, g))
  <2>1. FlowControl("cts", BlockSize).type = "FC"
    BY DEF FlowControl
  <2>2. Longer(Append(toEcu, FlowControl("cts", BlockSize)), toEcu, FlowControl("cts", BlockSize))
    BY FlowToEcu DEF IInv, Always
  <2>3. LocalsOK /\ BusOK
    BY DEF IInv, Always
  <2>4. ASSUME NEW b \in PduBytes, Received(b), pc # "idle"
        PROVE  FailsNow \/ ((clean' => clean) /\ pc' \in {"pdu", "idle"})
    <3>1. WaitsOn(b) \/ Returns(b) \/ FailsNow
      BY <2>3, <2>4, ReceivedLocals
    <3>2. WaitsOn(b) \/ Returns(b) => (clean' => clean)
      BY Zenon DEF WaitsOn, Returns
    <3>3. WaitsOn(b) \/ Returns(b) => pc' \in {"pdu", "idle"}
      BY DEF WaitsOn, Returns
    <3> QED
      BY <3>1, <3>2, <3>3, Zenon
  <2>5. CASE recv_pdu
    <3>1. /\ pc = "pdu" /\ recv_frame /\ UNCHANGED <<ecu, repeated>>
          /\ OneFrame(f) \/ StartsPdu(f) \/ Fails
      BY <2>5, PduCases DEF IInv
    <3>2. FrameFacts(f, EcuBlocks \cup {0})
      BY <2>3, <3>1, TesterReads
    <3> HIDE DEF f
    <3>3. CASE OneFrame(f)
      <4>1. f.type = "SF" /\ Received(f.data) /\ toEcu' = toEcu
        BY <3>3 DEF OneFrame
      <4>2. f.data \in PduBytes
        BY <3>2, <4>1 DEF FrameFacts
      <4> QED
        BY <2>4, <3>1, <4>1, <4>2
    <3>4. CASE StartsPdu(f)
      <4>1. toEcu' = Append(toEcu, FlowControl("cts", BlockSize)) /\ pc' = "cont" /\ clean' = clean
        BY <3>4, Zenon DEF StartsPdu
      <4>2. \E g : g.type = "FC" /\ Longer(toEcu', toEcu, g)
        BY <2>1, <2>2, <4>1, Zenon
      <4> QED
        BY <3>1, <4>1, <4>2
    <3> QED
      BY <3>1, <3>3, <3>4 DEF Fails
  <2>6. CASE recv_consecutive
    <3>1. /\ pc = "cont" /\ recv_frame /\ UNCHANGED <<ecu, repeated>>
          /\ GoesOn(f) \/ Completes(f) \/ Fails
      BY <2>6, ConsecutiveCases DEF IInv
    <3>2. FrameFacts(f, EcuBlocks \cup {0})
      BY <2>3, <3>1, TesterReads
    <3> HIDE DEF f
    <3>3. CASE Completes(f)
      <4>1. f.type = "CF" /\ Received(Grown(f)) /\ toEcu' = toEcu
        BY <3>3, Zenon DEF Completes, Continues
      <4>2. Grown(f) \in PduBytes
        <5>1. rx.bytes # <<>> /\ f.data \in PduBytes
          BY <3>1, <3>2, <4>1 DEF FrameFacts, IInv, Always, ExchangeOK
        <5> QED
          BY <2>3, <5>1, GrownBytes
      <4> QED
        BY <2>4, <3>1, <4>1, <4>2
    <3>4. CASE GoesOn(f)
      <4>1. /\ toEcu' = toEcu \/ toEcu' = Append(toEcu, FlowControl("cts", BlockSize))
            /\ pc' = pc /\ clean' = clean
        BY <3>4, Zenon DEF GoesOn
      <4>2. toEcu' = toEcu \/ (\E g : g.type = "FC" /\ Longer(toEcu', toEcu, g))
        BY <2>1, <2>2, <4>1, Zenon
      <4> QED
        BY <3>1, <4>1, <4>2
    <3> QED
      BY <3>1, <3>3, <3>4 DEF Fails
  <2> QED
    BY <2>5, <2>6
<1>2. /\ Rear(toTester', toTester) /\ After(toTester', toTester) /\ toTester # <<>>
  BY <1>1, TesterReads DEF IInv, Always
<1>3. 1 \in 1..Len(toTester)
  BY <1>2 DEF IInv, Always, BusOK, QueueOK
<1> HIDE DEF f
<1>4. ASSUME ~FailsNow, clean', ~repeated' PROVE Blocks'
  <2>1. clean /\ ~repeated
    BY <1>1, <1>4, Zenon
  <2>2. FlowFirst(toTester)
    BY <2>1, Zenon DEF Blocks
  <2>3. f.type # "FC" => NoFlow(toTester')
    BY <1>2, <1>3, <2>2, NoFlowBehind DEF f
  <2>4. Unread' <= Unread /\ (NoFirst(toEcu) => NoFirst(toEcu'))
    BY <1>1, <1>4, Lighter
  <2> QED
    BY <1>1, <1>2, <1>4, <2>3, <2>4, BlocksKept
<1> QED
  BY <1>4, BlocksFail, Zenon DEF Blocks

\* Blocks is kept when the tester reads a flow control: it begins the block announced.
LEMMA WaitBlocks ==
    ASSUME IInv, Always', Blocks, wait_for_continue_to_send
    PROVE  Blocks'
<1> DEFINE f == toTester[1]
<1>1. recv_frame /\ pc = "flow" /\ UNCHANGED <<toEcu, ecu, repeated>>
  BY DEF wait_for_continue_to_send
<1>2. /\ Rear(toTester', toTester) /\ After(toTester', toTester) /\ toTester # <<>>
      /\ Head(toTester) = f /\ toTester' = Tail(toTester)
  BY <1>1, TesterReads DEF IInv, Always
<1>3. 1 \in 1..Len(toTester) /\ Len(toTester) \in Nat /\ Len(toTester') = Len(toTester) - 1
  BY <1>2 DEF IInv, Always, BusOK, QueueOK
<1>4. Unread' <= Unread /\ (NoFirst(toEcu) => NoFirst(toEcu'))
  BY <1>1, Lighter
<1> HIDE DEF f
<1>5. \/ FailsNow
      \/ UNCHANGED <<pc, tx, clean>>
      \/ GoesAhead(f) /\ tx' = [tx EXCEPT !.block = 0, !.bs = f.bs] /\ pc' = "send" /\ UNCHANGED clean
  BY <1>2, Zenon DEF wait_for_continue_to_send, FailsNow, GoesAhead
<1>6. CASE UNCHANGED <<pc, tx, clean>>
  BY <1>1, <1>2, <1>4, <1>6, BlocksKept
<1>7. CASE GoesAhead(f) /\ tx' = [tx EXCEPT !.block = 0, !.bs = f.bs] /\ pc' = "send" /\ UNCHANGED clean
  <2> SUFFICES ASSUME clean', ~repeated'
               PROVE  /\ pc' = "idle" => NoFlow(toTester')
                      /\ FlowFirst(toTester')
                      /\ ~NoFirst(toEcu') => pc' = "flow" /\ Fresh'
                      /\ ecu'.st = "grant" => Fresh'
                      /\ ecu'.st = "recv" => Announced' \/ Within'
    BY Zenon DEF Blocks
  <2>1. clean /\ ~repeated
    BY <1>1, <1>7, Zenon
  <2>2. ~Fresh
    BY <1>3, <1>7, Zenon DEF Fresh, Heeded, f
  <2>3. FlowFirst(toTester) /\ NoFirst(toEcu) /\ ecu.st # "grant" /\ (ecu.st = "recv" => Announced \/ Within)
    BY <2>1, <2>2, Zenon DEF Blocks
  <2>4. FlowFirst(toTester')
    BY <1>2, <1>3, <2>3, RearFlow
  <2>5. NoFirst(toEcu') /\ ecu'.st # "grant" /\ pc' # "idle"
    BY <1>1, <1>7, <2>3
  <2>6. ASSUME ecu'.st = "recv" PROVE Within'
    <3>1. Announced
      BY <1>1, <1>3, <2>3, <2>6, <1>7, Zenon DEF Within, Heeded, f
    <3>2. Len(toTester) = 1 /\ f.bs = ecu.bs
      BY <1>3, <1>7, <3>1, Zenon DEF Announced, LastGo, f
    <3>3. Heeded(toTester')
      BY <1>3, <3>2 DEF Heeded
    <3>4. tx \in Txs /\ ecu.bs \in Nat /\ Unread = 0 /\ ecu.block = 0
      BY <3>1, BlockTypes DEF Announced, IInv, Always, LocalsOK
    <3>5. tx'.bs = ecu.bs /\ tx'.block = 0
      BY <1>7, <3>2, <3>4 DEF Txs
    <3>6. Unread' = 0
      BY <1>1, <3>4 DEF Unread
    <3>7. /\ ecu'.bs # 0 => ecu'.block + Unread' <= ecu'.bs
          /\ tx'.bs = ecu'.bs
          /\ tx'.bs # 0 => tx'.block < tx'.bs /\ ecu'.block + Unread' <= tx'.block
      BY <1>1, <3>4, <3>5, <3>6
    <3> QED
      BY <3>3, <3>7, Zenon DEF Within
  <2> QED
    BY <2>4, <2>5, <2>6
<1> QED
  BY <1>5, <1>6, <1>7, BlocksFail

\* Blocks is kept when the tester sends a consecutive frame: within the block.
LEMMA SendBlocks ==
    ASSUME IInv, Always', Blocks, send_consecutive
    PROVE  Blocks'
<1> DEFINE f == Consecutive(tx.seq, Chunk(req, tx.off))
<1>1. /\ pc = "send" /\ toEcu' = Append(toEcu, f)
      /\ \E o, s : tx' = [tx EXCEPT !.off = o, !.seq = s, !.block = tx.block + 1]
      /\ pc' \in {"pdu", "flow"} \/ (pc' = "send" /\ ~SentBlock)
      /\ UNCHANGED <<toTester, ecu, clean, repeated>>
  BY DEF send_consecutive
<1>2. f.type = "CF"
  BY DEF Consecutive
<1>3. Longer(toEcu', toEcu, f)
  <2>1. req \in Pdus /\ tx.off \in Nat /\ tx.off < req.len /\ tx \in Txs
    <3>1. req \in asked /\ tx.off < req.len /\ asked \subseteq Requests
      BY <1>1 DEF IInv, Always, ExchangeOK, CallOK
    <3> QED
      BY <3>1 DEF IInv, Always, LocalsOK, Txs, Pdus
  <2>2. tx.seq \in Nat /\ Chunk(req, tx.off) \in PduBytes
    BY <2>1, ChunkOf, IsoTpAssumption DEF Txs, Piece
  <2>3. f \in Frames({BlockSize})
    BY <2>2, FrameMade
  <2>4. toEcu \in Seq(Frames({BlockSize}))
    BY DEF IInv, Always, BusOK, QueueOK
  <2> HIDE DEF f
  <2> QED
    BY <1>1, <2>3, <2>4, Added
<1> HIDE DEF f
<1> SUFFICES ASSUME clean', ~repeated'
             PROVE  /\ pc' = "idle" => NoFlow(toTester')
                    /\ FlowFirst(toTester')
                    /\ ~NoFirst(toEcu') => pc' = "flow" /\ Fresh'
                    /\ ecu'.st = "grant" => Fresh'
                    /\ ecu'.st = "recv" => Announced' \/ Within'
  BY Zenon DEF Blocks
<1>4. clean /\ ~repeated
  BY <1>1, Zenon
<1>5. ~Fresh /\ ~Announced
  BY <1>1 DEF Fresh, Announced
<1>6. FlowFirst(toTester) /\ NoFirst(toEcu) /\ ecu.st # "grant" /\ (ecu.st = "recv" => Within)
  BY <1>4, <1>5, Zenon DEF Blocks
<1>7. NoFirst(toEcu')
  <2>1. \A i \in 1..Len(toEcu') : (i \in 1..Len(toEcu) /\ toEcu'[i] = toEcu[i]) \/ toEcu'[i] = f
    BY <1>3 DEF Longer
  <2> QED
    BY <1>2, <1>6, <2>1 DEF NoFirst
<1>8. ASSUME ecu.st = "recv" PROVE Within'
  <2>1. Unread' = Unread + 1
    <3>1. Unread' = Cardinality(CFs(toEcu')) /\ Unread = Cardinality(CFs(toEcu))
      BY DEF Unread, CFs
    <3> QED
      BY <1>2, <1>3, <3>1, CountSent
  <2>2. tx'.bs = tx.bs /\ tx'.block = tx.block + 1
    BY <1>1 DEF IInv, Always, LocalsOK, Txs
  <2>3. Unread \in Nat /\ tx.block \in Nat /\ tx.bs \in Nat /\ ecu.block \in Nat /\ ecu.bs \in Nat
    BY BlockTypes DEF IInv
  <2>4. /\ Heeded(toTester)
        /\ tx.bs = ecu.bs
        /\ tx.bs # 0 => tx.block < tx.bs /\ ecu.block + Unread <= tx.block
    BY <1>1, <1>6, <1>8 DEF Within
  <2>5. ecu.bs # 0 => ecu.block + Unread' <= ecu.bs
    BY <2>1, <2>3, <2>4
  <2>6. tx.bs # 0 => ecu.block + Unread' <= tx'.block /\ (~SentBlock => tx'.block < tx.bs)
    BY <2>1, <2>2, <2>3, <2>4 DEF SentBlock
  <2> QED
    BY <1>1, <2>2, <2>4, <2>5, <2>6 DEF Within
<1> QED
  BY <1>1, <1>6, <1>7, <1>8

\* Where the ends are when the ECU is taking a request of several frames.
LEMMA Receiving ==
    ASSUME IInv, clean, ~repeated, ecu.st \in {"grant", "recv"}
    PROVE  pc # "idle" /\ Only(toTester, {"FC"}) /\ NoFirst(toEcu)
<1>1. AskLong
  <2>1. Rest \/ AskShort \/ AskLong \/ AnswerShort \/ \E p \in given, off \in Nat : AnswerLong(p, off)
    BY Zenon DEF IInv, InStep
  <2> QED
    BY <2>1 DEF Rest, AskShort, AnswerShort, AnswerLong
<1>2. pc # "idle" /\ Only(toTester, {"FC"}) /\ Only(toEcu, {"FC", "CF"})
  BY <1>1 DEF AskLong, Behind
<1>3. NoFirst(toEcu)
  BY <1>2 DEF Only, NoFirst
<1> QED
  BY <1>2, <1>3

\* And when it answers.
LEMMA Responding ==
    ASSUME IInv, clean, ~repeated, ecu.st \in {"answer", "send"}
    PROVE  pc # "idle" /\ NoFirst(toEcu)
<1>1. AnswerShort \/ \E p \in given, off \in Nat : AnswerLong(p, off)
  <2>1. Rest \/ AskShort \/ AskLong \/ AnswerShort \/ \E p \in given, off \in Nat : AnswerLong(p, off)
    BY Zenon DEF IInv, InStep
  <2> QED
    BY <2>1 DEF Rest, AskShort, AskLong
<1>2. pc # "idle" /\ Only(toEcu, {"FC"})
  BY <1>1 DEF AnswerShort, AnswerLong
<1>3. NoFirst(toEcu)
  BY <1>2 DEF Only, NoFirst
<1> QED
  BY <1>2, <1>3

\* A consecutive frame in order: when it fills the block, the tester has stopped.
LEMMA GoesOnBlocks ==
    ASSUME IInv, Blocks, clean, ~repeated, EcuReads, toEcu[1].type = "CF", ecu.st = "recv",
           NEW b, NEW s,
           ecu' = [ecu EXCEPT !.bytes = b, !.seq = s, !.block = @ + 1,
                              !.st = IF ecu.bs # 0 /\ ecu.block + 1 >= ecu.bs THEN "grant" ELSE "recv"]
    PROVE  /\ ecu'.st = "grant" => Fresh'
           /\ ecu'.st = "recv" => Within'
<1>1. UNCHANGED tester /\ UNCHANGED toTester /\ toEcu # <<>> /\ After(toEcu', toEcu)
  BY EcuReadsFrame DEF EcuReads, IInv, Always
<1>2. UNCHANGED <<pc, tx>>
  BY <1>1 DEF tester
<1>3. Len(toEcu) \in Nat /\ 1 \in 1..Len(toEcu)
  BY <1>1 DEF IInv, Always, BusOK, QueueOK
<1>4. /\ Unread = Cardinality(CFs(toEcu)) /\ Unread \in Nat /\ tx.block \in Nat /\ ecu.block \in Nat /\ ecu.bs \in Nat
  BY BlockTypes DEF IInv
<1>5. Unread' < Unread /\ Unread' \in Nat
  <2>1. Unread' = Cardinality(CFs(toEcu'))
    BY DEF Unread, CFs
  <2>2. Len(toEcu') \in Nat
    BY <1>1 DEF After
  <2> QED
    BY <1>1, <1>3, <1>4, <2>1, <2>2, CountRead, Counted
<1>6. Within
  <2>1. Announced \/ Within
    BY Zenon DEF Blocks
  <2>2. Unread # 0
    BY <1>4, <1>5
  <2> QED
    BY <2>1, <2>2 DEF Announced
<1>7. /\ Heeded(toTester)
      /\ ecu.bs # 0 => ecu.block + Unread <= ecu.bs
      /\ pc = "send" => tx.bs = ecu.bs
      /\ pc = "send" /\ tx.bs # 0 => tx.block < tx.bs /\ ecu.block + Unread <= tx.block
  BY <1>6, Zenon DEF Within
<1>8. /\ ecu'.block = ecu.block + 1 /\ ecu'.bs = ecu.bs
      /\ ecu'.st = "grant" => ecu.bs # 0 /\ ecu.block + 1 >= ecu.bs
  BY DEF IInv, Always, EcuOK, Ecus
<1>9. ecu'.st = "grant" => Fresh'
  <2>1. ASSUME ecu.bs # 0, ecu.block + 1 >= ecu.bs PROVE Unread' = 0 /\ pc # "send"
    BY <1>4, <1>5, <1>7, <2>1
  <2> QED
    BY <1>1, <1>2, <1>7, <1>8, <2>1, Zenon DEF Fresh
<1>10. Within'
  <2>1. /\ ecu.bs # 0 => ecu.block + 1 + Unread' <= ecu.bs
        /\ pc = "send" => tx.bs = ecu.bs
        /\ pc = "send" /\ tx.bs # 0 => tx.block < tx.bs /\ ecu.block + 1 + Unread' <= tx.block
    BY <1>4, <1>5, <1>7
  <2> QED
    BY <1>1, <1>2, <1>7, <1>8, <2>1, Zenon DEF Within
<1> QED
  BY <1>9, <1>10

\* Blocks is kept when the ECU reads a frame.
LEMMA EcuReadsBlocks ==
    ASSUME IInv, Always', Blocks, EcuReads
    PROVE  Blocks'
<1> DEFINE f == toEcu[1]
           full == ecu.bs # 0 /\ ecu.block + 1 >= ecu.bs
           bytes == ecu.bytes \o f.data
<1>1. /\ toEcu # <<>> /\ Rear(toEcu', toEcu) /\ Head(toEcu) = f
      /\ UNCHANGED tester /\ UNCHANGED <<toTester, clean, repeated>>
  BY EcuReadsFrame DEF EcuReads, IInv, Always
<1>2. UNCHANGED <<pc, tx>>
  BY <1>1 DEF tester
<1>3. Unread' <= Unread /\ (NoFirst(toEcu) => NoFirst(toEcu')) /\ Rear(toTester', toTester)
  BY <1>1, Lighter, RearSame DEF IInv
<1>4. 1 \in 1..Len(toEcu) /\ Unread \in Nat /\ Unread' \in Nat
  <2>1. 1 \in 1..Len(toEcu) /\ Unread \in Nat
    BY <1>1, BlockTypes DEF IInv, Always, BusOK, QueueOK
  <2>2. Len(toEcu') \in Nat /\ Unread' = Cardinality(CFs(toEcu'))
    BY QueueRead DEF Always, BusOK, Unread, CFs
  <2> QED
    BY <2>1, <2>2, Counted
<1>5. \/ ecu' = ecu \/ ecu'.st \notin {"grant", "recv"}
      \/ f.type = "FF" /\ ecu'.st = "grant"
      \/ /\ f.type = "CF" /\ ecu.st = "recv"
         /\ ecu' = [ecu EXCEPT !.bytes = bytes, !.seq = NextSeq(@), !.block = @ + 1,
                               !.st = IF full THEN "grant" ELSE "recv"]
  <2>1. \/ \E b : Takes(b)
        \/ f.type = "FF" /\ ecu' = [EcuIdle EXCEPT !.st = "grant", !.bytes = f.data, !.len = f.len, !.seq = 1]
        \/ /\ f.type = "CF" /\ ecu.st = "recv"
           /\ ecu' = [ecu EXCEPT !.bytes = bytes, !.seq = NextSeq(@), !.block = @ + 1,
                                 !.st = IF full THEN "grant" ELSE "recv"]
        \/ ecu' = EcuIdle \/ ecu' = ecu
        \/ ecu' = [ecu EXCEPT !.st = "send", !.block = 0, !.bs = f.bs]
    <3> HIDE DEF f
    <3> QED
      BY <1>1, Zenon DEF EcuReads
  <2>2. \A b : Takes(b) => ecu'.st = "answer"
    BY Starts DEF Takes, Ecus
  <2>3. EcuIdle \in Ecus /\ EcuIdle.st = "idle" /\ ecu \in Ecus
    BY Starts DEF IInv, Always, EcuOK
  <2> HIDE DEF f, bytes, full
  <2>4. ecu' = [EcuIdle EXCEPT !.st = "grant", !.bytes = f.data, !.len = f.len, !.seq = 1] => ecu'.st = "grant"
    BY <2>3 DEF Ecus
  <2>5. ecu' = [ecu EXCEPT !.st = "send", !.block = 0, !.bs = f.bs] => ecu'.st = "send"
    BY <2>3 DEF Ecus
  <2>6. ASSUME ecu'.st \in {"answer", "idle", "send"} PROVE ecu'.st \notin {"grant", "recv"}
    BY <2>6
  <2> QED
    BY <2>1, <2>2, <2>3, <2>4, <2>5, <2>6
<1>6. CASE ecu' = ecu \/ ecu'.st \notin {"grant", "recv"}
  BY <1>1, <1>2, <1>3, <1>6, BlocksKept
<1>7. ASSUME clean, ~repeated, ecu'.st \in {"grant", "recv"}, ecu'.st = "grant" => Fresh', ecu'.st = "recv" => Within',
             ~NoFirst(toEcu') => pc' = "flow" /\ Fresh'
      PROVE  Blocks'
  <2>1. (pc' = "idle" => NoFlow(toTester')) /\ FlowFirst(toTester')
    BY <1>1, <1>2, <1>7, Zenon DEF Blocks
  <2> QED
    BY <1>7, <2>1, Zenon DEF Blocks
<1>8. CASE f.type = "FF" /\ ecu'.st = "grant"
  <2>1. ASSUME clean, ~repeated PROVE Blocks'
    <3>1. ~NoFirst(toEcu)
      BY <1>4, <1>8 DEF NoFirst
    <3>2. pc = "flow" /\ Fresh
      BY <2>1, <3>1, Zenon DEF Blocks
    <3>3. Unread' = 0
      BY <1>3, <1>4, <3>2 DEF Fresh
    <3>4. pc' = "flow" /\ Fresh'
      BY <1>1, <1>2, <3>2, <3>3 DEF Fresh
    <3> QED
      BY <1>7, <1>8, <2>1, <3>4
  <2> QED
    BY <1>1, <2>1, Zenon DEF Blocks
<1>9. CASE /\ f.type = "CF" /\ ecu.st = "recv"
           /\ ecu' = [ecu EXCEPT !.bytes = bytes, !.seq = NextSeq(@), !.block = @ + 1,
                                 !.st = IF full THEN "grant" ELSE "recv"]
  <2>1. ASSUME clean, ~repeated PROVE Blocks'
    <3> DEFINE s == NextSeq(ecu.seq)
    <3>1. ecu' = [ecu EXCEPT !.bytes = bytes, !.seq = s, !.block = @ + 1,
                             !.st = IF full THEN "grant" ELSE "recv"]
      BY <1>9
    <3>2. ecu'.st \in {"grant", "recv"}
      <4> HIDE DEF full, bytes, s
      <4> QED
        BY <3>1 DEF IInv, Always, EcuOK, Ecus
    <3> HIDE DEF bytes, s
    <3>3. (ecu'.st = "grant" => Fresh') /\ (ecu'.st = "recv" => Within')
      BY <1>9, <2>1, <3>1, GoesOnBlocks
    <3>4. NoFirst(toEcu')
      BY <1>3, <1>9, <2>1, Receiving
    <3> QED
      BY <1>7, <2>1, <3>2, <3>3, <3>4
  <2> QED
    BY <1>1, <2>1, Zenon DEF Blocks
<1> QED
  BY <1>5, <1>6, <1>8, <1>9

\* Blocks is kept when the ECU sends a flow control: a go-ahead announces a block.
LEMMA GrantsBlocks ==
    ASSUME IInv, Always', Blocks, EcuGrants
    PROVE  Blocks'
<1> SUFFICES ASSUME clean', ~repeated'
             PROVE  /\ pc' = "idle" => NoFlow(toTester')
                    /\ FlowFirst(toTester')
                    /\ ~NoFirst(toEcu') => pc' = "flow" /\ Fresh'
                    /\ ecu'.st = "grant" => Fresh'
                    /\ ecu'.st = "recv" => Announced' \/ Within'
  BY Zenon DEF Blocks
<1>1. /\ ecu.st = "grant" /\ UNCHANGED tester /\ UNCHANGED <<toEcu, clean, repeated>>
      /\ \E g : g.type = "FC" /\ Longer(toTester', toTester, g)
  BY GrantsAlways DEF IInv
<1>2. UNCHANGED <<pc, tx>>
  BY <1>1 DEF tester
<1>3. pc # "idle" /\ Only(toTester, {"FC"}) /\ NoFirst(toEcu)
  BY <1>1, Receiving, Zenon
<1>4. pc # "send" /\ Unread = 0 /\ Heeded(toTester)
  BY <1>1, Zenon DEF Blocks, Fresh
<1>5. FlowFirst(toTester')
  <2>1. PICK g : g.type = "FC" /\ Longer(toTester', toTester, g)
    BY <1>1
  <2>2. \A i \in 1..Len(toTester') : toTester'[i].type = "FC"
    BY <1>3, <2>1 DEF Longer, Only
  <2> QED
    BY <2>2 DEF FlowFirst
<1>6. Unread' = 0
  BY <1>1, <1>4 DEF Unread
<1>7. toTester \in Seq(Frames(EcuBlocks \cup {0}))
  BY DEF IInv, Always, BusOK, QueueOK
<1>8. CASE \E bs \in EcuBlocks : /\ toTester' = Append(toTester, FlowControl("cts", bs))
                                 /\ ecu' = [ecu EXCEPT !.st = "recv", !.bs = bs, !.block = 0]
  <2>1. PICK bs \in EcuBlocks : /\ toTester' = Append(toTester, FlowControl("cts", bs))
                                /\ ecu' = [ecu EXCEPT !.st = "recv", !.bs = bs, !.block = 0]
    BY <1>8
  <2>2. ecu'.st = "recv" /\ ecu'.bs = bs /\ ecu'.block = 0
    BY <2>1 DEF IInv, Always, EcuOK, Ecus
  <2> DEFINE g == FlowControl("cts", bs)
  <2>3. g.bs = bs /\ g \in Frames(EcuBlocks \cup {0})
    BY FrameMade DEF FlowControl
  <2>4. toTester' = Append(toTester, g)
    BY <2>1
  <2> HIDE DEF g
  <2>5. Longer(toTester', toTester, g)
    BY <1>7, <2>3, <2>4, Added
  <2>6. \A i \in 1..Len(toTester') : \/ i \in 1..Len(toTester) /\ toTester'[i] = toTester[i]
                                     \/ i = Len(toTester') /\ toTester'[i] = g
    BY <2>5 DEF Longer
  <2>7. LastGo(toTester', ecu'.bs)
    BY <1>4, <2>2, <2>3, <2>6 DEF LastGo, Heeded
  <2>8. Announced'
    BY <1>2, <1>4, <1>6, <2>2, <2>7 DEF Announced
  <2> QED
    BY <1>1, <1>2, <1>3, <1>5, <2>2, <2>8
<1>9. CASE toTester' = Append(toTester, FlowControl("wait", 0)) /\ ecu' = ecu
  <2> DEFINE g == FlowControl("wait", 0)
  <2>1. g \in Frames(EcuBlocks \cup {0}) /\ ~GoesAhead(g)
    BY FrameMade DEF FlowControl, GoesAhead
  <2>2. toTester' = Append(toTester, g)
    BY <1>9
  <2> HIDE DEF g
  <2>3. Longer(toTester', toTester, g)
    BY <1>7, <2>1, <2>2, Added
  <2>4. \A i \in 1..Len(toTester') : (i \in 1..Len(toTester) /\ toTester'[i] = toTester[i]) \/ toTester'[i] = g
    BY <2>3 DEF Longer
  <2>5. Heeded(toTester')
    BY <1>4, <2>1, <2>4 DEF Heeded
  <2>6. Fresh'
    BY <1>2, <1>4, <1>6, <2>5 DEF Fresh
  <2> QED
    BY <1>1, <1>2, <1>3, <1>5, <1>9, <2>6
<1>10. CASE ecu' = EcuIdle
  BY <1>1, <1>2, <1>3, <1>5, <1>10, Starts
<1> QED
  BY <1>8, <1>9, <1>10 DEF EcuGrants

\* Blocks is kept when the ECU sends a part of a response.
LEMMA AnswersBlocks ==
    ASSUME IInv, Always', Blocks, EcuAnswers \/ EcuSends
    PROVE  Blocks'
<1>1. /\ ecu.st \in {"answer", "send"} /\ UNCHANGED tester /\ UNCHANGED <<toEcu, clean, repeated>>
      /\ ecu'.st \notin {"grant", "recv"}
      /\ \E f : f.type # "FC" /\ Longer(toTester', toTester, f)
  <2>1. CASE EcuAnswers
    <3>1. ecu.st = "answer" /\ UNCHANGED tester /\ UNCHANGED <<toEcu, clean, repeated>>
      BY <2>1, AnswersAlways DEF IInv
    <3>2. PICK p : Answering(p)
      BY <2>1, AnswersAlways DEF IInv
    <3>3. CASE /\ Longer(toTester', toTester, Single(Bytes(p)))
               /\ ecu' = IF p.kind = "pending" THEN ecu ELSE EcuIdle
      <4> DEFINE b == Bytes(p)
      <4> HIDE DEF b
      <4>1. Single(b).type # "FC"
        BY DEF Single
      <4>2. ecu'.st \in {"answer", "idle"}
        BY <3>1, <3>3, Starts
      <4> QED
        BY <3>1, <3>3, <4>1, <4>2 DEF b
    <3>4. CASE /\ Longer(toTester', toTester, First(p.len, SubSeq(Bytes(p), 1, FfCap)))
               /\ ecu'.st = "flow"
      <4> DEFINE b == SubSeq(Bytes(p), 1, FfCap)
      <4> HIDE DEF b
      <4>1. First(p.len, b).type # "FC"
        BY DEF First
      <4> QED
        BY <3>1, <3>4, <4>1 DEF b
    <3> QED
      BY <3>2, <3>3, <3>4 DEF Answering
  <2>2. CASE EcuSends
    <3>1. ecu.st = "send" /\ UNCHANGED tester /\ UNCHANGED <<toEcu, clean, repeated>> /\ SendsOn
      BY <2>2, SendsAlways DEF IInv
    <3>2. PICK s \in Nat : Longer(toTester', toTester, Consecutive(s, Chunk(ecu.pdu, ecu.off)))
      BY <3>1 DEF SendsOn
    <3>3. ecu'.st \in {"idle", "flow", "send"}
      BY <3>1, Starts DEF SendsOn
    <3> DEFINE c == Chunk(ecu.pdu, ecu.off)
    <3> HIDE DEF c
    <3>4. Consecutive(s, c).type # "FC"
      BY DEF Consecutive
    <3> QED
      BY <3>1, <3>2, <3>3, <3>4 DEF c
  <2> QED
    BY <2>1, <2>2
<1>2. UNCHANGED <<pc, tx>>
  BY <1>1 DEF tester
<1>3. ASSUME clean', ~repeated'
      PROVE  /\ pc' # "idle" /\ FlowFirst(toTester') /\ NoFirst(toEcu') /\ ecu'.st \notin {"grant", "recv"}
  <2>1. clean /\ ~repeated
    BY <1>1, <1>3, Zenon
  <2>2. pc # "idle" /\ NoFirst(toEcu)
    BY <1>1, <2>1, Responding
  <2>3. FlowFirst(toTester)
    BY <2>1, Zenon DEF Blocks
  <2>4. PICK f : f.type # "FC" /\ Longer(toTester', toTester, f)
    BY <1>1
  <2>5. \A i, j \in 1..Len(toTester') :
            i < j => i \in 1..Len(toTester) /\ toTester'[i] = toTester[i]
                     /\ ((j \in 1..Len(toTester) /\ toTester'[j] = toTester[j]) \/ toTester'[j] = f)
    BY <2>4 DEF Longer
  <2>6. FlowFirst(toTester')
    BY <2>3, <2>4, <2>5, Zenon DEF FlowFirst
  <2> QED
    BY <1>1, <1>2, <2>2, <2>6
<1> QED
  BY <1>3, Zenon DEF Blocks

\* Blocks is kept by a new exchange: nothing of an earlier one is on its way.
LEMMA ExchangeBlocks ==
    ASSUME IInv, Always', Blocks, NEW r \in Requests, exchange(r)
    PROVE  Blocks'
<1>1. /\ pc = "idle" /\ UNCHANGED <<toTester, ecu, clean, repeated>>
      /\ Refuses \/ Asking(r)
  BY ExchangeAlways DEF IInv
<1>2. ASSUME clean', ~repeated'
      PROVE  /\ NoFlow(toTester') /\ FlowFirst(toTester')
             /\ ~NoFirst(toEcu') => pc' = "flow" /\ Fresh'
             /\ ecu'.st \notin {"grant", "recv"}
  <2>1. clean /\ ~repeated
    BY <1>1, <1>2, Zenon
  <2>2. ecu.st = "idle" /\ Only(toEcu, {"FC"})
    BY <1>1, <2>1, StepWhere DEF IInv, Rest
  <2>3. NoFlow(toTester) /\ FlowFirst(toTester)
    BY <1>1, <2>1, Zenon DEF Blocks
  <2>4. Heeded(toTester)
    BY <2>3, Zenon DEF Heeded, NoFlow, GoesAhead
  <2>5. CASE Refuses
    <3>1. NoFirst(toEcu')
      BY <2>2, <2>5 DEF Refuses, NoFirst, Only
    <3> QED
      BY <1>1, <2>2, <2>3, <3>1
  <2>6. CASE Longer(toEcu', toEcu, Single(Bytes(r)))
    <3> DEFINE b == Bytes(r)
               f == Single(b)
    <3> HIDE DEF b
    <3>1. f.type = "SF"
      BY DEF Single
    <3> HIDE DEF f
    <3>2. Longer(toEcu', toEcu, f)
      BY <2>6 DEF f, b
    <3>3. NoFirst(toEcu')
      BY <2>2, <3>1, <3>2 DEF NoFirst, Only, Longer
    <3> QED
      BY <1>1, <2>2, <2>3, <3>3
  <2>7. CASE Longer(toEcu', toEcu, First(r.len, SubSeq(Bytes(r), 1, FfCap))) /\ pc' = "flow"
    <3> DEFINE b == SubSeq(Bytes(r), 1, FfCap)
               f == First(r.len, b)
    <3> HIDE DEF b
    <3>1. f.type = "FF"
      BY DEF First
    <3> HIDE DEF f
    <3>2. Longer(toEcu', toEcu, f)
      BY <2>7 DEF f, b
    <3>3. Only(toEcu', {"FC", "FF"})
      BY <2>2, <3>1, <3>2 DEF Only, Longer
    <3>4. Unread' = 0
      <4>1. Unread' = Cardinality(CFs(toEcu'))
        BY DEF Unread, CFs
      <4>2. "CF" \notin {"FC", "FF"}
        OBVIOUS
      <4> QED
        BY <3>3, <4>1, <4>2, CountNone
    <3>5. pc' = "flow" /\ Fresh'
      BY <1>1, <2>4, <2>7, <3>4 DEF Fresh
    <3> QED
      BY <1>1, <2>2, <2>3, <3>5
  <2> QED
    BY <1>1, <2>5, <2>6, <2>7 DEF Asking
<1> QED
  BY <1>2, Zenon DEF Blocks

\* Every step keeps it.
LEMMA BlocksStep == IInv /\ Blocks /\ [Next]_vars => Blocks'
<1> SUFFICES ASSUME IInv, Blocks, [Next]_vars PROVE Blocks'
  OBVIOUS
<1>1. Always'
  BY StepAlways DEF IInv
<1> QED
  BY <1>1, NoiseBlocks, FaultBlocks, ReadBlocks, WaitBlocks, SendBlocks, EcuReadsBlocks, GrantsBlocks,
     AnswersBlocks, ExchangeBlocks, Zenon DEF Next, TesterStep, EcuStep

\* The sending loop stops where the ECU's block ends (WithinBlock): whatever frames are
\* lost, as long as none is repeated, the ECU has no more consecutive frames to take
\* than its last flow control allowed, and none while it holds flow control back.
THEOREM StaysWithinBlock == Spec => []WithinBlock
<1>1. IInv /\ Blocks => WithinBlock
  <2> SUFFICES ASSUME IInv, Blocks, clean, ~repeated
               PROVE  /\ (ecu.st = "recv" /\ ecu.bs # 0) => ecu.block + Unread <= ecu.bs
                      /\ (ecu.st = "grant") => Unread = 0
    BY Zenon DEF WithinBlock
  <2>1. ecu.st = "grant" => Unread = 0
    BY Zenon DEF Blocks, Fresh
  <2>2. ecu.st = "recv" => Announced \/ Within
    BY Zenon DEF Blocks
  <2>3. ecu.bs \in Nat
    BY BlockTypes DEF IInv
  <2> QED
    BY <2>1, <2>2, <2>3 DEF Announced, Within
<1>2. IInv /\ Blocks /\ [Next]_vars => (IInv /\ Blocks)'
  BY InvStep, BlocksStep
<1>3. Init => IInv /\ Blocks
  BY InvInit, BlocksInit
<1> QED
  BY <1>1, <1>2, <1>3, PTL DEF Spec

(***************************************************************************)
(* In lock-step                                                            *)
(*                                                                         *)
(* As long as nothing goes wrong the ends are in one of ten phases, and in *)
(* each what is on the bus, the sequence numbers and the places in the     *)
(* block that the two ends keep fit together exactly.                      *)
(***************************************************************************)

\* The frames of q carry p from a to b, one after the other, and are numbered from s:
\* the next one has number t.
Chain(q, p, a, b, s, t) ==
    \E o, n \in [1..(Len(q) + 1) -> Nat] :
        /\ o[1] = a /\ o[Len(q) + 1] = b /\ n[1] = s /\ n[Len(q) + 1] = t
        /\ \A i \in 1..Len(q) :
              /\ o[i] < p.len /\ q[i] = Consecutive(n[i], Chunk(p, o[i]))
              /\ o[i + 1] = NextOff(p, o[i]) /\ n[i + 1] = NextSeq(n[i])

\* A chain of no frames.
LEMMA ChainEmpty ==
    ASSUME NEW q, Len(q) = 0, NEW p, NEW a \in Nat, NEW s \in Nat
    PROVE  Chain(q, p, a, a, s, s)
<1> DEFINE o == [i \in 1..1 |-> a]
           n == [i \in 1..1 |-> s]
<1>1. Len(q) + 1 = 1 /\ 1 \in 1..1 /\ 1..Len(q) = {}
  OBVIOUS
<1>2. o \in [1..1 -> Nat] /\ n \in [1..1 -> Nat] /\ o[1] = a /\ n[1] = s
  BY <1>1
<1> HIDE DEF o, n
<1> QED
  BY <1>1, <1>2, Zenon DEF Chain

\* Where a chain begins and ends.
LEMMA ChainEnds ==
    ASSUME NEW q, Len(q) \in Nat, NEW p, NEW a, NEW b, NEW s, NEW t, Chain(q, p, a, b, s, t)
    PROVE  /\ a \in Nat /\ b \in Nat /\ s \in Nat /\ t \in Nat
           /\ Len(q) = 0 => a = b /\ s = t
           /\ Len(q) > 0 => a < p.len /\ q[1] = Consecutive(s, Chunk(p, a))
           /\ \A i \in 1..Len(q) : q[i].type = "CF"
<1>1. PICK o \in [1..(Len(q) + 1) -> Nat], n \in [1..(Len(q) + 1) -> Nat] :
        /\ o[1] = a /\ o[Len(q) + 1] = b /\ n[1] = s /\ n[Len(q) + 1] = t
        /\ \A i \in 1..Len(q) :
              /\ o[i] < p.len /\ q[i] = Consecutive(n[i], Chunk(p, o[i]))
              /\ o[i + 1] = NextOff(p, o[i]) /\ n[i + 1] = NextSeq(n[i])
  BY Zenon DEF Chain
<1>2. 1 \in 1..(Len(q) + 1) /\ Len(q) + 1 \in 1..(Len(q) + 1)
  OBVIOUS
<1>3. a \in Nat /\ b \in Nat /\ s \in Nat /\ t \in Nat
  BY <1>1, <1>2
<1>4. Len(q) = 0 => a = b /\ s = t
  BY <1>1
<1>5. Len(q) > 0 => 1 \in 1..Len(q)
  OBVIOUS
<1>6. Len(q) > 0 => a < p.len /\ q[1] = Consecutive(s, Chunk(p, a))
  BY <1>1, <1>5, Zenon
<1>7. \A c, d : Consecutive(c, d).type = "CF"
  BY DEF Consecutive
<1>8. ASSUME NEW i \in 1..Len(q) PROVE q[i].type = "CF"
  <2>1. q[i] = Consecutive(n[i], Chunk(p, o[i]))
    BY <1>1, Zenon
  <2>2. Consecutive(n[i], Chunk(p, o[i])).type = "CF"
    BY <1>7, Zenon
  <2> QED
    BY <2>1, <2>2, Zenon
<1> QED
  BY <1>3, <1>4, <1>6, <1>8

\* The next frame of a chain is sent.
LEMMA ChainSent ==
    ASSUME NEW q, NEW r, NEW f, NEW p, NEW a, NEW b, NEW s, NEW t, Chain(q, p, a, b, s, t),
           Longer(r, q, f), f = Consecutive(t, Chunk(p, b)), b < p.len,
           NextOff(p, b) \in Nat, NextSeq(t) \in Nat
    PROVE  Chain(r, p, a, NextOff(p, b), s, NextSeq(t))
<1>1. PICK o \in [1..(Len(q) + 1) -> Nat], n \in [1..(Len(q) + 1) -> Nat] :
        /\ o[1] = a /\ o[Len(q) + 1] = b /\ n[1] = s /\ n[Len(q) + 1] = t
        /\ \A i \in 1..Len(q) :
              /\ o[i] < p.len /\ q[i] = Consecutive(n[i], Chunk(p, o[i]))
              /\ o[i + 1] = NextOff(p, o[i]) /\ n[i + 1] = NextSeq(n[i])
  BY Zenon DEF Chain
<1> DEFINE m == Len(q) + 1
           x == NextOff(p, b)
           y == NextSeq(t)
<1> HIDE DEF x, y
<1> DEFINE u == [i \in 1..(m + 1) |-> IF i = m + 1 THEN x ELSE o[i]]
           v == [i \in 1..(m + 1) |-> IF i = m + 1 THEN y ELSE n[i]]
<1>2. Len(q) \in Nat /\ Len(r) = m /\ r[m] = f /\ \A i \in 1..Len(q) : r[i] = q[i]
  BY DEF Longer
<1>3. x \in Nat /\ y \in Nat
  BY DEF x, y
<1>4. u \in [1..(m + 1) -> Nat] /\ v \in [1..(m + 1) -> Nat]
  <2>1. \A i \in 1..(m + 1) : i # m + 1 => i \in 1..(Len(q) + 1)
    BY <1>2
  <2> QED
    BY <1>1, <1>3, <2>1
<1>5. /\ u[m + 1] = x /\ v[m + 1] = y
      /\ \A i \in 1..m : u[i] = o[i] /\ v[i] = n[i]
  BY <1>2
<1> HIDE DEF u, v
<1>6. u[1] = a /\ v[1] = s /\ 1 \in 1..m
  BY <1>1, <1>2, <1>5
<1>7. ASSUME NEW i \in 1..m
      PROVE  /\ u[i] < p.len /\ r[i] = Consecutive(v[i], Chunk(p, u[i]))
             /\ u[i + 1] = NextOff(p, u[i]) /\ v[i + 1] = NextSeq(v[i])
  <2>1. CASE i = m
    <3>1. m \in 1..m
      BY <1>2
    <3>2. u[m] = b /\ v[m] = t
      BY <1>1, <1>5, <3>1
    <3> QED
      BY <1>2, <1>5, <2>1, <3>2 DEF x, y
  <2>2. CASE i \in 1..Len(q)
    <3>1. i + 1 \in 1..m
      BY <1>2, <2>2
    <3>2. r[i] = q[i] /\ u[i] = o[i] /\ v[i] = n[i] /\ u[i + 1] = o[i + 1] /\ v[i + 1] = n[i + 1]
      BY <1>2, <1>5, <2>2, <3>1
    <3> QED
      BY <1>1, <2>2, <3>2
  <2> QED
    BY <1>2, <2>1, <2>2
<1> HIDE DEF m
<1>8. Chain(r, p, a, x, s, y)
  BY <1>2, <1>4, <1>5, <1>6, <1>7, Zenon DEF Chain
<1> QED
  BY <1>8 DEF x, y

\* r is q without its oldest frame.
Popped(r, q) == After(r, q) /\ Len(q) \in Nat /\ Len(q) > 0 /\ Len(r) = Len(q) - 1

\* The first frame of a chain is read.
LEMMA ChainRead ==
    ASSUME NEW q, NEW r, NEW p, NEW a, NEW b, NEW s, NEW t, Chain(q, p, a, b, s, t), Popped(r, q)
    PROVE  /\ a < p.len /\ q[1] = Consecutive(s, Chunk(p, a))
           /\ Chain(r, p, NextOff(p, a), b, NextSeq(s), t)
<1>1. PICK o \in [1..(Len(q) + 1) -> Nat], n \in [1..(Len(q) + 1) -> Nat] :
        /\ o[1] = a /\ o[Len(q) + 1] = b /\ n[1] = s /\ n[Len(q) + 1] = t
        /\ \A i \in 1..Len(q) :
              /\ o[i] < p.len /\ q[i] = Consecutive(n[i], Chunk(p, o[i]))
              /\ o[i + 1] = NextOff(p, o[i]) /\ n[i + 1] = NextSeq(n[i])
  BY Zenon DEF Chain
<1> DEFINE u == [i \in 1..(Len(r) + 1) |-> o[i + 1]]
           v == [i \in 1..(Len(r) + 1) |-> n[i + 1]]
<1>2. /\ Len(q) \in Nat /\ Len(r) \in Nat /\ Len(r) = Len(q) - 1
      /\ \A i \in 1..Len(r) : i + 1 \in 1..Len(q) /\ r[i] = q[i + 1]
  BY DEF Popped, After
<1>3. \A i \in 1..(Len(r) + 1) : i + 1 \in 1..(Len(q) + 1)
  BY <1>2
<1>4. u \in [1..(Len(r) + 1) -> Nat] /\ v \in [1..(Len(r) + 1) -> Nat]
  BY <1>1, <1>3
<1>5. \A i \in 1..(Len(r) + 1) : u[i] = o[i + 1] /\ v[i] = n[i + 1]
  OBVIOUS
<1> HIDE DEF u, v
<1>6. 1 \in 1..Len(q) /\ 1 \in 1..(Len(r) + 1) /\ Len(r) + 1 \in 1..(Len(r) + 1) /\ Len(r) + 1 + 1 = Len(q) + 1
  BY <1>2 DEF Popped
<1>7. u[1] = NextOff(p, a) /\ v[1] = NextSeq(s) /\ u[Len(r) + 1] = b /\ v[Len(r) + 1] = t
  BY <1>1, <1>5, <1>6
<1>8. ASSUME NEW i \in 1..Len(r)
      PROVE  /\ u[i] < p.len /\ r[i] = Consecutive(v[i], Chunk(p, u[i]))
             /\ u[i + 1] = NextOff(p, u[i]) /\ v[i + 1] = NextSeq(v[i])
  <2>1. i \in 1..(Len(r) + 1) /\ i + 1 \in 1..(Len(r) + 1) /\ i + 1 \in 1..Len(q)
    BY <1>2
  <2>2. u[i] = o[i + 1] /\ v[i] = n[i + 1] /\ u[i + 1] = o[i + 1 + 1] /\ v[i + 1] = n[i + 1 + 1]
    BY <1>5, <2>1
  <2> QED
    BY <1>1, <1>2, <2>1, <2>2
<1>9. Chain(r, p, NextOff(p, a), b, NextSeq(s), t)
  BY <1>4, <1>7, <1>8, Zenon DEF Chain
<1>10. a < p.len /\ q[1] = Consecutive(s, Chunk(p, a))
  BY <1>1, <1>6, Zenon
<1> QED
  BY <1>9, <1>10

AllSingle(q) == \A i \in 1..Len(q) : q[i].type = "SF"

\* No exchange is under way, and nothing on the bus.
AtRest == pc = "idle" /\ ecu.st = "idle" /\ Len(toEcu) = 0 /\ Len(toTester) = 0

\* A request of one frame is on its way.
OneAsked == pc = "pdu" /\ ecu.st = "idle" /\ Len(toEcu) = 1 /\ toEcu[1].type = "SF" /\ Len(toTester) = 0

\* The first frame of a request is.
Opening ==
    /\ pc = "flow" /\ ecu.st = "idle" /\ Len(toEcu) = 1 /\ toEcu[1].type = "FF" /\ Len(toTester) = 0
    /\ tx.off = FfCap /\ tx.seq = 1

\* The ECU has all that was sent, and holds flow control back.
Holding ==
    /\ pc = "flow" /\ ecu.st = "grant" /\ Len(toEcu) = 0 /\ Heeded(toTester)
    /\ Len(ecu.bytes) = tx.off /\ ecu.seq = tx.seq

\* It has asked for the next block.
Cleared ==
    /\ pc = "flow" /\ ecu.st = "recv" /\ Len(toEcu) = 0
    /\ Len(toTester) > 0 /\ LastGo(toTester, ecu.bs) /\ GoesAhead(toTester[Len(toTester)])
    /\ ecu.block = 0 /\ Len(ecu.bytes) = tx.off /\ ecu.seq = tx.seq

\* A block of the request is on its way.
Streaming ==
    /\ pc \in {"flow", "send", "pdu"} /\ ecu.st = "recv" /\ Len(toTester) = 0
    /\ Chain(toEcu, req, Len(ecu.bytes), tx.off, ecu.seq, tx.seq)
    /\ Len(ecu.bytes) < req.len
    /\ ecu.bs # 0 => ecu.block + Len(toEcu) <= ecu.bs
    /\ pc = "send" => tx.bs = ecu.bs
    /\ pc = "send" /\ tx.bs # 0 => tx.block < tx.bs /\ ecu.block + Len(toEcu) = tx.block
    /\ pc = "flow" => ecu.bs # 0 /\ ecu.block < ecu.bs /\ ecu.block + Len(toEcu) = ecu.bs

\* The ECU has the request; it may have asked for time.
Thinking == pc = "pdu" /\ ecu.st = "answer" /\ Len(toEcu) = 0 /\ AllSingle(toTester)

\* The answer, of one frame, is on its way.
OneAnswered ==
    /\ pc = "pdu" /\ ecu.st = "idle" /\ Len(toEcu) = 0
    /\ Len(toTester) > 0 /\ AllSingle(toTester) /\ ~Waits(toTester[Len(toTester)])

\* The first frame of the answer is.
AnswerOpens ==
    /\ pc = "pdu" /\ ecu.st = "flow" /\ Len(toEcu) = 0 /\ Len(toTester) > 0
    /\ \A i \in 1..Len(toTester) : toTester[i].type = IF i = Len(toTester) THEN "FF" ELSE "SF"
    /\ ecu.off = FfCap /\ ecu.seq = 1 /\ ecu.pdu.kind = "positive"

\* The tester is taking p, the answer.
Incoming(p) ==
    /\ pc = "cont" /\ Meaning(rx.bytes) = p /\ p.to = req /\ p.kind = "positive"
    /\ rx.len = p.len /\ Len(rx.bytes) < p.len

\* Its flow control is on its way;
Resumed(p) ==
    /\ ecu.st = "flow" /\ Len(toEcu) = 1 /\ toEcu[1].type = "FC" /\ Len(toTester) = 0
    /\ rx.block = 0 /\ ecu.pdu = p /\ ecu.off = Len(rx.bytes) /\ ecu.seq = rx.seq

\* the ECU is sending a block;
Pouring(p) ==
    /\ ecu.st = "send" /\ Len(toEcu) = 0 /\ ecu.pdu = p /\ ecu.bs = BlockSize
    /\ Chain(toTester, p, Len(rx.bytes), ecu.off, rx.seq, ecu.seq)
    /\ BlockSize # 0 => ecu.block < BlockSize /\ rx.block + Len(toTester) = ecu.block

\* it has sent all of the block;
Paused(p) ==
    /\ ecu.st = "flow" /\ Len(toEcu) = 0 /\ ecu.pdu = p
    /\ Chain(toTester, p, Len(rx.bytes), ecu.off, rx.seq, ecu.seq)
    /\ BlockSize # 0 /\ rx.block < BlockSize /\ rx.block + Len(toTester) = BlockSize

\* it has sent all of the answer.
Poured(p) ==
    /\ ecu.st = "idle" /\ Len(toEcu) = 0
    /\ \E t : Chain(toTester, p, Len(rx.bytes), p.len, rx.seq, t)
    /\ BlockSize # 0 => rx.block + Len(toTester) <= BlockSize

Transfers == \E p : Incoming(p) /\ (Resumed(p) \/ Pouring(p) \/ Paused(p) \/ Poured(p))

Phase ==
    \/ AtRest \/ OneAsked \/ Opening \/ Holding \/ Cleared \/ Streaming
    \/ Thinking \/ OneAnswered \/ AnswerOpens \/ Transfers

\* As long as nothing goes wrong the ends move in lock-step.
LockStep == clean /\ faults = 0 => ~repeated /\ result.status # "broken" /\ Phase

\* The numbers in the state.
Sizes ==
    /\ Len(toEcu) \in Nat /\ (toEcu = <<>> <=> Len(toEcu) = 0)
    /\ Len(toTester) \in Nat /\ (toTester = <<>> <=> Len(toTester) = 0)
    /\ tx.off \in Nat /\ tx.seq \in Nat /\ tx.block \in Nat /\ tx.bs \in Nat
    /\ ecu.seq \in Nat /\ ecu.block \in Nat /\ ecu.bs \in Nat /\ ecu.off \in Nat /\ Len(ecu.bytes) \in Nat
    /\ rx.len \in Nat /\ rx.seq \in Nat /\ rx.block \in Nat /\ Len(rx.bytes) \in Nat

\* They are numbers.
LEMMA Sized == Always => Sizes
<1> SUFFICES ASSUME Always PROVE Sizes
  OBVIOUS
<1>1. Len(toEcu) \in Nat /\ (toEcu = <<>> <=> Len(toEcu) = 0)
  BY DEF Always, BusOK, QueueOK
<1>2. Len(toTester) \in Nat /\ (toTester = <<>> <=> Len(toTester) = 0)
  BY DEF Always, BusOK, QueueOK
<1>3. SeqMod \in Nat /\ EcuBlocks \subseteq Nat /\ MaxPayload \in Nat
  BY IsoTpAssumption
<1>4. tx.off \in Nat /\ tx.seq \in Nat /\ tx.block \in Nat /\ tx.bs \in Nat
  <2>1. tx \in Txs
    BY DEF Always, LocalsOK
  <2>2. tx.off \in Nat /\ tx.seq \in 0..(SeqMod - 1) /\ tx.block \in Nat /\ tx.bs \in EcuBlocks \cup {0}
    BY <2>1 DEF Txs
  <2>3. tx.seq \in Nat
    BY <1>3, <2>2
  <2> QED
    BY <2>2, <2>3, BlockTypes, Zenon
<1>5. ecu.seq \in Nat /\ ecu.block \in Nat /\ ecu.bs \in Nat /\ ecu.off \in Nat /\ Len(ecu.bytes) \in Nat
  BY DEF Always, EcuOK, Ecus, PduBytes
<1>6. rx.len \in Nat /\ rx.seq \in Nat /\ rx.block \in Nat /\ Len(rx.bytes) \in Nat
  BY <1>3 DEF Always, LocalsOK, Rxs, PduBytes
<1> QED
  BY <1>1, <1>2, <1>4, <1>5, <1>6 DEF Sizes

\* And remain so.
LEMMA SizedNext == Always' => Sizes'
BY Sized, PTL

\* Which phases there are by where the tester waits, and by what the ECU does.
LEMMA PhaseWhere ==
    ASSUME Phase
    PROVE  /\ pc = "idle" => AtRest
           /\ pc = "flow" => Opening \/ Holding \/ Cleared \/ Streaming
           /\ pc = "send" => Streaming
           /\ pc = "pdu" => OneAsked \/ Streaming \/ Thinking \/ OneAnswered \/ AnswerOpens
           /\ pc = "cont" => Transfers
           /\ ecu.st = "grant" => Holding
           /\ ecu.st = "recv" => Cleared \/ Streaming
           /\ ecu.st = "answer" => Thinking
           /\ ecu.st = "flow" => AnswerOpens \/ Transfers
           /\ ecu.st = "send" => Transfers
<1>1. Transfers => pc = "cont" /\ ecu.st \in {"flow", "send", "idle"}
  BY Zenon DEF Transfers, Incoming, Resumed, Pouring, Paused, Poured
<1> QED
  BY <1>1 DEF Phase, AtRest, OneAsked, Opening, Holding, Cleared, Streaming, Thinking, OneAnswered, AnswerOpens

\* The queues when a frame is read.
LEMMA TesterPops ==
    ASSUME Always, recv_frame
    PROVE  /\ Popped(toTester', toTester) /\ Rear(toTester', toTester) /\ Head(toTester) = toTester[1]
           /\ 1 \in 1..Len(toTester) /\ Awaiting
<1>1. /\ toTester # <<>> /\ toTester' = Tail(toTester) /\ Head(toTester) = toTester[1]
      /\ Rear(toTester', toTester) /\ After(toTester', toTester)
  BY TesterReads DEF Always
<1>2. Len(toTester) \in Nat /\ Len(toTester) > 0 /\ Len(toTester') = Len(toTester) - 1
  BY <1>1 DEF Always, BusOK, QueueOK
<1>3. 1 \in 1..Len(toTester)
  BY <1>2
<1> QED
  BY <1>1, <1>2, <1>3 DEF Popped, recv_frame

\* A step that goes as it should.
Smooth == clean /\ faults = 0 /\ ~repeated /\ result.status # "broken" /\ Phase
Kept == faults' = 0 => result'.status # "broken" /\ (clean' => Phase')

\* The phase when the tester reads flow control.
LEMMA WaitKept ==
    ASSUME IInv, Smooth, wait_for_continue_to_send
    PROVE  Kept
<1> DEFINE f == toTester[1]
<1>1. /\ recv_frame /\ pc = "flow" /\ UNCHANGED <<toEcu, ecu, repeated, req>>
  BY DEF wait_for_continue_to_send
<1>2. Popped(toTester', toTester) /\ Rear(toTester', toTester) /\ Head(toTester) = f /\ 1 \in 1..Len(toTester)
  BY <1>1, TesterPops DEF IInv
<1>3. Len(toTester) \in Nat /\ Len(toTester') = Len(toTester) - 1 /\ Len(toTester) > 0
  BY <1>2 DEF Popped
<1>4. AskLong /\ tx.off < req.len /\ result.status # "broken" /\ result.status = "pending"
  BY <1>1, StepWhere DEF Smooth, IInv, Always, ExchangeOK, LocalsOK
<1>5. f.type = "FC"
  BY <1>2, <1>4 DEF AskLong, Only
<1>6. Sizes
  BY Sized DEF IInv
<1> HIDE DEF f
<1>7. \/ \E why \in {"limit", "refused"} : Failed(why)
      \/ UNCHANGED <<pc, tx, result, clean>> /\ ~GoesAhead(f)
      \/ GoesAhead(f) /\ tx' = [tx EXCEPT !.block = 0, !.bs = f.bs] /\ pc' = "send" /\ UNCHANGED <<clean, result>>
  BY <1>2, <1>5 DEF wait_for_continue_to_send, GoesAhead
<1>8. Holding \/ Cleared
  <2>1. Opening \/ Holding \/ Cleared \/ Streaming
    BY <1>1, PhaseWhere DEF Smooth
  <2> QED
    BY <1>3, <2>1 DEF Opening, Streaming
<1>9. CASE \E why \in {"limit", "refused"} : Failed(why)
  BY <1>9 DEF Failed, Result, Kept
<1>10. CASE UNCHANGED <<pc, tx, result, clean>> /\ ~GoesAhead(f)
  <2>1. CASE Holding
    <3>1. Heeded(toTester')
      BY <1>2, <1>3, <2>1, RearFlow DEF Holding
    <3>2. Holding'
      BY <1>1, <1>10, <2>1, <3>1 DEF Holding
    <3> QED
      BY <1>4, <1>10, <3>2 DEF Kept, Phase
  <2>2. CASE Cleared
    <3>1. Len(toTester) # 1
      BY <1>10, <2>2 DEF Cleared, f
    <3>2. Len(toTester') > 0 /\ Len(toTester') \in 1..Len(toTester')
      BY <1>3, <3>1
    <3>3. toTester'[Len(toTester')] = toTester[Len(toTester)]
      BY <1>2, <1>3, <3>2 DEF Popped, After
    <3>4. LastGo(toTester', ecu.bs)
      BY <1>2, <1>3, <2>2, RearFlow DEF Cleared
    <3>5. Cleared'
      BY <1>1, <1>10, <2>2, <3>2, <3>3, <3>4 DEF Cleared
    <3> QED
      BY <1>4, <1>10, <3>5 DEF Kept, Phase
  <2> QED
    BY <1>8, <2>1, <2>2
<1>11. CASE GoesAhead(f) /\ tx' = [tx EXCEPT !.block = 0, !.bs = f.bs] /\ pc' = "send" /\ UNCHANGED <<clean, result>>
  <2>1. Cleared
    BY <1>2, <1>8, <1>11 DEF Holding, Heeded, f
  <2>2. Len(toTester) = 1 /\ f.bs = ecu.bs
    BY <1>2, <1>11, <2>1 DEF Cleared, LastGo, f
  <2>3. tx \in Txs
    BY DEF IInv, Always, LocalsOK
  <2>4. tx'.off = tx.off /\ tx'.seq = tx.seq /\ tx'.block = 0 /\ tx'.bs = ecu.bs
    BY <1>11, <2>2, <2>3 DEF Txs
  <2>5. Len(ecu.bytes) = tx.off /\ ecu.seq = tx.seq /\ ecu.block = 0 /\ Len(toEcu) = 0 /\ ecu.st = "recv"
    BY <2>1 DEF Cleared
  <2>6. Chain(toEcu, req, tx.off, tx.off, tx.seq, tx.seq)
    BY <1>6, <2>5, ChainEmpty DEF Sizes
  <2>7. Chain(toEcu', req', Len(ecu'.bytes), tx'.off, ecu'.seq, tx'.seq)
    BY <1>1, <2>4, <2>5, <2>6
  <2>8. /\ ecu'.bs # 0 => ecu'.block + Len(toEcu') <= ecu'.bs
        /\ tx'.bs # 0 => tx'.block < tx'.bs /\ ecu'.block + Len(toEcu') = tx'.block
    BY <1>1, <1>6, <2>4, <2>5 DEF Sizes
  <2>9. /\ pc' = "send" /\ ecu'.st = "recv" /\ Len(toTester') = 0 /\ Len(ecu'.bytes) < req'.len /\ tx'.bs = ecu'.bs
    BY <1>1, <1>3, <1>4, <1>11, <2>2, <2>4, <2>5
  <2>10. Streaming'
    BY <2>7, <2>8, <2>9 DEF Streaming
  <2> QED
    BY <1>4, <1>11, <2>10 DEF Kept, Phase
<1> QED
  BY <1>7, <1>9, <1>10, <1>11

\* The phase when the tester sends a consecutive frame.
LEMMA SendKept ==
    ASSUME IInv, Smooth, send_consecutive
    PROVE  Kept
<1> DEFINE f == Consecutive(tx.seq, Chunk(req, tx.off))
           o == NextOff(req, tx.off)
           s == NextSeq(tx.seq)
<1>1. /\ pc = "send" /\ toEcu' = Append(toEcu, f)
      /\ tx' = [tx EXCEPT !.off = o, !.seq = s, !.block = tx.block + 1]
      /\ pc' = IF o >= req.len THEN "pdu" ELSE IF SentBlock THEN "flow" ELSE "send"
      /\ UNCHANGED <<toTester, ecu, clean, repeated, req, result>>
  BY DEF send_consecutive, NextOff
<1>2. Sizes /\ tx \in Txs
  BY Sized DEF IInv, Always, LocalsOK
<1>3. req \in Pdus /\ tx.off < req.len
  BY <1>1 DEF IInv, Always, ExchangeOK, CallOK, Pdus
<1>4. o \in Nat
  BY <1>2, <1>3, ChunkOf DEF Sizes
<1>5. s \in Nat
  BY <1>2, NextSeqTyped DEF Sizes
<1>6. Longer(toEcu', toEcu, f)
  <2>1. f \in Frames({BlockSize})
    BY <1>2, <1>3, FrameMade, ChunkOf DEF Sizes, Piece
  <2>2. toEcu \in Seq(Frames({BlockSize}))
    BY DEF IInv, Always, BusOK, QueueOK
  <2> HIDE DEF f
  <2> QED
    BY <1>1, <2>1, <2>2, Added
<1>7. Streaming
  BY <1>1, PhaseWhere DEF Smooth
<1>8. Chain(toEcu', req, Len(ecu.bytes), o, ecu.seq, s)
  <2>1. Chain(toEcu, req, Len(ecu.bytes), tx.off, ecu.seq, tx.seq)
    BY <1>7 DEF Streaming
  <2> QED
    BY <1>3, <1>4, <1>5, <1>6, <2>1, ChainSent
<1>9. Len(toEcu') = Len(toEcu) + 1
  BY <1>6 DEF Longer
<1> HIDE DEF f, o, s
<1>10. tx'.off = o /\ tx'.seq = s /\ tx'.block = tx.block + 1 /\ tx'.bs = tx.bs
  BY <1>1, <1>2 DEF Txs
<1>11. /\ tx.bs = ecu.bs /\ ecu.st = "recv" /\ Len(toTester) = 0 /\ Len(ecu.bytes) < req.len
       /\ tx.bs # 0 => tx.block < tx.bs /\ ecu.block + Len(toEcu) = tx.block
  BY <1>1, <1>7 DEF Streaming
<1>12. /\ tx.bs # 0 => ecu.block + Len(toEcu') = tx.block + 1 /\ tx.block + 1 <= tx.bs
       /\ SentBlock => tx.bs # 0 /\ tx.block + 1 = tx.bs /\ ecu.block < tx.bs
       /\ ~SentBlock /\ tx.bs # 0 => tx.block + 1 < tx.bs
  <2> DEFINE e == ecu.block
             t == tx.block
             m == tx.bs
             n == Len(toEcu)
             l == Len(toEcu')
  <2>1. e \in Nat /\ t \in Nat /\ m \in Nat /\ n \in Nat /\ l = n + 1 /\ (m # 0 => t < m /\ e + n = t)
    BY <1>2, <1>9, <1>11 DEF Sizes
  <2> HIDE DEF e, t, m, n, l
  <2>2. m # 0 => e + l = t + 1 /\ t + 1 <= m /\ e < m
    BY <2>1
  <2>3. m # 0 /\ t + 1 >= m => t + 1 = m
    BY <2>1
  <2>4. m # 0 /\ ~(t + 1 >= m) => t + 1 < m
    BY <2>1
  <2>5. SentBlock <=> m # 0 /\ t + 1 >= m
    BY DEF SentBlock, m, t
  <2> QED
    BY <2>2, <2>3, <2>4, <2>5 DEF e, t, m, l
<1>13. pc' \in {"pdu", "flow", "send"} /\ (pc' = "flow" => SentBlock) /\ (pc' = "send" => ~SentBlock)
  BY <1>1
<1>14. Chain(toEcu', req', Len(ecu'.bytes), tx'.off, ecu'.seq, tx'.seq)
  BY <1>1, <1>8, <1>10
<1>15. /\ ecu'.bs # 0 => ecu'.block + Len(toEcu') <= ecu'.bs
       /\ pc' = "send" => tx'.bs = ecu'.bs
       /\ pc' = "send" /\ tx'.bs # 0 => tx'.block < tx'.bs /\ ecu'.block + Len(toEcu') = tx'.block
       /\ pc' = "flow" => ecu'.bs # 0 /\ ecu'.block < ecu'.bs /\ ecu'.block + Len(toEcu') = ecu'.bs
  BY <1>1, <1>10, <1>11, <1>12, <1>13
<1>16. ecu'.st = "recv" /\ Len(toTester') = 0 /\ Len(ecu'.bytes) < req'.len
  BY <1>1, <1>11
<1>17. Streaming'
  BY <1>13, <1>14, <1>15, <1>16 DEF Streaming
<1>18. result.status # "broken"
  BY <1>1 DEF IInv, Always, LocalsOK
<1> QED
  BY <1>1, <1>17, <1>18 DEF Kept, Phase

\* Where the ends are after a step that keeps them in step.
LEMMA RestNext ==
    ASSUME IInv', clean', ~repeated', pc' = "idle"
    PROVE  Rest'
BY DEF IInv, InStep, Rest, AskShort, AskLong, AnswerShort, AnswerLong

\* Where the tester is when the ECU has a whole request.
LEMMA AnswerNext ==
    ASSUME IInv', clean', ~repeated', ecu'.st = "answer"
    PROVE  pc' = "pdu"
BY DEF IInv, InStep, Rest, AskShort, AskLong, AnswerShort, AnswerLong

\* A whole PDU at the head of the queue.
LEMMA PduHead ==
    ASSUME IInv, clean, ~repeated, pc = "pdu", Len(toTester) > 0, toTester[1].type \in {"SF", "FF"}
    PROVE  /\ toTester[1].type = "SF" => Responds(toTester[1], req, given)
           /\ toTester[1].type = "FF" =>
                \E p \in given : /\ FirstOf(toTester[1], p) /\ p.to = req /\ p.len > SfCap
                                 /\ ecu.st = "flow" => ecu.pdu = p
<1> DEFINE f == toTester[1]
<1>1. 1 \in 1..Len(toTester)
  <2>1. Sizes
    BY Sized DEF IInv
  <2> QED
    BY <2>1 DEF Sizes
<1>2. AnswerShort \/ \E p \in given, off \in Nat : AnswerLong(p, off)
  <2>1. ~Only(toTester, {"FC"})
    BY <1>1 DEF Only
  <2>2. ~AskShort /\ ~AskLong
    BY <2>1 DEF AskShort, AskLong
  <2> QED
    BY <2>2, StepWhere DEF IInv
<1> HIDE DEF f
<1>3. CASE AnswerShort
  <2>1. f.type = "FC" \/ Responds(f, req, given)
    BY <1>1, <1>3, Zenon DEF AnswerShort, Answers, f
  <2>2. Responds(f, req, given)
    BY <2>1 DEF f
  <2>3. f.type = "SF"
    BY <2>2, RespondsFacts
  <2> QED
    BY <2>2, <2>3 DEF f
<1>4. ASSUME NEW p \in given, NEW off \in Nat, AnswerLong(p, off)
      PROVE  /\ f.type = "SF" => Responds(f, req, given)
             /\ f.type = "FF" => FirstOf(f, p) /\ p.to = req /\ p.len > SfCap /\ (ecu.st = "flow" => ecu.pdu = p)
  <2>1. AllWait(toTester, req, given) /\ Pieces(toTester, p, off) /\ p.to = req /\ p.len > SfCap
        /\ (ecu.st = "flow" => ecu.pdu = p)
    BY <1>4 DEF AnswerLong
  <2>2. f.type = "SF" => Responds(f, req, given)
    BY <1>1, <2>1, Zenon DEF AllWait, f
  <2>3. f.type = "FF" => FirstOf(f, p)
    BY <1>1, <2>1, Zenon DEF Pieces, f
  <2> QED
    BY <2>1, <2>2, <2>3
<1> QED
  BY <1>2, <1>3, <1>4, Zenon DEF f

Cut == \E why \in {"limit", "refused"} : Failed(why)

\* A failure that is not a break.
LEMMA CutKept == Cut => Kept
BY DEF Cut, Failed, Result, Kept

\* What becomes of a response to the request.
LEMMA ReceivedResponse ==
    ASSUME NEW bytes, Meaning(bytes).to = req, Received(bytes)
    PROVE  WaitsOn(bytes) \/ Returns(bytes) \/ Cut
<1>1. strip_response_for_request(bytes)
  BY DEF strip_response_for_request
<1>2. is_response_pending_for(bytes) => Meaning(bytes).kind = "pending"
  BY DEF is_response_pending_for
<1> QED
  BY <1>1, <1>2, Zenon DEF Received, WaitsOn, Returns, Cut

\* What the tester makes of it.
LEMMA PduOutcome ==
    ASSUME IInv, Smooth, recv_pdu
    PROVE  /\ recv_frame /\ pc = "pdu" /\ UNCHANGED <<ecu, repeated, req, faults>>
           /\ LET f == toTester[1] IN
              \/ f.type = "SF" /\ (WaitsOn(f.data) \/ Returns(f.data)) /\ UNCHANGED toEcu
              \/ StartsPdu(f)
              \/ Cut
<1> DEFINE f == toTester[1]
<1>1. recv_frame /\ pc = "pdu" /\ UNCHANGED <<ecu, repeated, req, faults>>
  BY DEF recv_pdu
<1>2. Head(toTester) = f /\ 1 \in 1..Len(toTester) /\ Len(toTester) > 0
  BY <1>1, TesterPops DEF IInv, Popped
<1>3. Thinking \/ OneAnswered \/ AnswerOpens
  <2>1. OneAsked \/ Streaming \/ Thinking \/ OneAnswered \/ AnswerOpens
    BY <1>1, PhaseWhere DEF Smooth
  <2> QED
    BY <1>2, <2>1 DEF OneAsked, Streaming
<1>4. f.type \in {"SF", "FF"}
  BY <1>2, <1>3 DEF Thinking, OneAnswered, AnswerOpens, AllSingle
<1>5. /\ f.type = "SF" => Responds(f, req, given)
      /\ f.type = "FF" => \E p \in given : /\ FirstOf(f, p) /\ p.to = req /\ p.len > SfCap
                                           /\ ecu.st = "flow" => ecu.pdu = p
  BY <1>1, <1>2, <1>4, PduHead DEF Smooth
<1>6. f.type = "SF" => Meaning(f.data).to = req
  BY <1>5, RespondsFacts
<1>7. f.type = "FF" => f.len > SfCap /\ ~(f.len <= SfCap)
  <2> SUFFICES ASSUME f.type = "FF" PROVE f.len > SfCap /\ ~(f.len <= SfCap)
    OBVIOUS
  <2>1. PICK p \in given : FirstOf(f, p) /\ p.len > SfCap
    BY <1>5
  <2>2. f.len = p.len
    BY <2>1 DEF FirstOf, First
  <2>3. p.len \in Nat /\ SfCap \in Nat
    BY BytesOf, IsoTpAssumption DEF IInv, Always, CallOK, Pdus
  <2> HIDE DEF f
  <2> QED
    BY <2>1, <2>2, <2>3
<1> HIDE DEF f
<1>8. \/ f.type = "SF" /\ Received(f.data) /\ UNCHANGED toEcu
      \/ StartsPdu(f)
      \/ Cut
  <2> DEFINE h == Head(toTester)
             fits == h.type \in {"SF", "FF"} /\ validate_pdu_len(IF h.type = "SF" THEN Len(h.data) ELSE h.len)
  <2>1. CASE h.type = "SF" /\ fits /\ Received(h.data) /\ UNCHANGED toEcu
    BY <1>2, <2>1, Zenon
  <2>2. CASE /\ h.type = "FF" /\ h.len > SfCap /\ fits
             /\ toEcu' = Append(toEcu, FlowControl("cts", BlockSize))
             /\ rx' = [bytes |-> h.data, len |-> h.len, seq |-> 1, block |-> 0]
             /\ count' = [NoCount EXCEPT !.pending = count.pending]
             /\ pc' = "cont"
             /\ UNCHANGED <<tx, result, clean>>
    <3>1. h.type # "SF"
      BY <2>2
    <3>2. validate_pdu_len(h.len)
      BY <2>2, <3>1
    <3>3. StartsPdu(h)
      BY <2>2, <3>2, Zenon DEF StartsPdu
    <3> QED
      BY <1>2, <3>3
  <2>3. CASE /\ \/ h.type \in {"SF", "FF"} /\ ~fits /\ Failed("refused")
                \/ h.type = "FF" /\ h.len <= SfCap /\ fits /\ Failed("broken")
                \/ h.type \notin {"SF", "FF"} /\ Failed("broken")
             /\ UNCHANGED toEcu
    <3> HIDE DEF fits
    <3>1. Failed("refused")
      BY <1>2, <1>4, <1>7, <2>3, Zenon
    <3> QED
      BY <3>1 DEF Cut
  <2> QED
    BY <2>1, <2>2, <2>3, Zenon DEF recv_pdu
<1>9. Received(f.data) /\ f.type = "SF" => WaitsOn(f.data) \/ Returns(f.data) \/ Cut
  BY <1>6, ReceivedResponse
<1> QED
  BY <1>1, <1>8, <1>9, Zenon DEF f

\* The phase when the tester reads the beginning of a PDU.
LEMMA PduKept ==
    ASSUME IInv, IInv', Smooth, recv_pdu
    PROVE  Kept
<1> DEFINE f == toTester[1]
<1>1. /\ recv_frame /\ pc = "pdu" /\ UNCHANGED <<ecu, repeated, req, faults>>
      /\ \/ f.type = "SF" /\ (WaitsOn(f.data) \/ Returns(f.data)) /\ UNCHANGED toEcu
         \/ StartsPdu(f)
         \/ Cut
  BY PduOutcome
<1>2. Popped(toTester', toTester) /\ 1 \in 1..Len(toTester)
  BY <1>1, TesterPops DEF IInv
<1>3. /\ Len(toTester) \in Nat /\ Len(toTester') \in Nat /\ Len(toTester') = Len(toTester) - 1 /\ Len(toTester) > 0
      /\ \A i \in 1..Len(toTester') : i + 1 \in 1..Len(toTester) /\ toTester'[i] = toTester[i + 1]
  BY <1>2 DEF Popped, After
<1>4. Thinking \/ OneAnswered \/ AnswerOpens
  <2>1. OneAsked \/ Streaming \/ Thinking \/ OneAnswered \/ AnswerOpens
    BY <1>1, PhaseWhere DEF Smooth
  <2> QED
    BY <1>3, <2>1 DEF OneAsked, Streaming
<1>5. AllSingle(toTester) => AllSingle(toTester')
  BY <1>3 DEF AllSingle
<1>6. /\ Len(toTester') > 0 => toTester'[Len(toTester')] = toTester[Len(toTester)]
      /\ Len(toTester') = 0 => toTester[Len(toTester)] = f
  <2>1. Len(toTester') > 0 => Len(toTester') \in 1..Len(toTester') /\ Len(toTester') + 1 = Len(toTester)
    BY <1>3
  <2>2. Len(toTester') = 0 => Len(toTester) = 1
    BY <1>3
  <2> QED
    BY <1>3, <2>1, <2>2
<1>7. result.status # "broken" /\ ~repeated
  BY DEF Smooth
<1> HIDE DEF f
<1>8. CASE WaitsOn(f.data) /\ f.type = "SF" /\ UNCHANGED toEcu
  <2>1. pc' = "pdu" /\ result' = result /\ Waits(f)
    BY <1>8 DEF WaitsOn, Waits
  <2>2. CASE Thinking
    <3>1. Thinking'
      BY <1>1, <1>5, <1>8, <2>1, <2>2 DEF Thinking
    <3> QED
      BY <1>7, <2>1, <3>1 DEF Kept, Phase
  <2>3. CASE OneAnswered
    <3>1. Len(toTester') > 0 /\ ~Waits(toTester'[Len(toTester')])
      BY <1>3, <1>6, <2>1, <2>3 DEF OneAnswered
    <3>2. OneAnswered'
      BY <1>1, <1>5, <1>8, <2>1, <2>3, <3>1 DEF OneAnswered
    <3> QED
      BY <1>7, <2>1, <3>2 DEF Kept, Phase
  <2>4. CASE AnswerOpens
    <3>1. Len(toTester) > 1
      BY <1>2, <1>3, <1>8, <2>4 DEF AnswerOpens, f
    <3>2. \A i \in 1..Len(toTester') : toTester'[i].type = IF i = Len(toTester') THEN "FF" ELSE "SF"
      <4> SUFFICES ASSUME NEW i \in 1..Len(toTester')
                   PROVE  toTester'[i].type = IF i = Len(toTester') THEN "FF" ELSE "SF"
        OBVIOUS
      <4>1. i + 1 \in 1..Len(toTester) /\ toTester'[i] = toTester[i + 1] /\ (i = Len(toTester') <=> i + 1 = Len(toTester))
        BY <1>3
      <4>2. toTester[i + 1].type = IF i + 1 = Len(toTester) THEN "FF" ELSE "SF"
        BY <2>4, <4>1 DEF AnswerOpens
      <4> QED
        BY <4>1, <4>2
    <3>3. Len(toTester') > 0
      BY <1>3, <3>1
    <3>4. AnswerOpens'
      BY <1>1, <1>8, <2>1, <2>4, <3>2, <3>3 DEF AnswerOpens
    <3> QED
      BY <1>7, <2>1, <3>4 DEF Kept, Phase
  <2> QED
    BY <1>4, <2>2, <2>3, <2>4
<1>9. CASE Returns(f.data) /\ UNCHANGED toEcu
  <2>1. pc' = "idle" /\ result'.status # "broken"
    BY <1>9 DEF Returns, Result
  <2>2. ASSUME clean' PROVE AtRest'
    <3>1. Rest'
      BY <1>1, <1>7, <2>1, <2>2, RestNext
    <3>2. OneAnswered
      BY <1>1, <1>4, <3>1 DEF Rest, Thinking, AnswerOpens
    <3>3. AllSingle(toTester') /\ Only(toTester', {"FC"})
      BY <1>5, <3>1, <3>2 DEF OneAnswered, Rest
    <3>4. Len(toTester') = 0
      <4> SUFFICES ASSUME Len(toTester') > 0 PROVE FALSE
        BY <1>3
      <4>1. 1 \in 1..Len(toTester')
        BY <1>3
      <4> QED
        BY <3>3, <4>1 DEF AllSingle, Only
    <3> QED
      BY <1>9, <2>1, <3>1, <3>2, <3>4 DEF AtRest, Rest, OneAnswered
  <2> QED
    BY <2>1, <2>2 DEF Kept, Phase
<1>10. CASE StartsPdu(f)
  <2>1. AnswerOpens /\ Len(toTester) = 1
    BY <1>2, <1>4, <1>10 DEF StartsPdu, Thinking, OneAnswered, AnswerOpens, AllSingle, f
  <2>2. PICK p \in given : FirstOf(f, p) /\ p.to = req /\ p.len > SfCap /\ ecu.pdu = p
    <3>1. f.type = "FF" /\ ecu.st = "flow"
      BY <1>10, <2>1 DEF StartsPdu, AnswerOpens
    <3>2. \E p \in given : FirstOf(f, p) /\ p.to = req /\ p.len > SfCap /\ (ecu.st = "flow" => ecu.pdu = p)
      BY <1>1, <1>3, <3>1, PduHead DEF Smooth, f
    <3> QED
      BY <3>1, <3>2, Zenon
  <2>3. p \in Pdus /\ p.len \in Nat
    BY BytesOf DEF IInv, Always, CallOK, Pdus
  <2>4. FfCap \in Nat /\ SfCap \in Nat /\ FfCap < SfCap
    BY IsoTpAssumption
  <2>5. FirstPart(f.data, p) /\ f.len = p.len
    <3>1. FfCap <= p.len
      BY <2>2, <2>3, <2>4
    <3>2. f.data = SubSeq(Bytes(p), 1, FfCap) /\ f.len = p.len
      BY <2>2 DEF FirstOf, First
    <3> QED
      BY <2>3, <3>1, <3>2, FirstBytes
  <2>6. /\ pc' = "cont" /\ rx'.bytes = f.data /\ rx'.len = f.len /\ rx'.seq = 1 /\ rx'.block = 0
        /\ result' = result /\ toEcu' = Append(toEcu, FlowControl("cts", BlockSize))
    BY <1>10 DEF StartsPdu
  <2>7. /\ ecu.st = "flow" /\ Len(toEcu) = 0 /\ ecu.off = FfCap /\ ecu.seq = 1 /\ p.kind = "positive"
    BY <2>1, <2>2 DEF AnswerOpens
  <2>8. Len(toEcu') = 1 /\ toEcu'[1].type = "FC"
    <3>1. FlowControl("cts", BlockSize).type = "FC"
      BY DEF FlowControl
    <3>2. toEcu \in Seq(Frames({BlockSize}))
      BY DEF IInv, Always, BusOK, QueueOK
    <3> QED
      BY <2>6, <2>7, <3>1, <3>2
  <2>9. Incoming(p)'
    <3>1. Len(rx'.bytes) < p.len /\ Meaning(rx'.bytes) = p
      BY <2>2, <2>3, <2>4, <2>5, <2>6 DEF FirstPart
    <3> QED
      BY <1>1, <2>2, <2>5, <2>6, <2>7, <3>1 DEF Incoming
  <2>10. Resumed(p)'
    BY <1>1, <1>3, <2>1, <2>2, <2>5, <2>6, <2>7, <2>8 DEF Resumed, FirstPart
  <2> QED
    BY <1>7, <2>6, <2>9, <2>10 DEF Kept, Phase, Transfers
<1>11. CASE Cut
  BY <1>11, CutKept
<1> QED
  BY <1>1, <1>8, <1>9, <1>10, <1>11

\* The next frame of the answer continues it, and the tester sees that.
LEMMA ContinuesAnswer ==
    ASSUME IInv, NEW p, Incoming(p), NEW x, NEW t,
           Chain(toTester, p, Len(rx.bytes), x, rx.seq, t), Popped(toTester', toTester)
    PROVE  /\ p \in Pdus /\ Continues(toTester[1])
           /\ NextOff(p, Len(rx.bytes)) \in Nat /\ NextOff(p, Len(rx.bytes)) <= p.len
           /\ Len(Grown(toTester[1])) = NextOff(p, Len(rx.bytes)) /\ Meaning(Grown(toTester[1])) = p
           /\ Chain(toTester', p, NextOff(p, Len(rx.bytes)), x, NextSeq(rx.seq), t)
<1> DEFINE f == toTester[1]
           a == Len(rx.bytes)
           z == NextOff(p, a)
<1>1. p \in Pdus /\ rx.bytes # <<>> /\ rx.len = p.len /\ Meaning(rx.bytes) = p
  BY DEF Incoming, IInv, Always, ExchangeOK, CallOK, Pdus
<1>2. a \in Nat /\ LocalsOK
  BY Sized DEF Sizes, IInv, Always
<1>3. a < p.len /\ f = Consecutive(rx.seq, Chunk(p, a)) /\ Chain(toTester', p, z, x, NextSeq(rx.seq), t)
  BY ChainRead
<1>4. /\ Piece(Chunk(p, a), p, a)
      /\ z \in Nat /\ a < z /\ z <= p.len
  BY <1>1, <1>2, <1>3, ChunkOf
<1>5. f.type = "CF" /\ f.seq = rx.seq /\ f.data = Chunk(p, a)
  BY <1>3 DEF Consecutive
<1>6. f.data \in PduBytes /\ Len(f.data) = z - a /\ Len(f.data) > 0
  BY <1>4, <1>5 DEF Piece
<1> HIDE DEF f, a, z
<1>7. f.data # <<>>
  BY <1>6
<1>8. Len(rx.bytes) + Len(f.data) <= rx.len
  BY <1>1, <1>2, <1>4, <1>6 DEF a
<1>9. Grown(f) = rx.bytes \o f.data /\ Meaning(Grown(f)) = Meaning(rx.bytes)
  BY <1>1, <1>2, <1>6, <1>8, GrownBytes
<1>10. Len(rx.bytes \o f.data) = a + Len(f.data)
  <2>1. rx.bytes \in PduBytes
    BY <1>2 DEF LocalsOK, Rxs
  <2> QED
    BY <1>1, <1>6, <2>1, BytesJoined DEF a
<1>11. Len(Grown(f)) = z
  BY <1>2, <1>4, <1>6, <1>9, <1>10
<1>12. Continues(f)
  BY <1>5, <1>7 DEF Continues
<1> QED
  BY <1>1, <1>3, <1>4, <1>9, <1>11, <1>12 DEF f, a, z

\* What recv_consecutive does with it.
TakesMore(f) ==
    /\ Len(Grown(f)) < rx.len
    /\ rx'.bytes = Grown(f) /\ rx'.len = rx.len /\ rx'.seq = NextSeq(rx.seq)
    /\ rx'.block = IF ReceivedBlock THEN 0 ELSE rx.block + 1
    /\ toEcu' = IF ReceivedBlock THEN Append(toEcu, FlowControl("cts", BlockSize)) ELSE toEcu
    /\ UNCHANGED <<pc, result, clean>>

TakesLast(f) ==
    /\ ~(Len(Grown(f)) < rx.len)
    /\ pc' = "idle" /\ result'.status = "ok" /\ UNCHANGED toEcu

\* A frame that continues a response to the request is taken, and the last one ends the exchange.
LEMMA AnswerTaken ==
    ASSUME IInv, recv_consecutive, Continues(toTester[1]), Meaning(Grown(toTester[1])).to = req,
           Meaning(Grown(toTester[1])).kind = "positive"
    PROVE  TakesMore(toTester[1]) \/ TakesLast(toTester[1])
<1> DEFINE f == toTester[1]
<1>1. Head(toTester) = f
  <2>1. recv_frame
    BY DEF recv_consecutive
  <2> QED
    BY <2>1, TesterPops DEF IInv
<1> HIDE DEF f
<1>2. \/ /\ Len(Grown(f)) < rx.len
         /\ rx' = [rx EXCEPT !.bytes = Grown(f), !.seq = NextSeq(@),
                             !.block = IF ReceivedBlock THEN 0 ELSE @ + 1]
         /\ toEcu' = IF ReceivedBlock THEN Append(toEcu, FlowControl("cts", BlockSize)) ELSE toEcu
         /\ UNCHANGED <<pc, tx, result, clean>>
      \/ ~(Len(Grown(f)) < rx.len) /\ Received(Grown(f)) /\ UNCHANGED toEcu
  BY <1>1, Zenon DEF recv_consecutive, Grown, f
<1>3. CASE /\ Len(Grown(f)) < rx.len
           /\ rx' = [rx EXCEPT !.bytes = Grown(f), !.seq = NextSeq(@),
                               !.block = IF ReceivedBlock THEN 0 ELSE @ + 1]
           /\ toEcu' = IF ReceivedBlock THEN Append(toEcu, FlowControl("cts", BlockSize)) ELSE toEcu
           /\ UNCHANGED <<pc, tx, result, clean>>
  <2> DEFINE n == IF ReceivedBlock THEN 0 ELSE rx.block + 1
             s == NextSeq(rx.seq)
             b == Grown(f)
  <2>1. rx' = [rx EXCEPT !.bytes = b, !.seq = s, !.block = n]
    BY <1>3
  <2>2. rx \in [bytes : PduBytes, len : 0..MaxPayload, seq : 0..(SeqMod - 1), block : Nat]
    BY DEF IInv, Always, LocalsOK, Rxs
  <2> HIDE DEF n, s, b
  <2>3. rx'.bytes = b /\ rx'.len = rx.len /\ rx'.seq = s /\ rx'.block = n
    BY <2>1, <2>2
  <2> QED
    BY <1>3, <2>3, Zenon DEF TakesMore, n, s, b, f
<1>4. CASE ~(Len(Grown(f)) < rx.len) /\ Received(Grown(f)) /\ UNCHANGED toEcu
  <2>1. strip_response_for_request(Grown(f)) /\ ~is_response_pending_for(Grown(f))
    BY DEF strip_response_for_request, is_response_pending_for, f
  <2>2. pc' = "idle" /\ result' = Result("ok", Grown(f))
    BY <1>4, <2>1, Zenon DEF Received
  <2>3. result'.status = "ok"
    BY <2>2 DEF Result
  <2> QED
    BY <1>4, <2>2, <2>3, Zenon DEF TakesLast, f
<1> QED
  BY <1>2, <1>3, <1>4, Zenon

\* The phase when the tester reads a consecutive frame.
LEMMA ConsecutiveKept ==
    ASSUME IInv, IInv', Smooth, recv_consecutive
    PROVE  Kept
<1> DEFINE f == toTester[1]
           a == Len(rx.bytes)
<1>1. recv_frame /\ pc = "cont" /\ UNCHANGED <<ecu, repeated, req, faults>>
  BY DEF recv_consecutive
<1>2. Popped(toTester', toTester)
  BY <1>1, TesterPops DEF IInv
<1>3. Len(toTester) \in Nat /\ Len(toTester) > 0 /\ Len(toTester') = Len(toTester) - 1
  BY <1>2 DEF Popped
<1>4. PICK p : Incoming(p) /\ (Pouring(p) \/ Paused(p) \/ Poured(p))
  <2>1. Transfers
    BY <1>1, PhaseWhere DEF Smooth
  <2> QED
    BY <1>3, <2>1 DEF Transfers, Resumed
<1> DEFINE z == NextOff(p, a)
<1>5. PICK x, t : /\ Chain(toTester, p, a, x, rx.seq, t)
                  /\ Pouring(p) => x = ecu.off /\ t = ecu.seq
                  /\ Paused(p) => x = ecu.off /\ t = ecu.seq
                  /\ Poured(p) => x = p.len
  <2>1. CASE Pouring(p) \/ Paused(p)
    <3>1. Chain(toTester, p, a, ecu.off, rx.seq, ecu.seq) /\ ~Poured(p)
      BY <2>1 DEF Pouring, Paused, Poured
    <3> HIDE DEF a
    <3> QED
      BY <3>1, Zenon
  <2>2. CASE Poured(p)
    <3>1. (\E t : Chain(toTester, p, a, p.len, rx.seq, t)) /\ ~Pouring(p) /\ ~Paused(p)
      BY <2>2 DEF Pouring, Paused, Poured
    <3> HIDE DEF a
    <3> QED
      BY <3>1, Zenon
  <2> QED
    BY <1>4, <2>1, <2>2
<1>6. /\ p \in Pdus /\ Continues(f) /\ z \in Nat /\ z <= p.len
      /\ Len(Grown(f)) = z /\ Meaning(Grown(f)) = p
      /\ Chain(toTester', p, z, x, NextSeq(rx.seq), t)
  BY <1>2, <1>4, <1>5, ContinuesAnswer
<1>7. p.to = req /\ p.kind = "positive" /\ rx.len = p.len /\ Len(rx.bytes) < p.len
  BY <1>4 DEF Incoming
<1>8. TakesMore(f) \/ TakesLast(f)
  BY <1>6, <1>7, AnswerTaken
<1>9. /\ Len(toTester') = 0 => z = x /\ NextSeq(rx.seq) = t
      /\ \A i \in 1..Len(toTester') : toTester'[i].type = "CF"
  <2>1. Len(toTester') \in Nat
    BY <1>3
  <2> QED
    BY <1>6, <2>1, ChainEnds
<1>10. Sizes /\ BlockSize \in Nat
  BY Sized, IsoTpAssumption DEF IInv
<1>11. result.status # "broken" /\ ~repeated
  BY DEF Smooth
<1> HIDE DEF f, a, z
<1>12. CASE TakesMore(f)
  <2>1. /\ Len(rx'.bytes) = z /\ z < p.len /\ Meaning(rx'.bytes) = p /\ rx'.len = p.len /\ rx'.seq = NextSeq(rx.seq)
        /\ pc' = "cont" /\ result' = result
    BY <1>1, <1>6, <1>7, <1>12 DEF TakesMore
  <2>2. Incoming(p)'
    BY <1>1, <1>7, <2>1 DEF Incoming
  <2>3. Chain(toTester', p, Len(rx'.bytes), x, rx'.seq, t)
    BY <1>6, <2>1
  <2>4. ~ReceivedBlock => rx'.block = rx.block + 1 /\ toEcu' = toEcu
    BY <1>12, Zenon DEF TakesMore
  <2>5. CASE Pouring(p)
    <3>1. BlockSize # 0 => ecu.block < BlockSize /\ rx.block + Len(toTester) = ecu.block
      BY <2>5 DEF Pouring
    <3>2. BlockSize # 0 => rx.block + 1 < BlockSize
      BY <1>3, <1>10, <3>1 DEF Sizes
    <3>3. ~ReceivedBlock
      BY <1>10, <3>2 DEF ReceivedBlock, Sizes
    <3>4. BlockSize # 0 => rx'.block + Len(toTester') = ecu.block
      BY <1>3, <1>10, <2>4, <3>1, <3>3 DEF Sizes
    <3>5. Pouring(p)'
      BY <1>1, <1>5, <2>3, <2>4, <2>5, <3>1, <3>3, <3>4 DEF Pouring
    <3> QED
      BY <1>11, <2>1, <2>2, <3>5 DEF Kept, Phase, Transfers
  <2>6. CASE Paused(p)
    <3>1. BlockSize # 0 /\ rx.block < BlockSize /\ rx.block + Len(toTester) = BlockSize
      BY <2>6 DEF Paused
    <3>2. CASE Len(toTester) = 1
      <4>1. ReceivedBlock
        BY <1>10, <3>1, <3>2 DEF ReceivedBlock, Sizes
      <4>2. rx'.block = 0 /\ toEcu' = Append(toEcu, FlowControl("cts", BlockSize))
        BY <1>12, <4>1, Zenon DEF TakesMore
      <4>3. Len(toEcu') = 1 /\ toEcu'[1].type = "FC"
        <5>1. FlowControl("cts", BlockSize).type = "FC"
          BY DEF FlowControl
        <5>2. toEcu \in Seq(Frames({BlockSize})) /\ Len(toEcu) = 0
          BY <2>6 DEF IInv, Always, BusOK, QueueOK, Paused
        <5> QED
          BY <4>2, <5>1, <5>2
      <4>4. Len(toTester') = 0 /\ ecu.off = Len(rx'.bytes) /\ ecu.seq = rx'.seq
        BY <1>3, <1>5, <1>9, <2>1, <2>6, <3>2
      <4>5. Resumed(p)'
        BY <1>1, <2>6, <4>2, <4>3, <4>4 DEF Resumed, Paused
      <4> QED
        BY <1>11, <2>1, <2>2, <4>5 DEF Kept, Phase, Transfers
    <3>3. CASE Len(toTester) # 1
      <4>1. Len(toTester) > 1
        BY <1>3, <3>3
      <4>2. rx.block + 1 < BlockSize
        BY <1>10, <3>1, <4>1 DEF Sizes
      <4>3. ~ReceivedBlock
        BY <1>10, <4>2 DEF ReceivedBlock, Sizes
      <4>4. rx'.block < BlockSize /\ rx'.block + Len(toTester') = BlockSize
        <5>1. rx.block \in Nat /\ rx'.block = rx.block + 1
          BY <1>10, <2>4, <4>3, Zenon DEF Sizes
        <5> QED
          BY <1>3, <1>10, <3>1, <4>2, <5>1
      <4>5. Paused(p)'
        BY <1>1, <1>5, <2>3, <2>4, <2>6, <3>1, <4>3, <4>4 DEF Paused
      <4> QED
        BY <1>11, <2>1, <2>2, <4>5 DEF Kept, Phase, Transfers
    <3> QED
      BY <3>2, <3>3
  <2>7. CASE Poured(p)
    <3>1. x = p.len /\ (BlockSize # 0 => rx.block + Len(toTester) <= BlockSize)
      BY <1>5, <2>7 DEF Poured
    <3>2. Len(toTester') # 0
      BY <1>6, <1>9, <2>1, <3>1, BytesOf
    <3>3. Len(toTester) > 1
      BY <1>3, <3>2
    <3>4. BlockSize # 0 => rx.block + 1 < BlockSize
      BY <1>10, <3>1, <3>3 DEF Sizes
    <3>5. ~ReceivedBlock
      BY <1>10, <3>4 DEF ReceivedBlock, Sizes
    <3>6. BlockSize # 0 => rx'.block + Len(toTester') <= BlockSize
      BY <1>3, <1>10, <2>4, <3>1, <3>5 DEF Sizes
    <3>7. Chain(toTester', p, Len(rx'.bytes), p.len, rx'.seq, t)
      BY <2>3, <3>1
    <3>8. Poured(p)'
      BY <1>1, <2>4, <2>7, <3>5, <3>6, <3>7 DEF Poured
    <3> QED
      BY <1>11, <2>1, <2>2, <3>8 DEF Kept, Phase, Transfers
  <2> QED
    BY <1>4, <2>5, <2>6, <2>7
<1>13. CASE TakesLast(f)
  <2>1. pc' = "idle" /\ result'.status = "ok" /\ toEcu' = toEcu
    BY <1>13 DEF TakesLast
  <2>2. ASSUME clean' PROVE AtRest'
    <3>1. Rest'
      BY <1>1, <1>11, <2>1, <2>2, RestNext
    <3>2. ecu'.st = "idle" /\ Len(toEcu') = 0
      BY <1>1, <1>4, <2>1, <3>1 DEF Rest, Pouring, Paused, Poured
    <3>3. Len(toTester') = 0
      <4> SUFFICES ASSUME Len(toTester') > 0 PROVE FALSE
        BY <1>3
      <4>1. 1 \in 1..Len(toTester')
        BY <1>3
      <4> QED
        BY <1>9, <3>1, <4>1 DEF Rest, Only
    <3> QED
      BY <2>1, <3>2, <3>3 DEF AtRest
  <2> QED
    BY <2>1, <2>2 DEF Kept, Phase
<1> QED
  BY <1>8, <1>12, <1>13

\* In no phase does the tester wait for a frame that nobody is going to send.
LEMMA NeverQuiet ==
    ASSUME IInv, Smooth, Awaiting
    PROVE  ~Quiet
<1> SUFFICES ASSUME Quiet PROVE FALSE
  OBVIOUS
<1>1. /\ Len(toEcu) = 0 /\ Len(toTester) = 0 /\ ecu.st \in {"idle", "recv", "flow"}
      /\ Sizes /\ BlockSize \in Nat
  <2>1. Sizes
    BY Sized DEF IInv
  <2> QED
    BY <2>1, IsoTpAssumption DEF Quiet, Sizes
<1>2. CASE Streaming
  <2>1. /\ Chain(toEcu, req, Len(ecu.bytes), tx.off, ecu.seq, tx.seq) /\ Len(ecu.bytes) < req.len
        /\ pc = "flow" => ecu.block < ecu.bs /\ ecu.block + Len(toEcu) = ecu.bs
        /\ pc \in {"flow", "send", "pdu"} /\ ecu.st = "recv"
    BY <1>2 DEF Streaming
  <2>2. Len(ecu.bytes) = tx.off
    BY <1>1, <2>1, ChainEnds
  <2>3. pc # "flow"
    BY <1>1, <2>1 DEF Sizes
  <2>4. pc = "pdu"
    BY <2>1, <2>3 DEF Awaiting
  <2>5. tx.off = req.len
    <3>1. AskLong
      BY <2>1, <2>4, StepWhere DEF Smooth, IInv, AskShort, AnswerShort, AnswerLong
    <3> QED
      BY <2>4, <3>1 DEF AskLong
  <2> QED
    BY <1>1, <2>1, <2>2, <2>5 DEF Sizes
<1>3. CASE Transfers
  <2>1. PICK p : Incoming(p) /\ (Resumed(p) \/ Pouring(p) \/ Paused(p) \/ Poured(p))
    BY <1>3, Zenon DEF Transfers
  <2>2. Paused(p) \/ Poured(p)
    BY <1>1, <2>1 DEF Resumed, Pouring
  <2>3. ~Paused(p)
    BY <1>1 DEF Paused, Sizes
  <2>4. PICK t : Chain(toTester, p, Len(rx.bytes), p.len, rx.seq, t)
    BY <2>2, <2>3, Zenon DEF Poured
  <2>5. Len(rx.bytes) = p.len
    BY <1>1, <2>4, ChainEnds
  <2> QED
    BY <1>1, <2>1, <2>5 DEF Incoming, Sizes
<1>4. ~Holding /\ ~Cleared /\ ~OneAsked /\ ~Opening /\ ~Thinking /\ ~OneAnswered /\ ~AnswerOpens
  BY <1>1 DEF Holding, Cleared, OneAsked, Opening, Thinking, OneAnswered, AnswerOpens
<1>5. ~AtRest
  BY DEF AtRest, Awaiting
<1> QED
  BY <1>2, <1>3, <1>4, <1>5 DEF Smooth, Phase

\* Where nothing moves that a phase is about, the phase stays.
LEMMA SamePhase ==
    ASSUME Phase, UNCHANGED <<req, pc, tx, rx, toEcu, toTester, ecu>>
    PROVE  Phase'
<1>1. CASE AtRest \/ OneAsked \/ Opening \/ Holding \/ Cleared \/ Streaming \/ Thinking \/ OneAnswered \/ AnswerOpens
  BY <1>1 DEF Phase, AtRest, OneAsked, Opening, Holding, Cleared, Streaming, Thinking, OneAnswered, AnswerOpens
<1>2. CASE Transfers
  <2>1. PICK p : Incoming(p) /\ (Resumed(p) \/ Pouring(p) \/ Paused(p) \/ Poured(p))
    BY <1>2, Zenon DEF Transfers
  <2>2. Incoming(p)' /\ (Resumed(p)' \/ Pouring(p)' \/ Paused(p)' \/ Poured(p)')
    BY <2>1 DEF Incoming, Resumed, Pouring, Paused, Poured
  <2> QED
    BY <2>2 DEF Phase, Transfers
<1> QED
  BY <1>1, <1>2 DEF Phase

\* The phase when a read gives nothing for the exchange.
LEMMA NoiseKept ==
    ASSUME IInv, Smooth, ReadUnrelated \/ ReadForeign \/ ReadFails
    PROVE  Kept
<1>1. CASE ReadFails
  <2>1. faults' = faults + 1
    BY <1>1, NeverQuiet DEF ReadFails
  <2> QED
    BY <2>1 DEF Smooth, Kept
<1>2. CASE ReadUnrelated \/ ReadForeign
  <2>1. \/ UNCHANGED <<pc, tx, rx, result>>
        \/ Failed("limit")
    BY <1>2 DEF ReadUnrelated, ReadForeign
  <2>2. UNCHANGED <<req, toEcu, toTester, ecu>>
    BY <1>2 DEF ReadUnrelated, ReadForeign, bus
  <2>3. CASE Failed("limit")
    BY <2>3, CutKept DEF Cut
  <2>4. CASE UNCHANGED <<pc, tx, rx, result>>
    BY <2>2, <2>4, SamePhase DEF Smooth, Kept
  <2> QED
    BY <2>1, <2>3, <2>4
<1> QED
  BY <1>1, <1>2

\* The phase when the ECU sends flow control.
LEMMA GrantsKept ==
    ASSUME IInv, Smooth, EcuGrants
    PROVE  Kept
<1>1. /\ ecu.st = "grant" /\ UNCHANGED <<call, req, pc, tx, rx, result, toEcu>>
      /\ \/ \E bs \in EcuBlocks : /\ toTester' = Append(toTester, FlowControl("cts", bs))
                                  /\ ecu' = [ecu EXCEPT !.st = "recv", !.bs = bs, !.block = 0]
         \/ toTester' = Append(toTester, FlowControl("wait", 0)) /\ ecu' = ecu
         \/ faults' = faults + 1
  BY DEF EcuGrants, tester
<1>2. Holding /\ result.status # "broken" /\ Len(toTester) \in Nat
  <2>1. Sizes
    BY Sized DEF IInv
  <2> QED
    BY <1>1, <2>1, PhaseWhere DEF Smooth, Sizes
<1>3. toTester \in Seq(Frames(EcuBlocks \cup {0})) /\ ecu \in Ecus
  BY DEF IInv, Always, BusOK, QueueOK, EcuOK
<1>4. ASSUME NEW f, f \in Frames(EcuBlocks \cup {0}), toTester' = Append(toTester, f)
      PROVE  Longer(toTester', toTester, f)
  BY <1>3, <1>4, Added
<1>5. ASSUME NEW bs \in EcuBlocks, toTester' = Append(toTester, FlowControl("cts", bs)),
             ecu' = [ecu EXCEPT !.st = "recv", !.bs = bs, !.block = 0]
      PROVE  Cleared'
  <2> DEFINE f == FlowControl("cts", bs)
  <2>1. GoesAhead(f) /\ f.bs = bs
    BY DEF FlowControl, GoesAhead
  <2>2. Longer(toTester', toTester, f)
    <3>1. f \in Frames(EcuBlocks \cup {0}) /\ toTester' = Append(toTester, f)
      BY <1>5, FrameMade
    <3> HIDE DEF f
    <3> QED
      BY <1>4, <3>1
  <2> HIDE DEF f
  <2>3. ecu'.st = "recv" /\ ecu'.bs = bs /\ ecu'.block = 0 /\ ecu'.bytes = ecu.bytes /\ ecu'.seq = ecu.seq
    BY <1>3, <1>5 DEF Ecus
  <2>4. Len(toTester') = Len(toTester) + 1 /\ toTester'[Len(toTester')] = f /\ Len(toTester') > 0
    BY <1>2, <2>2 DEF Longer
  <2>5. LastGo(toTester', bs)
    <3> SUFFICES ASSUME NEW i \in 1..Len(toTester'), GoesAhead(toTester'[i])
                 PROVE  i = Len(toTester') /\ toTester'[i].bs = bs
      BY DEF LastGo
    <3>1. i \notin 1..Len(toTester)
      BY <1>2, <2>2 DEF Longer, Holding, Heeded
    <3>2. i = Len(toTester')
      BY <2>2, <3>1 DEF Longer
    <3> QED
      BY <2>1, <2>4, <3>2
  <2> QED
    BY <1>1, <1>2, <2>1, <2>3, <2>4, <2>5 DEF Cleared, Holding
<1>6. ASSUME toTester' = Append(toTester, FlowControl("wait", 0)), ecu' = ecu
      PROVE  Holding'
  <2> DEFINE f == FlowControl("wait", 0)
  <2>1. ~GoesAhead(f)
    BY DEF FlowControl, GoesAhead
  <2>2. Longer(toTester', toTester, f)
    <3>1. f \in Frames(EcuBlocks \cup {0}) /\ toTester' = Append(toTester, f)
      BY <1>6, FrameMade
    <3> HIDE DEF f
    <3> QED
      BY <1>4, <3>1
  <2> HIDE DEF f
  <2>3. Heeded(toTester')
    BY <1>2, <2>1, <2>2 DEF Longer, Heeded, Holding
  <2> QED
    BY <1>1, <1>2, <1>6, <2>3 DEF Holding
<1>7. CASE faults' = faults + 1
  BY <1>7 DEF Smooth, Kept
<1>8. CASE Cleared' \/ Holding'
  BY <1>1, <1>2, <1>8 DEF Kept, Phase
<1> QED
  BY <1>1, <1>5, <1>6, <1>7, <1>8

\* The phase when the ECU sends a consecutive frame of the answer.
LEMMA SendsKept ==
    ASSUME IInv, Smooth, EcuSends
    PROVE  Kept
<1> DEFINE f == Consecutive(ecu.seq, Chunk(ecu.pdu, ecu.off))
           o == NextOff(ecu.pdu, ecu.off)
           s == NextSeq(ecu.seq)
           full == ecu.bs # 0 /\ ecu.block + 1 >= ecu.bs
<1>1. /\ ecu.st = "send" /\ toTester' = Append(toTester, f)
      /\ UNCHANGED <<req, pc, tx, rx, result, toEcu>>
      /\ ecu' = IF o >= ecu.pdu.len THEN EcuIdle
                ELSE [ecu EXCEPT !.off = o, !.seq = s, !.block = @ + 1, !.st = IF full THEN "flow" ELSE "send"]
  BY DEF EcuSends, tester, NextOff
<1>2. PICK p : Incoming(p) /\ Pouring(p)
  <2>1. Transfers
    BY <1>1, PhaseWhere DEF Smooth
  <2> QED
    BY <1>1, <2>1 DEF Transfers, Resumed, Paused, Poured
<1>3. ecu.pdu = p /\ p \in Pdus /\ ecu.off < p.len /\ p.len \in Nat
  BY <1>1, <1>2, BytesOf DEF Pouring, IInv, Always, EcuOK, CallOK, Pdus
<1>4. Sizes /\ BlockSize \in Nat
  BY Sized, IsoTpAssumption DEF IInv
<1>5. Piece(Chunk(p, ecu.off), p, ecu.off) /\ o \in Nat /\ o <= p.len
  BY <1>3, <1>4, ChunkOf DEF Sizes
<1>6. s \in Nat
  BY <1>4, NextSeqTyped DEF Sizes
<1>7. Longer(toTester', toTester, f)
  <2>1. f \in Frames(EcuBlocks \cup {0})
    BY <1>3, <1>4, <1>5, FrameMade DEF Sizes, Piece
  <2>2. toTester \in Seq(Frames(EcuBlocks \cup {0}))
    BY DEF IInv, Always, BusOK, QueueOK
  <2> HIDE DEF f
  <2> QED
    BY <1>1, <2>1, <2>2, Added
<1>8. Chain(toTester', p, Len(rx.bytes), o, rx.seq, s)
  <2>1. Chain(toTester, p, Len(rx.bytes), ecu.off, rx.seq, ecu.seq)
    BY <1>2 DEF Pouring
  <2> QED
    BY <1>3, <1>5, <1>6, <1>7, <2>1, ChainSent
<1>9. Len(toTester') = Len(toTester) + 1 /\ Len(toTester) \in Nat
  BY <1>7 DEF Longer
<1>10. result.status # "broken" /\ ecu \in Ecus
  BY DEF Smooth, IInv, Always, EcuOK
<1>11. /\ ecu.bs = BlockSize /\ Len(toEcu) = 0
       /\ BlockSize # 0 => ecu.block < BlockSize /\ rx.block + Len(toTester) = ecu.block
  BY <1>2 DEF Pouring
<1> HIDE DEF f, o, s
<1>12. Incoming(p)'
  BY <1>1, <1>2 DEF Incoming
<1>15. rx.block \in Nat /\ ecu.block \in Nat /\ BlockSize \in Nat
  BY <1>4 DEF Sizes
<1>16. /\ BlockSize # 0 /\ ecu.block + 1 >= BlockSize =>
              rx.block < BlockSize /\ rx.block + Len(toTester') = BlockSize
       /\ BlockSize # 0 /\ ~(ecu.block + 1 >= BlockSize) =>
              ecu.block + 1 < BlockSize /\ rx.block + Len(toTester') = ecu.block + 1
  <2> DEFINE r == rx.block
             l == Len(toTester)
             m == Len(toTester')
             e == ecu.block
             b == BlockSize
  <2>1. r \in Nat /\ l \in Nat /\ m = l + 1 /\ e \in Nat /\ b \in Nat /\ (b # 0 => e < b /\ r + l = e)
    BY <1>9, <1>11, <1>15
  <2> HIDE DEF r, l, m, e, b
  <2>2. /\ b # 0 /\ e + 1 >= b => r < b /\ r + m = b
        /\ b # 0 /\ ~(e + 1 >= b) => e + 1 < b /\ r + m = e + 1
    BY <2>1
  <2> QED
    BY <2>2 DEF r, m, e, b
<1>13. CASE o >= p.len
  <2>1. ecu' = EcuIdle /\ o = p.len
    BY <1>1, <1>3, <1>5, <1>13
  <2>2. BlockSize # 0 => rx.block + Len(toTester') <= BlockSize
    BY <1>4, <1>9, <1>11 DEF Sizes
  <2>3. Chain(toTester', p, Len(rx'.bytes), p.len, rx'.seq, s)
    BY <1>1, <1>8, <2>1
  <2>4. ecu'.st = "idle" /\ Len(toEcu') = 0
    BY <1>1, <1>11, <2>1, Starts
  <2>5. Poured(p)'
    BY <1>1, <2>2, <2>3, <2>4 DEF Poured
  <2> QED
    BY <1>1, <1>10, <1>12, <2>5 DEF Kept, Phase, Transfers
<1>14. CASE ~(o >= p.len)
  <2> DEFINE n == ecu.block + 1
             st == IF full THEN "flow" ELSE "send"
  <2>1. ecu' = [ecu EXCEPT !.off = o, !.seq = s, !.block = n, !.st = st]
    BY <1>1, <1>3, <1>14
  <2> HIDE DEF n, st, full
  <2>2. ecu'.off = o /\ ecu'.seq = s /\ ecu'.block = n /\ ecu'.st = st /\ ecu'.pdu = p /\ ecu'.bs = BlockSize
    BY <1>3, <1>10, <1>11, <2>1 DEF Ecus
  <2>3. Chain(toTester', p, Len(rx'.bytes), ecu'.off, rx'.seq, ecu'.seq)
    BY <1>1, <1>8, <2>2
  <2>4. Len(toEcu') = 0
    BY <1>1, <1>11
  <2>5. CASE full
    <3>1. st = "flow" /\ BlockSize # 0 /\ ecu.block + 1 >= BlockSize
      BY <1>11, <2>5 DEF st, full
    <3>2. rx.block < BlockSize /\ rx.block + Len(toTester') = BlockSize
      BY <1>16, <3>1
    <3>3. Paused(p)'
      BY <1>1, <2>2, <2>3, <2>4, <3>1, <3>2 DEF Paused
    <3> QED
      BY <1>1, <1>10, <1>12, <3>3 DEF Kept, Phase, Transfers
  <2>6. CASE ~full
    <3>1. st = "send" /\ (BlockSize # 0 => ~(ecu.block + 1 >= BlockSize))
      BY <1>11, <2>6 DEF st, full
    <3>2. BlockSize # 0 => n < BlockSize /\ rx.block + Len(toTester') = n
      BY <1>16, <3>1 DEF n
    <3>3. Pouring(p)'
      BY <1>1, <2>2, <2>3, <2>4, <3>1, <3>2 DEF Pouring
    <3> QED
      BY <1>1, <1>10, <1>12, <3>3 DEF Kept, Phase, Transfers
  <2> QED
    BY <2>5, <2>6
<1> QED
  BY <1>13, <1>14

\* The queues when the ECU reads a frame.
LEMMA EcuPops ==
    ASSUME Always, EcuReads
    PROVE  Popped(toEcu', toEcu) /\ Head(toEcu) = toEcu[1] /\ 1 \in 1..Len(toEcu)
<1>1. toEcu # <<>> /\ toEcu' = Tail(toEcu) /\ Head(toEcu) = toEcu[1] /\ After(toEcu', toEcu)
  BY EcuReadsFrame DEF Always
<1>2. Len(toEcu) \in Nat /\ Len(toEcu) > 0 /\ Len(toEcu') = Len(toEcu) - 1
  BY <1>1 DEF Always, BusOK, QueueOK
<1>3. 1 \in 1..Len(toEcu)
  BY <1>2
<1> QED
  BY <1>1, <1>2, <1>3 DEF Popped

\* What the ECU does with the next frame of the request.
EcuTakesMore(b) ==
    /\ ecu'.bytes = b /\ ecu'.seq = NextSeq(ecu.seq) /\ ecu'.block = ecu.block + 1 /\ ecu'.bs = ecu.bs
    /\ ecu'.st = IF ecu.bs # 0 /\ ecu.block + 1 >= ecu.bs THEN "grant" ELSE "recv"

\* The next frame of the request is taken, and the last one completes it.
LEMMA EcuTakesPiece ==
    ASSUME IInv, EcuReads, ecu.st = "recv", toEcu[1].type = "CF", toEcu[1].seq = ecu.seq
    PROVE  LET b == ecu.bytes \o toEcu[1].data IN
           \/ Len(b) >= ecu.len /\ ecu'.st = "answer"
           \/ ~(Len(b) >= ecu.len) /\ EcuTakesMore(b)
<1> DEFINE f == toEcu[1]
           b == ecu.bytes \o f.data
           full == ecu.bs # 0 /\ ecu.block + 1 >= ecu.bs
<1>1. Head(toEcu) = f
  BY EcuPops DEF IInv
<1> HIDE DEF f
<1>2. f.type = "CF" /\ f.seq = ecu.seq
  BY DEF f
<1>3. IF Len(b) >= ecu.len THEN Takes(b)
      ELSE ecu' = [ecu EXCEPT !.bytes = b, !.seq = NextSeq(@), !.block = @ + 1,
                              !.st = IF full THEN "grant" ELSE "recv"]
  BY <1>1, <1>2, Zenon DEF EcuReads
<1>4. ecu \in Ecus
  BY DEF IInv, Always, EcuOK
<1>5. Takes(b) => ecu'.st = "answer"
  BY DEF Takes, EcuIdle
<1>6. ASSUME ecu' = [ecu EXCEPT !.bytes = b, !.seq = NextSeq(@), !.block = @ + 1,
                                !.st = IF full THEN "grant" ELSE "recv"]
      PROVE  EcuTakesMore(b)
  <2> DEFINE n == NextSeq(ecu.seq)
             m == ecu.block + 1
             st == IF full THEN "grant" ELSE "recv"
  <2>1. ecu' = [ecu EXCEPT !.bytes = b, !.seq = n, !.block = m, !.st = st]
    BY <1>6
  <2> HIDE DEF n, m, st, b
  <2>2. ecu'.bytes = b /\ ecu'.seq = n /\ ecu'.block = m /\ ecu'.bs = ecu.bs /\ ecu'.st = st
    BY <1>4, <2>1 DEF Ecus
  <2> QED
    BY <2>2, Zenon DEF EcuTakesMore, n, m, st
<1> HIDE DEF b
<1>7. \/ Len(b) >= ecu.len /\ ecu'.st = "answer"
      \/ ~(Len(b) >= ecu.len) /\ EcuTakesMore(b)
  BY <1>3, <1>5, <1>6, Zenon
<1> QED
  BY <1>7 DEF b, f

\* The phase when the ECU reads a consecutive frame of the request.
LEMMA StreamKept ==
    ASSUME IInv, IInv', Smooth, EcuReads, Streaming
    PROVE  clean' => Phase'
<1> DEFINE f == toEcu[1]
           a == Len(ecu.bytes)
           z == NextOff(req, a)
           b == ecu.bytes \o f.data
<1>1. Popped(toEcu', toEcu) /\ UNCHANGED tester /\ UNCHANGED <<toTester, given, clean, repeated, faults>>
  BY EcuPops DEF IInv, EcuReads
<1>2. UNCHANGED <<req, pc, tx, rx, result>>
  BY <1>1 DEF tester
<1>3. Len(toEcu) \in Nat /\ Len(toEcu) > 0 /\ Len(toEcu') = Len(toEcu) - 1
  BY <1>1 DEF Popped
<1>4. Sizes
  BY Sized DEF IInv
<1>5. /\ pc \in {"flow", "send", "pdu"} /\ ecu.st = "recv" /\ Len(toTester) = 0
      /\ Chain(toEcu, req, a, tx.off, ecu.seq, tx.seq)
      /\ ecu.bs # 0 => ecu.block + Len(toEcu) <= ecu.bs
      /\ pc = "send" => tx.bs = ecu.bs
      /\ pc = "send" /\ tx.bs # 0 => tx.block < tx.bs /\ ecu.block + Len(toEcu) = tx.block
      /\ pc = "flow" => ecu.bs # 0 /\ ecu.block < ecu.bs /\ ecu.block + Len(toEcu) = ecu.bs
  BY DEF Streaming
<1>6. a < req.len /\ f = Consecutive(ecu.seq, Chunk(req, a)) /\ Chain(toEcu', req, z, tx.off, NextSeq(ecu.seq), tx.seq)
  BY <1>1, <1>5, ChainRead
<1>7. req \in Pdus /\ ecu.bytes # <<>> /\ ecu.bytes \in PduBytes /\ req.len \in Nat
  <2>1. pc # "idle" /\ ecu.st = "recv"
    BY <1>5
  <2>2. req \in Pdus
    BY <2>1 DEF IInv, Always, ExchangeOK, CallOK, Pdus
  <2> QED
    BY <2>1, <2>2, BytesOf DEF IInv, Always, EcuOK, Ecus
<1>8. Piece(Chunk(req, a), req, a) /\ z \in Nat /\ z <= req.len
  BY <1>4, <1>6, <1>7, ChunkOf DEF Sizes
<1>9. f.type = "CF" /\ f.seq = ecu.seq /\ f.data \in PduBytes /\ Len(f.data) = z - a
  BY <1>6, <1>8 DEF Consecutive, Piece
<1>10. Len(b) = z
  <2>1. Len(b) = a + Len(f.data)
    BY <1>7, <1>9, BytesJoined
  <2> HIDE DEF b, f, z
  <2> QED
    BY <1>4, <1>8, <1>9, <2>1 DEF Sizes
<1>11. \/ Len(b) >= ecu.len /\ ecu'.st = "answer"
       \/ ~(Len(b) >= ecu.len) /\ EcuTakesMore(b)
  BY <1>5, <1>9, EcuTakesPiece
<1>12. AskLong /\ ecu.len = req.len
  <2>1. AskLong
    BY <1>5, StepWhere DEF Smooth, IInv, AskShort, AnswerShort, AnswerLong
  <2> QED
    BY <1>5, <2>1 DEF AskLong
<1>13. Len(toEcu') = 0 => z = tx.off /\ NextSeq(ecu.seq) = tx.seq
  <2>1. Len(toEcu') \in Nat
    BY <1>3
  <2> QED
    BY <1>6, <2>1, ChainEnds
<1>14. Len(toEcu') > 0 => z < req.len
  <2>1. Len(toEcu') \in Nat
    BY <1>3
  <2> QED
    BY <1>6, <2>1, ChainEnds
<1> HIDE DEF f, a, z, b
<1>15. CASE z >= req.len /\ ecu'.st = "answer"
  <2> SUFFICES ASSUME clean' PROVE Phase'
    OBVIOUS
  <2>1. pc' = "pdu"
    BY <1>1, <1>15, AnswerNext DEF Smooth
  <2>2. Len(toEcu') = 0
    BY <1>3, <1>7, <1>8, <1>14, <1>15
  <2>3. AllSingle(toTester')
    BY <1>1, <1>5 DEF AllSingle
  <2> QED
    BY <1>15, <2>1, <2>2, <2>3 DEF Phase, Thinking
<1>16. CASE z < req.len /\ EcuTakesMore(b)
  <2>1. ecu'.bs = ecu.bs /\ ecu'.block = ecu.block + 1 /\ ecu'.seq = NextSeq(ecu.seq) /\ Len(ecu'.bytes) = z
    BY <1>10, <1>16 DEF EcuTakesMore
  <2> DEFINE e == ecu.block
             m == ecu.bs
             n == Len(toEcu)
             l == Len(toEcu')
  <2>2. /\ e \in Nat /\ m \in Nat /\ n \in Nat /\ l = n - 1 /\ n > 0
        /\ m # 0 => e + n <= m
        /\ pc = "send" => tx.bs = m
        /\ pc = "send" /\ tx.bs # 0 => tx.block < tx.bs /\ e + n = tx.block
        /\ pc = "flow" => m # 0 /\ e < m /\ e + n = m
        /\ tx.block \in Nat
    BY <1>3, <1>4, <1>5 DEF Sizes
  <2>3. ecu'.st = IF m # 0 /\ e + 1 >= m THEN "grant" ELSE "recv"
    BY <1>16 DEF EcuTakesMore
  <2> HIDE DEF e, m, n, l
  <2>4. CASE m # 0 /\ e + 1 >= m
    <3>1. l = 0 /\ pc # "send"
      BY <2>2, <2>4
    <3>2. z = tx.off /\ NextSeq(ecu.seq) = tx.seq
      BY <1>13, <3>1 DEF l
    <3>3. pc = "flow"
      BY <1>5, <1>7, <1>8, <1>12, <1>16, <3>1, <3>2 DEF AskLong
    <3>4. Heeded(toTester')
      BY <1>1, <1>5 DEF Heeded
    <3>5. Holding'
      BY <1>2, <2>1, <2>3, <2>4, <3>1, <3>2, <3>3, <3>4 DEF Holding, l
    <3> QED
      BY <3>5 DEF Phase
  <2>5. CASE ~(m # 0 /\ e + 1 >= m)
    <3>1. /\ m # 0 => (e + 1) + l <= m
          /\ pc = "send" /\ tx.bs # 0 => tx.block < tx.bs /\ (e + 1) + l = tx.block
          /\ pc = "flow" => m # 0 /\ e + 1 < m /\ (e + 1) + l = m
      BY <2>2, <2>5
    <3>2. Chain(toEcu', req', Len(ecu'.bytes), tx'.off, ecu'.seq, tx'.seq)
      BY <1>2, <1>6, <2>1
    <3>3. /\ ecu'.bs # 0 => ecu'.block + Len(toEcu') <= ecu'.bs
          /\ pc' = "send" => tx'.bs = ecu'.bs
          /\ pc' = "send" /\ tx'.bs # 0 => tx'.block < tx'.bs /\ ecu'.block + Len(toEcu') = tx'.block
          /\ pc' = "flow" => ecu'.bs # 0 /\ ecu'.block < ecu'.bs /\ ecu'.block + Len(toEcu') = ecu'.bs
      BY <1>2, <1>5, <2>1, <3>1 DEF e, m, l
    <3>4. /\ pc' \in {"flow", "send", "pdu"} /\ ecu'.st = "recv" /\ Len(toTester') = 0
          /\ Len(ecu'.bytes) < req'.len
      BY <1>1, <1>2, <1>5, <1>16, <2>1, <2>3, <2>5
    <3>5. Streaming'
      BY <3>2, <3>3, <3>4 DEF Streaming
    <3> QED
      BY <3>5 DEF Phase
  <2> QED
    BY <2>4, <2>5
<1> QED
  BY <1>7, <1>8, <1>10, <1>11, <1>12, <1>15, <1>16

\* The phase when the ECU reads a frame.
LEMMA EcuReadsKept ==
    ASSUME IInv, IInv', Smooth, EcuReads
    PROVE  Kept
<1> DEFINE f == toEcu[1]
<1>1. Popped(toEcu', toEcu) /\ UNCHANGED tester /\ UNCHANGED <<toTester, given, clean, repeated, faults>>
  BY EcuPops DEF IInv, EcuReads
<1>2. UNCHANGED <<req, pc, tx, rx, result>> /\ result.status # "broken" /\ FrameFacts(f, {BlockSize})
  BY <1>1, EcuReadsFrame DEF tester, Smooth, IInv, Always
<1>3. Len(toEcu) \in Nat /\ Len(toEcu) > 0 /\ Len(toEcu') = Len(toEcu) - 1
  BY <1>1 DEF Popped
<1>4. \/ f.type = "SF" /\ Takes(f.data)
      \/ EcuBegins(f) \/ EcuGoesOn(f) \/ EcuCompletes(f) \/ EcuIgnores(f) \/ EcuGoesAhead(f)
  BY EcuCases DEF IInv, Always
<1>5. OneAsked \/ Opening \/ Streaming \/ Transfers
  BY <1>3 DEF Smooth, Phase, AtRest, Holding, Cleared, Thinking, OneAnswered, AnswerOpens
<1> HIDE DEF f
<1>6. CASE OneAsked
  <2>1. f.type = "SF" /\ Len(toEcu) = 1 /\ pc = "pdu" /\ Len(toTester) = 0
    BY <1>6 DEF OneAsked, f
  <2>2. Takes(f.data)
    BY <1>4, <2>1 DEF EcuBegins, EcuGoesOn, EcuCompletes, EcuIgnores, EcuGoesAhead
  <2>3. ecu'.st = "answer"
    BY <2>2 DEF Takes, EcuIdle
  <2>4. AllSingle(toTester')
    BY <1>1, <2>1 DEF AllSingle
  <2> QED
    BY <1>2, <1>3, <2>1, <2>3, <2>4 DEF Kept, Phase, Thinking
<1>7. CASE Opening
  <2>1. f.type = "FF" /\ Len(toEcu) = 1 /\ pc = "flow" /\ Len(toTester) = 0 /\ tx.off = FfCap /\ tx.seq = 1
    BY <1>7 DEF Opening, f
  <2>2. EcuBegins(f)
    BY <1>4, <2>1 DEF EcuGoesOn, EcuCompletes, EcuIgnores, EcuGoesAhead
  <2>3. ecu'.st = "grant" /\ ecu'.bytes = f.data /\ ecu'.seq = 1
    BY <2>2 DEF EcuBegins, EcuIdle
  <2>4. Len(f.data) = FfCap
    <3>1. AskLong /\ req \in Pdus
      BY <2>1, StepWhere DEF Smooth, IInv, Always, ExchangeOK, CallOK, Pdus
    <3>2. FirstOf(f, req) /\ SfCap < req.len
      <4>1. 1 \in 1..Len(toEcu)
        BY <2>1
      <4> QED
        BY <2>1, <3>1, <4>1, BytesOf, IsoTpAssumption DEF AskLong, Pieces, f
    <3>3. FfCap <= req.len
      BY <3>1, <3>2, BytesOf, IsoTpAssumption
    <3>4. FirstPart(SubSeq(Bytes(req), 1, FfCap), req)
      BY <3>1, <3>3, FirstBytes
    <3> QED
      BY <3>2, <3>4 DEF FirstOf, First, FirstPart
  <2>5. Heeded(toTester')
    BY <1>1, <2>1 DEF Heeded
  <2>6. Holding'
    BY <1>2, <1>3, <2>1, <2>3, <2>4, <2>5 DEF Holding
  <2> QED
    BY <1>2, <2>6 DEF Kept, Phase
<1>8. CASE Streaming
  BY <1>2, <1>8, StreamKept DEF Kept
<1>9. CASE Transfers
  <2>1. PICK p : Incoming(p) /\ Resumed(p)
    BY <1>3, <1>9 DEF Transfers, Pouring, Paused, Poured
  <2>2. f.type = "FC" /\ Len(toEcu) = 1 /\ ecu.st = "flow" /\ Len(toTester) = 0 /\ rx.block = 0
        /\ ecu.pdu = p /\ ecu.off = Len(rx.bytes) /\ ecu.seq = rx.seq
    BY <2>1 DEF Resumed, f
  <2>3. EcuGoesAhead(f)
    BY <1>4, <2>2 DEF EcuBegins, EcuGoesOn, EcuCompletes, EcuIgnores
  <2>4. ecu \in Ecus /\ Sizes /\ BlockSize \in Nat
    BY Sized, IsoTpAssumption DEF IInv, Always, EcuOK
  <2>5. f.bs = BlockSize
    BY <1>2, <2>2 DEF FrameFacts
  <2>6. ecu'.st = "send" /\ ecu'.block = 0 /\ ecu'.bs = BlockSize /\ ecu'.pdu = p /\ ecu'.off = ecu.off /\ ecu'.seq = ecu.seq
    BY <2>2, <2>3, <2>4, <2>5 DEF EcuGoesAhead, Ecus
  <2>7. Chain(toTester, p, Len(rx.bytes), Len(rx.bytes), rx.seq, rx.seq)
    BY <2>2, <2>4, ChainEmpty DEF Sizes
  <2>8. Chain(toTester', p, Len(rx'.bytes), ecu'.off, rx'.seq, ecu'.seq)
    BY <1>1, <1>2, <2>2, <2>6, <2>7
  <2>9. Pouring(p)'
    <3>1. BlockSize # 0 => ecu'.block < BlockSize /\ rx'.block + Len(toTester') = ecu'.block
      BY <1>1, <1>2, <2>2, <2>4, <2>6
    <3>2. Len(toEcu') = 0
      BY <1>3, <2>2
    <3> QED
      BY <2>6, <2>8, <3>1, <3>2 DEF Pouring
  <2>10. Incoming(p)'
    BY <1>2, <2>1 DEF Incoming
  <2> QED
    BY <1>2, <2>9, <2>10 DEF Kept, Phase, Transfers
<1> QED
  BY <1>5, <1>6, <1>7, <1>8, <1>9

\* The phase when the ECU answers.
LEMMA AnswersKept ==
    ASSUME IInv, Smooth, EcuAnswers
    PROVE  Kept
<1>1. ecu.st = "answer" /\ UNCHANGED tester /\ UNCHANGED <<toEcu, heard, clean, repeated, faults>>
  BY DEF EcuAnswers
<1>2. PICK p \in Responses :
        /\ p.to = ecu.pdu /\ (p.kind # "positive" => p.len <= SfCap)
        /\ IF p.len <= SfCap
           THEN /\ toTester' = Append(toTester, Single(Bytes(p)))
                /\ ecu' = IF p.kind = "pending" THEN ecu ELSE EcuIdle
           ELSE /\ toTester' = Append(toTester, First(p.len, SubSeq(Bytes(p), 1, FfCap)))
                /\ ecu' = [EcuIdle EXCEPT !.st = "flow", !.pdu = p, !.off = FfCap, !.seq = 1]
  BY DEF EcuAnswers
<1>3. UNCHANGED <<req, pc, tx, rx, result>> /\ result.status # "broken"
  BY <1>1 DEF tester, Smooth
<1>4. Thinking
  BY <1>1, PhaseWhere DEF Smooth
<1>5. p \in Pdus /\ p.len \in Nat /\ p.len > 0 /\ SfCap \in Nat
  BY IsoTpAssumption DEF Pdus, Responses
<1>6. pc = "pdu" /\ Len(toEcu) = 0 /\ AllSingle(toTester)
  BY <1>4 DEF Thinking
<1>7. toTester \in Seq(Frames(EcuBlocks \cup {0}))
  BY DEF IInv, Always, BusOK, QueueOK
<1>8. CASE p.len <= SfCap
  <2> DEFINE f == Single(Bytes(p))
  <2>1. f \in Frames(EcuBlocks \cup {0}) /\ f.type = "SF" /\ Meaning(f.data) = p
    BY <1>5, PduFrames
  <2>2. toTester' = Append(toTester, f) /\ ecu' = IF p.kind = "pending" THEN ecu ELSE EcuIdle
    BY <1>2, <1>8, Zenon
  <2> HIDE DEF f
  <2>3. Longer(toTester', toTester, f)
    BY <1>7, <2>1, <2>2, Added
  <2>4. AllSingle(toTester')
    BY <1>6, <2>1, <2>3 DEF Longer, AllSingle
  <2>5. CASE p.kind = "pending"
    <3>1. Thinking'
      BY <1>1, <1>3, <1>6, <2>2, <2>4, <2>5 DEF Thinking
    <3> QED
      BY <1>3, <3>1 DEF Kept, Phase
  <2>6. CASE p.kind # "pending"
    <3>1. ecu' = EcuIdle
      BY <2>2, <2>6
    <3>2. Len(toTester') > 0 /\ toTester'[Len(toTester')] = f
      BY <2>3 DEF Longer
    <3>3. ~Waits(toTester'[Len(toTester')])
      BY <2>1, <2>6, <3>2 DEF Waits
    <3>4. OneAnswered'
      BY <1>1, <1>3, <1>6, <2>4, <3>1, <3>2, <3>3, Starts DEF OneAnswered
    <3> QED
      BY <1>3, <3>4 DEF Kept, Phase
  <2> QED
    BY <2>5, <2>6
<1>9. CASE ~(p.len <= SfCap)
  <2> DEFINE f == First(p.len, SubSeq(Bytes(p), 1, FfCap))
  <2>1. f \in Frames(EcuBlocks \cup {0}) /\ f.type = "FF"
    BY <1>5, <1>9, PduFrames
  <2>2. toTester' = Append(toTester, f) /\ ecu' = [EcuIdle EXCEPT !.st = "flow", !.pdu = p, !.off = FfCap, !.seq = 1]
    BY <1>2, <1>9, Zenon
  <2> HIDE DEF f
  <2>3. Longer(toTester', toTester, f)
    BY <1>7, <2>1, <2>2, Added
  <2>4. ecu'.st = "flow" /\ ecu'.pdu = p /\ ecu'.off = FfCap /\ ecu'.seq = 1
    BY <2>2 DEF EcuIdle
  <2>5. p.kind = "positive"
    BY <1>2, <1>9
  <2>6. Len(toTester') > 0 /\ \A i \in 1..Len(toTester') : toTester'[i].type = IF i = Len(toTester') THEN "FF" ELSE "SF"
    <3>1. Len(toTester') = Len(toTester) + 1 /\ toTester'[Len(toTester')] = f /\ Len(toTester) \in Nat
      BY <2>3 DEF Longer
    <3>2. ASSUME NEW i \in 1..Len(toTester') PROVE toTester'[i].type = IF i = Len(toTester') THEN "FF" ELSE "SF"
      <4>1. CASE i = Len(toTester')
        BY <2>1, <3>1, <4>1
      <4>2. CASE i # Len(toTester')
        <5>1. i \in 1..Len(toTester)
          BY <3>1, <4>2
        <5>2. toTester'[i] = toTester[i]
          BY <2>3, <5>1 DEF Longer
        <5> QED
          BY <1>6, <4>2, <5>1, <5>2 DEF AllSingle
      <4> QED
        BY <4>1, <4>2
    <3> QED
      BY <3>1, <3>2
  <2>7. AnswerOpens'
    BY <1>1, <1>3, <1>6, <2>4, <2>5, <2>6 DEF AnswerOpens
  <2> QED
    BY <1>3, <2>7 DEF Kept, Phase
<1> QED
  BY <1>8, <1>9

\* The phase when an exchange begins.
LEMMA ExchangeKept ==
    ASSUME IInv, Smooth, NEW r \in Requests, exchange(r)
    PROVE  Kept
<1>1. /\ pc = "idle" /\ req' = r /\ UNCHANGED <<toTester, ecu, clean, repeated, faults>>
      /\ IF r.len = 0 \/ ~validate_pdu_len(r.len)
         THEN result' = Result("refused", <<>>) /\ UNCHANGED <<asked, pc, tx, toEcu>>
         ELSE /\ result' = Result("pending", <<>>)
              /\ IF r.len <= SfCap
                 THEN toEcu' = Append(toEcu, Single(Bytes(r))) /\ pc' = "pdu" /\ tx' = NoTx
                 ELSE /\ toEcu' = Append(toEcu, First(r.len, SubSeq(Bytes(r), 1, FfCap)))
                      /\ pc' = "flow" /\ tx' = StartTx
  BY DEF exchange
<1>2. AtRest
  BY <1>1, PhaseWhere DEF Smooth
<1>3. /\ ecu.st = "idle" /\ Len(toEcu) = 0 /\ Len(toTester) = 0
      /\ toEcu \in Seq(Frames({BlockSize}))
  BY <1>2 DEF AtRest, IInv, Always, BusOK, QueueOK
<1>4. Single(Bytes(r)).type = "SF" /\ First(r.len, SubSeq(Bytes(r), 1, FfCap)).type = "FF"
  BY DEF Single, First
<1>5. StartTx.off = FfCap /\ StartTx.seq = 1
  BY DEF StartTx, NoTx
<1>6. ASSUME NEW f, toEcu' = Append(toEcu, f) PROVE Len(toEcu') = 1 /\ toEcu'[1] = f
  BY <1>3, <1>6
<1> DEFINE s == Single(Bytes(r))
           t == First(r.len, SubSeq(Bytes(r), 1, FfCap))
<1>7. \/ result' = Result("refused", <<>>) /\ UNCHANGED <<pc, toEcu>>
      \/ result' = Result("pending", <<>>) /\ toEcu' = Append(toEcu, s) /\ pc' = "pdu"
      \/ result' = Result("pending", <<>>) /\ toEcu' = Append(toEcu, t) /\ pc' = "flow" /\ tx' = StartTx
  BY <1>1, Zenon
<1>8. result'.status # "broken"
  BY <1>7 DEF Result
<1> HIDE DEF s, t
<1>9. AtRest' \/ OneAsked' \/ Opening'
  <2>1. CASE UNCHANGED <<pc, toEcu>>
    BY <1>1, <1>3, <2>1 DEF AtRest
  <2>2. CASE toEcu' = Append(toEcu, s) /\ pc' = "pdu"
    <3>1. Len(toEcu') = 1 /\ toEcu'[1].type = "SF"
      BY <1>4, <1>6, <2>2 DEF s
    <3> QED
      BY <1>1, <1>3, <2>2, <3>1 DEF OneAsked
  <2>3. CASE toEcu' = Append(toEcu, t) /\ pc' = "flow" /\ tx' = StartTx
    <3>1. Len(toEcu') = 1 /\ toEcu'[1].type = "FF"
      BY <1>4, <1>6, <2>3 DEF t
    <3> QED
      BY <1>1, <1>3, <1>5, <2>3, <3>1 DEF Opening
  <2> QED
    BY <1>7, <2>1, <2>2, <2>3
<1> QED
  BY <1>8, <1>9 DEF Kept, Phase

\* The steps of a fault, of the ECU's timer, and of nobody.
LEMMA OthersKept ==
    ASSUME IInv, Smooth, BusFault \/ EcuGivesUp \/ UNCHANGED vars
    PROVE  Kept
<1>1. CASE BusFault
  <2>1. faults' = faults + 1
    BY <1>1 DEF BusFault
  <2> QED
    BY <2>1 DEF Smooth, Kept
<1>2. CASE EcuGivesUp
  <2>1. pc = "idle" /\ ecu.st \in {"recv", "flow"}
    BY <1>2 DEF EcuGivesUp
  <2>2. AtRest
    BY <2>1, PhaseWhere DEF Smooth
  <2> QED
    BY <2>1, <2>2 DEF AtRest
<1>3. CASE UNCHANGED vars
  BY <1>3, SamePhase DEF vars, tester, bus, Smooth, Kept
<1> QED
  BY <1>1, <1>2, <1>3

\* What went wrong once is not undone.
LEMMA Monotone ==
    ASSUME IInv, [Next]_vars, faults' = 0
    PROVE  faults = 0 /\ (clean' => clean) /\ repeated' = repeated
<1>1. faults \in Nat /\ clean \in BOOLEAN
  BY IsoTpAssumption DEF IInv, Always, CallOK, LocalsOK
<1>2. \A why : Failed(why) => ~clean'
  BY DEF Failed
<1>3. \A b : Received(b) => (clean' => clean)
  BY <1>2, Zenon DEF Received
<1>4. CASE BusFault
  BY <1>1, <1>4 DEF BusFault
<1>5. CASE TesterStep
  <2>1. faults' = faults \/ faults' = faults + 1
    BY <1>5 DEF TesterStep, wait_for_continue_to_send, send_consecutive, recv_pdu, recv_consecutive,
                ReadUnrelated, ReadForeign, ReadFails
  <2>2. repeated' = repeated
    BY <1>5, Zenon DEF TesterStep, wait_for_continue_to_send, send_consecutive, recv_pdu, recv_consecutive,
                ReadUnrelated, ReadForeign, ReadFails
  <2>3. clean' => clean
    BY <1>2, <1>3, <1>5, Zenon DEF TesterStep, wait_for_continue_to_send, send_consecutive, recv_pdu,
                recv_consecutive, ReadUnrelated, ReadForeign, ReadFails
  <2> QED
    BY <1>1, <2>1, <2>2, <2>3
<1>6. CASE EcuStep \/ EcuGivesUp
  <2>1. faults' = faults \/ faults' = faults + 1
    BY <1>6 DEF EcuStep, EcuReads, EcuGrants, EcuAnswers, EcuSends, EcuGivesUp
  <2>2. repeated' = repeated /\ clean' = clean
    BY <1>6, Zenon DEF EcuStep, EcuReads, EcuGrants, EcuAnswers, EcuSends, EcuGivesUp
  <2> QED
    BY <1>1, <2>1, <2>2
<1>7. ASSUME NEW r \in Requests, exchange(r)
      PROVE  faults' = faults /\ clean' = clean /\ repeated' = repeated
  BY <1>7 DEF exchange
<1>8. CASE UNCHANGED vars
  BY <1>8 DEF vars
<1> QED
  BY <1>4, <1>5, <1>6, <1>7, <1>8 DEF Next

\* The ends start at rest.
LEMMA LockStepInit == Init => LockStep
BY DEF Init, LockStep, Phase, AtRest, EcuIdle, Result

\* Every step that is not a fault leads from a phase to a phase, or ends the exchange
\* with an error that is not a break.
LEMMA StepKept ==
    ASSUME IInv, IInv', Smooth, [Next]_vars
    PROVE  Kept
BY WaitKept, SendKept, PduKept, ConsecutiveKept, NoiseKept, EcuReadsKept, GrantsKept, AnswersKept, SendsKept,
   ExchangeKept, OthersKept, Zenon DEF Next, TesterStep, EcuStep

\* The lock-step is kept, and nothing is broken off.
LEMMA LockStepKept ==
    ASSUME IInv, IInv', LockStep, [Next]_vars
    PROVE  LockStep' /\ (clean /\ faults' = 0 => result'.status # "broken")
<1>1. faults' = 0 => faults = 0 /\ (clean' => clean) /\ repeated' = repeated
  BY Monotone
<1>2. clean /\ faults = 0 => Smooth
  BY Zenon DEF LockStep, Smooth
<1>3. Smooth => Kept /\ ~repeated
  BY StepKept DEF Smooth
<1>4. clean /\ faults' = 0 => result'.status # "broken"
  BY <1>1, <1>2, <1>3, Zenon DEF Kept
<1>5. clean' /\ faults' = 0 => ~repeated' /\ result'.status # "broken" /\ Phase'
  BY <1>1, <1>2, <1>3, Zenon DEF Kept
<1> QED
  BY <1>4, <1>5, Zenon DEF LockStep

\* An exchange that meets no fault and starts in step is never broken off
\* (NotBrokenWithoutFault): the checks of wait_for_continue_to_send, recv_pdu and
\* recv_multi_frame_pdu reject no frame of an ECU that follows the standard, and the two
\* ends never wait for each other.
THEOREM NeverBrokenWithoutFault == Spec => NotBrokenWithoutFault
<1>1. Init => IInv /\ LockStep
  BY InvInit, LockStepInit
<1>2. IInv /\ LockStep /\ [Next]_vars => (IInv /\ LockStep)'
  BY InvStep, LockStepKept
<1>3. IInv /\ LockStep /\ [Next]_vars => [(clean /\ faults' = 0) => result'.status # "broken"]_vars
  BY InvStep, LockStepKept
<1> QED
  BY <1>1, <1>2, <1>3, PTL DEF Spec, NotBrokenWithoutFault
=============================================================================
