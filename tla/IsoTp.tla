------------------------------- MODULE IsoTp -------------------------------
(***************************************************************************)
(* The host-side ISO-TP transport (transport/isotp.rs) over a native CAN   *)
(* channel (adapter/native_can.rs), with one ECU at the other end of the   *)
(* bus.  A step of the tester runs from one await on the bus to the next.  *)
(* The bus may lose and duplicate frames and carry frames of other ids;    *)
(* the ECU may ask for time (Wait, response pending), refuse (overflow),   *)
(* answer late or give up.  Sizes are parameters: the code has             *)
(* SfCap = 7, FfCap = 6, CfCap = 7, SeqMod = 16, MaxPending = 8.           *)
(*                                                                         *)
(* A byte of a PDU is <<pdu, index>>, so that a reassembled PDU tells      *)
(* where each of its bytes came from.                                      *)
(***************************************************************************)
EXTENDS Naturals, Sequences, FiniteSets

CONSTANTS
    SfCap, FfCap, CfCap,  \* PDU bytes in a single, first, consecutive frame
    SeqMod,               \* consecutive frames are numbered modulo SeqMod
    BlockSize,            \* config.block_size
    MaxPayload,           \* config.max_payload_len
    MaxWait,              \* config.max_flow_control_wait_frames
    MaxUnrelated,         \* config.max_unrelated_frames
    MaxForeign,           \* NativeCanChannel::max_unrelated_frames
    MaxPending,           \* MAX_RESPONSE_PENDING_FRAMES
    Sids,                 \* service ids (their positive responses exist)
    ReqLens, RespLens,    \* lengths of the PDUs in play
    EcuBlocks,            \* block sizes the ECU asks for (0: no limit)
    Faults,               \* what the bus, the ECU and the caller may do wrong
    MaxCalls, MaxFaults, MaxQueue  \* bounds of the exploration

ASSUME IsoTpAssumption ==
    /\ SfCap \in Nat /\ FfCap \in Nat \ {0} /\ CfCap \in Nat \ {0}
    /\ FfCap < SfCap
    /\ SeqMod \in Nat \ {0, 1} /\ BlockSize \in Nat
    /\ {MaxPayload, MaxWait, MaxUnrelated, MaxForeign, MaxPending} \subseteq Nat
    /\ {MaxCalls, MaxFaults, MaxQueue} \subseteq Nat
    /\ ReqLens \subseteq Nat /\ RespLens \subseteq Nat \ {0}
    /\ EcuBlocks \subseteq Nat
    /\ Faults \subseteq {"lose", "dup", "late", "noise", "wait", "overflow", "pending"}

VARIABLES
    call,      \* exchanges begun
    req,       \* the request PDU of the current (or last) exchange
    asked,     \* history: the requests sent so far
    pc,        \* the await the tester is suspended in
    tx,        \* locals of send_multi_frame_pdu
    rx,        \* locals of recv_multi_frame_pdu
    count,     \* locals that bound the reading loops
    result,    \* of the last exchange: its status and the bytes returned
    toEcu, toTester,  \* frames on the bus, oldest first
    ecu,       \* external: the ECU's ISO-TP state
    heard, given,     \* external: requests the ECU took, responses it gave
    clean,     \* history: no exchange has failed or returned a pending response
    repeated,  \* history: the bus has repeated a frame
    faults     \* faults that happened

tester == <<call, req, asked, pc, tx, rx, count, result>>
bus == <<toEcu, toTester>>
vars == <<tester, bus, ecu, heard, given, clean, repeated, faults>>

----------------------------------------------------------------------------
(* PDUs, bytes and frames *)

NoRequest == [call |-> 0, sid |-> "none", len |-> 0, raw |-> FALSE]
GarbledRequest == [NoRequest EXCEPT !.len = 1]

(* raw: asked through exchange_pdu, which returns any PDU, not exchange. *)
Requests == [call : 1..MaxCalls, sid : Sids, len : ReqLens, raw : BOOLEAN]
Responses == [to : Requests \cup {GarbledRequest},
              kind : {"positive", "negative", "pending"}, len : RespLens]

(* What a tester makes of bytes that belong to several responses. *)
MixedResponses == {[p EXCEPT !.len = 0] : p \in Responses}

Bytes(p) == [i \in 1..p.len |-> <<p, i>>]

Single(data) == [type |-> "SF", data |-> data]
First(len, data) == [type |-> "FF", len |-> len, data |-> data]
Consecutive(seq, data) == [type |-> "CF", seq |-> seq, data |-> data]
FlowControl(status, bs) == [type |-> "FC", status |-> status, bs |-> bs]

Lesser(a, b) == IF a < b THEN a ELSE b

(* The bytes of p that follow the first off. *)
Chunk(p, off) == SubSeq(Bytes(p), off + 1, Lesser(off + CfCap, p.len))

bad_NextSeq(s) == s + 1
NextSeq(s) == (s + 1) % SeqMod

Result(status, bytes) == [status |-> status, bytes |-> bytes]

NoTx == [off |-> 0, seq |-> 0, block |-> 0, bs |-> 0]
NoRx == [bytes |-> <<>>, len |-> 0, seq |-> 0, block |-> 0]
NoCount == [wait |-> 0, unrelated |-> 0, foreign |-> 0, pending |-> 0]
EcuIdle == [st |-> "idle", bytes |-> <<>>, len |-> 0, seq |-> 0, block |-> 0,
            bs |-> 0, pdu |-> NoRequest, off |-> 0]

Init ==
    /\ call = 0 /\ req = NoRequest /\ asked = {} /\ pc = "idle"
    /\ tx = NoTx /\ rx = NoRx /\ count = NoCount /\ result = Result("idle", <<>>)
    /\ toEcu = <<>> /\ toTester = <<>>
    /\ ecu = EcuIdle /\ heard = {} /\ given = {}
    /\ clean = TRUE /\ repeated = FALSE /\ faults = 0

----------------------------------------------------------------------------
(* The tester *)

(* An exchange ends with an error: its locals are dropped, the bus keeps   *)
(* whatever is still on its way.  "limit": a bound on waiting was reached, *)
(* "refused": one side cannot take the PDU, "broken": anything else.        *)
Failed(why) ==
    /\ pc' = "idle"
    /\ result' = Result(why, <<>>)
    /\ clean' = FALSE
    /\ tx' = NoTx /\ rx' = NoRx /\ count' = NoCount

validate_pdu_len(len) == len <= MaxPayload

(* The locals of send_multi_frame_pdu once the first frame is out. *)
bad_StartTx == [NoTx EXCEPT !.seq = 1]
StartTx == [NoTx EXCEPT !.off = FfCap, !.seq = 1]

(* exchange and exchange_pdu: the length checks, then send_pdu up to its   *)
(* first await on an answer.                                               *)
exchange(r) ==
    /\ pc = "idle"
    /\ call < MaxCalls
    /\ r.call = call + 1
    /\ call' = call + 1
    /\ req' = r
    /\ rx' = NoRx /\ count' = NoCount
    /\ IF r.len = 0 \/ ~validate_pdu_len(r.len)
       THEN /\ result' = Result("refused", <<>>)
            /\ UNCHANGED <<asked, pc, tx, toEcu>>
       ELSE /\ asked' = asked \cup {r}
            /\ result' = Result("pending", <<>>)
            /\ IF r.len <= SfCap
               THEN /\ toEcu' = Append(toEcu, Single(Bytes(r)))
                    /\ pc' = "pdu"
                    /\ tx' = NoTx
               ELSE /\ toEcu' = Append(toEcu, First(r.len, SubSeq(Bytes(r), 1, FfCap)))
                    /\ pc' = "flow"
                    /\ tx' = StartTx
    /\ UNCHANGED <<toTester, ecu, heard, given, clean, repeated, faults>>

(* The await on the bus returns the next frame for the response id.        *)
Awaiting == pc \in {"flow", "pdu", "cont"}

recv_frame ==
    /\ Awaiting
    /\ toTester # <<>>
    /\ toTester' = Tail(toTester)

(* Wait frames are counted over one wait; the count of unrelated frames    *)
(* starts again with every read.                                           *)
bad_CountWait == NoCount
CountWait == [NoCount EXCEPT !.wait = count.wait + 1]

(* wait_for_continue_to_send: a Wait is counted, anything that is not a    *)
(* flow-control frame, an overflow and one Wait too many are errors.       *)
wait_for_continue_to_send ==
    /\ pc = "flow"
    /\ recv_frame
    /\ LET f == Head(toTester)
           isWait == f.type = "FC" /\ f.status = "wait"
       IN \/ /\ f.type = "FC" /\ f.status = "cts"
             /\ tx' = [tx EXCEPT !.block = 0, !.bs = f.bs]
             /\ count' = NoCount
             /\ pc' = "send"
             /\ UNCHANGED <<rx, result, clean>>
          \/ /\ isWait /\ count.wait < MaxWait
             /\ count' = CountWait
             /\ UNCHANGED <<pc, tx, rx, result, clean>>
          \/ isWait /\ count.wait >= MaxWait /\ Failed("limit")
          \/ f.type = "FC" /\ f.status = "overflow" /\ Failed("refused")
          \/ f.type # "FC" /\ Failed("broken")
    /\ UNCHANGED <<call, req, asked, toEcu, ecu, heard, given, repeated, faults>>

(* The frame just sent is the last of the ECU's block. *)
bad_SentBlock == tx.bs # 0 /\ tx.block >= tx.bs
SentBlock == tx.bs # 0 /\ tx.block + 1 >= tx.bs

(* One turn of the sending loop.  When the ECU's block is full and bytes   *)
(* remain, the tester waits for flow control again.                        *)
send_consecutive ==
    /\ pc = "send"
    /\ LET off == Lesser(tx.off + CfCap, req.len)
       IN /\ toEcu' = Append(toEcu, Consecutive(tx.seq, Chunk(req, tx.off)))
          /\ tx' = [tx EXCEPT !.off = off, !.seq = NextSeq(@), !.block = @ + 1]
          /\ pc' = IF off >= req.len THEN "pdu" ELSE IF SentBlock THEN "flow" ELSE "send"
    /\ UNCHANGED <<call, req, asked, rx, count, result, toTester, ecu, heard, given, clean, repeated, faults>>

(* What the first byte of a reassembled PDU says it is.                    *)
Meaning(bytes) == bytes[1][1]

is_response_pending_for(bytes) ==
    LET p == Meaning(bytes) IN p.kind = "pending" /\ p.to.sid = req.sid

(* A negative response of any service ends the exchange, and so does a     *)
(* positive one of the requested service.                                  *)
strip_response_for_request(bytes) ==
    LET p == Meaning(bytes) IN p.kind # "positive" \/ p.to.sid = req.sid

(* A PDU has been reassembled: a pending one is waited through, at most    *)
(* MaxPending times; exchange_pdu returns whatever it is.                  *)
Received(bytes) ==
    \/ /\ ~req.raw /\ is_response_pending_for(bytes) /\ count.pending < MaxPending
       /\ count' = [NoCount EXCEPT !.pending = count.pending + 1]
       /\ pc' = "pdu"
       /\ rx' = NoRx
       /\ UNCHANGED <<tx, result, clean>>
    \/ /\ req.raw \/ (~is_response_pending_for(bytes) /\ strip_response_for_request(bytes))
       /\ pc' = "idle"
       /\ result' = Result("ok", bytes)
       /\ tx' = NoTx /\ rx' = NoRx /\ count' = NoCount
       /\ clean' = (clean /\ Meaning(bytes).kind # "pending")
    \/ /\ ~req.raw
       /\ \/ is_response_pending_for(bytes) /\ count.pending >= MaxPending /\ Failed("limit")
          \/ ~is_response_pending_for(bytes) /\ ~strip_response_for_request(bytes) /\ Failed("broken")

(* recv_pdu: a single frame is a PDU; a first frame of acceptable length   *)
(* is answered with flow control.                                          *)
recv_pdu ==
    /\ pc = "pdu"
    /\ recv_frame
    /\ LET f == Head(toTester)
           fits == f.type \in {"SF", "FF"} /\ validate_pdu_len(IF f.type = "SF" THEN Len(f.data) ELSE f.len)
       IN \/ /\ f.type = "SF" /\ fits
             /\ Received(f.data)
             /\ UNCHANGED toEcu
          \/ /\ f.type = "FF" /\ f.len > SfCap /\ fits
             /\ toEcu' = Append(toEcu, FlowControl("cts", BlockSize))
             /\ rx' = [bytes |-> f.data, len |-> f.len, seq |-> 1, block |-> 0]
             /\ count' = [NoCount EXCEPT !.pending = count.pending]
             /\ pc' = "cont"
             /\ UNCHANGED <<tx, result, clean>>
          \/ /\ \/ f.type \in {"SF", "FF"} /\ ~fits /\ Failed("refused")
                \/ f.type = "FF" /\ f.len <= SfCap /\ fits /\ Failed("broken")
                \/ f.type \notin {"SF", "FF"} /\ Failed("broken")
             /\ UNCHANGED toEcu
    /\ UNCHANGED <<call, req, asked, ecu, heard, given, repeated, faults>>

(* The frame just read is the last of the tester's own block. *)
bad_ReceivedBlock == BlockSize # 0 /\ rx.block >= BlockSize
ReceivedBlock == BlockSize # 0 /\ rx.block + 1 >= BlockSize

(* The frame continues the PDU: its type, its number, and a payload. *)
bad_Continues(f) == f.type = "CF" /\ f.data # <<>>
Continues(f) == f.type = "CF" /\ f.seq = rx.seq /\ f.data # <<>>

(* One turn of the reassembly loop of recv_multi_frame_pdu. *)
recv_consecutive ==
    /\ pc = "cont"
    /\ recv_frame
    /\ LET f == Head(toTester)
           bytes == rx.bytes \o SubSeq(f.data, 1, Lesser(rx.len - Len(rx.bytes), Len(f.data)))
           more == Len(bytes) < rx.len
       IN \/ /\ Continues(f) /\ more
             /\ rx' = [rx EXCEPT !.bytes = bytes, !.seq = NextSeq(@),
                                 !.block = IF ReceivedBlock THEN 0 ELSE @ + 1]
             /\ toEcu' = IF ReceivedBlock THEN Append(toEcu, FlowControl("cts", BlockSize)) ELSE toEcu
             /\ count' = [NoCount EXCEPT !.pending = count.pending]
             /\ UNCHANGED <<pc, tx, result, clean>>
          \/ /\ Continues(f) /\ ~more
             /\ Received(bytes)
             /\ UNCHANGED toEcu
          \/ /\ ~Continues(f)
             /\ Failed("broken")
             /\ UNCHANGED toEcu
    /\ UNCHANGED <<call, req, asked, ecu, heard, given, repeated, faults>>

(* read_matching_frame: a frame of another id that passes the channel's    *)
(* filter is counted until there are too many.                             *)
ReadUnrelated ==
    /\ Awaiting
    /\ "noise" \in Faults
    /\ \/ /\ count.unrelated < MaxUnrelated
          /\ count' = [count EXCEPT !.unrelated = @ + 1, !.foreign = 0]
          /\ UNCHANGED <<pc, tx, rx, result, clean>>
       \/ /\ count.unrelated >= MaxUnrelated
          /\ Failed("limit")
    /\ UNCHANGED <<call, req, asked, bus, ecu, heard, given, repeated, faults>>

(* NativeCanChannel::recv_frame: frames the route does not accept are      *)
(* skipped, and after too many the read times out.                         *)
ReadForeign ==
    /\ Awaiting
    /\ "noise" \in Faults
    /\ \/ /\ count.foreign < MaxForeign
          /\ count' = [count EXCEPT !.foreign = @ + 1]
          /\ UNCHANGED <<pc, tx, rx, result, clean>>
       \/ /\ count.foreign >= MaxForeign
          /\ Failed("limit")
    /\ UNCHANGED <<call, req, asked, bus, ecu, heard, given, repeated, faults>>

(* Nothing is on its way and the ECU will not send: only then, unless the  *)
(* bus is slow, does a read fail or the caller drop the exchange.          *)
Quiet == toEcu = <<>> /\ toTester = <<>> /\ ecu.st \in {"idle", "recv", "flow"}

ReadFails ==
    /\ Awaiting
    /\ \/ Quiet /\ UNCHANGED faults
       \/ ~Quiet /\ "late" \in Faults /\ faults < MaxFaults /\ faults' = faults + 1
    /\ Failed("broken")
    /\ UNCHANGED <<call, req, asked, bus, ecu, heard, given, repeated>>

TesterStep ==
    \/ wait_for_continue_to_send
    \/ send_consecutive
    \/ recv_pdu
    \/ recv_consecutive
    \/ ReadUnrelated
    \/ ReadForeign
    \/ ReadFails

----------------------------------------------------------------------------
(* External: the ECU, as ISO 15765-2 has it *)

Room == Len(toTester) < MaxQueue

(* The request the bytes make up; a mixture of several is none of them. *)
RequestOf(bytes) ==
    IF bytes = Bytes(Meaning(bytes)) THEN Meaning(bytes)
    ELSE GarbledRequest

Takes(bytes) ==
    /\ heard' = heard \cup {RequestOf(bytes)}
    /\ ecu' = [EcuIdle EXCEPT !.st = "answer", !.pdu = RequestOf(bytes)]

(* The ECU reads a frame.  A new single or first frame replaces whatever   *)
(* was going on; a consecutive frame out of order ends the reception.      *)
EcuReads ==
    /\ toEcu # <<>>
    /\ ecu.st \notin {"answer", "send"}
    /\ toEcu' = Tail(toEcu)
    /\ LET f == Head(toEcu)
           inOrder == f.type = "CF" /\ ecu.st = "recv" /\ f.seq = ecu.seq
       IN \/ f.type = "SF" /\ Takes(f.data)
          \/ /\ f.type = "FF"
             /\ ecu' = [EcuIdle EXCEPT !.st = "grant", !.bytes = f.data, !.len = f.len, !.seq = 1]
             /\ UNCHANGED heard
          \/ /\ inOrder
             /\ LET bytes == ecu.bytes \o f.data
                    full == ecu.bs # 0 /\ ecu.block + 1 >= ecu.bs
                IN IF Len(bytes) >= ecu.len
                   THEN Takes(bytes)
                   ELSE /\ ecu' = [ecu EXCEPT !.bytes = bytes, !.seq = NextSeq(@), !.block = @ + 1,
                                              !.st = IF full THEN "grant" ELSE "recv"]
                        /\ UNCHANGED heard
          \/ /\ f.type = "CF" /\ ~inOrder
             /\ ecu' = IF ecu.st \in {"recv", "grant"} THEN EcuIdle ELSE ecu
             /\ UNCHANGED heard
          \/ /\ f.type = "FC"
             /\ ecu' = IF ecu.st = "flow" THEN [ecu EXCEPT !.st = "send", !.block = 0, !.bs = f.bs]
                       ELSE ecu
             /\ UNCHANGED heard
    /\ UNCHANGED <<tester, toTester, given, clean, repeated, faults>>

(* Flow control for a request in reception: go ahead, wait, or give up.    *)
EcuGrants ==
    /\ ecu.st = "grant"
    /\ Room
    /\ \/ \E bs \in EcuBlocks :
             /\ toTester' = Append(toTester, FlowControl("cts", bs))
             /\ ecu' = [ecu EXCEPT !.st = "recv", !.bs = bs, !.block = 0]
             /\ UNCHANGED faults
       \/ /\ "wait" \in Faults
          /\ toTester' = Append(toTester, FlowControl("wait", 0))
          /\ UNCHANGED <<ecu, faults>>
       \/ /\ "overflow" \in Faults /\ faults < MaxFaults
          /\ toTester' = Append(toTester, FlowControl("overflow", 0))
          /\ ecu' = EcuIdle
          /\ faults' = faults + 1
    /\ UNCHANGED <<tester, toEcu, heard, given, clean, repeated>>

(* The ECU answers the request it took: with the response, or with a       *)
(* response-pending first.                                                 *)
EcuAnswers ==
    /\ ecu.st = "answer"
    /\ Room
    /\ \E p \in Responses :
        /\ p.to = ecu.pdu
        /\ p.kind = "pending" => "pending" \in Faults
        /\ p.kind # "positive" => p.len <= SfCap
        /\ given' = given \cup {p}
        /\ IF p.len <= SfCap
           THEN /\ toTester' = Append(toTester, Single(Bytes(p)))
                /\ ecu' = IF p.kind = "pending" THEN ecu ELSE EcuIdle
           ELSE /\ toTester' = Append(toTester, First(p.len, SubSeq(Bytes(p), 1, FfCap)))
                /\ ecu' = [EcuIdle EXCEPT !.st = "flow", !.pdu = p, !.off = FfCap, !.seq = 1]
    /\ UNCHANGED <<tester, toEcu, heard, clean, repeated, faults>>

EcuSends ==
    /\ ecu.st = "send"
    /\ Room
    /\ LET off == Lesser(ecu.off + CfCap, ecu.pdu.len)
           full == ecu.bs # 0 /\ ecu.block + 1 >= ecu.bs
       IN /\ toTester' = Append(toTester, Consecutive(ecu.seq, Chunk(ecu.pdu, ecu.off)))
          /\ ecu' = IF off >= ecu.pdu.len THEN EcuIdle
                    ELSE [ecu EXCEPT !.off = off, !.seq = NextSeq(@), !.block = @ + 1,
                                     !.st = IF full THEN "flow" ELSE "send"]
    /\ UNCHANGED <<tester, toEcu, heard, given, clean, repeated, faults>>

(* The ECU's own timer ends a transfer that gets no frames any more.       *)
EcuGivesUp ==
    /\ ecu.st \in {"recv", "flow"}
    /\ toEcu = <<>>
    /\ pc = "idle"
    /\ ecu' = EcuIdle
    /\ UNCHANGED <<tester, bus, heard, given, clean, repeated, faults>>

(* The bus loses a burst of the oldest frames, or repeats the oldest.      *)
BusFault ==
    /\ faults < MaxFaults
    /\ faults' = faults + 1
    /\ \/ /\ "lose" \in Faults
          /\ \/ \E n \in 1..Len(toEcu) :
                   toEcu' = SubSeq(toEcu, n + 1, Len(toEcu)) /\ UNCHANGED toTester
             \/ \E n \in 1..Len(toTester) :
                   toTester' = SubSeq(toTester, n + 1, Len(toTester)) /\ UNCHANGED toEcu
          /\ UNCHANGED repeated
       \/ /\ "dup" \in Faults
          /\ \/ toEcu # <<>> /\ toEcu' = <<Head(toEcu)>> \o toEcu /\ UNCHANGED toTester
             \/ toTester # <<>> /\ toTester' = <<Head(toTester)>> \o toTester /\ UNCHANGED toEcu
          /\ repeated' = TRUE
    /\ UNCHANGED <<tester, ecu, heard, given, clean>>

EcuStep == EcuReads \/ EcuGrants \/ EcuAnswers \/ EcuSends

Next ==
    \/ \E r \in Requests : exchange(r)
    \/ TesterStep
    \/ EcuStep
    \/ EcuGivesUp
    \/ BusFault

(* The tester's future is polled, the bus delivers, the ECU runs. *)
Fairness == WF_vars(TesterStep) /\ WF_vars(EcuStep)

Spec == Init /\ [][Next]_vars /\ Fairness

----------------------------------------------------------------------------
(* Properties *)

(* The locals of the exchange and the ECU stay within the sizes and bounds *)
(* the configuration gives them.                                           *)
TypeOK ==
    /\ call \in 0..MaxCalls
    /\ req \in Requests \cup {NoRequest} /\ asked \subseteq Requests
    /\ pc \in {"idle", "flow", "send", "pdu", "cont"}
    /\ tx \in [off : Nat, seq : 0..(SeqMod - 1), block : Nat, bs : EcuBlocks \cup {0}]
    /\ rx.len \in 0..MaxPayload /\ rx.seq \in 0..(SeqMod - 1) /\ Len(rx.bytes) <= rx.len
    /\ count \in [wait : 0..MaxWait, unrelated : 0..MaxUnrelated,
                  foreign : 0..MaxForeign, pending : 0..MaxPending]
    /\ result.status \in {"idle", "pending", "ok", "broken", "limit", "refused"}
    /\ (pc = "idle") <=> (result.status # "pending")
    /\ given \subseteq Responses
    /\ faults \in 0..MaxFaults

(* However many frames the bus loses, the responses returned before the    *)
(* first failed exchange are whole: after a gap recv_multi_frame_pdu never *)
(* gets to the announced length.  Neither is one made of a repeated frame, *)
(* which its sequence check finds although the numbers wrap, as long as    *)
(* the repetition is the only fault.                                       *)
WholeResponse ==
    (clean /\ result.status = "ok" /\ (repeated => faults <= 1)) =>
        result.bytes = Bytes(Meaning(result.bytes))

(* Consecutive frames sent but not yet read by the ECU. *)
Unread == Cardinality({i \in 1..Len(toEcu) : toEcu[i].type = "CF"})

(* The sending loop stops at the end of every block: the ECU never has     *)
(* more consecutive frames to take than its last flow control allowed, and *)
(* none at all while it holds flow control back.                           *)
WithinBlock ==
    (clean /\ ~repeated) =>
        /\ (ecu.st = "recv" /\ ecu.bs # 0) => ecu.block + Unread <= ecu.bs
        /\ (ecu.st = "grant") => Unread = 0

(* Tester and ECU agree on sequence numbers and on where blocks end: an    *)
(* exchange that meets no fault and starts in step is never broken off,    *)
(* neither by a check of recv_multi_frame_pdu nor by both sides waiting    *)
(* for each other.                                                         *)
NotBrokenWithoutFault ==
    [][(clean /\ faults' = 0) => result'.status # "broken"]_vars

(* The loops of wait_for_continue_to_send, read_matching_frame, the native *)
(* channel and exchange are all bounded: an exchange returns even if the   *)
(* ECU asks for time and the bus carries other frames for ever.            *)
ExchangeReturns == (result.status = "pending") ~> (result.status # "pending")

----------------------------------------------------------------------------
(* The abstract exchange *)

Answered(p) == p.to
Accepts(p, r) == r.raw \/ p.kind # "positive" \/ p.to.sid = r.sid

(* The response the returned bytes make up. *)
ResponseOf(bytes) ==
    IF bytes = Bytes(Meaning(bytes)) THEN Meaning(bytes) ELSE [Meaning(bytes) EXCEPT !.len = 0]

Exchange == INSTANCE PduExchange WITH
    Garbled <- {GarbledRequest},
    Mixed <- MixedResponses,
    AnswerTo <- Answered,
    Acceptable <- Accepts,
    inStep <- clean /\ ~repeated,
    status <- IF result.status \in {"idle", "pending", "ok"} THEN result.status ELSE "err",
    current <- IF call = 0 THEN {} ELSE {req},
    returned <- IF result.status = "ok" THEN {ResponseOf(result.bytes)} ELSE {}

(* The transport implements the abstract exchange whatever the bus and the *)
(* ECU do: while the ends are in step, requests arrive whole or not at all *)
(* and a returned response is the one the ECU gave to the request, with no *)
(* byte missing, repeated or taken from another.                           *)
ImplementsExchange == Exchange!Spec
============================================================================
