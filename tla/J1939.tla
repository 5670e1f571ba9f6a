------------------------------- MODULE J1939 --------------------------------
(***************************************************************************)
(* Diagnostic messages over a J1939 bus (protocol/j1939.rs).  Sources send *)
(* DM messages: in one frame when they fit, else announced by BAM or RTS   *)
(* and cut into TP.DT packets of seven bytes.  The tool keeps one          *)
(* TpReassembler per source, and J1939Client hands out what it parses.     *)
(*                                                                         *)
(* A frame is a 29-bit identifier and its bytes; it passes through the     *)
(* encoders and decoders of J1939Codec.  CAN keeps the order of frames; a  *)
(* frame may be lost or seen twice.  The sources and the loop that feeds   *)
(* the reassemblers are outside the repository: a control message starts a *)
(* new reassembler, an error drops it, a completed one is kept until then. *)
(***************************************************************************)
EXTENDS J1939Codec, FiniteSets

CONSTANTS
    Sources,      \* addresses of the control units
    Contents,     \* what they may send: [pgn, v], v the decoded message
    SeqMax,       \* largest u8 sequence number: 255 in the code
    MaxSends,     \* bound on messages sent
    MaxLost,      \* bound on lost frames
    MaxTwice,     \* bound on frames seen twice
    MaxCalls      \* bound on client calls

ASSUME J1939Assumption ==
    /\ Sources \subseteq 0..253
    /\ SeqMax \in 1..255
    /\ {MaxSends, MaxLost, MaxTwice, MaxCalls} \subseteq Nat

VARIABLES
    out,      \* per source: the frames of its message still to send
    sending,  \* per source: the message those frames carry
    intact,   \* per source: no frame of that message was lost or seen twice
    sent,     \* messages announced so far
    rx,       \* per source: its TpReassembler, a set of at most one
    got,      \* messages the tool has assembled
    call,     \* the client's call in progress
    result,   \* what the last call returned
    budget    \* what is left of the bounds

vars == <<out, sending, intact, sent, rx, got, call, result, budget>>

TOOL == 249

----------------------------------------------------------------------------
(* Reassembly *)

TP_MAX_MESSAGE_SIZE == TP_PACKET_DATA_LEN * SeqMax

RequiredPackets(size) == (size + TP_PACKET_DATA_LEN - 1) \div TP_PACKET_DATA_LEN

validate_tp_size(size, packets) ==
    size \in 1..TP_MAX_MESSAGE_SIZE /\ RequiredPackets(size) = packets

(* The history fields gap (the longest run of this source's frames missed *)
(* since the start), run and made (messages completed) are not the code's. *)
start(control) ==
    IF control.kind \in {"bam", "rts"} /\ validate_tp_size(control.size, control.packets)
    THEN Ok([pgn |-> control.pgn, expected_size |-> control.size,
             expected_packets |-> control.packets, next_sequence |-> 1, payload |-> <<>>,
             made |-> 0, run |-> 0, gap |-> 0])
    ELSE Err

(* u8::saturating_add: the number after the last one is the last one. *)
bad_NextSequence(n) == n
NextSequence(n) == IF n < SeqMax THEN n + 1 ELSE n

bad_InSequence(r, dt) == dt.sequence <= r.expected_packets
InSequence(r, dt) == dt.sequence = r.next_sequence /\ dt.sequence <= r.expected_packets

(* The last packet is padded: no more than the announced size is taken. *)
Take(r) ==
    LET remaining == r.expected_size - Len(r.payload)
    IN  IF remaining < TP_PACKET_DATA_LEN THEN remaining ELSE TP_PACKET_DATA_LEN

accept_dt(r, dt) ==
    IF ~InSequence(r, dt) THEN Err
    ELSE Ok([r EXCEPT !.payload = @ \o Slice(dt.data, 0, Take(r)),
                      !.next_sequence = NextSequence(@), !.run = 0])

Completes(r) == Len(r.payload) = r.expected_size

(* The payload is moved into the message; the numbers stay. *)
bad_Emptied(r) == [r EXCEPT !.payload = <<>>, !.made = @ + 1, !.next_sequence = 1]
Emptied(r) == [r EXCEPT !.payload = <<>>, !.made = @ + 1]

Message(s, r) ==
    [source |-> s, pgn |-> r.pgn, payload |-> r.payload,
     nth |-> r.made + 1, gap |-> r.gap, packets |-> r.expected_packets]

----------------------------------------------------------------------------
(* What a source puts on the bus *)

FrameOf(s, pgn, payload) ==
    [id |-> encode([priority |-> 6, pgn |-> pgn, source |-> s, destination |-> {GLOBAL_ADDRESS}]),
     payload |-> payload]

Padded(b, n) == b \o Fill(n - Len(b), 255)

Build(c) ==
    CASE c.pgn \in {Pgns.DM1, Pgns.DM2} -> dm_to_payload(c.v).v
      [] c.pgn = Pgns.DM5 -> dm5_to_payload(c.v)
      [] c.pgn = Pgns.DM24 -> dm24_to_payload(c.v).v
      [] c.pgn = Pgns.DM25 -> dm25_to_payload(c.v).v
      [] c.pgn = Pgns.ACKNOWLEDGEMENT -> ack_to_payload(c.v)

(* A source sends what the transport protocol can carry. *)
ASSUME ContentsAssumption ==
    \A c \in Contents :
        /\ c.pgn \in {Pgns.DM1, Pgns.DM2, Pgns.DM5, Pgns.DM24, Pgns.DM25, Pgns.ACKNOWLEDGEMENT}
        /\ Build(c) \in Seq(Byte)
        /\ Len(Build(c)) <= 8 \/ Len(Build(c)) <= TP_MAX_MESSAGE_SIZE

Frames(s, c, announce) ==
    LET b == Build(c)
        n == RequiredPackets(Len(b))
        packet(i) == Padded(Slice(b, 7 * (i - 1), IF i < n THEN 7 ELSE Len(b) - 7 * (n - 1)), 7)
    IN  IF Len(b) <= 8 THEN <<FrameOf(s, c.pgn, Padded(b, 8))>>
        ELSE <<FrameOf(s, Pgns.TP_CM, tp_to_payload(Tp(announce, Len(b), n, 255, c.pgn)))>>
             \o [i \in 1..n |-> FrameOf(s, Pgns.TP_DT,
                                        dt_to_payload([sequence |-> i, data |-> packet(i)]))]

----------------------------------------------------------------------------
(* The client *)

Ops == {"dm1", "dm2", "dm3", "dm5", "dm11", "dm24", "dm25"}

Asked(op) == CASE op = "dm1" -> Pgns.DM1 [] op = "dm2" -> Pgns.DM2 [] op = "dm3" -> Pgns.DM3
               [] op = "dm5" -> Pgns.DM5 [] op = "dm11" -> Pgns.DM11 [] op = "dm24" -> Pgns.DM24
               [] op = "dm25" -> Pgns.DM25

bad_expect_pgn(m, pgn) == Ok(m.payload)
expect_pgn(m, pgn) == IF m.pgn = pgn THEN Ok(m.payload) ELSE Err

Answer(op) == IF op \in {"dm3", "dm11"} THEN Pgns.ACKNOWLEDGEMENT ELSE Asked(op)

Parse(op, p) ==
    CASE op \in {"dm1", "dm2"} -> parse_dm_dtc_message(p)
      [] op \in {"dm3", "dm11"} -> parse_clear_response(p, Asked(op))
      [] op = "dm5" -> parse_dm5(p)
      [] op = "dm24" -> parse_dm24(p)
      [] op = "dm25" -> parse_dm25(p)

----------------------------------------------------------------------------
NoMessage == [source |-> TOOL, pgn |-> 0, payload |-> <<>>, nth |-> 0, gap |-> 0, packets |-> 0]
NoResult == [op |-> "dm1", m |-> NoMessage, r |-> Err]

Init ==
    /\ out = [s \in Sources |-> <<>>]
    /\ sending = [s \in Sources |-> {}]
    /\ intact = [s \in Sources |-> TRUE]
    /\ sent = {}
    /\ rx = [s \in Sources |-> {}]
    /\ got = {}
    /\ call = {}
    /\ result = NoResult
    /\ budget = [sends |-> MaxSends, lost |-> MaxLost, twice |-> MaxTwice, calls |-> MaxCalls]

Spend(what) == budget[what] > 0 /\ budget' = [budget EXCEPT ![what] = @ - 1]

(* A source sends its next message, broadcast or with a request to send.  *)
SourceSends(s, c, announce) ==
    /\ out[s] = <<>>
    /\ Spend("sends")
    /\ out' = [out EXCEPT ![s] = Frames(s, c, announce)]
    /\ sending' = [sending EXCEPT ![s] = {c}]
    /\ intact' = [intact EXCEPT ![s] = TRUE]
    /\ sent' = sent \cup {[source |-> s, pgn |-> c.pgn, v |-> c.v]}
    /\ UNCHANGED <<rx, got, call, result>>

(* The tool handles a frame: TP.CM opens a session, TP.DT feeds it, and   *)
(* any other group is a message of one frame.                              *)
Hears(frame) ==
    LET id == decode(frame.id).v
        s == id.source
        made == IF rx[s] = {} THEN Err
                ELSE accept_dt(CHOOSE r \in rx[s] : TRUE, dt_parse(frame.payload).v)
        opened == start(tp_parse(frame.payload).v)
    IN  CASE id.pgn = Pgns.TP_CM ->
               /\ rx' = [rx EXCEPT ![s] = IF opened.ok THEN {opened.v} ELSE {}]
               /\ UNCHANGED got
          [] id.pgn = Pgns.TP_DT /\ made.ok ->
               /\ rx' = [rx EXCEPT ![s] = {IF Completes(made.v) THEN Emptied(made.v) ELSE made.v}]
               /\ got' = IF Completes(made.v) THEN got \cup {Message(s, made.v)} ELSE got
          [] id.pgn = Pgns.TP_DT /\ ~made.ok ->
               /\ rx' = [rx EXCEPT ![s] = {}]
               /\ UNCHANGED got
          [] OTHER ->
               /\ got' = got \cup {[NoMessage EXCEPT !.source = s, !.pgn = id.pgn,
                                                     !.payload = frame.payload, !.nth = 1]}
               /\ UNCHANGED rx

Deliver(s) ==
    /\ out[s] # <<>>
    /\ Hears(Head(out[s]))
    /\ out' = [out EXCEPT ![s] = Tail(@)]
    /\ UNCHANGED <<sending, intact, sent, call, result, budget>>

(* The frame is seen twice: the sender repeats it. *)
DeliverTwice(s) ==
    /\ out[s] # <<>>
    /\ Spend("twice")
    /\ Hears(Head(out[s]))
    /\ intact' = [intact EXCEPT ![s] = FALSE]
    /\ UNCHANGED <<out, sending, sent, call, result>>

Missed(r) == [r EXCEPT !.run = @ + 1, !.gap = IF @ < r.run + 1 THEN r.run + 1 ELSE @]

Lose(s) ==
    /\ out[s] # <<>>
    /\ Spend("lost")
    /\ out' = [out EXCEPT ![s] = Tail(@)]
    /\ intact' = [intact EXCEPT ![s] = FALSE]
    /\ rx' = [rx EXCEPT ![s] = {Missed(r) : r \in @}]
    /\ UNCHANGED <<sending, sent, got, call, result>>

(* request_dm1 ... request_dm25, clear_dm3, clear_dm11: send the request. *)
Request(op) ==
    /\ call = {}
    /\ Spend("calls")
    /\ request_to_frame(TOOL, GLOBAL_ADDRESS, Asked(op)).ok
    /\ call' = {op}
    /\ UNCHANGED <<out, sending, intact, sent, rx, got, result>>

(* The transport hands back a message, not always the one asked for. *)
Returns(m) ==
    \E op \in call :
        /\ call' = {}
        /\ result' = [op |-> op, m |-> m,
                      r |-> Then(expect_pgn(m, Answer(op)), LAMBDA p : Parse(op, p))]
        /\ UNCHANGED <<out, sending, intact, sent, rx, got, budget>>

Next ==
    \/ \E s \in Sources, c \in Contents, a \in {"bam", "rts"} : SourceSends(s, c, a)
    \/ \E s \in Sources : Deliver(s) \/ DeliverTwice(s) \/ Lose(s)
    \/ \E op \in Ops : Request(op)
    \/ \E m \in got : Returns(m)

Spec == Init /\ [][Next]_vars

----------------------------------------------------------------------------
(* Payload m is what its source sent. *)
WasSent(m) == \E c \in sent : c.source = m.source /\ c.pgn = m.pgn
                              /\ StartsWith(Padded(m.payload, 32), Build(c))
                              /\ (m.packets > 0 => m.payload = Build(c))

(* accept_dt: the first message a session completes is, byte for byte,     *)
(* one its source sent, whatever was lost, seen twice or interleaved,      *)
(* unless more frames than the session has packets were missed in a row:   *)
(* the reassembler has no timer and a packet no session number, so a later *)
(* message may then continue an earlier one.                               *)
NoSplice == \A m \in got : (m.nth = 1 /\ m.gap <= m.packets) => WasSent(m)

(* accept_dt completes a session once.  Only a session of SeqMax packets   *)
(* can complete again: its saturated number lets the last packet repeat.   *)
OncePerSession == \A m \in got : m.nth > 1 => m.packets = SeqMax

(* start, accept_dt: a message none of whose frames was lost or repeated   *)
(* has been assembled when its last frame is through, in the middle of any *)
(* other source's message and after any fault.                             *)
IntactDelivered ==
    \A s \in Sources : \A c \in sending[s] :
        (out[s] = <<>> /\ intact[s]) =>
            \E m \in got : /\ m.source = s /\ m.pgn = c.pgn
                           /\ StartsWith(Padded(m.payload, 32), Build(c))

(* request_dm1 ... clear_dm11: what a call returns is what a source sent   *)
(* in the group the call asks for, and an acknowledgement is about the     *)
(* group that was to be cleared, however late the message.                 *)
ResultAsSent ==
    (result.r.ok /\ WasSent(result.m)) =>
        \E c \in sent :
            IF result.op \in {"dm3", "dm11"}
            THEN c.pgn = Pgns.ACKNOWLEDGEMENT /\ c.v = result.r.v /\ c.v.pgn = Asked(result.op)
            ELSE c.pgn = Asked(result.op) /\ c.v = result.r.v
=============================================================================
