-------------------------------- MODULE Uds ---------------------------------
(***************************************************************************)
(* UdsClient (protocol/uds.rs) and the plain ProtocolClients               *)
(* (protocol/client.rs) over a framed Transport.  A PDU is its bytes.      *)
(*                                                                         *)
(* A transport hands back the whole response PDU ("raw"), the PDU without  *)
(* its service byte ("stripped", as IsoTp does), or what the ELM decoder   *)
(* makes of the chip's text ("elm").  After a failed exchange a late       *)
(* response stays for the next exchange of the same service.  On the ELM   *)
(* link other control units may answer the same request.                   *)
(***************************************************************************)
EXTENDS ElmDecode

CONSTANTS
    Transports,   \* subset of {"raw", "stripped", "elm"}
    Calls,        \* the client calls to make: see Call below
    Records,      \* bytes a control unit may answer with after the echo
    Codes,        \* codes a control unit may refuse a request with
    Others,       \* what another control unit answers: subset of Neighbours
    MaxCalls      \* bound on calls

ASSUME UdsAssumption == Transports \subseteq {"raw", "stripped", "elm"} /\ MaxCalls \in Nat

VARIABLES
    transport,  \* the transport in use
    bus,        \* responses not yet handed back: Seq([req, pdu, data])
    call,       \* the call in progress, a set of at most one
    inStep,     \* no earlier exchange left its response on the bus
    result,     \* the last call that returned, with the response it got
    calls       \* calls made

vars == <<transport, bus, call, inStep, result, calls>>

NEGATIVE == 127

----------------------------------------------------------------------------
(* The services: the request, and how its answer is taken apart.           *)

Call(sid, data, take) == [sid |-> sid, data |-> data, take |-> take]

diagnostic_session_control(type) == Call(16, <<type>>, "echo")
ecu_reset(type) == Call(17, <<type>>, "echo")
clear_diagnostic_information(group) == Call(20, group, "empty")
read_dtc_information(sub, data) == Call(25, <<sub>> \o data, "echo")
report_dtcs_by_status_mask(mask) == Call(25, <<2, mask>>, "dtcs")
read_data_by_identifier(did) == Call(34, did, "identifier")
security_access(sub, data) == Call(39, <<sub>> \o data, "echo")
authentication(sub, data) == Call(41, <<sub>> \o data, "echo")
write_data_by_identifier(did, data) == Call(46, did \o data, "did")
input_output_control_by_identifier(did, record) == Call(47, did \o record, "did")
routine_control(type, id, record) == Call(49, <<type>> \o id \o record, "routine")
tester_present == Call(62, <<0>>, "echo")
control_dtc_setting(type, data) == Call(133, <<type>> \o data, "echo")

(* ProtocolClient::request: Did16 and Raw requests go out as they are. *)
request(sid, data) == Call(sid, data, "payload")

(* J1979Client::request hands back the transport's payload untouched. *)
j1979_request(sid, data) == Call(sid, data, "transport")

----------------------------------------------------------------------------
(* Matching a payload with its request *)

positive_response_sid(sid) == IF sid + 64 > 255 THEN Err ELSE Ok(sid + 64)

(* A refusal is an error that carries its service and its code. *)
ReadRefusal(pdu) == IF Len(pdu) < 3 THEN Err ELSE NegativeResponse(pdu[2], pdu[3])

parse_uds_response(sid, pdu) ==
    IF pdu # <<>> /\ pdu[1] = NEGATIVE THEN ReadRefusal(pdu)
    ELSE IF pdu = <<>> \/ ~positive_response_sid(sid).ok \/ pdu[1] # positive_response_sid(sid).v
    THEN Err
    ELSE Ok(After(pdu, 1))

EchoLength(sid) == CASE sid = 20 -> 0 [] sid \in {34, 46, 47} -> 2 [] sid = 49 -> 3 [] OTHER -> 1

bad_raw_positive_response_matches_echo(sid, asked, data) == TRUE
raw_positive_response_matches_echo(sid, asked, data) ==
    IF EchoLength(sid) = 0 THEN data = <<>>
    ELSE Len(asked) >= EchoLength(sid) /\ StartsWith(data, Slice(asked, 0, EchoLength(sid)))

(* A payload may or may not still have its service byte: it is dropped     *)
(* when it is the positive one and the echo follows it.                    *)
normalize_transport_payload(sid, asked, p) ==
    IF p # <<>> /\ p[1] = NEGATIVE THEN parse_uds_response(sid, p)
    ELSE IF p # <<>> /\ ~positive_response_sid(sid).ok THEN Err
    ELSE IF /\ p # <<>>
            /\ p[1] = positive_response_sid(sid).v
            /\ raw_positive_response_matches_echo(sid, asked, After(p, 1))
    THEN Ok(After(p, 1))
    ELSE Ok(p)

bad_split_required_echo(p, expected) == IF p = <<>> THEN Err ELSE Ok(After(p, 1))
split_required_echo(p, expected) == IF p = <<>> \/ p[1] # expected THEN Err ELSE Ok(After(p, 1))

split_required_did(p, did) == IF Len(p) < 2 \/ Be16(p) # Be16(did) THEN Err ELSE Ok(After(p, 2))

RequireRoutine(p, type, id) ==
    Then(split_required_echo(p, type), LAMBDA rest : split_required_did(rest, id))

(* UdsDtc: two bytes of code, the failure type and the status. *)
decode_dtc_and_status_records(b) ==
    IF Remainder(b, 4) # <<>> THEN Err
    ELSE Ok(Map(Chunks(b, 4), LAMBDA c : [code |-> Be16(c), failure_type |-> c[3], status |-> c[4]]))

DtcReport(data) == IF data = <<>> THEN Err ELSE decode_dtc_and_status_records(After(data, 1))

StripIdentifier(p, did) == IF StartsWith(p, did) THEN After(p, 2) ELSE p

(* What the call returns, given the normalised payload. *)
Taken(c, p) ==
    CASE c.take = "echo" -> split_required_echo(p, c.data[1])
      [] c.take = "dtcs" -> Then(split_required_echo(p, 2), DtcReport)
      [] c.take = "did" -> split_required_did(p, c.data)
      [] c.take = "routine" -> RequireRoutine(p, c.data[1], After(c.data, 1))
      [] c.take = "identifier" -> Ok(StripIdentifier(p, c.data))
      [] c.take = "empty" -> IF p = <<>> THEN Ok(p) ELSE Err
      [] c.take = "payload" -> Ok(p)

Returned(c, p) ==
    IF c.take = "transport" THEN Ok(p)
    ELSE Then(normalize_transport_payload(c.sid, c.data, p), LAMBDA q : Taken(c, q))

----------------------------------------------------------------------------
(* Outside the repository *)

(* A control unit's positive response repeats the echo before its record. *)
EchoOf(c) == Slice(c.data, 0, IF EchoLength(c.sid) > Len(c.data) THEN Len(c.data) ELSE EchoLength(c.sid))
Positive(c, record) == <<c.sid + 64>> \o EchoOf(c) \o record
Refusal(c, nrc) == <<NEGATIVE, c.sid, nrc>>
NeighbourCode == 17

(* The text of the chip for answer a: the command's echo or nothing, the   *)
(* answer in lines of at most six bytes, what another unit says, a status. *)
LineLen == 6
InLines(pdu) ==
    LET n == (Len(pdu) + LineLen - 1) \div LineLen
    IN  [i \in 1..n |-> hexLine(SubSeq(pdu, LineLen * (i - 1) + 1,
                                      IF i < n THEN LineLen * i ELSE Len(pdu)))]
Neighbours == {"none", "status", "refusal_before", "refusal_after", "positive_after"}
(* The calls above, whatever their arguments: EchoServices are those whose  *)
(* answer is checked.  A control unit that answers one of them, also when  *)
(* it is asked by number, was sent all that its answer repeats.            *)
EchoServices == {16, 17, 25, 39, 41, 46, 47, 49, 62, 133}
Takes == {"echo", "empty", "dtcs", "identifier", "did", "routine", "payload", "transport"}
ASSUME CallsAssumption ==
    /\ \A c \in Calls :
        /\ c \in [sid : Byte, data : Seq(Byte), take : Takes]
        /\ c.sid \in EchoServices => Len(c.data) >= EchoLength(c.sid)
        /\ c.take = "echo" => c.sid \in EchoServices \ {46, 47, 49}
        /\ c.take = "dtcs" => c.sid = 25 /\ c.data[1] = 2
        /\ c.take = "did" => c.sid \in {46, 47}
        /\ c.take = "routine" => c.sid = 49
    /\ Records \subseteq Seq(Byte) /\ Codes \subseteq Byte
    /\ Others \subseteq Neighbours

(* What tells an answer that is whole from one without its service byte:   *)
(* the service byte, which is that of no refusal, and what the answer      *)
(* repeats.  J1979 requests hand back whatever comes.                      *)
ASSUME RecognisedAssumption ==
    \A c \in Calls : c.take # "transport" =>
        /\ c.sid + 64 \in Byte \ {NEGATIVE} /\ Len(c.data) >= EchoLength(c.sid)
        /\ c.sid \notin {1, 2, 9, 33}
        /\ c.take = "empty" <=> c.sid = 20
        /\ c.take = "identifier" => c.sid = 34 /\ Len(c.data) = 2

Text(a) ==
    CASE a.other = "none" -> <<blankLine>> \o InLines(a.pdu)
      [] a.other = "status" -> <<echoLine>> \o InLines(a.pdu) \o <<statusLine>>
      [] a.other = "refusal_before" -> InLines(Refusal(a.req, NeighbourCode)) \o InLines(a.pdu)
      [] a.other = "refusal_after" -> InLines(a.pdu) \o InLines(Refusal(a.req, NeighbourCode))
      [] a.other = "positive_after" -> InLines(a.pdu) \o InLines(Positive(a.req, <<7, 7>>))

(* What Transport::exchange makes of the answer: an error, or the payload. *)
HandedBack(c, a) ==
    CASE transport = "raw" -> Ok(a.pdu)
      [] transport = "stripped" -> IF a.pdu[1] = NEGATIVE THEN ReadRefusal(a.pdu) ELSE Ok(After(a.pdu, 1))
      [] transport = "elm" -> send_routed_command(c.sid, c.data, Text(a), "can")

Responses(c) ==
    LET others == IF transport = "elm" THEN Others ELSE {"none"}
    IN  {[req |-> c, pdu |-> Positive(c, r), data |-> r, positive |-> TRUE, other |-> o] :
            r \in IF c.take = "empty" THEN {<<>>} ELSE Records, o \in others}
        \cup {[req |-> c, pdu |-> Refusal(c, n), data |-> <<n>>, positive |-> FALSE, other |-> o] :
            n \in Codes, o \in others \ {"positive_after"}}

----------------------------------------------------------------------------
Init ==
    /\ transport \in Transports
    /\ bus = <<>>
    /\ call = {}
    /\ inStep = TRUE
    /\ result = {}
    /\ calls = 0

(* A service call builds the request; the control unit prepares its        *)
(* answer.                                                                 *)
Begin(c) ==
    /\ call = {} /\ calls < MaxCalls
    /\ call' = {c}
    /\ calls' = calls + 1
    /\ \E a \in Responses(c) : bus' = Append(bus, a)
    /\ UNCHANGED <<transport, inStep, result>>

(* clear_diagnostic_information for a group of more than 24 bits is an     *)
(* error, and nothing is sent.                                             *)
GroupTooLarge ==
    /\ call = {} /\ calls < MaxCalls
    /\ calls' = calls + 1
    /\ result' = {}
    /\ UNCHANGED <<transport, bus, call, inStep>>

(* exchange returns the next response of the same service, which may be a  *)
(* late one; request_service normalises it and the call takes it apart.    *)
Answered ==
    /\ bus # <<>>
    /\ \E c \in call :
        LET a == Head(bus)
            p == HandedBack(c, a)
        IN  /\ a.req.sid = c.sid
            /\ result' = {[call |-> c, got |-> a, current |-> inStep,
                           r |-> Then(p, LAMBDA q : Returned(c, q))]}
    /\ bus' = Tail(bus)
    /\ call' = {}
    /\ UNCHANGED <<transport, inStep, calls>>

(* exchange fails: a response of another service is refused and dropped,   *)
(* a time-out leaves the response to come on the bus.                      *)
Refused ==
    /\ bus # <<>>
    /\ \E c \in call : Head(bus).req.sid # c.sid
    /\ bus' = Tail(bus)
    /\ call' = {} /\ result' = {}
    /\ UNCHANGED <<transport, inStep, calls>>

TimedOut ==
    /\ call # {}
    /\ call' = {} /\ result' = {}
    /\ inStep' = FALSE
    /\ UNCHANGED <<transport, bus, calls>>

Next == (\E c \in Calls : Begin(c)) \/ GroupTooLarge \/ Answered \/ Refused \/ TimedOut

Spec == Init /\ [][Next]_vars

----------------------------------------------------------------------------
(* The services whose answer is recognised by what it repeats. *)
Checked(c) == c.take \in {"echo", "did", "routine", "dtcs"}

(* What a transport that strips leaves of a positive response. *)
Left(x) == (IF transport = "elm" /\ x.call.sid = 34 THEN <<>> ELSE EchoOf(x.call)) \o x.got.data

(* It begins like a whole response, or, once the ELM decoder has taken the *)
(* identifier off, like the identifier again: nothing tells them apart.    *)
LooksWhole(c) == c.data # <<>> /\ c.data[1] = c.sid + 64
Ambiguous(x) ==
    \/ LooksWhole(x.call) \/ LooksWhole(x.got.req)
    \/ /\ transport = "elm" /\ x.call.sid = 34
       /\ \/ StartsWith(Left(x), <<98>> \o EchoOf(x.call))
          \/ x.call.take = "identifier" /\ StartsWith(Left(x), x.call.data)

(* Nothing of the answer is left once the ELM decoder has taken its prefix *)
(* off: the answer counts for none.                                        *)
NothingLeft(x) == transport = "elm" /\ x.got.positive /\ Left(x) = <<>>

(* A line of the chip's text that begins like the answer is taken for      *)
(* another one: the record before it ends there.                           *)
SecondAnswer(x) ==
    LET lines == InLines(x.got.pdu)
        prefix == expected_response_prefix(<<x.call.sid>> \o x.call.data, SkipBytes(x.call.sid))
    IN  /\ transport = "elm" /\ x.got.positive
        /\ \E i \in 2..Len(lines), p \in prefix : StartsWith(lines[i].bytes, p)

(* A neighbour's refusal that follows an answer is read as its last line.  *)
Undisturbed(x) ==
    /\ x.current /\ x.got.other # "refusal_after"
    /\ ~Ambiguous(x) /\ ~NothingLeft(x) /\ ~SecondAnswer(x)

(* split_required_echo, split_required_did, routine_control: a call that   *)
(* requires its echo never accepts a late response to another request of   *)
(* the service: another session type, identifier or routine.               *)
EchoProtects ==
    \A x \in result :
        (x.r.ok /\ Checked(x.call) /\ x.got.positive /\ ~Ambiguous(x)) =>
            EchoOf(x.call) = EchoOf(x.got.req)

(* request_service: in step with the control unit, what a call returns is  *)
(* the record it answered with, neither with the echo left in nor with a   *)
(* byte of the record taken for one, on every transport and whoever else   *)
(* answers on the bus.                                                     *)
RecordExact ==
    \A x \in result :
        (Undisturbed(x) /\ x.r.ok /\ x.got.positive) =>
            CASE x.call.take \in {"echo", "did", "routine", "identifier", "empty"} -> x.r.v = x.got.data
              [] x.call.take = "dtcs" -> 1 + 4 * Len(x.r.v) = Len(x.got.data)
              [] x.call.take = "payload" -> x.r.v = Left(x)
              [] x.call.take = "transport" -> x.r = HandedBack(x.call, x.got)

(* On the ELM link a refusal is found in the digits of the whole text, by  *)
(* a code that is known: behind the command's echo or SEARCHING..., and    *)
(* with any other code, it is an error of the decoder.                     *)
CodeLost(x) ==
    transport = "elm" /\ (x.got.other = "status" \/ x.got.data[1] \notin NegativeCodes)

(* request_service, check_response_error: in step, a positive response is  *)
(* not reported as an error, and a refusal is the error that names its own *)
(* service and its own code, also when another control unit has refused    *)
(* the request with another code before.  An answer that begins with 7F    *)
(* once it is stripped is read as a refusal.                               *)
OutcomeFaithful ==
    \A x \in result :
        (Undisturbed(x) /\ x.call.take # "transport") =>
            IF x.got.positive
            THEN (x.call.take # "dtcs" /\ (Left(x) = <<>> \/ Left(x)[1] # NEGATIVE)) => x.r.ok
            ELSE IF CodeLost(x) THEN ~x.r.ok
            ELSE x.r = NegativeResponse(x.call.sid, x.got.data[1])

(* clear_dtcs: service 04, which the vehicle confirms with its service     *)
(* byte alone, succeeds when the vehicle has confirmed it.                 *)
ClearSucceeds ==
    \A x \in result :
        (x.current /\ x.call.sid = 4 /\ x.got.positive /\ x.got.data = <<>>) => x.r.ok
=============================================================================
