-------------------------------- MODULE DoIp --------------------------------
(***************************************************************************)
(* A DoIP client over one byte stream (DoIpClient over DoIpStreamTransport,*)
(* protocol/doip.rs) and the entity at the other end, which is outside the *)
(* repository.  Bytes are neither lost nor reordered; nothing bounds how   *)
(* long the client waits for them.  The application may drop the future of *)
(* a call at any await: what read_exact had taken is then gone.            *)
(***************************************************************************)
EXTENDS DoIpCodec, FiniteSets

CONSTANTS
    Tester,      \* the client's logical address
    Entities,    \* logical addresses that answer through this entity
    Gateway,     \* the one that answers routing activations
    MaxEvents,   \* DOIP_MAX_DIAGNOSTIC_EVENTS, 16 in the code
    MaxCalls,    \* bound on calls
    MaxExtra,    \* bound on messages nobody asked for
    MaxDrops,    \* bound on dropped futures
    Partial      \* bytes that a dropped read_exact may have taken: any in the code

ASSUME DoIpAssumption ==
    /\ Gateway \in Entities
    /\ \A a \in {Tester} \cup Entities : a \in Nat /\ a < 65536
    /\ MaxEvents \in Nat \ {0}
    /\ {MaxCalls, MaxExtra, MaxDrops} \cup Partial \subseteq Nat

VARIABLES
    entity_address,  \* DoIpClient::entity_address
    call,            \* the call under way: [op, n, to, events, header]
    result,          \* what the last call returned, and from which address
    out,             \* bytes from the client not yet taken by the entity
    in,              \* bytes from the entity not yet taken by the client
    routing,         \* the entity has activated routing on this connection
    jobs,            \* answers the entity still has to send
    calls, extra, drops,
    queue,           \* history: messages sent by the entity and not yet received whole
    cut,             \* history: a future was dropped inside a message
    clean            \* history: nothing but this call's own messages is on its way

client == <<entity_address, call, result>>
entity == <<routing, jobs>>
bounds == <<calls, extra, drops>>
vars == <<client, out, in, entity, bounds, queue, cut, clean>>

Idle == [op |-> "idle"]

----------------------------------------------------------------------------
(* The client.  Ops: "activate" is activate_routing, "activation" is       *)
(* routing_activation, "diagnostic" is send_diagnostic with a request      *)
(* numbered n.                                                             *)

UserData(n) == <<34, n>>

Request(op, n, to) ==
    IF op = "diagnostic"
    THEN Message("DiagnosticMessage",
                 diagnostic_to_payload([source |-> Tester, target |-> to, user_data |-> UserData(n)]))
    ELSE Message("RoutingActivationRequest",
                 activation_request_to_payload(RoutingActivationRequest(Tester, 0)))

(* send: the header, the payload, flush.  A future dropped in between      *)
(* leaves the header alone in the stream.                                  *)
Begin(op) ==
    /\ call = Idle /\ calls < MaxCalls
    /\ calls' = calls + 1
    /\ clean' = (queue = <<>> /\ jobs = <<>> /\ out = <<>> /\ ~cut)
    /\ LET m == Request(op, calls', entity_address)
       IN  \/ /\ out' = out \o encode(m)
              /\ call' = [op |-> op, n |-> calls', to |-> entity_address, events |-> 0, header |-> {}]
              /\ UNCHANGED <<drops, cut>>
           \/ /\ drops < MaxDrops /\ drops' = drops + 1
              /\ out' = out \o encode_header(m.header)
              /\ cut' = TRUE
              /\ UNCHANGED call
    /\ result' = Idle
    /\ UNCHANGED <<entity_address, in, entity, extra, queue>>

Return(r, from) ==
    /\ call' = Idle
    /\ result' = [op |-> call.op, n |-> call.n, to |-> call.to, r |-> r, from |-> from]

Fail == Return(Err, 0) /\ UNCHANGED entity_address

(* recv: the header first.  A header that does not parse ends the call. *)
bad_HeaderRead(h) ==   \* the type is judged before the payload is read
    IF h.ok /\ (call.op = "diagnostic" \/ h.v.type = "RoutingActivationResponse")
    THEN call' = [call EXCEPT !.header = {h.v}] /\ UNCHANGED <<entity_address, result>>
    ELSE Fail
HeaderRead(h) ==
    IF h.ok THEN call' = [call EXCEPT !.header = {h.v}] /\ UNCHANGED <<entity_address, result>>
    ELSE Fail

RecvHeader ==
    /\ call # Idle /\ call.header = {}
    /\ Len(in) >= DOIP_HEADER_LEN
    /\ in' = After(in, DOIP_HEADER_LEN)
    /\ HeaderRead(parse_header(Slice(in, 0, DOIP_HEADER_LEN)))
    /\ UNCHANGED <<out, entity, bounds, queue, cut, clean>>

bad_validate_response_addresses(d) == d.source \in Entities /\ d.target = Tester
validate_response_addresses(d) == d.source = entity_address /\ d.target = Tester

(* Each of these handles one message received whole. *)
routing_activation(m) ==
    LET a == parse_activation_response(m.payload)
    IN  IF m.header.type # "RoutingActivationResponse" \/ ~a.ok \/ a.v.tester # Tester THEN Fail
        ELSE /\ entity_address' = a.v.entity
             /\ Return(Ok(a.v.code), a.v.entity)

bad_activate_routing(m) == routing_activation(m)
activate_routing(m) ==
    LET a == parse_activation_response(m.payload)
    IN  IF m.header.type # "RoutingActivationResponse" \/ ~a.ok \/ a.v.tester # Tester THEN Fail
        ELSE /\ entity_address' = a.v.entity
             /\ Return(IF a.v.code = DOIP_ROUTING_ACTIVATION_SUCCESS THEN Ok(a.v.code) ELSE Err,
                       a.v.entity)

(* A positive acknowledgement is one of the events a call may take. *)
bad_CountEvent == call' = [call EXCEPT !.header = {}] /\ UNCHANGED <<entity_address, result>>
CountEvent ==
    IF call.events + 1 = MaxEvents THEN Fail
    ELSE /\ call' = [call EXCEPT !.events = @ + 1, !.header = {}]
         /\ UNCHANGED <<entity_address, result>>

DiagnosticResponse(m) ==
    LET d == parse_diagnostic(m.payload)
    IN  IF d.ok /\ validate_response_addresses(d.v)
        THEN Return(Ok(d.v.user_data), d.v.source) /\ UNCHANGED entity_address
        ELSE Fail

PositiveAck(m) ==
    LET a == parse_ack(m.payload)
    IN  IF a.ok /\ validate_response_addresses(a.v) THEN CountEvent ELSE Fail

send_diagnostic(m) ==
    \/ m.header.type = "DiagnosticMessage" /\ DiagnosticResponse(m)
    \/ m.header.type = "DiagnosticPositiveAck" /\ PositiveAck(m)
    \/ m.header.type \notin {"DiagnosticMessage", "DiagnosticPositiveAck"} /\ Fail

RecvPayload ==
    /\ call # Idle
    /\ \E h \in call.header :
            /\ Len(in) >= h.length
            /\ in' = After(in, h.length)
            /\ LET m == [header |-> h, payload |-> Slice(in, 0, h.length)]
               IN  CASE call.op = "activate" -> activate_routing(m)
                     [] call.op = "activation" -> routing_activation(m)
                     [] call.op = "diagnostic" -> send_diagnostic(m)
    /\ queue' = IF queue = <<>> THEN queue ELSE Tail(queue)
    /\ UNCHANGED <<out, entity, bounds, cut, clean>>

(* The future is dropped while it waits: the bytes taken so far are lost. *)
Drop ==
    /\ call # Idle
    /\ drops < MaxDrops /\ drops' = drops + 1
    /\ \E k \in Partial \cap (0..Len(in)) :
            /\ k < IF call.header = {} THEN DOIP_HEADER_LEN
                   ELSE (CHOOSE h \in call.header : TRUE).length
            /\ in' = After(in, k)
            /\ cut' = (cut \/ k > 0 \/ call.header # {})
    /\ call' = Idle
    /\ UNCHANGED <<entity_address, result, out, entity, calls, extra, queue, clean>>

set_entity_address(a) ==
    /\ call = Idle
    /\ entity_address' = a
    /\ UNCHANGED <<call, result, out, in, entity, bounds, queue, cut, clean>>

(* A datagram announces an entity, and the application takes its address. *)
Announcement(a) ==
    Message("VehicleAnnouncement",
            vehicle_identification_to_payload(
                [vin |-> Fill(17, 49), address |-> a, eid |-> Fill(6, 1), gid |-> Fill(6, 2),
                 further |-> 0, sync |-> <<0>>]))

Announced(a) ==
    Then(parse(encode(Announcement(a))), LAMBDA m : parse_vehicle_identification(m.payload))

Discover == \E a \in Entities : Announced(a).ok /\ set_entity_address(Announced(a).v.address)

----------------------------------------------------------------------------
(* The entity *)

Emit(ms) ==
    /\ in' = in \o Concat(Map(ms, encode))
    /\ queue' = queue \o ms

Ack(type, a, code) ==
    Message(type, ack_to_payload([source |-> a, target |-> Tester, code |-> code, previous |-> <<>>]))

AnswerTo(a, data) ==
    Message("DiagnosticMessage",
            diagnostic_to_payload([source |-> a, target |-> Tester, user_data |-> data]))

Activates(m) ==
    LET r == parse_activation_request(m.payload).v
    IN  \E code \in {0, DOIP_ROUTING_ACTIVATION_SUCCESS} :
            /\ routing' = (routing \/ code = DOIP_ROUTING_ACTIVATION_SUCCESS)
            /\ Emit(<<Message("RoutingActivationResponse",
                    activation_response_to_payload([tester |-> r.source, entity |-> Gateway,
                        code |-> code, iso |-> Fill(4, 0), oem |-> <<>>]))>>)
            /\ UNCHANGED jobs

(* A diagnostic request is acknowledged and answered later, with an answer *)
(* that says "pending" before it or not.                                   *)
Accepts(m) ==
    LET d == parse_diagnostic(m.payload).v
        final == AnswerTo(d.target, <<98, d.user_data[2]>>)
        pending == AnswerTo(d.target, <<127, 34, 120>>)
    IN  IF routing
        THEN /\ Emit(<<Ack("DiagnosticPositiveAck", d.target, 0)>>)
             /\ \E answer \in {<<final>>, <<pending, final>>, <<>>} : jobs' = jobs \o answer
             /\ UNCHANGED routing
        ELSE Emit(<<Ack("DiagnosticNegativeAck", d.target, 2)>>) /\ UNCHANGED entity

EntityReads ==
    LET p == parse_prefix(out)
    IN  /\ \/ /\ ~p.ok
              /\ out' = <<>>
              /\ Emit(<<Message("GenericNegativeAck", generic_nack_to_payload(0))>>)
              /\ UNCHANGED entity
           \/ /\ p.ok
              /\ \E m \in p.v :
                    /\ out' = After(out, DOIP_HEADER_LEN + m.header.length)
                    /\ CASE m.header.type = "RoutingActivationRequest" /\ parse_activation_request(m.payload).ok
                              -> Activates(m)
                         [] m.header.type = "DiagnosticMessage" /\ Len(m.payload) = 6 -> Accepts(m)
                         [] OTHER -> /\ Emit(<<Message("GenericNegativeAck", generic_nack_to_payload(1))>>)
                                     /\ UNCHANGED entity
        /\ UNCHANGED <<client, bounds, cut, clean>>

EntityAnswers ==
    /\ jobs # <<>>
    /\ Emit(<<Head(jobs)>>)
    /\ jobs' = Tail(jobs)
    /\ UNCHANGED <<client, out, routing, bounds, cut, clean>>

(* Messages out of turn: an alive check, an answer of another address. *)
Unasked ==
    /\ extra < MaxExtra /\ extra' = extra + 1
    /\ \E m \in {Message("AliveCheckRequest", <<>>)} \cup {AnswerTo(a, <<98, 0>>) : a \in Entities} :
            Emit(<<m>>)
    /\ clean' = FALSE
    /\ UNCHANGED <<client, out, entity, calls, drops, cut>>

(* Acknowledgements without end, one at a time. *)
Flood ==
    /\ in = <<>> /\ call # Idle /\ call.op = "diagnostic" /\ call.header = {}
    /\ Emit(<<Ack("DiagnosticPositiveAck", call.to, 0)>>)
    /\ UNCHANGED <<client, out, entity, bounds, cut, clean>>

----------------------------------------------------------------------------
Init ==
    /\ entity_address \in Entities
    /\ call = Idle /\ result = Idle
    /\ out = <<>> /\ in = <<>>
    /\ routing = FALSE /\ jobs = <<>>
    /\ calls = 0 /\ extra = 0 /\ drops = 0
    /\ queue = <<>> /\ cut = FALSE /\ clean = TRUE

Next ==
    \/ \E op \in {"activate", "activation", "diagnostic"} : Begin(op)
    \/ RecvHeader
    \/ RecvPayload
    \/ Drop
    \/ \E a \in Entities : set_entity_address(a)
    \/ Discover
    \/ EntityReads
    \/ EntityAnswers
    \/ Unasked
    \/ Flood

(* The client's task keeps running while bytes are there; nothing is       *)
(* assumed of the entity.                                                  *)
Fairness == WF_vars(RecvHeader) /\ WF_vars(RecvPayload)

Spec == Init /\ [][Next]_vars /\ Fairness

----------------------------------------------------------------------------
(* Properties *)

(* Header and payload are read as they were written                        *)
(* (DoIpStreamTransport::send, recv): as long as no future was dropped     *)
(* inside a message, what the client has not taken yet is exactly the      *)
(* messages the entity sent, in order, from a message boundary.            *)
StreamAligned ==
    ~cut => LET taken == IF call # Idle /\ call.header # {}
                         THEN encode_header(CHOOSE h \in call.header : TRUE) ELSE <<>>
            IN  taken \o in = Concat(Map(queue, encode))

(* What send_diagnostic returns was sent by the address it asked           *)
(* (validate_response_addresses), and it is the answer to this request     *)
(* when nothing was left over from earlier calls: no answer, pending       *)
(* answer or acknowledgement still on its way when the call began.         *)
AnswersTheRequest ==
    result # Idle /\ result.op = "diagnostic" /\ result.r.ok /\ ~cut =>
        /\ result.from = result.to
        /\ clean => result.r.v \in {<<98, result.n>>, <<127, 34, 120>>}

(* activate_routing succeeds only on a connection on which the entity has  *)
(* activated routing, also when the response it takes is one that an       *)
(* earlier, dropped call had asked for.                                    *)
ActivationReal == result # Idle /\ result.op = "activate" /\ result.r.ok /\ ~cut => routing

Starved == Len(in) < DOIP_HEADER_LEN

(* send_diagnostic is bounded by DOIP_MAX_DIAGNOSTIC_EVENTS: a call that   *)
(* never returns is one whose entity fell silent for good.                 *)
OnlySilenceBlocks ==
    <>[](call # Idle) => <>[](call # Idle /\ (Starved \/ call.header # {}))
=============================================================================
