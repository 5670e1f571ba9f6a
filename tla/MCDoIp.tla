------------------------------- MODULE MCDoIp -------------------------------
EXTENDS DoIp

(* The codec against its inverse, at the edges of its fields. *)
MCMessages ==
    {Message(type, p) : type \in DOMAIN PayloadTypes, p \in {<<>>, <<7>>, Fill(300, 255)}}

(* A message is read whole or not at all, wherever the buffer is cut. *)
ASSUME MessagesSurvive ==
    \A m \in MCMessages :
        /\ parse(encode(m)) = Ok(m)
        /\ parse_prefix(encode(m) \o <<2, 253>>) = Ok({m})
        /\ ~parse(encode(m) \o <<0>>).ok
        /\ \A n \in {0, 7, Len(encode(m)) - 1} \ {Len(encode(m))} :
              parse_prefix(SubSeq(encode(m), 1, n)) = Ok({})

(* Lengths above 16 MiB are refused before anything is read. *)
ASSUME OversizeRefused ==
    /\ parse_header(encode_header(Header("DiagnosticMessage", 16777216))).ok
    /\ ~parse_header(encode_header(Header("DiagnosticMessage", 16777217))).ok
    /\ ~parse_header(<<2, 253, 128, 1, 128, 0, 0, 0>>).ok

(* Payloads survive, with and without their optional ends. *)
ASSUME PayloadsSurvive ==
    /\ \A oem \in {<<>>, <<1, 2, 3, 4>>} :
          /\ LET r == [RoutingActivationRequest(3584, 0) EXCEPT !.oem = oem]
             IN  parse_activation_request(activation_request_to_payload(r)) = Ok(r)
          /\ LET r == [tester |-> 3584, entity |-> 4096, code |-> 16, iso |-> Fill(4, 0), oem |-> oem]
             IN  parse_activation_response(activation_response_to_payload(r)) = Ok(r)
    /\ \A sync \in {<<>>, <<0>>} :
          LET v == [vin |-> Fill(17, 49), address |-> 4097, eid |-> Fill(6, 1), gid |-> Fill(6, 2),
                    further |-> 0, sync |-> sync]
          IN  parse_vehicle_identification(vehicle_identification_to_payload(v)) = Ok(v)
    /\ \A n \in {0, 255} : parse_generic_nack(generic_nack_to_payload(n)) = Ok(n)
=============================================================================
