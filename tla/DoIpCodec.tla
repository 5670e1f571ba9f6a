----------------------------- MODULE DoIpCodec ------------------------------
(***************************************************************************)
(* The packets of Diagnostics over IP (protocol/doip.rs): an eight byte    *)
(* header and a payload, both as bytes.                                    *)
(***************************************************************************)
EXTENDS Wire, SequencesExt

DOIP_HEADER_LEN == 8
DOIP_VERSION_DEFAULT == 2
DOIP_MAX_PAYLOAD_LEN == 16777216
DOIP_ROUTING_ACTIVATION_SUCCESS == 16

(* Payload types by name; any other number stands for itself. *)
PayloadTypes ==
    [GenericNegativeAck |-> 0, VehicleIdentificationRequest |-> 1,
     VehicleIdentificationRequestWithEid |-> 2, VehicleIdentificationRequestWithVin |-> 3,
     VehicleAnnouncement |-> 4, RoutingActivationRequest |-> 5, RoutingActivationResponse |-> 6,
     AliveCheckRequest |-> 7, AliveCheckResponse |-> 8, EntityStatusRequest |-> 16385,
     EntityStatusResponse |-> 16386, DiagnosticPowerModeRequest |-> 16387,
     DiagnosticPowerModeResponse |-> 16388, DiagnosticMessage |-> 32769,
     DiagnosticPositiveAck |-> 32770, DiagnosticNegativeAck |-> 32771]

from_u16(value) ==
    IF \E t \in DOMAIN PayloadTypes : PayloadTypes[t] = value
    THEN CHOOSE t \in DOMAIN PayloadTypes : PayloadTypes[t] = value
    ELSE "Unknown"

as_u16(type) == PayloadTypes[type]

(* u32::to_be_bytes and from_be_bytes; the numbers here stay below 2^25. *)
ToBe32(n) == <<Bits(n, 24, 7), Bits(n, 16, 8), Bits(n, 8, 8), Bits(n, 0, 8)>>
Be32(b) == 16777216 * b[1] + 65536 * b[2] + 256 * b[3] + b[4]

Oversize(b) == b[1] > 1 \/ Be32(b) > DOIP_MAX_PAYLOAD_LEN

Header(type, length) ==
    [version |-> DOIP_VERSION_DEFAULT, inverse |-> 255 - DOIP_VERSION_DEFAULT,
     type |-> type, length |-> length]

parse_header(b) ==
    IF Len(b) < DOIP_HEADER_LEN \/ b[2] # 255 - b[1] \/ Oversize(Slice(b, 4, 4)) THEN Err
    ELSE Ok([version |-> b[1], inverse |-> b[2], type |-> from_u16(Be16(Slice(b, 2, 2))),
             length |-> Be32(Slice(b, 4, 4))])

encode_header(h) == <<h.version, h.inverse>> \o ToBe16(as_u16(h.type)) \o ToBe32(h.length)

Message(type, payload) == [header |-> Header(type, Len(payload)), payload |-> payload]

encode(m) == encode_header(m.header) \o m.payload

(* One message and nothing else. *)
parse(b) ==
    Then(parse_header(b), LAMBDA h :
        IF Len(b) # DOIP_HEADER_LEN + h.length THEN Err
        ELSE Ok([header |-> h, payload |-> After(b, DOIP_HEADER_LEN)]))

(* The message a buffer begins with, if it is there already: a set. *)
parse_prefix(b) ==
    IF Len(b) < DOIP_HEADER_LEN THEN Ok({})
    ELSE Then(parse_header(b), LAMBDA h :
            IF Len(b) < DOIP_HEADER_LEN + h.length THEN Ok({})
            ELSE Ok({[header |-> h, payload |-> Slice(b, DOIP_HEADER_LEN, h.length)]}))

----------------------------------------------------------------------------
(* Payloads *)

parse_generic_nack(p) == IF Len(p) # 1 THEN Err ELSE Ok(p[1])
generic_nack_to_payload(code) == <<code>>

parse_diagnostic(p) ==
    IF Len(p) < 4 THEN Err
    ELSE Ok([source |-> Be16(p), target |-> Be16(After(p, 2)), user_data |-> After(p, 4)])
diagnostic_to_payload(d) == ToBe16(d.source) \o ToBe16(d.target) \o d.user_data

parse_ack(p) ==
    IF Len(p) < 5 THEN Err
    ELSE Ok([source |-> Be16(p), target |-> Be16(After(p, 2)), code |-> p[5],
             previous |-> After(p, 5)])
ack_to_payload(a) == ToBe16(a.source) \o ToBe16(a.target) \o <<a.code>> \o a.previous

(* reserved_oem is <<>> when absent. *)
RoutingActivationRequest(source, type) ==
    [source |-> source, type |-> type, iso |-> Fill(4, 0), oem |-> <<>>]

parse_activation_request(p) ==
    IF Len(p) \notin {7, 11} THEN Err
    ELSE Ok([source |-> Be16(p), type |-> p[3], iso |-> Slice(p, 3, 4), oem |-> After(p, 7)])
activation_request_to_payload(r) == ToBe16(r.source) \o <<r.type>> \o r.iso \o r.oem

parse_activation_response(p) ==
    IF Len(p) \notin {9, 13} THEN Err
    ELSE Ok([tester |-> Be16(p), entity |-> Be16(After(p, 2)), code |-> p[5],
             iso |-> Slice(p, 5, 4), oem |-> After(p, 9)])
activation_response_to_payload(r) ==
    ToBe16(r.tester) \o ToBe16(r.entity) \o <<r.code>> \o r.iso \o r.oem

(* sync is <<>> when the status byte is absent. *)
parse_vehicle_identification(p) ==
    IF Len(p) \notin {32, 33} THEN Err
    ELSE Ok([vin |-> Slice(p, 0, 17), address |-> Be16(After(p, 17)), eid |-> Slice(p, 19, 6),
             gid |-> Slice(p, 25, 6), further |-> p[32], sync |-> After(p, 32)])
vehicle_identification_to_payload(v) ==
    v.vin \o ToBe16(v.address) \o v.eid \o v.gid \o <<v.further>> \o v.sync
=============================================================================
