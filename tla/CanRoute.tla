------------------------------ MODULE CanRoute ------------------------------
(***************************************************************************)
(* What a backend can do and which CAN route a client asks of it:          *)
(* adapter/backend.rs, the detection of the chip behind an ELM327 command  *)
(* set (adapter/detect.rs) and the native CAN channel                      *)
(* (adapter/native_can.rs), as operators.  Firmware strings, quirk flags   *)
(* and the interface's name are left out: nothing here decides by them.    *)
(***************************************************************************)
EXTENDS Wire, FiniteSetsExt, SequencesExt

Refused(why) == [ok |-> FALSE, v |-> why]

-----------------------------------------------------------------------------
(* Capabilities.  Links keep their order: the first one is the default.     *)

SecondaryBuses == {"MsCan125", "SwCanGmlan33", "MsGmlan95"}

bitrate_bps(b) ==
    CASE b = "MsCan125"     -> 125000
      [] b = "SwCanGmlan33" -> 33300
      [] b = "MsGmlan95"    -> 95000

Caps(backend, links, transports, fd, channels, secondary, pdu) ==
    [backend |-> backend, links |-> links, transports |-> transports,
     can_fd |-> fd, channels |-> channels, secondary_can |-> secondary,
     max_pdu |-> pdu]

ElmTransports == {"IsoTp", "J1850Vpw", "J1850Pwm", "KLine", "J1939"}

ELM327_BACKEND_CAPS ==
    Caps("Elm327", <<"Serial", "Ble">>, ElmTransports, FALSE, 1, {}, 512)

STN_BACKEND_CAPS ==
    Caps("Stn", <<"Serial", "Ble">>, ElmTransports, FALSE, 1, SecondaryBuses, 4096)

NATIVE_CAN_BACKEND_CAPS(fd, channels) ==
    Caps("NativeCan", <<"NativeCan", "Usb">>,
         {"IsoTp", "J1939", "RawCan", "RawCanFd"}, fd, channels, SecondaryBuses, 4096)

UNKNOWN_BACKEND_CAPS == Caps("Unknown", <<>>, {}, FALSE, 0, {}, 0)

(* The answer to ATZ names an ELM327 or not, with a version in tenths when  *)
(* one can be read; STI is answered by an STN chip only.                    *)
detect_elm_version(atz) ==
    IF ~atz.elm THEN "Unknown"
    ELSE IF \E v \in atz.version : v >= 20 THEN "Elm327Genuine" ELSE "Elm327Clone"

detect(atz, sti) == IF sti = {"STN"} THEN "Stn" ELSE detect_elm_version(atz)

backend_caps(chipset) ==
    CASE chipset \in {"Elm327Clone", "Elm327Genuine"} -> ELM327_BACKEND_CAPS
      [] chipset = "Stn"     -> STN_BACKEND_CAPS
      [] chipset = "Unknown" -> UNKNOWN_BACKEND_CAPS

CapabilityRequest(transport, secondary, fd, pdu) ==
    [link |-> {}, transport |-> transport, secondary_bus |-> secondary,
     can_fd |-> fd, min_channels |-> 1, min_pdu |-> pdu]

(* The demands are looked at in this order, and the first one that is not   *)
(* met is the mismatch reported.                                            *)
negotiate(caps, req) ==
    LET demands == <<
            <<"UnsupportedLink", req.link \subseteq ToSet(caps.links)>>,
            <<"UnsupportedTransport", req.transport \in caps.transports>>,
            <<"CanFdUnavailable", req.can_fd => caps.can_fd>>,
            <<"SecondaryCanUnavailable", req.secondary_bus \subseteq caps.secondary_can>>,
            <<"InsufficientChannels", caps.channels >= req.min_channels>>,
            <<"InsufficientPdu", caps.max_pdu >= req.min_pdu>> >>
        unmet == {i \in DOMAIN demands : ~demands[i][2]}
    IN  IF unmet # {} THEN Refused(demands[Min(unmet)][1])
        ELSE Ok([backend |-> caps.backend,
                 link |-> IF req.link # {} \/ caps.links = <<>> THEN req.link
                          ELSE {Head(caps.links)},
                 transport |-> req.transport, secondary_bus |-> req.secondary_bus,
                 can_fd |-> req.can_fd, channels |-> caps.channels,
                 max_pdu |-> caps.max_pdu])

-----------------------------------------------------------------------------
(* Identifiers, filters and routes.                                         *)

Identifier == [bits : {11, 29}, raw : Nat]

Standard(raw) == [bits |-> 11, raw |-> raw]
Extended(raw) == [bits |-> 29, raw |-> raw]

standard(id) == IF id <= 2^11 - 1 THEN Ok(Standard(id)) ELSE Refused("IdentifierOutOfRange")
extended(id) == IF id <= 2^29 - 1 THEN Ok(Extended(id)) ELSE Refused("IdentifierOutOfRange")

max_mask(id) == [id EXCEPT !.raw = 2^id.bits - 1]

same_width(a, b) == a.bits = b.bits

CanRouteFilter(id, mask) ==
    IF same_width(id, mask) THEN Ok([id |-> id, mask |-> mask])
    ELSE Refused("MixedIdentifierWidth")

exact(id) == [id |-> id, mask |-> max_mask(id)]

(* The bits the mask selects agree. *)
matches(f, frame_id) ==
    /\ same_width(f.id, frame_id)
    /\ \A b \in 0..28 : Bits(f.mask.raw, b, 1) = 1 =>
            Bits(frame_id.raw, b, 1) = Bits(f.id.raw, b, 1)

accepts(filters, frame_id) ==
    filters = <<>> \/ \E i \in DOMAIN filters : matches(filters[i], frame_id)

(* bus is empty for the primary bus, and holds the secondary one otherwise. *)
CanRouteConfig(bus, rate, fd) ==
    [bus |-> bus, arbitration_bitrate_bps |-> rate, fd |-> fd, filters |-> <<>>]

primary_classical(rate) == CanRouteConfig({}, rate, FALSE)
secondary_classical(b)  == CanRouteConfig({b}, bitrate_bps(b), FALSE)
can_fd(rate)            == CanRouteConfig({}, rate, TRUE)

with_filter(route, f) == [route EXCEPT !.filters = Append(@, f)]

raw_can_requirement(route) ==
    CapabilityRequest(IF route.fd THEN "RawCanFd" ELSE "RawCan",
                      route.bus, route.fd, IF route.fd THEN 64 ELSE 8)

isotp_requirement(route) == CapabilityRequest("IsoTp", route.bus, route.fd, 0)

-----------------------------------------------------------------------------
(* The native CAN channel: a route bound to a source of frames, an entry of *)
(* which is a frame or {} where the source fails.                           *)

native_plan_route(fd, channels, route) ==
    negotiate(NATIVE_CAN_BACKEND_CAPS(fd, channels), raw_can_requirement(route))

bind_classical_io(fd, channels, route) ==
    IF route.fd THEN Refused("CanFd") ELSE native_plan_route(fd, channels, route)

frame_identifier(frame) ==
    IF frame.is_extended_id THEN extended(frame.id) ELSE standard(frame.id)

native_send_frame(route, frame) == ~route.fd /\ frame_identifier(frame).ok

(* At most max + 1 frames are taken from the source; a failed read or a     *)
(* frame with an impossible identifier ends the call at once.               *)
native_recv_frame(route, source, max) ==
    LET ends(i) == \/ source[i] = {}
                   \/ \E f \in source[i] :
                          LET id == frame_identifier(f)
                          IN  ~id.ok \/ accepts(route.filters, id.v)
        at == {i \in 1..(max + 1) : ends(i)}
        r  == source[Min(at)]
    IN  IF at = {} THEN Refused("Timeout")
        ELSE IF r = {} THEN Refused("Io")
        ELSE LET f == CHOOSE f \in r : TRUE
             IN  IF frame_identifier(f).ok THEN Ok(f) ELSE Refused("Identifier")
=============================================================================
