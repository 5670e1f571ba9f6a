-------------------------------- MODULE MCStn -------------------------------
(***************************************************************************)
(* Two buses that share a protocol number, routes with no, one and three   *)
(* filters for a memory of two, and routes that plan_route refuses; the    *)
(* operators of CanRoute against reference definitions.                    *)
(***************************************************************************)
EXTENDS Stn

Engine   == Standard(2024)          \* 7E8
Gearbox  == Standard(2025)          \* 7E9
Body     == Standard(1832)          \* 728
Tester29 == Extended(417001744)     \* 18DAF110

Block == CanRouteFilter(Engine, Standard(2040)).v     \* 7E8/7F8

MCRoutes == {
    primary_classical(500000),
    with_filter(primary_classical(250000), Block),
    secondary_classical("MsCan125"),
    with_filter(secondary_classical("MsGmlan95"), exact(Tester29)),
    with_filter(with_filter(with_filter(secondary_classical("SwCanGmlan33"),
        exact(Body)), exact(Engine)), exact(Tester29)),
    can_fd(500000),
    primary_classical(0) }

MCTimeouts == {{}, {25}, {0}}

-----------------------------------------------------------------------------
(* Inputs of the operators of CanRoute. *)
Chipsets == {detect([elm |-> e, version |-> v], s) :
                e \in BOOLEAN, v \in {{}, {15}, {20}, {23}}, s \in {{}, {"other"}, {"STN"}}}

Ids    == {Engine, Gearbox, Body, Standard(0), Tester29, Extended(2024)}
Masks  == {Standard(2047), Standard(2040), Standard(0), Extended(2^29 - 1)}
Frames == {[id |-> n, is_extended_id |-> x] : n \in {2024, 1832, 417001744}, x \in BOOLEAN}

\* Only a chip that answered STI as an STN may be sent to a secondary bus, none of
\* the chips behind an AT command set takes a CAN-FD route, and the link granted is
\* the one asked for or the backend's first (AdapterInfo::detect, backend_caps,
\* negotiate).
ASSUME RoutesNeedTheirChip ==
    \A c \in Chipsets, route \in MCRoutes, link \in {{}, {"Serial"}, {"Ble"}, {"Usb"}} :
        LET got == negotiate(backend_caps(c), [isotp_requirement(route) EXCEPT !.link = link])
        IN  /\ got.ok <=> /\ c # "Unknown" /\ ~route.fd /\ link # {"Usb"}
                          /\ route.bus # {} => c = "Stn"
            /\ got.ok => got.v.link = IF link = {"Ble"} THEN {"Ble"} ELSE {"Serial"}

\* A route is bound to a classical channel exactly when it asks for no CAN-FD and
\* the interface has a channel, and a channel so bound sends every frame with a
\* possible identifier: the places that test for CAN-FD agree (bind_classical_io,
\* raw_can_requirement, send_frame).
ASSUME ClassicalOnly ==
    \A route \in MCRoutes, fd \in BOOLEAN, n \in 0..2 :
        /\ bind_classical_io(fd, n, route).ok <=> (~route.fd /\ n > 0)
        /\ native_plan_route(fd, n, route).ok <=> ((route.fd => fd) /\ n > 0)
        /\ bind_classical_io(fd, n, route).ok => \A f \in Frames :
                native_send_frame(route, f) <=> frame_identifier(f).ok

\* A filter passes by the width of identifiers as well as by their bits, and is
\* refused when its own halves differ in width (CanRouteFilter).
ASSUME FiltersKeepWidth ==
    \A id \in Ids, mask \in Masks, x \in Ids :
        LET f == CanRouteFilter(id, mask)
        IN  /\ f.ok <=> id.bits = mask.bits
            /\ f.ok /\ x = id => matches(f.v, x)
            /\ f.ok /\ matches(f.v, x) => x.bits = id.bits
            /\ matches(exact(id), x) <=> x = id

\* The width of an identifier survives the text of STFPA (encode_can_identifier).
ASSUME IdentifiersEncoded == \A id \in Ids : ChipIdentifier(encode_can_identifier(id)) = id

\* recv_frame returns the first frame the route accepts if it is among the first
\* max + 1, and whatever is wrong before that ends the call: no frame is skipped
\* that should have been delivered or reported (NativeCanChannel).
ASSUME FirstAcceptedFrame ==
    \A route \in MCRoutes, max \in 0..2 :
        \A source \in [1..3 -> {{}} \cup {{f} : f \in Frames}] :
            LET got == native_recv_frame(route, source, max)
                Good(s) == \E f \in s : /\ frame_identifier(f).ok
                                        /\ accepts(route.filters, frame_identifier(f).v)
                Skip(s) == s # {} /\ \A f \in s : frame_identifier(f).ok /\ ~Good({f})
                due == {n \in 1..(max + 1) : /\ Good(source[n])
                                             /\ \A m \in 1..(n - 1) : Skip(source[m])}
            IN  /\ got.ok <=> due # {}
                /\ got.ok => {got.v} = source[Min(due)]
=============================================================================
