------------------------------ MODULE MCJ1939 -------------------------------
EXTENDS J1939

lamp(n) == [protect |-> n, amber_warning |-> 0, red_stop |-> 1, malfunction_indicator |-> 2]
lamps(n) == [status |-> lamp(n), flash |-> lamp(3)]
dtc(spn, fmi) == [spn |-> spn, fmi |-> fmi, occurrence_count |-> 5, conversion_method |-> 1]

(* One frame (no codes), two packets, and three: as many as SeqMax here. *)
MCContents ==
    {[pgn |-> Pgns.DM1, v |-> [lamps |-> lamps(0), dtcs |-> <<>>]],
     [pgn |-> Pgns.DM1, v |-> [lamps |-> lamps(1), dtcs |-> <<dtc(100, 3), dtc(524286, 31)>>]],
     [pgn |-> Pgns.DM2, v |-> [lamps |-> lamps(0),
                               dtcs |-> <<dtc(7, 1), dtc(65536, 2), dtc(255, 0), dtc(4097, 9)>>]],
     [pgn |-> Pgns.DM25, v |-> <<[length |-> 5, dtc |-> dtc(84, 4), data |-> <<9>>],
                                 [length |-> 4, dtc |-> dtc(91, 5), data |-> <<>>]>>],
     [pgn |-> Pgns.DM24, v |-> <<[spn |-> 70000, support_bits |-> 9, data_length |-> 1]>>],
     [pgn |-> Pgns.DM5, v |-> [active |-> {2}, previously |-> {}, obd_compliance |-> 20,
                               monitor_readiness |-> <<1, 2, 3, 4, 5>>]],
     [pgn |-> Pgns.ACKNOWLEDGEMENT,
      v |-> [control |-> 1, group_function_value |-> 0, address_acknowledged |-> 249,
             pgn |-> Pgns.DM11]]}

----------------------------------------------------------------------------
(* The codec against reference definitions, at the edges of its fields. *)
Edge == {0, 1, 3, 127, 128, 254, 255}

(* An identifier survives its 29 bits, with and without a destination. *)
ASSUME IdentifiersSurvive ==
    \A priority \in {0, 6, 7}, pgn \in {0, 59904, 60160, 61183, 61440, 65226, 131071, 262143},
       source \in Edge, destination \in Edge :
        LET id == can_id(priority, pgn, source, IF is_pdu1(pgn) THEN {destination} ELSE {})
        IN  id.ok /\ decode(encode(id.v)) = id

(* Every control message survives its eight bytes. *)
ASSUME ControlMessagesSurvive ==
    \A kind \in {"rts", "cts", "eom", "bam", "abort"}, n \in Edge, pgn \in {0, 65226, 262143} :
        LET size == IF kind \in {"cts", "abort"} THEN 0 ELSE 256 * n + 1
            m == Tp(kind, size, n, IF kind \in {"rts", "cts"} THEN 255 - n ELSE 0, pgn)
        IN  tp_parse(tp_to_payload(m)) = Ok(m) /\ tp_pgn(m) = {pgn}

(* Two NAMEs never both win the address, and the fields of a NAME are the *)
(* ones it was put together from.                                          *)
NameOf(f) ==
    LET low == f.identity_number + 2^21 * (f.manufacturer_code % 8)
    IN  ToLe24(low) \o <<f.manufacturer_code \div 8, f.ecu_instance + 8 * f.function_instance, f.function,
                         2 * f.vehicle_system,
                         f.vehicle_system_instance + 16 * f.industry_group
                         + (IF f.arbitrary_address_capable THEN 128 ELSE 0)>>
Names ==
    {NameOf([identity_number |-> i, manufacturer_code |-> m, ecu_instance |-> e, function_instance |-> 31,
             function |-> f, vehicle_system |-> 127, vehicle_system_instance |-> 15,
             industry_group |-> g, arbitrary_address_capable |-> a]) :
        i \in {0, 2097151}, m \in {0, 2047}, e \in {0, 7}, f \in {0, 255}, g \in {0, 7}, a \in BOOLEAN}
ASSUME OneNameWins ==
    /\ \A n, m \in Names : n # m => (wins_arbitration_against(n, m) # wins_arbitration_against(m, n))
    /\ \A n \in Names : /\ ~wins_arbitration_against(n, n)
                         /\ NameOf(NameFields(n)) = n
                         /\ address_claim([id |-> decode(FrameOf(7, Pgns.ADDRESS_CLAIMED, n).id).v,
                                            payload |-> n]) = Ok([source_address |-> 7, name |-> n])

(* A parameter is missing exactly when all its bits are set. *)
ASSUME ParametersDecoded ==
    \A a, b \in Edge, c, d \in {0, 254, 255} :
        LET data == <<a, b, c, d, a, b, c, d>>
            word(lo, hi) == IF lo = 255 /\ hi = 255 THEN {} ELSE {lo + 256 * hi}
            byte(x, k) == IF x = 255 THEN {} ELSE {x - k}
            switch(x) == CASE x % 4 = 1 -> {TRUE} [] x % 4 = 3 -> {} [] OTHER -> {FALSE}
        IN  /\ decode_eec1(data) = {[torque_mode |-> a % 16, driver_demand_torque_pct |-> byte(b, 125),
                                     actual_torque_pct |-> byte(c, 125), engine_rpm |-> word(d, a)]}
            /\ decode_ccvs(data) = {[vehicle_speed |-> word(b, c), brake_switch |-> switch(d \div 4),
                                     cruise_active |-> switch(a)]}
            /\ decode_et1(data) = {[coolant_temp |-> byte(a, 40), fuel_temp |-> byte(b, 40),
                                    oil_temp |-> {w - 8736 : w \in word(c, d)}]}
            /\ decode_eflp1(data) = {[coolant_pressure |-> byte(b, 0), oil_pressure |-> byte(d, 0)]}
            /\ decode_lfe(data) = {[fuel_rate |-> word(a, b), instantaneous_fuel_economy |-> word(c, d)]}
            /\ UNION {decode_eec1(SubSeq(data, 1, 7)), decode_ccvs(SubSeq(data, 1, 7)),
                      decode_et1(SubSeq(data, 1, 3)), decode_eflp1(SubSeq(data, 1, 3)),
                      decode_lfe(SubSeq(data, 1, 3))} = {}

(* decode_dm1 lists the codes of a message and none of an unreadable one. *)
ASSUME CodesListed ==
    \A c \in {m \in MCContents : m.pgn = Pgns.DM1} :
        /\ decode_dm1(dm_to_payload(c.v).v) = c.v.dtcs
        /\ decode_dm1(dm_to_payload(c.v).v \o <<1>>) = <<>>
=============================================================================
