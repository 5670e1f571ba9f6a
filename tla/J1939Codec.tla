----------------------------- MODULE J1939Codec -----------------------------
(***************************************************************************)
(* The wire formats of protocol/j1939.rs: parameter group numbers, CAN     *)
(* identifiers, requests and acknowledgements, transport-protocol          *)
(* messages, trouble codes, the diagnostic messages DM1 to DM25, and the   *)
(* decoded parameter groups.  Scaled values keep their raw unit (1/8 rpm,  *)
(* 1/256 km/h, 1/32 degree, ...) instead of floating point.                *)
(***************************************************************************)
EXTENDS Wire

GLOBAL_ADDRESS == 255
MAX_PGN == 262143
MAX_SPN == 524287
TP_PACKET_DATA_LEN == 7

Pgns == [REQUEST |-> 59904, ACKNOWLEDGEMENT |-> 59392, TP_CM |-> 60416, TP_DT |-> 60160,
         ADDRESS_CLAIMED |-> 60928, DM1 |-> 65226, DM2 |-> 65227, DM3 |-> 65228,
         DM5 |-> 65230, DM11 |-> 65235, DM24 |-> 64950, DM25 |-> 64951]

----------------------------------------------------------------------------
(* Parameter groups and identifiers *)

pdu_format(pgn) == Bits(pgn, 8, 8)
is_pdu1(pgn) == pdu_format(pgn) < 240

(* A PDU1 group leaves its low byte to the destination. *)
normalized(pgn) == IF is_pdu1(pgn) THEN 256 * Bits(pgn, 8, 10) ELSE Bits(pgn, 0, 18)

can_id(priority, pgn, source, destination) ==
    IF priority > 7 \/ pgn > MAX_PGN \/ (is_pdu1(pgn) /\ destination = {})
    THEN Err
    ELSE Ok([priority |-> priority, pgn |-> normalized(pgn), source |-> source,
             destination |-> destination])

encode(id) ==
    LET pgn == normalized(id.pgn)
        ps == IF is_pdu1(pgn) THEN IF id.destination = {} THEN GLOBAL_ADDRESS
                                   ELSE CHOOSE d \in id.destination : TRUE
              ELSE Bits(pgn, 0, 8)
    IN  id.priority * 2^26 + Bits(pgn, 8, 10) * 2^16 + ps * 2^8 + id.source

decode(n) ==
    IF n >= 2^29 THEN Err
    ELSE LET pdu1 == Bits(n, 16, 8) < 240
         IN  Ok([priority |-> Bits(n, 26, 3), source |-> Bits(n, 0, 8),
                 pgn |-> IF pdu1 THEN 256 * Bits(n, 16, 10) ELSE Bits(n, 8, 18),
                 destination |-> IF pdu1 THEN {Bits(n, 8, 8)} ELSE {}])

(* A request names the group asked for in its three bytes of payload. *)
request_to_frame(source, destination, pgn) ==
    Then(can_id(6, Pgns.REQUEST, source, {destination}),
         LAMBDA id : Ok([id |-> id, payload |-> ToLe24(pgn)]))

----------------------------------------------------------------------------
(* NAMEs are 64 bits, low byte first: too wide for integers here, so a     *)
(* NAME stays a sequence of eight bytes.                                   *)

name_from_payload(p) == IF Len(p) < 8 THEN Err ELSE Ok(Slice(p, 0, 8))

NameFields(n) ==
    [identity_number |-> Le24(n) % 2^21,
     manufacturer_code |-> Bits(n[3], 5, 3) + 8 * n[4],
     ecu_instance |-> Bits(n[5], 0, 3),
     function_instance |-> Bits(n[5], 3, 5),
     function |-> n[6],
     vehicle_system |-> Bits(n[7], 1, 7),
     vehicle_system_instance |-> Bits(n[8], 0, 4),
     industry_group |-> Bits(n[8], 4, 3),
     arbitrary_address_capable |-> Bits(n[8], 7, 1) = 1]

(* The lower NAME wins: the highest byte that differs decides. *)
wins_arbitration_against(n, m) ==
    \E i \in 1..8 : n[i] < m[i] /\ \A j \in (i + 1)..8 : n[j] = m[j]

address_claim(frame) ==
    IF frame.id.pgn # Pgns.ADDRESS_CLAIMED THEN Err
    ELSE Then(name_from_payload(frame.payload),
              LAMBDA n : Ok([source_address |-> frame.id.source, name |-> n]))

----------------------------------------------------------------------------
(* Acknowledgements; the control byte stands for itself. *)

ack_parse(p) ==
    IF Len(p) < 8 THEN Err
    ELSE Ok([control |-> p[1], group_function_value |-> p[2],
             address_acknowledged |-> p[5], pgn |-> Le24(Slice(p, 5, 3))])

ack_to_payload(a) ==
    <<a.control, a.group_function_value, 255, 255, a.address_acknowledged>> \o ToLe24(a.pgn)

(* parse_dm3_response and parse_dm11_response: the acknowledgement must be *)
(* about the group that was cleared.                                       *)
parse_clear_response(p, pgn) ==
    Then(ack_parse(p), LAMBDA a : IF a.pgn = pgn THEN Ok(a) ELSE Err)

----------------------------------------------------------------------------
(* TP.CM and TP.DT *)

TpKinds == [rts |-> 16, cts |-> 17, eom |-> 19, bam |-> 32, abort |-> 255]

(* Fields a message does not have are 0. *)
Tp(kind, size, packets, more, pgn) ==
    [kind |-> kind, size |-> size, packets |-> packets, more |-> more, pgn |-> pgn, data |-> <<>>]

tp_parse(p) ==
    IF Len(p) < 8 THEN Err
    ELSE LET size == Le16(Slice(p, 1, 2))
             pgn == Le24(Slice(p, 5, 3))
         IN Ok(CASE p[1] = TpKinds.rts -> Tp("rts", size, p[4], p[5], pgn)
                 [] p[1] = TpKinds.cts -> Tp("cts", 0, p[2], p[3], pgn)
                 [] p[1] = TpKinds.eom -> Tp("eom", size, p[4], 0, pgn)
                 [] p[1] = TpKinds.bam -> Tp("bam", size, p[4], 0, pgn)
                 [] p[1] = TpKinds.abort -> Tp("abort", 0, p[2], 0, pgn)
                 [] OTHER -> [Tp("unknown", 0, 0, p[1], 0) EXCEPT !.data = Slice(p, 1, 7)])

tp_to_payload(m) ==
    CASE m.kind = "unknown" -> <<m.more>> \o m.data
      [] m.kind = "rts" -> <<TpKinds.rts>> \o ToLe16(m.size) \o <<m.packets, m.more>> \o ToLe24(m.pgn)
      [] m.kind = "cts" -> <<TpKinds.cts, m.packets, m.more, 255, 255>> \o ToLe24(m.pgn)
      [] m.kind = "abort" -> <<TpKinds.abort, m.packets, 255, 255, 255>> \o ToLe24(m.pgn)
      [] OTHER -> <<TpKinds[m.kind]>> \o ToLe16(m.size) \o <<m.packets, 255>> \o ToLe24(m.pgn)

tp_pgn(m) == IF m.kind = "unknown" THEN {} ELSE {m.pgn}

dt_parse(p) == IF Len(p) < 8 THEN Err ELSE Ok([sequence |-> p[1], data |-> Slice(p, 1, 7)])
dt_to_payload(dt) == <<dt.sequence>> \o dt.data

----------------------------------------------------------------------------
(* Trouble codes and lamps *)

dtc_from_bytes(b) ==
    [spn |-> Le16(b) + 65536 * Bits(b[3], 5, 3), fmi |-> Bits(b[3], 0, 5),
     occurrence_count |-> Bits(b[4], 0, 7), conversion_method |-> Bits(b[4], 7, 1)]

(* The shift of a byte drops what leaves its eight bits. *)
dtc_to_bytes(d) ==
    IF d.spn > MAX_SPN \/ d.fmi > 31 \/ d.occurrence_count > 127 \/ d.conversion_method > 1
    THEN Err
    ELSE Ok(ToLe16(d.spn) \o <<((Bits(d.spn, 16, 8) * 32) % 256) + d.fmi,
                               128 * d.conversion_method + d.occurrence_count>>)

(* Four two-bit fields of a lamp byte: protect, amber, red stop, MIL. *)
Lamps(b) == [protect |-> Bits(b, 0, 2), amber_warning |-> Bits(b, 2, 2),
             red_stop |-> Bits(b, 4, 2), malfunction_indicator |-> Bits(b, 6, 2)]
LampByte(l) == l.protect + 4 * l.amber_warning + 16 * l.red_stop + 64 * l.malfunction_indicator

lamps_parse(status, flash) == [status |-> Lamps(status), flash |-> Lamps(flash)]
lamps_to_bytes(l) == <<LampByte(l.status), LampByte(l.flash)>>

----------------------------------------------------------------------------
(* Diagnostic messages *)

is_padding_bytes(b) == AllAre(b, 255) \/ AllAre(b, 0)

parse_dm_dtc_message(data) ==
    IF Len(data) < 2 \/ ~is_padding_bytes(Remainder(After(data, 2), 4)) THEN Err
    ELSE LET codes == SelectSeq(Chunks(After(data, 2), 4), LAMBDA c : ~is_padding_bytes(c))
         IN  Ok([lamps |-> lamps_parse(data[1], data[2]), dtcs |-> Map(codes, dtc_from_bytes)])

(* decode_dm1, decode_dm2: an unreadable message has no codes. *)
decode_dm1(data) ==
    LET m == parse_dm_dtc_message(data) IN IF m.ok THEN m.v.dtcs ELSE <<>>

dm_to_payload(m) ==
    Then(Collect(Map(m.dtcs, dtc_to_bytes)), LAMBDA bs : Ok(lamps_to_bytes(m.lamps) \o Concat(bs)))

byte_available(b) == IF b = 255 THEN {} ELSE {b}
word_available(w) == IF w = 65535 THEN {} ELSE {w}
UnwrapOr(opt, x) == IF opt = {} THEN x ELSE CHOOSE v \in opt : TRUE

parse_dm5(d) ==
    IF Len(d) < 8 THEN Err
    ELSE Ok([active |-> byte_available(d[1]), previously |-> byte_available(d[2]),
             obd_compliance |-> d[3], monitor_readiness |-> Slice(d, 3, 5)])
dm5_to_payload(m) ==
    <<UnwrapOr(m.active, 255), UnwrapOr(m.previously, 255), m.obd_compliance>> \o m.monitor_readiness

dm24_entry(c) ==
    [spn |-> Le16(c) + 65536 * Bits(c[3], 5, 3), support_bits |-> Bits(c[3], 0, 5),
     data_length |-> c[4]]
parse_dm24(d) ==
    IF Remainder(d, 4) # <<>> THEN Err
    ELSE Ok(Map(SelectSeq(Chunks(d, 4), LAMBDA c : ~AllAre(c, 255)), dm24_entry))
dm24_entry_to_payload(e) ==
    IF e.spn > MAX_SPN \/ e.support_bits > 31 THEN Err
    ELSE Ok(ToLe16(e.spn) \o <<((Bits(e.spn, 16, 8) * 32) % 256) + e.support_bits, e.data_length>>)
dm24_to_payload(es) ==
    Then(Collect(Map(es, dm24_entry_to_payload)), LAMBDA bs : Ok(Concat(bs)))

(* The block that starts after off, and what follows it.  A block of length *)
(* zero or of padding ends the message.                                    *)
Dm25Ends(d, off) == off >= Len(d) \/ AllAre(After(d, off), 255) \/ d[off + 1] = 0
Dm25Fits(d, off) == d[off + 1] >= 4 /\ off + 1 + d[off + 1] <= Len(d)
Dm25Block(d, off) ==
    [length |-> d[off + 1], dtc |-> dtc_from_bytes(Slice(d, off + 1, 4)),
     data |-> Slice(d, off + 5, d[off + 1] - 4)]

parse_dm25(d) ==
    LET from[off \in 0..Len(d)] ==
            IF Dm25Ends(d, off) THEN Ok(<<>>)
            ELSE IF ~Dm25Fits(d, off) THEN Err
            ELSE Then(from[off + 1 + d[off + 1]], LAMBDA rest : Ok(<<Dm25Block(d, off)>> \o rest))
    IN  from[0]

dm25_frame_to_payload(f) ==
    IF f.length # 4 + Len(f.data) \/ f.length > 255 THEN Err
    ELSE Then(dtc_to_bytes(f.dtc), LAMBDA b : Ok(<<f.length>> \o b \o f.data))
dm25_to_payload(fs) ==
    Then(Collect(Map(fs, dm25_frame_to_payload)), LAMBDA bs : Ok(Concat(bs)))

----------------------------------------------------------------------------
(* Parameter groups, in raw units; {} is "not available" *)

Offset(opt, k) == {v - k : v \in opt}
Switch(bits) == IF bits = 3 THEN {} ELSE {bits = 1}

decode_eec1(d) ==
    IF Len(d) < 8 THEN {}
    ELSE {[torque_mode |-> Bits(d[1], 0, 4),
           driver_demand_torque_pct |-> Offset(byte_available(d[2]), 125),
           actual_torque_pct |-> Offset(byte_available(d[3]), 125),
           engine_rpm |-> word_available(Le16(Slice(d, 3, 2)))]}
decode_ccvs(d) ==
    IF Len(d) < 8 THEN {}
    ELSE {[vehicle_speed |-> word_available(Le16(Slice(d, 1, 2))),
           brake_switch |-> Switch(Bits(d[4], 2, 2)), cruise_active |-> Switch(Bits(d[1], 0, 2))]}
decode_et1(d) ==
    IF Len(d) < 4 THEN {}
    ELSE {[coolant_temp |-> Offset(byte_available(d[1]), 40),
           fuel_temp |-> Offset(byte_available(d[2]), 40),
           oil_temp |-> Offset(word_available(Le16(Slice(d, 2, 2))), 273 * 32)]}
decode_eflp1(d) ==
    IF Len(d) < 4 THEN {}
    ELSE {[coolant_pressure |-> byte_available(d[2]), oil_pressure |-> byte_available(d[4])]}
decode_lfe(d) ==
    IF Len(d) < 4 THEN {}
    ELSE {[fuel_rate |-> word_available(Le16(Slice(d, 0, 2))),
           instantaneous_fuel_economy |-> word_available(Le16(Slice(d, 2, 2)))]}
=============================================================================
