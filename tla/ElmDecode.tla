------------------------------ MODULE ElmDecode -----------------------------
(***************************************************************************)
(* From the chip's text to a payload (adapter/elm_codec.rs,                *)
(* protocol/codec.rs, protocol/hex.rs).  A line is one of                  *)
(*   blank   empty                                                         *)
(*   echo    the command that was sent, or SEARCHING...                    *)
(*   status  NO DATA, STOPPED or BUS BUSY                                  *)
(*   text    anything else that is not hex                                 *)
(*   hex     bytes, in one token or spaced out                             *)
(*   can     a CAN identifier of three or eight digits, then bytes         *)
(***************************************************************************)
EXTENDS Wire

Line(kind, id, bytes, spaced) == [kind |-> kind, id |-> id, bytes |-> bytes, spaced |-> spaced]

blankLine == Line("blank", {}, <<>>, FALSE)
echoLine == Line("echo", {}, <<>>, FALSE)
statusLine == Line("status", {}, <<>>, FALSE)
hexLine(b) == Line("hex", {}, b, FALSE)

IdOf(line) == CHOOSE id \in line.id : TRUE
IdBytes(id) == <<Bits(id, 24, 8), Bits(id, 16, 8), Bits(id, 8, 8), Bits(id, 0, 8)>>

(* Three digits are no whole number of bytes. *)
parse_hex_line(line) ==
    CASE line.kind = "hex" -> Ok(line.bytes)
      [] line.kind = "can" /\ IdOf(line) > 2047 -> Ok(IdBytes(IdOf(line)) \o line.bytes)
      [] OTHER -> Err

Tokens(line) == IF line.spaced \/ line.kind = "can" THEN Len(line.bytes) + (IF line.kind = "can" THEN 1 ELSE 0)
                ELSE 1

----------------------------------------------------------------------------
(* Frames with headers *)

FrameKinds == <<"Single", "First", "Consecutive", "FlowControl">>

decode_can_headers_on(line) ==
    LET b == line.bytes
        pci == b[1]
        id == IdOf(line)
        len == IF pci \div 16 = 0 THEN pci % 16 ELSE 256 * (pci % 16) + b[2]
        room == Len(b) - 1
    IN  IF line.kind # "can" \/ Tokens(line) < 3 \/ pci \div 16 > 3 THEN Err
        ELSE Ok([identifier |-> id,
                 kind |-> FrameKinds[(pci \div 16) + 1],
                 declared_length |-> IF pci \div 16 < 2 THEN {len} ELSE {},
                 payload |-> CASE pci \div 16 = 0 -> Slice(b, 1, IF len < room THEN len ELSE room)
                               [] pci \div 16 = 1 -> After(b, 2)
                               [] OTHER -> After(b, 1),
                 source |-> CASE id > 2047 -> {Bits(id, 0, 8)}
                              [] id \in 2024..2031 -> {id - 8}
                              [] OTHER -> {},
                 target |-> CASE id > 2047 /\ Bits(id, 16, 8) < 240 -> {Bits(id, 8, 8)}
                              [] id \in 2016..2023 -> {id}
                              [] OTHER -> {}])

decode_j1850_headers_on(line) ==
    Then(parse_hex_line(line), LAMBDA b :
        IF Len(b) < 4 THEN Err
        ELSE Ok([priority |-> b[1], target |-> b[2], source |-> b[3],
                 payload |-> SubSeq(b, 4, Len(b) - 1), checksum |-> b[Len(b)]]))

(* The sum of the bytes before the last one, in a u8. *)
Checksum(b) ==
    LET sum[i \in 0..Len(b)] == IF i = 0 THEN 0 ELSE (sum[i - 1] + b[i]) % 256
    IN  sum[Len(b) - 1]

decode_iso_kline_headers_on(line) ==
    Then(parse_hex_line(line), LAMBDA b :
        IF Len(b) < 5 THEN Err
        ELSE Ok([format |-> b[1], target |-> b[2], source |-> b[3],
                 payload |-> SubSeq(b, 4, Len(b) - 1), checksum_valid |-> b[Len(b)] = Checksum(b)]))

----------------------------------------------------------------------------
(* One line *)

is_likely_response_service(s) ==
    s \in {65, 66, 67, 68, 69, 70, 71, 73, 74, 97, 98, 127}

should_treat_as_headers_off(b, skip, prefix) ==
    \/ \E p \in prefix : StartsWith(b, p)
    \/ skip > 0 /\ b # <<>> /\ is_likely_response_service(b[1])

looks_like_headers_on(line, family) ==
    IF family = "can" THEN line.kind = "can" \/ (line.kind = "hex" /\ ~line.spaced)
    ELSE Tokens(line) >= 6

(* A frame keeps its header and loses its checksum; what is no frame is    *)
(* read as plain bytes.                                                    *)
decode_line(line, family, skip, prefix) ==
    LET hex == parse_hex_line(line)
        can == decode_can_headers_on(line)
        j1850 == decode_j1850_headers_on(line)
        kline == decode_iso_kline_headers_on(line)
    IN  CASE hex.ok /\ should_treat_as_headers_off(hex.v, skip, prefix) -> hex
          [] ~looks_like_headers_on(line, family) -> hex
          [] family = "can" -> IF can.ok THEN Ok(can.v.payload) ELSE hex
          [] family = "j1850" ->
               IF j1850.ok THEN Ok(<<j1850.v.priority, j1850.v.target, j1850.v.source>> \o j1850.v.payload)
               ELSE hex
          [] OTHER ->
               IF kline.ok /\ kline.v.checksum_valid
               THEN Ok(<<kline.v.format, kline.v.target, kline.v.source>> \o kline.v.payload)
               ELSE hex

----------------------------------------------------------------------------
(* A response: the loop over its lines *)

(* The positive answer repeats the first skip bytes of the command. *)
expected_response_prefix(command, skip) ==
    IF skip = 0 \/ Len(command) < skip THEN {}
    ELSE {<<(command[1] + 64) % 256>> \o Slice(command, 1, skip - 1)}

StartLoop(prefix) == [ok |-> TRUE, matched |-> prefix = {}, payloads |-> <<>>, current |-> <<>>]

Skipped(st, line, prefix) ==
    \/ line.kind \in {"blank", "echo"}
    \/ line.kind = "status" /\ st.matched /\ prefix # {}

(* A line that begins with the prefix opens the next answer; any other     *)
(* line continues the answer that is open, and is dropped before one is.   *)
TakeBytes(st, b, prefix) ==
    IF \E p \in prefix : StartsWith(b, p)
    THEN LET p == CHOOSE q \in prefix : TRUE
             closed == st.matched /\ st.current # <<>>
         IN  [st EXCEPT !.matched = TRUE,
                        !.payloads = IF closed THEN Append(@, st.current) ELSE @,
                        !.current = (IF closed THEN <<>> ELSE @) \o After(b, Len(p))]
    ELSE IF st.matched THEN [st EXCEPT !.current = @ \o b] ELSE st

TakeLine(st, line, family, skip, prefix) ==
    LET b == decode_line(line, family, skip, prefix)
    IN  IF ~st.ok \/ Skipped(st, line, prefix) THEN st
        ELSE IF b.ok THEN TakeBytes(st, b.v, prefix)
        ELSE [st EXCEPT !.ok = FALSE]

decode_elm_response_payloads_for_command(text, family, skip, command) ==
    LET prefix == expected_response_prefix(command, skip)
        upTo[i \in 0..Len(text)] ==
            IF i = 0 THEN StartLoop(prefix) ELSE TakeLine(upTo[i - 1], text[i], family, skip, prefix)
        end == upTo[Len(text)]
        payloads == IF end.current = <<>> THEN end.payloads ELSE Append(end.payloads, end.current)
    IN  IF ~end.ok \/ payloads = <<>> THEN Err ELSE Ok(payloads)

(* With a command and skip > 0 the prefix is already gone. *)
decode_elm_response_payload_for_command(text, family, skip, command) ==
    Then(decode_elm_response_payloads_for_command(text, family, skip, command), LAMBDA ps :
        IF skip > 0 THEN Ok(ps[1]) ELSE Ok(After(ps[1], skip)))

----------------------------------------------------------------------------
(* Elm327Adapter::send_routed_command, after the chip has answered.        *)

SkipBytes(sid) ==
    CASE sid \in {1, 2, 9} -> 2 [] sid \in {33, 34} -> 3 [] OTHER -> 1

response_bytes(pid) ==
    CASE pid \in {0, 1, 32, 64, 96, 166} -> 4
      [] pid \in {12, 16, 31, 33, 35, 49} \cup 60..63 \cup {66, 67, 68, 89, 94, 99} -> 2
      [] OTHER -> 1

truncate_known_payload(sid, data, p) ==
    IF sid \in {1, 2} /\ data # <<>> /\ Len(p) > response_bytes(data[1])
    THEN Slice(p, 0, response_bytes(data[1])) ELSE p

(* The codes NegativeResponse::from_byte knows. *)
NegativeCodes == 16..20 \cup {34, 49, 51, 53, 54, 55, 114, 120}

NegativeResponse(service, nrc) ==
    [ok |-> FALSE, v |-> "refused", service |-> service, nrc |-> nrc]

(* Every hex digit of the text.  Those of an echo or of SEARCHING... come  *)
(* first, so that the bytes begin with no 7F; a status follows an echo, or *)
(* stands alone.                                                           *)
compact_response_bytes(text) ==
    IF \E i \in 1..Len(text) : text[i].kind \notin {"blank", "hex"} THEN <<>>
    ELSE Concat(Map(text, LAMBDA line : line.bytes))

(* The last known code of a text that begins with 7F.  The other errors it *)
(* finds are no refusals, nor is the decoder's own error.                  *)
bad_check_response_error(text) ==
    LET bytes == compact_response_bytes(text)
        codes == {i \in 3..Len(bytes) : bytes[i] \in NegativeCodes}
    IN  IF codes # {} /\ bytes[1] = 127
        THEN NegativeResponse(bytes[2], bytes[CHOOSE i \in codes : \A j \in codes : i <= j])
        ELSE Err
check_response_error(text) ==
    LET bytes == compact_response_bytes(text)
        codes == {i \in 3..Len(bytes) : bytes[i] \in NegativeCodes}
    IN  IF codes # {} /\ bytes[1] = 127
        THEN NegativeResponse(bytes[2], bytes[CHOOSE i \in codes : \A j \in codes : j <= i])
        ELSE Err

send_routed_command(sid, data, text, family) ==
    LET p == decode_elm_response_payload_for_command(text, family, SkipBytes(sid), <<sid>> \o data)
    IN  IF p.ok THEN Ok(truncate_known_payload(sid, data, p.v)) ELSE check_response_error(text)
=============================================================================
