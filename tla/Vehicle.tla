------------------------------ MODULE Vehicle -------------------------------
(***************************************************************************)
(* What the session knows of a vehicle and how it reads it: specs and VIN  *)
(* matching (vehicle/mod.rs, vehicle/vin.rs), discovery of the modules on  *)
(* the active bus (session/discovery.rs), PID formulas (protocol/pid.rs),  *)
(* trouble codes (protocol/dtc.rs, session/diagnostics.rs), thresholds     *)
(* (session/threshold.rs) and the decoders of session/modes.rs and         *)
(* session/enhanced.rs.                                                    *)
(*                                                                         *)
(* Characters are ASCII codes, module names are numbers in their order,    *)
(* and a floating-point value is a fraction [num, den].                    *)
(***************************************************************************)
EXTENDS Wire, SequencesExt

Upper(c) == IF c \in 97..122 THEN c - 32 ELSE c

(* The first element of s that satisfies op, as a set. *)
FirstOf(s, op(_)) ==
    LET I == {i \in 1..Len(s) : op(s[i])}
    IN  {s[i] : i \in {j \in I : \A k \in I : j <= k}}

----------------------------------------------------------------------------
(* VIN *)

(* A..H, J..N, P, R, S, T, V..Y, 1..9: the tenth character, in year order. *)
YearCodes == <<65, 66, 67, 68, 69, 70, 71, 72, 74, 75, 76, 77, 78, 80, 82, 83, 84, 86, 87, 88, 89,
               49, 50, 51, 52, 53, 54, 55, 56, 57>>

decode_year_candidates(vin) ==
    UNION {{2009 + i, 1979 + i} : i \in {j \in 1..30 : Len(vin) >= 10 /\ YearCodes[j] = vin[10]}}

(* An empty list of prefixes admits all.  eighth and years are optional: a *)
(* set of at most one set of characters, of years; an empty list of        *)
(* characters that is there admits none.                                   *)
matches(m, vin) ==
    /\ Len(vin) >= 17
    /\ m.wmi = {} \/ \E p \in m.wmi : Map(p, Upper) = Map(Slice(vin, 0, 3), Upper)
    /\ \A digits \in m.eighth : vin[8] \in digits
    /\ \A range \in m.years : decode_year_candidates(vin) \cap range # {}

bad_match_vin(registry, vin) == FirstOf(registry, LAMBDA s : matches(s.vin_match, vin))

(* One match or none: a VIN that two specs accept matches neither. *)
match_vin(registry, vin) ==
    LET found == {i \in 1..Len(registry) : matches(registry[i].vin_match, vin)}
    IN  IF Cardinality(found) = 1 THEN {registry[i] : i \in found} ELSE {}

(* The printable bytes of the answer, seventeen of them. *)
Printable(data) == SelectSeq(data, LAMBDA b : b \in 32..126)
read_vin(data) ==
    IF Len(Printable(data)) < 17 THEN Err ELSE Ok(SubSeq(Printable(data), 1, 17))

----------------------------------------------------------------------------
(* Discovery.  A spec is a set of at most one. *)

resolve_active_bus(protocol, spec) ==
    UNION {LET matched == FirstOf(s.buses, LAMBDA b : b.protocol = protocol)
           IN  IF matched # {} THEN matched
               ELSE IF Len(s.buses) = 1 THEN {s.buses[1]} ELSE {}
           : s \in spec}

resolve_modules(protocol, spec) ==
    LET active == resolve_active_bus(protocol, spec)
        buses == UNION {{s.buses[i] : i \in 1..Len(s.buses)} : s \in spec}
    IN  UNION {b.modules : b \in IF active = {} THEN buses ELSE active}

dtc_scan_modules(protocol, spec) ==
    LET active == resolve_active_bus(protocol, spec)
        ids == {m.id : m \in {n \in resolve_modules(protocol, spec) :
                                \A b \in active : n.bus = b.id}}
    IN  SetToSortSeq(ids, <)

----------------------------------------------------------------------------
(* PIDs *)

response_bytes(pid) ==
    CASE pid \in {0, 1, 32, 64, 96, 166} -> 4
      [] pid \in {12, 16, 31, 33, 35, 49, 66, 67, 68, 89, 94, 99} \cup 60..63 -> 2
      [] OTHER -> 1

Scalar(num, den) == [kind |-> "scalar", num |-> num, den |-> den]
Bitfield(raw) == [kind |-> "bitfield", raw |-> raw]

(* Value of a number n of one or two bytes: (n * mul + add) / den. *)
PidFormula(pid) ==
    CASE pid \in {4, 17, 44, 46, 47, 69, 71, 73, 74, 76} -> {<<100, 0, 255>>}
      [] pid \in {5, 15, 70, 92} -> {<<1, -40, 1>>}
      [] pid \in {6, 7, 8, 9, 45} -> {<<100, -12800, 128>>}
      [] pid = 10 -> {<<3, 0, 1>>}
      [] pid \in {11, 51, 13, 48, 31, 33, 49, 99} -> {<<1, 0, 1>>}
      [] pid = 12 -> {<<1, 0, 4>>}
      [] pid = 14 -> {<<1, -128, 2>>}
      [] pid = 16 -> {<<1, 0, 100>>}
      [] pid = 166 -> {<<1, 0, 10>>}
      [] pid \in {35, 89} -> {<<10, 0, 1>>}
      [] pid \in 60..63 -> {<<1, -400, 10>>}
      [] pid = 66 -> {<<1, 0, 1000>>}
      [] pid = 67 -> {<<100, 0, 255>>}
      [] pid = 68 -> {<<1, 0, 32768>>}
      [] pid = 94 -> {<<1, 0, 20>>}
      [] pid \in {97, 98} -> {<<1, -125, 1>>}
      [] OTHER -> {}

BigEndian(data, n) == FoldLeft(LAMBDA acc, b : 256 * acc + b, 0, SubSeq(data, 1, n))

parse_pid(pid, data) ==
    IF Len(data) < response_bytes(pid) THEN Err
    ELSE LET n == BigEndian(data, response_bytes(pid))
         IN  IF pid \in {0, 1, 3, 32, 64, 96} THEN Ok(Bitfield(n))
             ELSE IF pid = 28 THEN Ok([kind |-> "state", of |-> n])
             ELSE IF PidFormula(pid) = {} THEN Err
             ELSE LET f == CHOOSE g \in PidFormula(pid) : TRUE
                  IN  Ok(Scalar(n * f[1] + f[2], f[3]))

----------------------------------------------------------------------------
(* Trouble codes *)

(* The letter (0..3 for P, C, B, U) and four digits. *)
from_bytes(a, b) == <<Bits(a, 6, 2), Bits(a, 4, 2), Bits(a, 0, 4), Bits(b, 4, 4), Bits(b, 0, 4)>>

bad_decode_dtc_bytes(data, status, module) ==
    Map(Chunks(data, 2), LAMBDA p :
        [code |-> from_bytes(p[1], p[2]), status |-> status, module |-> module, text |-> "none"])

(* Pairs of bytes; 00 00 is padding. *)
decode_dtc_bytes(data, status, module) ==
    Map(SelectSeq(Chunks(data, 2), LAMBDA p : p # <<0, 0>>), LAMBDA p :
        [code |-> from_bytes(p[1], p[2]), status |-> status, module |-> module, text |-> "none"])

(* The first of those with the same code, module and status stays. *)
dedup_dtcs(dtcs) ==
    LET key(d) == <<d.code, d.module, d.status>>
        upTo[i \in 0..Len(dtcs)] ==
            IF i = 0 THEN <<>>
            ELSE IF \E j \in 1..(i - 1) : key(dtcs[j]) = key(dtcs[i]) THEN upTo[i - 1]
            ELSE Append(upTo[i - 1], dtcs[i])
    IN  upTo[Len(dtcs)]

(* The first entry of the ecm, tcm, bcm and network lists, in this order. *)
lookup(library, code) == FirstOf(library, LAMBDA e : e.code = code)

(* The spec's text, else the universal one. *)
enrich_dtcs(dtcs, spec, universal) ==
    Map(dtcs, LAMBDA d :
        LET own == UNION {lookup(s.dtc_library, d.code) : s \in spec}
        IN  [d EXCEPT !.text =
                IF own # {} THEN (CHOOSE e \in own : TRUE).text
                ELSE IF d.code \in universal THEN "universal" ELSE "none"])

----------------------------------------------------------------------------
(* Thresholds.  A limit is a set of at most one. *)

AtLeast(v, limit) == v.num >= limit * v.den
AtMost(v, limit) == v.num <= limit * v.den

Alert(level, limit, direction) == [level |-> level, limit |-> limit, direction |-> direction]

bad_evaluate(t, v) ==
    IF \E l \in t.warning_high : AtLeast(v, l)
    THEN {Alert("Warning", l, "High") : l \in t.warning_high}
    ELSE IF \E l \in t.critical_high : AtLeast(v, l)
    THEN {Alert("Critical", l, "High") : l \in t.critical_high}
    ELSE {}

evaluate(t, v) ==
    IF \E l \in t.critical_high : AtLeast(v, l)
    THEN {Alert("Critical", l, "High") : l \in t.critical_high}
    ELSE IF \E l \in t.critical_low : AtMost(v, l)
    THEN {Alert("Critical", l, "Low") : l \in t.critical_low}
    ELSE IF \E l \in t.warning_high : AtLeast(v, l)
    THEN {Alert("Warning", l, "High") : l \in t.warning_high}
    ELSE IF \E l \in t.warning_low : AtMost(v, l)
    THEN {Alert("Warning", l, "Low") : l \in t.warning_low}
    ELSE {}

pid_threshold_name(pid) ==
    CASE pid = 5 -> {"coolant_temp", "coolant_temp_c"}
      [] pid = 12 -> {"rpm"}
      [] pid = 92 -> {"oil_temp", "oil_temp_c"}
      [] pid = 11 -> {"intake_map_kpa"}
      [] pid = 16 -> {"maf_gs"}
      [] pid = 66 -> {"battery_voltage"}
      [] pid = 47 -> {"fuel_tank_pct"}
      [] pid = 94 -> {"fuel_rate_lh"}
      [] pid = 70 -> {"ambient_temp_c", "ambient_temp"}
      [] pid = 15 -> {"intake_air_temp_c", "intake_air_temp"}
      [] pid = 51 -> {"barometric_kpa"}
      [] OTHER -> {}

(* Engine thresholds come before transmission thresholds in the list. *)
evaluate_pid_threshold(spec, pid, v) ==
    UNION {UNION {evaluate(t, v) : t \in FirstOf(s.thresholds, LAMBDA n : n.name \in pid_threshold_name(pid))}
           : s \in spec}

----------------------------------------------------------------------------
(* Modes 01 PID 01, 06 and 21/22 *)

(* Bits 0 to 6 on diesel engines, 0 to 7 on others; set means NOT complete. *)
decode_readiness(data) ==
    IF Len(data) < 4 THEN Err
    ELSE LET diesel == Bits(data[2], 3, 1) = 1
             bits == 0..(IF diesel THEN 6 ELSE 7)
         IN  Ok([mil |-> Bits(data[1], 7, 1) = 1, count |-> Bits(data[1], 0, 7), diesel |-> diesel,
                 supported |-> {b \in bits : Bits(data[3], b, 1) = 1},
                 complete |-> {b \in bits : Bits(data[4], b, 1) # 1}])

decode_test_results(data) ==
    Map(Chunks(data, 8), LAMBDA r :
        LET value == Be16(Slice(r, 2, 2))
            min == Be16(Slice(r, 4, 2))
            max == Be16(Slice(r, 6, 2))
        IN  [tid |-> r[1], value |-> value, min |-> min, max |-> max,
             passed |-> value >= min /\ value <= max])

find_enhanced_pid(spec, did, module) ==
    UNION {FirstOf(s.enhanced_pids, LAMBDA e : e.did = did /\ e.module = module) : s \in spec}

(* Linear, two-byte and centered formulas, bit masks and enumerations; an  *)
(* expression is left raw.                                                 *)
decode_with_formula(f, data) ==
    LET a == data[1]
        b == IF Len(data) > 1 THEN data[2] ELSE 0
        raw == BigEndian(data, IF Len(data) >= 4 THEN 4 ELSE IF Len(data) >= 2 THEN 2 ELSE 1)
    IN  CASE f.form = "linear" -> Scalar(a * f.scale + f.offset, 1)
          [] f.form = "two_byte" -> Scalar((a * 256 + b) * f.scale + f.offset, 1)
          [] f.form = "centered" -> Scalar(a * 256 + b - f.center, f.divisor)
          [] f.form = "bitmask" -> [kind |-> "flags", raw |-> raw,
                                    flags |-> {n \in f.bits : Bits(raw, n, 1) = 1}]
          [] f.form = "enumerated" -> [kind |-> "state",
                                       of |-> IF a \in f.values THEN a ELSE "Unknown"]
          [] f.form = "expression" -> [kind |-> "raw", data |-> data]

decode_enhanced_value(spec, did, module, data) ==
    LET found == find_enhanced_pid(spec, did, module)
    IN  IF found = {} \/ data = <<>> THEN [kind |-> "raw", data |-> data]
        ELSE decode_with_formula((CHOOSE e \in found : TRUE).formula, data)
=============================================================================
