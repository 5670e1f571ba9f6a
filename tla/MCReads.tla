------------------------------ MODULE MCReads -------------------------------
EXTENDS Reads

None == {}

Limits(name, wl, wh, cl, ch) ==
    [name |-> name, warning_low |-> wl, warning_high |-> wh, critical_low |-> cl, critical_high |-> ch]

MCSpec(name, eighth, years, limit) ==
    [name |-> name,
     vin_match |-> [wmi |-> {<<49, 103, 67>>}, eighth |-> eighth, years |-> years],
     buses |-> <<[id |-> 1, protocol |-> "Can", modules |-> {[id |-> 1, bus |-> 1]}],
                 [id |-> 2, protocol |-> "Vpw", modules |-> {[id |-> 1, bus |-> 2], [id |-> 2, bus |-> 2]}]>>,
     dtc_library |-> <<[code |-> <<0, 0, 4, 2, 0>>, text |-> "spec"]>>,
     thresholds |-> <<Limits("coolant_temp", {0}, {limit}, None, {limit + 10})>>,
     enhanced_pids |-> <<[did |-> 5, module |-> 1,
                          formula |-> [form |-> "bitmask", bits |-> {0, 3, 9}]]>>]

(* Two specs that share a year, and one whose list of eighth characters is *)
(* there but empty.                                                        *)
MCRegistry == <<MCSpec("a", {{50}}, {2001..2005}, 100), MCSpec("b", {{50}}, {{2005, 2006}}, 90),
                MCSpec("c", {{}}, {}, 90)>>

(* "1GC...2.x" with the tenth character of 2004, of 2005 (in both specs)   *)
(* and of 2008 (in none).                                                  *)
Vin(c) == <<49, 71, 67>> \o Fill(4, 65) \o <<50, 65, c>> \o Fill(7, 48)

MCMeanings ==
    [pid |-> {90, 110, 0}, voltage |-> {<<12>>}, supported |-> {<<>>},
     vin |-> {[vin |-> Vin(52), spec |-> {"a"}], [vin |-> Vin(53), spec |-> {}],
              [vin |-> Vin(54), spec |-> {"b"}], [vin |-> Vin(56), spec |-> {}]},
     calid |-> {<<65, 66>>, <<>>}, ecu |-> {<<67>>}, cvn |-> {<<1, 2, 3, 4>>, <<1>>},
     o2 |-> {<<1, 44>>, <<1>>}, enhanced |-> {<<1>>, <<>>},
     tests |-> {<<[tid |-> 1, value |-> 5, min |-> 5, max |-> 260]>>,
                <<[tid |-> 2, value |-> 300, min |-> 0, max |-> 299], [tid |-> 3, value |-> 0, min |-> 0, max |-> 0]>>},
     readiness |-> {[mil |-> TRUE, count |-> 2, diesel |-> TRUE, supported |-> {0, 6}, incomplete |-> {6}],
                    [mil |-> FALSE, count |-> 127, diesel |-> FALSE, supported |-> {0, 7}, incomplete |-> {7, 1}]}]

Override == {[name |-> "o", thresholds |-> <<Limits("rpm", None, None, {0}, {100})>>]}

MCOperations ==
    {[name |-> n] : n \in {"read_all_dtcs", "read_vehicle_info", "identify_vehicle", "read_readiness"}}
    \cup {[name |-> "read_pids", pids |-> <<5, 12>>],
          [name |-> "poll", pids |-> <<5, 12>>, voltage |-> TRUE, override |-> Override],
          [name |-> "read_dtcs_on_module", module |-> 2],
          [name |-> "read_all_o2_monitoring", tids |-> <<1, 2>>, sensors |-> <<1, 2>>],
          [name |-> "read_test_results", tid |-> 1],
          [name |-> "read_enhanced", did |-> 5, module |-> 1]}

MCCodes == {<<4, 32>>, <<225, 0>>}
=============================================================================
