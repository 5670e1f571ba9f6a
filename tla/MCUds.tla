------------------------------- MODULE MCUds --------------------------------
EXTENDS Uds

(* Identifiers that end alike, that look like a positive service byte (62) *)
(* and that look like a refusal (7F).                                      *)
dids == {<<1, 2>>, <<1, 3>>, <<98, 98>>, <<127, 34>>}

MCCalls ==
    UNION {{read_data_by_identifier(d), write_data_by_identifier(d, <<5>>),
            input_output_control_by_identifier(d, <<>>)} : d \in dids}
    \cup UNION {{diagnostic_session_control(t), ecu_reset(t), security_access(t, <<>>),
                 authentication(t, <<9>>), control_dtc_setting(t, <<>>),
                 read_dtc_information(t, <<8>>), report_dtcs_by_status_mask(t),
                 routine_control(t, <<2, 3>>, <<>>)} : t \in {1, 2}}
    \cup {diagnostic_session_control(80), j1979_request(4, <<>>), routine_control(1, <<2, 4>>, <<7>>), clear_diagnostic_information(<<255, 255, 255>>),
          tester_present, request(34, <<1, 2>>), request(26, <<135>>), j1979_request(1, <<12>>)}

(* Empty, two that repeat an identifier, one of which does so where the    *)
(* text begins a new line, and one DTC record after a mask.                *)
MCRecords == {<<>>, <<1, 2, 98>>, <<98, 98>>, <<7, 7, 7, 98, 1, 2, 5>>, <<255, 4, 32, 17, 9>>}
=============================================================================
