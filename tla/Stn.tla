--------------------------------- MODULE Stn --------------------------------
(***************************************************************************)
(* Moving an STN/OBDLink adapter to a CAN route (adapter/stn.rs): a plan   *)
(* of ST commands is sent over the byte link one by one, and the first     *)
(* answer that is not OK ends it.  The chip is external, known from the    *)
(* commands the code sends it: selecting a protocol also restores that     *)
(* protocol's bit rate, on which plan_route relies.  The link may lose or  *)
(* delay an answer, and as in Elm327 nothing discards unread answers       *)
(* before a command is sent.                                               *)
(***************************************************************************)
EXTENDS CanRoute

CONSTANTS Routes,        \* the routes callers ask for
          Timeouts,      \* their timeout_ms options: sets of at most one value
          FilterMemory,  \* pass filters the chip has room for
          MaxUnread      \* bound: unread answers on the link

Filter == [id : Identifier, mask : Identifier]

(* A route is built by CanRouteConfig: one bus, a u32 bit rate, filters.    *)
ASSUME StnAssumption ==
    /\ \A route \in Routes :
          /\ route.bus \in {{}} \cup {{b} : b \in SecondaryBuses}
          /\ route.arbitration_bitrate_bps \in Nat
          /\ route.filters \in Seq(Filter)
    /\ \A timeout \in Timeouts : timeout \subseteq Nat /\ \A s, t \in timeout : s = t

VARIABLES chip,    \* the chip's protocol settings
          rx,      \* answers on the link that nobody read, each a sequence of lines
          call,    \* the apply_route under way: plan, next command, and whether
                   \* nothing was unread when it began
          result,  \* what the last apply_route returned
          opened   \* history: the plan whose STPO the chip ran

vars == <<chip, rx, call, result, opened>>

None == [none |-> TRUE]

-----------------------------------------------------------------------------
(* Plans.                                                                   *)

from_route(route) == IF route.bus = {} THEN "PrimaryCan" ELSE CHOOSE b \in route.bus : TRUE

protocol_number(preset) ==
    CASE preset = "PrimaryCan"                -> 33
      [] preset \in {"MsCan125", "MsGmlan95"} -> 53
      [] preset = "SwCanGmlan33"              -> 63

protocol_default_bitrate_bps(preset) ==
    CASE preset = "PrimaryCan"                -> 500000
      [] preset \in {"MsCan125", "MsGmlan95"} -> 125000
      [] preset = "SwCanGmlan33"              -> 33300

When(cond, commands) == IF cond THEN commands ELSE <<>>

\* The pass filters of the previous route are not cleared.
bad_filter_commands(filters) ==
    IF filters = <<>> THEN << <<"UseAutomaticFiltering">> >>
    ELSE [i \in DOMAIN filters |-> <<"AddPassFilter", filters[i]>>]

filter_commands(filters) ==
    IF filters = <<>> THEN << <<"UseAutomaticFiltering">> >>
    ELSE << <<"ClearPassFilters">> >>
         \o [i \in DOMAIN filters |-> <<"AddPassFilter", filters[i]>>]

\* The protocol is opened before its filters are set.
bad_plan_commands(route, timeout) ==
    LET preset == from_route(route)
        rate   == route.arbitration_bitrate_bps
    IN  << <<"CloseProtocol">>, <<"SelectProtocol", preset>> >>
        \o When(rate # protocol_default_bitrate_bps(preset),
                << <<"SetProtocolBaudRate", rate>> >>)
        \o When(timeout # {}, << <<"SetProtocolTimeoutMs", CHOOSE t \in timeout : TRUE>> >>)
        \o << <<"OpenProtocol">> >>
        \o filter_commands(route.filters)

plan_commands(route, timeout) ==
    LET preset == from_route(route)
        rate   == route.arbitration_bitrate_bps
    IN  << <<"CloseProtocol">>, <<"SelectProtocol", preset>> >>
        \o When(rate # protocol_default_bitrate_bps(preset),
                << <<"SetProtocolBaudRate", rate>> >>)
        \o When(timeout # {}, << <<"SetProtocolTimeoutMs", CHOOSE t \in timeout : TRUE>> >>)
        \o filter_commands(route.filters)
        \o << <<"OpenProtocol">> >>

plan_route(route, timeout) ==
    LET negotiated == negotiate(STN_BACKEND_CAPS, isotp_requirement(route))
    IN  IF ~negotiated.ok THEN negotiated
        ELSE IF route.arbitration_bitrate_bps = 0 THEN Refused("InvalidBitrate")
        ELSE IF 0 \in timeout THEN Refused("InvalidTimeoutMs")
        ELSE Ok([route |-> route, timeout |-> timeout,
                 commands |-> plan_commands(route, timeout)])

(* What is written: presets share protocol numbers, and an identifier's     *)
(* width survives only as its number of digits.                             *)
encode_can_identifier(id) == [digits |-> IF id.bits = 11 THEN 4 ELSE 8, hex |-> id.raw]

encode(command) ==
    LET op == command[1]
    IN  CASE op = "CloseProtocol"         -> <<"STPC">>
          [] op = "SelectProtocol"        -> <<"STP", protocol_number(command[2])>>
          [] op = "SetProtocolBaudRate"   -> <<"STPBR", command[2]>>
          [] op = "SetProtocolTimeoutMs"  -> <<"STPTO", command[2]>>
          [] op = "UseAutomaticFiltering" -> <<"STFA">>
          [] op = "ClearPassFilters"      -> <<"STFPC">>
          [] op = "AddPassFilter"         ->
                <<"STFPA", encode_can_identifier(command[2].id),
                           encode_can_identifier(command[2].mask)>>
          [] op = "OpenProtocol"          -> <<"STPO">>

-----------------------------------------------------------------------------
(* The chip.                                                                *)

Answers == {<<"OK">>, <<"echo", "OK">>, <<"UNKNOWN_COMMAND">>, <<"echo", "BUS_ERROR">>,
            <<"OUT_OF_MEMORY">>, <<"LV_RESET">>}

ResetChip == [transceiver |-> "none", rate |-> 0, timeout |-> 0,
              auto |-> TRUE, pass |-> {}, open |-> FALSE]

Transceiver(number) ==
    CASE number = 33 -> "HS" [] number = 53 -> "MS" [] number = 63 -> "SW"

DefaultRate(number) ==
    CASE number = 33 -> 500000 [] number = 53 -> 125000 [] number = 63 -> 33300

ChipIdentifier(text) == IF text.digits = 4 THEN Standard(text.hex) ELSE Extended(text.hex)

Executed(wire) ==
    LET op == wire[1]
    IN  CASE op = "STPC"  -> [chip EXCEPT !.open = FALSE]
          [] op = "STP"   -> [chip EXCEPT !.transceiver = Transceiver(wire[2]),
                                          !.rate = DefaultRate(wire[2])]
          [] op = "STPBR" -> [chip EXCEPT !.rate = wire[2]]
          [] op = "STPTO" -> [chip EXCEPT !.timeout = wire[2]]
          [] op = "STFA"  -> [chip EXCEPT !.auto = TRUE, !.pass = {}]
          [] op = "STFPC" -> [chip EXCEPT !.auto = FALSE, !.pass = {}]
          [] op = "STFPA" -> [chip EXCEPT !.auto = FALSE,
                                !.pass = @ \cup {[id |-> ChipIdentifier(wire[2]),
                                                  mask |-> ChipIdentifier(wire[3])]}]
          [] op = "STPO"  -> [chip EXCEPT !.open = TRUE]

(* The chip runs the command or refuses it; it may also have been reset.    *)
(* lines is what it prints before the prompt.                               *)
ChipRuns(wire, lines) ==
    \/ /\ Cardinality(Executed(wire).pass) <= FilterMemory
       /\ lines \in {<<"OK">>, <<"echo", "OK">>}
       /\ chip' = Executed(wire)
       /\ opened' = IF wire[1] # "STPO" THEN opened
                    ELSE IF call.sync THEN call.plan ELSE None
    \/ /\ lines \in {<<"UNKNOWN_COMMAND">>, <<"echo", "BUS_ERROR">>}
       /\ UNCHANGED <<chip, opened>>
    \/ /\ Cardinality(Executed(wire).pass) > FilterMemory
       /\ lines = <<"OUT_OF_MEMORY">>
       /\ UNCHANGED <<chip, opened>>
    \/ /\ lines = <<"LV_RESET">>
       /\ chip' = ResetChip
       /\ UNCHANGED opened

-----------------------------------------------------------------------------
(* apply_route.                                                             *)

(* The first line that says something decides; an echo says nothing.        *)
parse_command_response(lines) ==
    LET said == {i \in 1..Len(lines) : lines[i] # "echo"}
        line == lines[Min(said)]
    IN  IF said # {} THEN IF line = "OK" THEN "ok" ELSE line
        ELSE IF lines = <<>> THEN "empty" ELSE "unexpected"

Init ==
    /\ chip = ResetChip
    /\ rx = <<>>
    /\ call = None /\ result = None /\ opened = None

apply_route(route, timeout) ==
    /\ call = None
    /\ LET plan == plan_route(route, timeout)
       IN  \/ /\ ~plan.ok
              /\ result' = [ok |-> FALSE, why |-> plan.v]
              /\ UNCHANGED <<call, opened>>
           \/ /\ plan.ok
              /\ call' = [plan |-> plan.v, at |-> 1, sync |-> rx = <<>>]
              /\ result' = None
              /\ opened' = IF rx = <<>> THEN opened ELSE None
    /\ UNCHANGED <<chip, rx>>

(* The loop of apply_route_plan around one exchange that ended with out.    *)
apply_route_plan(out) ==
    IF out # "ok"
    THEN call' = None /\ result' = [ok |-> FALSE, why |-> out]
    ELSE IF call.at < Len(call.plan.commands)
    THEN call' = [call EXCEPT !.at = @ + 1] /\ UNCHANGED result
    ELSE call' = None /\ result' = [ok |-> TRUE, plan |-> call.plan, sync |-> call.sync]

Sent == encode(call.plan.commands[call.at])

(* Write, then read what arrived first: perhaps several answers in a chunk. *)
send_answered ==
    /\ call # None
    /\ \E lines \in Answers :
          /\ ChipRuns(Sent, lines)
          /\ LET q == Append(rx, lines)
             IN  \E k \in 1..Len(q) :
                    /\ apply_route_plan(parse_command_response(Concat(SubSeq(q, 1, k))))
                    /\ rx' = SubSeq(q, k + 1, Len(q))

(* The write fails, before or after the command reached the chip.           *)
send_write_fails ==
    /\ call # None
    /\ apply_route_plan("write")
    /\ \/ UNCHANGED <<chip, rx, opened>>
       \/ /\ Len(rx) < MaxUnread
          /\ \E lines \in Answers : ChipRuns(Sent, lines) /\ rx' = Append(rx, lines)

(* The read times out: the answer is lost, arrives later, or is cut after   *)
(* some of its lines, the rest arriving later.                              *)
send_times_out ==
    /\ call # None
    /\ rx = <<>>
    /\ \E lines \in Answers :
          /\ ChipRuns(Sent, lines)
          /\ \/ rx' \in {<<>>, <<lines>>} /\ apply_route_plan("Timeout")
             \/ \E n \in 1..Len(lines) :
                   /\ apply_route_plan(parse_command_response(SubSeq(lines, 1, n)))
                   /\ rx' = <<After(lines, n)>>

(* The caller drops the future while it waits for the answer.               *)
send_dropped ==
    /\ call # None
    /\ Len(rx) < MaxUnread
    /\ \E lines \in Answers : ChipRuns(Sent, lines) /\ rx' = Append(rx, lines)
    /\ call' = None /\ result' = None

(* Link::reset reads away what is pending. *)
link_reset ==
    /\ call = None
    /\ rx' = <<>>
    /\ UNCHANGED <<chip, call, result, opened>>

Next ==
    \/ \E route \in Routes, timeout \in Timeouts : apply_route(route, timeout)
    \/ send_answered
    \/ send_write_fails
    \/ send_times_out
    \/ send_dropped
    \/ link_reset

Spec == Init /\ [][Next]_vars

-----------------------------------------------------------------------------
(* Properties.                                                              *)

Transceivers(bus) ==
    IF bus = {} THEN "HS" ELSE IF "SwCanGmlan33" \in bus THEN "SW" ELSE "MS"

Identifiers ==
    UNION {{route.filters[i].id : i \in DOMAIN route.filters} : route \in Routes}

\* The chip is where the plan's route wants it: bus, bit rate, identifiers heard.
Realizes(plan) ==
    /\ chip.open
    /\ chip.transceiver = Transceivers(plan.route.bus)
    /\ chip.rate = plan.route.arbitration_bitrate_bps
    /\ \A t \in plan.timeout : chip.timeout = t
    /\ chip.auto <=> plan.route.filters = <<>>
    /\ ~chip.auto => \A id \in Identifiers :
            (\E f \in chip.pass : matches(f, id)) <=> accepts(plan.route.filters, id)

\* When apply_route returns its report, the chip is open on exactly the route
\* reported, whatever earlier calls left behind in it (another bus with the same
\* protocol number, another bit rate, half a filter list): every setting is made
\* again and every answer is looked at (send_stn_command).  This needs the link to
\* be free of unread answers when the call begins: nothing in send_stn_command
\* discards them, and the OK of an earlier command is then taken for this one's.
RouteAsReported ==
    (result # None /\ result.ok /\ result.sync) => Realizes(result.plan)

\* The chip is never open on half a route.  Wherever a plan stops (a refused
\* command, a full filter memory, a time-out, a dropped future), the chip stays
\* closed or stays on the route it was on, since the plan closes first and opens
\* last; again for plans that began with nothing unread on the link.
OpenIsWhole ==
    (chip.open /\ opened # None) => Realizes(opened)
=============================================================================
