------------------------------- MODULE Elm327 -------------------------------
(***************************************************************************)
(* The ELM327 adapter of crates/obd2-core/src/adapter/elm327.rs, one       *)
(* command exchange per step, against the ELM chip and the byte link it    *)
(* talks through.                                                          *)
(*                                                                         *)
(* The adapter keeps a cache (current_header) of a register that lives in  *)
(* the chip (the AT SH header) and skips the command when the cache says   *)
(* the register already holds the value.  Whether a request reaches the    *)
(* ECU it was meant for depends on the two staying equal through time-outs *)
(* on the link, answers that arrive late, chip resets (LV RESET, ERR94)    *)
(* and callers that drop the future they were waiting on.                  *)
(*                                                                         *)
(* Responses are abstracted to what the code tells apart in their text;    *)
(* adapter events are abstracted to the last queued one that makes the     *)
(* session change its connection state (see Session).                      *)
(***************************************************************************)
EXTENDS Naturals, Sequences

CONSTANTS
    Headers,      \* AT SH headers of the modules the caller may address
    Services,     \* request commands, up to the bytes their answers echo
    ProbeOrder,   \* the protocols of fallback_probe_order, in that order
    FaultModels,  \* the sets of faults the environment may show
    Buses         \* protocols the vehicle may speak (None: no vehicle)

None      == "none"
Default   == "default"      \* the header the chip uses after a reset
Broadcast == "broadcast"
J1939     == "j1939"        \* PhysicalAddress::J1939

(***************************************************************************)
(* Faults.  "reset": the chip answers a command with LV RESET or ERR94 and *)
(* has lost its settings.  "unknown": the chip answers "?".  "write": the  *)
(* write of a command fails before the chip sees it.  "fe": the same of    *)
(* AT FE, the first command of a recovery.  "lost": the chip runs the      *)
(* command and its answer never arrives.  "late": the answer arrives after *)
(* the read timed out.  "partial": the read times out in the middle of the *)
(* answer and returns what it has, which may or may not still be           *)
(* recognised; the rest arrives later.  "cancel": the caller drops the     *)
(* future while it waits for the answer.                                   *)
(***************************************************************************)
Faults == {"reset", "unknown", "write", "fe", "lost", "late", "partial", "cancel"}

Protocols == {ProbeOrder[i] : i \in DOMAIN ProbeOrder}
Can29     == {"Can29Bit500", "Can29Bit250"}
Can11     == {"Can11Bit500", "Can11Bit250"}
J1850     == {"J1850Vpw", "J1850Pwm"}
KLine     == {"Iso9141", "Kwp2000Fast", "Kwp2000Slow"}

BroadcastHeaders == {"686AF1", "7DF", "18DB33F1"}
Svc     == Services \cup {"0100"}
Targets == Headers \cup {Broadcast, J1939}

ASSUME HeadersAssumption ==
    Headers \cap (BroadcastHeaders \cup {None, Default, Broadcast, J1939}) = {}
ASSUME ServicesAssumption ==
    (Services \cup {"0100"}) \cap
        {"ATZ", "STI", "AT", "ATSP0", "ATSH", "ATRV", "ATDPN", "ATTP", "ATFE"} = {}
ASSUME ProbeAssumption ==
    /\ ProbeOrder \in Seq(Can11 \cup Can29 \cup J1850 \cup KLine)
    /\ Len(ProbeOrder) > 0
    /\ Buses \subseteq Protocols \cup {None}
ASSUME FaultAssumption == FaultModels \subseteq SUBSET Faults

VARIABLES
    \* the environment of a behaviour, chosen once
    env,             \* the faults it may show
    bus,             \* the protocol the vehicle speaks
    \* the chip and the link
    devHeader,       \* AT SH register
    devProto,        \* protocol setting: "auto" or a protocol
    rx,              \* answers that arrived and nobody has read
    \* Elm327Adapter
    current_header,
    protocol,        \* info.protocol
    initialized,
    event,           \* last queued event the session reacts to
    \* the running call: which command is awaited, and its locals
    pc, tgt, svc, idx, found, rec, got,
    \* the last completed call
    result

external == <<env, bus>>
device   == <<devHeader, devProto, rx>>
adapter  == <<current_header, protocol, initialized, event>>
locals   == <<pc, tgt, svc, idx, found, rec, got>>
vars     == <<external, device, adapter, locals, result>>

(***************************************************************************)
(* Responses                                                               *)
(***************************************************************************)
Plain(k)   == [kind |-> k, svc |-> None, from |-> None]
Data(s, h) == [kind |-> "DATA", svc |-> s, from |-> h]
OK      == Plain("OK")        \* contains "OK"
TEXT    == Plain("TEXT")      \* a banner, a voltage, a fragment: none of the words below
UNKNOWN == Plain("?")
NODATA  == Plain("NO DATA")   \* also UNABLE TO CONNECT, BUS INIT: ERROR
NEG     == Plain("7F")        \* negative response
BUS     == Plain("BUS ERROR") \* also BUS BUSY, DATA ERROR, <RX ERROR, STOPPED
CAN     == Plain("CAN ERROR")
ALERT   == Plain("LP ALERT")
RESET   == Plain("LV RESET")  \* also ERR94
ERR     == Plain("Err")       \* not a response: the exchange returned Err
Proto(p) == [kind |-> "PROTO", svc |-> None, from |-> p]

PlainKinds == {"OK", "TEXT", "?", "NO DATA", "7F", "BUS ERROR", "CAN ERROR", "LP ALERT", "LV RESET"}
Replies ==
    [kind : PlainKinds, svc : {None}, from : {None}]
    \cup [kind : {"DATA"}, svc : Svc, from : Headers \cup BroadcastHeaders \cup {Default}]
    \cup [kind : {"PROTO"}, svc : {None}, from : Protocols \cup {None}]
Outcomes == Replies \cup {ERR}

(***************************************************************************)
(* Commands.  rec > 0 while recover_from_adapter_fault runs inside the     *)
(* command at pc: 1 is AT FE, 2..8 the seven runtime defaults.             *)
(***************************************************************************)
InitScript == <<"ATZ", "STI", "AT", "AT", "AT", "AT", "AT", "ATSP0", "0100">>
RecoveryScript == <<"ATFE", "AT", "AT", "AT", "AT", "AT", "AT", "AT">>
PidBases == <<"0100", "0120", "0140", "0160">>

apply_protocol_runtime_policy(p) ==
    CASE p \in KLine -> 3
      [] p \in Can11 \cup Can29 -> 2
      [] OTHER -> 0

default_broadcast_header(p) ==
    CASE p \in J1850 \cup KLine -> "686AF1"
      [] p \in Can11 -> "7DF"
      [] p \in Can29 -> "18DB33F1"
      [] OTHER -> None

\* The logical target itself is sent and cached as the header.
bad_Want(t) == t

\* The header apply_target asks set_header for.
Want(t) == IF t = Broadcast THEN default_broadcast_header(protocol) ELSE t

Wire == IF rec > 0 THEN RecoveryScript[rec] ELSE
        CASE pc = "INIT"  -> InitScript[idx]
          [] pc = "PROBE" -> "0100"
          [] pc = "PIDS"  -> PidBases[idx]
          [] pc = "CMD"   -> svc
          [] pc = "POLICY" -> "AT"
          [] OTHER -> pc

(***************************************************************************)
(* The chip.                                                               *)
(***************************************************************************)
Reachable == bus # None /\ devProto \in {"auto", bus}

ChipReplies ==
    (IF "reset" \in env THEN {RESET} ELSE {})
    \cup (IF "unknown" \in env THEN {UNKNOWN} ELSE {})
    \cup CASE Wire \in {"ATZ", "STI"} -> {TEXT}
           [] Wire = "ATRV"  -> {TEXT, ALERT}
           [] Wire = "ATDPN" -> {Proto(bus)}
           [] Wire \in Svc \cup {"0120", "0140", "0160"} ->
                {NODATA, NEG, BUS, CAN, ALERT}
                \cup (IF Reachable /\ Wire \in Svc THEN {Data(Wire, devHeader)} ELSE {})
           [] OTHER -> {OK}

ChipRuns(r) ==
    /\ devHeader' = IF r = RESET \/ Wire = "ATZ" THEN Default
                    ELSE IF Wire = "ATSH" /\ r = OK THEN Want(tgt)
                    ELSE devHeader
    /\ devProto' = IF r = RESET \/ Wire \in {"ATZ", "ATSP0"} THEN "auto"
                   ELSE IF Wire = "ATTP" /\ r = OK THEN ProbeOrder[idx]
                   ELSE devProto

(***************************************************************************)
(* send_command_raw: write the command, read up to the prompt.  A read     *)
(* takes whatever arrived first, and nothing discards what is left over.   *)
(***************************************************************************)
send_command_raw(out) ==
    \/ \E r \in ChipReplies :
          /\ ChipRuns(r)
          /\ out = Head(Append(rx, r))
          /\ rx' = Tail(Append(rx, r))
    \/ /\ (IF Wire = "ATFE" THEN "fe" ELSE "write") \in env
       /\ out = ERR
       /\ UNCHANGED device
    \/ /\ rx = <<>>
       /\ \E r \in ChipReplies :
             /\ ChipRuns(r)
             /\ \/ "lost" \in env    /\ out = ERR  /\ rx' = <<>>
                \/ "late" \in env    /\ out = ERR  /\ rx' = <<r>>
                \/ "partial" \in env /\ out \in {TEXT, r} /\ rx' = <<TEXT>>

EventKinds == {"none", "fault", "ignition", "lost", "unsupported", "selected"}

record_response_events(out) ==
    CASE out \in {BUS, CAN} -> "fault"
      [] out = ALERT -> "ignition"
      [] out = RESET -> "lost"
      [] OTHER       -> event

(***************************************************************************)
(* Returning from the running call, and moving on inside it.               *)
(***************************************************************************)
Result(fn, ok, r) == [fn |-> fn, ok |-> ok, tgt |-> tgt, svc |-> svc, reply |-> r]
NoResult == [fn |-> None, ok |-> FALSE, tgt |-> None, svc |-> None, reply |-> ERR]

Return(fn, ok, r) ==
    /\ result' = Result(fn, ok, r)
    /\ pc' = "idle" /\ tgt' = None /\ svc' = None
    /\ idx' = 1 /\ found' = "Auto" /\ rec' = 0 /\ got' = ERR

Goto(label, i, p) ==
    /\ pc' = label /\ idx' = i /\ found' = p
    /\ rec' = 0 /\ got' = ERR
    /\ UNCHANGED <<tgt, svc, result>>

(***************************************************************************)
(* What each call does with the outcome of the command it awaits.  The     *)
(* event argument is the queue's summary after send_command's own events.  *)
(***************************************************************************)
set_header(out, e) ==
    /\ pc = "ATSH"
    /\ event' = e
    /\ IF out.kind = "OK"
       THEN current_header' = Want(tgt) /\ Goto("CMD", 1, "Auto")
       ELSE UNCHANGED current_header /\ Return("request", FALSE, out)
    /\ UNCHANGED <<protocol, initialized>>


\* The decoder finds a payload only behind the echo it expects.
decode_elm_response_payload_for_command(out) == out.kind = "DATA" /\ out.svc = svc

send_routed_command(out, e) ==
    /\ pc = "CMD"
    /\ event' = e
    /\ Return("request", decode_elm_response_payload_for_command(out), out)
    /\ UNCHANGED <<current_header, protocol, initialized>>

battery_voltage(out, e) ==
    /\ pc = "ATRV"
    /\ event' = e
    /\ Return("voltage", out # ERR, out)
    /\ UNCHANGED <<current_header, protocol, initialized>>

\* check_response_error: the answers it turns into an error.
check_response_error(out) == out.kind \in {"NO DATA", "CAN ERROR", "?", "7F"}

supported_pids(out, e) ==
    /\ pc = "PIDS"
    /\ event' = e
    /\ IF out = ERR \/ idx = Len(PidBases) \/ check_response_error(out)
       THEN Return("pids", TRUE, out)
       ELSE Goto("PIDS", idx + 1, "Auto")
    /\ UNCHANGED <<current_header, protocol, initialized>>

\* Anything but NO DATA passes for an answer of the vehicle.
bad_ProbeSucceeds(out) == out.kind # "NO DATA"

\* "4100" in the response to 0100.
ProbeSucceeds(out) == out.kind = "DATA" /\ out.svc = "0100"

\* The last character of the answer to ATDPN, read as a protocol code.  Any
\* other text may end in any character (ERR94, a status line after a data
\* line); OK and ? end in no code, and without an answer nothing is parsed.
parse_protocol_response(out) ==
    CASE out.kind = "PROTO" -> {IF out.from = None THEN "Auto" ELSE out.from}
      [] out \in {OK, UNKNOWN, ERR} -> {"Auto"}
      [] OTHER -> Protocols \cup {"Auto"}

\* The end of initialize: the report carries the drained events.
InitializeOk ==
    /\ initialized' = TRUE
    /\ event' = "none"
    /\ Return("init", TRUE, OK)

SelectProtocol(p) ==
    \/ /\ p = "Auto"
       /\ event' = "unsupported"
       /\ Return("init", FALSE, OK)
       /\ UNCHANGED <<protocol, initialized>>
    \/ /\ p # "Auto"
       /\ protocol' = p
       /\ IF apply_protocol_runtime_policy(p) = 0
          THEN InitializeOk
          ELSE event' = "selected" /\ Goto("POLICY", 1, p) /\ UNCHANGED initialized

InitConfigure(out, e) ==
    /\ pc = "INIT"
    /\ event' = e
    /\ IF out = ERR /\ InitScript[idx] # "STI" THEN Return("init", FALSE, out)
       ELSE IF idx < Len(InitScript) THEN Goto("INIT", idx + 1, "Auto")
       ELSE Goto(IF ProbeSucceeds(out) THEN "ATDPN" ELSE "ATTP", 1, "Auto")
    /\ UNCHANGED <<current_header, protocol, initialized>>

InitDetected(out) ==
    /\ pc = "ATDPN"
    /\ \E p \in parse_protocol_response(out) : SelectProtocol(p)
    /\ UNCHANGED current_header

\* probe_protocol: the answer to the ATTP command itself is not looked at.
probe_protocol(out, e) ==
    \/ /\ pc = "ATTP"
       /\ event' = e
       /\ IF out = ERR THEN Return("init", FALSE, out) ELSE Goto("PROBE", idx, "Auto")
       /\ UNCHANGED <<current_header, protocol, initialized>>
    \/ /\ pc = "PROBE"
       /\ UNCHANGED current_header
       /\ \/ /\ ProbeSucceeds(out)
             /\ SelectProtocol(ProbeOrder[idx])
          \/ /\ out # ERR /\ ~ProbeSucceeds(out) /\ idx = Len(ProbeOrder)
             /\ SelectProtocol("Auto")
          \/ /\ out # ERR /\ ~ProbeSucceeds(out) /\ idx < Len(ProbeOrder)
             /\ event' = e
             /\ Goto("ATTP", idx + 1, "Auto")
             /\ UNCHANGED <<protocol, initialized>>
          \/ /\ out = ERR
             /\ event' = e
             /\ Return("init", FALSE, out)
             /\ UNCHANGED <<protocol, initialized>>

InitPolicy(out) ==
    /\ pc = "POLICY"
    /\ \/ /\ out = ERR
          /\ Return("init", FALSE, out)
          /\ UNCHANGED <<event, initialized>>
       \/ /\ out # ERR /\ idx < apply_protocol_runtime_policy(found)
          /\ Goto("POLICY", idx + 1, found)
          /\ UNCHANGED <<event, initialized>>
       \/ /\ out # ERR /\ idx = apply_protocol_runtime_policy(found)
          /\ InitializeOk
    /\ UNCHANGED <<current_header, protocol>>

\* send_command returns out (ERR when the command or its recovery failed).
Deliver(out, e) ==
    \/ set_header(out, e)
    \/ send_routed_command(out, e)
    \/ battery_voltage(out, e)
    \/ supported_pids(out, e)
    \/ InitConfigure(out, e)
    \/ InitDetected(out)
    \/ probe_protocol(out, e)

(***************************************************************************)
(* Steps                                                                   *)
(***************************************************************************)
send_command ==
    /\ pc \notin {"idle", "POLICY"}
    /\ rec = 0
    /\ \E out \in Outcomes :
          /\ send_command_raw(out)
          /\ IF out = RESET
             THEN /\ rec' = 1 /\ got' = out
                  /\ event' = record_response_events(out)
                  /\ UNCHANGED <<current_header, protocol, initialized,
                                 pc, tgt, svc, idx, found, result>>
             ELSE Deliver(out, record_response_events(out))
    /\ UNCHANGED external

\* The recovery commands go through send_command, which starts over on a fault.
bad_recover_from_adapter_fault ==
    /\ rec > 0
    /\ \E out \in Outcomes :
          /\ send_command_raw(out)
          /\ \/ out = ERR /\ Deliver(ERR, event)
             \/ out # ERR /\ rec = Len(RecoveryScript) /\ Deliver(got, event)
             \/ /\ out # ERR /\ rec < Len(RecoveryScript)
                /\ rec' = IF out = RESET THEN 1 ELSE rec + 1
                /\ current_header' = None
                /\ UNCHANGED <<protocol, initialized, event,
                               pc, tgt, svc, idx, found, got, result>>
    /\ UNCHANGED external

\* The header is forgotten once the recovery is complete.
late_recover_from_adapter_fault ==
    /\ rec > 0
    /\ \E out \in Outcomes :
          /\ send_command_raw(out)
          /\ \/ out = ERR /\ Deliver(ERR, event)
             \/ out # ERR /\ rec = Len(RecoveryScript) /\ Deliver(got, event)
             \/ /\ out # ERR /\ rec < Len(RecoveryScript)
                /\ rec' = rec + 1
                /\ current_header' = IF rec' = Len(RecoveryScript) THEN None ELSE current_header
                /\ UNCHANGED <<protocol, initialized, event,
                               pc, tgt, svc, idx, found, got, result>>
    /\ UNCHANGED external

\* AT FE, then forget the header, then the runtime defaults; every command is
\* raw, so a second fault during recovery is not recovered from.
recover_from_adapter_fault ==
    /\ rec > 0
    /\ \E out \in Outcomes :
          /\ send_command_raw(out)
          /\ \/ out = ERR /\ Deliver(ERR, event)
             \/ out # ERR /\ rec = Len(RecoveryScript) /\ Deliver(got, event)
             \/ /\ out # ERR /\ rec < Len(RecoveryScript)
                /\ rec' = rec + 1
                /\ current_header' = None
                /\ UNCHANGED <<protocol, initialized, event,
                               pc, tgt, svc, idx, found, got, result>>
    /\ UNCHANGED external

PolicyCommand ==
    /\ pc = "POLICY"
    /\ \E out \in Outcomes : send_command_raw(out) /\ InitPolicy(out)
    /\ UNCHANGED external

(***************************************************************************)
(* Calls.  The session lets a call other than initialize through only once *)
(* the adapter is initialized (ensure_initialized), one at a time.         *)
(***************************************************************************)
Start(label, t, s) ==
    /\ pc' = label /\ tgt' = t /\ svc' = s
    /\ result' = NoResult
    /\ UNCHANGED <<idx, found, rec, got>>

\* initialize runs the whole script again on an initialized adapter.
bad_initialize ==
    /\ pc = "idle"
    /\ Start("INIT", None, None)
    /\ UNCHANGED <<external, device, adapter>>

initialize ==
    /\ pc = "idle"
    /\ IF initialized
       THEN event' = "none" /\ Return("init", TRUE, OK)
       ELSE Start("INIT", None, None) /\ UNCHANGED event
    /\ UNCHANGED <<external, device, current_header, protocol, initialized>>

\* apply_target: nothing to send when the cache already holds the header, or
\* for a broadcast when nothing was targeted since the last reset.
HeaderInPlace(t) ==
    \/ current_header = Want(t)
    \/ t = Broadcast /\ (current_header = None \/ default_broadcast_header(protocol) = None)

\* A broadcast leaves the header where it is.
bad_apply_target(t, s) ==
    /\ Start(IF t = Broadcast \/ HeaderInPlace(t) THEN "CMD" ELSE "ATSH", t, s)
    /\ UNCHANGED current_header

apply_target(t, s) ==
    /\ Start(IF HeaderInPlace(t) THEN "CMD" ELSE "ATSH", t, s)
    /\ current_header' = IF t = Broadcast /\ default_broadcast_header(protocol) = None
                         THEN None ELSE current_header

routed_request ==
    /\ pc = "idle" /\ initialized
    /\ \E t \in Targets, s \in Services :
          IF t = J1939
          THEN /\ result' = [fn |-> "request", ok |-> FALSE, tgt |-> t, svc |-> s, reply |-> ERR]
               /\ UNCHANGED <<locals, current_header>>
          ELSE apply_target(t, s)
    /\ UNCHANGED <<external, device, protocol, initialized, event>>

ReadVoltage ==
    /\ pc = "idle" /\ initialized
    /\ Start("ATRV", None, None)
    /\ UNCHANGED <<external, device, adapter>>

ReadSupportedPids ==
    /\ pc = "idle" /\ initialized
    /\ Start("PIDS", None, None)
    /\ UNCHANGED <<external, device, adapter>>

drain_events ==
    /\ pc = "idle" /\ event # "none"
    /\ event' = "none"
    /\ UNCHANGED <<external, device, current_header, protocol, initialized, locals, result>>

\* The caller drops the call's future after the command was written: the chip
\* runs it, its answer stays in the link, and nothing after the await runs.
Cancel ==
    /\ pc # "idle" /\ "cancel" \in env /\ rx = <<>>
    /\ \E r \in ChipReplies : ChipRuns(r) /\ rx' = <<r>>
    /\ pc' = "idle" /\ tgt' = None /\ svc' = None
    /\ idx' = 1 /\ found' = "Auto" /\ rec' = 0 /\ got' = ERR
    /\ result' = NoResult
    /\ UNCHANGED <<external, adapter>>

Init ==
    /\ env \in FaultModels /\ bus \in Buses
    /\ devHeader = Default /\ devProto = "auto" /\ rx = <<>>
    /\ current_header = None /\ protocol = "Auto" /\ initialized = FALSE /\ event = "none"
    /\ pc = "idle" /\ tgt = None /\ svc = None /\ idx = 1 /\ found = "Auto"
    /\ rec = 0 /\ got = ERR
    /\ result = NoResult

Progress == send_command \/ recover_from_adapter_fault \/ PolicyCommand

Next ==
    \/ Progress
    \/ initialize
    \/ routed_request
    \/ ReadVoltage
    \/ ReadSupportedPids
    \/ drain_events
    \/ Cancel

Spec == Init /\ [][Next]_vars

\* An awaited exchange always ends: the link answers, fails or times out, and
\* the executor polls the call again.
FairSpec == Spec /\ WF_vars(Progress)

(***************************************************************************)
(* Properties                                                              *)
(***************************************************************************)
Labels == {"idle", "ATSH", "CMD", "ATRV", "PIDS", "INIT", "ATDPN", "ATTP", "PROBE", "POLICY"}

TypeOK ==
    /\ env \in FaultModels /\ bus \in Buses
    /\ devHeader \in Headers \cup BroadcastHeaders \cup {Default}
    /\ devProto \in Protocols \cup {"auto"}
    /\ rx \in Seq(Replies) /\ Len(rx) <= 1
    /\ current_header \in Headers \cup BroadcastHeaders \cup {None}
    /\ protocol \in Protocols \cup {"Auto"}
    /\ initialized \in BOOLEAN
    /\ event \in EventKinds
    /\ pc \in Labels
    /\ tgt \in Headers \cup {Broadcast, None}
    /\ svc \in Services \cup {None}
    /\ idx \in Nat \ {0}
    /\ found \in Protocols \cup {"Auto"}
    /\ rec \in 0..Len(RecoveryScript)
    /\ got \in Outcomes
    /\ result.ok \in BOOLEAN

\* The ECUs a request sent under header h reaches are those t names.
Reaches(h, t) ==
    IF t = Broadcast THEN h \in {Default, default_broadcast_header(protocol)} ELSE h = t

\* The link keeps commands and answers in step, and AT FE reaches the chip: a
\* recovery may still break off at any of its other commands.
SafeLink == env \cap {"lost", "late", "partial", "cancel", "fe"} = {}

\* A request goes out on the bus only while the chip's header addresses the
\* request's target: the header cache of set_header and clear_targeting never
\* lets a request through under another module's header, not even after
\* resets whose recovery (recover_from_adapter_fault) failed half-way.
RequestReachesTarget == SafeLink /\ pc = "CMD" /\ rec = 0 => Reaches(devHeader, tgt)

\* A payload that routed_request returns was produced by the target it asked,
\* whatever resets and write failures happened before.
AnswerFromTarget ==
    SafeLink /\ result.fn = "request" /\ result.ok => Reaches(result.reply.from, result.tgt)

\* The same without an assumption on the link: what "Already set" in
\* set_header takes for granted, and what the recovery of a chip that has
\* reset itself is for.
AnswerAlwaysFromTarget ==
    result.fn = "request" /\ result.ok => Reaches(result.reply.from, result.tgt)

\* When the chip accepts every command it gets, initialize ends on the
\* protocol the vehicle speaks, by auto-detection or by the fallback probes.
SelectedProtocolIsVehicles ==
    initialized /\ env \subseteq {"write", "lost"} => protocol = bus

\* Once initialized the adapter stays on its protocol: calling initialize
\* again neither re-probes nor clears the flag.
InitializeOnce == [][initialized => initialized' /\ protocol' = protocol]_vars

\* Every call returns: the recovery of a faulty chip does not recover from
\* faults met during recovery, and the probe list is finite.
CallReturns == pc # "idle" ~> pc = "idle"
=============================================================================
