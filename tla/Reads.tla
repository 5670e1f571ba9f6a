-------------------------------- MODULE Reads -------------------------------
(***************************************************************************)
(* The reads of Session that take several requests (session/mod.rs) and    *)
(* the poll cycle with its event channel (session/poller.rs), on a vehicle *)
(* whose trouble codes change while it is read and whose answers may be    *)
(* missing.                                                                *)
(*                                                                         *)
(* An operation is a script of requests, each with what becomes of the     *)
(* operation when the vehicle has no data (NoData) and when the request    *)
(* fails otherwise.  The vehicle means something by an answer and encodes  *)
(* it; what it means is kept as history and compared with what is decoded. *)
(***************************************************************************)
EXTENDS Vehicle, FiniteSets

CONSTANTS
    Registry,    \* the specs of the SpecRegistry, a sequence
    Protocol,    \* the adapter's protocol
    Can,         \* the vehicle's DTC answers carry the count byte of CAN
    Ecus,        \* modules of the vehicle
    Codes,       \* trouble codes, as byte pairs
    Universal,   \* codes of the universal table
    Operations,  \* calls the application makes
    Meanings,    \* what the vehicle may mean, by kind of request
    Capacity,    \* of the event channel: 256 in the code
    MaxCalls, MaxFails, MaxChanges   \* bounds

ASSUME ReadsAssumption ==
    /\ Can \in BOOLEAN
    /\ Codes \subseteq (Byte \X Byte) \ {<<0, 0>>}
    /\ Capacity \in Nat \ {0}
    /\ {MaxCalls, MaxFails, MaxChanges} \subseteq Nat

VARIABLES
    spec,      \* the matched spec, a set of at most one
    call,      \* the operation under way: [op, script, i, got, emit]
    result,    \* of the last operation that returned
    faults,    \* the vehicle: codes by module and status
    chan,      \* events in the channel
    consumer,  \* "reading", "stalled" or "gone" (receiver dropped)
    running,   \* PollHandle: not stopped
    calls, fails, changes,
    seen,      \* history: codes present at some time during the operation
    kept,      \* history: codes present all the time since it began
    sent       \* history: events of the operation sent so far

vars == <<spec, call, result, faults, chan, consumer, running, calls, fails, changes,
          seen, kept, sent>>
vehicle == <<faults, changes, seen, kept>>

Idle == [op |-> [name |-> "idle"]]
Statuses == {"Stored", "Pending", "Permanent"}

----------------------------------------------------------------------------
(* Scripts *)

Step(kind, arg, to, noData, err) ==
    [kind |-> kind, arg |-> arg, to |-> to, noData |-> noData, err |-> err]

Broadcast == 0

DtcSteps(to, err) ==
    <<Step("dtc", "Stored", to, "skip", err), Step("dtc", "Pending", to, "skip", "skip"),
      Step("dtc", "Permanent", to, "skip", "skip")>>

read_pids(pids) == Map(pids, LAMBDA p : Step("pid", p, Broadcast, "skip", "fail"))

bad_append_module_dtcs(m) == DtcSteps(m, "fail")
append_module_dtcs(m) == DtcSteps(m, "skip")

(* Only the broadcast read of stored codes may end the scan. *)
read_all_dtcs ==
    DtcSteps(Broadcast, "fail") \o Concat(Map(dtc_scan_modules(Protocol, spec), append_module_dtcs))

read_vehicle_info ==
    <<Step("vin", 2, Broadcast, "fail", "fail"), Step("calid", 4, Broadcast, "skip", "skip"),
      Step("cvn", 6, Broadcast, "skip", "skip"), Step("ecu", 10, Broadcast, "skip", "skip")>>

read_all_o2_monitoring(tids, sensors) ==
    Concat(Map(tids, LAMBDA t : Map(sensors, LAMBDA s : Step("o2", <<t, s>>, Broadcast, "skip", "fail"))))

(* A failed read is an event of the poll cycle; voltage is best effort. *)
execute_poll_cycle(pids, voltage) ==
    Map(pids, LAMBDA p : Step("pid", p, Broadcast, "skip", "event"))
        \o (IF voltage THEN <<Step("voltage", 0, Broadcast, "skip", "skip")>> ELSE <<>>)

(* The query of supported PIDs is one step here, several in Session. *)
identify_vehicle ==
    <<Step("vin", 2, Broadcast, "fail", "fail"), Step("supported", 0, Broadcast, "skip", "skip")>>

Single(kind, arg, to) == <<Step(kind, arg, to, "fail", "fail")>>

Script(op) ==
    CASE op.name = "read_pids" -> read_pids(op.pids)
      [] op.name = "read_all_dtcs" -> read_all_dtcs
      [] op.name = "read_dtcs_on_module" -> Single("dtc", "Stored", op.module)
      [] op.name = "read_vehicle_info" -> read_vehicle_info
      [] op.name = "identify_vehicle" -> identify_vehicle
      [] op.name = "read_all_o2_monitoring" -> read_all_o2_monitoring(op.tids, op.sensors)
      [] op.name = "read_readiness" -> Single("readiness", 1, Broadcast)
      [] op.name = "read_test_results" -> Single("tests", op.tid, Broadcast)
      [] op.name = "read_enhanced" -> Single("enhanced", op.did, op.module)
      [] op.name = "poll" -> execute_poll_cycle(op.pids, op.voltage)

----------------------------------------------------------------------------
(* The vehicle's answers *)

SumOfBits(S) == SumSet({2^b : b \in S})

DtcPayload(m, status) ==
    LET codes == SetToSeq(faults[m][status])
    IN  (IF Can THEN <<Len(codes)>> ELSE <<>>) \o Concat(codes) \o <<0, 0>>

(* What the vehicle may mean by an answer to step s, and the bytes of it. *)
Meant(s) ==
    IF s.kind # "dtc" THEN Meanings[s.kind]
    ELSE {IF s.to = Broadcast THEN SetToSeq(Ecus) ELSE <<s.to>>}

Encode(s, m) ==
    CASE s.kind = "pid" -> IF response_bytes(s.arg) = 1 THEN <<m + 40>> ELSE ToBe16(4 * m)
      [] s.kind = "dtc" -> Concat(Map(m, LAMBDA e : DtcPayload(e, s.arg)))
      [] s.kind = "vin" -> <<1>> \o m.vin
      [] s.kind \in {"calid", "ecu"} -> m \o <<0>>
      [] s.kind \in {"cvn", "o2", "enhanced"} -> m
      [] s.kind = "tests" ->
            Concat(Map(m, LAMBDA t : <<t.tid, 1>> \o ToBe16(t.value) \o ToBe16(t.min) \o ToBe16(t.max)))
      [] s.kind = "readiness" ->
            <<m.count + (IF m.mil THEN 128 ELSE 0), IF m.diesel THEN 8 ELSE 0,
              SumOfBits(m.supported), SumOfBits(m.incomplete)>>
      [] s.kind \in {"voltage", "supported"} -> m

----------------------------------------------------------------------------
(* What the session makes of an answer *)

Decode(s, data) ==
    CASE s.kind = "pid" -> parse_pid(s.arg, data)
      [] s.kind = "dtc" -> Ok(decode_dtc_bytes(data, s.arg, s.to))
      [] s.kind = "vin" -> read_vin(data)
      [] s.kind \in {"calid", "ecu"} -> Ok(Printable(data))
      [] s.kind = "cvn" -> Ok(IF Len(data) >= 4 THEN SubSeq(data, 1, 4) ELSE <<>>)
      [] s.kind = "o2" -> Ok(IF Len(data) >= 2 THEN <<Be16(data)>> ELSE <<>>)
      [] s.kind = "tests" -> Ok(decode_test_results(data))
      [] s.kind = "readiness" -> decode_readiness(data)
      [] s.kind = "enhanced" -> Ok(decode_enhanced_value(spec, s.arg, s.to, data))
      [] s.kind \in {"voltage", "supported"} -> Ok(data)

(* The override given to the poll cycle comes before the session's spec. *)
PollAlert(op, pid, v) ==
    IF v.kind # "scalar" THEN {}
    ELSE LET over == evaluate_pid_threshold(op.override, pid, v)
         IN  IF over # {} THEN over ELSE evaluate_pid_threshold(spec, pid, v)

Events(op, s, r) ==
    IF op.name # "poll" THEN <<>>
    ELSE IF s.kind = "voltage" THEN IF r.ok THEN <<[kind |-> "Voltage"]>> ELSE <<>>
    ELSE IF ~r.ok THEN <<[kind |-> "Error", pid |-> s.arg]>>
    ELSE <<[kind |-> "Reading", pid |-> s.arg, value |-> r.v]>>
         \o SetToSeq({[kind |-> "Alert", alert |-> a] : a \in PollAlert(op, s.arg, r.v)})

Assemble(op, got) ==
    IF op.name = "read_all_dtcs"
    THEN enrich_dtcs(dedup_dtcs(Concat(Map(got, LAMBDA g : g.v))), spec, Universal)
    ELSE Map(got, LAMBDA g : g.v)

----------------------------------------------------------------------------
(* Actions *)

NoFaults == [m \in Ecus |-> [status \in Statuses |-> {}]]
OneFault == {[NoFaults EXCEPT ![m][status] = {code}] : m \in Ecus, status \in Statuses, code \in Codes}

(* Codes come and go between calls; only the reads of codes tell. *)
FaultsAt(op) ==
    IF op.name \in {"read_all_dtcs", "read_dtcs_on_module"} THEN OneFault \cup {NoFaults} ELSE {NoFaults}

Begin(op) ==
    /\ call = Idle /\ calls < MaxCalls
    /\ op.name = "poll" => running
    /\ calls' = calls + 1
    /\ call' = [op |-> op, script |-> Script(op), i |-> 1, got |-> <<>>, emit |-> <<>>]
    /\ result' = Idle
    /\ faults' \in FaultsAt(op)
    /\ seen' = faults' /\ kept' = faults' /\ sent' = <<>>
    /\ UNCHANGED <<spec, chan, consumer, running, fails, changes>>

Now == call.script[call.i]

Waiting == call # Idle /\ call.emit = <<>> /\ call.i <= Len(call.script)

Continue(got, emit) ==
    /\ call' = [call EXCEPT !.i = @ + 1, !.got = got, !.emit = emit]
    /\ UNCHANGED result

Fail ==
    /\ call' = Idle
    /\ result' = [op |-> call.op, r |-> Err, got |-> call.got]

(* A request fails, or its answer does not parse. *)
OnError(how) ==
    CASE how = "skip" -> Continue(call.got, <<>>)
      [] how = "fail" -> Fail
      [] how = "event" -> Continue(call.got, Events(call.op, Now, Err))

Answered ==
    /\ Waiting
    /\ \E m \in Meant(Now) :
            LET r == Decode(Now, Encode(Now, m))
            IN  IF r.ok THEN Continue(Append(call.got, [step |-> Now, v |-> r.v, meant |-> m]),
                                      Events(call.op, Now, r))
                ELSE OnError(Now.err)
    /\ UNCHANGED <<spec, vehicle, chan, consumer, running, calls, fails, sent>>

NoData ==
    /\ Waiting
    /\ fails < MaxFails /\ fails' = fails + 1
    /\ OnError(Now.noData)
    /\ UNCHANGED <<spec, vehicle, chan, consumer, running, calls, sent>>

RequestFails ==
    /\ Waiting
    /\ fails < MaxFails /\ fails' = fails + 1
    /\ OnError(Now.err)
    /\ UNCHANGED <<spec, vehicle, chan, consumer, running, calls, sent>>

bad_SendEvent ==
    /\ call # Idle /\ call.emit # <<>>
    /\ Len(chan) < Capacity
    /\ chan' = Append(chan, Head(call.emit))
    /\ sent' = Append(sent, Head(call.emit))
    /\ call' = [call EXCEPT !.emit = Tail(@)]
    /\ UNCHANGED <<spec, result, vehicle, consumer, running, calls, fails>>

(* event_tx.send: waits for room, fails at once when the receiver is gone. *)
SendEvent ==
    /\ call # Idle /\ call.emit # <<>>
    /\ consumer = "gone" \/ Len(chan) < Capacity
    /\ chan' = IF consumer = "gone" THEN chan ELSE Append(chan, Head(call.emit))
    /\ sent' = Append(sent, Head(call.emit))
    /\ call' = [call EXCEPT !.emit = Tail(@)]
    /\ UNCHANGED <<spec, result, vehicle, consumer, running, calls, fails>>

(* The last answer is in: identification also matches the spec. *)
Return ==
    /\ call # Idle /\ call.emit = <<>> /\ call.i > Len(call.script)
    /\ call' = Idle
    /\ result' = [op |-> call.op, r |-> Ok(Assemble(call.op, call.got)), got |-> call.got]
    /\ spec' = IF call.op.name = "identify_vehicle" THEN match_vin(Registry, call.got[1].v) ELSE spec
    /\ UNCHANGED <<vehicle, chan, consumer, running, calls, fails, sent>>

stop ==
    /\ running /\ call.op.name = "poll"
    /\ running' = FALSE
    /\ UNCHANGED <<spec, call, result, vehicle, chan, consumer, calls, fails, sent>>

Receive ==
    /\ consumer = "reading" /\ chan # <<>>
    /\ chan' = Tail(chan)
    /\ UNCHANGED <<spec, call, result, vehicle, consumer, running, calls, fails, sent>>

(* The consumer stops reading for good, or drops the receiver. *)
ConsumerLeaves ==
    /\ consumer = "reading" /\ call.op.name = "poll"
    /\ consumer' \in {"stalled", "gone"}
    /\ chan' = IF consumer' = "gone" THEN <<>> ELSE chan
    /\ UNCHANGED <<spec, call, result, vehicle, running, calls, fails, sent>>

(* A code appears in a module or goes away while codes are read. *)
Change(m, status, code) ==
    /\ call # Idle /\ call.op.name = "read_all_dtcs"
    /\ changes < MaxChanges /\ changes' = changes + 1
    /\ faults' = [faults EXCEPT ![m][status] = IF code \in @ THEN @ \ {code} ELSE @ \cup {code}]
    /\ seen' = [seen EXCEPT ![m][status] = @ \cup faults'[m][status]]
    /\ kept' = [kept EXCEPT ![m][status] = @ \cap faults'[m][status]]
    /\ UNCHANGED <<spec, call, result, chan, consumer, running, calls, fails, sent>>

Init ==
    /\ spec = {} /\ call = Idle /\ result = Idle
    /\ faults = NoFaults
    /\ chan = <<>> /\ consumer = "reading" /\ running = TRUE
    /\ calls = 0 /\ fails = 0 /\ changes = 0
    /\ seen = faults /\ kept = faults /\ sent = <<>>

Next ==
    \/ \E op \in Operations : Begin(op)
    \/ Answered \/ NoData \/ RequestFails
    \/ SendEvent
    \/ Return
    \/ stop
    \/ Receive
    \/ ConsumerLeaves
    \/ \E m \in Ecus, status \in Statuses, code \in Codes : Change(m, status, code)

(* The task that runs the operation is scheduled and every request ends    *)
(* (the adapter's reads time out); a consumer that reads keeps reading.    *)
Fairness ==
    /\ WF_vars(Answered \/ NoData \/ RequestFails) /\ WF_vars(SendEvent) /\ WF_vars(Return)
    /\ WF_vars(Receive)

Spec == Init /\ [][Next]_vars /\ Fairness

----------------------------------------------------------------------------
(* Properties *)

Returned(name) == result # Idle /\ result.op.name = name /\ result.r.ok

(* The code of a byte pair, read off its number. *)
CodeOf(p) ==
    LET n == 256 * p[1] + p[2]
    IN  <<n \div 16384, (n \div 4096) % 4, (n \div 256) % 16, (n \div 16) % 16, n % 16>>

(* Every code a scan reports was present in the module it is reported for  *)
(* (any module, for a broadcast) at some time during the scan              *)
(* (read_all_dtcs, decode_dtc_bytes).                                      *)
OnlyRealCodes ==
    Returned("read_all_dtcs") =>
        \A i \in 1..Len(result.r.v) :
            LET d == result.r.v[i]
                from == IF d.module = Broadcast THEN Ecus ELSE {d.module}
            IN  \E m \in from : \E p \in seen[m][d.status] : d.code = CodeOf(p)

(* A scan misses nothing and repeats nothing, whatever fails in it         *)
(* (read_all_dtcs, append_module_dtcs, dedup_dtcs): a code present all the *)
(* time in a module that answered is reported for that module, no entry    *)
(* comes twice, and the scan ends with an error only when the broadcast    *)
(* read of stored codes failed.                                            *)
ScanComplete ==
    /\ Returned("read_all_dtcs") =>
        /\ \A g \in ToSet(result.got) : g.step.kind = "dtc" =>
              \A m \in ToSet(g.meant) : \A p \in kept[m][g.step.arg] :
                  \E d \in ToSet(result.r.v) :
                      d.code = CodeOf(p) /\ d.status = g.step.arg /\ d.module = g.step.to
        /\ \A i, j \in 1..Len(result.r.v) :
              (\A f \in {"code", "module", "status"} : result.r.v[i][f] = result.r.v[j][f]) => i = j
    /\ result # Idle /\ result.op.name = "read_all_dtcs" /\ ~result.r.ok => result.got = <<>>

SameAsMeant(g) ==
    CASE g.step.kind = "pid" -> g.v.num = g.meant * g.v.den
      [] g.step.kind = "vin" -> g.v = g.meant.vin
      [] g.step.kind = "tests" ->
            g.v = Map(g.meant, LAMBDA t : [tid |-> t.tid, value |-> t.value, min |-> t.min,
                                           max |-> t.max, passed |-> t.value \in t.min..t.max])
      [] g.step.kind = "readiness" ->
            /\ g.v.mil = g.meant.mil /\ g.v.count = g.meant.count /\ g.v.diesel = g.meant.diesel
            /\ g.v.supported = g.meant.supported
            /\ g.v.complete \cap g.meant.incomplete = {}
            /\ g.meant.supported \ g.meant.incomplete \subseteq g.v.complete
      [] OTHER -> TRUE

(* What a read returns is what the vehicle meant (parse_pid, read_vin,     *)
(* decode_readiness, decode_test_results), and the spec matched on         *)
(* identification is the one made for this vehicle, if there is one.       *)
ReadAsMeant ==
    result # Idle /\ result.r.ok =>
        /\ \A g \in ToSet(result.got) : SameAsMeant(g)
        /\ result.op.name = "identify_vehicle" =>
              {s.name : s \in spec} = result.got[1].meant.spec

Beyond(t, v) ==
    LET above(limits) == \E l \in limits : v.num >= l * v.den
        below(limits) == \E l \in limits : v.num <= l * v.den
    IN  [critical |-> above(t.critical_high) \/ below(t.critical_low),
         warning |-> above(t.warning_high) \/ below(t.warning_low)]

LimitsOf(specs, pid) ==
    UNION {{t \in ToSet(s.thresholds) : t.name \in pid_threshold_name(pid)} : s \in specs}

LevelDue(specs, pid, v) ==
    IF \E t \in LimitsOf(specs, pid) : Beyond(t, v).critical THEN {"Critical"}
    ELSE IF \E t \in LimitsOf(specs, pid) : Beyond(t, v).warning THEN {"Warning"} ELSE {}

(* Every reading beyond a limit is followed at once by its alert, of the   *)
(* highest level that applies, and no other alert is sent                  *)
(* (execute_poll_cycle, Threshold::evaluate).  Limits are those of the     *)
(* override where it raises an alert, else of the matched spec.            *)
AlertsExact ==
    call # Idle /\ call.op.name = "poll" =>
        LET events == sent \o call.emit
            due(e) == IF e.value.kind # "scalar" THEN {}
                      ELSE LET first == LevelDue(call.op.override, e.pid, e.value)
                           IN  IF first # {} THEN first ELSE LevelDue(spec, e.pid, e.value)
            next(i) == IF i < Len(events) /\ events[i + 1].kind = "Alert"
                       THEN {events[i + 1].alert.level} ELSE {}
        IN  \A i \in 1..Len(events) :
                /\ events[i].kind = "Reading" => next(i) = due(events[i])
                /\ events[i].kind = "Alert" => i > 1 /\ events[i - 1].kind = "Reading"

(* A poll cycle ends, whatever fails in it, unless the channel is full and *)
(* its consumer has stopped reading without dropping the receiver          *)
(* (execute_poll_cycle awaits send); so a stop takes effect.               *)
PollCycleEnds ==
    (call.op.name = "poll") ~>
        (call = Idle \/ (consumer = "stalled" /\ Len(chan) = Capacity))
=============================================================================
