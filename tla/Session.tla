------------------------------ MODULE Session -------------------------------
(***************************************************************************)
(* The session of crates/obd2-core/src/session/mod.rs: lifecycle, routing, *)
(* the single-flight guard, caches and the diagnostic session state, over  *)
(* an adapter of which only the contract matters here: a call ends with a  *)
(* result and with queued events (Elm327 models one such adapter).         *)
(*                                                                         *)
(* The session is used through &mut self, so calls do not overlap; a call  *)
(* is nevertheless several steps, because the caller may drop its future   *)
(* at any await and because the ECUs move on meanwhile.                    *)
(***************************************************************************)
EXTENDS Naturals, FiniteSets

CONSTANTS
    Modules,      \* module ids (each stands for its physical address too)
    Vehicles,     \* vehicles the adapter may be plugged into
    BusModules,   \* modules its matched spec has on the active bus (none: no spec)
    FaultModels   \* the sets of faults the environment may show

None      == "none"
Broadcast == "broadcast"

(***************************************************************************)
(* Faults.  "lost": the ECU acts on a request and its answer is lost.      *)
(* "s3": an ECU leaves its diagnostic session by itself.  "swap": the      *)
(* adapter is moved to another vehicle.  "raw": the caller ends a module's *)
(* diagnostic session with a raw request.  "cancel": the caller drops the  *)
(* future of a call.                                                       *)
(***************************************************************************)
Faults == {"lost", "s3", "swap", "raw", "cancel"}

ASSUME ModulesAssumption == {None, Broadcast} \cap (Modules \cup Vehicles) = {}
ASSUME SpecAssumption == BusModules \in [Vehicles -> SUBSET Modules]
ASSUME FaultAssumption == FaultModels \subseteq SUBSET Faults

VARIABLES
    \* the environment
    env, car,            \* faults, and the vehicle at the connector
    ecu,                 \* the modules whose ECU is security-unlocked
    queued,              \* last undrained adapter event the session reacts to
    \* Session
    conn,                \* connection_state
    initialized, in_flight,
    diag, unlocked,      \* diagnostic_state
    profile,             \* vehicle of the current profile, or None
    profilePids,         \* vehicle whose PIDs the profile lists, or None
    discovery,           \* modules of the discovery profile
    pids,                \* vehicle whose PIDs supported_pids_cache holds, or None
    visible,             \* visible_ecus, and whether the module ever answered
    \* the running call
    call, op, mod, want, part,
    last,                \* result of the last completed call
    lastEx               \* result of the last exchange with the adapter

external == <<env, car, ecu>>
identity == <<profile, profilePids, pids>>
core     == <<conn, initialized, diag, unlocked, identity, discovery>>
running  == <<call, op, mod, want, part>>
vars     == <<external, queued, core, in_flight, visible, running, last, lastEx>>

ConnectionStates == {"AdapterPresent", "ProtocolNegotiating", "Connected", "IgnitionOff",
                     "UnsupportedProtocol", "Disconnected", "Error"}
CallResults == {"none", "ok", "err", "unsupported", "security", "busy", "not_found", "cancelled"}
DiagSessions == {"Default", "Extended", "Programming"}
Faulty       == {"fault", "lost", "ignition"}
Events       == Faulty \cup {"none"}

\* Calls addressed to a module, to the whole bus, and to an address directly.
\* "read" stands for the broadcast reads (PIDs, DTCs, VIN, monitors), "module"
\* for the one-request module calls without a gate (enhanced reads, clearing a
\* module's DTCs, actuator_release, tester_present).
ModuleOps == {"module", "enter", "security", "actuate", "end"}
Ops == ModuleOps \cup {"initialize", "read", "raw_physical", "voltage", "supported", "identify"}

\* One PID base too many is queried.
bad_PidBases == 5
PidBases     == 4      \* PIDs 00, 20, 40, 60

(***************************************************************************)
(* Small steps of the code                                                 *)
(***************************************************************************)
\* resolve_discovery_profile: the modules a request may be routed to.
resolve_modules(p) == IF p = None THEN {} ELSE BusModules[p]

\* apply_adapter_events, on the last event that matters.
apply_adapter_events(e) ==
    CASE e = "fault"       -> "Error"
      [] e = "lost"        -> "Disconnected"
      [] e = "ignition"    -> "IgnitionOff"
      [] e = "unsupported" -> "UnsupportedProtocol"
      [] e = "selected"    -> "Connected"
      [] OTHER             -> conn

\* A lost adapter stays lost.
bad_mark_connection_active_if_recovered(c) ==
    IF c \in {"IgnitionOff", "Error"} THEN "Connected" ELSE c

mark_connection_active_if_recovered(c) ==
    IF c \in {"IgnitionOff", "Disconnected", "Error"} THEN "Connected" ELSE c

\* The address is recorded when the request is sent, answered or not.
record_visible_target(m) ==
    [a \in Modules |-> IF a = m /\ visible[a] = "unseen" THEN "silent" ELSE visible[a]]

Return(r) ==
    /\ call' = "idle" /\ part' = 1
    /\ last' = r
    /\ want' = None
    /\ UNCHANGED <<op, mod>>

\* The first request of a call, or the next one of a call with several.
Request(p) ==
    /\ call' = "send" /\ part' = p
    /\ UNCHANGED <<op, mod, want, last>>

(***************************************************************************)
(* A call starts; every call but initialize goes through                   *)
(* ensure_initialized.                                                     *)
(***************************************************************************)
Call(o, m, s) ==
    /\ call = "idle"
    /\ op' = o /\ mod' = m /\ want' = s /\ part' = 1 /\ last' = "none"
    /\ IF o = "initialize" \/ ~initialized
       THEN call' = "init" /\ conn' = "ProtocolNegotiating" /\ lastEx' = "none"
       ELSE call' = "send" /\ UNCHANGED <<conn, lastEx>>
    /\ UNCHANGED <<external, queued, in_flight, visible,
                   initialized, diag, unlocked, identity, discovery>>

CallModule    == \E m \in Modules, o \in ModuleOps \ {"enter"} : Call(o, m, None)
CallEnter     == \E m \in Modules, s \in DiagSessions : Call("enter", m, s)
CallPhysical  == \E m \in Modules : Call("raw_physical", m, None)
CallBroadcast == \E o \in Ops \ (ModuleOps \cup {"raw_physical"}) : Call(o, Broadcast, None)

(***************************************************************************)
(* initialize, after the adapter answered.  The report of success carries  *)
(* the adapter's events; an adapter that fails keeps them queued.          *)
(***************************************************************************)
initialize ==
    /\ call = "init"
    /\ lastEx' = "none"
    /\ \/ /\ initialized' = TRUE
          /\ queued' = "none"
          /\ conn' = "Connected"
          /\ discovery' = resolve_modules(profile)
          /\ IF op = "initialize" THEN Return("ok") ELSE Request(1)
       \/ /\ ~initialized
          /\ \/ queued' = "unsupported" /\ Return("unsupported")
             \/ queued' \in Faulty \cup {queued} /\ Return("err")
          /\ UNCHANGED <<conn, initialized, discovery>>
    /\ UNCHANGED <<external, in_flight, visible, diag, unlocked, identity>>

(***************************************************************************)
(* send_request up to its await, with what the callers check before it.    *)
(***************************************************************************)
\* An actuator command needs an extended session, on whatever module.
bad_SecurityGate == op = "actuate" => diag = "Extended"

SecurityGate == op = "actuate" => diag = "Extended" /\ mod \in unlocked

Routable == op \in ModuleOps => mod \in discovery

\* The guard stays taken when the target cannot be resolved.
bad_send_request ==
    /\ call = "send"
    /\ \/ /\ op = "supported" /\ pids # None
          /\ Return("ok") /\ UNCHANGED <<in_flight, visible>>
       \/ /\ in_flight
          /\ Return("busy") /\ UNCHANGED <<in_flight, visible>>
       \/ /\ SecurityGate /\ ~in_flight
          /\ in_flight' = TRUE
          /\ IF Routable
             THEN /\ call' = "wait" /\ UNCHANGED <<op, mod, want, part, last>>
                  /\ visible' = record_visible_target(mod)
             ELSE Return("not_found") /\ UNCHANGED visible
    /\ UNCHANGED <<external, queued, core, lastEx>>

send_request ==
    /\ call = "send"
    /\ IF op = "supported" /\ pids # None
       THEN Return("ok") /\ UNCHANGED <<in_flight, visible>>
       ELSE IF ~SecurityGate THEN Return("security") /\ UNCHANGED <<in_flight, visible>>
       ELSE IF in_flight     THEN Return("busy") /\ UNCHANGED <<in_flight, visible>>
       ELSE IF ~Routable     THEN Return("not_found") /\ UNCHANGED <<in_flight, visible>>
       ELSE /\ in_flight' = TRUE
            /\ visible' = record_visible_target(mod)
            /\ call' = "wait"
            /\ UNCHANGED <<op, mod, want, part, last>>
    /\ UNCHANGED <<external, queued, core, lastEx>>

(***************************************************************************)
(* The answer.  "ok" is a usable positive answer; "zero" and "empty" are   *)
(* seeds, "short" a payload shorter than the caller needs; "nodata" and    *)
(* "err" are the adapter's errors.                                         *)
(***************************************************************************)
Answers ==
    CASE op = "security" /\ part = 1 ->
           {"ok", "empty", "nodata", "err"} \cup (IF mod \in ecu THEN {"zero"} ELSE {})
      [] op = "actuate" -> {"nodata", "err"} \cup (IF mod \in ecu THEN {"ok"} ELSE {})
      [] op \in {"read", "supported", "identify"} -> {"ok", "short", "nodata", "err"}
      [] OTHER -> {"ok", "nodata", "err"}

\* A module locks again whenever its diagnostic session changes.
EcuRuns(r) ==
    IF r = "ok" \/ (r = "err" /\ "lost" \in env)
    THEN CASE op \in {"enter", "end"} -> ecu \ {mod}
           [] op = "raw_physical" /\ "raw" \in env -> ecu \ {mod}
           [] op = "security" /\ part = 2 -> ecu \cup {mod}
           [] OTHER -> ecu
    ELSE ecu

ExchangeOk(r) == r \in {"ok", "zero", "empty", "short"}

(***************************************************************************)
(* What each call does with the result of its exchange.                    *)
(***************************************************************************)
\* The calls of one request that keep nothing.
PlainResult(r) ==
    /\ op \in {"read", "module", "raw_physical", "voltage", "actuate"}
    /\ Return(IF r = "ok" THEN "ok" ELSE "err")
    /\ UNCHANGED <<diag, unlocked, identity>>

enter_diagnostic_session(r) ==
    /\ op = "enter"
    /\ IF r = "ok"
       THEN diag' = want /\ unlocked' = {} /\ Return("ok")
       ELSE UNCHANGED <<diag, unlocked>> /\ Return("err")
    /\ UNCHANGED identity

end_diagnostic_session(r) ==
    /\ op = "end"
    /\ IF r = "ok"
       THEN diag' = "Default" /\ unlocked' = {} /\ Return("ok")
       ELSE UNCHANGED <<diag, unlocked>> /\ Return("err")
    /\ UNCHANGED identity

\* Seed, then key.  A zero seed ends the call without touching the state.
security_access(r) ==
    /\ op = "security"
    /\ \/ part = 1 /\ r = "ok" /\ Request(2) /\ UNCHANGED <<diag, unlocked>>
       \/ part = 1 /\ r = "zero" /\ Return("ok") /\ UNCHANGED <<diag, unlocked>>
       \/ /\ part = 2 /\ r = "ok"
          /\ unlocked' = (IF diag = "Extended" THEN unlocked ELSE {}) \cup {mod}
          /\ diag' = "Extended"
          /\ Return("ok")
       \/ r \notin {"ok", "zero"} /\ Return("err") /\ UNCHANGED <<diag, unlocked>>
    /\ UNCHANGED identity

\* A base that gave no data is asked again.
bad_query_supported_pids(r, base) ==
    IF r = "nodata" THEN base ELSE IF r = "ok" /\ base < PidBases THEN base + 1 ELSE 0

\* The base the loop of query_supported_pids asks next; 0 when it ends.
query_supported_pids(r, base) == IF r = "ok" /\ base < PidBases THEN base + 1 ELSE 0

supported_pids(r) ==
    /\ op = "supported"
    /\ IF r = "err" THEN UNCHANGED pids /\ Return("err")
       ELSE IF query_supported_pids(r, part) > 0
       THEN UNCHANGED pids /\ Request(query_supported_pids(r, part))
       ELSE pids' = car /\ Return("ok")
    /\ UNCHANGED <<diag, unlocked, profile, profilePids>>

\* identify_vehicle: the VIN (part 1), then supported_pids (parts 2 to 5),
\* from the cache when it is filled, and with its failure ignored.
identify_vehicle(r) ==
    /\ op = "identify"
    /\ LET base == query_supported_pids(r, part - 1)
           Identified(p) == profile' = car /\ profilePids' = p /\ Return("ok")
       IN  \/ /\ part = 1 /\ r # "ok"
              /\ Return("err") /\ UNCHANGED identity
           \/ /\ part = 1 /\ r = "ok" /\ pids # None
              /\ Identified(pids) /\ UNCHANGED pids
           \/ /\ part = 1 /\ r = "ok" /\ pids = None
              /\ Request(2) /\ UNCHANGED identity
           \/ /\ part > 1 /\ r = "err"
              /\ Identified(None) /\ UNCHANGED pids
           \/ /\ part > 1 /\ r # "err" /\ base > 0
              /\ Request(base + 1) /\ UNCHANGED identity
           \/ /\ part > 1 /\ r # "err" /\ base = 0
              /\ pids' = car /\ Identified(car)
    /\ UNCHANGED <<diag, unlocked>>

\* The discovery profile is refreshed with the events only, before the new
\* vehicle profile is stored.
bad_refresh_discovery_profile(p) == resolve_modules(profile)

\* refresh_discovery_profile runs after the events of every exchange, and
\* again when identify_vehicle has stored a profile.
refresh_discovery_profile(p) == resolve_modules(p)

(***************************************************************************)
(* The exchange ends: send_request, battery_voltage and                    *)
(* raw_physical_request after their await, and the caller's continuation.  *)
(***************************************************************************)
Answer ==
    /\ call = "wait"
    /\ \E r \in Answers, e \in Events :
          /\ \/ PlainResult(r)
             \/ enter_diagnostic_session(r)
             \/ end_diagnostic_session(r)
             \/ security_access(r)
             \/ supported_pids(r)
             \/ identify_vehicle(r)
          /\ LET c == apply_adapter_events(IF e = "none" THEN queued ELSE e)
             IN  conn' = IF ExchangeOk(r) THEN mark_connection_active_if_recovered(c) ELSE c
          /\ lastEx' = IF ExchangeOk(r) THEN "ok" ELSE "err"
          /\ ecu' = EcuRuns(r)
          /\ visible' = [a \in Modules |->
                            IF a = mod /\ ExchangeOk(r) THEN "answered" ELSE visible[a]]
    /\ discovery' = refresh_discovery_profile(profile')
    /\ queued' = "none"
    /\ in_flight' = FALSE
    /\ UNCHANGED <<env, car, initialized>>

(***************************************************************************)
(* The environment                                                         *)
(***************************************************************************)
EcuTimeout ==
    /\ "s3" \in env
    /\ \E m \in ecu : ecu' = ecu \ {m}
    /\ UNCHANGED <<env, car, queued, core, in_flight, visible, running, last, lastEx>>

Swap ==
    /\ "swap" \in env /\ call = "idle"
    /\ \E v \in Vehicles \ {car} : car' = v
    /\ ecu' = {}
    /\ UNCHANGED <<env, queued, core, in_flight, visible, running, last, lastEx>>

\* The caller drops the future at an await: the ECU may have acted, the events
\* stay queued and request_in_flight stays as it is.
Cancel ==
    /\ "cancel" \in env
    /\ \/ call = "wait" /\ \E r \in Answers : ecu' = EcuRuns(r)
       \/ call = "init" /\ ~initialized /\ UNCHANGED ecu
    /\ queued' \in Faulty \cup {queued}
    /\ Return("cancelled")
    /\ UNCHANGED <<env, car, core, in_flight, visible, lastEx>>

Init ==
    /\ env \in FaultModels /\ car \in Vehicles
    /\ ecu = {} /\ queued = "none"
    /\ conn = "AdapterPresent" /\ initialized = FALSE /\ in_flight = FALSE
    /\ diag = "Default" /\ unlocked = {}
    /\ profile = None /\ profilePids = None /\ pids = None
    /\ discovery = {}
    /\ visible = [m \in Modules |-> "unseen"]
    /\ call = "idle" /\ op = "read" /\ mod = Broadcast /\ want = None /\ part = 1
    /\ last = "none" /\ lastEx = "none"

Progress == initialize \/ send_request \/ Answer

Next ==
    \/ Progress
    \/ CallModule
    \/ CallEnter
    \/ CallPhysical
    \/ CallBroadcast
    \/ EcuTimeout
    \/ Swap
    \/ Cancel

Spec == Init /\ [][Next]_vars

\* The adapter ends every exchange (Elm327!CallReturns) and the executor polls
\* the call again; nothing obliges a caller to start or to drop a call.
FairSpec == Spec /\ WF_vars(Progress)

(***************************************************************************)
(* Properties                                                              *)
(***************************************************************************)
TypeOK ==
    /\ env \in FaultModels /\ car \in Vehicles
    /\ ecu \subseteq Modules
    /\ queued \in Events \cup {"unsupported"}
    /\ conn \in ConnectionStates
    /\ initialized \in BOOLEAN /\ in_flight \in BOOLEAN
    /\ diag \in DiagSessions /\ unlocked \subseteq Modules
    /\ profile \in Vehicles \cup {None}
    /\ profilePids \in Vehicles \cup {None}
    /\ pids \in Vehicles \cup {None}
    /\ discovery \subseteq Modules
    /\ visible \in [Modules -> {"unseen", "silent", "answered"}]
    /\ call \in {"idle", "init", "send", "wait"} /\ op \in Ops
    /\ mod \in Modules \cup {Broadcast}
    /\ want \in DiagSessions \cup {None} /\ part \in 1..5
    /\ last \in CallResults
    /\ lastEx \in {"none", "ok", "err"}

\* ECUs change their session only when the session layer is told so.
SafeEcu == env \cap {"lost", "s3", "swap", "raw"} = {}

\* The gate of actuator_control: an actuator command is sent only to a module
\* that is unlocked, although one list of unlocked modules serves the sessions
\* of all modules, sessions are entered and left on others, and calls fail or
\* are dropped half-way.
ActuateUnlocked == SafeEcu /\ call = "wait" /\ op = "actuate" => mod \in ecu

\* After a successful exchange the connection state says Connected, whatever
\* faults, resets and low-power alerts the adapter reported with it or before
\* ("Any successful subsequent request transitions back to Connected").
OkMeansConnected == call = "idle" /\ lastEx = "ok" => conn = "Connected"

\* A request for a module is sent only to a module that the identified vehicle
\* has on the active bus: the discovery profile that resolve_module_address
\* uses is never older than the vehicle profile.
RoutedByProfile ==
    call = "wait" /\ op \in ModuleOps => profile # None /\ mod \in BusModules[profile]

\* While no call is dropped, request_in_flight is released on every path of
\* send_request, so no call is ever turned away as busy.
NoSpuriousBusy == "cancel" \notin env => last # "busy"

\* A call that was let through completes: initialization, the seed-key
\* exchange and the PID loop all end.
CallCompletes == call # "idle" ~> call = "idle"
=============================================================================
