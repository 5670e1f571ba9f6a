---------------------------- MODULE SessionProofs ---------------------------
(***************************************************************************)
(* Theorems about the session, for any modules, vehicles and fault sets,   *)
(* and about the raw capture it drives.                                    *)
(***************************************************************************)
EXTENDS Session, RawCapture, TLAPS

\* request_in_flight is held exactly while an exchange runs, except after a
\* dropped call, when it is held for good.
FlightInv ==
    /\ call = "wait" => in_flight
    /\ "cancel" \notin env => (in_flight => call = "wait") /\ last # "busy"

\* Calls pass ensure_initialized, and what an initialized session knows.
LifeInv ==
    /\ call \in {"send", "wait"} => initialized
    /\ initialized => /\ queued # "unsupported"
                      /\ discovery = resolve_modules(profile)
                      /\ call # "init" => conn \in {"Connected", "IgnitionOff", "Disconnected", "Error"}
    /\ lastEx = "ok" => conn = "Connected"

\* A module request in progress is for a module of the discovery profile.
RouteInv == call = "wait" /\ op \in ModuleOps => mod \in discovery

\* As long as requests can still be sent, the modules the session holds for
\* unlocked are unlocked.
LockInv ==
    /\ SafeEcu /\ (in_flight => call = "wait") => unlocked \subseteq ecu
    /\ call = "wait" /\ op = "actuate" => mod \in unlocked
    /\ op \in ModuleOps => mod \in Modules
    /\ call # "idle" /\ op = "enter" => want \in DiagSessions

IInv == TypeOK /\ FlightInv /\ LifeInv /\ RouteInv /\ LockInv

(***************************************************************************)
(* The steps                                                               *)
(***************************************************************************)
\* resolve_modules answers with modules, for a profile or for none.
LEMMA ResolveType == ASSUME NEW p \in Vehicles \cup {None} PROVE resolve_modules(p) \subseteq Modules
BY SpecAssumption DEF resolve_modules

\* The initial states satisfy the inductive invariant.
LEMMA InitIInv == Init => IInv
<1> SUFFICES ASSUME Init
             PROVE  IInv
  OBVIOUS
<1>1. TypeOK
  <2>1. initialized \in BOOLEAN /\ in_flight \in BOOLEAN
    BY DEF Init
  <2>2. visible \in [Modules -> {"unseen", "silent", "answered"}]
    BY DEF Init
  <2>3. /\ "none" \in Events /\ "AdapterPresent" \in ConnectionStates
        /\ "Default" \in DiagSessions /\ "read" \in Ops /\ "none" \in CallResults
        /\ 1 \in 1..5
    BY DEF Events, ConnectionStates, DiagSessions, Ops, CallResults
  <2> QED
    BY <2>1, <2>2, <2>3 DEF Init, TypeOK
<1>2. FlightInv /\ LifeInv /\ RouteInv /\ LockInv
  BY DEF Init, FlightInv, LifeInv, RouteInv, LockInv, ModuleOps
<1> QED
  BY <1>1, <1>2 DEF IInv

\* A call starts.
LEMMA CallStep ==
    ASSUME IInv, NEW o \in Ops, NEW m \in Modules \cup {Broadcast},
           NEW s \in DiagSessions \cup {None}, Call(o, m, s), o \in ModuleOps => m \in Modules,
           o = "enter" => s \in DiagSessions
    PROVE  IInv'
<1>1. /\ call = "idle" /\ op' = o /\ mod' = m /\ want' = s /\ part' = 1 /\ last' = "none"
      /\ UNCHANGED <<env, car, ecu, queued, in_flight, visible>>
      /\ UNCHANGED <<initialized, diag, unlocked, profile, profilePids, pids, discovery>>
  BY DEF Call, external, identity
<1>2. \/ call' = "init" /\ conn' = "ProtocolNegotiating" /\ lastEx' = "none"
      \/ call' = "send" /\ initialized /\ UNCHANGED <<conn, lastEx>>
  BY DEF Call
<1>3. TypeOK'
  BY <1>1, <1>2 DEF IInv, TypeOK, ConnectionStates, CallResults
<1>4. FlightInv'
  BY <1>1, <1>2 DEF IInv, FlightInv
<1>5. LifeInv'
  BY <1>1, <1>2 DEF IInv, LifeInv, resolve_modules
<1>6. RouteInv' /\ LockInv'
  BY <1>1, <1>2 DEF IInv, RouteInv, LockInv, SafeEcu
<1> QED
  BY <1>3, <1>4, <1>5, <1>6 DEF IInv

\* The adapter ended initialize, with success or not.
LEMMA InitializeStep == IInv /\ initialize => IInv'
<1> SUFFICES ASSUME IInv, initialize
             PROVE  IInv'
  OBVIOUS
<1>1. /\ call = "init" /\ lastEx' = "none"
      /\ UNCHANGED <<env, car, ecu, in_flight, visible, diag, unlocked>>
      /\ UNCHANGED <<profile, profilePids, pids>>
  BY DEF initialize, external, identity
<1>2. /\ call' \in {"idle", "send"} /\ part' = 1 /\ op' = op /\ mod' = mod
      /\ want' \in {want, None} /\ (call' # "idle" => want' = want)
      /\ last' \in {last, "ok", "unsupported", "err"}
  BY DEF initialize, Return, Request
<1>3. \/ /\ initialized' = TRUE /\ queued' = "none" /\ conn' = "Connected"
         /\ discovery' = resolve_modules(profile)
      \/ /\ ~initialized /\ queued' \in Events \cup {"unsupported"} /\ call' = "idle"
         /\ UNCHANGED <<conn, initialized, discovery>>
  BY DEF initialize, Return, IInv, TypeOK, Events
<1>4. TypeOK'
  <2>1. resolve_modules(profile) \subseteq Modules
    BY ResolveType DEF IInv, TypeOK
  <2>2. initialized' \in BOOLEAN /\ in_flight' \in BOOLEAN
    BY <1>1, <1>3 DEF IInv, TypeOK
  <2>3. /\ conn' \in ConnectionStates /\ queued' \in Events \cup {"unsupported"}
        /\ discovery' \subseteq Modules /\ last' \in CallResults
        /\ want' \in DiagSessions \cup {None}
    BY <1>2, <1>3, <2>1 DEF IInv, TypeOK, ConnectionStates, CallResults, Events
  <2> QED
    BY <1>1, <1>2, <2>2, <2>3 DEF IInv, TypeOK
<1>5. FlightInv'
  BY <1>1, <1>2 DEF IInv, FlightInv
<1>6. LifeInv'
  BY <1>1, <1>2, <1>3 DEF IInv, LifeInv, resolve_modules
<1>7. RouteInv' /\ LockInv'
  BY <1>1, <1>2 DEF IInv, RouteInv, LockInv, SafeEcu
<1> QED
  BY <1>4, <1>5, <1>6, <1>7 DEF IInv

\* The checks before the await, and the request.
LEMMA SendStep == IInv /\ send_request => IInv'
<1> SUFFICES ASSUME IInv, send_request
             PROVE  IInv'
  OBVIOUS
<1>1. /\ call = "send" /\ op' = op /\ mod' = mod /\ lastEx' = lastEx
      /\ UNCHANGED <<env, car, ecu, queued, conn, initialized, diag, unlocked>>
      /\ UNCHANGED <<profile, profilePids, pids, discovery>>
  BY DEF send_request, external, core, identity, Return
<1>2. \/ /\ call' = "idle" /\ part' = 1 /\ want' = None /\ UNCHANGED <<in_flight, visible>>
         /\ last' \in {"ok", "security", "busy", "not_found"}
         /\ last' = "busy" => in_flight
      \/ /\ call' = "wait" /\ in_flight' = TRUE /\ ~in_flight
         /\ SecurityGate /\ Routable
         /\ visible' = record_visible_target(mod)
         /\ UNCHANGED <<want, part, last>>
  BY DEF send_request, Return
<1>3. TypeOK'
  <2>1. record_visible_target(mod) \in [Modules -> {"unseen", "silent", "answered"}]
    BY DEF IInv, TypeOK, record_visible_target
  <2>2. in_flight' \in BOOLEAN /\ visible' \in [Modules -> {"unseen", "silent", "answered"}]
    BY <1>2, <2>1 DEF IInv, TypeOK
  <2>3. /\ last' \in CallResults /\ want' \in DiagSessions \cup {None}
        /\ part' \in 1..5 /\ call' \in {"idle", "init", "send", "wait"}
    BY <1>2 DEF IInv, TypeOK, CallResults
  <2> QED
    BY <1>1, <2>2, <2>3 DEF IInv, TypeOK
<1>4. FlightInv'
  BY <1>1, <1>2 DEF IInv, FlightInv
<1>5. LifeInv'
  BY <1>1, <1>2 DEF IInv, LifeInv, resolve_modules
<1>6. RouteInv' /\ LockInv'
  BY <1>1, <1>2 DEF IInv, RouteInv, LockInv, SafeEcu, SecurityGate, Routable, ModuleOps
<1> QED
  BY <1>3, <1>4, <1>5, <1>6 DEF IInv

\* What the continuation of an exchange does to the session.
LEMMA ContinueFacts ==
    ASSUME TypeOK, op \in ModuleOps => mod \in Modules, op = "enter" => want \in DiagSessions, NEW r \in Answers,
           \/ PlainResult(r) \/ enter_diagnostic_session(r) \/ end_diagnostic_session(r)
           \/ security_access(r) \/ supported_pids(r) \/ identify_vehicle(r)
    PROVE  /\ op' = op /\ mod' = mod /\ call' \in {"idle", "send"} /\ part' \in 1..5
           /\ want' \in DiagSessions \cup {None} /\ last' \in {last, "ok", "err"}
           /\ diag' \in DiagSessions
           /\ profile' \in Vehicles \cup {None} /\ profilePids' \in Vehicles \cup {None}
           /\ pids' \in Vehicles \cup {None}
           /\ \/ unlocked' = unlocked /\ ~(op \in {"enter", "end"} /\ r = "ok")
              \/ unlocked' = {}
              \/ /\ op = "security" /\ part = 2 /\ r = "ok"
                 /\ unlocked' \subseteq unlocked \cup {mod}
<1>1. ASSUME NEW x, Return(x)
      PROVE  call' = "idle" /\ part' = 1 /\ last' = x /\ want' = None /\ op' = op /\ mod' = mod
  BY <1>1 DEF Return
<1>2. ASSUME NEW i \in 1..5, Request(i)
      PROVE  /\ call' = "send" /\ part' = i /\ last' = last /\ want' = want /\ op' = op
             /\ mod' = mod
  BY <1>2 DEF Request
<1>3. 1 \in 1..5 /\ 2 \in 1..5 /\ "Default" \in DiagSessions /\ "Extended" \in DiagSessions
  BY DEF DiagSessions
<1>4. CASE PlainResult(r)
  <2>1. /\ op \in {"read", "module", "raw_physical", "voltage", "actuate"}
        /\ UNCHANGED <<diag, unlocked, profile, profilePids, pids>>
    BY <1>4 DEF PlainResult, identity
  <2>2. Return("ok") \/ Return("err")
    BY <1>4 DEF PlainResult
  <2> QED
    BY <1>1, <1>3, <2>1, <2>2 DEF TypeOK
<1>5. CASE enter_diagnostic_session(r) \/ end_diagnostic_session(r)
  <2>1. op \in {"enter", "end"} /\ UNCHANGED <<profile, profilePids, pids>>
    BY <1>5 DEF enter_diagnostic_session, end_diagnostic_session, identity
  <2>2. op = "enter" => want \in DiagSessions
    OBVIOUS
  <2>3. \/ /\ r = "ok" /\ diag' \in DiagSessions /\ unlocked' = {} /\ Return("ok")
        \/ /\ r # "ok" /\ UNCHANGED <<diag, unlocked>> /\ Return("err")
    BY <1>3, <1>5, <2>2 DEF enter_diagnostic_session, end_diagnostic_session
  <2> QED
    BY <1>1, <1>3, <2>1, <2>3 DEF TypeOK
<1>6. CASE security_access(r)
  <2>1. op = "security" /\ UNCHANGED <<profile, profilePids, pids>>
    BY <1>6 DEF security_access, identity
  <2>2. CASE Request(2) /\ UNCHANGED <<diag, unlocked>>
    BY <1>2, <1>3, <2>1, <2>2 DEF TypeOK
  <2>3. CASE (Return("ok") \/ Return("err")) /\ UNCHANGED <<diag, unlocked>>
    BY <1>1, <1>3, <2>1, <2>3 DEF TypeOK
  <2>4. CASE /\ part = 2 /\ r = "ok" /\ diag' = "Extended" /\ Return("ok")
             /\ unlocked' = (IF diag = "Extended" THEN unlocked ELSE {}) \cup {mod}
    BY <1>1, <1>3, <2>1, <2>4 DEF TypeOK
  <2> QED
    BY <1>6, <2>2, <2>3, <2>4 DEF security_access
<1>7. CASE supported_pids(r)
  <2>1. op = "supported" /\ UNCHANGED <<diag, unlocked, profile, profilePids>>
    BY <1>7 DEF supported_pids
  <2>2. CASE pids' \in {pids, car} /\ (Return("ok") \/ Return("err"))
    BY <1>1, <1>3, <2>1, <2>2 DEF TypeOK
  <2>3. CASE /\ pids' = pids /\ query_supported_pids(r, part) > 0
             /\ Request(query_supported_pids(r, part))
    <3>1. query_supported_pids(r, part) \in 1..5
      BY <2>3 DEF query_supported_pids, PidBases, TypeOK
    <3> QED
      BY <1>2, <2>1, <2>3, <3>1 DEF TypeOK
  <2> QED
    BY <1>7, <2>2, <2>3 DEF supported_pids
<1>8. CASE identify_vehicle(r)
  <2>1. op = "identify" /\ UNCHANGED <<diag, unlocked>>
    BY <1>8 DEF identify_vehicle
  <2>2. CASE /\ pids' \in {pids, car} /\ profile' \in {profile, car}
             /\ profilePids' \in {profilePids, pids, car, None}
             /\ Return("ok") \/ Return("err")
    BY <1>1, <1>3, <2>1, <2>2 DEF TypeOK
  <2>3. CASE /\ UNCHANGED <<profile, profilePids, pids>>
             /\ \/ Request(2)
                \/ /\ part > 1 /\ query_supported_pids(r, part - 1) > 0
                   /\ Request(query_supported_pids(r, part - 1) + 1)
    <3>1. part > 1 /\ query_supported_pids(r, part - 1) > 0
             => query_supported_pids(r, part - 1) + 1 \in 1..5
      BY DEF query_supported_pids, PidBases, TypeOK
    <3>2. PICK i \in 1..5 : Request(i)
      BY <1>3, <2>3, <3>1
    <3> QED
      BY <1>2, <2>1, <2>3, <3>2 DEF TypeOK
  <2> QED
    BY <1>8, <2>2, <2>3 DEF identify_vehicle, identity
<1> QED
  BY <1>4, <1>5, <1>6, <1>7, <1>8

\* An exchange ends and its caller goes on.
LEMMA AnswerStep == IInv /\ Answer => IInv'
<1> SUFFICES ASSUME IInv, Answer
             PROVE  IInv'
  OBVIOUS
<1>1. TypeOK /\ FlightInv /\ LifeInv /\ RouteInv /\ LockInv /\ call = "wait"
  BY DEF IInv, Answer
<1>2. /\ in_flight' = FALSE /\ queued' = "none" /\ initialized' = initialized
      /\ env' = env /\ car' = car /\ discovery' = resolve_modules(profile')
  BY DEF Answer, refresh_discovery_profile
<1>3. PICK r \in Answers, e \in Events :
        /\ \/ PlainResult(r) \/ enter_diagnostic_session(r) \/ end_diagnostic_session(r)
           \/ security_access(r) \/ supported_pids(r) \/ identify_vehicle(r)
        /\ LET c == apply_adapter_events(IF e = "none" THEN queued ELSE e)
           IN  conn' = IF ExchangeOk(r) THEN mark_connection_active_if_recovered(c) ELSE c
        /\ lastEx' = IF ExchangeOk(r) THEN "ok" ELSE "err"
        /\ ecu' = EcuRuns(r)
        /\ visible' = [a \in Modules |-> IF a = mod /\ ExchangeOk(r) THEN "answered" ELSE visible[a]]
  BY DEF Answer
<1>4. /\ op \in ModuleOps => mod \in Modules
      /\ op = "enter" => want \in DiagSessions
  BY <1>1 DEF LockInv
<1>5. /\ op' = op /\ mod' = mod /\ call' \in {"idle", "send"} /\ part' \in 1..5
      /\ want' \in DiagSessions \cup {None} /\ last' \in {last, "ok", "err"}
      /\ diag' \in DiagSessions
      /\ profile' \in Vehicles \cup {None} /\ profilePids' \in Vehicles \cup {None}
      /\ pids' \in Vehicles \cup {None}
      /\ \/ unlocked' = unlocked /\ ~(op \in {"enter", "end"} /\ r = "ok")
         \/ unlocked' = {}
         \/ /\ op = "security" /\ part = 2 /\ r = "ok"
            /\ unlocked' \subseteq unlocked \cup {mod}
  BY <1>1, <1>3, <1>4, ContinueFacts
<1>6. (call' # "idle" /\ op = "enter") => want' \in DiagSessions
  <2>1. op = "enter" => enter_diagnostic_session(r)
    BY <1>3 DEF PlainResult, end_diagnostic_session, security_access, supported_pids,
                identify_vehicle
  <2> QED
    BY <2>1 DEF enter_diagnostic_session, Return
<1>7. /\ conn' \in {"Connected", "IgnitionOff", "Disconnected", "Error"}
      /\ lastEx' \in {"ok", "err"} /\ (lastEx' = "ok" => conn' = "Connected")
  <2>1. initialized /\ queued # "unsupported"
        /\ conn \in {"Connected", "IgnitionOff", "Disconnected", "Error"}
    BY <1>1 DEF LifeInv
  <2> DEFINE ev == IF e = "none" THEN queued ELSE e
             c  == apply_adapter_events(ev)
  <2>2. ev \in {"none", "fault", "lost", "ignition"}
    BY <1>1, <1>3, <2>1 DEF TypeOK, Events, Faulty
  <2> HIDE DEF ev
  <2>3. c \in {"Connected", "IgnitionOff", "Disconnected", "Error"}
    BY <2>1, <2>2 DEF apply_adapter_events
  <2>4. conn' = IF ExchangeOk(r) THEN mark_connection_active_if_recovered(c) ELSE c
    BY <1>3 DEF ev
  <2> HIDE DEF c
  <2> QED
    BY <1>3, <2>3, <2>4 DEF mark_connection_active_if_recovered
<1>8. ecu' \subseteq Modules /\ unlocked' \subseteq Modules
  <2>1. op \in {"enter", "end", "security"} => mod \in Modules
    BY <1>4 DEF ModuleOps
  <2> QED
    BY <1>1, <1>3, <1>5, <2>1 DEF EcuRuns, TypeOK
<1>9. TypeOK'
  <2>1. visible' \in [Modules -> {"unseen", "silent", "answered"}]
    BY <1>1, <1>3 DEF TypeOK
  <2>2. in_flight' \in BOOLEAN /\ initialized' \in BOOLEAN
    BY <1>1, <1>2 DEF TypeOK
  <2>3. discovery' \subseteq Modules
    BY <1>2, <1>5, ResolveType
  <2>4. /\ conn' \in ConnectionStates /\ queued' \in Events \cup {"unsupported"}
        /\ last' \in CallResults
    BY <1>1, <1>2, <1>5, <1>7 DEF ConnectionStates, Events, CallResults, TypeOK
  <2> QED
    BY <1>1, <1>2, <1>5, <1>7, <1>8, <2>1, <2>2, <2>3, <2>4 DEF TypeOK
<1>10. FlightInv'
  BY <1>1, <1>2, <1>5 DEF FlightInv
<1>11. LifeInv'
  <2>1. initialized
    BY <1>1 DEF LifeInv
  <2>2. resolve_modules(profile)' = resolve_modules(profile')
    BY DEF resolve_modules
  <2> QED
    BY <1>2, <1>5, <1>7, <2>1, <2>2 DEF LifeInv
<1>12. RouteInv'
  BY <1>5 DEF RouteInv
<1>13. LockInv'
  <2>1. SafeEcu => unlocked \subseteq ecu /\ "lost" \notin env /\ "raw" \notin env
    BY <1>1 DEF LockInv, SafeEcu
  <2>2. SafeEcu => unlocked' \subseteq ecu'
    BY <1>3, <1>5, <2>1 DEF EcuRuns
  <2>3. SafeEcu' = SafeEcu
    BY <1>2 DEF SafeEcu
  <2> QED
    BY <1>4, <1>5, <1>6, <2>2, <2>3 DEF LockInv
<1> QED
  BY <1>9, <1>10, <1>11, <1>12, <1>13 DEF IInv

\* The environment, and stuttering.
LEMMA EnvironmentStep ==
    ASSUME IInv, EcuTimeout \/ Swap \/ Cancel \/ UNCHANGED vars
    PROVE  IInv'
<1>1. TypeOK /\ FlightInv /\ LifeInv /\ RouteInv /\ LockInv
  BY DEF IInv
<1>2. CASE EcuTimeout \/ Swap
  <2>1. /\ UNCHANGED <<env, queued, conn, initialized, in_flight, diag, unlocked>>
        /\ UNCHANGED <<profile, profilePids, pids, discovery, visible>>
        /\ UNCHANGED <<call, op, mod, want, part, last, lastEx>>
        /\ car' \in Vehicles /\ ecu' \subseteq Modules /\ env \cap {"s3", "swap"} # {}
    BY <1>1, <1>2 DEF EcuTimeout, Swap, core, identity, running, TypeOK
  <2>2. ~SafeEcu'
    BY <2>1 DEF SafeEcu
  <2>3. TypeOK'
    BY <1>1, <2>1 DEF TypeOK
  <2>4. FlightInv' /\ LifeInv' /\ RouteInv' /\ LockInv'
    BY <1>1, <2>1, <2>2 DEF FlightInv, LifeInv, RouteInv, LockInv, resolve_modules
  <2> QED
    BY <2>3, <2>4 DEF IInv
<1>3. CASE Cancel
  <2>1. /\ UNCHANGED <<env, car, conn, initialized, in_flight, diag, unlocked, visible>>
        /\ UNCHANGED <<profile, profilePids, pids, discovery, op, mod, lastEx>>
        /\ call' = "idle" /\ part' = 1 /\ want' = None /\ last' = "cancelled"
        /\ queued' \in Events \cup {queued} /\ "cancel" \in env
    BY <1>3 DEF Cancel, core, identity, Return, Events
  <2>2. \/ call = "wait" /\ \E r \in Answers : ecu' = EcuRuns(r)
        \/ call = "init" /\ ~initialized /\ ecu' = ecu
    BY <1>3 DEF Cancel
  <2>3. ecu' \subseteq Modules
    <3>1. op \in {"enter", "end", "security"} => mod \in Modules
      BY <1>1 DEF LockInv, ModuleOps
    <3> QED
      BY <1>1, <2>2, <3>1 DEF EcuRuns, TypeOK
  <2>4. TypeOK'
    BY <1>1, <2>1, <2>3 DEF TypeOK, CallResults
  <2>5. FlightInv' /\ RouteInv'
    BY <1>1, <2>1 DEF FlightInv, RouteInv
  <2>6. LifeInv'
    <3>1. initialized => call = "wait"
      BY <2>2
    <3>2. "unsupported" \notin Events
      BY DEF Events, Faulty
    <3> QED
      BY <1>1, <2>1, <3>1, <3>2 DEF LifeInv, resolve_modules
  <2>7. LockInv'
    <3>1. CASE call = "wait"
      <4>1. in_flight' /\ call' # "wait"
        BY <1>1, <2>1, <3>1 DEF FlightInv
      <4> QED
        BY <1>1, <2>1, <4>1 DEF LockInv
    <3>2. CASE call # "wait"
      <4>1. ecu' = ecu
        BY <2>2, <3>2
      <4> QED
        BY <1>1, <2>1, <3>2, <4>1 DEF LockInv, SafeEcu
    <3> QED
      BY <3>1, <3>2
  <2> QED
    BY <2>4, <2>5, <2>6, <2>7 DEF IInv
<1>4. CASE UNCHANGED vars
  BY <1>1, <1>4 DEF IInv, TypeOK, FlightInv, LifeInv, RouteInv, LockInv, SafeEcu, resolve_modules,
                    vars, external, core, identity, running
<1> QED
  BY <1>2, <1>3, <1>4

\* Every step preserves the inductive invariant.
LEMMA NextIInv == IInv /\ [Next]_vars => IInv'
<1> SUFFICES ASSUME IInv, [Next]_vars
             PROVE  IInv'
  OBVIOUS
<1>1. CASE CallModule \/ CallEnter \/ CallPhysical \/ CallBroadcast
  <2>1. \E o \in Ops, m \in Modules \cup {Broadcast}, s \in DiagSessions \cup {None} :
           /\ Call(o, m, s) /\ (o \in ModuleOps => m \in Modules)
           /\ (o = "enter" => s \in DiagSessions)
    BY <1>1 DEF CallModule, CallEnter, CallPhysical, CallBroadcast, Ops, ModuleOps
  <2> QED
    BY <2>1, CallStep
<1>2. CASE Progress
  BY <1>2, InitializeStep, SendStep, AnswerStep DEF Progress
<1>3. CASE EcuTimeout \/ Swap \/ Cancel \/ UNCHANGED vars
  BY <1>3, EnvironmentStep
<1> QED
  BY <1>1, <1>2, <1>3 DEF Next

\* The inductive invariant holds in every reachable state.
THEOREM InductiveInvariant == Spec => []IInv
BY InitIInv, NextIInv, PTL DEF Spec

(***************************************************************************)
(* The results                                                             *)
(***************************************************************************)
\* Every variable keeps its type.
THEOREM TypeCorrect == Spec => []TypeOK
<1>1. IInv => TypeOK
  BY DEF IInv
<1> QED
  BY <1>1, InductiveInvariant, PTL

\* The gate of actuator_control: an actuator command goes only to an unlocked
\* module, with any number of modules, failing calls and dropped calls.
THEOREM ActuatorGate == Spec => []ActuateUnlocked
<1>1. IInv => ActuateUnlocked
  BY DEF IInv, LockInv, ActuateUnlocked
<1> QED
  BY <1>1, InductiveInvariant, PTL

\* A successful exchange leaves the session Connected.
THEOREM Reconnects == Spec => []OkMeansConnected
<1>1. IInv => OkMeansConnected
  BY DEF IInv, LifeInv, OkMeansConnected
<1> QED
  BY <1>1, InductiveInvariant, PTL

\* Module requests follow the profile of the identified vehicle.
THEOREM Routing == Spec => []RoutedByProfile
<1>1. IInv => RoutedByProfile
  BY ModulesAssumption DEF IInv, TypeOK, LifeInv, RouteInv, RoutedByProfile, resolve_modules
<1> QED
  BY <1>1, InductiveInvariant, PTL

\* request_in_flight is never leaked unless a call is dropped.
THEOREM FlightReleased == Spec => []NoSpuriousBusy
<1>1. IInv => NoSpuriousBusy
  BY DEF IInv, FlightInv, NoSpuriousBusy
<1> QED
  BY <1>1, InductiveInvariant, PTL

(***************************************************************************)
(* Raw capture (RawCapture.tla), for any names, bounds and failing file    *)
(* operations: the path the session reports is the one being written.      *)
(***************************************************************************)

\* What Session and LoggingTransport know of the capture.
CaptureTypes ==
    /\ writer \in Paths \cup {NoPath}
    /\ capture_path \in Paths \cup {NoPath}
    /\ current_path \in Paths \cup {NoPath}
    /\ enabled \in BOOLEAN /\ broken \in BOOLEAN

CaptureInv == CaptureTypes /\ PathIsWriters

\* NoPath is not a file name.
LEMMA NoPathIsNone == NoPath \notin Paths
  BY RawCaptureAssumption DEF NoPath, Paths

\* A capture that starts is the one both sides know.
LEMMA CaptureStarting ==
    ASSUME CaptureInv, NEW p \in Paths, NEW notes, start_capture(p, notes), current_path' = p,
           UNCHANGED enabled
    PROVE  CaptureInv'
  BY NoPathIsNone DEF CaptureInv, CaptureTypes, PathIsWriters, start_capture

\* start_raw_capture starts one or leaves everything as it was.
LEMMA CaptureStart ==
    ASSUME CaptureInv, NEW p \in ManualNames, start_raw_capture(p)
    PROVE  CaptureInv'
<1>1. CASE start_capture(p, <<>>) /\ current_path' = p
  BY <1>1, CaptureStarting DEF start_raw_capture, Paths
<1>2. CASE NotStarted /\ UNCHANGED current_path
  BY <1>2 DEF start_raw_capture, NotStarted, transport, history,
               CaptureInv, CaptureTypes, PathIsWriters
<1> QED
  BY <1>1, <1>2 DEF start_raw_capture

\* stop_raw_capture forgets the path, whether or not the last flush failed.
LEMMA CaptureStop ==
    ASSUME CaptureInv, stop_raw_capture
    PROVE  CaptureInv'
<1>1. PICK flushFails \in MayFail("flush") : stop_capture(flushFails)
  BY DEF stop_raw_capture
<1>2. /\ writer' = NoPath /\ broken' = FALSE /\ current_path' = NoPath /\ enabled' = enabled
      /\ capture_path' \in {capture_path, NoPath}
  BY <1>1 DEF stop_raw_capture, stop_capture
<1> QED
  BY <1>2 DEF CaptureInv, CaptureTypes, PathIsWriters

\* initialize starts a capture only when none is being written.
LEMMA CaptureDebug ==
    ASSUME CaptureInv, start_debug_raw_capture
    PROVE  CaptureInv'
<1>1. CASE \E p \in DebugNames : start_capture(p, Note) /\ current_path' = p
  BY <1>1, CaptureStarting DEF start_debug_raw_capture, Paths
<1>2. CASE UNCHANGED <<transport, current_path, broken>>
  BY <1>2 DEF start_debug_raw_capture, transport, CaptureInv, CaptureTypes, PathIsWriters
<1> QED
  BY <1>1, <1>2 DEF start_debug_raw_capture

\* A rename is known to both sides, refused, or leaves no writer.
LEMMA CaptureRename ==
    ASSUME CaptureInv, rename_raw_capture_for_vin
    PROVE  CaptureInv'
<1>1. PICK q \in VinNames :
          \/ RenameSame(q) /\ current_path' = q
          \/ RenameRefused(q) /\ UNCHANGED current_path
          \/ RenameFails(q) /\ UNCHANGED current_path
          \/ ReopenFails(q) /\ UNCHANGED current_path
          \/ Renamed(q) /\ current_path' = q
  BY DEF rename_raw_capture_for_vin
<1>2. q \in Paths /\ q # NoPath /\ writer # NoPath /\ enabled' = enabled
  BY NoPathIsNone DEF rename_raw_capture_for_vin, Paths
<1> USE <1>2 DEF CaptureInv, CaptureTypes, PathIsWriters
<1>3. CASE RenameSame(q) /\ current_path' = q
  BY <1>3 DEF RenameSame, transport, history
<1>4. CASE RenameRefused(q) /\ UNCHANGED current_path
  BY <1>4 DEF RenameRefused, transport, history
<1>5. CASE RenameFails(q) /\ UNCHANGED current_path
  BY <1>5 DEF RenameFails
<1>6. CASE ReopenFails(q) /\ UNCHANGED current_path
  BY <1>6 DEF ReopenFails
<1>7. CASE Renamed(q) /\ current_path' = q
  BY <1>7 DEF Renamed
<1> QED
  BY <1>1, <1>3, <1>4, <1>5, <1>6, <1>7

\* The invariant is kept by every step.
LEMMA CaptureInductive ==
    ASSUME CaptureInv, [CaptureNext]_captureVars
    PROVE  CaptureInv'
<1> DEFINE Same == UNCHANGED <<transport, current_path, broken>> /\ enabled' \in BOOLEAN
<1>1. Same => CaptureInv'
  BY DEF transport, CaptureInv, CaptureTypes, PathIsWriters
<1>2. CASE UNCHANGED captureVars
  BY <1>1, <1>2 DEF captureVars, transport, CaptureInv, CaptureTypes
<1>3. ASSUME NEW ok \in BOOLEAN, NEW answered \in BOOLEAN, write(ok, answered) PROVE CaptureInv'
  BY <1>1, <1>3 DEF write, config, history, CaptureInv, CaptureTypes
<1>4. ASSUME NEW n \in 0..Len(stream), read(n) PROVE CaptureInv'
  BY <1>4 DEF read, config, CaptureInv, CaptureTypes, PathIsWriters
<1>5. ASSUME NEW p \in ManualNames, start_raw_capture(p) PROVE CaptureInv'
  BY <1>5, CaptureStart
<1>6. CASE stop_raw_capture
  BY <1>6, CaptureStop
<1>7. CASE start_debug_raw_capture
  BY <1>7, CaptureDebug
<1>8. CASE rename_raw_capture_for_vin
  BY <1>8, CaptureRename
<1>9. CASE set_raw_capture_enabled
  BY <1>1, <1>9 DEF set_raw_capture_enabled, history, CaptureInv, CaptureTypes
<1> QED
  BY <1>2, <1>3, <1>4, <1>5, <1>6, <1>7, <1>8, <1>9 DEF CaptureNext

\* The invariant holds of every state: both sides agree on the capture, and a
\* capture that is written was not broken by a rename.
THEOREM CaptureInvariance == CaptureSpec => []CaptureInv
<1>1. CaptureInit => CaptureInv
  BY DEF CaptureInit, CaptureInv, CaptureTypes, PathIsWriters
<1>2. CaptureInv /\ [CaptureNext]_captureVars => CaptureInv'
  BY CaptureInductive
<1> QED
  BY <1>1, <1>2, PTL DEF CaptureSpec

\* The path that raw_capture_path reports is the file being written, and none
\* when no capture is active, unless a rename failed half-way.
THEOREM ReportedPath == CaptureSpec => []PathIsWriters
<1>1. CaptureInv => PathIsWriters
  BY DEF CaptureInv
<1> QED
  BY <1>1, CaptureInvariance, PTL
=============================================================================
