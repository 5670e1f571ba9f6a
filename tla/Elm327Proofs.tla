---------------------------- MODULE Elm327Proofs ----------------------------
(***************************************************************************)
(* Theorems about the ELM327 adapter, for any modules, services, probe     *)
(* order and fault sets.                                                   *)
(*                                                                         *)
(* None of the invariants is inductive.  What carries them is the relation *)
(* between the header cache and the chip's header register (Synced), which *)
(* is broken between a chip reset and the second recovery command, together*)
(* with the shape of the running call (Shape).                             *)
(***************************************************************************)
EXTENDS Elm327, TLAPS

InitLabels == {"INIT", "ATDPN", "ATTP", "PROBE", "POLICY"}
Registers  == Headers \cup BroadcastHeaders \cup {Default}

\* Which call may be where, and with which locals.
Shape ==
    /\ initialized => protocol \in Protocols
    /\ ~initialized => current_header = None
    /\ pc \in {"ATSH", "CMD", "ATRV", "PIDS"} => initialized
    /\ pc \in InitLabels => ~initialized
    /\ pc \in {"ATSH", "CMD"} => tgt \in Headers \cup {Broadcast} /\ svc \in Services
    /\ pc = "INIT" => idx \in 1..9
    /\ pc = "PIDS" => idx \in 1..4
    /\ pc \in {"ATTP", "PROBE"} => idx \in 1..Len(ProbeOrder)
    /\ pc = "POLICY" => protocol = found /\ found \in Protocols
    /\ pc = "idle" => idx = 1
    /\ rec > 0 => got = RESET /\ pc \notin {"idle", "POLICY"}
    /\ result.fn = "request" => initialized

\* The cache agrees with the register; None stands for the chip's default.
Synced ==
    \/ current_header = None /\ devHeader = Default
    \/ current_header # None /\ current_header = devHeader

\* On a link that keeps commands and answers in step.
LinkInv ==
    /\ rx = <<>>
    /\ rec = 0 => Synced
    /\ rec > 0 => "reset" \in env /\ devHeader = Default
    /\ rec > 1 => current_header = None
    /\ pc = "CMD" /\ rec = 0 => Reaches(devHeader, tgt)

\* On a chip that accepts every command.
ProbeInv ==
    /\ rx = <<>>
    /\ rec = 0
    /\ protocol # "Auto" => protocol = bus
    /\ pc = "PROBE" => devProto = ProbeOrder[idx]

IInv ==
    /\ TypeOK
    /\ Shape
    /\ SafeLink => LinkInv
    /\ env \subseteq {"write", "lost"} => ProbeInv
    /\ AnswerFromTarget

(***************************************************************************)
(* Constants and scripts                                                   *)
(***************************************************************************)
\* fallback_probe_order holds protocols of the families the code knows, and
\* every one of them has a broadcast header (default_broadcast_header).
LEMMA ProtocolFacts ==
    /\ \A i \in 1..Len(ProbeOrder) : ProbeOrder[i] \in Protocols
    /\ \A p \in Protocols :
          /\ p \in Can11 \cup Can29 \cup J1850 \cup KLine
          /\ p # "Auto" /\ p # None
          /\ default_broadcast_header(p) \in BroadcastHeaders
    /\ Len(ProbeOrder) \in Nat \ {0}
    /\ default_broadcast_header("Auto") = None
    /\ \A h \in BroadcastHeaders : h # None /\ h # Default
<1>1. Len(ProbeOrder) \in Nat \ {0} /\ DOMAIN ProbeOrder = 1..Len(ProbeOrder)
  BY ProbeAssumption
<1>2. \A p \in Protocols : p \in Can11 \cup Can29 \cup J1850 \cup KLine
  BY <1>1, ProbeAssumption DEF Protocols
<1>3. \A p \in Can11 \cup Can29 \cup J1850 \cup KLine :
         p # "Auto" /\ p # None /\ default_broadcast_header(p) \in BroadcastHeaders
  BY DEF Can11, Can29, J1850, KLine, None, default_broadcast_header, BroadcastHeaders
<1>4. default_broadcast_header("Auto") = None
  BY DEF Can11, Can29, J1850, KLine, default_broadcast_header
<1>5. \A h \in BroadcastHeaders : h # None /\ h # Default
  BY DEF BroadcastHeaders, None, Default
<1> QED
  BY <1>1, <1>2, <1>3, <1>4, <1>5 DEF Protocols

\* No script sends AT SH or AT TP: only set_header and probe_protocol do.
LEMMA ScriptFacts ==
    /\ Len(InitScript) = 9 /\ Len(PidBases) = 4 /\ Len(RecoveryScript) = 8
    /\ \A i \in 1..9 : InitScript[i] \notin {"ATSH", "ATTP", "ATDPN"}
    /\ \A i \in 1..4 : PidBases[i] \notin {"ATSH", "ATTP", "ATDPN"}
    /\ \A i \in 1..8 : RecoveryScript[i] \notin {"ATSH", "ATTP", "ATDPN"}
<1>1. Len(InitScript) = 9 /\ Len(PidBases) = 4 /\ Len(RecoveryScript) = 8
  BY DEF InitScript, PidBases, RecoveryScript
<1>2. \A i \in 1..9 : InitScript[i] \notin {"ATSH", "ATTP", "ATDPN"}
  BY DEF InitScript
<1>3. \A i \in 1..4 : PidBases[i] \notin {"ATSH", "ATTP", "ATDPN"}
  BY DEF PidBases
<1>4. \A i \in 1..8 : RecoveryScript[i] \notin {"ATSH", "ATTP", "ATDPN"}
  BY DEF RecoveryScript
<1> QED
  BY <1>1, <1>2, <1>3, <1>4

\* The answers the code tells apart are different.
LEMMA ReplyFacts ==
    /\ OK \in Replies /\ TEXT \in Replies /\ RESET \in Replies
    /\ ERR \notin Replies
    /\ \A r \in Outcomes :
          /\ r.kind = "OK" <=> r = OK
          /\ r.kind = "LV RESET" <=> r = RESET
          /\ r.kind = "Err" <=> r = ERR
          /\ r.kind = "PROTO" => \E p \in Protocols \cup {None} : r = Proto(p)
          /\ r.kind = "DATA" =>
                \E s \in Svc, h \in Registers : r = Data(s, h)
<1>1. OK \in Replies /\ TEXT \in Replies /\ RESET \in Replies
  BY DEF Replies, PlainKinds, OK, TEXT, RESET, Plain
<1>2. ASSUME NEW r \in Replies
      PROVE  \/ \E k \in PlainKinds : r = Plain(k)
             \/ \E s \in Svc, h \in Registers : r = Data(s, h)
             \/ \E p \in Protocols \cup {None} : r = Proto(p)
  BY <1>2 DEF Replies, Registers, Plain, Data, Proto
<1>3. \A k : Plain(k).kind = k
  BY DEF Plain
<1>4. \A s, h : Data(s, h).kind = "DATA"
  BY DEF Data
<1>5. \A p : Proto(p).kind = "PROTO"
  BY DEF Proto
<1>6. /\ ERR.kind = "Err" /\ ERR = Plain("Err") /\ OK = Plain("OK") /\ RESET = Plain("LV RESET")
      /\ PlainKinds \cap {"Err", "DATA", "PROTO"} = {}
  BY <1>3 DEF ERR, OK, RESET, PlainKinds
<1>7. ERR \notin Replies
  <2>1. ERR.kind \notin PlainKinds \cup {"DATA", "PROTO"}
    BY <1>6 DEF PlainKinds
  <2>2. \A r \in Replies : r.kind \in PlainKinds \cup {"DATA", "PROTO"}
    BY DEF Replies
  <2> QED
    BY <2>1, <2>2
<1>8. ASSUME NEW r \in Outcomes
      PROVE  /\ r.kind = "OK" <=> r = OK
             /\ r.kind = "LV RESET" <=> r = RESET
             /\ r.kind = "Err" <=> r = ERR
             /\ r.kind = "PROTO" => \E p \in Protocols \cup {None} : r = Proto(p)
             /\ r.kind = "DATA" => \E s \in Svc, h \in Registers : r = Data(s, h)
  <2>1. CASE r = ERR
    BY <2>1, <1>3, <1>6
  <2>2. CASE r # ERR
    <3>1. r \in Replies
      BY <2>2 DEF Outcomes
    <3>2. CASE \E k \in PlainKinds : r = Plain(k)
      BY <3>2, <1>3, <1>6
    <3>3. CASE \E s \in Svc, h \in Registers : r = Data(s, h)
      BY <3>3, <1>3, <1>4, <1>6
    <3>4. CASE \E p \in Protocols \cup {None} : r = Proto(p)
      BY <3>4, <1>3, <1>5, <1>6
    <3> QED
      BY <3>1, <3>2, <3>3, <3>4, <1>2
  <2> QED
    BY <2>1, <2>2
<1> QED
  BY <1>1, <1>7, <1>8

\* The link holds at most one unread answer; a read takes the oldest.
LEMMA QueueFacts ==
    ASSUME NEW q \in Seq(Replies), NEW r \in Replies
    PROVE  /\ Head(Append(q, r)) \in Replies
           /\ Tail(Append(q, r)) \in Seq(Replies) /\ Len(Tail(Append(q, r))) = Len(q)
           /\ <<r>> \in Seq(Replies) /\ Len(<<r>>) = 1
           /\ q = <<>> => Head(Append(q, r)) = r /\ Tail(Append(q, r)) = <<>>
<1>1. Append(q, r) \in Seq(Replies) /\ Len(Append(q, r)) = Len(q) + 1 /\ Len(q) \in Nat
  OBVIOUS
<1>2. Head(Append(q, r)) \in Replies
  BY <1>1
<1>3. Tail(Append(q, r)) \in Seq(Replies) /\ Len(Tail(Append(q, r))) = Len(q)
  BY <1>1
<1>4. q = <<>> => Head(Append(q, r)) = r /\ Tail(Append(q, r)) = <<>>
  OBVIOUS
<1> QED
  BY <1>2, <1>3, <1>4

(***************************************************************************)
(* The chip and the link                                                   *)
(***************************************************************************)
\* Which command is on the wire.
LEMMA WireFacts ==
    ASSUME TypeOK, Shape, pc # "idle"
    PROVE  /\ Wire = "ATSH" <=> pc = "ATSH" /\ rec = 0
           /\ Wire = "ATTP" <=> pc = "ATTP" /\ rec = 0
           /\ Wire = "ATDPN" <=> pc = "ATDPN" /\ rec = 0
           /\ pc = "PROBE" /\ rec = 0 => Wire = "0100"
           /\ pc = "CMD" /\ rec = 0 => Wire = svc /\ svc \in Services
           /\ rec > 0 => Wire \in {"ATFE", "AT"}
<1>1. CASE rec > 0
  <2>1. rec \in 1..8
    BY <1>1, ScriptFacts DEF TypeOK
  <2>2. RecoveryScript[rec] \in {"ATFE", "AT"}
    BY <2>1 DEF RecoveryScript
  <2>3. Wire = RecoveryScript[rec]
    BY <1>1 DEF Wire
  <2> QED
    BY <1>1, <2>2, <2>3
<1>2. CASE rec = 0
  <2>1. svc \in Services => svc \notin {"ATSH", "ATTP", "ATDPN"}
    BY ServicesAssumption
  <2>2. pc = "INIT" => Wire = InitScript[idx] /\ idx \in 1..9
    BY <1>2 DEF Wire, Shape
  <2>3. pc = "PIDS" => Wire = PidBases[idx] /\ idx \in 1..4
    BY <1>2 DEF Wire, Shape
  <2>4. pc = "CMD" => Wire = svc /\ svc \in Services
    BY <1>2 DEF Wire, Shape
  <2>5. pc \in {"PROBE", "POLICY"} => Wire \in {"0100", "AT"} /\ (pc = "PROBE" => Wire = "0100")
    BY <1>2 DEF Wire
  <2>6. pc \in {"ATSH", "ATTP", "ATDPN", "ATRV"} => Wire = pc
    BY <1>2 DEF Wire
  <2>7. pc \in {"INIT", "PIDS", "CMD", "PROBE", "POLICY", "ATSH", "ATTP", "ATDPN", "ATRV"}
    BY DEF TypeOK, Labels
  <2> QED
    BY <1>2, <2>1, <2>2, <2>3, <2>4, <2>5, <2>6, <2>7, ScriptFacts
<1> QED
  BY <1>1, <1>2, ScriptFacts DEF TypeOK

\* The header apply_target asks for is one the chip can hold.
LEMMA WantFacts ==
    ASSUME TypeOK, Shape, pc \in {"ATSH", "CMD"}
    PROVE  Want(tgt) \in Headers \cup BroadcastHeaders /\ Want(tgt) # None /\ Want(tgt) # Default
<1>1. protocol \in Protocols /\ tgt \in Headers \cup {Broadcast}
  BY DEF Shape
<1> QED
  BY <1>1, ProtocolFacts, HeadersAssumption DEF Want

\* What the chip may answer.
LEMMA ChipFacts ==
    ASSUME TypeOK, Shape, pc # "idle", NEW r \in ChipReplies
    PROVE  /\ r \in Replies
           /\ r = RESET => "reset" \in env
           /\ r.kind = "DATA" =>
                 Reachable /\ r.from = devHeader /\ r.svc = Wire
           /\ r.kind = "PROTO" => r.from = bus
           /\ pc = "ATDPN" /\ rec = 0 /\ env \subseteq {"write", "lost"} => r = Proto(bus)
<1> DEFINE Bus == {NODATA, NEG, BUS, CAN, ALERT}
<1>1. /\ \A x \in {TEXT, ALERT, OK, UNKNOWN, RESET} \cup Bus :
            x \in Replies /\ x.kind \notin {"DATA", "PROTO"}
      /\ \A x \in {TEXT, ALERT, OK, UNKNOWN} \cup Bus : x # RESET
  <2>1. \A k \in PlainKinds : Plain(k) \in Replies /\ Plain(k).kind = k
    BY DEF Replies, Plain
  <2>2. \A x \in {TEXT, ALERT, OK, UNKNOWN} \cup Bus :
           \E k \in PlainKinds \ {"LV RESET"} : x = Plain(k)
    BY DEF Bus, PlainKinds, NODATA, NEG, BUS, CAN, ALERT, TEXT, OK, UNKNOWN
  <2>3. "LV RESET" \in PlainKinds /\ RESET = Plain("LV RESET")
    BY DEF PlainKinds, RESET
  <2>4. \A x \in {TEXT, ALERT, OK, UNKNOWN} \cup Bus :
           x \in Replies /\ x.kind \in PlainKinds \ {"LV RESET"}
    BY <2>1, <2>2
  <2>5. RESET \in Replies /\ RESET.kind = "LV RESET"
    BY <2>1, <2>3
  <2>6. \A k \in PlainKinds : k \notin {"DATA", "PROTO"}
    BY DEF PlainKinds
  <2> QED
    BY <2>4, <2>5, <2>6
<1>2. Wire \in Svc => Data(Wire, devHeader) \in Replies
  BY DEF Replies, Data, TypeOK
<1>3. Proto(bus) \in Replies
  BY ProbeAssumption DEF Replies, Proto, TypeOK
<1>4. /\ Data(Wire, devHeader).kind = "DATA" /\ Data(Wire, devHeader).from = devHeader
      /\ Data(Wire, devHeader).svc = Wire
      /\ Proto(bus).kind = "PROTO" /\ Proto(bus).from = bus
      /\ RESET.kind = "LV RESET"
  BY DEF Data, Proto, RESET, Plain
<1>5. \/ r = RESET /\ "reset" \in env
      \/ r = UNKNOWN /\ "unknown" \in env
      \/ r \in {TEXT, ALERT, OK} \cup Bus /\ Wire # "ATDPN"
      \/ r = Proto(bus) /\ Wire = "ATDPN"
      \/ r = Data(Wire, devHeader) /\ Reachable /\ Wire \in Svc /\ Wire # "ATDPN"
  BY ServicesAssumption DEF ChipReplies, Svc, Bus
<1>6. pc = "ATDPN" /\ rec = 0 => Wire = "ATDPN"
  BY WireFacts
<1> QED
  BY <1>1, <1>2, <1>3, <1>4, <1>5, <1>6

\* A command the chip runs leaves it well-typed.
LEMMA ChipType ==
    ASSUME TypeOK, Shape, pc # "idle", NEW r \in ChipReplies, ChipRuns(r)
    PROVE  devHeader' \in Registers /\ devProto' \in Protocols \cup {"auto"}
<1>1. Wire = "ATSH" => Want(tgt) \in Registers
  BY WireFacts, WantFacts DEF Registers
<1>2. Wire = "ATTP" => ProbeOrder[idx] \in Protocols
  BY WireFacts, ProtocolFacts DEF Shape
<1> QED
  BY <1>1, <1>2 DEF ChipRuns, TypeOK, Registers

\* A command keeps the chip and the link well-typed, whatever the faults.
LEMMA RawType ==
    ASSUME TypeOK, Shape, pc # "idle", NEW out \in Outcomes, send_command_raw(out)
    PROVE  /\ devHeader' \in Registers
           /\ devProto' \in Protocols \cup {"auto"}
           /\ rx' \in Seq(Replies) /\ Len(rx') <= 1
<1>1. ASSUME NEW r \in ChipReplies, ChipRuns(r)
      PROVE  devHeader' \in Registers /\ devProto' \in Protocols \cup {"auto"}
  BY <1>1, ChipType
<1>2. \A r \in ChipReplies : r \in Replies
  BY ChipFacts
<1>3. TEXT \in Replies /\ rx \in Seq(Replies) /\ Len(rx) <= 1
  BY ReplyFacts DEF TypeOK
<1>7. <<>> \in Seq(Replies) /\ Len(<<>>) <= 1
  OBVIOUS
<1>4. CASE \E r \in ChipReplies :
             ChipRuns(r) /\ out = Head(Append(rx, r)) /\ rx' = Tail(Append(rx, r))
  BY <1>1, <1>2, <1>3, <1>4, QueueFacts
<1>5. CASE UNCHANGED device
  BY <1>5 DEF device, TypeOK, Registers
<1>6. CASE \E r \in ChipReplies : ChipRuns(r) /\ rx' \in {<<>>, <<r>>, <<TEXT>>}
  <2>1. PICK r \in ChipReplies : ChipRuns(r) /\ rx' \in {<<>>, <<r>>, <<TEXT>>}
    BY <1>6
  <2>2. \A q \in Replies : <<q>> \in Seq(Replies) /\ Len(<<q>>) <= 1
    BY <1>3, QueueFacts
  <2>3. rx' \in Seq(Replies) /\ Len(rx') <= 1
    BY <2>1, <2>2, <1>2, <1>3, <1>7
  <2> QED
    BY <1>1, <2>1, <2>3
<1> QED
  BY <1>4, <1>5, <1>6 DEF send_command_raw

\* While the link is in step, an exchange is a failed write or the answer to
\* the command just sent.
LEMMA RawSafe ==
    ASSUME TypeOK, Shape, pc # "idle", rx = <<>>, NEW out, send_command_raw(out),
           env \cap {"late", "partial"} = {}
    PROVE  /\ rx' = <<>>
           /\ \/ out = ERR /\ (Wire = "ATFE" => "fe" \in env) /\ UNCHANGED device
              \/ out = ERR /\ "lost" \in env
              \/ out \in ChipReplies /\ ChipRuns(out)
<1>1. CASE \E r \in ChipReplies :
             ChipRuns(r) /\ out = Head(Append(rx, r)) /\ rx' = Tail(Append(rx, r))
  <2>1. PICK r \in ChipReplies :
             ChipRuns(r) /\ out = Head(Append(rx, r)) /\ rx' = Tail(Append(rx, r))
    BY <1>1
  <2>2. r \in Replies /\ rx \in Seq(Replies)
    BY ChipFacts DEF TypeOK
  <2>3. out = r /\ rx' = <<>>
    BY <2>1, <2>2, QueueFacts
  <2> QED
    BY <2>1, <2>3
<1>2. CASE (IF Wire = "ATFE" THEN "fe" ELSE "write") \in env /\ out = ERR /\ UNCHANGED device
  BY <1>2 DEF device
<1>3. CASE "lost" \in env /\ out = ERR /\ rx' = <<>>
  BY <1>3
<1> QED
  BY <1>1, <1>2, <1>3 DEF send_command_raw

(***************************************************************************)
(* What the calls do with an outcome                                       *)
(***************************************************************************)
\* The two ways a continuation ends, as facts about the primed variables.
LEMMA ReturnFacts ==
    ASSUME TypeOK, NEW fn, NEW ok \in BOOLEAN, NEW r, Return(fn, ok, r)
    PROVE  /\ pc' = "idle" /\ rec' = 0 /\ got' \in Outcomes /\ idx' = 1
           /\ tgt' \in Headers \cup {Broadcast, None} /\ svc' \in Services \cup {None}
           /\ found' \in Protocols \cup {"Auto"} /\ result'.ok \in BOOLEAN
           /\ result'.fn = fn /\ result'.ok = ok /\ result'.reply = r
           /\ result'.tgt = tgt /\ result'.svc = svc
BY DEF Return, Result, Outcomes

\* What Goto sets and what it leaves alone.
LEMMA GotoFacts ==
    ASSUME TypeOK, NEW label \in Labels, NEW i \in Nat \ {0}, NEW p \in Protocols \cup {"Auto"},
           Goto(label, i, p)
    PROVE  /\ pc' = label /\ idx' = i /\ found' = p /\ rec' = 0 /\ got' \in Outcomes
           /\ UNCHANGED <<tgt, svc, result>>
BY DEF Goto, Outcomes

\* A call that returns leaves the adapter idle and everything well-typed.
LEMMA ReturnStep ==
    ASSUME TypeOK, UNCHANGED external,
           NEW fn, NEW ok \in BOOLEAN, NEW r, Return(fn, ok, r),
           devHeader' \in Registers, devProto' \in Protocols \cup {"auto"},
           rx' \in Seq(Replies), Len(rx') <= 1,
           current_header' \in Headers \cup BroadcastHeaders \cup {None},
           protocol' \in Protocols \cup {"Auto"}, initialized' \in BOOLEAN, event' \in EventKinds,
           initialized' => protocol' \in Protocols,
           ~initialized' => current_header' = None,
           fn = "request" => initialized'
    PROVE  TypeOK' /\ Shape' /\ rec' = 0
<1>1. env' = env /\ bus' = bus /\ "idle" \in Labels /\ 0 \in 0..Len(RecoveryScript)
  BY ScriptFacts DEF external, Labels
<1>2. /\ pc' = "idle" /\ rec' = 0 /\ got' \in Outcomes /\ idx' = 1
      /\ tgt' \in Headers \cup {Broadcast, None} /\ svc' \in Services \cup {None}
      /\ found' \in Protocols \cup {"Auto"} /\ result'.ok \in BOOLEAN
  BY ReturnFacts
<1>3. result'.fn = fn /\ result'.ok = ok /\ result'.reply = r /\ result'.svc = svc
  BY ReturnFacts
<1>4. TypeOK'
  BY <1>1, <1>2 DEF TypeOK, Registers
<1>5. Shape'
  BY <1>2, <1>3 DEF Shape, InitLabels
<1> QED
  BY <1>2, <1>4, <1>5

\* The end of initialize, by detection or by probing.
LEMMA SelectType ==
    ASSUME TypeOK, Shape, UNCHANGED external,
           pc \in {"ATDPN", "PROBE"}, UNCHANGED current_header,
           NEW p \in Protocols \cup {"Auto"}, SelectProtocol(p),
           devHeader' \in Registers, devProto' \in Protocols \cup {"auto"},
           rx' \in Seq(Replies), Len(rx') <= 1
    PROVE  TypeOK' /\ Shape' /\ rec' = 0
<1>0. /\ env' = env /\ bus' = bus /\ "idle" \in Labels /\ "POLICY" \in Labels
      /\ 0 \in 0..Len(RecoveryScript) /\ pc \in InitLabels
      /\ "unsupported" \in EventKinds /\ "none" \in EventKinds /\ "selected" \in EventKinds
  BY ScriptFacts DEF external, Labels, InitLabels, EventKinds
<1>1. CASE /\ p = "Auto" /\ event' = "unsupported" /\ Return("init", FALSE, OK)
           /\ UNCHANGED <<protocol, initialized>>
  BY <1>0, <1>1, ReturnStep DEF TypeOK, Shape, InitLabels
<1>2. CASE p # "Auto" /\ protocol' = p /\ InitializeOk
  <2>1. initialized' = TRUE /\ event' = "none" /\ Return("init", TRUE, OK) /\ p \in Protocols
    BY <1>2 DEF InitializeOk
  <2> QED
    BY <1>0, <1>2, <2>1, ReturnStep DEF TypeOK, Shape, InitLabels
<1>3. CASE /\ p # "Auto" /\ protocol' = p /\ event' = "selected" /\ Goto("POLICY", 1, p)
           /\ UNCHANGED initialized
  <2>1. /\ pc' = "POLICY" /\ idx' = 1 /\ found' = p /\ rec' = 0 /\ got' \in Outcomes
        /\ UNCHANGED <<tgt, svc, result>>
    BY <1>0, <1>3, GotoFacts
  <2> QED
    BY <1>0, <1>3, <2>1 DEF TypeOK, Shape, InitLabels, Registers
<1> QED
  BY <1>1, <1>2, <1>3 DEF SelectProtocol

\* The type invariant and the shape follow from those of the parts.
LEMMA DeliverType ==
    ASSUME TypeOK, Shape, UNCHANGED external,
           pc \notin {"idle", "POLICY"},
           NEW out \in Outcomes, NEW e \in EventKinds, Deliver(out, e),
           devHeader' \in Registers, devProto' \in Protocols \cup {"auto"},
           rx' \in Seq(Replies), Len(rx') <= 1
    PROVE  TypeOK' /\ Shape' /\ rec' = 0
<1>0. /\ env' = env /\ bus' = bus
      /\ "idle" \in Labels /\ "CMD" \in Labels /\ "PIDS" \in Labels /\ "INIT" \in Labels
      /\ "ATDPN" \in Labels /\ "ATTP" \in Labels /\ "PROBE" \in Labels /\ "POLICY" \in Labels
      /\ 0 \in 0..Len(RecoveryScript)
  BY ScriptFacts DEF external, Labels
<1>1. CASE set_header(out, e)
  <2>1. CASE out.kind = "OK"
    <3>1. /\ pc = "ATSH" /\ event' = e /\ current_header' = Want(tgt)
          /\ Goto("CMD", 1, "Auto") /\ UNCHANGED <<protocol, initialized>>
      BY <1>1, <2>1 DEF set_header
    <3>2. current_header' \in Headers \cup BroadcastHeaders
      BY <3>1, WantFacts
    <3>3. /\ pc' = "CMD" /\ idx' = 1 /\ found' = "Auto" /\ rec' = 0 /\ got' \in Outcomes
          /\ UNCHANGED <<tgt, svc, result>>
      BY <3>1, <1>0, GotoFacts
    <3>4. TypeOK'
      BY <1>0, <3>1, <3>2, <3>3 DEF TypeOK, Registers
    <3>5. Shape'
      BY <3>1, <3>2, <3>3 DEF Shape, InitLabels
    <3> QED
      BY <3>3, <3>4, <3>5
  <2>2. CASE out.kind # "OK"
    <3>1. /\ pc = "ATSH" /\ event' = e /\ Return("request", FALSE, out)
          /\ UNCHANGED <<current_header, protocol, initialized>>
      BY <1>1, <2>2 DEF set_header
    <3> QED
      BY <1>0, <3>1, ReturnStep DEF TypeOK, Shape, InitLabels
  <2> QED
    BY <2>1, <2>2
<1>2. CASE send_routed_command(out, e)
  <2>1. /\ pc = "CMD" /\ event' = e /\ UNCHANGED <<current_header, protocol, initialized>>
        /\ Return("request", out.kind = "DATA" /\ out.svc = svc, out)
    BY <1>2 DEF send_routed_command, decode_elm_response_payload_for_command
  <2> DEFINE ok == out.kind = "DATA" /\ out.svc = svc
  <2>2. ok \in BOOLEAN
    OBVIOUS
  <2> HIDE DEF ok
  <2>3. Return("request", ok, out)
    BY <2>1 DEF ok
  <2> QED
    BY <2>1, <2>2, <2>3, ReturnStep DEF ok, TypeOK, Shape
<1>3. CASE battery_voltage(out, e)
  <2>1. /\ pc = "ATRV" /\ event' = e /\ UNCHANGED <<current_header, protocol, initialized>>
        /\ Return("voltage", out # ERR, out)
    BY <1>3 DEF battery_voltage
  <2> QED
    BY <1>0, <2>1, ReturnStep DEF TypeOK, Shape, InitLabels
<1>4. CASE supported_pids(out, e)
  <2>1. pc = "PIDS" /\ event' = e /\ UNCHANGED <<current_header, protocol, initialized>>
    BY <1>4 DEF supported_pids
  <2>2. CASE Return("pids", TRUE, out)
    BY <1>0, <2>1, <2>2, ReturnStep DEF TypeOK, Shape, InitLabels
  <2>3. CASE idx # Len(PidBases) /\ Goto("PIDS", idx + 1, "Auto")
    <3>1. idx \in 1..3 /\ idx + 1 \in Nat \ {0}
      BY <2>1, <2>3, ScriptFacts DEF Shape
    <3>2. /\ pc' = "PIDS" /\ idx' = idx + 1 /\ found' = "Auto" /\ rec' = 0 /\ got' \in Outcomes
          /\ UNCHANGED <<tgt, svc, result>>
      BY <1>0, <2>3, <3>1, GotoFacts
    <3> QED
      BY <1>0, <2>1, <3>1, <3>2 DEF TypeOK, Shape, InitLabels, Registers
  <2> QED
    BY <1>4, <2>2, <2>3 DEF supported_pids
<1>5. CASE InitConfigure(out, e)
  <2>1. pc = "INIT" /\ event' = e /\ UNCHANGED <<current_header, protocol, initialized>>
    BY <1>5 DEF InitConfigure
  <2>2. CASE Return("init", FALSE, out)
    BY <1>0, <2>1, <2>2, ReturnStep DEF TypeOK, Shape, InitLabels
  <2>3. CASE idx < Len(InitScript) /\ Goto("INIT", idx + 1, "Auto")
    <3>1. idx \in 1..8 /\ idx + 1 \in Nat \ {0}
      BY <2>1, <2>3, ScriptFacts DEF Shape
    <3>2. /\ pc' = "INIT" /\ idx' = idx + 1 /\ found' = "Auto" /\ rec' = 0 /\ got' \in Outcomes
          /\ UNCHANGED <<tgt, svc, result>>
      BY <1>0, <2>3, <3>1, GotoFacts
    <3> QED
      BY <1>0, <2>1, <3>1, <3>2 DEF TypeOK, Shape, InitLabels, Registers
  <2>4. CASE Goto(IF ProbeSucceeds(out) THEN "ATDPN" ELSE "ATTP", 1, "Auto")
    <3>1. /\ pc' \in {"ATDPN", "ATTP"} /\ idx' = 1 /\ found' = "Auto" /\ rec' = 0
          /\ got' \in Outcomes /\ UNCHANGED <<tgt, svc, result>>
      BY <1>0, <2>4, GotoFacts
    <3>2. 1 \in 1..Len(ProbeOrder)
      BY ProtocolFacts
    <3> QED
      BY <1>0, <2>1, <3>1, <3>2 DEF TypeOK, Shape, InitLabels, Registers
  <2> QED
    BY <1>5, <2>2, <2>3, <2>4 DEF InitConfigure
<1>6. CASE InitDetected(out)
  <2>1. PICK p \in parse_protocol_response(out) : SelectProtocol(p)
    BY <1>6 DEF InitDetected
  <2>2. p \in Protocols \cup {"Auto"}
    <3>1. out.kind = "PROTO" => out.from \in Protocols \cup {None}
      <4>1. \A x : Proto(x).from = x
        BY DEF Proto
      <4>2. out.kind = "PROTO" => \E x \in Protocols \cup {None} : out = Proto(x)
        BY ReplyFacts
      <4> QED
        BY <4>1, <4>2
    <3> QED
      BY <2>1, <3>1 DEF parse_protocol_response
  <2> QED
    BY <1>6, <2>1, <2>2, SelectType DEF InitDetected
<1>7. CASE probe_protocol(out, e)
  <2>1. CASE /\ event' = e /\ UNCHANGED <<current_header, protocol, initialized>>
             /\ pc \in {"ATTP", "PROBE"} /\ Return("init", FALSE, out)
    BY <1>0, <2>1, ReturnStep DEF TypeOK, Shape, InitLabels
  <2>2. CASE /\ event' = e /\ UNCHANGED <<current_header, protocol, initialized>>
             /\ pc = "ATTP" /\ Goto("PROBE", idx, "Auto")
    <3>1. /\ pc' = "PROBE" /\ idx' = idx /\ found' = "Auto" /\ rec' = 0 /\ got' \in Outcomes
          /\ UNCHANGED <<tgt, svc, result>>
      BY <1>0, <2>2, GotoFacts DEF TypeOK
    <3> QED
      BY <1>0, <2>2, <3>1 DEF TypeOK, Shape, InitLabels, Registers
  <2>3. CASE /\ event' = e /\ UNCHANGED <<current_header, protocol, initialized>>
             /\ pc = "PROBE" /\ idx < Len(ProbeOrder) /\ Goto("ATTP", idx + 1, "Auto")
    <3>1. idx \in Nat /\ idx + 1 \in Nat \ {0} /\ idx + 1 \in 1..Len(ProbeOrder)
      BY <2>3, ProtocolFacts DEF TypeOK
    <3>2. /\ pc' = "ATTP" /\ idx' = idx + 1 /\ found' = "Auto" /\ rec' = 0 /\ got' \in Outcomes
          /\ UNCHANGED <<tgt, svc, result>>
      BY <1>0, <2>3, <3>1, GotoFacts
    <3> QED
      BY <1>0, <2>3, <3>1, <3>2 DEF TypeOK, Shape, InitLabels, Registers
  <2>4. CASE /\ pc = "PROBE" /\ UNCHANGED current_header
             /\ SelectProtocol(ProbeOrder[idx]) \/ SelectProtocol("Auto")
    <3>1. ProbeOrder[idx] \in Protocols
      BY <2>4, ProtocolFacts DEF Shape
    <3> QED
      BY <2>4, <3>1, SelectType
  <2> QED
    BY <1>7, <2>1, <2>2, <2>3, <2>4 DEF probe_protocol
<1> QED
  BY <1>1, <1>2, <1>3, <1>4, <1>5, <1>6, <1>7 DEF Deliver

(***************************************************************************)
(* The header cache                                                        *)
(***************************************************************************)
\* What a command does to the chip while the link is in step.
LEMMA SafeExchange ==
    ASSUME TypeOK, Shape, SafeLink, rx = <<>>, pc # "idle",
           NEW out \in Outcomes, send_command_raw(out)
    PROVE  /\ rx' = <<>>
           /\ out = ERR => rec # 1 /\ devHeader' = devHeader
           /\ out = RESET => "reset" \in env /\ devHeader' = Default
           /\ out.kind = "DATA" => out.from = devHeader
           /\ devHeader = Default /\ (pc # "ATSH" \/ rec > 0) => devHeader' = Default
           /\ (pc # "ATSH" \/ rec > 0) /\ pc # "INIT" /\ out # RESET => devHeader' = devHeader
           /\ pc = "ATSH" /\ rec = 0 => devHeader' = IF out = OK THEN Want(tgt)
                                                   ELSE IF out = RESET THEN Default ELSE devHeader
<1>1. env \cap {"late", "partial", "lost", "fe"} = {}
  BY DEF SafeLink
<1>2. /\ rx' = <<>>
      /\ \/ out = ERR /\ Wire # "ATFE" /\ UNCHANGED device
         \/ out \in ChipReplies /\ ChipRuns(out)
  <2>1. env \cap {"late", "partial"} = {} /\ "lost" \notin env /\ "fe" \notin env
    BY <1>1
  <2> QED
    BY <2>1, RawSafe
<1>3. /\ Wire = "ATSH" <=> pc = "ATSH" /\ rec = 0
      /\ Wire = "ATZ" => pc = "INIT"
  <2>1. \A i \in 1..4 : PidBases[i] # "ATZ"
    BY DEF PidBases
  <2>2. svc \in Services => svc # "ATZ"
    BY ServicesAssumption
  <2>3. rec > 0 => Wire # "ATZ"
    BY WireFacts
  <2>4. rec = 0 /\ Wire = "ATZ" => pc = "INIT"
    BY <2>1, <2>2 DEF Wire, Shape, TypeOK, Labels
  <2> QED
    BY <2>3, <2>4, WireFacts, ScriptFacts DEF TypeOK
<1>4. CASE out = ERR /\ Wire # "ATFE" /\ UNCHANGED device
  <2>1. out # OK /\ out # RESET /\ out.kind # "DATA"
    BY <1>4, ReplyFacts DEF Outcomes, ERR, Plain
  <2>2. rec # 1
    BY <1>4 DEF Wire, RecoveryScript
  <2> QED
    BY <1>2, <1>4, <2>1, <2>2 DEF device
<1>5. CASE out \in ChipReplies /\ ChipRuns(out)
  <2>1. out # ERR /\ OK # RESET
    BY <1>5, ChipFacts, ReplyFacts DEF OK, RESET, Plain
  <2>2. /\ out = RESET => "reset" \in env
        /\ out.kind = "DATA" => out.from = devHeader
    BY <1>5, ChipFacts
  <2>3. devHeader' = IF out = RESET \/ Wire = "ATZ" THEN Default
                     ELSE IF Wire = "ATSH" /\ out = OK THEN Want(tgt)
                     ELSE devHeader
    BY <1>5 DEF ChipRuns
  <2> QED
    BY <1>2, <1>3, <2>1, <2>2, <2>3
<1> QED
  BY <1>2, <1>4, <1>5

\* What the continuations do to the cache, the protocol and the result.
LEMMA DeliverFacts ==
    ASSUME TypeOK, Shape, pc \notin {"idle", "POLICY"},
           NEW out \in Outcomes, NEW e, Deliver(out, e)
    PROVE  /\ \/ current_header' = current_header
              \/ pc = "ATSH" /\ out = OK /\ current_header' = Want(tgt)
           /\ pc' = "CMD" => /\ pc = "ATSH" /\ out = OK /\ current_header' = Want(tgt)
                             /\ tgt' = tgt
           /\ \/ result' = result
              \/ ~(result'.fn = "request" /\ result'.ok)
              \/ /\ pc = "CMD" /\ out.kind = "DATA"
                 /\ result'.reply = out /\ result'.tgt = tgt
           /\ \/ UNCHANGED <<protocol, initialized>>
              \/ ~initialized /\ pc = "ATDPN" /\ protocol' \in parse_protocol_response(out) \ {"Auto"}
              \/ ~initialized /\ pc = "PROBE" /\ ProbeSucceeds(out) /\ protocol' = ProbeOrder[idx]
           /\ pc' = "PROBE" => pc = "ATTP" /\ out # ERR /\ idx' = idx
<1> USE DEF InitLabels
<1>0. out.kind = "OK" <=> out = OK
  BY ReplyFacts
<1>1. ASSUME NEW fn, NEW ok \in BOOLEAN, NEW r, Return(fn, ok, r)
      PROVE  pc' = "idle" /\ result'.fn = fn /\ result'.ok = ok /\ result'.reply = r
             /\ result'.tgt = tgt
  BY <1>1, ReturnFacts
<1>2. ASSUME NEW p, SelectProtocol(p), pc \in {"ATDPN", "PROBE"}, UNCHANGED current_header
      PROVE  /\ pc' \in {"idle", "POLICY"}
             /\ result' = result \/ ~(result'.fn = "request" /\ result'.ok)
             /\ (UNCHANGED <<protocol, initialized>>) \/ (protocol' = p /\ p # "Auto")
             /\ ~initialized
  <2>1. ~initialized
    BY <1>2 DEF Shape
  <2>2. CASE Return("init", FALSE, OK) /\ UNCHANGED <<protocol, initialized>>
    BY <1>1, <2>1, <2>2
  <2>3. CASE p # "Auto" /\ protocol' = p /\ Return("init", TRUE, OK)
    <3>1. pc' = "idle" /\ result'.fn = "init"
      BY <2>3 DEF Return, Result
    <3> QED
      BY <2>1, <2>3, <3>1
  <2>4. CASE p # "Auto" /\ protocol' = p /\ Goto("POLICY", 1, p)
    BY <2>1, <2>4 DEF Goto
  <2> QED
    BY <1>2, <2>2, <2>3, <2>4 DEF SelectProtocol, InitializeOk
<1>3. CASE set_header(out, e)
  <2>1. CASE out = OK
    BY <1>0, <1>3, <2>1 DEF set_header, Goto
  <2>2. CASE out # OK
    BY <1>0, <1>1, <1>3, <2>2 DEF set_header
  <2> QED
    BY <2>1, <2>2
<1>4. CASE send_routed_command(out, e)
  <2> DEFINE ok == out.kind = "DATA" /\ out.svc = svc
  <2>1. /\ pc = "CMD" /\ UNCHANGED <<current_header, protocol, initialized>>
        /\ ok \in BOOLEAN /\ Return("request", ok, out)
    BY <1>4 DEF send_routed_command, decode_elm_response_payload_for_command
  <2>2. ok => out.kind = "DATA"
    OBVIOUS
  <2> HIDE DEF ok
  <2> QED
    BY <1>1, <2>1, <2>2
<1>5. CASE battery_voltage(out, e)
  <2>1. UNCHANGED <<current_header, protocol, initialized>> /\ Return("voltage", out # ERR, out)
    BY <1>5 DEF battery_voltage
  <2> QED
    BY <1>1, <2>1
<1>6. CASE supported_pids(out, e)
  <2>1. pc = "PIDS" /\ UNCHANGED <<current_header, protocol, initialized>>
    BY <1>6 DEF supported_pids
  <2>2. CASE Return("pids", TRUE, out)
    BY <1>1, <2>1, <2>2
  <2>3. CASE Goto("PIDS", idx + 1, "Auto")
    BY <2>1, <2>3 DEF Goto
  <2> QED
    BY <1>6, <2>2, <2>3 DEF supported_pids
<1>7. CASE InitConfigure(out, e)
  <2>1. pc = "INIT" /\ UNCHANGED <<current_header, protocol, initialized>>
    BY <1>7 DEF InitConfigure
  <2>2. CASE Return("init", FALSE, out)
    BY <1>1, <2>1, <2>2
  <2>3. CASE \E l \in {"INIT", "ATDPN", "ATTP"}, i \in {1, idx + 1} : Goto(l, i, "Auto")
    BY <2>1, <2>3 DEF Goto
  <2> QED
    BY <1>7, <2>2, <2>3 DEF InitConfigure
<1>8. CASE InitDetected(out)
  <2>1. PICK p \in parse_protocol_response(out) : SelectProtocol(p)
    BY <1>8 DEF InitDetected
  <2>2. pc = "ATDPN" /\ UNCHANGED current_header
    BY <1>8 DEF InitDetected
  <2> QED
    BY <1>2, <2>1, <2>2
<1>9. CASE probe_protocol(out, e)
  <2>1. CASE /\ UNCHANGED <<current_header, protocol, initialized>>
             /\ Return("init", FALSE, out)
    BY <1>1, <2>1
  <2>2. CASE /\ UNCHANGED <<current_header, protocol, initialized>>
             /\ \/ pc = "ATTP" /\ out # ERR /\ Goto("PROBE", idx, "Auto")
                \/ Goto("ATTP", idx + 1, "Auto")
    BY <2>2 DEF Goto
  <2>3. CASE /\ pc = "PROBE" /\ UNCHANGED current_header
             /\ \/ ProbeSucceeds(out) /\ SelectProtocol(ProbeOrder[idx])
                \/ SelectProtocol("Auto")
    BY <1>2, <2>3
  <2> QED
    BY <1>9, <2>1, <2>2, <2>3 DEF probe_protocol
<1> QED
  BY <1>3, <1>4, <1>5, <1>6, <1>7, <1>8, <1>9 DEF Deliver

\* The cache invariant survives a continuation, given what the exchange that
\* preceded it left in the chip.
LEMMA DeliverSafe ==
    ASSUME TypeOK, Shape, SafeLink, LinkInv, AnswerFromTarget, UNCHANGED external,
           pc \notin {"idle", "POLICY"}, rx' = <<>>,
           NEW out \in Outcomes, NEW e, Deliver(out, e), rec' = 0,
           ~(pc = "ATSH" /\ out = OK) =>
              \/ current_header = None /\ devHeader' = Default
              \/ current_header # None /\ current_header = devHeader',
           pc = "ATSH" /\ out = OK => devHeader' = Want(tgt),
           pc = "CMD" /\ out.kind = "DATA" => Reaches(out.from, tgt)
    PROVE  LinkInv' /\ AnswerFromTarget'
<1>1. Synced'
  <2>1. CASE pc = "ATSH" /\ out = OK
    <3>1. current_header' = Want(tgt) /\ devHeader' = Want(tgt)
      <4>1. current_header' = Want(tgt)
        BY <2>1 DEF Deliver, set_header, send_routed_command, battery_voltage, supported_pids,
                    InitConfigure, InitDetected, probe_protocol, OK, Plain
      <4> QED
        BY <2>1, <4>1
    <3> QED
      BY <2>1, <3>1, WantFacts DEF Synced
  <2>2. CASE ~(pc = "ATSH" /\ out = OK)
    BY <2>2, DeliverFacts DEF Synced
  <2> QED
    BY <2>1, <2>2
<1>2. pc' = "CMD" => Reaches(devHeader, tgt)'
  <2>1. SUFFICES ASSUME pc' = "CMD"
                 PROVE  Reaches(devHeader, tgt)'
    OBVIOUS
  <2>2. pc = "ATSH" /\ out = OK /\ tgt' = tgt
    BY <2>1, DeliverFacts
  <2>3. protocol' = protocol
    BY <2>2, DeliverFacts
  <2>4. devHeader' = Want(tgt) /\ tgt \in Headers \cup {Broadcast}
    BY <2>2 DEF Shape
  <2> QED
    BY <2>2, <2>3, <2>4 DEF Reaches, Want
<1>3. LinkInv'
  BY <1>1, <1>2 DEF LinkInv
<1>4. AnswerFromTarget'
  <2>1. SUFFICES ASSUME result'.fn = "request", result'.ok
                 PROVE  Reaches(result.reply.from, result.tgt)'
    BY DEF AnswerFromTarget
  <2>2. CASE result' = result
    <3>1. initialized
      BY <2>1, <2>2 DEF Shape
    <3>2. protocol' = protocol
      BY <3>1, DeliverFacts
    <3>3. Reaches(result.reply.from, result.tgt)
      BY <2>1, <2>2 DEF AnswerFromTarget
    <3> QED
      BY <2>2, <3>2, <3>3 DEF Reaches
  <2>3. CASE /\ pc = "CMD" /\ out.kind = "DATA"
             /\ result'.reply = out /\ result'.tgt = tgt
    <3>1. protocol' = protocol
      BY <2>3, DeliverFacts
    <3>2. Reaches(out.from, tgt)
      BY <2>3
    <3> QED
      BY <2>3, <3>1, <3>2 DEF Reaches
  <2> QED
    BY <2>1, <2>2, <2>3, DeliverFacts
<1> QED
  BY <1>3, <1>4

(***************************************************************************)
(* The selected protocol                                                   *)
(***************************************************************************)
\* On a chip that accepts every command, a continuation selects the protocol
\* the vehicle speaks or none.
LEMMA DeliverProbe ==
    ASSUME TypeOK, Shape, ProbeInv, env \subseteq {"write", "lost"}, UNCHANGED external,
           pc \notin {"idle", "POLICY"}, NEW out \in Outcomes, NEW e, Deliver(out, e),
           rec' = 0, send_command_raw(out)
    PROVE  ProbeInv'
<1>1. rx = <<>> /\ rec = 0 /\ bus' = bus
  BY DEF ProbeInv, external
<1>2. rx' = <<>> /\ (out = ERR \/ (out \in ChipReplies /\ ChipRuns(out)))
  <2>1. env \cap {"late", "partial"} = {}
    OBVIOUS
  <2> QED
    BY <1>1, <2>1, RawSafe
<1>3. protocol' # "Auto" => protocol' = bus
  <2>1. CASE protocol' = protocol
    BY <2>1 DEF ProbeInv
  <2>2. CASE pc = "ATDPN" /\ protocol' \in parse_protocol_response(out) \ {"Auto"}
    <3>1. CASE out = ERR
      <4>1. parse_protocol_response(out) = {"Auto"}
        BY <3>1 DEF parse_protocol_response, ERR, Plain
      <4> QED
        BY <2>2, <4>1
    <3>2. CASE out \in ChipReplies
      <4>1. out = Proto(bus)
        BY <1>1, <2>2, <3>2, ChipFacts
      <4>2. out.kind = "PROTO" /\ out.from = bus
        BY <4>1 DEF Proto
      <4>3. parse_protocol_response(out) = {IF bus = None THEN "Auto" ELSE bus}
        <5>1. out \notin {OK, UNKNOWN, ERR}
          BY <4>2 DEF OK, UNKNOWN, ERR, Plain
        <5> QED
          BY <4>2, <5>1 DEF parse_protocol_response
      <4> QED
        BY <2>2, <4>3
    <3> QED
      BY <1>2, <3>1, <3>2
  <2>3. CASE pc = "PROBE" /\ ProbeSucceeds(out) /\ protocol' = ProbeOrder[idx]
    <3>1. out.kind = "DATA"
      BY <2>3 DEF ProbeSucceeds
    <3>2. out # ERR
      BY <3>1, ReplyFacts
    <3>3. Reachable
      BY <1>2, <3>1, <3>2, ChipFacts
    <3>4. devProto = ProbeOrder[idx] /\ ProbeOrder[idx] \in Protocols
      BY <2>3, ProtocolFacts DEF ProbeInv, Shape
    <3>5. "auto" \notin Protocols
      <4>1. \A p \in Can11 \cup Can29 \cup J1850 \cup KLine : p # "auto"
        BY DEF Can11, Can29, J1850, KLine
      <4> QED
        BY <4>1, ProtocolFacts
    <3> QED
      BY <2>3, <3>3, <3>4, <3>5 DEF Reachable
  <2> QED
    BY <2>1, <2>2, <2>3, DeliverFacts
<1>4. pc' = "PROBE" => devProto' = ProbeOrder[idx]'
  <2>1. SUFFICES ASSUME pc' = "PROBE"
                 PROVE  devProto' = ProbeOrder[idx']
    OBVIOUS
  <2>2. pc = "ATTP" /\ out # ERR /\ idx' = idx
    BY <2>1, DeliverFacts
  <2>3. out \in ChipReplies /\ ChipRuns(out) /\ Wire = "ATTP"
    BY <1>1, <1>2, <2>2, WireFacts
  <2>4. out = OK
    <3>1. "ATTP" \notin Svc \cup {"0120", "0140", "0160"}
      BY ServicesAssumption DEF Svc
    <3> QED
      BY <2>3, <3>1 DEF ChipReplies
  <2>5. OK # RESET
    BY DEF OK, RESET, Plain
  <2> QED
    BY <2>2, <2>3, <2>4, <2>5 DEF ChipRuns
<1> QED
  BY <1>1, <1>2, <1>3, <1>4 DEF ProbeInv

(***************************************************************************)
(* The inductive invariant                                                 *)
(***************************************************************************)
\* The initial states satisfy the inductive invariant.
LEMMA InitIInv == Init => IInv
<1> SUFFICES ASSUME Init
             PROVE  IInv
  OBVIOUS
<1>1. TypeOK
  <2>1. ERR \in Outcomes /\ 0 \in 0..Len(RecoveryScript)
    BY ScriptFacts DEF Outcomes
  <2>2. <<>> \in Seq(Replies) /\ Len(<<>>) <= 1
    OBVIOUS
  <2>3. result.ok \in BOOLEAN
    BY DEF Init, NoResult
  <2>4. /\ env \in FaultModels /\ bus \in Buses
        /\ devHeader \in Headers \cup BroadcastHeaders \cup {Default}
        /\ devProto \in Protocols \cup {"auto"}
        /\ current_header \in Headers \cup BroadcastHeaders \cup {None}
        /\ protocol \in Protocols \cup {"Auto"}
        /\ initialized \in BOOLEAN
        /\ event \in EventKinds /\ pc \in Labels
    BY DEF Init, Labels, EventKinds
  <2>5. /\ tgt \in Headers \cup {Broadcast, None}
        /\ svc \in Services \cup {None}
        /\ idx \in Nat \ {0}
        /\ found \in Protocols \cup {"Auto"}
    BY DEF Init
  <2> QED
    BY <2>1, <2>2, <2>3, <2>4, <2>5 DEF Init, TypeOK
<1>2. Shape
  BY DEF Init, Shape, InitLabels, NoResult, None
<1>3. LinkInv /\ ProbeInv
  BY DEF Init, LinkInv, ProbeInv, Synced
<1>4. AnswerFromTarget
  BY DEF Init, AnswerFromTarget, NoResult
<1> QED
  BY <1>1, <1>2, <1>3, <1>4 DEF IInv

\* Every outcome records an event of a known kind.
LEMMA EventFacts == ASSUME TypeOK, NEW out PROVE record_response_events(out) \in EventKinds
BY DEF record_response_events, TypeOK, EventKinds

\* A command of a call, with the continuation that follows it or the start of
\* the recovery.
LEMMA SendStep == IInv /\ send_command => IInv'
<1> SUFFICES ASSUME IInv, send_command
             PROVE  IInv'
  OBVIOUS
<1>1. /\ TypeOK /\ Shape /\ AnswerFromTarget
      /\ SafeLink => LinkInv
      /\ env \subseteq {"write", "lost"} => ProbeInv
  BY DEF IInv
<1>2. pc \notin {"idle", "POLICY"} /\ rec = 0 /\ env' = env /\ bus' = bus /\ UNCHANGED external
  BY DEF send_command, external
<1>3. PICK out \in Outcomes :
        /\ send_command_raw(out)
        /\ IF out = RESET
           THEN /\ rec' = 1 /\ got' = out
                /\ event' = record_response_events(out)
                /\ UNCHANGED <<current_header, protocol, initialized,
                               pc, tgt, svc, idx, found, result>>
           ELSE Deliver(out, record_response_events(out))
  BY DEF send_command
<1>4. /\ devHeader' \in Registers /\ devProto' \in Protocols \cup {"auto"}
      /\ rx' \in Seq(Replies) /\ Len(rx') <= 1
  BY <1>1, <1>2, <1>3, RawType
<1>5. record_response_events(out) \in EventKinds
  BY <1>1, EventFacts
<1>6. SafeLink' = SafeLink
  BY <1>2 DEF SafeLink
<1>7. CASE out = RESET
  <2>1. /\ rec' = 1 /\ got' = RESET /\ event' \in EventKinds
        /\ UNCHANGED <<current_header, protocol, initialized, pc, tgt, svc, idx, found, result>>
    BY <1>3, <1>5, <1>7
  <2>2. TypeOK'
    <3>1. RESET \in Outcomes
      BY ReplyFacts DEF Outcomes
    <3>2. 1 \in 0..Len(RecoveryScript)
      BY ScriptFacts
    <3> QED
      BY <1>1, <1>2, <1>4, <2>1, <3>1, <3>2 DEF TypeOK, Registers
  <2>3. Shape'
    BY <1>1, <1>2, <2>1 DEF Shape
  <2>4. SafeLink => LinkInv'
    <3>1. SUFFICES ASSUME SafeLink
                   PROVE  LinkInv'
      OBVIOUS
    <3>2. rx = <<>>
      BY <1>1, <3>1 DEF LinkInv
    <3>3. rx' = <<>> /\ "reset" \in env /\ devHeader' = Default
      BY <1>1, <1>2, <1>3, <1>7, <3>1, <3>2, SafeExchange
    <3> QED
      BY <1>2, <2>1, <3>3 DEF LinkInv
  <2>5. ~(env \subseteq {"write", "lost"})
    <3>1. SUFFICES ASSUME env \subseteq {"write", "lost"}
                   PROVE  FALSE
      OBVIOUS
    <3>2. rx = <<>> /\ env \cap {"late", "partial"} = {} /\ "reset" \notin env
      BY <1>1, <3>1 DEF ProbeInv
    <3>3. out # ERR
      BY <1>7, ReplyFacts
    <3>4. out \in ChipReplies
      BY <1>1, <1>2, <1>3, <3>2, <3>3, RawSafe
    <3> QED
      BY <1>1, <1>2, <1>7, <3>2, <3>4, ChipFacts
  <2>6. AnswerFromTarget'
    BY <1>1, <1>6, <2>1 DEF AnswerFromTarget, Reaches
  <2> QED
    BY <1>2, <1>6, <2>2, <2>3, <2>4, <2>5, <2>6 DEF IInv
<1>8. CASE out # RESET
  <2>1. Deliver(out, record_response_events(out))
    BY <1>3, <1>8
  <2>2. TypeOK' /\ Shape' /\ rec' = 0
    BY <1>1, <1>2, <1>4, <1>5, <2>1, DeliverType
  <2>3. SafeLink => LinkInv' /\ AnswerFromTarget'
    <3>1. SUFFICES ASSUME SafeLink
                   PROVE  LinkInv' /\ AnswerFromTarget'
      OBVIOUS
    <3>2. LinkInv /\ rx = <<>> /\ Synced
      BY <1>1, <1>2, <3>1 DEF LinkInv
    <3>3. /\ rx' = <<>>
          /\ out.kind = "DATA" => out.from = devHeader
          /\ devHeader = Default /\ pc # "ATSH" => devHeader' = Default
          /\ pc # "ATSH" /\ pc # "INIT" => devHeader' = devHeader
          /\ pc = "ATSH" => devHeader' = IF out = OK THEN Want(tgt) ELSE devHeader
      BY <1>1, <1>2, <1>3, <1>8, <3>1, <3>2, SafeExchange
    <3>4. pc = "INIT" => current_header = None /\ devHeader = Default
      BY <1>1, <3>2 DEF Shape, InitLabels, Synced
    <3>5. ~(pc = "ATSH" /\ out = OK) =>
              \/ current_header = None /\ devHeader' = Default
              \/ current_header # None /\ current_header = devHeader'
      BY <3>2, <3>3, <3>4 DEF Synced
    <3>6. pc = "CMD" /\ out.kind = "DATA" => Reaches(out.from, tgt)
      BY <1>2, <3>2, <3>3 DEF LinkInv
    <3> QED
      BY <1>1, <1>2, <2>1, <2>2, <3>1, <3>2, <3>3, <3>5, <3>6, DeliverSafe
  <2>4. AnswerFromTarget'
    BY <1>6, <2>3 DEF AnswerFromTarget
  <2>5. env \subseteq {"write", "lost"} => ProbeInv'
    BY <1>1, <1>2, <1>3, <2>1, <2>2, DeliverProbe
  <2> QED
    BY <1>2, <1>6, <2>2, <2>3, <2>4, <2>5 DEF IInv
<1> QED
  BY <1>7, <1>8

\* A recovery command: AT FE, the runtime defaults, and at the end the
\* continuation of the command that met the fault.
LEMMA RecoverStep == IInv /\ recover_from_adapter_fault => IInv'
<1> SUFFICES ASSUME IInv, recover_from_adapter_fault
             PROVE  IInv'
  OBVIOUS
<1>1. /\ TypeOK /\ Shape /\ AnswerFromTarget
      /\ SafeLink => LinkInv
      /\ env \subseteq {"write", "lost"} => ProbeInv
  BY DEF IInv
<1>2. /\ rec > 0 /\ env' = env /\ bus' = bus /\ UNCHANGED external
      /\ rec # 0 /\ rec \in 0..8
  BY <1>1, ScriptFacts DEF recover_from_adapter_fault, external, TypeOK
<1>3. got = RESET /\ pc \notin {"idle", "POLICY"} /\ got \in Outcomes /\ event \in EventKinds
  BY <1>1, <1>2 DEF Shape, TypeOK
<1>4. PICK out \in Outcomes :
        /\ send_command_raw(out)
        /\ \/ out = ERR /\ Deliver(ERR, event)
           \/ out # ERR /\ rec = Len(RecoveryScript) /\ Deliver(got, event)
           \/ /\ out # ERR /\ rec < Len(RecoveryScript)
              /\ rec' = rec + 1
              /\ current_header' = None
              /\ UNCHANGED <<protocol, initialized, event, pc, tgt, svc, idx, found, got, result>>
  BY DEF recover_from_adapter_fault
<1>5. /\ devHeader' \in Registers /\ devProto' \in Protocols \cup {"auto"}
      /\ rx' \in Seq(Replies) /\ Len(rx') <= 1
  BY <1>1, <1>3, <1>4, RawType
<1>6. SafeLink' = SafeLink
  BY <1>2 DEF SafeLink
<1>7. ~(env \subseteq {"write", "lost"})
  BY <1>1, <1>2 DEF ProbeInv
<1>8. SafeLink => /\ rx' = <<>> /\ devHeader' = Default /\ "reset" \in env
                  /\ (rec = 8 \/ out = ERR => current_header = None)
  <2>1. SUFFICES ASSUME SafeLink
                 PROVE  /\ rx' = <<>> /\ devHeader' = Default /\ "reset" \in env
                        /\ (rec = 8 \/ out = ERR => current_header = None)
    OBVIOUS
  <2>2. rx = <<>> /\ "reset" \in env /\ devHeader = Default /\ (rec > 1 => current_header = None)
    BY <1>1, <1>2, <2>1 DEF LinkInv
  <2>3. rx' = <<>> /\ (out = ERR => rec # 1) /\ devHeader' = Default
    BY <1>1, <1>2, <1>3, <1>4, <2>1, <2>2, SafeExchange
  <2> QED
    BY <1>2, <2>2, <2>3
<1>9. CASE out = ERR /\ Deliver(ERR, event)
  <2>1. TypeOK' /\ Shape' /\ rec' = 0
    BY <1>1, <1>2, <1>3, <1>5, <1>9, DeliverType
  <2>2. SafeLink => LinkInv' /\ AnswerFromTarget'
    <3>1. SUFFICES ASSUME SafeLink
                   PROVE  LinkInv' /\ AnswerFromTarget'
      OBVIOUS
    <3>2. current_header = None /\ devHeader' = Default /\ rx' = <<>> /\ LinkInv
      BY <1>1, <1>8, <1>9, <3>1
    <3>3. ERR \in Outcomes /\ ERR # OK /\ ERR.kind # "DATA"
      BY DEF Outcomes, ERR, OK, Plain
    <3> QED
      BY <1>1, <1>2, <1>3, <1>9, <2>1, <3>1, <3>2, <3>3, DeliverSafe
  <2> QED
    BY <1>2, <1>6, <1>7, <2>1, <2>2 DEF IInv, AnswerFromTarget
<1>10. CASE out # ERR /\ rec = Len(RecoveryScript) /\ Deliver(got, event)
  <2>1. TypeOK' /\ Shape' /\ rec' = 0
    BY <1>1, <1>2, <1>3, <1>5, <1>10, DeliverType
  <2>2. SafeLink => LinkInv' /\ AnswerFromTarget'
    <3>1. SUFFICES ASSUME SafeLink
                   PROVE  LinkInv' /\ AnswerFromTarget'
      OBVIOUS
    <3>2. current_header = None /\ devHeader' = Default /\ rx' = <<>> /\ LinkInv
      BY <1>1, <1>8, <1>10, <3>1, ScriptFacts
    <3>3. got # OK /\ got.kind # "DATA"
      BY <1>3 DEF OK, RESET, Plain
    <3> QED
      BY <1>1, <1>2, <1>3, <1>10, <2>1, <3>1, <3>2, <3>3, DeliverSafe
  <2> QED
    BY <1>2, <1>6, <1>7, <2>1, <2>2 DEF IInv, AnswerFromTarget
<1>11. CASE /\ out # ERR /\ rec < Len(RecoveryScript)
            /\ rec' = rec + 1
            /\ current_header' = None
            /\ UNCHANGED <<protocol, initialized, event, pc, tgt, svc, idx, found, got, result>>
  <2>1. rec' \in 0..Len(RecoveryScript) /\ rec' > 1
    BY <1>2, <1>11, ScriptFacts
  <2>2. TypeOK'
    BY <1>1, <1>2, <1>5, <1>11, <2>1 DEF TypeOK, Registers
  <2>3. Shape'
    BY <1>1, <1>3, <1>11 DEF Shape
  <2>4. SafeLink => LinkInv'
    BY <1>2, <1>8, <1>11, <2>1 DEF LinkInv
  <2>5. AnswerFromTarget'
    BY <1>1, <1>6, <1>11 DEF AnswerFromTarget, Reaches
  <2> QED
    BY <1>2, <1>6, <1>7, <2>2, <2>3, <2>4, <2>5 DEF IInv
<1> QED
  BY <1>4, <1>9, <1>10, <1>11

\* A command of apply_protocol_runtime_policy, during initialize.
LEMMA PolicyStep == IInv /\ PolicyCommand => IInv'
<1> SUFFICES ASSUME IInv, PolicyCommand
             PROVE  IInv'
  OBVIOUS
<1>1. /\ TypeOK /\ Shape /\ AnswerFromTarget
      /\ SafeLink => LinkInv
      /\ env \subseteq {"write", "lost"} => ProbeInv
  BY DEF IInv
<1>2. pc = "POLICY" /\ env' = env /\ bus' = bus /\ UNCHANGED external
  BY DEF PolicyCommand, external
<1>3. /\ rec = 0 /\ ~initialized /\ current_header = None
      /\ protocol = found /\ found \in Protocols
      /\ result.fn # "request"
  BY <1>1, <1>2, ScriptFacts DEF Shape, TypeOK, InitLabels
<1>4. PICK out \in Outcomes : send_command_raw(out) /\ InitPolicy(out)
  BY DEF PolicyCommand
<1>5. /\ devHeader' \in Registers /\ devProto' \in Protocols \cup {"auto"}
      /\ rx' \in Seq(Replies) /\ Len(rx') <= 1
  BY <1>1, <1>2, <1>4, RawType
<1>6. SafeLink' = SafeLink
  BY <1>2 DEF SafeLink
<1>7. current_header' = None /\ protocol' = protocol
  BY <1>3, <1>4 DEF InitPolicy
<1>8. /\ TypeOK' /\ Shape' /\ rec' = 0
      /\ pc' \in {"idle", "POLICY"} /\ result'.fn # "request"
  <2>1. CASE Return("init", FALSE, out) /\ UNCHANGED <<event, initialized>>
    <3>1. pc' = "idle" /\ result'.fn = "init"
      BY <2>1 DEF Return, Result
    <3> QED
      BY <1>1, <1>2, <1>3, <1>5, <1>7, <2>1, <3>1, ReturnStep DEF TypeOK
  <2>2. CASE InitializeOk
    <3>1. /\ initialized' = TRUE /\ event' = "none" /\ Return("init", TRUE, OK)
          /\ "none" \in EventKinds
      BY <2>2 DEF InitializeOk, EventKinds
    <3>2. pc' = "idle" /\ result'.fn = "init"
      BY <3>1 DEF Return, Result
    <3> QED
      BY <1>1, <1>2, <1>3, <1>5, <1>7, <3>1, <3>2, ReturnStep DEF TypeOK
  <2>3. CASE Goto("POLICY", idx + 1, found) /\ UNCHANGED <<event, initialized>>
    <3>1. idx + 1 \in Nat \ {0} /\ "POLICY" \in Labels /\ found \in Protocols \cup {"Auto"}
      BY <1>1 DEF TypeOK, Labels
    <3>2. /\ pc' = "POLICY" /\ idx' = idx + 1 /\ found' = found /\ rec' = 0 /\ got' \in Outcomes
          /\ UNCHANGED <<tgt, svc, result>>
      BY <1>1, <2>3, <3>1, GotoFacts
    <3>3. 0 \in 0..Len(RecoveryScript)
      BY ScriptFacts
    <3>4. TypeOK'
      BY <1>1, <1>2, <1>5, <1>7, <2>3, <3>1, <3>2, <3>3 DEF TypeOK, Registers
    <3>5. Shape'
      BY <1>1, <1>2, <1>3, <1>7, <2>3, <3>2 DEF Shape, InitLabels
    <3> QED
      BY <1>1, <1>3, <3>2, <3>4, <3>5
  <2> QED
    BY <1>4, <2>1, <2>2, <2>3 DEF InitPolicy
<1>9. SafeLink => LinkInv'
  <2>1. SUFFICES ASSUME SafeLink
                 PROVE  LinkInv'
    OBVIOUS
  <2>2. rx = <<>> /\ devHeader = Default
    BY <1>1, <1>3, <2>1 DEF LinkInv, Synced
  <2>3. rx' = <<>> /\ devHeader' = Default
    BY <1>1, <1>2, <1>4, <2>1, <2>2, SafeExchange
  <2> QED
    BY <1>7, <1>8, <2>3 DEF LinkInv, Synced
<1>10. env \subseteq {"write", "lost"} => ProbeInv'
  <2>1. SUFFICES ASSUME env \subseteq {"write", "lost"}
                 PROVE  ProbeInv'
    OBVIOUS
  <2>2. rx = <<>> /\ (protocol # "Auto" => protocol = bus)
    BY <1>1, <2>1 DEF ProbeInv
  <2>3. rx' = <<>>
    BY <1>1, <1>2, <1>4, <2>1, <2>2, RawSafe
  <2> QED
    BY <1>2, <1>7, <1>8, <2>2, <2>3 DEF ProbeInv
<1> QED
  BY <1>2, <1>6, <1>8, <1>9, <1>10 DEF IInv, AnswerFromTarget

\* The calls of a caller: where they start, and with which header in place.
LEMMA CallStep ==
    ASSUME IInv, initialize \/ routed_request \/ ReadVoltage \/ ReadSupportedPids
    PROVE  IInv'
<1>1. /\ TypeOK /\ Shape /\ AnswerFromTarget
      /\ SafeLink => LinkInv
      /\ env \subseteq {"write", "lost"} => ProbeInv
  BY DEF IInv
<1>2. /\ pc = "idle" /\ env' = env /\ bus' = bus /\ UNCHANGED external /\ UNCHANGED device
      /\ UNCHANGED <<devHeader, devProto, rx>> /\ UNCHANGED <<protocol, initialized>>
  BY DEF initialize, routed_request, ReadVoltage, ReadSupportedPids, external, device, adapter
<1>3. /\ devHeader' \in Registers /\ devProto' \in Protocols \cup {"auto"}
      /\ rx' \in Seq(Replies) /\ Len(rx') <= 1
  BY <1>1, <1>2 DEF TypeOK, Registers
<1>4. SafeLink' = SafeLink /\ rec = 0
  BY <1>1, <1>2, ScriptFacts DEF SafeLink, Shape, TypeOK
<1>5. ASSUME NEW label \in {"INIT", "ATRV", "PIDS"}, Start(label, None, None),
             current_header' = current_header, event' = event,
             label = "INIT" => ~initialized, label # "INIT" => initialized
      PROVE  IInv'
  <2>1. /\ pc' = label /\ tgt' = None /\ svc' = None /\ result' = NoResult
        /\ UNCHANGED <<idx, found, rec, got>>
    BY <1>5 DEF Start
  <2>2. NoResult.ok = FALSE /\ NoResult.fn # "request"
    BY DEF NoResult, None
  <2>3. label \in Labels /\ label \notin {"ATSH", "CMD", "ATTP", "PROBE", "POLICY", "idle"}
    BY <1>5 DEF Labels
  <2>4. TypeOK'
    BY <1>1, <1>2, <1>5, <2>1, <2>2, <2>3 DEF TypeOK
  <2>5. Shape'
    <3>1. idx = 1
      BY <1>1, <1>2 DEF Shape
    <3> QED
      BY <1>1, <1>2, <1>4, <1>5, <2>1, <2>2, <2>3, <3>1 DEF Shape, InitLabels
  <2>6. SafeLink => LinkInv'
    BY <1>1, <1>2, <1>4, <1>5, <2>1, <2>3 DEF LinkInv, Synced
  <2>7. env \subseteq {"write", "lost"} => ProbeInv'
    BY <1>1, <1>2, <1>4, <2>1, <2>3 DEF ProbeInv
  <2> QED
    BY <1>2, <1>4, <2>1, <2>2, <2>4, <2>5, <2>6, <2>7
    DEF IInv, AnswerFromTarget
<1>6. CASE initialize
  <2>1. CASE initialized /\ event' = "none" /\ Return("init", TRUE, OK)
             /\ current_header' = current_header
    <3>1. pc' = "idle" /\ result'.fn = "init"
      BY <2>1 DEF Return, Result
    <3>2. event' \in EventKinds
      BY <2>1 DEF EventKinds
    <3>3. TypeOK' /\ Shape' /\ rec' = 0
      BY <1>1, <1>2, <1>3, <2>1, <3>1, <3>2, ReturnStep DEF TypeOK, Shape
    <3>4. SafeLink => LinkInv'
      BY <1>1, <1>2, <1>4, <2>1, <3>1, <3>3 DEF LinkInv, Synced
    <3>5. env \subseteq {"write", "lost"} => ProbeInv'
      BY <1>1, <1>2, <3>1, <3>3 DEF ProbeInv
    <3> QED
      BY <1>2, <1>4, <3>1, <3>3, <3>4, <3>5 DEF IInv, AnswerFromTarget
  <2>2. CASE ~initialized /\ Start("INIT", None, None) /\ event' = event
             /\ current_header' = current_header
    BY <1>5, <2>2
  <2> QED
    BY <1>6, <2>1, <2>2 DEF initialize
<1>7. CASE ReadVoltage \/ ReadSupportedPids
  BY <1>5, <1>7 DEF ReadVoltage, ReadSupportedPids, adapter
<1>8. CASE routed_request
  <2>1. initialized /\ event' = event /\ protocol \in Protocols
    BY <1>1, <1>8 DEF routed_request, Shape
  <2>2. PICK t \in Targets, s \in Services :
          IF t = J1939
          THEN /\ result' = [fn |-> "request", ok |-> FALSE, tgt |-> t, svc |-> s, reply |-> ERR]
               /\ UNCHANGED <<locals, current_header>>
          ELSE apply_target(t, s)
    BY <1>8 DEF routed_request
  <2>3. CASE t = J1939
    <3>1. /\ result'.fn = "request" /\ result'.ok = FALSE /\ UNCHANGED current_header
          /\ UNCHANGED <<pc, tgt, svc, idx, found, rec, got>>
      BY <2>2, <2>3 DEF locals
    <3>2. TypeOK'
      BY <1>1, <1>2, <2>1, <3>1 DEF TypeOK
    <3>3. Shape'
      BY <1>1, <1>2, <2>1, <3>1 DEF Shape
    <3>4. SafeLink => LinkInv'
      BY <1>1, <1>2, <1>4, <3>1 DEF LinkInv, Synced
    <3>5. env \subseteq {"write", "lost"} => ProbeInv'
      BY <1>1, <1>2, <3>1 DEF ProbeInv
    <3> QED
      BY <1>2, <1>4, <3>1, <3>2, <3>3, <3>4, <3>5
      DEF IInv, AnswerFromTarget
  <2>4. CASE t # J1939
    <3>1. /\ t \in Headers \cup {Broadcast} /\ t # None
          /\ default_broadcast_header(protocol) \in BroadcastHeaders
          /\ default_broadcast_header(protocol) # None
      BY <2>1, <2>2, <2>4, ProtocolFacts, HeadersAssumption DEF Targets, None, Broadcast
    <3>2. /\ Start(IF HeaderInPlace(t) THEN "CMD" ELSE "ATSH", t, s)
          /\ current_header' = current_header
      BY <2>2, <2>4, <3>1 DEF apply_target
    <3>3. /\ pc' = IF HeaderInPlace(t) THEN "CMD" ELSE "ATSH"
          /\ tgt' = t /\ svc' = s /\ result' = NoResult /\ UNCHANGED <<idx, found, rec, got>>
      BY <3>2 DEF Start
    <3>4. NoResult.ok = FALSE /\ NoResult.fn # "request"
      BY DEF NoResult, None
    <3>5. TypeOK'
      BY <1>1, <1>2, <2>1, <3>1, <3>2, <3>3, <3>4 DEF TypeOK, Labels
    <3>6. Shape'
      BY <1>1, <1>2, <1>4, <2>1, <3>1, <3>2, <3>3, <3>4 DEF Shape, InitLabels
    <3>7. SafeLink => LinkInv'
      <4>1. SUFFICES ASSUME SafeLink
                     PROVE  LinkInv'
        OBVIOUS
      <4>2. rx = <<>> /\ Synced
        BY <1>1, <1>4, <4>1 DEF LinkInv
      <4>3. HeaderInPlace(t) => Reaches(devHeader, t)
        BY <3>1, <4>2 DEF HeaderInPlace, Want, Reaches, Synced
      <4>4. pc' = "CMD" => Reaches(devHeader, tgt)'
        BY <1>2, <3>3, <4>3 DEF Reaches
      <4> QED
        BY <1>2, <1>4, <3>2, <3>3, <4>2, <4>4 DEF LinkInv, Synced
    <3>8. env \subseteq {"write", "lost"} => ProbeInv'
      BY <1>1, <1>2, <1>4, <3>3 DEF ProbeInv
    <3> QED
      BY <1>2, <1>4, <3>3, <3>4, <3>5, <3>6, <3>7, <3>8
      DEF IInv, AnswerFromTarget
  <2> QED
    BY <2>3, <2>4
<1> QED
  BY <1>6, <1>7, <1>8

\* Dropping a call loses what the link was keeping in step, and nothing else.
LEMMA CancelStep == IInv /\ Cancel => IInv'
<1> SUFFICES ASSUME IInv, Cancel
             PROVE  IInv'
  OBVIOUS
<1>1. TypeOK /\ Shape
  BY DEF IInv
<1>2. /\ pc # "idle" /\ "cancel" \in env /\ env' = env /\ bus' = bus
      /\ UNCHANGED <<current_header, protocol, initialized, event>>
      /\ pc' = "idle" /\ tgt' = None /\ svc' = None
      /\ idx' = 1 /\ found' = "Auto" /\ rec' = 0 /\ got' = ERR /\ result' = NoResult
  BY DEF Cancel, external, adapter
<1>3. PICK r \in ChipReplies : ChipRuns(r) /\ rx' = <<r>>
  BY DEF Cancel
<1>4. devHeader' \in Registers /\ devProto' \in Protocols \cup {"auto"}
  BY <1>1, <1>2, <1>3, ChipType
<1>5. rx' \in Seq(Replies) /\ Len(rx') <= 1
  <2>1. r \in Replies
    BY <1>1, <1>2, ChipFacts
  <2>2. rx \in Seq(Replies)
    BY <1>1 DEF TypeOK
  <2> QED
    BY <1>3, <2>1, <2>2, QueueFacts
<1>6. ~SafeLink' /\ ~(env' \subseteq {"write", "lost"})
  BY <1>2 DEF SafeLink
<1>7. NoResult.ok = FALSE /\ NoResult.fn # "request" /\ ERR \in Outcomes
  BY DEF NoResult, None, Outcomes
<1>8. TypeOK'
  <2>1. 0 \in 0..Len(RecoveryScript) /\ "idle" \in Labels
    BY ScriptFacts DEF Labels
  <2>2. /\ env' \in FaultModels /\ bus' \in Buses
        /\ current_header' \in Headers \cup BroadcastHeaders \cup {None}
        /\ protocol' \in Protocols \cup {"Auto"}
        /\ initialized' \in BOOLEAN /\ event' \in EventKinds
    BY <1>1, <1>2 DEF TypeOK
  <2>3. /\ tgt' \in Headers \cup {Broadcast, None} /\ svc' \in Services \cup {None}
        /\ idx' \in Nat \ {0} /\ found' \in Protocols \cup {"Auto"}
        /\ got' \in Outcomes
    BY <1>2, <1>7
  <2>4. result'.ok \in BOOLEAN
    BY <1>2 DEF NoResult
  <2> QED
    BY <1>2, <1>4, <1>5, <2>1, <2>2, <2>3, <2>4 DEF TypeOK, Registers
<1>9. Shape'
  BY <1>1, <1>2, <1>7 DEF Shape, InitLabels
<1> QED
  BY <1>2, <1>6, <1>7, <1>8, <1>9 DEF IInv, AnswerFromTarget

\* Draining the event queue and stuttering.
LEMMA IdleStep == IInv /\ (drain_events \/ UNCHANGED vars) => IInv'
<1> SUFFICES ASSUME IInv, drain_events \/ UNCHANGED vars
             PROVE  IInv'
  OBVIOUS
<1>1. /\ UNCHANGED <<env, bus, devHeader, devProto, rx, current_header, protocol, initialized>>
      /\ UNCHANGED <<pc, tgt, svc, idx, found, rec, got, result>>
      /\ event' \in EventKinds
  BY DEF IInv, TypeOK, drain_events, vars, external, device, adapter, locals, EventKinds
<1>2. TypeOK'
  BY <1>1 DEF IInv, TypeOK
<1>3. Shape'
  BY <1>1 DEF IInv, Shape
<1>4. SafeLink' => LinkInv'
  BY <1>1 DEF IInv, SafeLink, LinkInv, Synced, Reaches
<1>5. env' \subseteq {"write", "lost"} => ProbeInv'
  BY <1>1 DEF IInv, ProbeInv
<1>6. AnswerFromTarget'
  BY <1>1 DEF IInv, SafeLink, AnswerFromTarget, Reaches
<1> QED
  BY <1>2, <1>3, <1>4, <1>5, <1>6 DEF IInv

\* Every step preserves the inductive invariant.
LEMMA NextIInv == IInv /\ [Next]_vars => IInv'
BY SendStep, RecoverStep, PolicyStep, CallStep, CancelStep, IdleStep DEF Next, Progress

\* The inductive invariant holds in every reachable state.
THEOREM InductiveInvariant == Spec => []IInv
BY InitIInv, NextIInv, PTL DEF Spec

(***************************************************************************)
(* The results                                                             *)
(***************************************************************************)
\* Every variable keeps its type, whatever the faults.
THEOREM TypeCorrect == Spec => []TypeOK
<1>1. IInv => TypeOK
  BY DEF IInv
<1> QED
  BY <1>1, InductiveInvariant, PTL

\* The header cache is sound: on a link that keeps commands and answers in
\* step, a request leaves under the header of its target.
THEOREM HeaderCacheSound == Spec => []RequestReachesTarget
<1>1. IInv => RequestReachesTarget
  BY DEF IInv, RequestReachesTarget, LinkInv
<1> QED
  BY <1>1, InductiveInvariant, PTL

\* A payload that routed_request returns comes from the target it asked.
THEOREM AnswerOrigin == Spec => []AnswerFromTarget
<1>1. IInv => AnswerFromTarget
  BY DEF IInv
<1> QED
  BY <1>1, InductiveInvariant, PTL

\* When the chip accepts every command it gets, initialize selects the
\* protocol of the vehicle, for every probe order and every vehicle.
THEOREM ProtocolSelection == Spec => []SelectedProtocolIsVehicles
<1>1. IInv => SelectedProtocolIsVehicles
  BY ProtocolFacts DEF IInv, Shape, ProbeInv, SelectedProtocolIsVehicles
<1> QED
  BY <1>1, InductiveInvariant, PTL

\* initialize is idempotent: an initialized adapter stays initialized and on
\* its protocol.
THEOREM InitializedForGood == Spec => InitializeOnce
<1>1. IInv /\ [Next]_vars => [initialized => initialized' /\ protocol' = protocol]_vars
  <2> SUFFICES ASSUME IInv, [Next]_vars, initialized
               PROVE  (initialized' /\ protocol' = protocol) \/ UNCHANGED vars
    OBVIOUS
  <2>1. TypeOK /\ Shape /\ pc \notin InitLabels
    BY DEF IInv, Shape
  <2>2. CASE send_command
    <3>1. PICK out \in Outcomes :
            \/ Deliver(out, record_response_events(out))
            \/ UNCHANGED <<protocol, initialized>>
      BY <2>2 DEF send_command
    <3>2. pc \notin {"idle", "POLICY"}
      BY <2>2 DEF send_command
    <3> QED
      BY <2>1, <3>1, <3>2, DeliverFacts
  <2>3. CASE recover_from_adapter_fault
    <3>1. rec > 0 /\ got \in Outcomes /\ ERR \in Outcomes
      BY <2>1, <2>3 DEF recover_from_adapter_fault, TypeOK, Outcomes
    <3>2. Deliver(ERR, event) \/ Deliver(got, event) \/ UNCHANGED <<protocol, initialized>>
      BY <2>3 DEF recover_from_adapter_fault
    <3>3. pc \notin {"idle", "POLICY"}
      BY <2>1, <3>1 DEF Shape
    <3> QED
      BY <2>1, <3>1, <3>2, <3>3, DeliverFacts
  <2>4. CASE PolicyCommand
    BY <2>1, <2>4 DEF PolicyCommand, InitLabels
  <2>5. CASE initialize \/ routed_request \/ ReadVoltage \/ ReadSupportedPids
             \/ drain_events \/ Cancel
    BY <2>5 DEF initialize, routed_request, ReadVoltage, ReadSupportedPids, drain_events,
                Cancel, adapter
  <2> QED
    BY <2>2, <2>3, <2>4, <2>5 DEF Next, Progress
<1> QED
  BY <1>1, InductiveInvariant, PTL DEF Spec, InitializeOnce
=============================================================================
