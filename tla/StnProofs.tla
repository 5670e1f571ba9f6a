------------------------------ MODULE StnProofs -----------------------------
(***************************************************************************)
(* Theorems about apply_route, for any routes, timeouts, filter memory and *)
(* number of unread answers.                                               *)
(*                                                                         *)
(* Neither property is inductive: when STPO is sent, nothing in them says  *)
(* that the commands before it took effect.  The invariant Progress says   *)
(* what the part of the plan that was answered has made of the chip, and   *)
(* InSync why an answer read is the one to the command just sent.          *)
(***************************************************************************)
EXTENDS Stn, WireProofs

ChipState == [transceiver : {"none", "HS", "MS", "SW"}, rate : Nat, timeout : Nat,
              auto : BOOLEAN, pass : SUBSET Filter, open : BOOLEAN]

\* How many commands a plan has for the bit rate and for the timeout, and where
\* its filter commands begin.
RateCount(plan) ==
    IF plan.route.arbitration_bitrate_bps
       # protocol_default_bitrate_bps(from_route(plan.route)) THEN 1 ELSE 0
TimeoutCount(plan) == IF plan.timeout # {} THEN 1 ELSE 0
FiltersAt(plan) == 3 + RateCount(plan) + TimeoutCount(plan)
OpenAt(plan) == FiltersAt(plan) + 1 + Len(plan.route.filters)

\* The lines the chip prints.
Words == {"OK", "echo", "UNKNOWN_COMMAND", "BUS_ERROR", "OUT_OF_MEMORY", "LV_RESET"}

IsPlan(plan) ==
    \E route \in Routes, timeout \in Timeouts :
        plan = [route |-> route, timeout |-> timeout, commands |-> plan_commands(route, timeout)]

TypeInv ==
    /\ chip \in ChipState
    /\ rx \in Seq(Seq(Words))
    /\ call = None \/ \E plan : /\ IsPlan(plan)
                                /\ \E at \in 1..OpenAt(plan), sync \in BOOLEAN :
                                      call = [plan |-> plan, at |-> at, sync |-> sync]
    /\ call # None => result = None

\* An answer read is an answer to the command just sent: nothing else is on the
\* link but the prompt of an answer whose lines were all read before a time-out.
InSync ==
    call # None /\ call.sync => rx \in {<<>>, << <<>> >>}

\* What the commands of plan before the one at position at have made of the c.
Progress(c, plan, at) ==
    /\ at > 1 => ~c.open
    /\ at > 2 => c.transceiver = Transceivers(plan.route.bus)
    /\ at > 2 + RateCount(plan) => c.rate = plan.route.arbitration_bitrate_bps
    /\ at > 2 + RateCount(plan) + TimeoutCount(plan) => \A t \in plan.timeout : c.timeout = t
    /\ at > FiltersAt(plan) =>
            /\ c.auto <=> plan.route.filters = <<>>
            /\ c.pass = {plan.route.filters[i] :
                               i \in {j \in DOMAIN plan.route.filters : FiltersAt(plan) + j < at}}

Underway == call # None /\ call.sync => Progress(chip, call.plan, call.at)

\* Without sync nothing is claimed of the route that is open.
Disowned == call # None /\ ~call.sync => opened = None

IInv == TypeInv /\ InSync /\ Underway /\ Disowned /\ RouteAsReported /\ OpenIsWhole
(***************************************************************************)
(* Answers                                                                 *)
(***************************************************************************)

\* What an answer looks like.
LEMMA AnswerShape ==
    ASSUME NEW lines \in Answers
    PROVE  /\ lines \in Seq(Words)
           /\ \/ /\ Len(lines) = 1
                 /\ lines[1] \in {"OK", "UNKNOWN_COMMAND", "OUT_OF_MEMORY", "LV_RESET"}
              \/ /\ Len(lines) = 2
                 /\ lines[1] = "echo" /\ lines[2] \in {"OK", "BUS_ERROR"}
<1>1. \A a \in Words : <<a>> \in Seq(Words) /\ Len(<<a>>) = 1 /\ <<a>>[1] = a
  OBVIOUS
<1>2. \A a, b \in Words :
        <<a, b>> \in Seq(Words) /\ Len(<<a, b>>) = 2 /\ <<a, b>>[1] = a /\ <<a, b>>[2] = b
  OBVIOUS
<1>3. CASE \E a \in {"OK", "UNKNOWN_COMMAND", "OUT_OF_MEMORY", "LV_RESET"} : lines = <<a>>
  BY <1>1, <1>3, Zenon DEF Words
<1>4. CASE \E b \in {"OK", "BUS_ERROR"} : lines = <<"echo", b>>
  <2>1. PICK b \in {"OK", "BUS_ERROR"} : lines = <<"echo", b>>
    BY <1>4
  <2>2. b \in Words /\ "echo" \in Words
    BY DEF Words
  <2> QED
    BY <1>2, <2>1, <2>2, Zenon
<1> QED
  BY <1>3, <1>4 DEF Answers

\* Only an answer that says OK is taken for success, and then all its lines were
\* read (parse_command_response).
LEMMA OkMeansOk ==
    ASSUME NEW lines \in Answers, NEW n \in 1..Len(lines),
           parse_command_response(SubSeq(lines, 1, n)) = "ok"
    PROVE  lines \in {<<"OK">>, <<"echo", "OK">>} /\ n = Len(lines)
<1> DEFINE s == SubSeq(lines, 1, n)
           said == {i \in 1..Len(s) : s[i] # "echo"}
           m == Min(said)
<1>1. Len(s) = n /\ \A i \in 1..n : s[i] = lines[i]
  BY AnswerShape
<1>2. said # {} /\ (s[m] = "OK" \/ s[m] = "ok")
  <2> HIDE DEF s
  <2> QED
    BY DEF parse_command_response, s
<1> HIDE DEF s
<1>3. m \in said
  <2>1. said \subseteq Nat /\ said # {}
    BY <1>1, <1>2
  <2> HIDE DEF said
  <2>2. \E x \in said : \A y \in said : x <= y
    BY <2>1, LeastNatural
  <2> QED
    BY <2>2 DEF Min
<1>4. m \in 1..n /\ (lines[m] = "OK" \/ lines[m] = "ok")
  BY <1>1, <1>2, <1>3
<1> HIDE DEF m
<1>5. n \in 1..2 /\ m \in 1..2 /\ m <= n
  <2>1. Len(lines) \in Nat /\ Len(lines) <= 2
    <3>1. Len(lines) = 1 \/ Len(lines) = 2
      BY AnswerShape, Zenon
    <3> QED
      BY <3>1
  <2>2. n \in Nat /\ n >= 1 /\ n <= 2
    BY <2>1
  <2> QED
    BY <1>4, <2>2
<1>6. lines[Len(lines)] = "OK" /\ n = Len(lines)
  BY <1>4, <1>5, AnswerShape
<1>7. CASE lines \in {<<"UNKNOWN_COMMAND">>, <<"echo", "BUS_ERROR">>, <<"OUT_OF_MEMORY">>, <<"LV_RESET">>}
  BY <1>6, <1>7
<1> QED
  BY <1>6, <1>7 DEF Answers

(***************************************************************************)
(* Plans                                                                   *)
(***************************************************************************)

\* The constants of a plan.
LEMMA PlanParts ==
    ASSUME NEW plan, IsPlan(plan)
    PROVE  /\ plan.route \in Routes /\ plan.timeout \in Timeouts
           /\ plan.commands = plan_commands(plan.route, plan.timeout)
           /\ plan.route.bus \in {{}} \cup {{b} : b \in SecondaryBuses}
           /\ plan.route.arbitration_bitrate_bps \in Nat
           /\ plan.route.filters \in Seq(Filter) /\ Len(plan.route.filters) \in Nat
           /\ plan.timeout \subseteq Nat /\ \A s, t \in plan.timeout : s = t
           /\ RateCount(plan) \in {0, 1} /\ TimeoutCount(plan) \in {0, 1}
<1>1. PICK route \in Routes, timeout \in Timeouts :
        plan = [route |-> route, timeout |-> timeout, commands |-> plan_commands(route, timeout)]
  BY DEF IsPlan
<1>2. plan.route = route /\ plan.timeout = timeout
      /\ plan.commands = plan_commands(plan.route, plan.timeout)
  BY <1>1
<1>3. RateCount(plan) \in {0, 1} /\ TimeoutCount(plan) \in {0, 1}
  BY DEF RateCount, TimeoutCount
<1>4. plan.route.filters \in Seq(Filter) /\ Len(plan.route.filters) \in Nat
  BY <1>2, StnAssumption
<1> QED
  BY <1>2, <1>3, <1>4, StnAssumption

Commands(plan) ==
    {<<"CloseProtocol">>, <<"SelectProtocol", from_route(plan.route)>>,
     <<"SetProtocolBaudRate", plan.route.arbitration_bitrate_bps>>,
     <<"SetProtocolTimeoutMs", CHOOSE t \in plan.timeout : TRUE>>,
     <<"UseAutomaticFiltering">>, <<"ClearPassFilters">>, <<"OpenProtocol">>}
    \cup {<<"AddPassFilter", f>> : f \in Filter}

\* The filter commands: one to begin with, then one per filter (filter_commands).
LEMMA FilterCommands ==
    ASSUME NEW plan, IsPlan(plan)
    PROVE  LET c == filter_commands(plan.route.filters) IN
           /\ c \in Seq(Commands(plan))
           /\ Len(c) = 1 + Len(plan.route.filters)
           /\ plan.route.filters = <<>> => c[1] = <<"UseAutomaticFiltering">>
           /\ plan.route.filters # <<>> => c[1] = <<"ClearPassFilters">>
           /\ \A i \in DOMAIN plan.route.filters :
                  c[1 + i] = <<"AddPassFilter", plan.route.filters[i]>>
<1> DEFINE fs == plan.route.filters
           C == Commands(plan)
           adds == [i \in DOMAIN fs |-> <<"AddPassFilter", fs[i]>>]
<1>1. fs \in Seq(Filter) /\ Len(fs) \in Nat
  BY PlanParts
<1>2. <<"UseAutomaticFiltering">> \in C /\ <<"ClearPassFilters">> \in C
  BY DEF Commands
<1>3. \A f \in Filter : <<"AddPassFilter", f>> \in C
  BY DEF Commands
<1> HIDE DEF fs, C
<1>4. CASE fs = <<>>
  <2>1. filter_commands(fs) = << <<"UseAutomaticFiltering">> >>
    BY <1>4 DEF filter_commands
  <2>2. << <<"UseAutomaticFiltering">> >> \in Seq(C)
    BY <1>2
  <2>3. 1 + Len(fs) = 1 /\ DOMAIN fs = {}
    BY <1>4
  <2>4. \A x : Len(<<x>>) = 1 /\ <<x>>[1] = x
    OBVIOUS
  <2> QED
    BY <1>4, <2>1, <2>2, <2>3, <2>4, Zenon DEF fs, C
<1>5. CASE fs # <<>>
  <2>1. DOMAIN fs = 1..Len(fs) /\ \A i \in 1..Len(fs) : fs[i] \in Filter
    BY <1>1
  <2>2. adds \in Seq(C) /\ Len(adds) = Len(fs)
        /\ \A i \in 1..Len(fs) : adds[i] = <<"AddPassFilter", fs[i]>>
    <3>1. adds \in [1..Len(fs) -> C]
      BY <1>3, <2>1
    <3> QED
      BY <1>1, <2>1, <3>1
  <2>3. filter_commands(fs) = << <<"ClearPassFilters">> >> \o adds
    BY <1>5 DEF filter_commands
  <2> HIDE DEF adds
  <2>4. << <<"ClearPassFilters">> >> \in Seq(C)
    BY <1>2
  <2>5. filter_commands(fs) \in Seq(C) /\ Len(filter_commands(fs)) = 1 + Len(fs)
        /\ filter_commands(fs)[1] = <<"ClearPassFilters">>
        /\ \A i \in 1..Len(fs) : filter_commands(fs)[1 + i] = adds[i]
    BY <1>1, <2>2, <2>3, <2>4
  <2> QED
    BY <1>5, <2>1, <2>2, <2>5 DEF fs, C
<1> QED
  BY <1>4, <1>5

\* Where each command of a plan is (plan_route).
LEMMA PlanShape ==
    ASSUME NEW plan, IsPlan(plan)
    PROVE  LET c  == plan.commands
               fs == plan.route.filters
           IN  /\ Len(c) = OpenAt(plan)
               /\ c[1] = <<"CloseProtocol">>
               /\ c[2] = <<"SelectProtocol", from_route(plan.route)>>
               /\ RateCount(plan) = 1 =>
                      c[3] = <<"SetProtocolBaudRate", plan.route.arbitration_bitrate_bps>>
               /\ TimeoutCount(plan) = 1 =>
                      c[3 + RateCount(plan)] =
                          <<"SetProtocolTimeoutMs", CHOOSE t \in plan.timeout : TRUE>>
               /\ fs = <<>> => c[FiltersAt(plan)] = <<"UseAutomaticFiltering">>
               /\ fs # <<>> => c[FiltersAt(plan)] = <<"ClearPassFilters">>
               /\ \A i \in 1..Len(fs) : c[FiltersAt(plan) + i] = <<"AddPassFilter", fs[i]>>
               /\ c[OpenAt(plan)] = <<"OpenProtocol">>
<1> DEFINE C == Commands(plan)
           k == Len(plan.route.filters)
           r == RateCount(plan)
           t == TimeoutCount(plan)
           baud == <<"SetProtocolBaudRate", plan.route.arbitration_bitrate_bps>>
           time == <<"SetProtocolTimeoutMs", CHOOSE x \in plan.timeout : TRUE>>
           a == << <<"CloseProtocol">>, <<"SelectProtocol", from_route(plan.route)>> >>
           b == When(r = 1, <<baud>>)
           d == When(t = 1, <<time>>)
           e == filter_commands(plan.route.filters)
           f == << <<"OpenProtocol">> >>
<1>1. plan.commands = (((a \o b) \o d) \o e) \o f
  BY PlanParts, SMTT(30) DEF plan_commands, RateCount, TimeoutCount, When
<1>2. k \in Nat /\ r \in {0, 1} /\ t \in {0, 1}
  BY PlanParts
<1>3. a \in Seq(C) /\ Len(a) = 2 /\ a[1] = <<"CloseProtocol">>
      /\ a[2] = <<"SelectProtocol", from_route(plan.route)>>
  BY DEF Commands
<1>4. b \in Seq(C) /\ Len(b) = r /\ (r = 1 => b[1] = baud)
  BY <1>2 DEF Commands, When
<1>5. d \in Seq(C) /\ Len(d) = t /\ (t = 1 => d[1] = time)
  <2>1. time \in C
    BY DEF Commands
  <2> HIDE DEF time, C
  <2> QED
    BY <1>2, <2>1 DEF When
<1>6. e \in Seq(C) /\ Len(e) = 1 + k
      /\ (plan.route.filters = <<>> => e[1] = <<"UseAutomaticFiltering">>)
      /\ (plan.route.filters # <<>> => e[1] = <<"ClearPassFilters">>)
      /\ \A i \in 1..k : e[1 + i] = <<"AddPassFilter", plan.route.filters[i]>>
  <2>1. DOMAIN plan.route.filters = 1..k
    BY PlanParts
  <2> QED
    BY FilterCommands, <2>1, Zenon
<1>7. f \in Seq(C) /\ Len(f) = 1 /\ f[1] = <<"OpenProtocol">>
  BY DEF Commands
<1> HIDE DEF C, k, r, t, baud, time, a, b, d, e, f
<1> DEFINE ab == a \o b
           abd == ab \o d
           abde == abd \o e
           all == abde \o f
<1>8. ab \in Seq(C) /\ Len(ab) = 2 + r /\ ab[1] = a[1] /\ ab[2] = a[2] /\ (r = 1 => ab[3] = b[1])
  <2>1. ab \in Seq(C) /\ Len(ab) = Len(a) + Len(b)
        /\ (\A i \in 1..Len(a) : ab[i] = a[i]) /\ (\A i \in 1..Len(b) : ab[Len(a) + i] = b[i])
    <3>1. a \in Seq(C) /\ b \in Seq(C)
      BY <1>3, <1>4
    <3> QED
      BY <3>1, Joined
  <2> HIDE DEF ab
  <2> QED
    BY <1>2, <1>3, <1>4, <2>1
<1> HIDE DEF ab
<1>9. abd \in Seq(C) /\ Len(abd) = 2 + r + t /\ (\A i \in 1..(2 + r) : abd[i] = ab[i])
      /\ (t = 1 => abd[3 + r] = d[1])
  BY <1>2, <1>5, <1>8, Joined
<1> HIDE DEF abd
<1>10. abde \in Seq(C) /\ Len(abde) = 3 + r + t + k
       /\ (\A i \in 1..(2 + r + t) : abde[i] = abd[i])
       /\ (\A i \in 0..k : abde[3 + r + t + i] = e[1 + i])
  BY <1>2, <1>6, <1>9, Joined
<1> HIDE DEF abde
<1>11. all \in Seq(C) /\ Len(all) = 4 + r + t + k
       /\ (\A i \in 1..(3 + r + t + k) : all[i] = abde[i])
       /\ all[4 + r + t + k] = f[1]
  <2>1. Len(abde) \in Nat /\ Len(all) = Len(abde) + 1
        /\ (\A i \in 1..Len(abde) : all[i] = abde[i]) /\ all[Len(abde) + 1] = f[1]
        /\ all \in Seq(C)
    BY <1>7, <1>10, Joined, SMTT(30)
  <2>2. Len(abde) = 3 + r + t + k /\ Len(abde) + 1 = 4 + r + t + k
    BY <1>2, <1>10
  <2> HIDE DEF all
  <2> QED
    BY <2>1, <2>2
<1>12. plan.commands = all
  BY <1>1 DEF ab, abd, abde
<1> HIDE DEF all
<1>13. FiltersAt(plan) = 3 + r + t /\ OpenAt(plan) = 4 + r + t + k
  BY <1>2 DEF FiltersAt, OpenAt, k, r, t
<1>14. all[1] = a[1] /\ all[2] = a[2]
  BY <1>2, <1>8, <1>9, <1>10, <1>11
<1>15. r = 1 => all[3] = baud
  BY <1>2, <1>4, <1>8, <1>9, <1>10, <1>11
<1>16. t = 1 => all[3 + r] = time
  BY <1>2, <1>5, <1>9, <1>10, <1>11
<1>17. ASSUME NEW i \in 0..k PROVE all[3 + r + t + i] = e[1 + i]
  <2>1. 3 + r + t + i \in 1..(3 + r + t + k)
    BY <1>2
  <2> QED
    BY <1>10, <1>11, <2>1
<1>18. all[3 + r + t] = e[1] /\ \A i \in 1..k : all[3 + r + t + i] = e[1 + i]
  <2>1. 0 \in 0..k /\ 3 + r + t + 0 = 3 + r + t /\ 1 + 0 = 1 /\ \A i \in 1..k : i \in 0..k
    BY <1>2
  <2> QED
    BY <1>17, <2>1
<1>19. Len(plan.commands) = OpenAt(plan) /\ all[OpenAt(plan)] = <<"OpenProtocol">>
  BY <1>7, <1>11, <1>12, <1>13, Zenon
<1> QED
  BY <1>3, <1>6, <1>12, <1>13, <1>14, <1>15, <1>16, <1>18, <1>19, Zenon
     DEF k, r, t, baud, time

(***************************************************************************)
(* One command                                                             *)
(***************************************************************************)

\* An identifier survives the text of STFPA, its width included
\* (encode_can_identifier).
LEMMA IdentifierText == \A id \in Identifier : ChipIdentifier(encode_can_identifier(id)) = id
BY DEF Identifier, ChipIdentifier, encode_can_identifier, Standard, Extended

\* A protocol's number stands for the bus and the bit rate the plan counts on.
LEMMA ProtocolNumbers ==
    ASSUME NEW plan, IsPlan(plan)
    PROVE  LET n == protocol_number(from_route(plan.route)) IN
           /\ Transceiver(n) = Transceivers(plan.route.bus)
           /\ DefaultRate(n) = protocol_default_bitrate_bps(from_route(plan.route))
           /\ Transceiver(n) \in {"HS", "MS", "SW"} /\ DefaultRate(n) \in Nat
<1>1. \/ plan.route.bus = {} /\ from_route(plan.route) = "PrimaryCan"
      \/ \E b \in SecondaryBuses : plan.route.bus = {b} /\ from_route(plan.route) = b
  BY PlanParts DEF from_route
<1>2. /\ Transceiver(33) = "HS" /\ Transceiver(53) = "MS" /\ Transceiver(63) = "SW"
      /\ DefaultRate(33) = 500000 /\ DefaultRate(53) = 125000 /\ DefaultRate(63) = 33300
  BY DEF Transceiver, DefaultRate
<1> QED
  BY <1>1, <1>2 DEF SecondaryBuses, protocol_number, protocol_default_bitrate_bps, Transceivers

\* The text of every command (StnCommand::encode).
LEMMA Encoded ==
    /\ encode(<<"CloseProtocol">>) = <<"STPC">>
    /\ \A p : encode(<<"SelectProtocol", p>>) = <<"STP", protocol_number(p)>>
    /\ \A n : encode(<<"SetProtocolBaudRate", n>>) = <<"STPBR", n>>
    /\ \A n : encode(<<"SetProtocolTimeoutMs", n>>) = <<"STPTO", n>>
    /\ encode(<<"UseAutomaticFiltering">>) = <<"STFA">>
    /\ encode(<<"ClearPassFilters">>) = <<"STFPC">>
    /\ \A f : encode(<<"AddPassFilter", f>>) =
                <<"STFPA", encode_can_identifier(f.id), encode_can_identifier(f.mask)>>
    /\ encode(<<"OpenProtocol">>) = <<"STPO">>
<1>1. encode(<<"CloseProtocol">>) = <<"STPC">>
  BY DEF encode
<1>2. \A p : encode(<<"SelectProtocol", p>>) = <<"STP", protocol_number(p)>>
  BY DEF encode
<1>3. \A n : encode(<<"SetProtocolBaudRate", n>>) = <<"STPBR", n>>
  BY DEF encode
<1>4. \A n : encode(<<"SetProtocolTimeoutMs", n>>) = <<"STPTO", n>>
  BY DEF encode
<1>5. encode(<<"UseAutomaticFiltering">>) = <<"STFA">>
  BY DEF encode
<1>6. encode(<<"ClearPassFilters">>) = <<"STFPC">>
  BY DEF encode
<1>7. \A f : encode(<<"AddPassFilter", f>>) =
                <<"STFPA", encode_can_identifier(f.id), encode_can_identifier(f.mask)>>
  BY DEF encode
<1>8. encode(<<"OpenProtocol">>) = <<"STPO">>
  BY DEF encode
<1> QED
  BY <1>1, <1>2, <1>3, <1>4, <1>5, <1>6, <1>7, <1>8

\* What the chip makes of every text (Executed).
LEMMA Effects ==
    /\ Executed(<<"STPC">>) = [chip EXCEPT !.open = FALSE]
    /\ \A n : Executed(<<"STP", n>>) =
              [chip EXCEPT !.transceiver = Transceiver(n), !.rate = DefaultRate(n)]
    /\ \A n : Executed(<<"STPBR", n>>) = [chip EXCEPT !.rate = n]
    /\ \A n : Executed(<<"STPTO", n>>) = [chip EXCEPT !.timeout = n]
    /\ Executed(<<"STFA">>) = [chip EXCEPT !.auto = TRUE, !.pass = {}]
    /\ Executed(<<"STFPC">>) = [chip EXCEPT !.auto = FALSE, !.pass = {}]
    /\ \A a, b : Executed(<<"STFPA", a, b>>) =
              [chip EXCEPT !.auto = FALSE,
                           !.pass = chip.pass \cup {[id |-> ChipIdentifier(a),
                                                     mask |-> ChipIdentifier(b)]}]
    /\ Executed(<<"STPO">>) = [chip EXCEPT !.open = TRUE]
<1>1. Executed(<<"STPC">>) = [chip EXCEPT !.open = FALSE]
  BY DEF Executed
<1>2. \A n : Executed(<<"STP", n>>) =
              [chip EXCEPT !.transceiver = Transceiver(n), !.rate = DefaultRate(n)]
  BY DEF Executed
<1>3. \A n : Executed(<<"STPBR", n>>) = [chip EXCEPT !.rate = n]
  BY DEF Executed
<1>4. \A n : Executed(<<"STPTO", n>>) = [chip EXCEPT !.timeout = n]
  BY DEF Executed
<1>5. Executed(<<"STFA">>) = [chip EXCEPT !.auto = TRUE, !.pass = {}]
  BY DEF Executed
<1>6. Executed(<<"STFPC">>) = [chip EXCEPT !.auto = FALSE, !.pass = {}]
  BY DEF Executed
<1>7. \A a, b : Executed(<<"STFPA", a, b>>) =
              [chip EXCEPT !.auto = FALSE,
                           !.pass = chip.pass \cup {[id |-> ChipIdentifier(a),
                                                     mask |-> ChipIdentifier(b)]}]
  BY DEF Executed
<1>8. Executed(<<"STPO">>) = [chip EXCEPT !.open = TRUE]
  BY DEF Executed
<1> QED
  BY <1>1, <1>2, <1>3, <1>4, <1>5, <1>6, <1>7, <1>8

\* A command that the chip runs advances the plan, and the last one realises it.
LEMMA CommandTakesEffect ==
    ASSUME NEW plan, IsPlan(plan), NEW at \in 1..OpenAt(plan),
           chip \in ChipState, chip' = Executed(encode(plan.commands[at]))
    PROVE  /\ chip' \in ChipState
           /\ Progress(chip, plan, at) =>
                  /\ at < OpenAt(plan) => Progress(chip', plan, at + 1)
                  /\ at = OpenAt(plan) => Realizes(plan)'
<1> DEFINE c == plan.commands
           fs == plan.route.filters
           r == RateCount(plan)
           t == TimeoutCount(plan)
           F == FiltersAt(plan)
           Heard(n) == {fs[i] : i \in {j \in DOMAIN fs : F + j < n}}
           wire == encode(c[at])
<1>1. /\ r \in {0, 1} /\ t \in {0, 1} /\ F = 3 + r + t /\ OpenAt(plan) = F + 1 + Len(fs)
      /\ fs \in Seq(Filter) /\ Len(fs) \in Nat /\ DOMAIN fs = 1..Len(fs)
  BY PlanParts DEF FiltersAt, OpenAt
<1>2. /\ chip.transceiver \in {"none", "HS", "MS", "SW"} /\ chip.rate \in Nat
      /\ chip.timeout \in Nat /\ chip.auto \in BOOLEAN /\ chip.pass \in SUBSET Filter
      /\ chip.open \in BOOLEAN
  BY DEF ChipState
<1>3. CASE at = 1
  <2>1. c[at] = <<"CloseProtocol">>
    BY <1>3, PlanShape
  <2>2. chip' = [chip EXCEPT !.open = FALSE]
    BY <2>1, Encoded, Effects, Zenon
  <2>3. chip' \in ChipState /\ ~chip'.open
    BY <1>2, <2>2 DEF ChipState
  <2> QED
    BY <1>1, <1>3, <2>3 DEF Progress
<1>4. CASE at = 2
  <2> DEFINE n == protocol_number(from_route(plan.route))
             bus == Transceiver(n)
             rate == DefaultRate(n)
  <2>1. c[at] = <<"SelectProtocol", from_route(plan.route)>>
    BY <1>4, PlanShape
  <2>2. chip' = [chip EXCEPT !.transceiver = bus, !.rate = rate]
    <3>1. wire = <<"STP", n>>
      BY <2>1, Encoded, Zenon
    <3>2. Executed(<<"STP", n>>) = [chip EXCEPT !.transceiver = bus, !.rate = rate]
      BY Effects
    <3> QED
      BY <3>1, <3>2, Zenon
  <2>3. /\ bus = Transceivers(plan.route.bus)
        /\ rate = protocol_default_bitrate_bps(from_route(plan.route))
        /\ bus \in {"HS", "MS", "SW"} /\ rate \in Nat
    BY ProtocolNumbers
  <2> HIDE DEF bus, rate, n
  <2>4. /\ chip' \in ChipState /\ chip'.open = chip.open
        /\ chip'.transceiver = bus /\ chip'.rate = rate
    BY <1>2, <2>2, <2>3 DEF ChipState
  <2>5. r = 0 => rate = plan.route.arbitration_bitrate_bps
    BY <2>3 DEF RateCount
  <2>6. t = 0 => plan.timeout = {}
    BY DEF TimeoutCount
  <2>7. Progress(chip, plan, at) => ~chip.open
    BY <1>4 DEF Progress
  <2> QED
    BY <1>1, <1>4, <2>3, <2>4, <2>5, <2>6, <2>7 DEF Progress
<1>5. CASE r = 1 /\ at = 3
  <2>1. c[at] = <<"SetProtocolBaudRate", plan.route.arbitration_bitrate_bps>>
    BY <1>5, PlanShape
  <2>2. chip' = [chip EXCEPT !.rate = plan.route.arbitration_bitrate_bps]
    <3>1. wire = <<"STPBR", plan.route.arbitration_bitrate_bps>>
      BY <2>1, Encoded, Zenon
    <3>2. Executed(<<"STPBR", plan.route.arbitration_bitrate_bps>>) = [chip EXCEPT !.rate = plan.route.arbitration_bitrate_bps]
      BY Effects
    <3> QED
      BY <3>1, <3>2, Zenon
  <2>3. plan.route.arbitration_bitrate_bps \in Nat
    BY PlanParts
  <2>4. chip' \in ChipState /\ chip'.rate = plan.route.arbitration_bitrate_bps
        /\ chip'.open = chip.open /\ chip'.transceiver = chip.transceiver
    BY <1>2, <2>2, <2>3 DEF ChipState
  <2>5. t = 0 => plan.timeout = {}
    BY DEF TimeoutCount
  <2> QED
    BY <1>1, <1>5, <2>4, <2>5 DEF Progress
<1>6. CASE t = 1 /\ at = 3 + r
  <2> DEFINE x == CHOOSE s \in plan.timeout : TRUE
  <2>1. c[at] = <<"SetProtocolTimeoutMs", x>>
    BY <1>6, PlanShape
  <2>2. chip' = [chip EXCEPT !.timeout = x]
    <3>1. wire = <<"STPTO", x>>
      BY <2>1, Encoded, Zenon
    <3>2. Executed(<<"STPTO", x>>) = [chip EXCEPT !.timeout = x]
      BY Effects
    <3> QED
      BY <3>1, <3>2, Zenon
  <2>3. x \in Nat /\ \A s \in plan.timeout : s = x
    BY <1>6, PlanParts DEF TimeoutCount
  <2> HIDE DEF x
  <2>4. chip' \in ChipState /\ chip'.timeout = x /\ chip'.rate = chip.rate
        /\ chip'.open = chip.open /\ chip'.transceiver = chip.transceiver
    BY <1>2, <2>2, <2>3 DEF ChipState
  <2> QED
    BY <1>1, <1>6, <2>3, <2>4 DEF Progress
<1>7. CASE at = F
  <2>1. chip' = [chip EXCEPT !.auto = (fs = <<>>), !.pass = {}]
    <3>1. CASE fs = <<>>
      <4>1. c[at] = <<"UseAutomaticFiltering">>
        BY <1>7, <3>1, PlanShape
      <4>2. chip' = [chip EXCEPT !.auto = TRUE, !.pass = {}]
        BY <4>1, Encoded, Effects, Zenon
      <4> QED
        BY <3>1, <4>2
    <3>2. CASE fs # <<>>
      <4>1. c[at] = <<"ClearPassFilters">>
        BY <1>7, <3>2, PlanShape
      <4>2. chip' = [chip EXCEPT !.auto = FALSE, !.pass = {}]
        BY <4>1, Encoded, Effects, Zenon
      <4> QED
        BY <3>2, <4>2
    <3> QED
      BY <3>1, <3>2
  <2>2. chip' \in ChipState /\ (chip'.auto <=> fs = <<>>) /\ chip'.pass = {}
        /\ chip'.timeout = chip.timeout /\ chip'.rate = chip.rate
        /\ chip'.open = chip.open /\ chip'.transceiver = chip.transceiver
    BY <1>2, <2>1 DEF ChipState
  <2>3. Heard(at + 1) = {}
    BY <1>1, <1>7
  <2> QED
    BY <1>1, <1>7, <2>2, <2>3 DEF Progress
<1>8. ASSUME NEW i \in 1..Len(fs), at = F + i
      PROVE  chip' \in ChipState /\ (Progress(chip, plan, at) => Progress(chip', plan, at + 1))
  <2> DEFINE passing == chip.pass \cup {fs[i]}
  <2>1. fs[i] \in Filter /\ fs # <<>>
    BY <1>1
  <2>2. [id |-> ChipIdentifier(encode_can_identifier(fs[i].id)),
         mask |-> ChipIdentifier(encode_can_identifier(fs[i].mask))] = fs[i]
    BY <2>1, IdentifierText DEF Filter
  <2>3. c[at] = <<"AddPassFilter", fs[i]>>
    BY <1>8, PlanShape
  <2>4. wire = <<"STFPA", encode_can_identifier(fs[i].id), encode_can_identifier(fs[i].mask)>>
    BY <2>3, Encoded, Zenon
  <2>5. chip' = [chip EXCEPT !.auto = FALSE, !.pass = passing]
    <3>1. ASSUME NEW x, NEW y,
                 [id |-> ChipIdentifier(x), mask |-> ChipIdentifier(y)] = fs[i]
          PROVE  Executed(<<"STFPA", x, y>>) = [chip EXCEPT !.auto = FALSE, !.pass = passing]
      <4>1. Executed(<<"STFPA", x, y>>) =
              [chip EXCEPT !.auto = FALSE,
                           !.pass = chip.pass \cup {[id |-> ChipIdentifier(x),
                                                     mask |-> ChipIdentifier(y)]}]
        BY Effects
      <4> QED
        BY <3>1, <4>1, Zenon
    <3> QED
      BY <2>2, <2>4, <3>1, ZenonT(40)
  <2>6. passing \in SUBSET Filter
    BY <1>2, <2>1
  <2>7. Progress(chip, plan, at) => passing = Heard(at + 1)
    <3>1. Heard(at + 1) = Heard(at) \cup {fs[i]}
      BY <1>1, <1>8, SMTT(30)
    <3>2. Progress(chip, plan, at) => chip.pass = Heard(at)
      BY <1>1, <1>8 DEF Progress
    <3> QED
      BY <3>1, <3>2, Zenon
  <2> HIDE DEF passing
  <2>8. chip' \in ChipState /\ ~chip'.auto /\ chip'.pass = passing
        /\ chip'.timeout = chip.timeout /\ chip'.rate = chip.rate
        /\ chip'.open = chip.open /\ chip'.transceiver = chip.transceiver
    BY <1>2, <2>5, <2>6 DEF ChipState
  <2>9. Progress(chip, plan, at) =>
          /\ ~chip.open /\ chip.transceiver = Transceivers(plan.route.bus)
          /\ chip.rate = plan.route.arbitration_bitrate_bps
          /\ \A s \in plan.timeout : chip.timeout = s
    BY <1>1, <1>8 DEF Progress
  <2>10. ASSUME Progress(chip, plan, at) PROVE Progress(chip', plan, at + 1)
    <3>1. chip'.pass = Heard(at + 1)
      BY <2>7, <2>8, <2>10, Zenon
    <3>2. /\ ~chip'.open /\ chip'.transceiver = Transceivers(plan.route.bus)
          /\ chip'.rate = plan.route.arbitration_bitrate_bps
          /\ \A s \in plan.timeout : chip'.timeout = s
      BY <2>8, <2>9, <2>10, Zenon
    <3> QED
      BY <2>1, <2>8, <3>1, <3>2, Zenon DEF Progress
  <2> QED
    BY <2>8, <2>10
<1>9. CASE at = OpenAt(plan)
  <2>1. c[at] = <<"OpenProtocol">>
    BY <1>9, PlanShape
  <2>2. chip' = [chip EXCEPT !.open = TRUE]
    BY <2>1, Encoded, Effects, Zenon
  <2>3. chip' \in ChipState /\ chip'.open /\ chip'.auto = chip.auto /\ chip'.pass = chip.pass
        /\ chip'.timeout = chip.timeout /\ chip'.rate = chip.rate
        /\ chip'.transceiver = chip.transceiver
    BY <1>2, <2>2 DEF ChipState
  <2> SUFFICES ASSUME Progress(chip, plan, at) PROVE Realizes(plan)'
    BY <1>9, <2>3
  <2>4. chip.transceiver = Transceivers(plan.route.bus)
        /\ chip.rate = plan.route.arbitration_bitrate_bps
        /\ (\A s \in plan.timeout : chip.timeout = s)
        /\ (chip.auto <=> fs = <<>>) /\ chip.pass = Heard(at)
    BY <1>1, <1>9 DEF Progress
  <2>5. Heard(at) = {fs[i] : i \in DOMAIN fs}
    BY <1>1, <1>9
  <2>6. ASSUME NEW id, ~chip'.auto
        PROVE  (\E f \in chip'.pass : matches(f, id)) <=> accepts(fs, id)
    <3>1. chip'.pass = {fs[i] : i \in DOMAIN fs} /\ fs # <<>>
      BY <2>3, <2>4, <2>5, <2>6, Zenon
    <3> QED
      BY <3>1, Zenon DEF accepts
  <2> QED
    BY <2>3, <2>4, <2>6, Zenon DEF Realizes
<1>10. \/ at = 1 \/ at = 2 \/ (r = 1 /\ at = 3) \/ (t = 1 /\ at = 3 + r) \/ at = F
       \/ (\E i \in 1..Len(fs) : at = F + i) \/ at = OpenAt(plan)
  <2>1. at \in Nat /\ at >= 1 /\ at <= OpenAt(plan)
    BY <1>1
  <2>2. CASE at > F /\ at # OpenAt(plan)
    <3>1. at - F \in 1..Len(fs) /\ at = F + (at - F)
      BY <1>1, <2>1, <2>2
    <3> QED
      BY <3>1
  <2>3. CASE at <= F
    BY <1>1, <2>1, <2>3
  <2> QED
    BY <1>1, <2>1, <2>2, <2>3
<1>11. CASE \E i \in 1..Len(fs) : at = F + i
  <2>1. at # OpenAt(plan)
    BY <1>1, <1>11
  <2> QED
    BY <1>8, <1>11, <2>1, Zenon
<1>12. CASE at = 1 \/ at = 2 \/ (r = 1 /\ at = 3) \/ (t = 1 /\ at = 3 + r) \/ at = F
  BY <1>3, <1>4, <1>5, <1>6, <1>7, <1>12, Zenon
<1> QED
  BY <1>9, <1>10, <1>11, <1>12, Zenon

(***************************************************************************)
(* Steps                                                                   *)
(***************************************************************************)

\* A chip that is not open, or whose route nobody claims, is open on no half route.
LEMMA ClosedIsWhole ==
    ASSUME chip' \in ChipState, ~chip'.open \/ opened' = None
    PROVE  OpenIsWhole'
BY DEF OpenIsWhole

\* What one exchange of a call under way does to the chip, whatever is then read.
LEMMA Exchange ==
    ASSUME IInv, NEW plan, IsPlan(plan), NEW at \in 1..OpenAt(plan), NEW sync \in BOOLEAN,
           call = [plan |-> plan, at |-> at, sync |-> sync], call # None,
           NEW lines \in Answers, ChipRuns(Sent, lines)
    PROVE  /\ chip' \in ChipState
           /\ OpenIsWhole'
           /\ ~sync => opened' = None
           /\ sync /\ lines \in {<<"OK">>, <<"echo", "OK">>} =>
                  /\ at < OpenAt(plan) => Progress(chip', plan, at + 1)
                  /\ at = OpenAt(plan) => Realizes(plan)'
<1> DEFINE wire == encode(plan.commands[at])
<1>1. call.plan = plan /\ call.at = at /\ call.sync = sync /\ Sent = wire
  BY DEF Sent
<1>2. chip \in ChipState /\ (sync => Progress(chip, plan, at)) /\ (~sync => opened = None)
      /\ OpenIsWhole
  BY <1>1 DEF IInv, TypeInv, Underway, Disowned
<1>3. ChipRuns(wire, lines)
  BY <1>1
<1> HIDE DEF wire
<1>4. CASE UNCHANGED <<chip, opened>> /\ lines \notin {<<"OK">>, <<"echo", "OK">>}
  BY <1>2, <1>4 DEF OpenIsWhole, Realizes
<1>5. CASE /\ chip' = Executed(wire)
           /\ opened' = IF wire[1] # "STPO" THEN opened ELSE IF sync THEN plan ELSE None
  <2>1. /\ chip' \in ChipState
        /\ Progress(chip, plan, at) =>
               /\ at < OpenAt(plan) => Progress(chip', plan, at + 1)
               /\ at = OpenAt(plan) => Realizes(plan)'
    BY <1>2, <1>5, CommandTakesEffect DEF wire
  <2>2. at \in Nat /\ at >= 1 /\ (at = OpenAt(plan) \/ at < OpenAt(plan))
    BY PlanParts DEF OpenAt, FiltersAt
  <2>3. OpenIsWhole'
    <3>1. CASE ~sync
      <4>1. opened' = None
        BY <1>2, <1>5, <3>1
      <4> QED
        BY <2>1, <4>1, ClosedIsWhole
    <3>2. CASE sync /\ at = OpenAt(plan)
      <4>1. wire[1] = "STPO"
        <5>1. plan.commands[at] = <<"OpenProtocol">>
          BY <3>2, PlanShape
        <5>2. wire = <<"STPO">>
          BY <5>1, Encoded, Zenon DEF wire
        <5> QED
          BY <5>2
      <4>2. opened' = plan
        BY <1>5, <3>2, <4>1, Zenon
      <4>3. Realizes(plan)'
        BY <1>2, <2>1, <3>2, Zenon
      <4> QED
        BY <4>2, <4>3 DEF OpenIsWhole
    <3>3. CASE sync /\ at < OpenAt(plan)
      <4>1. Progress(chip', plan, at + 1)
        BY <1>2, <2>1, <3>3, Zenon
      <4>2. ~chip'.open
        BY <2>2, <4>1 DEF Progress
      <4> QED
        BY <2>1, <4>2, ClosedIsWhole
    <3> QED
      BY <2>2, <3>1, <3>2, <3>3
  <2>4. ~sync => opened' = None
    BY <1>2, <1>5
  <2> QED
    BY <1>2, <2>1, <2>3, <2>4, Zenon
<1>6. CASE chip' = ResetChip /\ UNCHANGED opened /\ lines = <<"LV_RESET">>
  <2>1. chip' \in ChipState /\ ~chip'.open
    BY <1>6 DEF ResetChip, ChipState
  <2>2. lines \notin {<<"OK">>, <<"echo", "OK">>}
    BY <1>6
  <2> QED
    BY <1>2, <1>6, <2>1, <2>2, ClosedIsWhole
<1>7. \A l : l \in {<<"UNKNOWN_COMMAND">>, <<"echo", "BUS_ERROR">>, <<"OUT_OF_MEMORY">>}
             => l \notin {<<"OK">>, <<"echo", "OK">>}
  OBVIOUS
<1> QED
  <2>1. CASE /\ lines \in {<<"OK">>, <<"echo", "OK">>}
             /\ chip' = Executed(wire)
             /\ opened' = IF wire[1] # "STPO" THEN opened
                          ELSE IF call.sync THEN call.plan ELSE None
    BY <1>1, <1>5, <2>1, Zenon
  <2>2. CASE /\ lines \in {<<"UNKNOWN_COMMAND">>, <<"echo", "BUS_ERROR">>}
             /\ UNCHANGED <<chip, opened>>
    BY <1>4, <1>7, <2>2, Zenon
  <2>3. CASE lines = <<"OUT_OF_MEMORY">> /\ UNCHANGED <<chip, opened>>
    BY <1>4, <1>7, <2>3, Zenon
  <2>4. CASE lines = <<"LV_RESET">> /\ chip' = ResetChip /\ UNCHANGED opened
    BY <1>6, <2>4, Zenon
  <2> QED
    BY <1>3, <2>1, <2>2, <2>3, <2>4, Zenon DEF ChipRuns

\* The call under way, in parts.
LEMMA CallParts ==
    ASSUME TypeInv, call # None
    PROVE  \E plan : /\ IsPlan(plan)
                     /\ \E at \in 1..OpenAt(plan), sync \in BOOLEAN :
                           call = [plan |-> plan, at |-> at, sync |-> sync]
BY DEF TypeInv

\* After an exchange the loop goes on, ends or fails (apply_route_plan): the
\* invariant holds if, in a call that is in sync, "ok" stands for an answer OK to
\* this command and leaves the link in sync.
LEMMA LoopStep ==
    ASSUME IInv, call # None, NEW lines \in Answers, ChipRuns(Sent, lines),
           NEW out, apply_route_plan(out), rx' \in Seq(Seq(Words)),
           call.sync /\ out = "ok" => /\ lines \in {<<"OK">>, <<"echo", "OK">>}
                                      /\ rx' \in {<<>>, << <<>> >>}
    PROVE  IInv'
<1>1. PICK plan : /\ IsPlan(plan)
                  /\ \E at \in 1..OpenAt(plan), sync \in BOOLEAN :
                        call = [plan |-> plan, at |-> at, sync |-> sync]
  BY CallParts DEF IInv
<1>2. PICK at \in 1..OpenAt(plan), sync \in BOOLEAN :
        call = [plan |-> plan, at |-> at, sync |-> sync]
  BY <1>1
<1>3. call.plan = plan /\ call.at = at /\ call.sync = sync
  BY <1>2
<1>4. /\ chip' \in ChipState
      /\ OpenIsWhole'
      /\ ~sync => opened' = None
      /\ sync /\ lines \in {<<"OK">>, <<"echo", "OK">>} =>
             /\ at < OpenAt(plan) => Progress(chip', plan, at + 1)
             /\ at = OpenAt(plan) => Realizes(plan)'
  BY <1>1, <1>2, Exchange
<1>5. result = None
  BY DEF IInv, TypeInv
<1>6. Len(plan.commands) = OpenAt(plan) /\ OpenAt(plan) \in Nat
  <2>1. Len(plan.commands) = OpenAt(plan)
    BY <1>1, PlanShape
  <2>2. /\ RateCount(plan) \in {0, 1} /\ TimeoutCount(plan) \in {0, 1}
        /\ Len(plan.route.filters) \in Nat
    BY <1>1, PlanParts
  <2>3. OpenAt(plan) \in Nat
    BY <2>2, SMTT(30) DEF OpenAt, FiltersAt
  <2> QED
    BY <2>1, <2>3
<1>7. CASE out # "ok"
  <2>1. call' = None /\ result' = [ok |-> FALSE, why |-> out]
    BY <1>7 DEF apply_route_plan
  <2> QED
    BY <1>4, <2>1 DEF IInv, TypeInv, InSync, Underway, Disowned, RouteAsReported
<1>8. CASE out = "ok" /\ at < OpenAt(plan)
  <2>1. call' = [plan |-> plan, at |-> at + 1, sync |-> sync] /\ result' = None
    BY <1>2, <1>3, <1>5, <1>6, <1>8 DEF apply_route_plan
  <2>2. call'.plan = plan /\ call'.at = at + 1 /\ call'.sync = sync
    BY <2>1
  <2>3. at + 1 \in 1..OpenAt(plan)
    BY <1>6, <1>8
  <2>4. TypeInv'
    BY <1>1, <1>4, <2>1, <2>3 DEF TypeInv
  <2>5. InSync' /\ Underway' /\ Disowned'
    BY <1>3, <1>4, <1>8, <2>2, Zenon DEF InSync, Underway, Disowned
  <2>6. RouteAsReported'
    BY <2>1, Zenon DEF RouteAsReported
  <2> QED
    BY <1>4, <2>4, <2>5, <2>6 DEF IInv
<1>9. CASE out = "ok" /\ at = OpenAt(plan)
  <2>1. call' = None /\ result' = [ok |-> TRUE, plan |-> plan, sync |-> sync]
    BY <1>3, <1>6, <1>9 DEF apply_route_plan
  <2>2. result'.plan = plan /\ result'.sync = sync
    BY <2>1
  <2>3. sync => Realizes(plan)'
    BY <1>3, <1>4, <1>9
  <2>4. RouteAsReported'
    BY <2>2, <2>3, Zenon DEF RouteAsReported
  <2> QED
    BY <1>4, <2>1, <2>4, Zenon DEF IInv, TypeInv, InSync, Underway, Disowned
<1> QED
  BY <1>6, <1>7, <1>8, <1>9

\* apply_route preserves the invariant.
LEMMA ApplyRouteStep ==
    ASSUME IInv, NEW route \in Routes, NEW timeout \in Timeouts, apply_route(route, timeout)
    PROVE  IInv'
<1> DEFINE plan == plan_route(route, timeout)
           p == [route |-> route, timeout |-> timeout, commands |-> plan_commands(route, timeout)]
<1>1. call = None /\ UNCHANGED <<chip, rx>> /\ chip \in ChipState /\ rx \in Seq(Seq(Words))
  BY DEF apply_route, IInv, TypeInv
<1>2. CASE ~plan.ok /\ result' = [ok |-> FALSE, why |-> plan.v] /\ UNCHANGED <<call, opened>>
  <2>1. RouteAsReported'
    BY <1>2 DEF RouteAsReported
  <2>2. OpenIsWhole'
    BY <1>1, <1>2 DEF IInv, OpenIsWhole, Realizes
  <2> QED
    BY <1>1, <1>2, <2>1, <2>2 DEF IInv, TypeInv, InSync, Underway, Disowned
<1>3. CASE /\ plan.ok
           /\ call' = [plan |-> plan.v, at |-> 1, sync |-> rx = <<>>]
           /\ result' = None
           /\ opened' = IF rx = <<>> THEN opened ELSE None
  <2>1. plan.v = p
    BY <1>3 DEF plan_route, Ok, Refused
  <2>2. IsPlan(p)
    BY Zenon DEF IsPlan
  <2> HIDE DEF p, plan
  <2>3. 1 \in 1..OpenAt(p)
    BY <2>2, PlanParts DEF OpenAt, FiltersAt
  <2>4. call' = [plan |-> p, at |-> 1, sync |-> rx = <<>>]
    BY <1>3, <2>1
  <2>5. call'.plan = p /\ call'.at = 1 /\ (call'.sync <=> rx = <<>>)
    BY <2>4
  <2>6. TypeInv'
    BY <1>1, <1>3, <2>2, <2>3, <2>4 DEF TypeInv
  <2>7. Progress(chip', p, 1)
    BY <2>2, PlanParts DEF Progress, FiltersAt
  <2>8. InSync' /\ Underway' /\ Disowned'
    BY <1>1, <1>3, <2>5, <2>7, Zenon DEF InSync, Underway, Disowned
  <2>9. RouteAsReported'
    BY <1>3, Zenon DEF RouteAsReported
  <2>10. OpenIsWhole'
    BY <1>1, <1>3 DEF IInv, OpenIsWhole, Realizes
  <2> QED
    BY <2>6, <2>8, <2>9, <2>10 DEF IInv
<1> QED
  BY <1>2, <1>3, Zenon DEF apply_route

\* Short queues of answers.
LEMMA ShortQueues ==
    ASSUME NEW S, NEW a \in S, NEW b \in S
    PROVE  /\ Append(<<>>, a) = <<a>> /\ Append(<<a>>, b) = <<a, b>>
           /\ Len(<<a>>) = 1 /\ Len(<<a, b>>) = 2
           /\ SubSeq(<<a>>, 1, 1) = <<a>> /\ SubSeq(<<a>>, 2, 1) = <<>>
           /\ SubSeq(<<a, b>>, 1, 1) = <<a>> /\ SubSeq(<<a, b>>, 1, 2) = <<a, b>>
           /\ SubSeq(<<a, b>>, 3, 2) = <<>>
           /\ <<a>> \o <<>> = <<a>> /\ <<a>> \o <<b>> = <<a, b>>
           /\ <<a>> \in Seq(S)
<1> DEFINE one == <<a>>
           two == <<a, b>>
           other == <<b>>
<1>1. /\ one \in Seq(S) /\ Len(one) = 1 /\ one[1] = a
      /\ two \in Seq(S) /\ Len(two) = 2 /\ two[1] = a /\ two[2] = b
      /\ other \in Seq(S) /\ Len(other) = 1 /\ other[1] = b
  OBVIOUS
<1>2. Append(<<>>, a) = one
  OBVIOUS
<1> HIDE DEF one, two, other
<1>3. \A s \in Seq(S) : Len(s) = 1 /\ s[1] = a => s = one
  BY <1>1, SeqEqual
<1>4. \A s \in Seq(S) : Len(s) = 2 /\ s[1] = a /\ s[2] = b => s = two
  BY <1>1, SeqEqual
<1>5. one \o other = two /\ one \o <<>> = one
  <2>1. one \o other \in Seq(S) /\ Len(one \o other) = 2
        /\ (one \o other)[1] = a /\ (one \o other)[2] = b
    BY <1>1, Joined
  <2> QED
    BY <1>1, <1>4, <2>1, ConcatEmptySeq, Zenon
<1>6. Append(one, b) = two
  BY <1>1, <1>5, AppendIsConcat, Zenon DEF other
<1>7. SubSeq(one, 1, 1) = one /\ SubSeq(two, 1, 2) = two
  BY <1>1, SubSeqFull
<1>8. SubSeq(one, 2, 1) = <<>> /\ SubSeq(two, 3, 2) = <<>>
  BY SubSeqEmpty
<1>9. SubSeq(two, 1, 1) = one
  BY <1>1, <1>3
<1> QED
  BY <1>1, <1>2, <1>5, <1>6, <1>7, <1>8, <1>9, Zenon DEF one, two, other

\* A read of answers, the first of which is the oldest.
LEMMA ReadStep ==
    ASSUME IInv, send_answered
    PROVE  IInv'
<1>1. call # None
  BY DEF send_answered
<1>2. PICK lines \in Answers :
        /\ ChipRuns(Sent, lines)
        /\ \E k \in 1..Len(Append(rx, lines)) :
              /\ apply_route_plan(parse_command_response(Concat(SubSeq(Append(rx, lines), 1, k))))
              /\ rx' = SubSeq(Append(rx, lines), k + 1, Len(Append(rx, lines)))
  BY DEF send_answered
<1> DEFINE q == Append(rx, lines)
<1>3. PICK k \in 1..Len(q) :
        /\ apply_route_plan(parse_command_response(Concat(SubSeq(q, 1, k))))
        /\ rx' = SubSeq(q, k + 1, Len(q))
  BY <1>2
<1> DEFINE out == parse_command_response(Concat(SubSeq(q, 1, k)))
<1>4. rx \in Seq(Seq(Words)) /\ lines \in Seq(Words)
  BY AnswerShape DEF IInv, TypeInv
<1>5. q \in Seq(Seq(Words)) /\ Len(q) = Len(rx) + 1
  BY <1>4
<1>6. rx' \in Seq(Seq(Words))
  <2> HIDE DEF q
  <2> QED
    BY <1>3, <1>5
<1>7. ASSUME call.sync, out = "ok"
      PROVE  lines \in {<<"OK">>, <<"echo", "OK">>} /\ rx' \in {<<>>, << <<>> >>}
  <2>1. Concat(<<lines>>) = lines /\ Concat(<< <<>>, lines >>) = lines /\ Concat(<< <<>> >>) = <<>>
    <3> DEFINE none == <<>>
    <3>1. none \in Seq(Seq(Words)) /\ <<>> \in Seq(Words) /\ <<lines>> \in Seq(Seq(Words))
      BY <1>4
    <3>2. Concat(<<lines>> \o none) = lines \o Concat(none)
      BY <1>4, <3>1, ConcatCons, Zenon
    <3>3. Concat(<< <<>> >> \o none) = <<>> \o Concat(none)
      BY <3>1, ConcatCons, Zenon
    <3>4. Concat(<< <<>> >> \o <<lines>>) = <<>> \o Concat(<<lines>>)
      BY <3>1, ConcatCons, Zenon
    <3>5. <<lines>> \o none = <<lines>> /\ << <<>> >> \o none = << <<>> >>
          /\ << <<>> >> \o <<lines>> = << <<>>, lines >>
      BY <1>4, <3>1, ShortQueues, Zenon
    <3>6. lines \o <<>> = lines /\ <<>> \o lines = lines /\ <<>> \o <<>> = <<>>
      BY <1>4
    <3> QED
      BY <3>2, <3>3, <3>4, <3>5, <3>6, ConcatEmpty, Zenon
  <2>2. parse_command_response(<<>>) = "empty"
    BY DEF parse_command_response
  <2>3. rx = <<>> \/ rx = << <<>> >>
    BY <1>1, <1>7 DEF IInv, InSync
  <2>4. out = parse_command_response(lines) /\ rx' = <<>>
    <3>0. <<>> \in Seq(Words)
      OBVIOUS
    <3>1. CASE rx = <<>>
      <4>1. q = <<lines>> /\ Len(<<lines>>) = 1
            /\ SubSeq(<<lines>>, 1, 1) = <<lines>> /\ SubSeq(<<lines>>, 2, 1) = <<>>
        BY <1>4, <3>1, ShortQueues
      <4>2. k = 1 /\ k + 1 = 2
        <5>1. k \in 1..1
          BY <4>1
        <5> QED
          BY <5>1
      <4>3. SubSeq(q, 1, k) = SubSeq(<<lines>>, 1, 1)
        BY <4>1, <4>2, Zenon
      <4>4. SubSeq(q, k + 1, Len(q)) = SubSeq(<<lines>>, 2, 1)
        BY <4>1, <4>2, Zenon
      <4> QED
        BY <1>3, <2>1, <4>1, <4>3, <4>4, Zenon
    <3>2. CASE rx = << <<>> >>
      <4> DEFINE none == <<>>
      <4>0. none \in Seq(Words) /\ rx = <<none>>
        BY <3>0, <3>2
      <4> HIDE DEF none
      <4>1. q = <<none, lines>> /\ Len(<<none, lines>>) = 2
            /\ SubSeq(<<none, lines>>, 1, 1) = <<none>>
            /\ SubSeq(<<none, lines>>, 1, 2) = <<none, lines>>
            /\ SubSeq(<<none, lines>>, 3, 2) = <<>>
        BY <1>4, <4>0, ShortQueues
      <4>2. k = 1 \/ (k = 2 /\ k + 1 = 3)
        <5>1. k \in 1..2
          BY <4>1
        <5> QED
          BY <5>1
      <4>3. CASE k = 1
        <5>1. SubSeq(q, 1, k) = SubSeq(<<none, lines>>, 1, 1)
          BY <4>1, <4>3, Zenon
        <5>2. out = "empty"
          BY <2>1, <2>2, <4>1, <5>1, Zenon DEF none
        <5> QED
          BY <1>7, <5>2
      <4>4. CASE k = 2 /\ k + 1 = 3
        <5>1. SubSeq(q, 1, k) = SubSeq(<<none, lines>>, 1, 2)
          BY <4>1, <4>4, Zenon
        <5>2. SubSeq(q, k + 1, Len(q)) = SubSeq(<<none, lines>>, 3, 2)
          BY <4>1, <4>4, Zenon
        <5> QED
          BY <1>3, <2>1, <4>1, <5>1, <5>2, Zenon DEF none
      <4> QED
        BY <4>2, <4>3, <4>4
    <3> QED
      BY <2>3, <3>1, <3>2
  <2>5. SubSeq(lines, 1, Len(lines)) = lines /\ Len(lines) \in 1..Len(lines)
    <3> DEFINE len == Len(lines)
    <3>1. len = 1 \/ len = 2
      BY AnswerShape, Zenon
    <3> HIDE DEF len
    <3>2. len \in 1..len
      BY <3>1
    <3>3. \A s \in Seq(Words) : SubSeq(s, 1, Len(s)) = s
      OBVIOUS
    <3> QED
      BY <1>4, <3>2, <3>3, Zenon DEF len
  <2> QED
    BY <1>7, <2>4, <2>5, OkMeansOk, Zenon
<1> HIDE DEF q, out
<1> QED
  BY <1>1, <1>2, <1>3, <1>6, <1>7, LoopStep, Zenon DEF q, out

\* A read that times out, with none or some of the lines read.
LEMMA TimeOutStep ==
    ASSUME IInv, send_times_out
    PROVE  IInv'
<1>1. call # None
  BY DEF send_times_out
<1>2. PICK lines \in Answers :
        /\ ChipRuns(Sent, lines)
        /\ \/ rx' \in {<<>>, <<lines>>} /\ apply_route_plan("Timeout")
           \/ \E n \in 1..Len(lines) :
                 /\ apply_route_plan(parse_command_response(SubSeq(lines, 1, n)))
                 /\ rx' = <<After(lines, n)>>
  BY DEF send_times_out
<1>3. lines \in Seq(Words)
  BY AnswerShape
<1>4. CASE rx' \in {<<>>, <<lines>>} /\ apply_route_plan("Timeout")
  <2>1. rx' \in Seq(Seq(Words)) /\ "Timeout" # "ok"
    <3>1. <<>> \in Seq(Seq(Words)) /\ <<lines>> \in Seq(Seq(Words))
      BY <1>3
    <3> QED
      BY <1>4, <3>1
  <2> QED
    BY <1>1, <1>2, <1>4, <2>1, LoopStep, Zenon
<1>5. ASSUME NEW n \in 1..Len(lines),
             apply_route_plan(parse_command_response(SubSeq(lines, 1, n))),
             rx' = <<After(lines, n)>>
      PROVE  IInv'
  <2> DEFINE out == parse_command_response(SubSeq(lines, 1, n))
  <2>1. After(lines, n) \in Seq(Words) /\ (n = Len(lines) => After(lines, n) = <<>>)
    BY <1>3 DEF After
  <2>2. rx' \in Seq(Seq(Words))
    BY <1>5, <2>1
  <2>3. out = "ok" => lines \in {<<"OK">>, <<"echo", "OK">>} /\ n = Len(lines)
    BY OkMeansOk
  <2>4. out = "ok" => lines \in {<<"OK">>, <<"echo", "OK">>} /\ rx' \in {<<>>, << <<>> >>}
    BY <1>5, <2>1, <2>3
  <2> HIDE DEF out
  <2> QED
    BY <1>1, <1>2, <1>5, <2>2, <2>4, LoopStep, Zenon DEF out
<1> QED
  BY <1>2, <1>4, <1>5, Zenon

\* The write fails: the chip has not seen the command, or runs it all the same.
LEMMA WriteFailsStep ==
    ASSUME IInv, send_write_fails
    PROVE  IInv'
<1>1. call # None /\ call' = None /\ result' = [ok |-> FALSE, why |-> "write"]
  BY DEF send_write_fails, apply_route_plan
<1>2. CASE UNCHANGED <<chip, rx, opened>>
  <2>1. RouteAsReported'
    BY <1>1 DEF RouteAsReported
  <2>2. OpenIsWhole'
    BY <1>1, <1>2 DEF IInv, OpenIsWhole, Realizes
  <2> QED
    BY <1>1, <1>2, <2>1, <2>2 DEF IInv, TypeInv, InSync, Underway, Disowned
<1>3. ASSUME NEW lines \in Answers, ChipRuns(Sent, lines), rx' = Append(rx, lines)
      PROVE  IInv'
  <2>1. rx' \in Seq(Seq(Words)) /\ "write" # "ok"
    BY <1>3, AnswerShape DEF IInv, TypeInv
  <2>2. apply_route_plan("write")
    BY DEF send_write_fails
  <2> QED
    BY <1>1, <1>3, <2>1, <2>2, LoopStep, Zenon
<1> QED
  BY <1>2, <1>3 DEF send_write_fails

\* The future is dropped: the chip runs the command, its answer stays unread.
LEMMA DroppedStep ==
    ASSUME IInv, send_dropped
    PROVE  IInv'
<1>1. call # None /\ call' = None /\ result' = None
  BY DEF send_dropped
<1>2. PICK lines \in Answers : ChipRuns(Sent, lines) /\ rx' = Append(rx, lines)
  BY DEF send_dropped
<1>3. rx' \in Seq(Seq(Words))
  BY <1>2, AnswerShape DEF IInv, TypeInv
<1>4. PICK plan : /\ IsPlan(plan)
                  /\ \E at \in 1..OpenAt(plan), sync \in BOOLEAN :
                        call = [plan |-> plan, at |-> at, sync |-> sync]
  BY <1>1, CallParts DEF IInv
<1>5. PICK at \in 1..OpenAt(plan), sync \in BOOLEAN :
        call = [plan |-> plan, at |-> at, sync |-> sync]
  BY <1>4
<1>6. chip' \in ChipState /\ OpenIsWhole'
  BY <1>1, <1>2, <1>4, <1>5, Exchange
<1> QED
  BY <1>1, <1>3, <1>6 DEF IInv, TypeInv, InSync, Underway, Disowned, RouteAsReported

\* Link::reset only empties the link.
LEMMA ResetStep ==
    ASSUME IInv, link_reset
    PROVE  IInv'
<1>1. call = None /\ rx' = <<>> /\ UNCHANGED <<chip, call, result, opened>>
  BY DEF link_reset
<1>2. RouteAsReported' /\ OpenIsWhole'
  BY <1>1 DEF IInv, RouteAsReported, OpenIsWhole, Realizes
<1> QED
  BY <1>1, <1>2 DEF IInv, TypeInv, InSync, Underway, Disowned

(***************************************************************************)
(* The theorems                                                            *)
(***************************************************************************)

\* The invariant holds in every reachable state.
THEOREM Invariance == Spec => []IInv
<1>1. Init => IInv
  <2> SUFFICES ASSUME Init PROVE IInv
    OBVIOUS
  <2>1. chip \in ChipState /\ ~chip.open
    BY DEF Init, ResetChip, ChipState
  <2>2. RouteAsReported /\ OpenIsWhole
    BY <2>1 DEF Init, RouteAsReported, OpenIsWhole
  <2> QED
    BY <2>1, <2>2 DEF Init, IInv, TypeInv, InSync, Underway, Disowned
<1>2. IInv /\ [Next]_vars => IInv'
  <2> SUFFICES ASSUME IInv, [Next]_vars PROVE IInv'
    OBVIOUS
  <2>1. CASE UNCHANGED vars
    BY <2>1 DEF vars, IInv, TypeInv, InSync, Underway, Progress, Disowned,
                RouteAsReported, OpenIsWhole, Realizes
  <2>2. CASE Next
    BY <2>2, ApplyRouteStep, ReadStep, WriteFailsStep, TimeOutStep, DroppedStep, ResetStep, Zenon
       DEF Next
  <2> QED
    BY <2>1, <2>2
<1> QED
  BY <1>1, <1>2, PTL DEF Spec

\* When apply_route reports success on a link with nothing unread, the chip is on
\* the route reported, whatever the routes, the filter memory and the earlier calls.
THEOREM RouteReported == Spec => []RouteAsReported
<1>1. IInv => RouteAsReported
  BY DEF IInv
<1> QED
  BY <1>1, Invariance, PTL

\* The chip is never open on half a route, wherever a plan was interrupted.
THEOREM WholeRoutes == Spec => []OpenIsWhole
<1>1. IInv => OpenIsWhole
  BY DEF IInv
<1> QED
  BY <1>1, Invariance, PTL
=============================================================================
