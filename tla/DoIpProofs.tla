----------------------------- MODULE DoIpProofs -----------------------------
(***************************************************************************)
(* Theorems about the DoIP client, for any addresses and bounds: the       *)
(* framing of the byte stream, what an activation means, and whose answer  *)
(* send_diagnostic returns.                                                *)
(*                                                                         *)
(* The properties speak of what was returned; they are inductive only with *)
(* what is on its way: which messages the entity's queue can hold while a  *)
(* call waits (Owned, Activated), and that the header a call holds is that *)
(* of the first of them (HeadTaken).                                       *)
(***************************************************************************)
EXTENDS DoIp, WireProofs

Ops == {"activate", "activation", "diagnostic"}

Types == DOMAIN PayloadTypes

Headers == [version : Nat, inverse : Nat, type : Types \cup {"Unknown"}, length : Nat]

\* Messages short enough for a length of one byte: all that this client and this
\* entity send.
Messages == {Message(type, p) : type \in Types, p \in {s \in Seq(Nat) : Len(s) <= 255}}

Calls == [op : Ops, n : Nat, to : Nat, events : Nat, header : {{}} \cup {{h} : h \in Headers}]

TypeInv ==
    /\ entity_address \in Nat /\ calls \in Nat
    /\ in \in Seq(Nat) /\ out \in Seq(Nat)
    /\ queue \in Seq(Messages) /\ jobs \in Seq(Messages)
    /\ routing \in BOOLEAN /\ cut \in BOOLEAN /\ clean \in BOOLEAN
    /\ call \in {Idle} \cup Calls

\* A call asks the address the client holds, and has returned nothing yet.
Waiting == call # Idle => result = Idle /\ call.to = entity_address

\* The header a call has read is that of the first message on its way.
HeadTaken ==
    call # Idle /\ call.header # {} /\ ~cut =>
        queue # <<>> /\ call.header = {Head(queue).header}

\* A successful activation is on its way only if it took place.
Activates16(m) ==
    m.header.type = "RoutingActivationResponse" /\ m.payload[5] = DOIP_ROUTING_ACTIVATION_SUCCESS
Activated == (\E i \in 1..Len(queue) : Activates16(queue[i])) => routing
JobsAnswer == \A i \in 1..Len(jobs) : jobs[i].header.type = "DiagnosticMessage"

\* m answers request n, if it is an answer.
Answers(m, n) ==
    m.header.type = "DiagnosticMessage" => After(m.payload, 4) \in {<<98, n>>, <<127, 34, 120>>}

\* In a call that began on a quiet connection, all that is on its way is this
\* call's: its request, or answers to it.
Owned ==
    clean /\ ~cut /\ call # Idle =>
        /\ out \in {<<>>, encode(Request(call.op, call.n, call.to))}
        /\ \A i \in 1..Len(queue) : Answers(queue[i], call.n)
        /\ \A i \in 1..Len(jobs) : Answers(jobs[i], call.n)

IInv == TypeInv /\ Waiting /\ HeadTaken /\ Activated /\ JobsAnswer /\ Owned
        /\ StreamAligned /\ AnswersTheRequest /\ ActivationReal

(***************************************************************************)
(* Headers                                                                 *)
(***************************************************************************)

TypeNames ==
    {"GenericNegativeAck", "VehicleIdentificationRequest",
     "VehicleIdentificationRequestWithEid", "VehicleIdentificationRequestWithVin",
     "VehicleAnnouncement", "RoutingActivationRequest", "RoutingActivationResponse",
     "AliveCheckRequest", "AliveCheckResponse", "EntityStatusRequest",
     "EntityStatusResponse", "DiagnosticPowerModeRequest", "DiagnosticPowerModeResponse",
     "DiagnosticMessage", "DiagnosticPositiveAck", "DiagnosticNegativeAck"}

\* The payload types have names of their own and numbers of their own.
LEMMA PayloadNumbers ==
    /\ Types = TypeNames
    /\ \A t \in Types : PayloadTypes[t] \in Nat /\ PayloadTypes[t] < 65536
    /\ \A t, u \in Types : PayloadTypes[t] = PayloadTypes[u] => t = u
<1>1. Types = TypeNames
  BY DEF Types, PayloadTypes, TypeNames
<1>2. \A t \in TypeNames : PayloadTypes[t] \in Nat /\ PayloadTypes[t] < 65536
  BY DEF PayloadTypes, TypeNames
<1>3. \A t, u \in TypeNames : PayloadTypes[t] = PayloadTypes[u] => t = u
  BY DEF PayloadTypes, TypeNames
<1> QED
  BY <1>1, <1>2, <1>3

\* from_u16 undoes as_u16.
LEMMA TypeRoundTrip == \A t \in Types : from_u16(as_u16(t)) = t
<1>1. \A t, u \in DOMAIN PayloadTypes : PayloadTypes[t] = PayloadTypes[u] => t = u
  BY PayloadNumbers DEF Types
<1> QED
  BY <1>1, Zenon DEF from_u16, as_u16, Types

\* A number of two bytes, high byte first.
LEMMA TwoBytes ==
    ASSUME NEW n \in Nat
    PROVE  /\ Bits(n, 0, 8) = n % 256 /\ Bits(n, 8, 8) = (n \div 256) % 256
           /\ Bits(n, 0, 8) \in Nat /\ Bits(n, 8, 8) \in Nat
           /\ n < 65536 => 256 * Bits(n, 8, 8) + Bits(n, 0, 8) = n
<1>1. 2^0 = 1 /\ 2^8 = 256
  OBVIOUS
<1>2. n \div 1 = n /\ n % 256 \in Nat /\ n \div 256 \in Nat
  OBVIOUS
<1>3. (n \div 256) % 256 \in Nat
  BY <1>2
<1>4. Bits(n, 0, 8) = n % 256 /\ Bits(n, 8, 8) = (n \div 256) % 256
  BY <1>1, <1>2, Zenon DEF Bits
<1>5. ASSUME n < 65536 PROVE 256 * ((n \div 256) % 256) + (n % 256) = n
  <2>1. n \div 256 >= 0 /\ n \div 256 < 256
    BY <1>5
  <2>2. (n \div 256) % 256 = n \div 256
    BY <1>2, <2>1
  <2> QED
    BY <2>2
<1> QED
  BY <1>2, <1>3, <1>4, <1>5

\* b begins with the header of a message of this type and length.
BeginsWith(b, type, n) ==
    /\ b \in Seq(Nat) /\ Len(b) >= 8
    /\ b[1] = 2 /\ b[2] = 253
    /\ b[3] = Bits(as_u16(type), 8, 8) /\ b[4] = Bits(as_u16(type), 0, 8)
    /\ b[5] = 0 /\ b[6] = 0 /\ b[7] = 0 /\ b[8] = n

\* The eight bytes of a header of a short message (encode_header).
LEMMA HeaderBytes ==
    ASSUME NEW type \in Types, NEW n \in 0..255
    PROVE  /\ BeginsWith(encode_header(Header(type, n)), type, n)
           /\ Len(encode_header(Header(type, n))) = 8
<1> DEFINE u == as_u16(type)
           hi == Bits(u, 8, 8)
           lo == Bits(u, 0, 8)
           a == <<2, 253>>
           b == ToBe16(u)
           c == ToBe32(n)
<1>1. u \in Nat /\ u < 65536
  BY PayloadNumbers DEF as_u16
<1>2. hi \in Nat /\ lo \in Nat /\ 256 * hi + lo = u
  BY <1>1, TwoBytes
<1>3. Bits(n, 24, 7) = 0 /\ Bits(n, 16, 8) = 0 /\ Bits(n, 8, 8) = 0 /\ Bits(n, 0, 8) = n
  <2>1. n \div 2^24 = 0 /\ n \div 2^16 = 0 /\ n \div 2^8 = 0 /\ n \div 2^0 = n
    OBVIOUS
  <2>2. 0 % 2^7 = 0 /\ 0 % 2^8 = 0 /\ n % 2^8 = n
    OBVIOUS
  <2> QED
    BY <2>1, <2>2 DEF Bits
<1> HIDE DEF hi, lo
<1>4. a \in Seq(Nat) /\ Len(a) = 2 /\ a[1] = 2 /\ a[2] = 253
  OBVIOUS
<1>5. b \in Seq(Nat) /\ Len(b) = 2 /\ b[1] = hi /\ b[2] = lo
  <2>1. b = <<hi, lo>>
    BY DEF ToBe16, hi, lo
  <2> QED
    BY <1>2, <2>1
<1>6. c \in Seq(Nat) /\ Len(c) = 4 /\ c[1] = 0 /\ c[2] = 0 /\ c[3] = 0 /\ c[4] = n
  <2>1. c = <<0, 0, 0, n>>
    BY <1>3 DEF ToBe32
  <2> QED
    BY <2>1
<1>7. encode_header(Header(type, n)) = (a \o b) \o c
  BY DEF encode_header, Header, DOIP_VERSION_DEFAULT
<1> HIDE DEF a, b, c, u
<1> DEFINE ab == a \o b
           h == ab \o c
<1>8. ab \in Seq(Nat) /\ Len(ab) = 4 /\ ab[1] = 2 /\ ab[2] = 253 /\ ab[3] = hi /\ ab[4] = lo
  <2>1. ab \in Seq(Nat) /\ Len(ab) = Len(a) + Len(b)
        /\ (\A i \in 1..Len(a) : ab[i] = a[i]) /\ (\A i \in 1..Len(b) : ab[Len(a) + i] = b[i])
    <3>1. a \in Seq(Nat) /\ b \in Seq(Nat)
      BY <1>4, <1>5
    <3> QED
      BY <3>1, Joined
  <2> HIDE DEF ab
  <2> QED
    BY <1>4, <1>5, <2>1
<1> HIDE DEF ab
<1>9. h \in Seq(Nat) /\ Len(h) = 8 /\ h[1] = 2 /\ h[2] = 253 /\ h[3] = hi /\ h[4] = lo
      /\ h[5] = 0 /\ h[6] = 0 /\ h[7] = 0 /\ h[8] = n
  <2>1. h \in Seq(Nat) /\ Len(h) = Len(ab) + Len(c)
        /\ (\A i \in 1..Len(ab) : h[i] = ab[i]) /\ (\A i \in 1..Len(c) : h[Len(ab) + i] = c[i])
    <3>1. ab \in Seq(Nat) /\ c \in Seq(Nat)
      BY <1>8, <1>6
    <3> QED
      BY <3>1, Joined
  <2> HIDE DEF h
  <2> QED
    BY <1>6, <1>8, <2>1
<1> HIDE DEF h
<1>10. BeginsWith(h, type, n)
  BY <1>9 DEF BeginsWith, u, hi, lo
<1> QED
  BY <1>7, <1>9, <1>10 DEF h, ab

\* A buffer that begins with these bytes parses to the header written: nothing is
\* lost, whatever follows (parse_header).
LEMMA ParsesHeader ==
    ASSUME NEW type \in Types, NEW n \in 0..255, NEW b, BeginsWith(b, type, n)
    PROVE  parse_header(b) = Ok(Header(type, n))
<1> DEFINE u == as_u16(type)
           hi == Bits(u, 8, 8)
           lo == Bits(u, 0, 8)
           two == Slice(b, 2, 2)
           four == Slice(b, 4, 4)
<1>1. hi \in Nat /\ lo \in Nat /\ 256 * hi + lo = u
  <2>1. u \in Nat /\ u < 65536
    BY PayloadNumbers DEF as_u16
  <2> QED
    BY <2>1, TwoBytes
<1>2. b \in Seq(Nat) /\ Len(b) >= 8 /\ b[1] = 2 /\ b[2] = 253 /\ b[3] = hi /\ b[4] = lo
      /\ b[5] = 0 /\ b[6] = 0 /\ b[7] = 0 /\ b[8] = n
  BY DEF BeginsWith
<1> HIDE DEF u, hi, lo
<1>3. two[1] = hi /\ two[2] = lo
  BY <1>2 DEF Slice
<1>4. four[1] = 0 /\ four[2] = 0 /\ four[3] = 0 /\ four[4] = n
  BY <1>2 DEF Slice
<1> HIDE DEF two, four
<1>5. Be16(two) = u
  BY <1>1, <1>3 DEF Be16
<1>6. Be32(four) = n
  <2>1. 16777216 * 0 + 65536 * 0 + 256 * 0 + n = n
    OBVIOUS
  <2> QED
    BY <1>4, <2>1 DEF Be32
<1>7. ~Oversize(four)
  <2>1. ~(0 > 1) /\ ~(n > 16777216)
    BY SMT
  <2> QED
    BY <1>4, <1>6, <2>1, SMT DEF Oversize, DOIP_MAX_PAYLOAD_LEN
<1>8. from_u16(u) = type
  BY TypeRoundTrip DEF u
<1>9. b[2] = 255 - b[1] /\ ~(Len(b) < DOIP_HEADER_LEN)
  BY <1>2 DEF DOIP_HEADER_LEN
<1> QED
  BY <1>2, <1>5, <1>6, <1>7, <1>8, <1>9 DEF parse_header, Header, DOIP_VERSION_DEFAULT, two, four

(***************************************************************************)
(* Messages and streams of them                                            *)
(***************************************************************************)

\* What the proofs use of a message.
MessageShape(m) ==
    /\ m.header \in Headers /\ m.header.type \in Types
    /\ m.payload \in Seq(Nat) /\ m.header.length = Len(m.payload)
    /\ m = [header |-> m.header, payload |-> m.payload]
    /\ encode_header(m.header) \in Seq(Nat) /\ Len(encode_header(m.header)) = 8
    /\ encode(m) = encode_header(m.header) \o m.payload /\ encode(m) \in Seq(Nat)

\* A short payload's length.
LEMMA ShortLength ==
    ASSUME NEW p \in Seq(Nat), Len(p) <= 255
    PROVE  Len(p) \in 0..255
<1> DEFINE n == Len(p)
<1>1. n \in Nat /\ n <= 255
  OBVIOUS
<1> HIDE DEF n
<1>2. n \in 0..255
  BY <1>1
<1> QED
  BY <1>2 DEF n

\* A short message has its header's bytes in front of its payload's.
LEMMA MessageParts ==
    ASSUME NEW type \in Types, NEW p \in Seq(Nat), Len(p) <= 255
    PROVE  LET m == Message(type, p) IN
           /\ m \in Messages
           /\ MessageShape(m)
           /\ m.payload = p /\ m.header = Header(type, Len(p))
<1> DEFINE m == Message(type, p)
<1>1. Len(p) \in 0..255
  BY ShortLength
<1>2. m \in Messages
  <2>1. p \in {s \in Seq(Nat) : Len(s) <= 255}
    OBVIOUS
  <2> QED
    BY <2>1 DEF Messages
<1>3. m.payload = p /\ m.header = Header(type, Len(p))
  BY DEF Message
<1>4. m = [header |-> m.header, payload |-> m.payload]
  BY DEF Message
<1>5. m.header \in Headers /\ m.header.type = type /\ m.header.length = Len(p)
  <2>1. Header(type, Len(p)) \in Headers /\ Header(type, Len(p)).type = type
        /\ Header(type, Len(p)).length = Len(p)
    BY <1>1 DEF Header, Headers, DOIP_VERSION_DEFAULT
  <2> QED
    BY <1>3, <2>1
<1> HIDE DEF m
<1> DEFINE eh == encode_header(m.header)
<1>6. eh \in Seq(Nat) /\ Len(eh) = 8
  <2>1. BeginsWith(eh, type, Len(p)) /\ Len(eh) = 8
    BY <1>1, <1>3, HeaderBytes
  <2> QED
    BY <2>1 DEF BeginsWith
<1>7. encode(m) = eh \o m.payload
  BY DEF encode
<1> HIDE DEF eh
<1>8. eh \o m.payload \in Seq(Nat)
  BY <1>3, <1>6
<1> QED
  BY <1>2, <1>3, <1>4, <1>5, <1>6, <1>7, <1>8 DEF MessageShape, m, eh

\* The same, for a message taken from a set.
LEMMA AnyMessage ==
    ASSUME NEW m \in Messages
    PROVE  MessageShape(m)
<1>1. PICK type \in Types, p \in {s \in Seq(Nat) : Len(s) <= 255} : m = Message(type, p)
  BY DEF Messages
<1> QED
  BY <1>1, MessageParts

\* What follows a header leaves it as it is.
LEMMA StillBegins ==
    ASSUME NEW type, NEW n, NEW h, BeginsWith(h, type, n), NEW after \in Seq(Nat)
    PROVE  BeginsWith(h \o after, type, n)
<1> DEFINE b == h \o after
           l == Len(h)
<1>1. h \in Seq(Nat) /\ l >= 8
  BY DEF BeginsWith
<1>2. b \in Seq(Nat) /\ Len(b) = l + Len(after) /\ Len(after) \in Nat /\ l \in Nat
      /\ \A i \in 1..l : b[i] = h[i]
  BY <1>1, Joined
<1> HIDE DEF b, l
<1>3. Len(b) >= 8 /\ \A i \in 1..8 : i \in 1..l
  BY <1>1, <1>2
<1>4. b[1] = h[1] /\ b[2] = h[2] /\ b[3] = h[3] /\ b[4] = h[4]
  BY <1>2, <1>3
<1>5. b[5] = h[5] /\ b[6] = h[6] /\ b[7] = h[7] /\ b[8] = h[8]
  BY <1>2, <1>3
<1>6. BeginsWith(b, type, n)
  BY <1>2, <1>3, <1>4, <1>5 DEF BeginsWith
<1> QED
  BY <1>6 DEF b

\* A stream that begins with a message is cut after its header, and the header is
\* read as it was written.
LEMMA Taking ==
    ASSUME NEW m \in Messages, NEW rest \in Seq(Nat)
    PROVE  LET b == encode(m) \o rest IN
           /\ b \in Seq(Nat) /\ Len(b) = 8 + m.header.length + Len(rest)
           /\ parse_header(b) = Ok(m.header)
           /\ parse_header(Slice(b, 0, 8)) = Ok(m.header)
           /\ After(b, 8) = m.payload \o rest
           /\ After(b, 8 + m.header.length) = rest
           /\ Slice(b, 8, m.header.length) = m.payload
<1>1. PICK type \in Types, p \in {s \in Seq(Nat) : Len(s) <= 255} : m = Message(type, p)
  BY DEF Messages
<1> DEFINE n == Len(p)
           eh == encode_header(m.header)
           b == (eh \o m.payload) \o rest
           after == m.payload \o rest
<1>2. n \in 0..255 /\ m.payload = p /\ m.header = Header(type, n)
  <2>1. p \in Seq(Nat) /\ Len(p) <= 255
    OBVIOUS
  <2>2. n \in 0..255
    BY <2>1, ShortLength
  <2> QED
    BY <1>1, <2>1, <2>2, MessageParts
<1>3. MessageShape(m)
  BY AnyMessage
<1>4. BeginsWith(eh, type, n) /\ Len(eh) = 8
  BY <1>2, HeaderBytes
<1>5. eh \in Seq(Nat) /\ m.payload \in Seq(Nat) /\ encode(m) = eh \o m.payload
      /\ m.header.length = Len(m.payload)
  BY <1>3 DEF MessageShape
<1> HIDE DEF eh, n
<1>6. ThreeParts(b, eh, m.payload, rest) /\ after \in Seq(Nat) /\ b \in Seq(Nat)
  BY <1>5, MiddleSeparated
<1> HIDE DEF b, after
<1>7. BeginsWith(b, type, n)
  BY <1>4, <1>6, StillBegins, Zenon DEF ThreeParts, after
<1>8. parse_header(b) = Ok(m.header) /\ parse_header(eh) = Ok(m.header)
  BY <1>2, <1>4, <1>7, ParsesHeader
<1> QED
  BY <1>4, <1>5, <1>6, <1>8, Zenon DEF ThreeParts, b, after

\* The bytes of messages that follow each other.
Flat(q) == Concat(Map(q, encode))

\* They are bytes, and none when there is no message.
LEMMA FlatTyped ==
    ASSUME NEW q \in Seq(Messages)
    PROVE  /\ Map(q, encode) \in Seq(Seq(Nat)) /\ Len(Map(q, encode)) = Len(q)
           /\ \A i \in 1..Len(q) : Map(q, encode)[i] = encode(q[i])
           /\ Flat(q) \in Seq(Nat)
<1> DEFINE es == Map(q, encode)
<1>1. \A m \in Messages : encode(m) \in Seq(Nat)
  BY AnyMessage DEF MessageShape
<1>2. es = [i \in 1..Len(q) |-> encode(q[i])]
  BY DEF Map
<1>3. es \in [1..Len(q) -> Seq(Nat)] /\ Len(q) \in Nat
  BY <1>1, <1>2
<1> HIDE DEF es
<1>4. es \in Seq(Seq(Nat)) /\ Len(es) = Len(q)
  BY <1>3
<1>5. Concat(es) \in Seq(Nat)
  BY <1>4, ConcatSums
<1> QED
  BY <1>2, <1>4, <1>5 DEF Flat, es

\* Without messages there are no bytes.
LEMMA FlatEmpty == Flat(<<>>) = <<>>
<1>1. Map(<<>>, encode) = <<>>
  BY DEF Map
<1> QED
  BY <1>1, ConcatEmpty, Zenon DEF Flat

\* The first message comes first.
LEMMA FlatFirst ==
    ASSUME NEW q \in Seq(Messages), q # <<>>
    PROVE  /\ Head(q) \in Messages /\ Tail(q) \in Seq(Messages)
           /\ Flat(Tail(q)) \in Seq(Nat)
           /\ Flat(q) = encode(Head(q)) \o Flat(Tail(q))
<1> DEFINE m == Head(q)
           r == Tail(q)
           es == Map(q, encode)
           rs == Map(r, encode)
<1>1. m \in Messages /\ r \in Seq(Messages) /\ m = q[1] /\ Len(q) = 1 + Len(r) /\ Len(r) \in Nat
      /\ \A i \in 1..Len(r) : q[1 + i] = r[i]
  OBVIOUS
<1> HIDE DEF m, r
<1>2. rs \in Seq(Seq(Nat)) /\ Len(rs) = Len(r) /\ (\A i \in 1..Len(r) : rs[i] = encode(r[i]))
      /\ Flat(r) \in Seq(Nat)
  BY <1>1, FlatTyped
<1>3. es \in Seq(Seq(Nat)) /\ Len(es) = Len(q) /\ \A i \in 1..Len(q) : es[i] = encode(q[i])
  BY FlatTyped
<1>4. encode(m) \in Seq(Nat)
  BY <1>1, AnyMessage DEF MessageShape
<1> HIDE DEF es, rs
<1>5. es = <<encode(m)>> \o rs
  <2> DEFINE t == <<encode(m)>> \o rs
  <2>1. <<encode(m)>> \in Seq(Seq(Nat)) /\ Len(<<encode(m)>>) = 1 /\ <<encode(m)>>[1] = encode(m)
    BY <1>4
  <2>2. t \in Seq(Seq(Nat)) /\ Len(t) = 1 + Len(r) /\ t[1] = encode(m)
        /\ \A i \in 1..Len(r) : t[1 + i] = rs[i]
    BY <1>2, <2>1, Joined
  <2> HIDE DEF t
  <2>3. ASSUME NEW i \in 1..Len(q) PROVE es[i] = t[i]
    <3>1. CASE i = 1
      BY <1>1, <1>3, <2>2, <3>1
    <3>2. CASE i # 1
      <4>1. i - 1 \in 1..Len(r) /\ i = 1 + (i - 1)
        BY <1>1, <3>2
      <4>2. q[i] = r[i - 1] /\ t[i] = rs[i - 1]
        BY <1>1, <2>2, <4>1
      <4> QED
        BY <1>2, <1>3, <4>1, <4>2
    <3> QED
      BY <3>1, <3>2
  <2>4. Len(es) = Len(t)
    BY <1>1, <1>3, <2>2
  <2>5. \A i \in 1..Len(es) : es[i] = t[i]
    BY <1>3, <2>3
  <2> QED
    BY <1>3, <2>2, <2>4, <2>5, SeqEqual DEF t
<1>6. Concat(<<encode(m)>> \o rs) = encode(m) \o Concat(rs)
  BY <1>2, <1>4, ConcatCons
<1> QED
  BY <1>1, <1>2, <1>5, <1>6, Zenon DEF Flat, es, rs, m, r

\* A message sent comes last (Emit).
LEMMA FlatLast ==
    ASSUME NEW q \in Seq(Messages), NEW m \in Messages
    PROVE  /\ Flat(q \o <<m>>) = Flat(q) \o encode(m)
           /\ Concat(Map(<<m>>, encode)) = encode(m)
<1> DEFINE es == Map(q, encode)
           t == q \o <<m>>
           ts == Map(t, encode)
<1>1. <<m>> \in Seq(Messages) /\ Len(<<m>>) = 1 /\ <<m>>[1] = m
  OBVIOUS
<1>2. t \in Seq(Messages) /\ Len(t) = Len(q) + 1 /\ t[Len(q) + 1] = m /\ Len(q) \in Nat
      /\ \A i \in 1..Len(q) : t[i] = q[i]
  BY <1>1, Joined
<1> HIDE DEF t
<1>3. es \in Seq(Seq(Nat)) /\ Len(es) = Len(q) /\ \A i \in 1..Len(q) : es[i] = encode(q[i])
  BY FlatTyped
<1>4. ts \in Seq(Seq(Nat)) /\ Len(ts) = Len(t) /\ \A i \in 1..Len(t) : ts[i] = encode(t[i])
  BY <1>2, FlatTyped
<1>5. encode(m) \in Seq(Nat)
  BY AnyMessage DEF MessageShape
<1> HIDE DEF es, ts
<1> DEFINE one == <<encode(m)>>
           u == es \o one
<1>6. one \in Seq(Seq(Nat)) /\ Len(one) = 1 /\ one[1] = encode(m)
  BY <1>5
<1> HIDE DEF one
<1>7. u \in Seq(Seq(Nat)) /\ Len(u) = Len(q) + 1 /\ u[Len(q) + 1] = encode(m)
      /\ \A i \in 1..Len(q) : u[i] = es[i]
  <2>1. es \in Seq(Seq(Nat)) /\ one \in Seq(Seq(Nat))
    BY <1>3, <1>6
  <2>2. u \in Seq(Seq(Nat)) /\ Len(u) = Len(es) + Len(one)
        /\ (\A i \in 1..Len(es) : u[i] = es[i])
        /\ (\A i \in 1..Len(one) : u[Len(es) + i] = one[i])
    BY <2>1, Joined
  <2> HIDE DEF u
  <2> QED
    BY <1>2, <1>3, <1>6, <2>2
<1> HIDE DEF u
<1>8. ts = u
  <2>1. ASSUME NEW i \in 1..Len(ts) PROVE ts[i] = u[i]
    <3>1. i \in 1..Len(q) \/ i = Len(q) + 1
      BY <1>2, <1>4
    <3>2. CASE i \in 1..Len(q)
      BY <1>2, <1>3, <1>4, <1>7, <3>2
    <3>3. CASE i = Len(q) + 1
      BY <1>2, <1>4, <1>7, <3>3
    <3> QED
      BY <3>1, <3>2, <3>3
  <2>2. Len(ts) = Len(u)
    BY <1>2, <1>4, <1>7
  <2> QED
    BY <1>4, <1>7, <2>1, <2>2, SeqEqual
<1>9. Concat(es \o <<encode(m)>>) = Concat(es) \o encode(m)
  BY <1>3, <1>5, ConcatSnoc
<1>10. Flat(<<m>>) = encode(m)
  <2>1. Head(<<m>>) = m /\ Tail(<<m>>) = <<>> /\ <<m>> # <<>>
    OBVIOUS
  <2>2. Flat(<<m>>) = encode(m) \o Flat(<<>>)
    BY <1>1, <2>1, FlatFirst, Zenon
  <2>3. encode(m) \o <<>> = encode(m)
    BY <1>5, ConcatEmptySeq
  <2> QED
    BY <2>2, <2>3, FlatEmpty, Zenon
<1> QED
  BY <1>8, <1>9, <1>10, Zenon DEF Flat, ts, es, u, t, one

(***************************************************************************)
(* Payloads                                                                *)
(***************************************************************************)

\* The payloads sent here are a few bytes long: their messages are as the lemmas
\* above want them.
LEMMA Sent ==
    ASSUME NEW type \in Types, NEW p \in Seq(Nat), Len(p) <= 9
    PROVE  /\ Message(type, p) \in Messages
           /\ Message(type, p).payload = p
           /\ Message(type, p).header.type = type
<1> DEFINE n == Len(p)
<1>1. n \in Nat /\ n <= 9
  OBVIOUS
<1> HIDE DEF n
<1>2. n <= 255
  BY <1>1
<1>3. Message(type, p) \in Messages /\ Message(type, p).payload = p
      /\ Message(type, p).header = Header(type, Len(p))
  BY <1>2, MessageParts DEF n
<1> QED
  BY <1>3 DEF Header

\* An address as bytes.
LEMMA AddressBytes ==
    ASSUME NEW a \in Nat
    PROVE  ToBe16(a) \in Seq(Nat) /\ Len(ToBe16(a)) = 2
<1> DEFINE hi == Bits(a, 8, 8)
           lo == Bits(a, 0, 8)
<1>1. hi \in Nat /\ lo \in Nat
  BY TwoBytes
<1>2. ToBe16(a) = <<hi, lo>>
  BY DEF ToBe16
<1> HIDE DEF hi, lo
<1>3. <<hi, lo>> \in Seq(Nat) /\ Len(<<hi, lo>>) = 2
  BY <1>1
<1> QED
  BY <1>2, <1>3

\* data behind k bytes of a payload.
Behind(p, k, data) ==
    /\ p \in Seq(Nat) /\ Len(p) = k + Len(data)
    /\ After(p, k) = data
    /\ \A i \in 1..Len(data) : p[k + i] = data[i]

\* What is appended to k bytes comes behind them.
LEMMA Appended ==
    ASSUME NEW s \in Seq(Nat), NEW k, Len(s) = k, NEW data \in Seq(Nat)
    PROVE  Behind(s \o data, k, data)
<1> DEFINE p == s \o data
<1>1. p \in Seq(Nat) /\ Len(p) = Len(s) + Len(data)
      /\ \A i \in 1..Len(data) : p[Len(s) + i] = data[i]
  <2>1. s \in Seq(Nat) /\ data \in Seq(Nat)
    OBVIOUS
  <2> QED
    BY ONLY <2>1, Joined
<1>2. After(p, Len(s)) = data
  BY Separated
<1> HIDE DEF p
<1>3. Behind(p, k, data)
  BY <1>1, <1>2 DEF Behind
<1> QED
  BY <1>3 DEF p

\* Two addresses take four bytes.
LEMMA Addressed ==
    ASSUME NEW a \in Nat, NEW b \in Nat
    PROVE  ToBe16(a) \o ToBe16(b) \in Seq(Nat) /\ Len(ToBe16(a) \o ToBe16(b)) = 4
<1> DEFINE s == ToBe16(a)
           t == ToBe16(b)
           p == s \o t
<1>1. s \in Seq(Nat) /\ Len(s) = 2 /\ t \in Seq(Nat) /\ Len(t) = 2
  BY AddressBytes
<1> HIDE DEF s, t
<1>2. Behind(p, 2, t)
  BY <1>1, Appended
<1> HIDE DEF p
<1>3. p \in Seq(Nat) /\ Len(p) = 4
  BY <1>1, <1>2 DEF Behind
<1> QED
  BY <1>3 DEF p, s, t

\* A message with this data behind the addresses.
DiagnosticTo(m, data) ==
    /\ m \in Messages /\ m.header.type = "DiagnosticMessage"
    /\ After(m.payload, 4) = data /\ Len(m.payload) = 4 + Len(data)

\* An answer carries its data behind the addresses (DoIpDiagnosticMessage).
LEMMA AnswerMessage ==
    ASSUME NEW a \in Nat, NEW b \in Nat, NEW data \in Seq(Nat), Len(data) <= 3
    PROVE  DiagnosticTo(Message("DiagnosticMessage",
               diagnostic_to_payload([source |-> a, target |-> b, user_data |-> data])), data)
<1> DEFINE four == ToBe16(a) \o ToBe16(b)
           p == four \o data
           type == "DiagnosticMessage"
<1>1. diagnostic_to_payload([source |-> a, target |-> b, user_data |-> data]) = p
  BY DEF diagnostic_to_payload
<1>2. four \in Seq(Nat) /\ Len(four) = 4
  BY Addressed
<1> HIDE DEF four
<1>3. Behind(p, 4, data)
  BY <1>2, Appended
<1> HIDE DEF p
<1>4. p \in Seq(Nat) /\ Len(p) <= 9 /\ Len(p) = 4 + Len(data) /\ After(p, 4) = data
  BY <1>3 DEF Behind
<1>5. type \in Types
  BY PayloadNumbers DEF TypeNames
<1>6. Message(type, p) \in Messages /\ Message(type, p).payload = p
      /\ Message(type, p).header.type = type
  BY <1>4, <1>5, Sent
<1>7. DiagnosticTo(Message(type, p), data)
  BY <1>4, <1>6, Zenon DEF DiagnosticTo
<1> QED
  BY <1>1, <1>7, Zenon

\* An acknowledgement is a short message too.
LEMMA AckMessage ==
    ASSUME NEW type \in {"DiagnosticPositiveAck", "DiagnosticNegativeAck"},
           NEW a \in Nat, NEW code \in Nat
    PROVE  Ack(type, a, code) \in Messages /\ Ack(type, a, code).header.type = type
<1> DEFINE four == ToBe16(a) \o ToBe16(Tester)
           one == <<code>>
           p == four \o one
<1>1. ack_to_payload([source |-> a, target |-> Tester, code |-> code, previous |-> <<>>])
        = p \o <<>>
  BY DEF ack_to_payload
<1>2. Tester \in Nat
  BY DoIpAssumption
<1>3. one \in Seq(Nat) /\ Len(one) = 1
  OBVIOUS
<1>4. four \in Seq(Nat) /\ Len(four) = 4
  BY <1>2, Addressed
<1> HIDE DEF four, one
<1>5. Behind(p, 4, one)
  BY <1>3, <1>4, Appended
<1> HIDE DEF p
<1>6. p \in Seq(Nat) /\ Len(p) <= 9
  BY <1>3, <1>5 DEF Behind
<1>7. p \o <<>> = p
  BY <1>6, ConcatEmptySeq
<1>8. type \in Types
  BY PayloadNumbers DEF TypeNames
<1>9. Message(type, p) \in Messages /\ Message(type, p).header.type = type
  BY <1>6, <1>8, Sent
<1> QED
  BY <1>1, <1>7, <1>9, Zenon DEF Ack

\* So are an alive check and a refusal.
LEMMA SmallMessage ==
    ASSUME NEW type \in {"GenericNegativeAck", "AliveCheckRequest"},
           NEW p \in {<<>>, << 0 >>, << 1 >>}
    PROVE  Message(type, p) \in Messages /\ Message(type, p).header.type = type
<1>1. type \in Types
  BY PayloadNumbers DEF TypeNames
<1>2. <<>> \in Seq(Nat) /\ Len(<<>>) <= 9 /\ <<0>> \in Seq(Nat) /\ Len(<<0>>) <= 9
      /\ <<1>> \in Seq(Nat) /\ Len(<<1>>) <= 9
  OBVIOUS
<1>3. p \in Seq(Nat) /\ Len(p) <= 9
  BY <1>2, Zenon
<1> QED
  BY <1>1, <1>3, Sent

\* An activation response with this code.
ActivationOf(m, code) ==
    /\ m \in Messages /\ m.header.type = "RoutingActivationResponse"
    /\ m.payload[5] = code

\* The fifth byte of an activation response is its code.
LEMMA ActivationMessage ==
    ASSUME NEW a \in Nat, NEW b \in Nat, NEW code \in Nat
    PROVE  ActivationOf(Message("RoutingActivationResponse",
               activation_response_to_payload([tester |-> a, entity |-> b,
                   code |-> code, iso |-> Fill(4, 0), oem |-> <<>>])), code)
<1> DEFINE four == ToBe16(a) \o ToBe16(b)
           one == <<code>>
           fill == Fill(4, 0)
           five == four \o one
           p == five \o fill
           type == "RoutingActivationResponse"
<1>1. activation_response_to_payload([tester |-> a, entity |-> b,
          code |-> code, iso |-> Fill(4, 0), oem |-> <<>>]) = p \o <<>>
  BY DEF activation_response_to_payload
<1>2. one \in Seq(Nat) /\ Len(one) = 1 /\ one[1] = code
  OBVIOUS
<1>3. fill \in Seq(Nat) /\ Len(fill) = 4
  BY DEF Fill
<1>4. four \in Seq(Nat) /\ Len(four) = 4
  BY Addressed
<1> HIDE DEF four, one, fill
<1>5. Behind(five, 4, one)
  BY <1>2, <1>4, Appended
<1> HIDE DEF five
<1>6. five \in Seq(Nat) /\ Len(five) = 5 /\ five[5] = code
  BY <1>2, <1>5 DEF Behind
<1>7. p \in Seq(Nat) /\ Len(p) = Len(five) + Len(fill) /\ \A i \in 1..Len(five) : p[i] = five[i]
  <2>1. five \in Seq(Nat) /\ fill \in Seq(Nat)
    BY <1>3, <1>6
  <2> QED
    BY <2>1, Joined
<1> HIDE DEF p
<1>8. Len(p) <= 9 /\ p[5] = code
  BY <1>3, <1>6, <1>7
<1>9. p \o <<>> = p
  BY <1>7, ConcatEmptySeq
<1>10. type \in Types
  BY PayloadNumbers DEF TypeNames
<1>11. Message(type, p) \in Messages /\ Message(type, p).payload = p
       /\ Message(type, p).header.type = type
  BY <1>7, <1>8, <1>10, Sent
<1>12. ActivationOf(Message(type, p), code)
  BY <1>8, <1>11, Zenon DEF ActivationOf
<1> QED
  BY <1>1, <1>9, <1>12, Zenon

\* What a call sends.
LEMMA RequestMessage ==
    ASSUME NEW op \in Ops, NEW n \in Nat, NEW to \in Nat
    PROVE  /\ Request(op, n, to) \in Messages
           /\ op = "diagnostic" => DiagnosticTo(Request(op, n, to), <<34, n>>)
           /\ op # "diagnostic" =>
                  Request(op, n, to).header.type = "RoutingActivationRequest"
<1>1. Tester \in Nat
  BY DoIpAssumption
<1>2. CASE op = "diagnostic"
  <2> DEFINE data == <<34, n>>
             m == Message("DiagnosticMessage",
                    diagnostic_to_payload([source |-> Tester, target |-> to, user_data |-> data]))
  <2>1. data \in Seq(Nat) /\ Len(data) <= 3
    OBVIOUS
  <2>2. Request(op, n, to) = m
    BY <1>2, Zenon DEF Request, UserData
  <2> HIDE DEF data
  <2>3. DiagnosticTo(m, data)
    BY <1>1, <2>1, AnswerMessage
  <2> HIDE DEF m
  <2> QED
    BY <1>2, <2>2, <2>3, Zenon DEF DiagnosticTo, data
<1>3. CASE op # "diagnostic"
  <2> DEFINE s == ToBe16(Tester)
             zero == <<0>>
             fill == Fill(4, 0)
             three == s \o zero
             p == three \o fill
             type == "RoutingActivationRequest"
  <2>1. activation_request_to_payload(RoutingActivationRequest(Tester, 0)) = p \o <<>>
    BY DEF activation_request_to_payload, RoutingActivationRequest
  <2>2. s \in Seq(Nat) /\ Len(s) = 2
    BY <1>1, AddressBytes
  <2>3. zero \in Seq(Nat) /\ Len(zero) = 1
    OBVIOUS
  <2>4. fill \in Seq(Nat) /\ Len(fill) = 4
    BY DEF Fill
  <2> HIDE DEF s, zero, fill
  <2>5. Behind(three, 2, zero)
    BY <2>2, <2>3, Appended
  <2> HIDE DEF three
  <2>6. three \in Seq(Nat) /\ Len(three) = 3
    BY <2>3, <2>5 DEF Behind
  <2>7. Behind(p, 3, fill)
    BY <2>4, <2>6, Appended
  <2> HIDE DEF p
  <2>8. p \in Seq(Nat) /\ Len(p) <= 9
    BY <2>4, <2>7 DEF Behind
  <2>9. p \o <<>> = p
    BY <2>8, ConcatEmptySeq
  <2>10. type \in Types
    BY PayloadNumbers DEF TypeNames
  <2>11. Message(type, p) \in Messages /\ Message(type, p).header.type = type
    BY <2>8, <2>10, Sent
  <2>12. Request(op, n, to) = Message(type, p)
    BY <1>3, <2>1, <2>9, Zenon DEF Request
  <2> QED
    BY <1>3, <2>11, <2>12, Zenon
<1> QED
  BY <1>2, <1>3

(***************************************************************************)
(* What parses                                                             *)
(***************************************************************************)

\* Two bytes of a payload are a number.
LEMMA NumberRead ==
    ASSUME NEW p \in Seq(Nat), NEW k \in Nat, Len(p) >= k + 2
    PROVE  Be16(p) \in Nat /\ Be16(After(p, k)) \in Nat
<1> DEFINE q == After(p, k)
<1>1. p[1] \in Nat /\ p[2] \in Nat /\ p[k + 1] \in Nat /\ p[k + 2] \in Nat
  OBVIOUS
<1>2. q[1] = p[k + 1] /\ q[2] = p[k + 2]
  BY SMTT(30) DEF After
<1> HIDE DEF q
<1>3. Be16(p) \in Nat
  BY <1>1 DEF Be16
<1>4. Be16(q) \in Nat
  BY <1>1, <1>2 DEF Be16
<1> QED
  BY <1>3, <1>4 DEF q

\* A part of a payload is a payload.
LEMMA PartRead ==
    ASSUME NEW b \in Seq(Nat), NEW k \in Nat
    PROVE  /\ k <= Len(b) => After(b, k) \in Seq(Nat) /\ Len(After(b, k)) = Len(b) - k
           /\ \A n \in Nat : k + n <= Len(b) => Slice(b, k, n) \in Seq(Nat) /\ Len(Slice(b, k, n)) = n
<1>1. ASSUME k <= Len(b) PROVE After(b, k) \in Seq(Nat) /\ Len(After(b, k)) = Len(b) - k
  BY <1>1 DEF After
<1>2. ASSUME NEW n \in Nat, k + n <= Len(b)
      PROVE  Slice(b, k, n) \in Seq(Nat) /\ Len(Slice(b, k, n)) = n
  BY <1>2 DEF Slice
<1> QED
  BY <1>1, <1>2

\* A header that parses has the fields of one.
LEMMA HeaderParsed ==
    ASSUME NEW b \in Seq(Nat), parse_header(b).ok
    PROVE  parse_header(b).v \in Headers
<1> DEFINE four == Slice(b, 4, 4)
           two == Slice(b, 2, 2)
           type == from_u16(Be16(two))
           length == Be32(four)
<1>1. Len(b) >= 8
  BY DEF parse_header, DOIP_HEADER_LEN, Err
<1>2. parse_header(b).v = [version |-> b[1], inverse |-> b[2], type |-> type, length |-> length]
  BY DEF parse_header, Err, Ok
<1>3. b[1] \in Nat /\ b[2] \in Nat
  BY <1>1
<1>4. four[1] \in Nat /\ four[2] \in Nat /\ four[3] \in Nat /\ four[4] \in Nat
  BY <1>1 DEF Slice
<1> HIDE DEF four
<1>5. length \in Nat
  <2> DEFINE x == four[1]
             y == four[2]
             z == four[3]
             w == four[4]
  <2>1. length = 16777216 * x + 65536 * y + 256 * z + w
    BY SMT DEF Be32
  <2>2. x \in Nat /\ y \in Nat /\ z \in Nat /\ w \in Nat
    BY <1>4
  <2> HIDE DEF x, y, z, w
  <2>3. 16777216 * x + 65536 * y + 256 * z + w \in Nat
    BY <2>2, SMT
  <2> QED
    BY <2>1, <2>3, SMT
<1>6. type \in Types \cup {"Unknown"}
  BY Zenon DEF from_u16, Types
<1> HIDE DEF two, type, length
<1>7. [version |-> b[1], inverse |-> b[2], type |-> type, length |-> length] \in Headers
  BY <1>3, <1>5, <1>6 DEF Headers
<1> QED
  BY <1>2, <1>7

\* A message that parses has as many bytes as its header says.
LEMMA PrefixRead ==
    ASSUME NEW b \in Seq(Nat), parse_prefix(b).ok, NEW m \in parse_prefix(b).v
    PROVE  /\ Len(b) >= 8 /\ parse_header(b).ok /\ m.header = parse_header(b).v
           /\ m.header.length \in Nat /\ Len(b) >= 8 + m.header.length
           /\ m.payload = Slice(b, 8, m.header.length)
           /\ m.payload \in Seq(Nat)
           /\ m = [header |-> m.header, payload |-> m.payload]
           /\ After(b, 8 + m.header.length) \in Seq(Nat)
<1> DEFINE r == parse_header(b)
           h == r.v
           s == Slice(b, 8, h.length)
<1>1. Len(b) >= 8 /\ r.ok /\ ~(Len(b) < 8 + h.length) /\ m = [header |-> h, payload |-> s]
  BY DEF parse_prefix, Then, DOIP_HEADER_LEN, Ok, Err
<1>2. h \in Headers
  BY <1>1, HeaderParsed
<1>3. h.length \in Nat
  BY <1>2 DEF Headers
<1>4. m.header = h /\ m.payload = s
  BY <1>1
<1> HIDE DEF h
<1> DEFINE n == h.length
<1> HIDE DEF n
<1>5. n \in Nat /\ Len(b) \in Nat /\ 8 + n <= Len(b) /\ 8 + n \in Nat
  BY <1>1, <1>3 DEF n
<1>6. Slice(b, 8, n) \in Seq(Nat) /\ After(b, 8 + n) \in Seq(Nat)
  BY <1>5, PartRead
<1> QED
  BY <1>1, <1>4, <1>5, <1>6 DEF n, h

(***************************************************************************)
(* Messages on their way                                                   *)
(***************************************************************************)

\* The header a call has taken from the stream.
Taken(c) == IF c # Idle /\ c.header # {} THEN encode_header(CHOOSE h \in c.header : TRUE) ELSE <<>>

\* StreamAligned, with the bytes as Flat has them.
LEMMA AlignedAs == StreamAligned <=> (~cut => Taken(call) \o in = Flat(queue))
BY Zenon DEF StreamAligned, Taken, Flat

\* A call that holds no header has taken none.
LEMMA NothingTaken ==
    ASSUME NEW c, c = Idle \/ c.header = {}
    PROVE  Taken(c) = <<>>
BY Zenon DEF Taken

\* One that holds a header has taken that.
LEMMA OneTaken ==
    ASSUME NEW c, c # Idle, NEW h, c.header = {h}
    PROVE  Taken(c) = encode_header(h)
<1>1. (CHOOSE x \in {h} : TRUE) = h
  OBVIOUS
<1>2. {h} # {}
  OBVIOUS
<1> QED
  BY <1>1, <1>2, Zenon DEF Taken

\* A call's header is bytes of the stream.
LEMMA TakenTyped ==
    ASSUME TypeInv, HeadTaken, ~cut
    PROVE  Taken(call) \in Seq(Nat)
<1>1. CASE call = Idle \/ call.header = {}
  <2>1. <<>> \in Seq(Nat)
    OBVIOUS
  <2> QED
    BY <1>1, <2>1, NothingTaken, Zenon
<1>2. CASE call # Idle /\ call.header # {}
  <2>1. queue # <<>> /\ call.header = {Head(queue).header}
    BY <1>2 DEF HeadTaken
  <2>2. Taken(call) = encode_header(Head(queue).header)
    BY <1>2, <2>1, OneTaken
  <2>3. Head(queue) \in Messages
    BY <2>1, FlatFirst DEF TypeInv
  <2> QED
    BY <2>2, <2>3, AnyMessage DEF MessageShape
<1> QED
  BY <1>1, <1>2

\* The entity sends one message: what the steps of the entity have in common.
LEMMA Emitting ==
    ASSUME IInv, NEW m \in Messages, Emit(<<m>>),
           UNCHANGED <<client, cut, calls>>,
           out' \in Seq(Nat), jobs' \in Seq(Messages), JobsAnswer',
           routing' \in BOOLEAN, routing => routing', Activates16(m) => routing',
           clean' \in BOOLEAN, clean' => clean,
           clean /\ ~cut /\ call # Idle =>
               /\ out' \in {<<>>, encode(Request(call.op, call.n, call.to))}
               /\ clean' => Answers(m, call.n)
               /\ \A i \in 1..Len(jobs') : Answers(jobs'[i], call.n)
    PROVE  IInv'
<1> USE DEF client
<1>1. encode(m) \in Seq(Nat) /\ in' = in \o encode(m) /\ queue' = queue \o <<m>>
  <2>1. Concat(Map(<<m>>, encode)) = encode(m)
    <3>1. queue \in Seq(Messages)
      BY DEF IInv, TypeInv
    <3> QED
      BY <3>1, FlatLast
  <2>2. encode(m) \in Seq(Nat)
    BY AnyMessage DEF MessageShape
  <2> QED
    BY <2>1, <2>2, Zenon DEF Emit
<1>2. queue' \in Seq(Messages) /\ Len(queue') = Len(queue) + 1 /\ queue'[Len(queue) + 1] = m
      /\ Len(queue) \in Nat /\ \A i \in 1..Len(queue) : queue'[i] = queue[i]
  BY <1>1 DEF IInv, TypeInv
<1>3. in' \in Seq(Nat)
  BY <1>1 DEF IInv, TypeInv
<1>4. TypeInv'
  BY <1>2, <1>3 DEF IInv, TypeInv
<1>5. Waiting'
  BY DEF IInv, Waiting
<1>6. HeadTaken'
  <2>1. queue # <<>> => queue' # <<>> /\ Head(queue') = Head(queue)
    BY <1>1 DEF IInv, TypeInv
  <2> QED
    BY <2>1 DEF IInv, HeadTaken
<1>7. Activated'
  <2> SUFFICES ASSUME NEW i \in 1..Len(queue'), Activates16(queue'[i]) PROVE routing'
    BY DEF Activated, Activates16
  <2>1. i = Len(queue) + 1 \/ i \in 1..Len(queue)
    BY <1>2
  <2> QED
    BY <1>2, <2>1 DEF IInv, Activated
<1>8. Owned'
  <2> SUFFICES ASSUME clean', ~cut, call # Idle
               PROVE  /\ out' \in {<<>>, encode(Request(call.op, call.n, call.to))}
                      /\ \A i \in 1..Len(queue') : Answers(queue'[i], call.n)
                      /\ \A i \in 1..Len(jobs') : Answers(jobs'[i], call.n)
    BY DEF Owned, Answers
  <2>1. \A i \in 1..Len(queue) : Answers(queue[i], call.n)
    BY DEF IInv, Owned
  <2>2. ASSUME NEW i \in 1..Len(queue') PROVE Answers(queue'[i], call.n)
    <3>1. i = Len(queue) + 1 \/ i \in 1..Len(queue)
      BY <1>2
    <3> QED
      BY <1>2, <2>1, <3>1
  <2> QED
    BY <2>2
<1>9. StreamAligned'
  <2>1. ASSUME ~cut PROVE Taken(call) \o in' = Flat(queue')
    <3> DEFINE t == Taken(call)
               e == encode(m)
    <3>1. t \in Seq(Nat) /\ t \o in = Flat(queue)
      BY <2>1, AlignedAs, TakenTyped DEF IInv
    <3>2. Flat(queue') = Flat(queue) \o e
      BY <1>1, FlatLast DEF IInv, TypeInv
    <3>3. in \in Seq(Nat) /\ e \in Seq(Nat)
      BY <1>1 DEF IInv, TypeInv
    <3> HIDE DEF t, e
    <3>4. t \o (in \o e) = (t \o in) \o e
      <4>1. t \in Seq(Nat) /\ in \in Seq(Nat) /\ e \in Seq(Nat)
        BY <3>1, <3>3
      <4> QED
        BY ONLY <4>1, ConcatAssociative, Z3T(30)
    <3> QED
      BY <1>1, <3>1, <3>2, <3>4, Zenon DEF t, e
  <2> QED
    BY <2>1, Zenon DEF StreamAligned, Taken, Flat
<1>10. AnswersTheRequest' /\ ActivationReal'
  BY DEF IInv, AnswersTheRequest, ActivationReal
<1> QED
  BY <1>4, <1>5, <1>6, <1>7, <1>8, <1>9, <1>10 DEF IInv

(***************************************************************************)
(* The entity's steps                                                      *)
(***************************************************************************)

\* Neither an answer nor an activation.
Plain(m) ==
    m \in Messages /\ m.header.type \notin {"DiagnosticMessage", "RoutingActivationResponse"}

\* A plain message says nothing that the invariant asks about.
LEMMA PlainHarmless ==
    ASSUME NEW m, Plain(m)
    PROVE  ~Activates16(m) /\ \A n : Answers(m, n)
BY DEF Plain, Activates16, Answers

\* A job to do is sent.
LEMMA AnswersStep ==
    ASSUME IInv, EntityAnswers
    PROVE  IInv'
<1> DEFINE m == Head(jobs)
<1>1. jobs \in Seq(Messages) /\ jobs # <<>> /\ Emit(<<m>>) /\ jobs' = Tail(jobs)
      /\ UNCHANGED <<client, out, routing, bounds, cut, clean>>
  BY DEF EntityAnswers, IInv, TypeInv
<1>2. m \in Messages /\ m = jobs[1] /\ 1 \in 1..Len(jobs) /\ jobs' \in Seq(Messages)
      /\ \A i \in 1..Len(jobs') : jobs'[i] = jobs[i + 1] /\ i + 1 \in 1..Len(jobs)
  BY <1>1
<1>3. JobsAnswer' /\ m.header.type = "DiagnosticMessage"
  BY <1>2 DEF IInv, JobsAnswer
<1>4. ~Activates16(m)
  BY <1>3 DEF Activates16
<1>5. clean /\ ~cut /\ call # Idle =>
        /\ out' \in {<<>>, encode(Request(call.op, call.n, call.to))}
        /\ clean' => Answers(m, call.n)
        /\ \A i \in 1..Len(jobs') : Answers(jobs'[i], call.n)
  <2> SUFFICES ASSUME clean, ~cut, call # Idle
               PROVE  /\ out' \in {<<>>, encode(Request(call.op, call.n, call.to))}
                      /\ Answers(m, call.n)
                      /\ \A i \in 1..Len(jobs') : Answers(jobs'[i], call.n)
    OBVIOUS
  <2>1. out \in {<<>>, encode(Request(call.op, call.n, call.to))}
        /\ \A i \in 1..Len(jobs) : Answers(jobs[i], call.n)
    BY DEF IInv, Owned
  <2> QED
    BY <1>1, <1>2, <2>1
<1>6. out' \in Seq(Nat) /\ routing' \in BOOLEAN /\ (routing => routing')
      /\ clean' \in BOOLEAN /\ (clean' => clean) /\ UNCHANGED <<client, cut, calls>>
  BY <1>1 DEF IInv, TypeInv, bounds
<1> HIDE DEF m
<1> QED
  BY <1>1, <1>2, <1>3, <1>4, <1>5, <1>6, Emitting

\* A message out of turn ends the quiet of the connection.
LEMMA UnaskedStep ==
    ASSUME IInv, Unasked
    PROVE  IInv'
<1>1. PICK m \in {Message("AliveCheckRequest", <<>>)} \cup {AnswerTo(a, <<98, 0>>) : a \in Entities} :
          Emit(<<m>>)
  BY DEF Unasked
<1>2. clean' = FALSE /\ UNCHANGED <<client, out, entity, calls, drops, cut>>
  BY DEF Unasked
<1>3. m \in Messages /\ ~Activates16(m)
  <2>1. CASE m = Message("AliveCheckRequest", <<>>)
    <3>1. m \in Messages /\ m.header.type = "AliveCheckRequest"
      BY <2>1, SmallMessage
    <3> QED
      BY <3>1 DEF Activates16
  <2>2. ASSUME NEW a \in Entities, m = AnswerTo(a, <<98, 0>>)
        PROVE  m \in Messages /\ ~Activates16(m)
    <3> DEFINE data == <<98, 0>>
    <3>1. a \in Nat /\ Tester \in Nat
      BY DoIpAssumption
    <3>2. data \in Seq(Nat) /\ Len(data) <= 3
      OBVIOUS
    <3> HIDE DEF data
    <3>3. DiagnosticTo(AnswerTo(a, data), data)
      BY <3>1, <3>2, AnswerMessage, Zenon DEF AnswerTo
    <3>4. DiagnosticTo(m, data)
      BY <2>2, <3>3 DEF data
    <3> QED
      BY <3>4 DEF DiagnosticTo, Activates16
  <2> QED
    BY <2>1, <2>2
<1>4. out' \in Seq(Nat) /\ jobs' \in Seq(Messages) /\ JobsAnswer' /\ routing' \in BOOLEAN
      /\ (routing => routing') /\ UNCHANGED <<client, cut, calls>>
  BY <1>2 DEF IInv, TypeInv, JobsAnswer, entity
<1>5. clean /\ ~cut /\ call # Idle =>
        /\ out' \in {<<>>, encode(Request(call.op, call.n, call.to))}
        /\ clean' => Answers(m, call.n)
        /\ \A i \in 1..Len(jobs') : Answers(jobs'[i], call.n)
  BY <1>2 DEF IInv, Owned, entity
<1> QED
  BY <1>1, <1>2, <1>3, <1>4, <1>5, Emitting

\* One more acknowledgement.
LEMMA FloodStep ==
    ASSUME IInv, Flood
    PROVE  IInv'
<1> DEFINE m == Ack("DiagnosticPositiveAck", call.to, 0)
<1>1. call # Idle /\ Emit(<<m>>) /\ UNCHANGED <<client, out, entity, bounds, cut, clean>>
  BY DEF Flood
<1>2. Plain(m)
  <2>1. call.to \in Nat
    BY <1>1 DEF IInv, TypeInv, Calls
  <2>2. m \in Messages /\ m.header.type = "DiagnosticPositiveAck"
    BY <2>1, AckMessage
  <2> QED
    BY <2>2 DEF Plain
<1> HIDE DEF m
<1>3. m \in Messages /\ ~Activates16(m) /\ \A n : Answers(m, n)
  BY <1>2, PlainHarmless DEF Plain
<1>4. out' \in Seq(Nat) /\ jobs' \in Seq(Messages) /\ JobsAnswer' /\ routing' \in BOOLEAN
      /\ (routing => routing') /\ UNCHANGED <<client, cut, calls>>
      /\ clean' \in BOOLEAN /\ (clean' => clean)
  BY <1>1 DEF IInv, TypeInv, JobsAnswer, entity, bounds
<1>5. clean /\ ~cut /\ call # Idle =>
        /\ out' \in {<<>>, encode(Request(call.op, call.n, call.to))}
        /\ clean' => Answers(m, call.n)
        /\ \A i \in 1..Len(jobs') : Answers(jobs'[i], call.n)
  BY <1>1, <1>3 DEF IInv, Owned, entity
<1> QED
  BY <1>1, <1>3, <1>4, <1>5, Emitting

\* In a call that began on a quiet connection the entity reads that call's request
\* and leaves nothing behind it.
LEMMA OwnRequestRead ==
    ASSUME IInv, clean, ~cut, call # Idle, parse_prefix(out).ok, NEW m \in parse_prefix(out).v
    PROVE  /\ m = Request(call.op, call.n, call.to)
           /\ After(out, 8 + m.header.length) = <<>>
           /\ call.op \in Ops /\ call.n \in Nat /\ call.to \in Nat
<1> DEFINE q == Request(call.op, call.n, call.to)
<1>1. call.op \in Ops /\ call.n \in Nat /\ call.to \in Nat /\ out \in Seq(Nat)
  BY DEF IInv, TypeInv, Calls
<1>2. /\ Len(out) >= 8 /\ m.header = parse_header(out).v
      /\ m.payload = Slice(out, 8, m.header.length)
      /\ m = [header |-> m.header, payload |-> m.payload]
  BY <1>1, PrefixRead
<1>3. q \in Messages
  BY <1>1, RequestMessage
<1> HIDE DEF q
<1>4. out = encode(q)
  <2>1. out # <<>>
    BY <1>2
  <2> QED
    BY <2>1 DEF IInv, Owned, q
<1>5. MessageShape(q)
  BY <1>3, AnyMessage
<1>6. encode(q) \o <<>> = encode(q) /\ <<>> \in Seq(Nat)
  BY <1>5, ConcatEmptySeq DEF MessageShape
<1>7. /\ parse_header(out) = Ok(q.header)
      /\ After(out, 8 + q.header.length) = <<>>
      /\ Slice(out, 8, q.header.length) = q.payload
  BY <1>3, <1>4, <1>6, Taking, Zenon
<1>8. m.header = q.header
  BY <1>2, <1>7 DEF Ok
<1>9. m.payload = q.payload
  BY <1>2, <1>7, <1>8
<1>10. q = [header |-> q.header, payload |-> q.payload]
  BY <1>5 DEF MessageShape
<1> QED
  BY <1>1, <1>2, <1>7, <1>8, <1>9, <1>10, Zenon DEF q

\* A request for activation: the answer reports what has been done.
LEMMA ActivatesStep ==
    ASSUME IInv, parse_prefix(out).ok, NEW m \in parse_prefix(out).v,
           out' = After(out, DOIP_HEADER_LEN + m.header.length),
           m.header.type = "RoutingActivationRequest", parse_activation_request(m.payload).ok,
           Activates(m), UNCHANGED <<client, bounds, cut, clean>>
    PROVE  IInv'
<1> DEFINE r == parse_activation_request(m.payload).v
           Sent16(code) == Message("RoutingActivationResponse",
                    activation_response_to_payload([tester |-> r.source, entity |-> Gateway,
                        code |-> code, iso |-> Fill(4, 0), oem |-> <<>>]))
<1>1. PICK code \in {0, DOIP_ROUTING_ACTIVATION_SUCCESS} :
          /\ routing' = (routing \/ code = DOIP_ROUTING_ACTIVATION_SUCCESS)
          /\ Emit(<<Sent16(code)>>)
          /\ UNCHANGED jobs
  BY DEF Activates
<1>2. out \in Seq(Nat) /\ m.payload \in Seq(Nat) /\ out' \in Seq(Nat)
  <2>1. out \in Seq(Nat)
    BY DEF IInv, TypeInv
  <2> QED
    BY <2>1, PrefixRead DEF DOIP_HEADER_LEN
<1>3. r.source \in Nat
  <2>1. Len(m.payload) \in {7, 11} /\ r.source = Be16(m.payload)
    BY DEF parse_activation_request, Ok, Err
  <2> DEFINE n == Len(m.payload)
  <2> HIDE DEF n
  <2>2. n >= 0 + 2 /\ 0 \in Nat
    <3>1. n = 7 \/ n = 11
      BY <2>1 DEF n
    <3> QED
      BY ONLY <3>1
  <2> QED
    BY <1>2, <2>1, <2>2, NumberRead DEF n
<1> HIDE DEF r
<1>4. code \in Nat /\ Gateway \in Nat
  BY DoIpAssumption DEF DOIP_ROUTING_ACTIVATION_SUCCESS
<1>5. ActivationOf(Sent16(code), code)
  BY <1>3, <1>4, ActivationMessage
<1> DEFINE x == Sent16(code)
<1> HIDE DEF Sent16
<1>6. x \in Messages /\ x.header.type = "RoutingActivationResponse" /\ x.payload[5] = code
  BY <1>5 DEF ActivationOf
<1>7. Emit(<<x>>)
  BY <1>1
<1> HIDE DEF x
<1>8. Activates16(x) => routing'
  BY <1>1, <1>6 DEF Activates16
<1>9. \A n : Answers(x, n)
  BY <1>6 DEF Answers
<1>10. clean /\ ~cut /\ call # Idle =>
        /\ out' \in {<<>>, encode(Request(call.op, call.n, call.to))}
        /\ clean' => Answers(x, call.n)
        /\ \A i \in 1..Len(jobs') : Answers(jobs'[i], call.n)
  <2> SUFFICES ASSUME clean, ~cut, call # Idle
               PROVE  /\ out' \in {<<>>, encode(Request(call.op, call.n, call.to))}
                      /\ Answers(x, call.n)
                      /\ \A i \in 1..Len(jobs') : Answers(jobs'[i], call.n)
    OBVIOUS
  <2>1. out' = <<>>
    BY OwnRequestRead DEF DOIP_HEADER_LEN
  <2>2. \A i \in 1..Len(jobs) : Answers(jobs[i], call.n)
    BY DEF IInv, Owned
  <2> QED
    BY <1>1, <1>9, <2>1, <2>2
<1>11. jobs' \in Seq(Messages) /\ JobsAnswer' /\ routing' \in BOOLEAN
      /\ (routing => routing') /\ UNCHANGED <<client, cut, calls>>
      /\ clean' \in BOOLEAN /\ (clean' => clean)
  BY <1>1 DEF IInv, TypeInv, JobsAnswer, bounds
<1> QED
  BY <1>2, <1>6, <1>7, <1>8, <1>10, <1>11, Emitting

\* A diagnostic request: its answers carry its number.
LEMMA AcceptsStep ==
    ASSUME IInv, parse_prefix(out).ok, NEW m \in parse_prefix(out).v,
           out' = After(out, DOIP_HEADER_LEN + m.header.length),
           m.header.type = "DiagnosticMessage", Len(m.payload) = 6,
           Accepts(m), UNCHANGED <<client, bounds, cut, clean>>
    PROVE  IInv'
<1> DEFINE d == parse_diagnostic(m.payload).v
           number == d.user_data[2]
           one == <<98, number>>
           two == <<127, 34, 120>>
           final == AnswerTo(d.target, one)
           pending == AnswerTo(d.target, two)
           x == IF routing THEN Ack("DiagnosticPositiveAck", d.target, 0)
                           ELSE Ack("DiagnosticNegativeAck", d.target, 2)
<1>1. out \in Seq(Nat) /\ m.payload \in Seq(Nat) /\ out' \in Seq(Nat)
  <2>1. out \in Seq(Nat)
    BY DEF IInv, TypeInv
  <2> QED
    BY <2>1, PrefixRead DEF DOIP_HEADER_LEN
<1>2. d.target \in Nat /\ number \in Nat /\ number = m.payload[6]
  <2> DEFINE p == m.payload
  <2>1. p \in Seq(Nat) /\ Len(p) = 6
    BY <1>1
  <2>2. d = [source |-> Be16(p), target |-> Be16(After(p, 2)), user_data |-> After(p, 4)]
    BY <2>1 DEF parse_diagnostic, Ok
  <2> HIDE DEF p
  <2>3. Be16(After(p, 2)) \in Nat
    <3>1. Len(p) >= 2 + 2 /\ 2 \in Nat
      BY <2>1
    <3> QED
      BY <2>1, <3>1, NumberRead
  <2>4. After(p, 4)[2] = p[6] /\ p[6] \in Nat
    <3>1. After(p, 4) = SubSeq(p, 5, 6)
      BY <2>1 DEF After
    <3>2. SubSeq(p, 5, 6)[2] = p[6]
      BY <2>1
    <3>3. p[6] \in Nat
      <4>1. 6 \in 1..Len(p)
        BY <2>1
      <4> QED
        BY ONLY <2>1, <4>1, ElementOfSeq
    <3> QED
      BY ONLY <3>1, <3>2, <3>3
  <2> QED
    BY <2>2, <2>3, <2>4 DEF p
<1>3. Emit(<<x>>) /\ routing' = routing
      /\ \E answer \in {<<final>>, <<pending, final>>, <<>>} : jobs' = jobs \o answer
  <2>1. CASE routing
    BY <2>1 DEF Accepts
  <2>2. CASE ~routing
    <3>1. Emit(<<x>>) /\ jobs' = jobs /\ routing' = routing
      BY <2>2 DEF Accepts, entity
    <3>2. jobs \o <<>> = jobs
      BY ConcatEmptySeq DEF IInv, TypeInv
    <3> QED
      BY <3>1, <3>2
  <2> QED
    BY <2>1, <2>2 DEF IInv, TypeInv
<1>4. Plain(x)
  <2>1. 0 \in Nat /\ 2 \in Nat
    OBVIOUS
  <2>2. x \in Messages /\ x.header.type \in {"DiagnosticPositiveAck", "DiagnosticNegativeAck"}
    BY <1>2, <2>1, AckMessage
  <2> QED
    BY <2>2 DEF Plain
<1>5. one \in Seq(Nat) /\ Len(one) <= 3 /\ two \in Seq(Nat) /\ Len(two) <= 3
  BY <1>2
<1> HIDE DEF x, number, one, two, d
<1>6. DiagnosticTo(final, one) /\ DiagnosticTo(pending, two)
  <2>1. Tester \in Nat
    BY DoIpAssumption
  <2> QED
    BY <1>2, <1>5, <2>1, AnswerMessage, Zenon DEF AnswerTo
<1> HIDE DEF final, pending
<1>7. /\ final \in Messages /\ final.header.type = "DiagnosticMessage" /\ After(final.payload, 4) = one
      /\ pending \in Messages /\ pending.header.type = "DiagnosticMessage"
      /\ After(pending.payload, 4) = two
  BY <1>6 DEF DiagnosticTo
<1>8. PICK answer \in {<<final>>, <<pending, final>>, <<>>} : jobs' = jobs \o answer
  BY <1>3
<1>9. answer \in Seq(Messages) /\ \A i \in 1..Len(answer) : answer[i] \in {final, pending}
  <2>1. CASE answer = <<final>>
    BY <1>7, <2>1
  <2>2. CASE answer = <<pending, final>>
    BY <1>7, <2>2
  <2>3. CASE answer = <<>>
    BY <2>3
  <2> QED
    BY <2>1, <2>2, <2>3
<1>10. /\ jobs' \in Seq(Messages) /\ Len(jobs') = Len(jobs) + Len(answer)
       /\ Len(jobs) \in Nat /\ Len(answer) \in Nat
       /\ \A i \in 1..Len(jobs) : jobs'[i] = jobs[i]
       /\ \A i \in 1..Len(answer) : jobs'[Len(jobs) + i] = answer[i]
  <2>1. jobs \in Seq(Messages) /\ answer \in Seq(Messages)
    BY <1>9 DEF IInv, TypeInv
  <2> QED
    BY <1>8, <2>1, Joined
<1>11. ASSUME NEW i \in 1..Len(jobs')
       PROVE  (i \in 1..Len(jobs) /\ jobs'[i] = jobs[i]) \/ jobs'[i] \in {final, pending}
  <2>1. CASE i \in 1..Len(jobs)
    BY <1>10, <2>1
  <2>2. CASE i \notin 1..Len(jobs)
    <3>1. i - Len(jobs) \in 1..Len(answer) /\ i = Len(jobs) + (i - Len(jobs))
      BY <1>10, <2>2
    <3> QED
      BY <1>9, <1>10, <3>1
  <2> QED
    BY <2>1, <2>2
<1>12. JobsAnswer'
  BY <1>7, <1>11 DEF IInv, JobsAnswer
<1>13. x \in Messages /\ ~Activates16(x) /\ \A n : Answers(x, n)
  BY <1>4, PlainHarmless DEF Plain
<1>14. clean /\ ~cut /\ call # Idle =>
        /\ out' \in {<<>>, encode(Request(call.op, call.n, call.to))}
        /\ clean' => Answers(x, call.n)
        /\ \A i \in 1..Len(jobs') : Answers(jobs'[i], call.n)
  <2> SUFFICES ASSUME clean, ~cut, call # Idle
               PROVE  /\ out' \in {<<>>, encode(Request(call.op, call.n, call.to))}
                      /\ Answers(x, call.n)
                      /\ \A i \in 1..Len(jobs') : Answers(jobs'[i], call.n)
    OBVIOUS
  <2>1. /\ m = Request(call.op, call.n, call.to) /\ out' = <<>>
        /\ call.op \in Ops /\ call.n \in Nat /\ call.to \in Nat
    BY OwnRequestRead DEF DOIP_HEADER_LEN
  <2>2. number = call.n
    <3>1. call.op = "diagnostic"
      BY <2>1, RequestMessage
    <3>2. DiagnosticTo(m, <<34, call.n>>)
      BY <2>1, <3>1, RequestMessage
    <3>3. After(m.payload, 4)[2] = m.payload[6]
      BY <1>1 DEF After
    <3> QED
      BY <1>2, <3>2, <3>3 DEF DiagnosticTo
  <2>3. Answers(final, call.n) /\ Answers(pending, call.n)
    BY <1>7, <2>2, Zenon DEF Answers, one, two
  <2>4. \A i \in 1..Len(jobs) : Answers(jobs[i], call.n)
    BY DEF IInv, Owned
  <2> QED
    BY <1>11, <1>13, <2>1, <2>3, <2>4
<1>15. routing' \in BOOLEAN /\ (routing => routing') /\ UNCHANGED <<client, cut, calls>>
      /\ clean' \in BOOLEAN /\ (clean' => clean)
  BY <1>3 DEF IInv, TypeInv, bounds
<1> QED
  BY <1>1, <1>3, <1>10, <1>12, <1>13, <1>14, <1>15, Emitting

\* What the entity does not understand it refuses.
LEMMA RefusesStep ==
    ASSUME IInv, NEW code \in {0, 1},
           Emit(<<Message("GenericNegativeAck", generic_nack_to_payload(code))>>),
           out' \in Seq(Nat), clean /\ ~cut /\ call # Idle => out' = <<>>,
           UNCHANGED <<client, entity, bounds, cut, clean>>
    PROVE  IInv'
<1> DEFINE x == Message("GenericNegativeAck", generic_nack_to_payload(code))
<1>1. Plain(x)
  <2>1. x \in Messages /\ x.header.type = "GenericNegativeAck"
    BY SmallMessage DEF generic_nack_to_payload
  <2> QED
    BY <2>1 DEF Plain
<1>2. Emit(<<x>>)
  OBVIOUS
<1> HIDE DEF x
<1>3. x \in Messages /\ ~Activates16(x) /\ \A n : Answers(x, n)
  BY <1>1, PlainHarmless DEF Plain
<1>4. jobs' \in Seq(Messages) /\ JobsAnswer' /\ routing' \in BOOLEAN
      /\ (routing => routing') /\ UNCHANGED <<client, cut, calls>>
      /\ clean' \in BOOLEAN /\ (clean' => clean)
  BY DEF IInv, TypeInv, JobsAnswer, entity, bounds
<1>5. clean /\ ~cut /\ call # Idle =>
        /\ out' \in {<<>>, encode(Request(call.op, call.n, call.to))}
        /\ clean' => Answers(x, call.n)
        /\ \A i \in 1..Len(jobs') : Answers(jobs'[i], call.n)
  BY <1>3 DEF IInv, Owned, entity
<1> QED
  BY <1>2, <1>3, <1>4, <1>5, Emitting

\* The entity reads what the client sent.
LEMMA ReadsStep ==
    ASSUME IInv, EntityReads
    PROVE  IInv'
<1> DEFINE p == parse_prefix(out)
<1>1. UNCHANGED <<client, bounds, cut, clean>>
  BY DEF EntityReads
<1>2. CASE /\ ~p.ok /\ out' = <<>>
           /\ Emit(<<Message("GenericNegativeAck", generic_nack_to_payload(0))>>)
           /\ UNCHANGED entity
  <2>1. out' \in Seq(Nat)
    BY <1>2
  <2> QED
    BY <1>1, <1>2, <2>1, RefusesStep
<1>3. ASSUME p.ok, NEW m \in p.v, out' = After(out, DOIP_HEADER_LEN + m.header.length),
             CASE m.header.type = "RoutingActivationRequest" /\ parse_activation_request(m.payload).ok
                      -> Activates(m)
               [] m.header.type = "DiagnosticMessage" /\ Len(m.payload) = 6 -> Accepts(m)
               [] OTHER -> /\ Emit(<<Message("GenericNegativeAck", generic_nack_to_payload(1))>>)
                           /\ UNCHANGED entity
      PROVE  IInv'
  <2>1. \/ m.header.type = "RoutingActivationRequest" /\ parse_activation_request(m.payload).ok
           /\ Activates(m)
        \/ m.header.type = "DiagnosticMessage" /\ Len(m.payload) = 6 /\ Accepts(m)
        \/ /\ Emit(<<Message("GenericNegativeAck", generic_nack_to_payload(1))>>)
           /\ UNCHANGED entity
    BY <1>3, Zenon
  <2>2. CASE m.header.type = "RoutingActivationRequest" /\ parse_activation_request(m.payload).ok
             /\ Activates(m)
    BY <1>1, <1>3, <2>2, ActivatesStep
  <2>3. CASE m.header.type = "DiagnosticMessage" /\ Len(m.payload) = 6 /\ Accepts(m)
    BY <1>1, <1>3, <2>3, AcceptsStep
  <2>4. CASE /\ Emit(<<Message("GenericNegativeAck", generic_nack_to_payload(1))>>)
             /\ UNCHANGED entity
    <3>1. out' \in Seq(Nat)
      <4>1. out \in Seq(Nat)
        BY DEF IInv, TypeInv
      <4> QED
        BY <1>3, <4>1, PrefixRead DEF DOIP_HEADER_LEN
    <3>2. clean /\ ~cut /\ call # Idle => out' = <<>>
      BY <1>3, OwnRequestRead DEF DOIP_HEADER_LEN
    <3> QED
      BY <1>1, <2>4, <3>1, <3>2, RefusesStep
  <2> QED
    BY <2>1, <2>2, <2>3, <2>4
<1> QED
  BY <1>2, <1>3, Zenon DEF EntityReads

(***************************************************************************)
(* The client's steps                                                      *)
(***************************************************************************)

\* On an unbroken stream, with no header taken, the next bytes are those of the
\* first message.
LEMMA AtMessage ==
    ASSUME IInv, ~cut, call # Idle, call.header = {}, Len(in) >= 8
    PROVE  LET m == Head(queue) IN
           /\ queue # <<>> /\ m \in Messages
           /\ parse_header(Slice(in, 0, 8)) = Ok(m.header)
           /\ encode_header(m.header) \o After(in, 8) = Flat(queue)
<1> DEFINE m == Head(queue)
           rest == Flat(Tail(queue))
           eh == encode_header(m.header)
<1>1. in \in Seq(Nat) /\ queue \in Seq(Messages)
  BY DEF IInv, TypeInv
<1>2. in = Flat(queue)
  <2>1. Taken(call) = <<>> /\ Taken(call) \o in = Flat(queue)
    BY AlignedAs, NothingTaken DEF IInv
  <2>2. <<>> \o in = in
    BY <1>1, ConcatEmptySeq
  <2> QED
    BY <2>1, <2>2, Zenon
<1>3. queue # <<>>
  <2>1. in # <<>>
    BY <1>1
  <2> QED
    BY <1>2, <2>1, FlatEmpty, Zenon
<1>4. m \in Messages /\ rest \in Seq(Nat) /\ in = encode(m) \o rest
  BY <1>1, <1>2, <1>3, FlatFirst, Zenon
<1> HIDE DEF m, rest
<1>5. parse_header(Slice(in, 0, 8)) = Ok(m.header) /\ After(in, 8) = m.payload \o rest
  BY <1>4, Taking, Zenon
<1>6. encode(m) = eh \o m.payload /\ eh \in Seq(Nat) /\ m.payload \in Seq(Nat)
  BY <1>4, AnyMessage DEF MessageShape
<1> HIDE DEF eh
<1>7. eh \o (m.payload \o rest) = (eh \o m.payload) \o rest
  <2> DEFINE p == m.payload
  <2>1. eh \in Seq(Nat) /\ p \in Seq(Nat) /\ rest \in Seq(Nat)
    BY <1>4, <1>6
  <2> HIDE DEF p
  <2>2. eh \o (p \o rest) = (eh \o p) \o rest
    BY ONLY <2>1, ConcatAssociative, Z3T(30)
  <2> QED
    BY <2>2 DEF p
<1>8. eh \o After(in, 8) = Flat(queue)
  BY <1>2, <1>4, <1>5, <1>6, <1>7, Zenon
<1> QED
  BY <1>3, <1>4, <1>5, <1>8 DEF m, eh

\* With its header taken, the next bytes are its payload: the message received is
\* the one that was sent first.
LEMMA AtPayload ==
    ASSUME IInv, ~cut, call # Idle, NEW h \in call.header
    PROVE  /\ queue # <<>>
           /\ [header |-> h, payload |-> Slice(in, 0, h.length)] = Head(queue)
           /\ After(in, h.length) = Flat(Tail(queue))
<1> DEFINE m == Head(queue)
           rest == Flat(Tail(queue))
           eh == encode_header(m.header)
           p == m.payload
<1>1. in \in Seq(Nat) /\ queue \in Seq(Messages)
  BY DEF IInv, TypeInv
<1>2. queue # <<>> /\ call.header = {m.header} /\ h = m.header
  BY DEF IInv, HeadTaken
<1>3. m \in Messages /\ rest \in Seq(Nat) /\ Flat(queue) = encode(m) \o rest
  BY <1>1, <1>2, FlatFirst
<1>4. eh \o in = Flat(queue)
  <2>1. Taken(call) = eh /\ Taken(call) \o in = Flat(queue)
    BY <1>2, AlignedAs, OneTaken DEF IInv
  <2> QED
    BY <2>1, Zenon
<1> HIDE DEF rest
<1>5. encode(m) = eh \o p /\ eh \in Seq(Nat) /\ p \in Seq(Nat) /\ m.header.length = Len(p)
      /\ m = [header |-> m.header, payload |-> p]
  BY <1>3, AnyMessage DEF MessageShape
<1> HIDE DEF eh, m, p
<1>6. in = p \o rest
  <2>1. ThreeParts((eh \o p) \o rest, eh, p, rest)
    BY <1>3, <1>5, MiddleSeparated
  <2>2. After((eh \o p) \o rest, Len(eh)) = p \o rest
    BY <2>1, Zenon DEF ThreeParts
  <2>3. After(eh \o in, Len(eh)) = in
    <3>1. eh \in Seq(Nat) /\ in \in Seq(Nat)
      BY <1>1, <1>5
    <3> QED
      BY ONLY <3>1, Separated, Zenon
  <2> QED
    BY <1>3, <1>4, <1>5, <2>2, <2>3, Zenon
<1>7. Slice(p \o rest, 0, Len(p)) = p /\ After(p \o rest, Len(p)) = rest
  <2>1. p \in Seq(Nat) /\ rest \in Seq(Nat)
    BY <1>3, <1>5
  <2> QED
    BY ONLY <2>1, Separated, Zenon
<1>8. h.length = Len(p)
  BY <1>2, <1>5
<1>9. Slice(in, 0, h.length) = p /\ After(in, h.length) = rest
  BY <1>6, <1>7, <1>8, Zenon
<1> QED
  BY <1>2, <1>5, <1>9, Zenon DEF m, p, rest

\* Reading a header.
LEMMA RecvHeaderStep ==
    ASSUME IInv, RecvHeader
    PROVE  IInv'
<1> DEFINE r == parse_header(Slice(in, 0, 8))
<1>1. /\ call # Idle /\ call.header = {} /\ Len(in) >= 8 /\ in' = After(in, 8)
      /\ UNCHANGED <<out, entity, bounds, queue, cut, clean>>
      /\ HeaderRead(r)
  BY DEF RecvHeader, DOIP_HEADER_LEN
<1>2. call \in Calls /\ in \in Seq(Nat) /\ result = Idle /\ call.to = entity_address
  BY <1>1 DEF IInv, TypeInv, Waiting
<1>3. in' \in Seq(Nat) /\ Slice(in, 0, 8) \in Seq(Nat)
  <2>1. 8 \in Nat /\ 0 \in Nat /\ 8 <= Len(in) /\ 0 + 8 <= Len(in)
    BY <1>1
  <2> QED
    BY <1>1, <1>2, <2>1, PartRead
<1>4. r.ok => r.v \in Headers
  BY <1>3, HeaderParsed
<1> HIDE DEF r
<1>5. CASE r.ok
  <2>1. call' = [call EXCEPT !.header = {r.v}] /\ UNCHANGED <<entity_address, result>>
    BY <1>1, <1>5 DEF HeaderRead
  <2>2. /\ call' \in Calls /\ call'.header = {r.v} /\ call'.op = call.op
        /\ call'.n = call.n /\ call'.to = call.to /\ call' # Idle
    <3>1. {r.v} \in {{}} \cup {{h} : h \in Headers}
      BY <1>4, <1>5
    <3>2. /\ call' \in Calls /\ call'.header = {r.v} /\ call'.op = call.op
          /\ call'.n = call.n /\ call'.to = call.to
      BY <1>2, <2>1, <3>1 DEF Calls
    <3>3. call'.op \in Ops /\ "idle" \notin Ops
      BY <3>2 DEF Calls, Ops
    <3> QED
      BY <3>2, <3>3 DEF Idle
  <2>3. TypeInv'
    BY <1>1, <1>3, <2>1, <2>2 DEF IInv, TypeInv, entity, bounds
  <2>4. Waiting'
    BY <1>2, <2>1, <2>2 DEF Waiting
  <2>5. ASSUME ~cut
        PROVE  /\ queue # <<>> /\ r.v = Head(queue).header
               /\ encode_header(r.v) \o in' = Flat(queue)
    <3>1. /\ queue # <<>> /\ r = Ok(Head(queue).header)
          /\ encode_header(Head(queue).header) \o After(in, 8) = Flat(queue)
      BY <1>1, <2>5, AtMessage DEF r
    <3>2. r.v = Head(queue).header
      BY <3>1 DEF Ok
    <3> QED
      BY <1>1, <3>1, <3>2, Zenon
  <2>6. HeadTaken'
    BY <1>1, <2>2, <2>5 DEF HeadTaken
  <2>7. StreamAligned'
    <3>1. Taken(call') = encode_header(r.v)
      BY <2>2, OneTaken
    <3>2. ~cut => Taken(call') \o in' = Flat(queue)
      BY <2>5, <3>1, Zenon
    <3> QED
      BY <1>1, <3>2, Zenon DEF StreamAligned, Taken, Flat
  <2>8. Owned'
    BY <1>1, <2>2 DEF IInv, Owned, entity
  <2>9. Activated' /\ JobsAnswer' /\ AnswersTheRequest' /\ ActivationReal'
    BY <1>1, <1>2, <2>1 DEF IInv, Activated, JobsAnswer, AnswersTheRequest, ActivationReal, entity
  <2> QED
    BY <2>3, <2>4, <2>6, <2>7, <2>8, <2>9 DEF IInv
<1>6. CASE ~r.ok
  <2>1. call' = Idle /\ result'.r = Err /\ UNCHANGED entity_address
    BY <1>1, <1>6 DEF HeaderRead, Fail, Return
  <2>2. cut
    <3>1. ~cut => r = Ok(Head(queue).header)
      BY <1>1, AtMessage DEF r
    <3> QED
      BY <1>6, <3>1 DEF Ok
  <2>3. TypeInv'
    BY <1>1, <1>3, <2>1 DEF IInv, TypeInv, entity, bounds
  <2>4. Waiting' /\ HeadTaken' /\ Owned'
    BY <2>1 DEF Waiting, HeadTaken, Owned
  <2>5. StreamAligned' /\ AnswersTheRequest' /\ ActivationReal'
    BY <1>1, <2>2 DEF StreamAligned, AnswersTheRequest, ActivationReal
  <2>6. Activated' /\ JobsAnswer'
    BY <1>1 DEF IInv, Activated, JobsAnswer, entity
  <2> QED
    BY <2>3, <2>4, <2>5, <2>6 DEF IInv
<1> QED
  BY <1>5, <1>6

\* How a call stands after a message: ended, or waiting for the next one.
GoesOn ==
    /\ call' \in Calls /\ call' # Idle /\ call'.header = {}
    /\ call'.op = call.op /\ call'.n = call.n /\ call'.to = call.to
    /\ UNCHANGED <<entity_address, result>>

\* A call that fails returns nothing to hold against it.
LEMMA Failing ==
    ASSUME IInv, Fail
    PROVE  call' = Idle /\ entity_address' \in Nat /\ AnswersTheRequest' /\ ActivationReal'
<1>1. call' = Idle /\ result'.r = Err /\ entity_address' = entity_address
  BY DEF Fail, Return
<1>2. entity_address' \in Nat
  BY <1>1 DEF IInv, TypeInv
<1>3. ~result'.r.ok
  BY <1>1 DEF Err
<1> QED
  BY <1>1, <1>2, <1>3, Zenon DEF AnswersTheRequest, ActivationReal

\* routing_activation and activate_routing: the address is the entity's, and
\* success is a code that an activation on its way had.
LEMMA ActivationReceived ==
    ASSUME IInv, call # Idle, call.op \in {"activate", "activation"}, NEW m,
           m.payload \in Seq(Nat), UNCHANGED <<cut, clean, routing>>,
           ~cut => queue # <<>> /\ m = Head(queue),
           \/ call.op = "activate" /\ activate_routing(m)
           \/ call.op = "activation" /\ routing_activation(m)
    PROVE  call' = Idle /\ entity_address' \in Nat /\ AnswersTheRequest' /\ ActivationReal'
<1> DEFINE a == parse_activation_response(m.payload)
<1>1. CASE Fail
  BY <1>1, Failing
<1>2. CASE /\ m.header.type = "RoutingActivationResponse" /\ a.ok
           /\ entity_address' = a.v.entity /\ call' = Idle /\ result'.op = call.op
           /\ (call.op = "activate" /\ result'.r.ok => a.v.code = DOIP_ROUTING_ACTIVATION_SUCCESS)
  <2>1. a.v.entity = Be16(After(m.payload, 2)) /\ a.v.code = m.payload[5]
        /\ Len(m.payload) \in {9, 13}
    BY <1>2 DEF parse_activation_response, Ok, Err
  <2>2. entity_address' \in Nat
    <3> DEFINE n == Len(m.payload)
    <3> HIDE DEF n
    <3>1. n = 9 \/ n = 13
      BY <2>1 DEF n
    <3>2. n >= 2 + 2 /\ 2 \in Nat
      BY ONLY <3>1
    <3>3. Be16(After(m.payload, 2)) \in Nat
      BY <3>2, NumberRead DEF n
    <3> QED
      BY <1>2, <2>1, <3>3
  <2>3. AnswersTheRequest'
    <3>1. result'.op # "diagnostic"
      BY <1>2
    <3> QED
      BY <3>1, Zenon DEF AnswersTheRequest
  <2>4. ActivationReal'
    <3> SUFFICES ASSUME result'.op = "activate", result'.r.ok, ~cut PROVE routing
      BY Zenon DEF ActivationReal
    <3>1. queue # <<>> /\ m = Head(queue) /\ m.payload[5] = DOIP_ROUTING_ACTIVATION_SUCCESS
      BY <1>2, <2>1
    <3>2. 1 \in 1..Len(queue) /\ queue[1] = m
      BY <3>1 DEF IInv, TypeInv
    <3>3. Activates16(queue[1])
      BY <1>2, <3>1, <3>2 DEF Activates16
    <3> QED
      BY <3>2, <3>3 DEF IInv, Activated
  <2> QED
    BY <1>2, <2>2, <2>3, <2>4
<1>3. Fail \/ /\ m.header.type = "RoutingActivationResponse" /\ a.ok
              /\ entity_address' = a.v.entity /\ call' = Idle /\ result'.op = call.op
              /\ (call.op = "activate" /\ result'.r.ok => a.v.code = DOIP_ROUTING_ACTIVATION_SUCCESS)
  <2> HIDE DEF a
  <2>1. CASE call.op = "activate" /\ activate_routing(m)
    <3> SUFFICES ASSUME ~(m.header.type # "RoutingActivationResponse" \/ ~a.ok \/ a.v.tester # Tester)
                 PROVE  /\ entity_address' = a.v.entity /\ call' = Idle /\ result'.op = call.op
                        /\ (result'.r.ok => a.v.code = DOIP_ROUTING_ACTIVATION_SUCCESS)
      BY <2>1, Zenon DEF activate_routing, a
    <3>1. /\ entity_address' = a.v.entity
          /\ Return(IF a.v.code = DOIP_ROUTING_ACTIVATION_SUCCESS THEN Ok(a.v.code) ELSE Err, a.v.entity)
      BY <2>1, Zenon DEF activate_routing, a
    <3>2. result'.r = IF a.v.code = DOIP_ROUTING_ACTIVATION_SUCCESS THEN Ok(a.v.code) ELSE Err
      BY <3>1 DEF Return
    <3>3. call' = Idle /\ result'.op = call.op
      BY <3>1 DEF Return
    <3>4. result'.r.ok => a.v.code = DOIP_ROUTING_ACTIVATION_SUCCESS
      BY <3>2 DEF Err
    <3> QED
      BY <3>1, <3>3, <3>4
  <2>2. CASE call.op = "activation" /\ routing_activation(m)
    <3> SUFFICES ASSUME ~(m.header.type # "RoutingActivationResponse" \/ ~a.ok \/ a.v.tester # Tester)
                 PROVE  entity_address' = a.v.entity /\ call' = Idle /\ result'.op = call.op
      BY <2>2, Zenon DEF routing_activation, a
    <3>1. entity_address' = a.v.entity /\ Return(Ok(a.v.code), a.v.entity)
      BY <2>2, Zenon DEF routing_activation, a
    <3> QED
      BY <3>1 DEF Return
  <2> QED
    BY <2>1, <2>2
<1> QED
  BY <1>1, <1>2, <1>3

\* send_diagnostic: an answer that is returned came from the address asked; an
\* acknowledgement leaves the call waiting.
LEMMA DiagnosticReceived ==
    ASSUME IInv, call # Idle, call.op = "diagnostic", NEW m,
           m.payload \in Seq(Nat), UNCHANGED <<cut, clean>>,
           ~cut => queue # <<>> /\ m = Head(queue), send_diagnostic(m)
    PROVE  \/ call' = Idle /\ entity_address' \in Nat /\ AnswersTheRequest' /\ ActivationReal'
           \/ GoesOn
<1> DEFINE d == parse_diagnostic(m.payload)
<1>0. call \in Calls /\ call.to = entity_address /\ result = Idle /\ entity_address \in Nat
  BY DEF IInv, TypeInv, Waiting
<1>1. CASE Fail
  BY <1>1, Failing
<1>2. CASE CountEvent /\ ~Fail
  <2>1. /\ call' = [call EXCEPT !.events = @ + 1, !.header = {}]
        /\ UNCHANGED <<entity_address, result>>
    BY <1>2 DEF CountEvent
  <2>2. /\ call' \in Calls /\ call'.header = {}
        /\ call'.op = call.op /\ call'.n = call.n /\ call'.to = call.to
    <3>1. {} \in {{}} \cup {{h} : h \in Headers}
      OBVIOUS
    <3>2. call.events + 1 \in Nat
      BY <1>0 DEF Calls
    <3> QED
      BY <1>0, <2>1, <3>1, <3>2 DEF Calls
  <2>3. call' # Idle
    <3>1. call'.op # "idle"
      BY <2>2
    <3> QED
      BY <3>1 DEF Idle
  <2> QED
    BY <2>1, <2>2, <2>3 DEF GoesOn
<1>3. CASE /\ m.header.type = "DiagnosticMessage" /\ d.ok /\ d.v.source = entity_address
           /\ Return(Ok(d.v.user_data), d.v.source) /\ UNCHANGED entity_address
  <2>1. d.v.user_data = After(m.payload, 4)
    BY <1>3 DEF parse_diagnostic, Ok, Err
  <2> HIDE DEF d
  <2>2. /\ call' = Idle /\ result'.op = "diagnostic" /\ result'.r = Ok(d.v.user_data)
        /\ result'.from = d.v.source /\ result'.to = call.to /\ result'.n = call.n
    BY <1>3 DEF Return
  <2>3. result'.r.v = After(m.payload, 4) /\ result'.from = result'.to
    BY <1>0, <1>3, <2>1, <2>2 DEF Ok
  <2>4. ASSUME clean, ~cut PROVE result'.r.v \in {<<98, result'.n>>, <<127, 34, 120>>}
    <3>1. queue # <<>> /\ m = Head(queue)
      BY <2>4
    <3>2. 1 \in 1..Len(queue) /\ queue[1] = m
      BY <3>1 DEF IInv, TypeInv
    <3>3. Answers(m, call.n)
      BY <2>4, <3>2 DEF IInv, Owned
    <3> QED
      BY <1>3, <2>2, <2>3, <3>3, Zenon DEF Answers
  <2>5. AnswersTheRequest'
    BY <2>3, <2>4, Zenon DEF AnswersTheRequest
  <2>6. ActivationReal'
    BY <2>2 DEF ActivationReal
  <2> QED
    BY <1>0, <1>3, <2>2, <2>5, <2>6
<1>4. \/ Fail \/ CountEvent
      \/ /\ m.header.type = "DiagnosticMessage" /\ d.ok /\ d.v.source = entity_address
         /\ Return(Ok(d.v.user_data), d.v.source) /\ UNCHANGED entity_address
  BY Zenon DEF send_diagnostic, DiagnosticResponse, PositiveAck, validate_response_addresses
<1> QED
  BY <1>1, <1>2, <1>3, <1>4

\* Receiving a message whole.
LEMMA RecvPayloadStep ==
    ASSUME IInv, RecvPayload
    PROVE  IInv'
<1>1. PICK h \in call.header :
          /\ Len(in) >= h.length
          /\ in' = After(in, h.length)
          /\ LET m == [header |-> h, payload |-> Slice(in, 0, h.length)]
             IN  CASE call.op = "activate" -> activate_routing(m)
                   [] call.op = "activation" -> routing_activation(m)
                   [] call.op = "diagnostic" -> send_diagnostic(m)
  BY DEF RecvPayload
<1>2. call # Idle /\ queue' = (IF queue = <<>> THEN queue ELSE Tail(queue))
      /\ UNCHANGED <<out, entity, bounds, cut, clean>>
  BY DEF RecvPayload
<1> DEFINE m == [header |-> h, payload |-> Slice(in, 0, h.length)]
<1>3. call \in Calls /\ in \in Seq(Nat) /\ queue \in Seq(Messages) /\ h \in Headers
  <2>1. call \in Calls /\ in \in Seq(Nat) /\ queue \in Seq(Messages)
    BY <1>2 DEF IInv, TypeInv
  <2>2. call.header \in {{}} \cup {{x} : x \in Headers}
    BY <2>1 DEF Calls
  <2> QED
    BY <2>1, <2>2
<1>4. in' \in Seq(Nat) /\ m.payload \in Seq(Nat)
  <2> DEFINE n == h.length
  <2>1. n \in Nat /\ n <= Len(in) /\ 0 + n <= Len(in) /\ 0 \in Nat
    BY <1>1, <1>3 DEF Headers
  <2> HIDE DEF n
  <2>2. After(in, n) \in Seq(Nat) /\ Slice(in, 0, n) \in Seq(Nat)
    BY <1>3, <2>1, PartRead
  <2>3. m.payload = Slice(in, 0, h.length)
    OBVIOUS
  <2> QED
    BY <1>1, <2>2, <2>3 DEF n
<1>5. ~cut => queue # <<>> /\ m = Head(queue) /\ in' = Flat(queue')
  BY <1>1, <1>2, AtPayload
<1>6. \/ call' = Idle /\ entity_address' \in Nat /\ AnswersTheRequest' /\ ActivationReal'
      \/ GoesOn
  <2> HIDE DEF m
  <2>1. call.op \in Ops
    BY <1>3 DEF Calls
  <2>2. \/ call.op = "activate" /\ activate_routing(m)
        \/ call.op = "activation" /\ routing_activation(m)
        \/ call.op = "diagnostic" /\ send_diagnostic(m)
    BY <1>1, <2>1 DEF Ops, m
  <2>3. CASE call.op = "diagnostic" /\ send_diagnostic(m)
    BY <1>2, <1>4, <1>5, <2>3, DiagnosticReceived
  <2>4. CASE \/ call.op = "activate" /\ activate_routing(m)
             \/ call.op = "activation" /\ routing_activation(m)
    BY <1>2, <1>4, <1>5, <2>4, ActivationReceived DEF entity
  <2> QED
    BY <2>2, <2>3, <2>4
<1>7. queue' \in Seq(Messages) /\ \A i \in 1..Len(queue') : \E j \in 1..Len(queue) : queue'[i] = queue[j]
  <2>1. CASE queue = <<>>
    BY <1>2, <1>3, <2>1
  <2>2. CASE queue # <<>>
    <3>1. queue' \in Seq(Messages)
          /\ \A i \in 1..Len(queue') : i + 1 \in 1..Len(queue) /\ queue'[i] = queue[i + 1]
      BY <1>2, <1>3, <2>2
    <3> QED
      BY <3>1
  <2> QED
    BY <2>1, <2>2
<1>8. TypeInv'
  BY <1>2, <1>3, <1>4, <1>6, <1>7 DEF IInv, TypeInv, GoesOn, entity, bounds
<1>9. Waiting'
  BY <1>2, <1>6 DEF IInv, Waiting, GoesOn
<1>10. HeadTaken'
  BY <1>6 DEF HeadTaken, GoesOn
<1>11. Activated' /\ JobsAnswer'
  <2>1. Activated'
    BY <1>2, <1>7 DEF IInv, Activated, Activates16, entity
  <2> QED
    BY <1>2, <2>1 DEF IInv, JobsAnswer, entity
<1>12. Owned'
  <2> SUFFICES ASSUME clean', ~cut', call' # Idle
               PROVE  /\ out' \in {<<>>, encode(Request(call'.op, call'.n, call'.to))}
                      /\ \A i \in 1..Len(queue') : Answers(queue'[i], call'.n)
                      /\ \A i \in 1..Len(jobs') : Answers(jobs'[i], call'.n)
    BY DEF Owned, Answers
  <2>0. /\ clean /\ ~cut /\ out' = out /\ jobs' = jobs
        /\ call'.op = call.op /\ call'.n = call.n /\ call'.to = call.to
    BY <1>2, <1>6 DEF GoesOn, entity
  <2>1. /\ out \in {<<>>, encode(Request(call.op, call.n, call.to))}
        /\ \A i \in 1..Len(queue) : Answers(queue[i], call.n)
        /\ \A i \in 1..Len(jobs) : Answers(jobs[i], call.n)
    BY <1>2, <2>0 DEF IInv, Owned
  <2>2. \A i \in 1..Len(queue') : Answers(queue'[i], call.n)
    BY <1>7, <2>1
  <2> QED
    BY <2>0, <2>1, <2>2
<1>13. StreamAligned'
  <2>1. Taken(call') = <<>>
    BY <1>6, NothingTaken DEF GoesOn
  <2>2. <<>> \o in' = in'
    BY <1>4, ConcatEmptySeq
  <2>3. ~cut => Taken(call') \o in' = Flat(queue')
    BY <1>5, <2>1, <2>2, Zenon
  <2> QED
    BY <1>2, <2>3, Zenon DEF StreamAligned, Taken, Flat
<1>14. AnswersTheRequest' /\ ActivationReal'
  <2>1. CASE GoesOn
    BY <1>2, <2>1 DEF IInv, Waiting, GoesOn, AnswersTheRequest, ActivationReal
  <2> QED
    BY <1>6, <2>1
<1> QED
  BY <1>8, <1>9, <1>10, <1>11, <1>12, <1>13, <1>14 DEF IInv

\* A call begins: on a quiet connection its request is all there is.
LEMMA BeginStep ==
    ASSUME IInv, NEW op \in Ops, Begin(op)
    PROVE  IInv'
<1> DEFINE m == Request(op, calls', entity_address)
<1>1. /\ call = Idle /\ calls' = calls + 1 /\ result' = Idle
      /\ clean' = (queue = <<>> /\ jobs = <<>> /\ out = <<>> /\ ~cut)
      /\ UNCHANGED <<entity_address, in, entity, extra, queue>>
  BY DEF Begin
<1>2. entity_address \in Nat /\ calls' \in Nat /\ out \in Seq(Nat) /\ in \in Seq(Nat)
  BY <1>1 DEF IInv, TypeInv
<1>3. m \in Messages
  BY <1>2, RequestMessage
<1>4. encode(m) \in Seq(Nat) /\ encode_header(m.header) \in Seq(Nat)
  BY <1>3, AnyMessage DEF MessageShape
<1> HIDE DEF m
<1>5. CASE /\ out' = out \o encode(m)
           /\ call' = [op |-> op, n |-> calls', to |-> entity_address, events |-> 0, header |-> {}]
           /\ UNCHANGED <<drops, cut>>
  <2>1. /\ call' \in Calls /\ call' # Idle /\ call'.header = {} /\ call'.op = op
        /\ call'.n = calls' /\ call'.to = entity_address
    <3>1. {} \in {{}} \cup {{h} : h \in Headers} /\ 0 \in Nat
      OBVIOUS
    <3>2. /\ call' \in Calls /\ call'.header = {} /\ call'.op = op
          /\ call'.n = calls' /\ call'.to = entity_address
      BY <1>2, <1>5, <3>1 DEF Calls
    <3>3. op # "idle"
      BY DEF Ops
    <3> QED
      BY <3>2, <3>3 DEF Idle
  <2>2. out' \in Seq(Nat)
    BY <1>2, <1>4, <1>5
  <2>3. TypeInv'
    BY <1>1, <1>2, <1>5, <2>1, <2>2 DEF IInv, TypeInv, entity
  <2>4. Waiting' /\ HeadTaken'
    BY <1>1, <2>1 DEF Waiting, HeadTaken
  <2>5. Activated' /\ JobsAnswer'
    BY <1>1 DEF IInv, Activated, JobsAnswer, entity
  <2>6. Owned'
    <3> SUFFICES ASSUME clean'
                 PROVE  /\ out' \in {<<>>, encode(Request(call'.op, call'.n, call'.to))}
                        /\ \A i \in 1..Len(queue') : Answers(queue'[i], call'.n)
                        /\ \A i \in 1..Len(jobs') : Answers(jobs'[i], call'.n)
      BY DEF Owned, Answers
    <3>1. queue' = <<>> /\ jobs' = <<>> /\ out = <<>>
      BY <1>1 DEF entity
    <3>2. <<>> \o encode(m) = encode(m)
      BY <1>4, ConcatEmptySeq
    <3>3. out' = encode(Request(call'.op, call'.n, call'.to))
      BY <1>5, <2>1, <3>1, <3>2, Zenon DEF m
    <3>4. 1..Len(<<>>) = {}
      OBVIOUS
    <3> QED
      BY <3>1, <3>3, <3>4
  <2>7. StreamAligned'
    <3>1. Taken(call') = <<>> /\ Taken(call) = <<>>
      BY <1>1, <2>1, NothingTaken
    <3>2. ~cut => Taken(call') \o in = Flat(queue)
      BY <3>1, AlignedAs, Zenon DEF IInv
    <3> QED
      BY <1>1, <1>5, <3>2, Zenon DEF StreamAligned, Taken, Flat
  <2>8. AnswersTheRequest' /\ ActivationReal'
    BY <1>1 DEF AnswersTheRequest, ActivationReal
  <2> QED
    BY <2>3, <2>4, <2>5, <2>6, <2>7, <2>8 DEF IInv
<1>6. CASE out' = out \o encode_header(m.header) /\ cut' = TRUE /\ UNCHANGED call
  <2>1. out' \in Seq(Nat)
    BY <1>2, <1>4, <1>6
  <2>2. TypeInv'
    BY <1>1, <1>2, <1>6, <2>1 DEF IInv, TypeInv, entity
  <2>3. Waiting' /\ HeadTaken' /\ Owned'
    BY <1>1, <1>6 DEF Waiting, HeadTaken, Owned
  <2>4. Activated' /\ JobsAnswer'
    BY <1>1 DEF IInv, Activated, JobsAnswer, entity
  <2>5. StreamAligned' /\ AnswersTheRequest' /\ ActivationReal'
    BY <1>6 DEF StreamAligned, AnswersTheRequest, ActivationReal
  <2> QED
    BY <2>2, <2>3, <2>4, <2>5 DEF IInv
<1> QED
  BY <1>5, <1>6, Zenon DEF Begin, m

\* A dropped future: either it had taken nothing, or the stream is cut.
LEMMA DropStep ==
    ASSUME IInv, Drop
    PROVE  IInv'
<1>1. PICK k \in Partial \cap (0..Len(in)) :
          in' = After(in, k) /\ cut' = (cut \/ k > 0 \/ call.header # {})
  BY DEF Drop
<1>2. call # Idle /\ call' = Idle
      /\ UNCHANGED <<entity_address, result, out, entity, calls, extra, queue, clean>>
  BY DEF Drop
<1>3. in \in Seq(Nat) /\ in' \in Seq(Nat) /\ k \in Nat
  <2>1. in \in Seq(Nat) /\ k \in Nat /\ k <= Len(in)
    BY <1>1 DEF IInv, TypeInv
  <2> QED
    BY <1>1, <2>1, PartRead
<1>4. cut' \in BOOLEAN
  BY <1>1
<1>5. ~cut' => ~cut /\ in' = in /\ call.header = {}
  <2> SUFFICES ASSUME ~cut' PROVE in' = in
    BY <1>1
  <2>1. k = 0
    <3>1. ~(k > 0)
      BY <1>1, Zenon
    <3> QED
      BY <1>3, <3>1
  <2>2. After(in, 0) = in
    BY <1>3 DEF After
  <2> QED
    BY <1>1, <2>1, <2>2
<1>6. TypeInv'
  BY <1>2, <1>3, <1>4 DEF IInv, TypeInv, entity
<1>7. Waiting' /\ HeadTaken' /\ Owned'
  BY <1>2 DEF Waiting, HeadTaken, Owned
<1>8. Activated' /\ JobsAnswer'
  BY <1>2 DEF IInv, Activated, JobsAnswer, entity
<1>9. StreamAligned'
  <2>1. Taken(call') = <<>>
    BY <1>2, NothingTaken
  <2>2. ~cut' => Taken(call) = <<>>
    BY <1>5, NothingTaken
  <2>3. ~cut' => Taken(call') \o in' = Flat(queue)
    BY <1>5, <2>1, <2>2, AlignedAs, Zenon DEF IInv
  <2> QED
    BY <1>2, <2>3, Zenon DEF StreamAligned, Taken, Flat
<1>10. AnswersTheRequest' /\ ActivationReal'
  BY <1>2 DEF IInv, Waiting, AnswersTheRequest, ActivationReal
<1> QED
  BY <1>6, <1>7, <1>8, <1>9, <1>10 DEF IInv

\* Another address, between two calls.
LEMMA AddressStep ==
    ASSUME IInv, NEW a \in Nat, set_entity_address(a)
    PROVE  IInv'
<1>1. call = Idle /\ entity_address' = a
      /\ UNCHANGED <<call, result, out, in, entity, bounds, queue, cut, clean>>
  BY DEF set_entity_address
<1>2. TypeInv'
  BY <1>1 DEF IInv, TypeInv, entity, bounds
<1>3. Waiting' /\ HeadTaken' /\ Owned'
  BY <1>1 DEF Waiting, HeadTaken, Owned
<1>4. Activated' /\ JobsAnswer'
  BY <1>1 DEF IInv, Activated, JobsAnswer, entity
<1>5. StreamAligned' /\ AnswersTheRequest' /\ ActivationReal'
  BY <1>1 DEF IInv, StreamAligned, AnswersTheRequest, ActivationReal, entity
<1> QED
  BY <1>2, <1>3, <1>4, <1>5 DEF IInv

\* The address in an announcement that parses is a number.
LEMMA AnnouncedAddress ==
    ASSUME NEW a \in Entities, Announced(a).ok
    PROVE  Announced(a).v.address \in Nat
<1> DEFINE b == encode(Announcement(a))
           r == parse(b)
           p == r.v.payload
           v == parse_vehicle_identification(p)
<1>1. r.ok /\ v.ok /\ Announced(a) = v
  BY DEF Announced, Then, Err
<1>2. b \in Seq(Nat)
  <2> DEFINE vin == Fill(17, 49)
             s == ToBe16(a)
             eid == Fill(6, 1)
             gid == Fill(6, 2)
             zero == <<0>>
             x == ((((vin \o s) \o eid) \o gid) \o zero) \o zero
             type == "VehicleAnnouncement"
  <2>1. a \in Nat
    BY DoIpAssumption
  <2>2. s \in Seq(Nat) /\ Len(s) = 2
    BY <2>1, AddressBytes
  <2>3. vin \in Seq(Nat) /\ Len(vin) = 17 /\ eid \in Seq(Nat) /\ Len(eid) = 6
        /\ gid \in Seq(Nat) /\ Len(gid) = 6 /\ zero \in Seq(Nat) /\ Len(zero) = 1
    BY DEF Fill
  <2>4. Announcement(a) = Message(type, x)
    BY Zenon DEF Announcement, vehicle_identification_to_payload
  <2> HIDE DEF vin, s, eid, gid, zero
  <2>5. Behind(vin \o s, 17, s)
    BY <2>2, <2>3, Appended
  <2>6. vin \o s \in Seq(Nat) /\ Len(vin \o s) = 19
    BY <2>2, <2>5 DEF Behind
  <2>7. Behind((vin \o s) \o eid, 19, eid)
    BY <2>3, <2>6, Appended
  <2>8. (vin \o s) \o eid \in Seq(Nat) /\ Len((vin \o s) \o eid) = 25
    BY <2>3, <2>7 DEF Behind
  <2>9. Behind(((vin \o s) \o eid) \o gid, 25, gid)
    BY <2>3, <2>8, Appended
  <2>10. ((vin \o s) \o eid) \o gid \in Seq(Nat) /\ Len(((vin \o s) \o eid) \o gid) = 31
    BY <2>3, <2>9 DEF Behind
  <2>11. Behind((((vin \o s) \o eid) \o gid) \o zero, 31, zero)
    BY <2>3, <2>10, Appended
  <2>12. /\ (((vin \o s) \o eid) \o gid) \o zero \in Seq(Nat)
         /\ Len((((vin \o s) \o eid) \o gid) \o zero) = 32
    BY <2>3, <2>11 DEF Behind
  <2>13. Behind(x, 32, zero)
    BY <2>3, <2>12, Appended
  <2> HIDE DEF x
  <2>14. x \in Seq(Nat) /\ Len(x) = 33
    BY <2>3, <2>13 DEF Behind
  <2>15. Len(x) <= 255
    BY <2>14
  <2>16. type \in Types
    BY PayloadNumbers DEF TypeNames
  <2>17. MessageShape(Message(type, x))
    BY <2>14, <2>15, <2>16, MessageParts
  <2> QED
    BY <2>4, <2>17, Zenon DEF MessageShape
<1> HIDE DEF b
<1>3. p \in Seq(Nat)
  <2>1. Len(b) >= 8 /\ p = After(b, 8)
    <3>1. parse_header(b).ok
      BY <1>1 DEF parse, Then, Err
    <3>2. Len(b) >= 8
      BY <1>2, <3>1 DEF parse_header, DOIP_HEADER_LEN, Err
    <3>3. r.v = [header |-> parse_header(b).v, payload |-> After(b, 8)]
      BY <1>1, <3>1 DEF parse, Then, Ok, Err, DOIP_HEADER_LEN
    <3> QED
      BY <3>2, <3>3
  <2>2. 8 \in Nat /\ 8 <= Len(b)
    BY <1>2, <2>1
  <2> QED
    BY <1>2, <2>1, <2>2, PartRead
<1> HIDE DEF r, p
<1>4. Len(p) \in {32, 33} /\ v.v.address = Be16(After(p, 17))
  BY <1>1 DEF parse_vehicle_identification, Ok, Err
<1>5. Be16(After(p, 17)) \in Nat
  <2> DEFINE n == Len(p)
  <2> HIDE DEF n
  <2>1. n = 32 \/ n = 33
    BY <1>4 DEF n
  <2>2. n >= 17 + 2 /\ 17 \in Nat
    BY ONLY <2>1
  <2> QED
    BY <1>3, <2>2, NumberRead DEF n
<1> QED
  BY <1>1, <1>4, <1>5

(***************************************************************************)
(* The theorems                                                            *)
(***************************************************************************)

\* The invariant holds at the start.
LEMMA Initially ==
    ASSUME Init
    PROVE  IInv
<1> USE DEF Init
<1>1. TypeInv
  <2>1. entity_address \in Nat
    BY DoIpAssumption
  <2>2. <<>> \in Seq(Nat) /\ <<>> \in Seq(Messages) /\ 0 \in Nat
    OBVIOUS
  <2> QED
    BY <2>1, <2>2, Zenon DEF TypeInv
<1>2. 1..Len(<<>>) = {}
  OBVIOUS
<1>3. Waiting /\ HeadTaken /\ Owned /\ AnswersTheRequest /\ ActivationReal
  BY DEF Waiting, HeadTaken, Owned, AnswersTheRequest, ActivationReal
<1>4. Activated /\ JobsAnswer
  BY <1>2 DEF Activated, JobsAnswer
<1>5. StreamAligned
  <2>1. Taken(call) = <<>>
    BY NothingTaken
  <2>2. <<>> \o <<>> = <<>>
    OBVIOUS
  <2> QED
    BY <2>1, <2>2, AlignedAs, FlatEmpty, Zenon
<1> QED
  BY <1>1, <1>3, <1>4, <1>5 DEF IInv

\* Every step keeps it.
LEMMA Inductive ==
    ASSUME IInv, [Next]_vars
    PROVE  IInv'
<1>1. CASE UNCHANGED vars
  <2> USE <1>1 DEF vars, client, entity, bounds
  <2>1. TypeInv' /\ Waiting' /\ HeadTaken'
    BY DEF IInv, TypeInv, Waiting, HeadTaken
  <2>2. Activated' /\ JobsAnswer' /\ Owned'
    BY DEF IInv, Activated, JobsAnswer, Owned
  <2>3. StreamAligned' /\ AnswersTheRequest' /\ ActivationReal'
    BY DEF IInv, StreamAligned, AnswersTheRequest, ActivationReal
  <2> QED
    BY <2>1, <2>2, <2>3 DEF IInv
<1>2. ASSUME NEW op \in {"activate", "activation", "diagnostic"}, Begin(op) PROVE IInv'
  BY <1>2, BeginStep DEF Ops
<1>3. CASE RecvHeader
  BY <1>3, RecvHeaderStep
<1>4. CASE RecvPayload
  BY <1>4, RecvPayloadStep
<1>5. CASE Drop
  BY <1>5, DropStep
<1>6. ASSUME NEW a \in Entities, set_entity_address(a) PROVE IInv'
  <2>1. a \in Nat
    BY DoIpAssumption
  <2> QED
    BY <1>6, <2>1, AddressStep
<1>7. CASE Discover
  <2>1. PICK a \in Entities : Announced(a).ok /\ set_entity_address(Announced(a).v.address)
    BY <1>7 DEF Discover
  <2>2. Announced(a).v.address \in Nat
    BY <2>1, AnnouncedAddress
  <2> QED
    BY <2>1, <2>2, AddressStep
<1>8. CASE EntityReads
  BY <1>8, ReadsStep
<1>9. CASE EntityAnswers
  BY <1>9, AnswersStep
<1>10. CASE Unasked
  BY <1>10, UnaskedStep
<1>11. CASE Flood
  BY <1>11, FloodStep
<1> QED
  BY <1>1, <1>2, <1>3, <1>4, <1>5, <1>6, <1>7, <1>8, <1>9, <1>10, <1>11, Zenon DEF Next

\* The messages on their way, the header a call holds and what has been returned
\* fit together in every reachable state, for any entities and any bounds.
THEOREM Invariance == Spec => []IInv
<1>1. Init => IInv
  BY Initially
<1>2. IInv /\ [Next]_vars => IInv'
  BY Inductive
<1> QED
  BY <1>1, <1>2, PTL DEF Spec

\* DoIpStreamTransport never loses its place between messages, unless a future is
\* dropped inside one.
THEOREM Framing == Spec => []StreamAligned
<1>1. IInv => StreamAligned
  BY DEF IInv
<1> QED
  BY <1>1, Invariance, PTL

\* send_diagnostic returns an answer of the address it asked, and on a quiet
\* connection the answer to its own request.
THEOREM AnswerIsTheRequests == Spec => []AnswersTheRequest
<1>1. IInv => AnswersTheRequest
  BY DEF IInv
<1> QED
  BY <1>1, Invariance, PTL

\* activate_routing reports success only after routing was activated.
THEOREM ActivationIsReal == Spec => []ActivationReal
<1>1. IInv => ActivationReal
  BY DEF IInv
<1> QED
  BY <1>1, Invariance, PTL
=============================================================================
