---------------------------- MODULE J1939Proofs -----------------------------
(***************************************************************************)
(* Theorems about reassembly over a J1939 bus, for any sources, messages   *)
(* and faults, and for any width of the sequence number.                   *)
(*                                                                         *)
(* The properties speak of finished messages; they are inductive only with *)
(* what an open session holds and what its source still has to send: the   *)
(* bytes held are those of a message's first packets, and the packets that *)
(* follow are that message's own or were missed in a row (InStep).         *)
(***************************************************************************)
EXTENDS J1939, WireProofs

Announces == {"bam", "rts"}
Sendable == {65226, 65227, 65230, 64950, 64951, 59392}
Groups == Sendable \cup {60416, 60160}

FrameSet == [id : Nat, payload : Seq(Byte)]

Sessions ==
    [pgn : Nat, expected_size : Nat \ {0}, expected_packets : 1..SeqMax, next_sequence : 1..SeqMax,
     payload : Seq(Byte), made : Nat, run : Nat, gap : Nat]

(***************************************************************************)
(* Frames                                                                  *)
(***************************************************************************)

\* The groups by their numbers.
LEMMA GroupNumbers ==
    /\ Pgns.TP_CM \in Groups /\ Pgns.TP_DT \in Groups /\ Pgns.TP_CM # Pgns.TP_DT
    /\ Pgns.TP_CM \notin Sendable /\ Pgns.TP_DT \notin Sendable
    /\ Sendable = {Pgns.DM1, Pgns.DM2, Pgns.DM5, Pgns.DM24, Pgns.DM25, Pgns.ACKNOWLEDGEMENT}
  BY DEF Pgns, Sendable, Groups

\* The powers of two that the layout of an identifier uses.
LEMMA Powers ==
    /\ 2^0 = 1 /\ 2^3 = 8 /\ 2^8 = 256 /\ 2^10 = 1024 /\ 2^16 = 65536 /\ 2^18 = 262144
    /\ 2^26 = 67108864 /\ 2^29 = 536870912
  OBVIOUS

\* The bits of a group that an identifier is built from.
LEMMA GroupBits ==
    /\ \A g \in {65226, 65227, 65230, 64950, 64951} :
          /\ Bits(g, 8, 8) >= 240 /\ Bits(g, 0, 18) = g
          /\ 256 * Bits(g, 8, 10) + Bits(g, 0, 8) = g /\ Bits(g, 0, 8) \in 0..255
    /\ \A g \in {60416, 60160, 59392} :
          Bits(g, 8, 8) < 240 /\ 256 * Bits(g, 8, 10) = g
    /\ \A g \in Groups : Bits(g, 8, 10) \in 0..255 /\ Bits(g, 8, 8) = Bits(g, 8, 10)
  BY Powers DEF Bits, Groups, Sendable

\* The fields of an identifier laid out by hand.
Laid(hi, ps, s) == 402653184 + hi * 65536 + ps * 256 + s

\* x is an identifier with these bits.
HasFields(x, hi, ps, s) ==
    /\ x \in Nat /\ ~(x >= 2^29)
    /\ Bits(x, 16, 8) = hi /\ Bits(x, 0, 8) = s
    /\ Bits(x, 16, 10) = hi /\ Bits(x, 8, 18) = 256 * hi + ps

\* Each field is read back from its bits.
LEMMA Layout ==
    ASSUME NEW hi \in 0..255, NEW ps \in 0..255, NEW s \in 0..255
    PROVE  HasFields(Laid(hi, ps, s), hi, ps, s)
<1> DEFINE x == Laid(hi, ps, s)
<1>1. x = 402653184 + hi * 65536 + ps * 256 + s
  BY DEF Laid
<1> HIDE DEF x
<1>2. x \in Nat /\ ~(x >= 2^29)
  BY <1>1, Powers, SMT
<1>3. x \div 65536 = 6144 + hi
  BY <1>1
<1>4. x \div 256 = 1572864 + 256 * hi + ps
  BY <1>1
<1>5. x \div 1 = x /\ x % 256 = s
  BY <1>1
<1>6. (6144 + hi) % 256 = hi /\ (6144 + hi) % 1024 = hi
  OBVIOUS
<1>7. (1572864 + 256 * hi + ps) % 262144 = 256 * hi + ps
  OBVIOUS
<1>8. /\ Bits(x, 16, 8) = (x \div 65536) % 256 /\ Bits(x, 16, 10) = (x \div 65536) % 1024
      /\ Bits(x, 8, 18) = (x \div 256) % 262144 /\ Bits(x, 0, 8) = (x \div 1) % 256
  BY Powers DEF Bits
<1> QED
  BY <1>2, <1>3, <1>4, <1>5, <1>6, <1>7, <1>8 DEF x, HasFields

\* f is a frame of this source and group with these bytes.
Names(f, s, g, b) ==
    /\ f.id \in Nat /\ f.payload = b
    /\ decode(f.id).v.source = s /\ decode(f.id).v.pgn = g

\* An identifier names the group and the source it was made from.
LEMMA Identified ==
    ASSUME NEW s \in 0..253, NEW g \in Groups, NEW b
    PROVE  Names(FrameOf(s, g, b), s, g, b)
<1> DEFINE hi == Bits(g, 8, 10)
           id == [priority |-> 6, pgn |-> g, source |-> s, destination |-> {GLOBAL_ADDRESS}]
           x(ps) == Laid(hi, ps, s)
<1>1. FrameOf(s, g, b) = [id |-> encode(id), payload |-> b]
  BY DEF FrameOf
<1>2. hi \in 0..255 /\ Bits(g, 8, 8) = hi
  BY GroupBits
<1>3. normalized(g) = g
  BY <1>2, GroupBits DEF normalized, is_pdu1, pdu_format, Groups, Sendable
<1>4. (CHOOSE d \in {GLOBAL_ADDRESS} : TRUE) = 255
  BY DEF GLOBAL_ADDRESS
<1>5. ASSUME NEW ps \in 0..255 PROVE HasFields(x(ps), hi, ps, s)
  <2>1. s \in 0..255 /\ hi \in 0..255
    BY <1>2
  <2> HIDE DEF hi
  <2> QED
    BY <2>1, Layout
<1>6. CASE hi < 240
  <2>1. encode(id) = x(255)
    BY <1>2, <1>3, <1>4, <1>6, Powers DEF encode, is_pdu1, pdu_format, Laid
  <2>2. 256 * hi = g
    BY <1>2, <1>6, GroupBits DEF Groups, Sendable
  <2>3. decode(x(255)).v.source = s /\ decode(x(255)).v.pgn = g
    <3> HIDE DEF x
    <3>1. HasFields(x(255), hi, 255, s)
      BY <1>5
    <3> QED
      BY <1>6, <2>2, <3>1, SMT DEF decode, Ok, HasFields
  <2> QED
    BY <1>1, <1>5, <2>1, <2>3 DEF HasFields, Names
<1>7. CASE hi >= 240
  <2> DEFINE lo == Bits(g, 0, 8)
  <2>1. lo \in 0..255 /\ 256 * hi + lo = g
    BY <1>2, <1>7, GroupBits DEF Groups, Sendable
  <2>2. encode(id) = x(lo)
    BY <1>2, <1>3, <1>7, <2>1, Powers DEF encode, is_pdu1, pdu_format, Laid
  <2>3. decode(x(lo)).v.source = s /\ decode(x(lo)).v.pgn = g
    <3> HIDE DEF x, hi, lo
    <3>1. HasFields(x(lo), hi, lo, s)
      BY <1>5, <2>1
    <3> QED
      BY <1>2, <1>7, <2>1, <3>1, SMT DEF decode, Ok, HasFields
  <2> QED
    BY <1>1, <1>5, <2>1, <2>2, <2>3 DEF HasFields, Names
<1> QED
  BY <1>2, <1>6, <1>7

(***************************************************************************)
(* What a source puts on the bus                                           *)
(***************************************************************************)

\* x is the n bytes of s followed by the k bytes of t.
Follows(x, s, n, t, k) ==
    /\ x \in Seq(Byte) /\ Len(x) = n + k
    /\ \A i \in 1..n : x[i] = s[i]
    /\ \A i \in 1..k : x[n + i] = t[i]

\* Two byte strings of known length, one after the other.
LEMMA BytesJoined ==
    ASSUME NEW s \in Seq(Byte), NEW t \in Seq(Byte), NEW n, NEW k, Len(s) = n, Len(t) = k
    PROVE  Follows(s \o t, s, n, t, k)
<1> DEFINE x == s \o t
<1>1. /\ x \in Seq(Byte) /\ Len(x) = Len(s) + Len(t)
      /\ \A i \in 1..Len(s) : x[i] = s[i]
      /\ \A i \in 1..Len(t) : x[Len(s) + i] = t[i]
  <2>1. s \in Seq(Byte) /\ t \in Seq(Byte)
    OBVIOUS
  <2> QED
    BY ONLY <2>1, Joined
<1> HIDE DEF x
<1> QED
  BY <1>1 DEF Follows, x

\* The length and content of a control message's eight bytes, by their places.
ControlBytes(p, first, size, n, g) ==
    /\ p \in Seq(Byte) /\ Len(p) = 8
    /\ p[1] = first /\ p[2] = Bits(size, 0, 8) /\ p[3] = Bits(size, 8, 8) /\ p[4] = n
    /\ p[6] = Bits(g, 0, 8) /\ p[7] = Bits(g, 8, 8) /\ p[8] = Bits(g, 16, 8)

\* Lengths that fit a field of two bytes.
Size16 == 0..65535

\* They are the numbers below 65536.
LEMMA Sizes16 == \A x : x \in Size16 <=> x \in Nat /\ x < 65536
<1> DEFINE m == 65535
           y == 65536
<1>1. m \in Nat /\ y = m + 1
  OBVIOUS
<1>2. Size16 = 0..m
  BY DEF Size16
<1> HIDE DEF m, y
<1>3. \A x : x \in 0..m <=> x \in Nat /\ x < y
  BY ONLY <1>1
<1> QED
  BY ONLY <1>2, <1>3 DEF y

\* x, or a group, is read back from its bytes, low byte first.
Reads16(x) ==
    Bits(x, 0, 8) \in Byte /\ Bits(x, 8, 8) \in Byte /\ Bits(x, 0, 8) + 256 * Bits(x, 8, 8) = x
Reads24(g) ==
    /\ Bits(g, 0, 8) \in Byte /\ Bits(g, 8, 8) \in Byte /\ Bits(g, 16, 8) \in Byte
    /\ Bits(g, 0, 8) + 256 * Bits(g, 8, 8) + 65536 * Bits(g, 16, 8) = g

\* A number of two bytes, and a group, are read back low byte first.
LEMMA LowFirst ==
    /\ \A x \in Size16 : Reads16(x)
    /\ \A g \in Sendable : Reads24(g)
<1>1. ASSUME NEW x \in Size16 PROVE Reads16(x)
  <2>1. Bits(x, 0, 8) = x % 256 /\ Bits(x, 8, 8) = (x \div 256) % 256
    <3>1. x \in Nat /\ x \div 1 = x
      <4>1. x \in Nat
        BY ONLY <1>1, Sizes16
      <4> QED
        BY ONLY <4>1, SMT
    <3> QED
      BY <3>1, Powers, SMT DEF Bits
  <2>2. x \in Nat /\ x \div 256 \in 0..255 /\ x % 256 \in 0..255
    <3>1. x \in Nat /\ x < 65536
      BY ONLY <1>1, Sizes16
    <3>2. x \div 256 \in Nat /\ x \div 256 < 256 /\ x % 256 \in 0..255
      BY <3>1, SMT
    <3> QED
      BY <3>1, <3>2
  <2>3. (x \div 256) % 256 = x \div 256
    BY <2>2
  <2> QED
    BY <2>1, <2>2, <2>3 DEF Byte, Reads16
<1>2. \A g \in Sendable : Reads24(g)
  BY Powers, SMT DEF Bits, Sendable, Byte, Reads24
<1> QED
  BY <1>1, <1>2

\* The eight bytes of an announcement, broadcast or with a request to send.
LEMMA ControlMade ==
    ASSUME NEW a \in Announces, NEW size \in Size16, NEW n \in Byte, NEW g \in Sendable
    PROVE  ControlBytes(tp_to_payload(Tp(a, size, n, 255, g)), TpKinds[a], size, n, g)
<1> DEFINE k == TpKinds[a]
           m == Tp(a, size, n, 255, g)
           one == <<k>>
           two == ToLe16(size)
           mid == <<n, 255>>
           end == ToLe24(g)
           b == one \o two
           c == b \o mid
           p == c \o end
<1>1. k \in Byte
  BY DEF TpKinds, Announces, Byte
<1>2. tp_to_payload(m) = p
  <2>1. m.kind = a /\ m.size = size /\ m.packets = n /\ m.more = 255 /\ m.pgn = g
    BY DEF Tp
  <2> HIDE DEF m
  <2>2. CASE a = "bam"
    BY ONLY <2>1, <2>2, Zenon DEF tp_to_payload, k, b, c, p, one, two, mid, end
  <2>3. CASE a = "rts"
    <3>1. TpKinds["rts"] = TpKinds.rts
      OBVIOUS
    <3> QED
      BY ONLY <2>1, <2>3, <3>1, Zenon DEF tp_to_payload, k, b, c, p, one, two, mid, end
  <2> QED
    BY <2>2, <2>3 DEF Announces
<1>3. /\ two \in Seq(Byte) /\ Len(two) = 2 /\ two[1] = Bits(size, 0, 8) /\ two[2] = Bits(size, 8, 8)
  BY LowFirst, SMT DEF ToLe16, Reads16
<1>4. /\ end \in Seq(Byte) /\ Len(end) = 3
      /\ end[1] = Bits(g, 0, 8) /\ end[2] = Bits(g, 8, 8) /\ end[3] = Bits(g, 16, 8)
  BY LowFirst, SMT DEF ToLe24, Reads24
<1>5. one \in Seq(Byte) /\ Len(one) = 1 /\ one[1] = k
  BY <1>1
<1>6. mid \in Seq(Byte) /\ Len(mid) = 2 /\ mid[1] = n
  BY DEF Byte
<1> HIDE DEF k, one, two, mid, end
<1>7. b \in Seq(Byte) /\ Len(b) = 3 /\ b[1] = k /\ b[2] = two[1] /\ b[3] = two[2]
  <2>1. one \in Seq(Byte) /\ two \in Seq(Byte) /\ Len(one) = 1 /\ Len(two) = 2
    BY <1>3, <1>5
  <2>2. Follows(b, one, 1, two, 2)
    BY <2>1, BytesJoined
  <2> HIDE DEF b
  <2>3. b \in Seq(Byte) /\ Len(b) = 3 /\ b[1] = one[1]
    BY <2>2 DEF Follows
  <2>4. b[1 + 1] = two[1] /\ b[1 + 2] = two[2]
    BY <2>2 DEF Follows
  <2> QED
    BY <1>3, <1>5, <2>3, <2>4
<1> HIDE DEF b
<1>8. c \in Seq(Byte) /\ Len(c) = 5 /\ c[1] = k /\ c[2] = two[1] /\ c[3] = two[2] /\ c[4] = n
  <2>1. b \in Seq(Byte) /\ mid \in Seq(Byte) /\ Len(b) = 3 /\ Len(mid) = 2
    BY <1>6, <1>7
  <2>2. Follows(c, b, 3, mid, 2)
    BY <2>1, BytesJoined
  <2> HIDE DEF c
  <2>3. c \in Seq(Byte) /\ Len(c) = 5 /\ c[1] = b[1] /\ c[2] = b[2] /\ c[3] = b[3]
    BY <2>2 DEF Follows
  <2>4. c[3 + 1] = mid[1] /\ c[3 + 2] = mid[2]
    BY <2>2 DEF Follows
  <2> QED
    BY <1>6, <1>7, <2>3, <2>4
<1> HIDE DEF c
<1>9. /\ p \in Seq(Byte) /\ Len(p) = 8 /\ p[1] = k /\ p[2] = two[1] /\ p[3] = two[2] /\ p[4] = n
      /\ p[6] = end[1] /\ p[7] = end[2] /\ p[8] = end[3]
  <2>1. c \in Seq(Byte) /\ end \in Seq(Byte) /\ Len(c) = 5 /\ Len(end) = 3
    BY <1>4, <1>8
  <2>2. Follows(p, c, 5, end, 3)
    BY <2>1, BytesJoined
  <2> HIDE DEF p
  <2>3. p \in Seq(Byte) /\ Len(p) = 8 /\ p[1] = c[1] /\ p[2] = c[2] /\ p[3] = c[3] /\ p[4] = c[4] /\ p[5] = c[5]
    BY <2>2 DEF Follows
  <2>4. p[5 + 1] = end[1] /\ p[5 + 2] = end[2] /\ p[5 + 3] = end[3]
    BY <2>2 DEF Follows
  <2> QED
    BY <1>4, <1>8, <2>3, <2>4
<1> HIDE DEF p
<1> QED
  BY <1>2, <1>3, <1>4, <1>9 DEF ControlBytes, k

\* tp_parse reads an announcement as it was meant.
LEMMA ControlRead ==
    ASSUME NEW a \in Announces, NEW size \in Size16, NEW n \in Byte, NEW g \in Sendable,
           NEW p, ControlBytes(p, TpKinds[a], size, n, g)
    PROVE  LET m == tp_parse(p).v IN m.kind = a /\ m.size = size /\ m.packets = n /\ m.pgn = g
<1> DEFINE l == Le16(Slice(p, 1, 2))
           h == Le24(Slice(p, 5, 3))
<1>1. p \in Seq(Byte) /\ Len(p) = 8 /\ p[1] = TpKinds[a] /\ p[4] = n
  BY DEF ControlBytes
<1>2. l = size
  <2>1. Slice(p, 1, 2)[1] = p[2] /\ Slice(p, 1, 2)[2] = p[3]
    BY <1>1 DEF Slice
  <2> QED
    BY <2>1, LowFirst, SMT DEF ControlBytes, Le16, Reads16
<1>3. h = g
  <2>1. Slice(p, 5, 3)[1] = p[6] /\ Slice(p, 5, 3)[2] = p[7] /\ Slice(p, 5, 3)[3] = p[8]
    BY <1>1 DEF Slice
  <2> QED
    BY <2>1, LowFirst, SMT DEF ControlBytes, Le24, Reads24
<1>4. ~(Len(p) < 8)
  BY <1>1
<1> HIDE DEF l, h
<1>5. CASE a = "rts"
  <2>1. p[1] = 16
    BY <1>1, <1>5 DEF TpKinds
  <2>2. tp_parse(p) = Ok(Tp("rts", l, p[4], p[5], h))
    BY <1>4, <2>1 DEF tp_parse, TpKinds, l, h
  <2> QED
    BY <1>1, <1>2, <1>3, <1>5, <2>2 DEF Ok, Tp
<1>6. CASE a = "bam"
  <2>1. p[1] = 32
    BY <1>1, <1>6 DEF TpKinds
  <2>2. tp_parse(p) = Ok(Tp("bam", l, p[4], 0, h))
    BY <1>4, <2>1 DEF tp_parse, TpKinds, l, h
  <2> QED
    BY <1>1, <1>2, <1>3, <1>6, <2>2 DEF Ok, Tp
<1> QED
  BY <1>5, <1>6 DEF Announces

\* How many packets a message takes, and how full the last one is.
LEMMA Packeted ==
    ASSUME NEW size \in Nat, size > 0
    PROVE  /\ RequiredPackets(size) \in Nat \ {0}
           /\ 7 * (RequiredPackets(size) - 1) < size /\ size <= 7 * RequiredPackets(size)
           /\ \A k \in Nat : size <= 7 * k => RequiredPackets(size) <= k
<1> DEFINE n == (size + 6) \div 7
<1>1. RequiredPackets(size) = n
  BY DEF RequiredPackets, TP_PACKET_DATA_LEN
<1>2. n \in Nat /\ 7 * n <= size + 6 /\ size + 6 < 7 * n + 7
  OBVIOUS
<1> HIDE DEF n
<1> QED
  BY <1>1, <1>2

\* A message that needs more than one frame.
Long(c) == Len(Build(c)) > 8
Count(c) == RequiredPackets(Len(Build(c)))

\* A message that one session carries has a number for each packet, and is short
\* enough for its length of two bytes.
LEMMA LongFits ==
    ASSUME NEW c \in Contents, Long(c)
    PROVE  /\ c.pgn \in Sendable /\ Build(c) \in Seq(Byte)
           /\ Len(Build(c)) \in Size16 /\ Len(Build(c)) <= TP_MAX_MESSAGE_SIZE
           /\ Count(c) \in 1..SeqMax /\ Count(c) \in Byte
           /\ 7 * (Count(c) - 1) < Len(Build(c)) /\ Len(Build(c)) <= 7 * Count(c)
<1> DEFINE z == Len(Build(c))
<1>1. c.pgn \in Sendable /\ Build(c) \in Seq(Byte) /\ z \in Nat /\ z > 8
  BY ContentsAssumption, GroupNumbers DEF Long
<1>2. z <= TP_MAX_MESSAGE_SIZE
  BY <1>1, ContentsAssumption
<1>3. SeqMax \in 1..255
  BY J1939Assumption
<1>4. z <= 7 * SeqMax
  BY <1>2 DEF TP_MAX_MESSAGE_SIZE, TP_PACKET_DATA_LEN
<1>5. Count(c) = RequiredPackets(z)
  BY DEF Count
<1> HIDE DEF z
<1>6. z \in Size16
  <2>1. z <= 1785
    BY <1>1, <1>3, <1>4
  <2> QED
    <3>1. z \in Nat /\ z < 65536
      BY ONLY <1>1, <2>1
    <3> QED
      BY ONLY <3>1, Sizes16
<1>7. /\ Count(c) \in Nat \ {0} /\ 7 * (Count(c) - 1) < z /\ z <= 7 * Count(c)
      /\ Count(c) <= SeqMax
  BY <1>1, <1>3, <1>4, <1>5, Packeted
<1>8. Count(c) \in 1..SeqMax /\ Count(c) \in Byte
  BY <1>3, <1>7 DEF Byte
<1> QED
  BY <1>1, <1>2, <1>6, <1>7, <1>8 DEF z

\* The bytes of a message that its packet i carries, and how many they are.
Filled(c, i) == IF i < Count(c) THEN 7 ELSE Len(Build(c)) - 7 * (Count(c) - 1)
Piece(c, i) == Slice(Build(c), 7 * (i - 1), Filled(c, i))
DataPayload(c, i) == dt_to_payload([sequence |-> i, data |-> Padded(Piece(c, i), 7)])

\* Padding fills a byte string up to n bytes.
LEMMA PaddedTo ==
    ASSUME NEW b \in Seq(Byte), NEW n \in Nat, Len(b) <= n
    PROVE  /\ Padded(b, n) \in Seq(Byte) /\ Len(Padded(b, n)) = n
           /\ \A k \in 0..Len(b) : Slice(Padded(b, n), 0, k) = Slice(b, 0, k)
<1> DEFINE l == Len(b)
           f == Fill(n - l, 255)
           p == b \o f
<1>1. l \in Nat /\ n - l \in Nat
  OBVIOUS
<1>2. f \in Seq(Byte) /\ Len(f) = n - l
  BY <1>1 DEF Fill, Byte
<1> HIDE DEF f
<1>3. Follows(p, b, l, f, n - l)
  BY <1>2, BytesJoined
<1> HIDE DEF p
<1>4. p \in Seq(Byte) /\ Len(p) = n /\ \A i \in 1..l : p[i] = b[i]
  BY <1>1, <1>3 DEF Follows
<1>5. ASSUME NEW k \in 0..l PROVE Slice(p, 0, k) = Slice(b, 0, k)
  <2> DEFINE u == Slice(p, 0, k)
             v == Slice(b, 0, k)
  <2>1. u \in Seq(Byte) /\ Len(u) = k /\ \A i \in 1..k : u[i] = p[i]
    BY <1>1, <1>4 DEF Slice
  <2>2. v \in Seq(Byte) /\ Len(v) = k /\ \A i \in 1..k : v[i] = b[i]
    BY <1>1 DEF Slice
  <2> HIDE DEF u, v
  <2>3. \A i \in 1..k : u[i] = v[i]
    BY <1>4, <2>1, <2>2
  <2> QED
    BY <2>1, <2>2, <2>3 DEF u, v
<1> QED
  BY <1>4, <1>5 DEF p, f, Padded

\* A packet's number, its seven bytes, and the part of them that is the message's.
Carries(p, c, i) ==
    /\ p \in Seq(Byte) /\ Len(p) = 8
    /\ dt_parse(p).v.sequence = i
    /\ dt_parse(p).v.data \in Seq(Byte) /\ Len(dt_parse(p).v.data) = 7
    /\ Slice(dt_parse(p).v.data, 0, Filled(c, i)) = Piece(c, i)

\* What dt_parse reads from packet i of a message.
LEMMA DataRead ==
    ASSUME NEW c \in Contents, Long(c), NEW i \in 1..Count(c)
    PROVE  /\ Carries(DataPayload(c, i), c, i)
           /\ Filled(c, i) \in 1..7 /\ 7 * (i - 1) + Filled(c, i) <= Len(Build(c))
<1> DEFINE b == Build(c)
           n == Count(c)
           k == Filled(c, i)
           d == Padded(Piece(c, i), 7)
           p == <<i>> \o d
<1>1. b \in Seq(Byte) /\ n \in Byte /\ n \in Nat /\ 7 * (n - 1) < Len(b) /\ Len(b) <= 7 * n
  BY LongFits DEF Byte
<1>2. k \in 1..7 /\ 7 * (i - 1) + k <= Len(b)
  <2> DEFINE l == Len(b)
  <2>1. l \in Nat /\ 7 * (n - 1) < l /\ l <= 7 * n
    BY <1>1
  <2>2. k = IF i < n THEN 7 ELSE l - 7 * (n - 1)
    BY DEF Filled
  <2> HIDE DEF b, n, k, l
  <2>3. n \in Nat /\ i \in Nat /\ 1 <= i /\ i <= n
    BY <1>1 DEF n
  <2>4. CASE i < n
    <3>1. k = 7 /\ i <= n - 1
      BY <2>2, <2>3, <2>4
    <3> QED
      BY <2>1, <2>3, <3>1 DEF l
  <2>5. CASE ~(i < n)
    <3>1. i = n /\ k = l - 7 * (n - 1)
      BY <2>2, <2>3, <2>5
    <3> QED
      BY <2>1, <2>3, <3>1 DEF l
  <2> QED
    BY <2>4, <2>5
<1> HIDE DEF b, n, k
<1>3. Piece(c, i) \in Seq(Byte) /\ Len(Piece(c, i)) = k
  <2>1. Piece(c, i) = SubSeq(b, 7 * (i - 1) + 1, 7 * (i - 1) + k)
    BY DEF Piece, Slice, b, k
  <2>2. 7 * (i - 1) \in Nat
    BY <1>1 DEF n
  <2> QED
    BY <1>1, <1>2, <2>1, <2>2
<1>4. /\ d \in Seq(Byte) /\ Len(d) = 7
      /\ Slice(d, 0, k) = Slice(Piece(c, i), 0, k)
  <2>1. 7 \in Nat /\ Len(Piece(c, i)) <= 7 /\ k \in 0..Len(Piece(c, i)) /\ Piece(c, i) \in Seq(Byte)
    BY <1>2, <1>3
  <2> QED
    BY ONLY <2>1, PaddedTo DEF d
<1>5. Slice(Piece(c, i), 0, k) = Piece(c, i)
  BY <1>2, <1>3 DEF Slice
<1> HIDE DEF d
<1>6. i \in Byte
  <2>1. n \in Byte /\ i \in 1..n
    BY <1>1 DEF n
  <2> QED
    BY ONLY <2>1 DEF Byte
<1>7. <<i>> \in Seq(Byte) /\ Len(<<i>>) = 1
  BY <1>6
<1>8. Follows(p, <<i>>, 1, d, 7)
  BY <1>4, <1>7, BytesJoined
<1>9. DataPayload(c, i) = p
  BY DEF DataPayload, dt_to_payload, d
<1> HIDE DEF p
<1>10. p \in Seq(Byte) /\ Len(p) = 8 /\ p[1] = i /\ \A j \in 1..7 : p[1 + j] = d[j]
  BY <1>8 DEF Follows
<1>11. Slice(p, 1, 7) = d
  <2>1. <<i>> \in Seq(Byte) /\ d \in Seq(Byte) /\ Len(<<i>>) = 1
    BY <1>4, <1>7
  <2>2. After(<<i>> \o d, 1) = d
    BY ONLY <2>1, Separated
  <2>3. SubSeq(p, 2, 8) = SubSeq(p, 1 + 1, Len(p)) /\ Slice(p, 1, 7) = SubSeq(p, 2, 8)
    BY <1>10 DEF Slice
  <2> QED
    BY <2>2, <2>3 DEF After, p
<1>12. dt_parse(p).v.sequence = i /\ dt_parse(p).v.data = d
  BY <1>10, <1>11 DEF dt_parse, Ok
<1> QED
  BY <1>2, <1>4, <1>5, <1>9, <1>10, <1>12 DEF Carries, b, k

\* The frames of a message in one frame, and of one that takes more.
ShortFrame(s, c) == FrameOf(s, c.pgn, Padded(Build(c), 8))
ControlFrame(s, c, a) ==
    FrameOf(s, Pgns.TP_CM, tp_to_payload(Tp(a, Len(Build(c)), Count(c), 255, c.pgn)))
DataFrame(s, c, i) == FrameOf(s, Pgns.TP_DT, DataPayload(c, i))

\* The number of frames of a message.
FrameCount(c) == IF Long(c) THEN Count(c) + 1 ELSE 1

\* The frames of a message in their order.
LEMMA FramesMade ==
    ASSUME NEW s \in Sources, NEW c \in Contents, NEW a \in Announces
    PROVE  /\ Frames(s, c, a) \in Seq(FrameSet) /\ Len(Frames(s, c, a)) = FrameCount(c)
           /\ FrameCount(c) \in Nat \ {0}
           /\ ~Long(c) => Frames(s, c, a)[1] = ShortFrame(s, c)
           /\ Long(c) => /\ Frames(s, c, a)[1] = ControlFrame(s, c, a)
                         /\ \A i \in 1..Count(c) : Frames(s, c, a)[i + 1] = DataFrame(s, c, i)
<1> DEFINE F == Frames(s, c, a)
           b == Build(c)
           n == Count(c)
<1>1. s \in 0..253 /\ b \in Seq(Byte) /\ c.pgn \in Sendable
  BY J1939Assumption, ContentsAssumption, GroupNumbers
<1>2. ASSUME NEW g \in Groups, NEW p \in Seq(Byte) PROVE FrameOf(s, g, p) \in FrameSet
  <2>1. FrameOf(s, g, p).id \in Nat /\ FrameOf(s, g, p).payload = p
    <3>1. s \in 0..253
      BY <1>1
    <3>2. g \in Groups
      OBVIOUS
    <3>3. Names(FrameOf(s, g, p), s, g, p)
      BY ONLY <3>1, <3>2, Identified
    <3> QED
      BY <3>3 DEF Names
  <2>2. FrameOf(s, g, p) = [id |-> FrameOf(s, g, p).id, payload |-> FrameOf(s, g, p).payload]
    BY DEF FrameOf
  <2> QED
    BY <2>1, <2>2 DEF FrameSet
<1>3. CASE ~Long(c)
  <2>1. F = <<ShortFrame(s, c)>>
    BY <1>3 DEF Frames, Long, ShortFrame
  <2>2. ShortFrame(s, c) \in FrameSet
    <3>1. Padded(b, 8) \in Seq(Byte)
      BY <1>1, <1>3, PaddedTo DEF Long
    <3> QED
      BY <1>1, <1>2, <3>1 DEF ShortFrame, Groups
  <2> QED
    BY <1>3, <2>1, <2>2 DEF FrameCount
<1>4. CASE Long(c)
  <2>1. n \in Byte /\ n \in 1..SeqMax /\ Len(b) \in Size16
    BY <1>4, LongFits
  <2>2. n \in Nat \ {0}
    BY <2>1 DEF Byte
  <2> DEFINE rest == [i \in 1..n |-> DataFrame(s, c, i)]
             one == <<ControlFrame(s, c, a)>>
  <2>3. F = one \o rest
    <3>1. ~(Len(b) <= 8) /\ RequiredPackets(Len(b)) = n
      BY <1>1, <1>4 DEF Long, Count
    <3>2. ControlFrame(s, c, a)
             = FrameOf(s, Pgns.TP_CM, tp_to_payload(Tp(a, Len(b), n, 255, c.pgn)))
      BY DEF ControlFrame
    <3>3. \A i \in 1..n : DataFrame(s, c, i)
             = FrameOf(s, Pgns.TP_DT, dt_to_payload([sequence |-> i, data |->
                   Padded(Slice(b, 7 * (i - 1), IF i < n THEN 7 ELSE Len(b) - 7 * (n - 1)), 7)]))
      BY DEF DataFrame, DataPayload, Piece, Filled
    <3> DEFINE x == ControlFrame(s, c, a)
               w(k) == IF k < n THEN 7 ELSE Len(b) - 7 * (n - 1)
               y(k) == Padded(Slice(b, 7 * (k - 1), w(k)), 7)
               z(k) == FrameOf(s, Pgns.TP_DT, dt_to_payload([sequence |-> k, data |-> y(k)]))
               all == [k \in 1..n |-> z(k)]
    <3>4. F = <<FrameOf(s, Pgns.TP_CM, tp_to_payload(Tp(a, Len(b), n, 255, c.pgn)))>> \o all
      BY ONLY <3>1, Zenon DEF Frames, F, b
    <3>5. \A i \in 1..n : DataFrame(s, c, i) = z(i)
      BY ONLY <3>3, Zenon DEF b
    <3> HIDE DEF z
    <3>6. all = rest
      BY ONLY <3>5, Zenon DEF rest
    <3> HIDE DEF all, rest, F, b, n, x
    <3> QED
      BY ONLY <3>2, <3>4, <3>6 DEF one
  <2>4. ControlFrame(s, c, a) \in FrameSet
    <3>1. tp_to_payload(Tp(a, Len(b), n, 255, c.pgn)) \in Seq(Byte)
      BY <1>1, <2>1, ControlMade DEF ControlBytes
    <3> QED
      BY <1>2, <3>1, GroupNumbers DEF ControlFrame
  <2>5. \A i \in 1..n : DataFrame(s, c, i) \in FrameSet
    <3>1. \A i \in 1..n : DataPayload(c, i) \in Seq(Byte)
      BY <1>4, DataRead DEF Carries
    <3> QED
      BY <1>2, <3>1, GroupNumbers DEF DataFrame
  <2> HIDE DEF n
  <2>6. one \in Seq(FrameSet) /\ Len(one) = 1 /\ one[1] = ControlFrame(s, c, a)
    BY <2>4
  <2>7. rest \in Seq(FrameSet) /\ Len(rest) = n /\ \A i \in 1..n : rest[i] = DataFrame(s, c, i)
    BY <2>2, <2>5
  <2> HIDE DEF one, rest, F
  <2>8. /\ one \o rest \in Seq(FrameSet) /\ Len(one \o rest) = Len(one) + Len(rest)
        /\ \A i \in 1..Len(one) : (one \o rest)[i] = one[i]
        /\ \A i \in 1..Len(rest) : (one \o rest)[Len(one) + i] = rest[i]
    <3>1. one \in Seq(FrameSet) /\ rest \in Seq(FrameSet)
      BY <2>6, <2>7
    <3> QED
      BY <3>1, Joined
  <2>9. /\ F \in Seq(FrameSet) /\ Len(F) = n + 1 /\ F[1] = ControlFrame(s, c, a)
        /\ \A i \in 1..n : F[1 + i] = DataFrame(s, c, i)
    BY <2>2, <2>3, <2>6, <2>7, <2>8
  <2>10. \A i \in 1..n : i + 1 = 1 + i
    BY <2>2
  <2> QED
    BY <1>4, <2>2, <2>9, <2>10 DEF FrameCount, F, n
<1> QED
  BY <1>3, <1>4

\* The first k bytes of a message.
First(c, k) == Slice(Build(c), 0, k)

\* A packet continues the bytes before it; with the last one the message is whole.
LEMMA Grown ==
    ASSUME NEW c \in Contents, Long(c), NEW i \in 1..Count(c)
    PROVE  /\ First(c, 7 * (i - 1)) \in Seq(Byte) /\ Len(First(c, 7 * (i - 1))) = 7 * (i - 1)
           /\ First(c, 7 * (i - 1)) \o Piece(c, i)
                = IF i < Count(c) THEN First(c, 7 * i) ELSE Build(c)
<1> DEFINE b == Build(c)
           n == Count(c)
           k == Filled(c, i)
           m == 7 * (i - 1)
           u == First(c, m)
           v == Piece(c, i)
           w == IF i < n THEN First(c, 7 * i) ELSE b
<1>1. b \in Seq(Byte) /\ Len(b) \in Nat /\ n \in Nat /\ i \in Nat /\ 1 <= i /\ i <= n
  BY LongFits DEF Byte
<1>2. k \in 1..7 /\ m + k <= Len(b) /\ m \in Nat
  BY <1>1, DataRead
<1>3. k = IF i < n THEN 7 ELSE Len(b) - 7 * (n - 1)
  BY DEF Filled
<1> HIDE DEF n, k
<1>4. u = SubSeq(b, 1, m) /\ v = SubSeq(b, m + 1, m + k)
  BY <1>2 DEF First, Piece, Slice, k
<1>5. w = SubSeq(b, 1, m + k)
  <2>1. CASE i < n
    <3>1. 7 * i = m + k
      BY <1>1, <1>3, <2>1
    <3> QED
      BY <1>1, <2>1, <3>1 DEF First, Slice
  <2>2. CASE ~(i < n)
    <3>1. m + k = Len(b)
      BY <1>1, <1>3, <2>2
    <3>2. SubSeq(b, 1, Len(b)) = b
      BY <1>1
    <3> QED
      BY <2>2, <3>1, <3>2
  <2> QED
    BY <2>1, <2>2
<1> HIDE DEF b, m, u, v, w
<1>6. u \in Seq(Byte) /\ Len(u) = m /\ \A j \in 1..m : u[j] = b[j]
  BY <1>1, <1>2, <1>4
<1>7. v \in Seq(Byte) /\ Len(v) = k /\ \A j \in 1..k : v[j] = b[m + j]
  BY <1>1, <1>2, <1>4
<1>8. w \in Seq(Byte) /\ Len(w) = m + k /\ \A j \in 1..(m + k) : w[j] = b[j]
  BY <1>1, <1>2, <1>5
<1> DEFINE x == u \o v
<1>9. Follows(x, u, m, v, k)
  BY <1>6, <1>7, BytesJoined
<1> HIDE DEF x
<1>10. ASSUME NEW j \in 1..(m + k) PROVE x[j] = w[j]
  <2>1. CASE j <= m
    BY <1>2, <1>6, <1>8, <1>9, <2>1 DEF Follows
  <2>2. CASE ~(j <= m)
    <3>1. j - m \in 1..k /\ m + (j - m) = j
      BY <1>2, <2>2
    <3>2. x[m + (j - m)] = v[j - m] /\ v[j - m] = b[m + (j - m)]
      BY <1>7, <1>9, <3>1 DEF Follows
    <3> QED
      BY <1>8, <3>1, <3>2
  <2> QED
    BY <2>1, <2>2
<1>11. x = w
  BY <1>8, <1>9, <1>10 DEF Follows
<1> QED
  BY <1>6, <1>11 DEF x, u, v, w, m, n, b

(***************************************************************************)
(* What the tool makes of a frame                                          *)
(***************************************************************************)

\* The message of one frame, and the session that an announcement opens.
Single(s, c) ==
    [source |-> s, pgn |-> c.pgn, payload |-> Padded(Build(c), 8), nth |-> 1, gap |-> 0,
     packets |-> 0]
Opened(c) ==
    [pgn |-> c.pgn, expected_size |-> Len(Build(c)), expected_packets |-> Count(c),
     next_sequence |-> 1, payload |-> <<>>, made |-> 0, run |-> 0, gap |-> 0]

\* A message of one frame is handed out as it is.
LEMMA HearsShort ==
    ASSUME NEW s \in Sources, NEW c \in Contents, Hears(ShortFrame(s, c))
    PROVE  rx' = rx /\ got' = got \cup {Single(s, c)}
<1> DEFINE f == ShortFrame(s, c)
           id == decode(f.id).v
<1>1. s \in 0..253 /\ c.pgn \in Sendable
  BY J1939Assumption, ContentsAssumption, GroupNumbers
<1>2. id.source = s /\ id.pgn = c.pgn /\ f.payload = Padded(Build(c), 8)
  <2>1. c.pgn \in Groups
    BY <1>1 DEF Groups
  <2> QED
    <3> DEFINE x == FrameOf(s, c.pgn, Padded(Build(c), 8))
    <3>0. Names(x, s, c.pgn, Padded(Build(c), 8))
      BY <1>1, <2>1, Identified, Zenon
    <3> HIDE DEF x
    <3>1. decode(x.id).v.source = s /\ decode(x.id).v.pgn = c.pgn /\ x.payload = Padded(Build(c), 8)
      BY ONLY <3>0, Zenon DEF Names
    <3>2. f = x
      BY DEF ShortFrame, x
    <3> QED
      BY <3>1, <3>2, Zenon
<1>3. c.pgn # Pgns.TP_CM /\ c.pgn # Pgns.TP_DT
  BY <1>1, GroupNumbers
<1> HIDE DEF f, id
<1>4. /\ got' = got \cup {[NoMessage EXCEPT !.source = id.source, !.pgn = id.pgn,
                                           !.payload = f.payload, !.nth = 1]}
      /\ rx' = rx
  BY <1>2, <1>3 DEF Hears, id, f
<1>5. got' = got \cup {[NoMessage EXCEPT !.source = s, !.pgn = c.pgn,
                                         !.payload = Padded(Build(c), 8), !.nth = 1]}
  BY <1>2, <1>4
<1> DEFINE z == Padded(Build(c), 8)
           p == [NoMessage EXCEPT !.source = s]
           q == [p EXCEPT !.pgn = c.pgn]
           u == [q EXCEPT !.payload = z]
           v == [u EXCEPT !.nth = 1]
<1> HIDE DEF z, q, u, v
<1>6. p = [source |-> s, pgn |-> 0, payload |-> <<>>, nth |-> 0, gap |-> 0, packets |-> 0]
  BY DEF NoMessage
<1> HIDE DEF p
<1>7. q = [source |-> s, pgn |-> c.pgn, payload |-> <<>>, nth |-> 0, gap |-> 0, packets |-> 0]
  BY <1>6 DEF q
<1>8. u = [source |-> s, pgn |-> c.pgn, payload |-> z, nth |-> 0, gap |-> 0, packets |-> 0]
  BY <1>7 DEF u
<1>9. v = [source |-> s, pgn |-> c.pgn, payload |-> z, nth |-> 1, gap |-> 0, packets |-> 0]
  BY <1>8 DEF v
<1> QED
  BY <1>4, <1>5, <1>9, Zenon DEF Single, p, q, u, v, z

\* An announcement opens a session, whatever was there before.
LEMMA HearsControl ==
    ASSUME NEW s \in Sources, NEW c \in Contents, Long(c), NEW a \in Announces,
           Hears(ControlFrame(s, c, a))
    PROVE  rx' = [rx EXCEPT ![s] = {Opened(c)}] /\ got' = got
<1> DEFINE p == tp_to_payload(Tp(a, Len(Build(c)), Count(c), 255, c.pgn))
           f == ControlFrame(s, c, a)
           id == decode(f.id).v
           m == tp_parse(p).v
<1>1. s \in 0..253 /\ c.pgn \in Sendable /\ Len(Build(c)) \in Size16 /\ Count(c) \in Byte
  BY J1939Assumption, LongFits
<1>2. id.source = s /\ id.pgn = Pgns.TP_CM /\ f.payload = p
  <2> DEFINE x == FrameOf(s, Pgns.TP_CM, p)
  <2>1. f = x
    BY DEF ControlFrame
  <2> HIDE DEF p
  <2>2. Names(x, s, Pgns.TP_CM, p)
    BY <1>1, GroupNumbers, Identified
  <2> HIDE DEF x
  <2> QED
    BY <2>1, <2>2 DEF Names
<1>3. m.kind = a /\ m.size = Len(Build(c)) /\ m.packets = Count(c) /\ m.pgn = c.pgn
  <2>1. ControlBytes(p, TpKinds[a], Len(Build(c)), Count(c), c.pgn)
    BY <1>1, ControlMade
  <2> HIDE DEF p
  <2> QED
    BY <1>1, <2>1, ControlRead
<1> HIDE DEF p, m
<1>4. start(m) = Ok(Opened(c))
  <2>1. Len(Build(c)) \in 1..TP_MAX_MESSAGE_SIZE /\ RequiredPackets(Len(Build(c))) = Count(c)
    <3>1. TP_MAX_MESSAGE_SIZE \in Nat
      BY J1939Assumption DEF TP_MAX_MESSAGE_SIZE, TP_PACKET_DATA_LEN
    <3> QED
      BY <3>1, LongFits DEF Long, Count
  <2> QED
    BY <1>3, <2>1 DEF start, validate_tp_size, Opened, Announces
<1>5. Opened(c) = start(m).v /\ start(m).ok
  BY <1>4 DEF Ok
<1> HIDE DEF f, id
<1>6. rx' = [rx EXCEPT ![s] = {start(m).v}] /\ got' = got
  <2>1. m = tp_parse(f.payload).v
    BY <1>2 DEF m
  <2>2. /\ rx' = [rx EXCEPT ![s] = IF start(tp_parse(f.payload).v).ok
                                   THEN {start(tp_parse(f.payload).v).v} ELSE {}]
        /\ got' = got
    <3>1. Hears(f)
      BY DEF f
    <3>2. decode(f.id).v.source = s /\ decode(f.id).v.pgn = Pgns.TP_CM
      BY <1>2 DEF id
    <3>3. Pgns.TP_CM # Pgns.TP_DT
      BY GroupNumbers
    <3> QED
      BY <3>1, <3>2, <3>3 DEF Hears
  <2> QED
    BY <1>5, <2>1, <2>2
<1> QED
  BY <1>5, <1>6

\* What a session becomes by a packet it accepts.
Kept(r) == IF Completes(r) THEN Emptied(r) ELSE r

\* What the source's session makes of packet dt, and what the tool gets of it.
Fed(s, dt) ==
    /\ rx[s] = {} => rx' = [rx EXCEPT ![s] = {}] /\ got' = got
    /\ \A r : rx[s] = {r} /\ ~InSequence(r, dt) => rx' = [rx EXCEPT ![s] = {}] /\ got' = got
    /\ \A r : rx[s] = {r} /\ InSequence(r, dt) =>
          /\ rx' = [rx EXCEPT ![s] = {Kept(accept_dt(r, dt).v)}]
          /\ got' = IF Completes(accept_dt(r, dt).v)
                    THEN got \cup {Message(s, accept_dt(r, dt).v)} ELSE got

\* A packet that a session does not expect ends it; one that it expects makes it
\* grow, and hands out the message when it is complete.
LEMMA HearsData ==
    ASSUME NEW s \in Sources, NEW c \in Contents, Long(c), NEW i \in 1..Count(c),
           Hears(DataFrame(s, c, i)), NEW dt, dt = dt_parse(DataPayload(c, i)).v
    PROVE  Fed(s, dt)
<1> DEFINE f == DataFrame(s, c, i)
           id == decode(f.id).v
           made == IF rx[s] = {} THEN Err ELSE accept_dt(CHOOSE r \in rx[s] : TRUE, dt)
<1>1. s \in 0..253
  BY J1939Assumption
<1>2. id.source = s /\ id.pgn = Pgns.TP_DT /\ f.payload = DataPayload(c, i)
  <2> DEFINE x == FrameOf(s, Pgns.TP_DT, DataPayload(c, i))
  <2>1. f = x
    BY DEF DataFrame
  <2>2. Names(x, s, Pgns.TP_DT, DataPayload(c, i))
    BY <1>1, GroupNumbers, Identified
  <2> HIDE DEF x
  <2> QED
    BY <2>1, <2>2 DEF Names
<1>3. Pgns.TP_DT # Pgns.TP_CM
  BY GroupNumbers
<1> HIDE DEF f, id
<1>4. /\ made.ok => /\ rx' = [rx EXCEPT ![s] = {IF Completes(made.v) THEN Emptied(made.v) ELSE made.v}]
                    /\ got' = IF Completes(made.v) THEN got \cup {Message(s, made.v)} ELSE got
      /\ ~made.ok => rx' = [rx EXCEPT ![s] = {}] /\ got' = got
  BY <1>2, <1>3 DEF Hears, id, f
<1> HIDE DEF made
<1>5. CASE rx[s] = {}
  <2>1. made = Err
    BY <1>5 DEF made
  <2>2. ~made.ok
    BY <2>1 DEF Err
  <2> QED
    BY <1>4, <1>5, <2>2, Zenon DEF Fed
<1>6. ASSUME NEW r, rx[s] = {r} PROVE made = accept_dt(r, dt) /\ rx[s] # {}
  BY <1>6 DEF made
<1>7. ASSUME NEW r, rx[s] = {r}, ~InSequence(r, dt) PROVE rx' = [rx EXCEPT ![s] = {}] /\ got' = got
  <2>1. made = accept_dt(r, dt)
    BY <1>6, <1>7
  <2>2. accept_dt(r, dt) = Err
    BY <1>7, Zenon DEF accept_dt
  <2>3. ~made.ok
    BY <2>1, <2>2 DEF Err
  <2> QED
    BY <1>4, <2>3
<1>8. ASSUME NEW r, rx[s] = {r}, InSequence(r, dt)
      PROVE  /\ rx' = [rx EXCEPT ![s] = {Kept(accept_dt(r, dt).v)}]
             /\ got' = IF Completes(accept_dt(r, dt).v)
                       THEN got \cup {Message(s, accept_dt(r, dt).v)} ELSE got
  <2>1. made.ok /\ made = accept_dt(r, dt)
    <3>1. made = accept_dt(r, dt)
      BY <1>6, <1>8
    <3>2. accept_dt(r, dt).ok
      BY <1>8 DEF accept_dt, Ok
    <3> QED
      BY <3>1, <3>2
  <2> QED
    BY <1>4, <2>1 DEF Kept
<1> QED
  BY <1>5, <1>7, <1>8 DEF Fed
(***************************************************************************)
(* The invariant                                                           *)
(***************************************************************************)

\* The sources' frames and the tool's sessions.
TypeInv ==
    /\ out \in [Sources -> Seq(FrameSet)]
    /\ sending \in [Sources -> SUBSET Contents]
    /\ intact \in [Sources -> BOOLEAN]
    /\ rx \in [Sources -> SUBSET Sessions]

IsSent(s, c) == [source |-> s, pgn |-> c.pgn, v |-> c.v] \in sent

\* Source s is sending c, and p frames of it are gone.
At(s, c, a, p) ==
    /\ sending[s] = {c} /\ p \in 0..(FrameCount(c) - 1)
    /\ out[s] = After(Frames(s, c, a), p)

\* What a source still has to send is the rest of the message it announced.
Underway(s) ==
    /\ \A c \in sending[s] : IsSent(s, c)
    /\ out[s] # <<>> =>
          \E c \in Contents, a \in Announces : \E p \in 0..(FrameCount(c) - 1) : At(s, c, a, p)

\* There is at most one session with a source, and its numbers agree with its bytes.
Shape(r) ==
    /\ Len(r.payload) <= r.expected_size
    /\ r.run <= r.gap
    /\ r.made = 0 => /\ RequiredPackets(r.expected_size) = r.expected_packets
                     /\ r.next_sequence <= r.expected_packets
                     /\ Len(r.payload) = 7 * (r.next_sequence - 1)
    /\ r.made # 0 => r.expected_packets = SeqMax \/ r.next_sequence > r.expected_packets
OneSession(s) == (\A q, r \in rx[s] : q = r) /\ (\A r \in rx[s] : Shape(r))

\* A session of message c that holds c's first packets.
Holds(r, c) ==
    /\ Long(c) /\ r.made = 0 /\ r.pgn = c.pgn /\ r.expected_size = Len(Build(c))
    /\ r.payload = First(c, 7 * (r.next_sequence - 1))

\* The session's message is still being sent: packets between the one expected and the
\* next one to come were missed.
Own(s, r, c) ==
    \E a \in Announces : \E p \in 0..(FrameCount(c) - 1) :
        At(s, c, a, p) /\ p - r.next_sequence <= r.run

\* The rest of the session's message was missed, and what is gone of the next one.
Behind(s, r) ==
    \/ out[s] = <<>> /\ r.expected_packets - r.next_sequence < r.run
    \/ \E c \in Contents, a \in Announces : \E p \in 0..(FrameCount(c) - 1) :
          At(s, c, a, p) /\ r.expected_packets - r.next_sequence + p < r.run

\* A session that has not missed more frames in a row than it has packets holds the
\* first packets of a message of its source.
InStep(s) ==
    \A r \in rx[s] : r.made = 0 /\ r.gap <= r.expected_packets =>
        \E c \in Contents : IsSent(s, c) /\ Holds(r, c) /\ (Own(s, r, c) \/ Behind(s, r))

\* A message that nothing has happened to is held as far as it has been sent.
Delivered(s, c) ==
    \E m \in got : /\ m.source = s /\ m.pgn = c.pgn
                   /\ StartsWith(Padded(m.payload, 32), Build(c))
Kempt(s) ==
    intact[s] => \A c \in sending[s] :
        \/ out[s] = <<>> /\ Delivered(s, c)
        \/ \E a \in Announces : \E p \in 0..(FrameCount(c) - 1) :
              /\ At(s, c, a, p)
              /\ p = 0 \/ \E r \in rx[s] : Holds(r, c) /\ r.gap = 0 /\ r.next_sequence = p

Source(s) == Underway(s) /\ OneSession(s) /\ InStep(s) /\ Kempt(s)

IInv == TypeInv /\ (\A s \in Sources : Source(s)) /\ NoSplice /\ OncePerSession

\* A message that the tool has assembled is sound.
Sound(m) ==
    /\ (m.nth = 1 /\ m.gap <= m.packets) => WasSent(m)
    /\ m.nth > 1 => m.packets = SeqMax

(***************************************************************************)
(* Lemmas about the invariant                                              *)
(***************************************************************************)

\* What a byte string is padded to starts with it.
LEMMA PaddedStarts ==
    ASSUME NEW b \in Seq(Byte), NEW n \in Nat
    PROVE  Padded(b, n) \in Seq(Byte) /\ StartsWith(Padded(b, n), b)
<1> DEFINE f == Fill(n - Len(b), 255)
           p == b \o f
<1>1. f \in Seq(Byte)
  <2>1. CASE n - Len(b) \in Nat
    BY <2>1 DEF Fill, Byte
  <2>2. CASE ~(n - Len(b) \in Nat)
    <3>1. 1..(n - Len(b)) = {}
      BY <2>2
    <3>2. f \in [1..0 -> Byte]
      BY <3>1 DEF Fill
    <3>3. \A g \in [1..0 -> Byte] : g \in Seq(Byte)
      OBVIOUS
    <3> QED
      BY <3>2, <3>3
  <2> QED
    BY <2>1, <2>2
<1>2. p = Padded(b, n)
  BY DEF Padded
<1> HIDE DEF f
<1>3. Follows(p, b, Len(b), f, Len(f)) /\ Len(f) \in Nat /\ Len(b) \in Nat
  BY <1>1, BytesJoined
<1> HIDE DEF p
<1>4. p \in Seq(Byte) /\ Len(p) >= Len(b) /\ \A i \in 1..Len(b) : p[i] = b[i]
  BY <1>3 DEF Follows
<1>5. SubSeq(p, 1, Len(b)) = b
  <2> DEFINE u == SubSeq(p, 1, Len(b))
  <2>1. u \in Seq(Byte) /\ Len(u) = Len(b) /\ \A i \in 1..Len(b) : u[i] = p[i]
    BY <1>3, <1>4
  <2> HIDE DEF u
  <2>2. u = b
    BY <1>4, <2>1
  <2> QED
    BY <2>2 DEF u
<1> QED
  BY <1>2, <1>4, <1>5 DEF StartsWith

\* The payload of a whole message starts with the message.
LEMMA WholeStarts ==
    ASSUME NEW c \in Contents
    PROVE  /\ StartsWith(Padded(Build(c), 32), Build(c))
           /\ StartsWith(Padded(Padded(Build(c), 8), 32), Build(c))
<1> DEFINE b == Build(c)
           p == Padded(b, 8)
           q == Padded(p, 32)
<1>1. b \in Seq(Byte)
  BY ContentsAssumption
<1> HIDE DEF b
<1>2. StartsWith(Padded(b, 32), b) /\ p \in Seq(Byte) /\ StartsWith(p, b)
  BY <1>1, PaddedStarts
<1> HIDE DEF p
<1>3. q \in Seq(Byte) /\ StartsWith(q, p)
  BY <1>2, PaddedStarts
<1> HIDE DEF q
<1>4. StartsWith(q, b)
  <2>1. Len(q) >= Len(p) /\ Len(p) >= Len(b) /\ SubSeq(q, 1, Len(p)) = p /\ SubSeq(p, 1, Len(b)) = b
    BY <1>2, <1>3 DEF StartsWith
  <2>2. \A i \in 1..Len(p) : p[i] = q[i]
    BY <1>2, <1>3, <2>1
  <2>3. \A i \in 1..Len(b) : b[i] = p[i]
    BY <1>1, <1>2, <2>1
  <2>4. \A i \in 1..Len(b) : b[i] = q[i]
    BY <1>1, <1>2, <2>1, <2>2, <2>3
  <2> DEFINE u == SubSeq(q, 1, Len(b))
  <2>5. u \in Seq(Byte) /\ Len(u) = Len(b) /\ \A i \in 1..Len(b) : u[i] = q[i]
    BY <1>1, <1>2, <1>3, <2>1
  <2> HIDE DEF u
  <2>6. u = b
    BY <1>1, <2>4, <2>5
  <2> QED
    BY <1>1, <1>2, <1>3, <2>1, <2>6 DEF u, StartsWith
<1> QED
  BY <1>2, <1>4 DEF b, p, q

\* A message that holds what its source sent was sent.
LEMMA SentIsSent ==
    ASSUME NEW s, NEW c \in Contents, IsSent(s, c), NEW m, m.source = s, m.pgn = c.pgn,
           StartsWith(Padded(m.payload, 32), Build(c)), m.packets > 0 => m.payload = Build(c)
    PROVE  WasSent(m)
<1> DEFINE d == [source |-> s, pgn |-> c.pgn, v |-> c.v]
<1>1. d \in sent /\ d.source = s /\ d.pgn = c.pgn /\ d.v = c.v
  BY DEF IsSent
<1> HIDE DEF d
<1>2. Build(d) = Build(c)
  BY <1>1, Zenon DEF Build
<1> QED
  BY <1>1, <1>2 DEF WasSent

\* What a source has still to send starts with the next frame.
LEMMA NextFrame ==
    ASSUME NEW s \in Sources, NEW c \in Contents, NEW a \in Announces,
           NEW p \in 0..(FrameCount(c) - 1), At(s, c, a, p)
    PROVE  /\ out[s] # << >> /\ Len(out[s]) = FrameCount(c) - p
           /\ Head(out[s]) = Frames(s, c, a)[p + 1]
           /\ Tail(out[s]) = After(Frames(s, c, a), p + 1) /\ Tail(out[s]) \in Seq(FrameSet)
           /\ p = FrameCount(c) - 1 => Tail(out[s]) = << >>
<1> DEFINE F == Frames(s, c, a)
           n == FrameCount(c)
           o == SubSeq(F, p + 1, n)
<1>1. F \in Seq(FrameSet) /\ Len(F) = n /\ n \in Nat \ {0}
  BY FramesMade
<1>2. out[s] = o
  BY <1>1 DEF At, After
<1> HIDE DEF F, n
<1>3. p \in Nat /\ p < n
  BY <1>1 DEF n
<1>4. o \in Seq(FrameSet) /\ Len(o) = n - p /\ \A i \in 1..(n - p) : o[i] = F[p + i]
  BY <1>1, <1>3
<1>5. Head(o) = F[p + 1] /\ o # << >>
  BY <1>1, <1>3, <1>4
<1>6. Tail(o) = SubSeq(F, p + 2, n) /\ Tail(o) \in Seq(FrameSet) /\ Len(Tail(o)) = n - p - 1
  <2> DEFINE t == Tail(o)
             v == SubSeq(F, p + 2, n)
  <2>1. t \in Seq(FrameSet) /\ Len(t) = n - p - 1 /\ \A i \in 1..(n - p - 1) : t[i] = o[i + 1]
    <3>1. o \in Seq(FrameSet) /\ o # << >> /\ Len(o) = n - p
      BY <1>4, <1>5
    <3> HIDE DEF o
    <3> QED
      BY <1>1, <1>3, <3>1
  <2>2. v \in Seq(FrameSet) /\ Len(v) = n - p - 1 /\ \A i \in 1..(n - p - 1) : v[i] = F[p + 1 + i]
    BY <1>1, <1>3
  <2> HIDE DEF t, v
  <2>3. ASSUME NEW i \in 1..(n - p - 1) PROVE t[i] = v[i]
    <3>1. i + 1 \in 1..(n - p) /\ p + (i + 1) = p + 1 + i
      BY <1>1, <1>3
    <3>2. t[i] = o[i + 1] /\ o[i + 1] = F[p + (i + 1)] /\ v[i] = F[p + 1 + i]
      BY <1>4, <2>1, <2>2, <3>1
    <3> QED
      BY <3>1, <3>2
  <2>4. t = v
    BY <2>1, <2>2, <2>3
  <2> QED
    BY <2>1, <2>4 DEF t, v
<1>7. After(F, p + 1) = SubSeq(F, p + 2, n)
  BY <1>1, <1>3 DEF After
<1>8. p = n - 1 => Tail(o) = << >>
  BY <1>1, <1>3, <1>6
<1> QED
  BY <1>2, <1>4, <1>5, <1>6, <1>7, <1>8 DEF F, n

\* A source is at one place of one message.
LEMMA OneAt ==
    ASSUME NEW s \in Sources, NEW c \in Contents, NEW a \in Announces,
           NEW p \in 0..(FrameCount(c) - 1), At(s, c, a, p)
    PROVE  \A d \in Contents, b \in Announces : \A q \in 0..(FrameCount(d) - 1) :
              At(s, d, b, q) => d = c /\ q = p
<1> SUFFICES ASSUME NEW d \in Contents, NEW b \in Announces, NEW q \in 0..(FrameCount(d) - 1),
                    At(s, d, b, q)
             PROVE  d = c /\ q = p
  OBVIOUS
<1>1. d = c
  BY DEF At
<1>2. Len(out[s]) = FrameCount(c) - p /\ Len(out[s]) = FrameCount(c) - q
  BY <1>1, NextFrame
<1>3. FrameCount(c) \in Nat
  BY FramesMade
<1> QED
  BY <1>1, <1>2, <1>3

\* a is session r with the bytes it takes of packet dt.
Grows(r, dt, a) ==
    /\ Take(r) \in 0..7
    /\ a.payload = r.payload \o Slice(dt.data, 0, Take(r))
    /\ a.pgn = r.pgn /\ a.expected_packets = r.expected_packets
    /\ a.made = r.made /\ a.gap = r.gap
    /\ Kept(a) \in Sessions /\ Shape(Kept(a))
    /\ Kept(a).pgn = r.pgn /\ Kept(a).expected_size = r.expected_size
    /\ Kept(a).expected_packets = r.expected_packets /\ Kept(a).gap = r.gap
    /\ r.made = 0 => /\ Take(r) = IF r.next_sequence < r.expected_packets THEN 7
                                  ELSE r.expected_size - 7 * (r.expected_packets - 1)
                     /\ Completes(a) <=> r.next_sequence = r.expected_packets
    /\ Kept(a).made = 0 => /\ r.made = 0 /\ ~Completes(a) /\ Kept(a) = a
                           /\ a.next_sequence = r.next_sequence + 1
    /\ r.made # 0 => r.expected_packets = SeqMax

\* What a session becomes by the packet it expects.
LEMMA Accepted ==
    ASSUME NEW r \in Sessions, Shape(r), NEW dt, InSequence(r, dt), dt.data \in Seq(Byte),
           Len(dt.data) = 7, NEW a, a = accept_dt(r, dt).v
    PROVE  Grows(r, dt, a)
<1> DEFINE k == Take(r)
           piece == Slice(dt.data, 0, k)
           n == r.next_sequence
           N == r.expected_packets
           z == r.expected_size
           l == Len(r.payload)
           y == r.payload \o piece
           g == NextSequence(n)
<1>1. /\ n \in 1..SeqMax /\ N \in 1..SeqMax /\ SeqMax \in Nat /\ z \in Nat \ {0} /\ n <= N
      /\ r.payload \in Seq(Byte) /\ l \in Nat /\ l <= z /\ r.pgn \in Nat
      /\ r.made \in Nat /\ r.run \in Nat /\ r.gap \in Nat
  <2>1. SeqMax \in 1..255 /\ n <= N
    BY J1939Assumption DEF InSequence
  <2> QED
    BY <2>1 DEF Sessions, Shape
<1>2. k = (IF z - l < 7 THEN z - l ELSE 7) /\ k \in 0..7 /\ l + k <= z
  <2>1. k = IF z - l < 7 THEN z - l ELSE 7
    BY Zenon DEF Take, TP_PACKET_DATA_LEN
  <2> HIDE DEF k, z, l
  <2> QED
    BY <1>1, <2>1
<1>3. piece \in Seq(Byte) /\ Len(piece) = k
  <2>1. k \in 0..7
    BY <1>2
  <2> HIDE DEF k
  <2> QED
    BY <2>1 DEF Slice
<1>4. y \in Seq(Byte) /\ Len(y) = l + k
  <2>1. r.payload \in Seq(Byte) /\ piece \in Seq(Byte)
    BY <1>1, <1>3
  <2>2. y \in Seq(Byte) /\ Len(y) = l + Len(piece)
    BY ONLY <2>1, Joined DEF y, l
  <2> QED
    BY <1>3, <2>2
<1>5. g = (IF n < SeqMax THEN n + 1 ELSE n) /\ g \in 1..SeqMax
  BY <1>1 DEF NextSequence
<1>6. a = [pgn |-> r.pgn, expected_size |-> z, expected_packets |-> N, next_sequence |-> g,
           payload |-> y, made |-> r.made, run |-> 0, gap |-> r.gap]
  <2>1. r = [pgn |-> r.pgn, expected_size |-> z, expected_packets |-> N, next_sequence |-> n,
             payload |-> r.payload, made |-> r.made, run |-> r.run, gap |-> r.gap]
    BY DEF Sessions
  <2> DEFINE a1 == [r EXCEPT !.payload = y]
             a2 == [a1 EXCEPT !.next_sequence = g]
             a3 == [a2 EXCEPT !.run = 0]
  <2>2. a = [r EXCEPT !.payload = @ \o Slice(dt.data, 0, Take(r)),
                      !.next_sequence = NextSequence(@), !.run = 0]
    BY DEF accept_dt, Ok
  <2>3. a = a3
    BY <2>2, Zenon
  <2> HIDE DEF n, N, z, l, y, g, k, a3, a2
  <2>4. a1 = [pgn |-> r.pgn, expected_size |-> z, expected_packets |-> N, next_sequence |-> n,
              payload |-> y, made |-> r.made, run |-> r.run, gap |-> r.gap]
    BY <2>1
  <2> HIDE DEF a1
  <2>5. a2 = [pgn |-> r.pgn, expected_size |-> z, expected_packets |-> N, next_sequence |-> g,
              payload |-> y, made |-> r.made, run |-> r.run, gap |-> r.gap]
    BY <2>4 DEF a2
  <2>6. a3 = [pgn |-> r.pgn, expected_size |-> z, expected_packets |-> N, next_sequence |-> g,
              payload |-> y, made |-> r.made, run |-> 0, gap |-> r.gap]
    BY <2>5 DEF a3
  <2> QED
    BY <2>3, <2>6
<1>7. Completes(a) <=> l + k = z
  <2> HIDE DEF y, z, g, l, k, n, N
  <2>1. a.payload = y /\ a.expected_size = z
    BY <1>6
  <2> QED
    BY <1>4, <2>1 DEF Completes
<1> DEFINE e == [pgn |-> r.pgn, expected_size |-> z, expected_packets |-> N, next_sequence |-> g,
                 payload |-> << >>, made |-> r.made + 1, run |-> 0, gap |-> r.gap]
<1>8. Emptied(a) = e
  <2> DEFINE e1 == [a EXCEPT !.payload = << >>]
             e2 == [e1 EXCEPT !.made = r.made + 1]
  <2> HIDE DEF n, N, z, l, y, g, k, e2, e
  <2>1. e1 = [pgn |-> r.pgn, expected_size |-> z, expected_packets |-> N, next_sequence |-> g,
              payload |-> << >>, made |-> r.made, run |-> 0, gap |-> r.gap]
    BY <1>6
  <2>2. Emptied(a) = e2
    <3>1. a.made = r.made
      BY <1>6
    <3> QED
      BY <3>1 DEF Emptied, e2
  <2> HIDE DEF e1
  <2>3. e2 = e
    BY <2>1 DEF e, e2
  <2> QED
    BY <2>2, <2>3
<1> HIDE DEF k, piece, y, g
<1>9. /\ Kept(a) \in Sessions /\ Kept(a).pgn = r.pgn /\ Kept(a).expected_size = z
      /\ Kept(a).expected_packets = N /\ Kept(a).gap = r.gap
  <2>1. CASE Completes(a)
    <3>1. Kept(a) = e
      BY <1>8, <2>1 DEF Kept
    <3> HIDE DEF n, N, z, l
    <3>2. e \in Sessions
      BY <1>1, <1>5 DEF Sessions, N, z
    <3> QED
      BY <3>1, <3>2
  <2>2. CASE ~Completes(a)
    <3>1. Kept(a) = a
      BY <2>2 DEF Kept
    <3>2. a \in Sessions
      BY <1>1, <1>4, <1>5, <1>6 DEF Sessions
    <3> QED
      BY <1>6, <3>1, <3>2
  <2> QED
    BY <2>1, <2>2
<1>10. ASSUME r.made = 0
       PROVE  /\ k = IF n < N THEN 7 ELSE z - 7 * (N - 1)
              /\ (l + k = z) <=> n = N
              /\ l + k = z \/ l + k = 7 * n
  <2>1. RequiredPackets(z) = N /\ l = 7 * (n - 1)
    BY <1>10 DEF Shape
  <2>2. 7 * (N - 1) < z /\ z <= 7 * N
    <3> HIDE DEF N, z
    <3>1. z \in Nat /\ z > 0
      BY <1>1
    <3> QED
      BY <2>1, <3>1, Packeted
  <2> HIDE DEF n, N, z, l
  <2>3. n \in Nat /\ N \in Nat /\ z \in Nat /\ l \in Nat
    BY <1>1
  <2>4. CASE n < N
    <3>1. 7 * n <= 7 * (N - 1)
      BY <2>3, <2>4
    <3>2. z - l >= 7 /\ l + 7 # z /\ l + 7 = 7 * n
      BY <2>1, <2>2, <2>3, <3>1
    <3>3. k = 7
      BY <1>2, <2>3, <3>2
    <3> QED
      BY <2>3, <2>4, <3>2, <3>3
  <2>5. CASE n = N
    <3>1. z - l <= 7
      BY <2>1, <2>2, <2>3, <2>5
    <3>2. k = z - l
      BY <1>2, <2>3, <3>1
    <3> QED
      BY <2>1, <2>3, <2>5, <3>2
  <2> QED
    BY <1>1, <2>3, <2>4, <2>5
<1>11. r.made # 0 => N = SeqMax
  BY <1>1 DEF Shape
<1>12. ASSUME Kept(a).made = 0
       PROVE  r.made = 0 /\ ~Completes(a) /\ Kept(a) = a /\ a.next_sequence = n + 1 /\ n < N
  <2>1. ~Completes(a)
    <3> SUFFICES ASSUME Completes(a) PROVE FALSE
      OBVIOUS
    <3>1. Kept(a).made = r.made + 1
      BY <1>8 DEF Kept
    <3> QED
      BY <1>1, <1>12, <3>1
  <2>2. Kept(a) = a /\ r.made = 0
    BY <1>6, <1>12, <2>1 DEF Kept
  <2>3. n < N
    BY <1>1, <1>7, <1>10, <2>1, <2>2
  <2>4. g = n + 1
    BY <1>1, <1>5, <2>3
  <2> QED
    BY <1>6, <2>1, <2>2, <2>3, <2>4
<1>13. Shape(Kept(a))
  <2>1. CASE Completes(a)
    <3>1. Kept(a) = e
      BY <1>8, <2>1 DEF Kept
    <3>2. r.made + 1 # 0
      BY <1>1
    <3>3. N = SeqMax \/ g > N
      <4>1. CASE r.made # 0
        BY <1>11, <4>1
      <4>2. CASE r.made = 0
        <5>1. n = N
          BY <1>7, <1>10, <2>1, <4>2
        <5> QED
          BY <1>1, <1>5, <5>1
      <4> QED
        BY <4>1, <4>2
    <3> HIDE DEF n, N, z, l
    <3> QED
      BY <1>1, <3>1, <3>2, <3>3 DEF Shape
  <2>2. CASE ~Completes(a)
    <3>1. Kept(a) = a
      BY <2>2 DEF Kept
    <3>2. CASE r.made = 0
      <4>1. n < N /\ l + k = 7 * n
        BY <1>1, <1>7, <1>10, <2>2, <3>2
      <4>2. g = n + 1 /\ RequiredPackets(z) = N
        BY <1>1, <1>5, <3>2, <4>1 DEF Shape
      <4> HIDE DEF n, N, z, l
      <4>3. g <= N /\ l + k = 7 * (g - 1)
        <5>1. n \in Nat /\ N \in Nat
          BY <1>1
        <5> QED
          BY <4>1, <4>2, <5>1
      <4>4. Len(y) <= z /\ 0 <= r.gap
        BY <1>1, <1>2, <1>4
      <4> QED
        BY <1>4, <1>6, <3>1, <3>2, <4>2, <4>3, <4>4 DEF Shape
    <3>3. CASE r.made # 0
      <4> HIDE DEF n, N, z, l
      <4>1. Len(y) <= z /\ 0 <= r.gap /\ N = SeqMax
        BY <1>1, <1>2, <1>4, <1>11, <3>3
      <4> QED
        BY <1>6, <3>1, <3>3, <4>1 DEF Shape
    <3> QED
      BY <3>2, <3>3
  <2> QED
    BY <2>1, <2>2
<1>14. /\ a.payload = r.payload \o Slice(dt.data, 0, Take(r)) /\ a.pgn = r.pgn
       /\ a.expected_packets = r.expected_packets /\ a.made = r.made /\ a.gap = r.gap
  <2>1. y = r.payload \o Slice(dt.data, 0, Take(r))
    BY DEF y, piece, k
  <2> HIDE DEF n, z, N
  <2>2. a.payload = y /\ a.pgn = r.pgn /\ a.expected_packets = N /\ a.made = r.made /\ a.gap = r.gap
    BY <1>6
  <2> QED
    BY <2>1, <2>2, Zenon DEF N
<1>15. r.made = 0 => /\ k = IF n < N THEN 7 ELSE z - 7 * (N - 1)
                     /\ Completes(a) <=> n = N
  BY <1>7, <1>10
<1> QED
  BY <1>2, <1>9, <1>11, <1>12, <1>13, <1>14, <1>15 DEF k, Grows

\* What the tool has made of frame p of message c: the sessions and messages it is left
\* with, whatever the session with that source was.
Heard(s, c, p) ==
    /\ \E X \in SUBSET Sessions : rx' = [rx EXCEPT ![s] = X]
    /\ OneSession(s)'
    /\ got \subseteq got' /\ \A m \in got' : m \in got \/ Sound(m)
    /\ \A r \in rx'[s] : r.made = 0 /\ r.gap <= r.expected_packets =>
          \E d \in Contents :
             /\ IsSent(s, d) /\ Holds(r, d)
             /\ \/ d = c /\ r.next_sequence = p + 1
                \/ r.expected_packets - r.next_sequence < r.run /\ p = 0 /\ ~Long(c)
    /\ intact[s] =>
          /\ p = FrameCount(c) - 1 => Delivered(s, c)'
          /\ p < FrameCount(c) - 1 =>
                \E r \in rx'[s] : Holds(r, c) /\ r.gap = 0 /\ r.next_sequence = p + 1

\* The message of one frame.
LEMMA ShortHeard ==
    ASSUME TypeInv, NEW s \in Sources, Source(s), NEW c \in Contents, NEW a \in Announces,
           At(s, c, a, 0), ~Long(c), 0 \in 0..(FrameCount(c) - 1), Hears(Head(out[s]))
    PROVE  Heard(s, c, 0)
<1>1. Head(out[s]) = ShortFrame(s, c) /\ out[s] # << >>
  BY NextFrame, FramesMade
<1>2. rx' = rx /\ got' = got \cup {Single(s, c)}
  BY <1>1, HearsShort
<1> DEFINE m == Single(s, c)
<1>3. /\ m.source = s /\ m.pgn = c.pgn /\ m.payload = Padded(Build(c), 8) /\ m.nth = 1 /\ m.gap = 0
      /\ m.packets = 0
  BY DEF Single
<1> HIDE DEF m
<1>4. IsSent(s, c)
  BY DEF Source, Underway, At
<1>5. StartsWith(Padded(m.payload, 32), Build(c))
  BY <1>3, WholeStarts
<1>6. Sound(m)
  <2>1. WasSent(m)
    BY <1>3, <1>4, <1>5, SentIsSent
  <2> QED
    BY <1>3, <2>1 DEF Sound
<1>7. \E X \in SUBSET Sessions : rx' = [rx EXCEPT ![s] = X]
  <2>1. rx' = [rx EXCEPT ![s] = rx[s]] /\ rx[s] \in SUBSET Sessions
    BY <1>2 DEF TypeInv
  <2> QED
    BY <2>1
<1>8. OneSession(s)'
  BY <1>2 DEF Source, OneSession
<1>9. got \subseteq got' /\ \A x \in got' : x \in got \/ Sound(x)
  BY <1>2, <1>6 DEF m
<1>10. ASSUME NEW r \in rx'[s], r.made = 0 /\ r.gap <= r.expected_packets
       PROVE  \E d \in Contents :
                 /\ IsSent(s, d) /\ Holds(r, d)
                 /\ r.expected_packets - r.next_sequence < r.run /\ 0 = 0 /\ ~Long(c)
  <2>1. PICK d \in Contents : IsSent(s, d) /\ Holds(r, d) /\ (Own(s, r, d) \/ Behind(s, r))
    BY <1>2, <1>10 DEF Source, InStep
  <2>2. ~Own(s, r, d)
    <3> SUFFICES ASSUME Own(s, r, d) PROVE FALSE
      OBVIOUS
    <3>1. d = c
      BY OneAt DEF Own
    <3> QED
      BY <2>1, <3>1 DEF Holds
  <2>3. r.expected_packets - r.next_sequence + 0 < r.run
    BY <1>1, <2>1, <2>2, OneAt DEF Behind
  <2>4. r \in Sessions
    BY <1>2 DEF TypeInv
  <2>5. r.expected_packets - r.next_sequence < r.run
    BY <2>3, <2>4, J1939Assumption DEF Sessions
  <2> QED
    BY <2>1, <2>5
<1>11. Delivered(s, c)'
  BY <1>2, <1>3, <1>5 DEF Delivered, m
<1>12. FrameCount(c) - 1 = 0
  BY DEF FrameCount
<1>13. \A r \in rx'[s] : r.made = 0 /\ r.gap <= r.expected_packets =>
          \E d \in Contents :
             /\ IsSent(s, d) /\ Holds(r, d)
             /\ \/ d = c /\ r.next_sequence = 0 + 1
                \/ r.expected_packets - r.next_sequence < r.run /\ 0 = 0 /\ ~Long(c)
  BY <1>10, Zenon
<1>14. ~(0 < FrameCount(c) - 1)
  BY <1>12
<1> QED
  BY <1>7, <1>8, <1>9, <1>11, <1>13, <1>14, Zenon DEF Heard

\* An announcement.
LEMMA ControlHeard ==
    ASSUME TypeInv, NEW s \in Sources, Source(s), NEW c \in Contents, NEW a \in Announces,
           At(s, c, a, 0), Long(c), 0 \in 0..(FrameCount(c) - 1), Hears(Head(out[s]))
    PROVE  Heard(s, c, 0)
<1>1. Head(out[s]) = ControlFrame(s, c, a)
  BY NextFrame, FramesMade
<1> DEFINE o == Opened(c)
<1>2. rx' = [rx EXCEPT ![s] = {o}] /\ got' = got
  BY <1>1, HearsControl
<1>3. /\ o.pgn = c.pgn /\ o.expected_size = Len(Build(c)) /\ o.expected_packets = Count(c)
      /\ o.next_sequence = 1 /\ o.payload = << >> /\ o.made = 0 /\ o.run = 0 /\ o.gap = 0
  BY DEF Opened
<1>4. /\ c.pgn \in Sendable /\ Build(c) \in Seq(Byte) /\ Count(c) \in 1..SeqMax
      /\ Len(Build(c)) \in Nat \ {0} /\ RequiredPackets(Len(Build(c))) = Count(c)
  BY LongFits DEF Long, Count
<1>5. o \in Sessions
  <2>1. SeqMax \in 1..255 /\ c.pgn \in Nat
    BY <1>4, J1939Assumption DEF Sendable
  <2> QED
    BY <1>4, <2>1 DEF Opened, Sessions
<1>6. rx'[s] = {o}
  BY <1>2 DEF TypeInv
<1>7. Shape(o)
  BY <1>3, <1>4, J1939Assumption DEF Shape
<1>8. Holds(o, c)
  <2>1. First(c, 0) = << >>
    BY <1>4 DEF First, Slice
  <2>2. 7 * (1 - 1) = 0
    OBVIOUS
  <2> QED
    BY <1>3, <2>1, <2>2 DEF Holds
<1> HIDE DEF o
<1>9. IsSent(s, c)
  BY DEF Source, Underway, At
<1>10. OneSession(s)'
  BY <1>6, <1>7 DEF OneSession
<1>11. FrameCount(c) - 1 # 0
  BY <1>4, J1939Assumption DEF FrameCount
<1>12. 1 = 0 + 1
  OBVIOUS
<1>13. \E X \in SUBSET Sessions : rx' = [rx EXCEPT ![s] = X]
  BY <1>2, <1>5
<1>14. \A r \in rx'[s] : IsSent(s, c) /\ Holds(r, c) /\ r.next_sequence = 0 + 1
  BY <1>3, <1>6, <1>8, <1>9, <1>12
<1>15. \E r \in rx'[s] : Holds(r, c) /\ r.gap = 0 /\ r.next_sequence = 0 + 1
  BY <1>3, <1>6, <1>8, <1>12
<1> QED
  BY <1>2, <1>10, <1>11, <1>13, <1>14, <1>15 DEF Heard

\* A packet, whatever session it meets.
LEMMA DataHeard ==
    ASSUME TypeInv, NEW s \in Sources, Source(s), NEW c \in Contents, NEW a \in Announces,
           NEW p \in 0..(FrameCount(c) - 1), p # 0, At(s, c, a, p), Hears(Head(out[s]))
    PROVE  Heard(s, c, p)
<1> DEFINE n == Count(c)
           dt == dt_parse(DataPayload(c, p)).v
<1>1. Long(c) /\ n \in 1..SeqMax /\ SeqMax \in Nat /\ p \in 1..n /\ p \in Nat /\ n \in Nat
  <2>1. Long(c)
    BY DEF FrameCount
  <2>2. n \in 1..SeqMax /\ SeqMax \in Nat
    BY <2>1, LongFits, J1939Assumption
  <2> QED
    BY <2>1, <2>2 DEF FrameCount
<1>2. FrameCount(c) - 1 = n
  BY <1>1 DEF FrameCount
<1>3. out[s] # << >> /\ Head(out[s]) = DataFrame(s, c, p)
  <2>1. out[s] # << >> /\ Head(out[s]) = Frames(s, c, a)[p + 1]
    BY NextFrame
  <2>2. \A i \in 1..n : Frames(s, c, a)[i + 1] = DataFrame(s, c, i)
    BY <1>1, FramesMade
  <2> QED
    BY <1>1, <2>1, <2>2
<1>4. /\ dt.sequence = p /\ dt.data \in Seq(Byte) /\ Len(dt.data) = 7
      /\ Slice(dt.data, 0, Filled(c, p)) = Piece(c, p)
  BY <1>1, DataRead DEF Carries
<1> HIDE DEF dt
<1>5. /\ rx[s] = {} => rx' = [rx EXCEPT ![s] = {}] /\ got' = got
      /\ \A r : rx[s] = {r} /\ ~InSequence(r, dt) => rx' = [rx EXCEPT ![s] = {}] /\ got' = got
      /\ \A r : rx[s] = {r} /\ InSequence(r, dt) =>
            /\ rx' = [rx EXCEPT ![s] = {Kept(accept_dt(r, dt).v)}]
            /\ got' = IF Completes(accept_dt(r, dt).v)
                      THEN got \cup {Message(s, accept_dt(r, dt).v)} ELSE got
  <2>1. Hears(DataFrame(s, c, p)) /\ dt = dt_parse(DataPayload(c, p)).v
    BY <1>3 DEF dt
  <2>2. Fed(s, dt)
    BY <1>1, <2>1, HearsData
  <2> QED
    BY <2>2, Zenon DEF Fed
<1>6. IsSent(s, c)
  BY DEF Source, Underway, At
<1>7. rx[s] = {} \/ \E r \in Sessions : rx[s] = {r} /\ Shape(r)
  BY DEF TypeInv, Source, OneSession
\* A message that nothing has happened to is held by the session up to here.
<1>8. intact[s] => \E r \in rx[s] : Holds(r, c) /\ r.gap = 0 /\ r.next_sequence = p
  <2> SUFFICES ASSUME intact[s] PROVE \E r \in rx[s] : Holds(r, c) /\ r.gap = 0 /\ r.next_sequence = p
    OBVIOUS
  <2>1. PICK b \in Announces : \E q \in 0..(FrameCount(c) - 1) :
           /\ At(s, c, b, q)
           /\ q = 0 \/ \E r \in rx[s] : Holds(r, c) /\ r.gap = 0 /\ r.next_sequence = q
    BY <1>3 DEF Source, Kempt, At
  <2>2. PICK q \in 0..(FrameCount(c) - 1) :
           /\ At(s, c, b, q)
           /\ q = 0 \/ \E r \in rx[s] : Holds(r, c) /\ r.gap = 0 /\ r.next_sequence = q
    BY <2>1
  <2>3. q = p
    BY <2>2, OneAt
  <2> QED
    BY <2>2, <2>3
<1>9. ASSUME NEW r \in Sessions, Shape(r), Holds(r, c), r.next_sequence = p PROVE InSequence(r, dt)
  <2>1. r.made = 0 /\ r.expected_size = Len(Build(c))
    BY <1>9 DEF Holds
  <2>2. r.next_sequence <= r.expected_packets
    BY <1>9, <2>1 DEF Shape
  <2> QED
    BY <1>4, <1>9, <2>2 DEF InSequence
<1>10. CASE rx[s] = {} \/ \E r : rx[s] = {r} /\ ~InSequence(r, dt)
  <2>1. rx' = [rx EXCEPT ![s] = {}] /\ got' = got
    BY <1>5, <1>10
  <2>2. rx'[s] = {}
    BY <2>1 DEF TypeInv
  <2>3. ~intact[s]
    <3> SUFFICES ASSUME intact[s] PROVE FALSE
      OBVIOUS
    <3>1. PICK r \in rx[s] : Holds(r, c) /\ r.next_sequence = p
      BY <1>8
    <3>2. r \in Sessions /\ Shape(r) /\ rx[s] = {r}
      BY <1>7, <3>1
    <3>3. InSequence(r, dt)
      BY <1>9, <3>1, <3>2
    <3> QED
      BY <1>10, <3>2, <3>3
  <2>4. OneSession(s)'
    BY <2>2 DEF OneSession
  <2>5. \E X \in SUBSET Sessions : rx' = [rx EXCEPT ![s] = X]
    BY <2>1
  <2> QED
    BY <2>1, <2>2, <2>3, <2>4, <2>5 DEF Heard
<1>11. ASSUME NEW r \in Sessions, rx[s] = {r}, Shape(r), InSequence(r, dt) PROVE Heard(s, c, p)
  <2> DEFINE x == accept_dt(r, dt).v
             k == Kept(x)
             m == Message(s, x)
  <2>1. rx' = [rx EXCEPT ![s] = {k}] /\ got' = IF Completes(x) THEN got \cup {m} ELSE got
    BY <1>5, <1>11
  <2>2. r.next_sequence = p /\ p <= r.expected_packets
    BY <1>4, <1>11 DEF InSequence
  <2>3. /\ Take(r) \in 0..7 /\ x.payload = r.payload \o Slice(dt.data, 0, Take(r))
        /\ x.pgn = r.pgn /\ x.expected_packets = r.expected_packets
        /\ x.made = r.made /\ x.gap = r.gap
        /\ k \in Sessions /\ Shape(k) /\ k.pgn = r.pgn /\ k.expected_size = r.expected_size
        /\ k.expected_packets = r.expected_packets /\ k.gap = r.gap
        /\ r.made = 0 => /\ Take(r) = IF r.next_sequence < r.expected_packets THEN 7
                                      ELSE r.expected_size - 7 * (r.expected_packets - 1)
                         /\ Completes(x) <=> r.next_sequence = r.expected_packets
        /\ k.made = 0 => r.made = 0 /\ ~Completes(x) /\ k = x /\ x.next_sequence = r.next_sequence + 1
        /\ r.made # 0 => r.expected_packets = SeqMax
    <3>1. Grows(r, dt, x)
      BY <1>4, <1>11, Accepted
    <3> HIDE DEF x
    <3> QED
      BY <3>1, Zenon DEF Grows
  <2>4. m.source = s /\ m.pgn = r.pgn /\ m.payload = x.payload /\ m.nth = r.made + 1 /\ m.gap = r.gap
        /\ m.packets = r.expected_packets
    BY <2>3 DEF Message
  <2>5. /\ r.expected_packets \in Nat /\ r.made \in Nat /\ r.run \in Nat /\ r.gap \in Nat
        /\ r.run <= r.gap
    BY <1>1, <1>11 DEF Sessions, Shape
  <2> HIDE DEF x, k, m
  \* A session of this very message grows by the packet.
  <2>6. ASSUME Holds(r, c)
        PROVE  /\ r.expected_packets = n
               /\ Completes(x) <=> p = n
               /\ x.payload = IF p < n THEN First(c, 7 * p) ELSE Build(c)
    <3>1. r.made = 0 /\ r.expected_size = Len(Build(c)) /\ r.payload = First(c, 7 * (p - 1))
      BY <2>2, <2>6 DEF Holds
    <3>2. r.expected_packets = n
      BY <1>11, <3>1 DEF Shape, Count
    <3>3. Take(r) = Filled(c, p)
      BY <2>2, <2>3, <3>1, <3>2 DEF Filled
    <3>4. x.payload = First(c, 7 * (p - 1)) \o Piece(c, p)
      BY <1>4, <2>3, <3>1, <3>3
    <3>5. First(c, 7 * (p - 1)) \o Piece(c, p) = IF p < n THEN First(c, 7 * p) ELSE Build(c)
      BY <1>1, Grown
    <3> QED
      BY <2>2, <2>3, <3>1, <3>2, <3>4, <3>5
  \* A session in step is this message's.
  <2>7. ASSUME r.made = 0, r.gap <= r.expected_packets PROVE Holds(r, c)
    <3>1. PICK d \in Contents : IsSent(s, d) /\ Holds(r, d) /\ (Own(s, r, d) \/ Behind(s, r))
      BY <1>11, <2>7 DEF Source, InStep
    <3>2. ~Behind(s, r)
      <4> SUFFICES ASSUME Behind(s, r) PROVE FALSE
        OBVIOUS
      <4>1. r.expected_packets - r.next_sequence + p < r.run
        BY <1>3, OneAt DEF Behind
      <4> QED
        BY <1>1, <2>2, <2>5, <2>7, <4>1
    <3>3. d = c
      BY <3>1, <3>2, OneAt DEF Own
    <3> QED
      BY <3>1, <3>3
  <2>8. Completes(x) => Sound(m)
    <3> SUFFICES ASSUME Completes(x) PROVE Sound(m)
      OBVIOUS
    <3>1. ASSUME m.nth = 1 /\ m.gap <= m.packets PROVE WasSent(m)
      <4>1. r.made = 0 /\ r.gap <= r.expected_packets
        BY <2>4, <2>5, <3>1
      <4>2. Holds(r, c)
        BY <2>7, <4>1
      <4>3. m.payload = Build(c) /\ m.pgn = c.pgn
        <5>1. p = n
          BY <2>6, <4>2
        <5> QED
          BY <1>1, <2>4, <2>6, <4>2, <5>1 DEF Holds
      <4>4. StartsWith(Padded(m.payload, 32), Build(c))
        BY <4>3, WholeStarts
      <4> QED
        BY <1>6, <2>4, <4>3, <4>4, SentIsSent
    <3>2. m.nth > 1 => m.packets = SeqMax
      BY <2>3, <2>4, <2>5
    <3> QED
      BY <3>1, <3>2 DEF Sound
  <2>9. rx'[s] = {k}
    BY <2>1 DEF TypeInv
  <2>10. OneSession(s)'
    BY <2>3, <2>9 DEF OneSession
  <2>11. \E X \in SUBSET Sessions : rx' = [rx EXCEPT ![s] = X]
    <3>1. {k} \in SUBSET Sessions
      BY <2>3
    <3> QED
      BY <2>1, <3>1
  <2>12. ASSUME Holds(r, c), k.made = 0 PROVE Holds(k, c) /\ k.next_sequence = p + 1 /\ p < n
    <3>1. r.made = 0 /\ ~Completes(x) /\ k = x /\ x.next_sequence = p + 1
      BY <2>2, <2>3, <2>12
    <3>2. p < n
      BY <1>1, <2>6, <2>12, <3>1
    <3>3. k.payload = First(c, 7 * (k.next_sequence - 1))
      <4>1. (p + 1) - 1 = p
        BY <1>1
      <4> QED
        BY <2>6, <2>12, <3>1, <3>2, <4>1
    <3>4. k.pgn = c.pgn /\ k.expected_size = Len(Build(c))
      BY <2>3, <2>12 DEF Holds
    <3> QED
      BY <1>1, <2>12, <3>1, <3>2, <3>3, <3>4 DEF Holds
  <2>13. ASSUME NEW q \in rx'[s], q.made = 0 /\ q.gap <= q.expected_packets
         PROVE  \E d \in Contents : IsSent(s, d) /\ Holds(q, d) /\ d = c /\ q.next_sequence = p + 1
    <3>1. q = k
      BY <2>9, <2>13
    <3>2. r.made = 0 /\ r.gap <= r.expected_packets
      BY <2>3, <2>13, <3>1
    <3>3. Holds(r, c)
      BY <2>7, <3>2
    <3>4. k.made = 0
      BY <2>13, <3>1
    <3> QED
      BY <1>6, <2>12, <3>1, <3>3, <3>4
  <2>14. intact[s] => Holds(r, c) /\ r.gap = 0
    BY <1>8, <1>11
  <2>15. ASSUME intact[s], p = FrameCount(c) - 1 PROVE Delivered(s, c)'
    <3>1. Holds(r, c) /\ Completes(x)
      BY <1>2, <2>6, <2>14, <2>15
    <3>2. m.payload = Build(c) /\ m.pgn = c.pgn /\ m.source = s
      BY <1>1, <1>2, <2>4, <2>6, <2>15, <3>1 DEF Holds
    <3>3. m \in got'
      BY <2>1, <3>1
    <3>4. StartsWith(Padded(m.payload, 32), Build(c))
      BY <3>2, WholeStarts
    <3> QED
      BY <3>2, <3>3, <3>4 DEF Delivered
  <2>16. ASSUME intact[s], p < FrameCount(c) - 1
         PROVE  \E q \in rx'[s] : Holds(q, c) /\ q.gap = 0 /\ q.next_sequence = p + 1
    <3>1. Holds(r, c) /\ r.gap = 0
      BY <2>14, <2>16
    <3>2. ~Completes(x)
      BY <1>1, <1>2, <2>6, <2>16, <3>1
    <3>3. k.made = 0
      <4>1. k = x
        BY <3>2 DEF k, Kept
      <4> QED
        BY <2>3, <3>1, <4>1 DEF Holds
    <3> QED
      BY <2>3, <2>9, <2>12, <3>1, <3>3
  <2>17. \A q \in rx'[s] : q.made = 0 /\ q.gap <= q.expected_packets =>
            \E d \in Contents :
               /\ IsSent(s, d) /\ Holds(q, d)
               /\ \/ d = c /\ q.next_sequence = p + 1
                  \/ q.expected_packets - q.next_sequence < q.run /\ p = 0 /\ ~Long(c)
    BY <2>13, Zenon
  <2>18. got \subseteq got' /\ \A y \in got' : y \in got \/ Sound(y)
    BY <2>1, <2>8
  <2> QED
    BY <2>10, <2>11, <2>15, <2>16, <2>17, <2>18, Zenon DEF Heard
<1> QED
  BY <1>7, <1>10, <1>11

\* Whatever frame is next.
LEMMA AnyHeard ==
    ASSUME TypeInv, NEW s \in Sources, Source(s), NEW c \in Contents, NEW a \in Announces,
           NEW p \in 0..(FrameCount(c) - 1), At(s, c, a, p), Hears(Head(out[s]))
    PROVE  Heard(s, c, p)
<1>1. CASE p # 0
  BY <1>1, DataHeard
<1>2. CASE p = 0 /\ Long(c)
  BY <1>2, ControlHeard
<1>3. CASE p = 0 /\ ~Long(c)
  BY <1>3, ShortHeard
<1> QED
  BY <1>1, <1>2, <1>3

\* What a step leaves alone of a source stays as it was.
LEMMA SourceSame ==
    ASSUME NEW s \in Sources, Source(s), out'[s] = out[s], sending'[s] = sending[s],
           intact'[s] = intact[s], rx'[s] = rx[s], sent \subseteq sent', got \subseteq got'
    PROVE  Source(s)'
<1>1. \A c, a, p : At(s, c, a, p)' <=> At(s, c, a, p)
  BY DEF At
<1>2. \A c : IsSent(s, c) => IsSent(s, c)'
  BY DEF IsSent
<1>3. \A c : Delivered(s, c) => Delivered(s, c)'
  BY DEF Delivered
<1>4. \A r, c : Own(s, r, c) => Own(s, r, c)'
  BY <1>1 DEF Own
<1>5. \A r : Behind(s, r) => Behind(s, r)'
  BY <1>1 DEF Behind
<1>6. Underway(s)'
  BY <1>1, <1>2 DEF Source, Underway
<1>7. OneSession(s)'
  BY DEF Source, OneSession
<1>8. InStep(s)'
  BY <1>2, <1>4, <1>5 DEF Source, InStep
<1>9. Kempt(s)'
  BY <1>1, <1>3 DEF Source, Kempt
<1> QED
  BY <1>6, <1>7, <1>8, <1>9 DEF Source

\* A sound message stays sound: what was sent stays sent.
LEMMA SoundKept ==
    ASSUME NEW m, Sound(m), sent \subseteq sent'
    PROVE  Sound(m)'
  BY DEF Sound, WasSent

\* The properties of messages say that each is sound.
LEMMA AllSound == NoSplice /\ OncePerSession <=> \A m \in got : Sound(m)
  BY DEF NoSplice, OncePerSession, Sound

(***************************************************************************)
(* The steps                                                               *)
(***************************************************************************)

\* The invariant holds again when the source that moved and the messages are seen to.
LEMMA Reassembled ==
    ASSUME IInv, NEW s \in Sources, Source(s)', TypeInv', sent \subseteq sent', got \subseteq got',
           \A t \in Sources \ {s} : /\ out'[t] = out[t] /\ sending'[t] = sending[t]
                                    /\ intact'[t] = intact[t] /\ rx'[t] = rx[t],
           \A m \in got' : m \in got \/ Sound(m)'
    PROVE  IInv'
<1>1. \A m \in got : Sound(m)
  BY AllSound DEF IInv
<1>2. \A m \in got' : Sound(m)'
  BY <1>1, SoundKept
<1>3. NoSplice' /\ OncePerSession'
  BY <1>2 DEF NoSplice, OncePerSession, Sound
<1>4. ASSUME NEW t \in Sources PROVE Source(t)'
  <2>1. CASE t = s
    BY <2>1
  <2>2. CASE t # s
    BY <2>2, SourceSame DEF IInv
  <2> QED
    BY <2>1, <2>2
<1> QED
  BY <1>3, <1>4 DEF IInv

\* A source starts its next message: what is held of the last one is behind.
LEMMA SendsKept ==
    ASSUME IInv, NEW s \in Sources, NEW c \in Contents, NEW a \in Announces, SourceSends(s, c, a)
    PROVE  IInv'
<1> DEFINE F == Frames(s, c, a)
<1>1. TypeInv /\ Source(s) /\ out[s] = << >> /\ rx' = rx /\ got' = got
  BY DEF IInv, SourceSends
<1>2. /\ out' = [out EXCEPT ![s] = F] /\ sending' = [sending EXCEPT ![s] = {c}]
      /\ intact' = [intact EXCEPT ![s] = TRUE]
      /\ sent' = sent \cup {[source |-> s, pgn |-> c.pgn, v |-> c.v]}
  BY DEF SourceSends
<1>3. F \in Seq(FrameSet) /\ Len(F) = FrameCount(c) /\ FrameCount(c) \in Nat \ {0}
  BY FramesMade
<1> HIDE DEF F
<1>4. out'[s] = F /\ sending'[s] = {c} /\ F = After(F, 0) /\ 0 \in 0..(FrameCount(c) - 1)
  BY <1>1, <1>2, <1>3 DEF TypeInv, After
<1>5. At(s, c, a, 0)'
  BY <1>4 DEF At, F
<1>6. IsSent(s, c)'
  BY <1>2 DEF IsSent
<1>7. TypeInv'
  BY <1>1, <1>2, <1>3 DEF TypeInv
<1>8. Underway(s)'
  BY <1>4, <1>5, <1>6 DEF Underway
<1>9. OneSession(s)'
  BY <1>1 DEF Source, OneSession
<1>10. ASSUME NEW r \in rx'[s], r.made = 0 /\ r.gap <= r.expected_packets
       PROVE  \E d \in Contents : IsSent(s, d)' /\ Holds(r, d) /\ Behind(s, r)'
  <2>1. PICK d \in Contents : IsSent(s, d) /\ Holds(r, d) /\ (Own(s, r, d) \/ Behind(s, r))
    BY <1>1, <1>10 DEF Source, InStep
  <2>2. r.expected_packets - r.next_sequence < r.run
    BY <1>1, <2>1, NextFrame DEF Own, Behind
  <2>3. r \in Sessions
    BY <1>1 DEF TypeInv
  <2>4. r.expected_packets - r.next_sequence + 0 < r.run
    BY <2>2, <2>3, J1939Assumption DEF Sessions
  <2>5. Behind(s, r)'
    BY <1>4, <1>5, <2>4 DEF Behind
  <2>6. IsSent(s, d)'
    BY <1>2, <2>1 DEF IsSent
  <2> QED
    BY <2>1, <2>5, <2>6
<1>11. InStep(s)'
  BY <1>10, Zenon DEF InStep
<1>12. Kempt(s)'
  BY <1>4, <1>5 DEF Kempt
<1>13. Source(s)'
  BY <1>8, <1>9, <1>11, <1>12 DEF Source
<1> QED
  BY <1>1, <1>2, <1>7, <1>13, Reassembled DEF TypeInv

\* The next frame gets through.
LEMMA DeliverKept ==
    ASSUME IInv, NEW s \in Sources, Deliver(s)
    PROVE  IInv'
<1>1. TypeInv /\ Source(s) /\ out[s] # << >> /\ Hears(Head(out[s]))
  BY DEF IInv, Deliver
<1>2. out' = [out EXCEPT ![s] = Tail(out[s])] /\ sending' = sending /\ intact' = intact /\ sent' = sent
  BY DEF Deliver
<1>3. PICK c \in Contents, a \in Announces : \E p \in 0..(FrameCount(c) - 1) : At(s, c, a, p)
  BY <1>1 DEF Source, Underway
<1>4. PICK p \in 0..(FrameCount(c) - 1) : At(s, c, a, p)
  BY <1>3
<1> DEFINE n == FrameCount(c)
<1>5. n \in Nat \ {0} /\ p \in Nat /\ p + 1 <= n
  BY FramesMade
<1>6. /\ out'[s] = After(Frames(s, c, a), p + 1) /\ out'[s] \in Seq(FrameSet)
      /\ p = n - 1 => out'[s] = << >>
      /\ sending[s] = {c}
  BY <1>1, <1>2, <1>4, NextFrame DEF TypeInv, At
<1>7. Heard(s, c, p)
  BY <1>1, <1>4, AnyHeard
<1> HIDE DEF n
<1>8. PICK X \in SUBSET Sessions : rx' = [rx EXCEPT ![s] = X]
  BY <1>7 DEF Heard
<1>9. rx'[s] = X
  BY <1>1, <1>8 DEF TypeInv
<1>10. TypeInv'
  BY <1>1, <1>2, <1>6, <1>8 DEF TypeInv
<1>11. p < n - 1 => p + 1 \in 0..(n - 1) /\ At(s, c, a, p + 1)'
  <2>1. p < n - 1 => p + 1 \in 0..(n - 1)
    BY <1>5
  <2> QED
    BY <1>2, <1>6, <2>1 DEF At, n
<1>12. p = n - 1 \/ p < n - 1
  BY <1>5 DEF n
<1>13. Underway(s)'
  <2>1. \A d \in sending'[s] : IsSent(s, d)'
    BY <1>1, <1>2 DEF Source, Underway, IsSent
  <2>2. out'[s] # << >> => p + 1 \in 0..(n - 1) /\ At(s, c, a, p + 1)'
    BY <1>6, <1>11, <1>12
  <2> QED
    BY <2>1, <2>2 DEF Underway, n
<1>14. OneSession(s)'
  BY <1>7 DEF Heard
<1>15. ASSUME NEW r \in rx'[s], r.made = 0 /\ r.gap <= r.expected_packets
       PROVE  \E d \in Contents : IsSent(s, d)' /\ Holds(r, d) /\ (Own(s, r, d)' \/ Behind(s, r)')
  <2>1. PICK d \in Contents :
           /\ IsSent(s, d) /\ Holds(r, d)
           /\ \/ d = c /\ r.next_sequence = p + 1
              \/ r.expected_packets - r.next_sequence < r.run /\ p = 0 /\ ~Long(c)
    BY <1>7, <1>15 DEF Heard
  <2>2. IsSent(s, d)'
    BY <1>2, <2>1 DEF IsSent
  <2>3. r \in Sessions /\ Shape(r)
    BY <1>9, <1>14 DEF OneSession
  <2>4. CASE d = c /\ r.next_sequence = p + 1
    <3>1. p < n - 1
      <4>1. Long(c) /\ r.expected_size = Len(Build(c)) /\ r.made = 0
        BY <2>1, <2>4 DEF Holds
      <4>2. p + 1 <= Count(c)
        BY <2>3, <2>4, <4>1 DEF Shape, Count
      <4>3. n = Count(c) + 1 /\ Count(c) \in Nat
        BY <4>1, LongFits DEF FrameCount, n, Byte
      <4> QED
        BY <1>5, <4>2, <4>3
    <3>2. (p + 1) - r.next_sequence <= r.run
      BY <1>5, <2>3, <2>4 DEF Sessions
    <3> QED
      BY <1>11, <2>1, <2>2, <2>4, <3>1, <3>2 DEF Own, n
  <2>5. CASE r.expected_packets - r.next_sequence < r.run /\ p = 0 /\ ~Long(c)
    <3>1. n = 1
      BY <2>5 DEF FrameCount, n
    <3>2. out'[s] = << >>
      BY <1>6, <2>5, <3>1
    <3> QED
      BY <2>1, <2>2, <2>5, <3>2 DEF Behind
  <2> QED
    BY <2>1, <2>4, <2>5
<1>16. InStep(s)'
  BY <1>15, Zenon DEF InStep
<1>17. Kempt(s)'
  <2> SUFFICES ASSUME intact[s]
               PROVE  \/ out'[s] = << >> /\ Delivered(s, c)'
                      \/ \E q \in 0..(FrameCount(c) - 1) :
                            /\ At(s, c, a, q)'
                            /\ \E r \in rx'[s] : Holds(r, c) /\ r.gap = 0 /\ r.next_sequence = q
    BY <1>2, <1>6 DEF Kempt
  <2>1. CASE p = n - 1
    BY <1>6, <1>7, <2>1 DEF Heard, n
  <2>2. CASE p < n - 1
    <3>1. \E r \in rx'[s] : Holds(r, c) /\ r.gap = 0 /\ r.next_sequence = p + 1
      BY <1>7, <2>2 DEF Heard, n
    <3> QED
      BY <1>11, <2>2, <3>1 DEF n
  <2> QED
    BY <1>12, <2>1, <2>2
<1>18. Source(s)'
  BY <1>13, <1>14, <1>16, <1>17 DEF Source
<1>19. got \subseteq got' /\ \A m \in got' : m \in got \/ Sound(m)'
  BY <1>2, <1>7 DEF Heard, Sound, WasSent
<1> QED
  BY <1>2, <1>8, <1>10, <1>18, <1>19, <1>1, Reassembled DEF TypeInv

\* The next frame gets through and its sender repeats it.
LEMMA TwiceKept ==
    ASSUME IInv, NEW s \in Sources, DeliverTwice(s)
    PROVE  IInv'
<1>1. TypeInv /\ Source(s) /\ out[s] # << >> /\ Hears(Head(out[s]))
  BY DEF IInv, DeliverTwice
<1>2. out' = out /\ sending' = sending /\ intact' = [intact EXCEPT ![s] = FALSE] /\ sent' = sent
  BY DEF DeliverTwice
<1>3. PICK c \in Contents, a \in Announces : \E p \in 0..(FrameCount(c) - 1) : At(s, c, a, p)
  BY <1>1 DEF Source, Underway
<1>4. PICK p \in 0..(FrameCount(c) - 1) : At(s, c, a, p)
  BY <1>3
<1>5. Heard(s, c, p)
  BY <1>1, <1>4, AnyHeard
<1>6. PICK X \in SUBSET Sessions : rx' = [rx EXCEPT ![s] = X]
  BY <1>5 DEF Heard
<1>7. rx'[s] = X /\ ~intact'[s]
  BY <1>1, <1>2, <1>6 DEF TypeInv
<1>8. TypeInv'
  BY <1>1, <1>2, <1>6 DEF TypeInv
<1>9. At(s, c, a, p)'
  BY <1>2, <1>4 DEF At
<1>10. Underway(s)'
  <2>1. \A d \in sending'[s] : IsSent(s, d)'
    BY <1>1, <1>2 DEF Source, Underway, IsSent
  <2> QED
    BY <1>9, <2>1 DEF Underway
<1>11. OneSession(s)'
  BY <1>5 DEF Heard
<1>12. ASSUME NEW r \in rx'[s], r.made = 0 /\ r.gap <= r.expected_packets
       PROVE  \E d \in Contents : IsSent(s, d)' /\ Holds(r, d) /\ (Own(s, r, d)' \/ Behind(s, r)')
  <2>1. PICK d \in Contents :
           /\ IsSent(s, d) /\ Holds(r, d)
           /\ \/ d = c /\ r.next_sequence = p + 1
              \/ r.expected_packets - r.next_sequence < r.run /\ p = 0 /\ ~Long(c)
    BY <1>5, <1>12 DEF Heard
  <2>2. IsSent(s, d)'
    BY <1>2, <2>1 DEF IsSent
  <2>3. r.run \in Nat /\ r.expected_packets \in Nat /\ r.next_sequence \in Nat
    BY <1>7, J1939Assumption DEF Sessions
  <2>4. FrameCount(c) \in Nat
    BY FramesMade
  <2>5. CASE d = c /\ r.next_sequence = p + 1
    <3>1. p - r.next_sequence <= r.run
      BY <2>3, <2>4, <2>5
    <3> QED
      BY <1>9, <2>1, <2>2, <2>5, <3>1 DEF Own
  <2>6. CASE r.expected_packets - r.next_sequence < r.run /\ p = 0 /\ ~Long(c)
    <3>1. r.expected_packets - r.next_sequence + p < r.run
      BY <2>3, <2>6
    <3> QED
      BY <1>9, <2>1, <2>2, <3>1 DEF Behind
  <2> QED
    BY <2>1, <2>5, <2>6
<1>13. InStep(s)'
  BY <1>12, Zenon DEF InStep
<1>14. Kempt(s)'
  BY <1>7 DEF Kempt
<1>15. Source(s)'
  BY <1>10, <1>11, <1>13, <1>14 DEF Source
<1>16. got \subseteq got' /\ \A m \in got' : m \in got \/ Sound(m)'
  BY <1>2, <1>5 DEF Heard, Sound, WasSent
<1> QED
  BY <1>1, <1>2, <1>6, <1>8, <1>15, <1>16, Reassembled DEF TypeInv

\* A session that has missed a frame.
LEMMA MissedShape ==
    ASSUME NEW r \in Sessions, Shape(r)
    PROVE  /\ Missed(r) \in Sessions /\ Shape(Missed(r))
           /\ Missed(r).run = r.run + 1 /\ Missed(r).gap >= r.gap
           /\ Missed(r).made = r.made /\ Missed(r).next_sequence = r.next_sequence
           /\ Missed(r).expected_packets = r.expected_packets
           /\ \A c : Holds(Missed(r), c) <=> Holds(r, c)
<1> DEFINE g == IF r.gap < r.run + 1 THEN r.run + 1 ELSE r.gap
           a == [r EXCEPT !.run = r.run + 1]
           b == [a EXCEPT !.gap = g]
           x == [pgn |-> r.pgn, expected_size |-> r.expected_size,
                 expected_packets |-> r.expected_packets, next_sequence |-> r.next_sequence,
                 payload |-> r.payload, made |-> r.made, run |-> r.run + 1, gap |-> g]
<1>1. r.run \in Nat /\ r.gap \in Nat
  BY DEF Sessions
<1>2. g \in Nat /\ r.run + 1 <= g /\ r.gap <= g
  BY <1>1
<1>3. Missed(r) = b
  BY Zenon DEF Missed
<1> HIDE DEF g, b
<1>4. a = [pgn |-> r.pgn, expected_size |-> r.expected_size,
           expected_packets |-> r.expected_packets, next_sequence |-> r.next_sequence,
           payload |-> r.payload, made |-> r.made, run |-> r.run + 1, gap |-> r.gap]
  BY DEF Sessions
<1> HIDE DEF a
<1>5. b = x
  BY <1>4 DEF b
<1>6. x \in Sessions
  BY <1>1, <1>2 DEF Sessions
<1>7. /\ x.pgn = r.pgn /\ x.expected_size = r.expected_size /\ x.payload = r.payload
      /\ x.expected_packets = r.expected_packets /\ x.next_sequence = r.next_sequence
      /\ x.made = r.made /\ x.run = r.run + 1 /\ x.gap = g
  OBVIOUS
<1> HIDE DEF x
<1>8. Shape(x)
  BY <1>2, <1>7 DEF Shape
<1>9. \A c : Holds(x, c) <=> Holds(r, c)
  BY <1>7 DEF Holds
<1>10. x.gap >= r.gap
  BY <1>1, <1>2, <1>7
<1> QED
  BY <1>3, <1>5, <1>6, <1>7, <1>8, <1>9, <1>10

\* The next frame is lost: what is held is behind by one more.
LEMMA LoseKept ==
    ASSUME IInv, NEW s \in Sources, Lose(s)
    PROVE  IInv'
<1>1. TypeInv /\ Source(s) /\ out[s] # << >>
  BY DEF IInv, Lose
<1>2. /\ out' = [out EXCEPT ![s] = Tail(out[s])] /\ sending' = sending
      /\ intact' = [intact EXCEPT ![s] = FALSE] /\ sent' = sent /\ got' = got
      /\ rx' = [rx EXCEPT ![s] = {Missed(r) : r \in rx[s]}]
  BY DEF Lose
<1>3. PICK c \in Contents, a \in Announces : \E p \in 0..(FrameCount(c) - 1) : At(s, c, a, p)
  BY <1>1 DEF Source, Underway
<1>4. PICK p \in 0..(FrameCount(c) - 1) : At(s, c, a, p)
  BY <1>3
<1> DEFINE n == FrameCount(c)
<1>5. n \in Nat \ {0} /\ p \in Nat /\ p + 1 <= n
  BY FramesMade
<1>6. /\ out'[s] = After(Frames(s, c, a), p + 1) /\ out'[s] \in Seq(FrameSet)
      /\ p = n - 1 => out'[s] = << >>
      /\ sending[s] = {c}
  BY <1>1, <1>2, <1>4, NextFrame DEF TypeInv, At
<1> HIDE DEF n
<1>7. p < n - 1 => p + 1 \in 0..(n - 1) /\ At(s, c, a, p + 1)'
  <2>1. p < n - 1 => p + 1 \in 0..(n - 1)
    BY <1>5
  <2> QED
    BY <1>2, <1>6, <2>1 DEF At, n
<1>8. p = n - 1 \/ p < n - 1
  BY <1>5 DEF n
<1>9. \A r \in rx[s] : r \in Sessions /\ Shape(r)
  BY <1>1 DEF TypeInv, Source, OneSession
<1>10. rx'[s] = {Missed(r) : r \in rx[s]} /\ ~intact'[s]
  BY <1>1, <1>2 DEF TypeInv
<1>11. TypeInv'
  <2>1. {Missed(r) : r \in rx[s]} \in SUBSET Sessions
    BY <1>9, MissedShape
  <2> QED
    BY <1>1, <1>2, <1>6, <2>1 DEF TypeInv
<1>12. Underway(s)'
  <2>1. \A d \in sending'[s] : IsSent(s, d)'
    BY <1>1, <1>2 DEF Source, Underway, IsSent
  <2>2. out'[s] # << >> => p + 1 \in 0..(n - 1) /\ At(s, c, a, p + 1)'
    BY <1>6, <1>7, <1>8
  <2> QED
    BY <2>1, <2>2 DEF Underway, n
<1>13. OneSession(s)'
  <2>1. \A q, r \in rx'[s] : q = r
    BY <1>1, <1>10 DEF Source, OneSession
  <2>2. \A r \in rx'[s] : Shape(r)
    BY <1>9, <1>10, MissedShape
  <2> QED
    BY <2>1, <2>2 DEF OneSession
<1>14. ASSUME NEW q \in rx'[s], q.made = 0 /\ q.gap <= q.expected_packets
       PROVE  \E d \in Contents : IsSent(s, d)' /\ Holds(q, d) /\ (Own(s, q, d)' \/ Behind(s, q)')
  <2>1. PICK r \in rx[s] : q = Missed(r)
    BY <1>10
  <2>2. r \in Sessions /\ Shape(r)
    BY <1>9
  <2>3. /\ q \in Sessions /\ q.run = r.run + 1 /\ q.gap >= r.gap /\ q.made = r.made
        /\ q.next_sequence = r.next_sequence /\ q.expected_packets = r.expected_packets
        /\ \A d : Holds(q, d) <=> Holds(r, d)
    BY <2>1, <2>2, MissedShape
  <2>4. /\ q.run \in Nat /\ r.run \in Nat /\ r.gap \in Nat /\ q.gap \in Nat
        /\ r.expected_packets \in Nat /\ r.next_sequence \in Nat
    BY <2>2, <2>3, J1939Assumption, SMTT(30) DEF Sessions
  <2>5. r.made = 0 /\ r.gap <= r.expected_packets
    BY <1>14, <2>3, <2>4
  <2>6. PICK d \in Contents : IsSent(s, d) /\ Holds(r, d) /\ (Own(s, r, d) \/ Behind(s, r))
    BY <1>1, <2>5 DEF Source, InStep
  <2>7. IsSent(s, d)' /\ Holds(q, d)
    BY <1>2, <2>3, <2>6 DEF IsSent
  <2>8. CASE Own(s, r, d)
    <3>1. d = c /\ p - r.next_sequence <= r.run
      BY <1>4, <2>8, OneAt DEF Own
    <3>2. CASE p < n - 1
      <4>1. (p + 1) - q.next_sequence <= q.run
        BY <1>5, <2>3, <2>4, <3>1
      <4> QED
        BY <1>7, <2>7, <3>1, <3>2, <4>1 DEF Own, n
    <3>3. CASE p = n - 1
      <4>1. n = r.expected_packets + 1
        BY <2>2, <2>6, <3>1 DEF Holds, Shape, FrameCount, Count, n
      <4>2. q.expected_packets - q.next_sequence < q.run
        BY <1>5, <2>3, <2>4, <3>1, <3>3, <4>1
      <4> QED
        BY <1>6, <2>7, <3>3, <4>2 DEF Behind
    <3> QED
      BY <1>8, <3>2, <3>3
  <2>9. CASE Behind(s, r)
    <3>1. r.expected_packets - r.next_sequence + p < r.run
      BY <1>1, <1>4, <2>9, OneAt DEF Behind
    <3>2. CASE p < n - 1
      <4>1. q.expected_packets - q.next_sequence + (p + 1) < q.run
        BY <1>5, <2>3, <2>4, <3>1
      <4> QED
        BY <1>7, <2>7, <3>2, <4>1 DEF Behind, n
    <3>3. CASE p = n - 1
      <4>1. q.expected_packets - q.next_sequence < q.run
        BY <1>5, <2>3, <2>4, <3>1
      <4> QED
        BY <1>6, <2>7, <3>3, <4>1 DEF Behind
    <3> QED
      BY <1>8, <3>2, <3>3
  <2> QED
    BY <2>6, <2>8, <2>9
<1>15. InStep(s)'
  BY <1>14, Zenon DEF InStep
<1>16. Kempt(s)'
  BY <1>10 DEF Kempt
<1>17. Source(s)'
  BY <1>12, <1>13, <1>15, <1>16 DEF Source
<1> QED
  BY <1>1, <1>2, <1>11, <1>17, Reassembled DEF TypeInv

\* What the client does leaves the bus alone.
LEMMA BusUntouched ==
    ASSUME IInv, UNCHANGED <<out, sending, intact, sent, rx, got>>
    PROVE  IInv'
<1>1. TypeInv' /\ NoSplice' /\ OncePerSession'
  BY DEF IInv, TypeInv, NoSplice, OncePerSession, WasSent
<1>2. \A s \in Sources : Source(s)'
  BY SourceSame DEF IInv
<1> QED
  BY <1>1, <1>2 DEF IInv

(***************************************************************************)
(* The theorems                                                            *)
(***************************************************************************)

\* Nothing is on its way at first.
LEMMA InitIInv == Init => IInv
<1> SUFFICES ASSUME Init PROVE IInv
  OBVIOUS
<1>1. TypeInv
  BY DEF Init, TypeInv
<1>2. ASSUME NEW s \in Sources PROVE Source(s)
  <2>1. out[s] = << >> /\ sending[s] = {} /\ rx[s] = {}
    BY DEF Init
  <2> QED
    BY <2>1 DEF Source, Underway, OneSession, InStep, Kempt
<1>3. NoSplice /\ OncePerSession
  BY DEF Init, NoSplice, OncePerSession
<1> QED
  BY <1>1, <1>2, <1>3 DEF IInv

\* Every step keeps the invariant.
LEMMA NextIInv == IInv /\ [Next]_vars => IInv'
<1> SUFFICES ASSUME IInv, [Next]_vars PROVE IInv'
  OBVIOUS
<1>1. ASSUME NEW s \in Sources, NEW c \in Contents, NEW a \in {"bam", "rts"}, SourceSends(s, c, a)
      PROVE  IInv'
  BY <1>1, SendsKept DEF Announces
<1>2. ASSUME NEW s \in Sources, Deliver(s) PROVE IInv'
  BY <1>2, DeliverKept
<1>3. ASSUME NEW s \in Sources, DeliverTwice(s) PROVE IInv'
  BY <1>3, TwiceKept
<1>4. ASSUME NEW s \in Sources, Lose(s) PROVE IInv'
  BY <1>4, LoseKept
<1>5. ASSUME NEW op \in Ops, Request(op) PROVE IInv'
  BY <1>5, BusUntouched DEF Request
<1>6. ASSUME NEW m \in got, Returns(m) PROVE IInv'
  BY <1>6, BusUntouched DEF Returns
<1>7. CASE UNCHANGED vars
  BY <1>7, BusUntouched DEF vars
<1> QED
  BY <1>1, <1>2, <1>3, <1>4, <1>5, <1>6, <1>7 DEF Next

\* Reassembly keeps the invariant, whatever is sent, lost or repeated.
THEOREM Invariance == Spec => []IInv
<1> QED
  BY InitIInv, NextIInv, PTL DEF Spec

\* accept_dt: the first message of a session is one that its source sent, unless more
\* frames in a row were missed than it has packets.
THEOREM FirstMessageWhole == Spec => []NoSplice
<1>1. IInv => NoSplice
  BY DEF IInv
<1> QED
  BY <1>1, Invariance, PTL

\* accept_dt: only a session of SeqMax packets completes again.
THEOREM CompletesOnce == Spec => []OncePerSession
<1>1. IInv => OncePerSession
  BY DEF IInv
<1> QED
  BY <1>1, Invariance, PTL

\* start, accept_dt: a message whose frames all came once has been assembled.
THEOREM IntactIsDelivered == Spec => []IntactDelivered
<1>1. IInv => IntactDelivered
  <2> SUFFICES ASSUME IInv, NEW s \in Sources, NEW c \in sending[s], out[s] = << >>, intact[s]
               PROVE  Delivered(s, c)
    BY DEF IntactDelivered, Delivered
  <2>1. Source(s) /\ c \in Contents
    BY DEF IInv, TypeInv
  <2>2. ASSUME NEW a \in Announces, NEW p \in 0..(FrameCount(c) - 1), At(s, c, a, p) PROVE FALSE
    BY <2>1, <2>2, NextFrame
  <2> QED
    BY <2>1, <2>2 DEF Source, Kempt
<1> QED
  BY <1>1, Invariance, PTL
=============================================================================
