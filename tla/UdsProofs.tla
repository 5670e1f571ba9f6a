----------------------------- MODULE UdsProofs ------------------------------
(***************************************************************************)
(* Theorems about the UDS client, for any calls the client functions can   *)
(* make, any records, any length of text and any neighbours on the bus.    *)
(***************************************************************************)
EXTENDS Uds, WireProofs

(***************************************************************************)
(* Beginnings                                                              *)
(***************************************************************************)

\* To start with p is to agree with p on its elements.
LEMMA Begins ==
    ASSUME NEW S, NEW s \in Seq(S), NEW p \in Seq(S)
    PROVE  StartsWith(s, p) <=> Len(s) >= Len(p) /\ \A i \in 1..Len(p) : s[i] = p[i]
<1> DEFINE n == Len(p)
           q == SubSeq(s, 1, n)
<1>1. n \in Nat /\ Len(s) \in Nat
  OBVIOUS
<1>2. Len(s) >= n => q \in Seq(S) /\ Len(q) = n /\ \A i \in 1..n : q[i] = s[i]
  BY <1>1
<1> HIDE DEF q
<1>3. ASSUME Len(s) >= n, \A i \in 1..n : s[i] = p[i] PROVE q = p
  BY <1>2, <1>3, SeqEqual
<1>4. ASSUME Len(s) >= n, q = p PROVE \A i \in 1..n : s[i] = p[i]
  BY <1>2, <1>4
<1> QED
  BY <1>3, <1>4 DEF StartsWith, q

\* A beginning stays one when the sequence goes on.
LEMMA BeginsLonger ==
    ASSUME NEW S, NEW s \in Seq(S), NEW t \in Seq(S), NEW p \in Seq(S), StartsWith(s, p)
    PROVE  StartsWith(s \o t, p)
<1>1. Len(s) >= Len(p) /\ \A i \in 1..Len(p) : s[i] = p[i]
  BY Begins
<1>2. /\ s \o t \in Seq(S) /\ Len(s \o t) = Len(s) + Len(t)
      /\ Len(s) \in Nat /\ Len(t) \in Nat /\ Len(p) \in Nat
      /\ \A i \in 1..Len(s) : (s \o t)[i] = s[i]
  BY Joined
<1>3. Len(s \o t) >= Len(p)
  BY <1>1, <1>2
<1>4. \A i \in 1..Len(p) : (s \o t)[i] = p[i]
  <2> TAKE i \in 1..Len(p)
  <2>1. i \in 1..Len(s)
    BY <1>1, <1>2
  <2> QED
    BY <1>1, <1>2, <2>1
<1> QED
  BY <1>2, <1>3, <1>4, Begins

\* The first element stays the first.
LEMMA FirstStays ==
    ASSUME NEW S, NEW q \in Seq(S), q # <<>>, NEW e \in S
    PROVE  Append(q, e) # <<>> /\ Append(q, e)[1] = q[1]
OBVIOUS

(***************************************************************************)
(* The lines of an answer                                                  *)
(***************************************************************************)

\* What is read as a refusal is an error.
LEMMA RefusalIsError == \A pdu : ~ReadRefusal(pdu).ok
  BY DEF ReadRefusal, NegativeResponse, Err

\* check_response_error finds nothing but errors.
LEMMA CheckIsError == \A text : ~check_response_error(text).ok
  BY DEF check_response_error, NegativeResponse, Err

\* The lines the chip answers a routed command with.
PlainLines == {blankLine, echoLine, statusLine} \cup {hexLine(b) : b \in Seq(Byte)}

LoopStates == [ok : BOOLEAN, matched : BOOLEAN, payloads : Seq(Seq(Byte)), current : Seq(Byte)]

\* A line of plain hex.
IsHex(line, b) == line.kind = "hex" /\ line.bytes = b /\ line.spaced = FALSE

\* It is read as its bytes.
LEMMA HexRead ==
    ASSUME NEW line, NEW b, NEW skip, NEW prefix, IsHex(line, b)
    PROVE  decode_line(line, "can", skip, prefix) = Ok(b)
<1>0. line.kind = "hex" /\ line.bytes = b /\ line.spaced = FALSE
  BY DEF IsHex
<1>1. parse_hex_line(line) = Ok(b)
  BY <1>0 DEF parse_hex_line
<1>2. looks_like_headers_on(line, "can")
  BY <1>0 DEF looks_like_headers_on
<1>3. decode_can_headers_on(line) = Err
  BY <1>0 DEF decode_can_headers_on
<1>4. Ok(b).ok = TRUE /\ Ok(b).v = b /\ Err.ok = FALSE
  BY DEF Ok, Err
<1>5. CASE should_treat_as_headers_off(b, skip, prefix)
  BY ONLY <1>1, <1>2, <1>3, <1>4, <1>5 DEF decode_line
<1>6. CASE ~should_treat_as_headers_off(b, skip, prefix)
  BY ONLY <1>1, <1>2, <1>3, <1>4, <1>6 DEF decode_line
<1> QED
  BY <1>5, <1>6

\* The same for a line of the chip.
LEMMA PlainLine ==
    ASSUME NEW b, NEW skip, NEW prefix
    PROVE  decode_line(hexLine(b), "can", skip, prefix) = Ok(b)
<1> DEFINE line == hexLine(b)
<1>1. IsHex(line, b)
  BY DEF IsHex, hexLine, Line
<1> HIDE DEF line
<1>2. decode_line(line, "can", skip, prefix) = Ok(b)
  BY ONLY <1>1, HexRead
<1> QED
  BY <1>2 DEF line

\* The other lines are no hex.
LEMMA NoHex ==
    ASSUME NEW line \in {blankLine, echoLine, statusLine}, NEW skip, NEW prefix
    PROVE  decode_line(line, "can", skip, prefix) = Err
<1>1. line.kind \in {"blank", "echo", "status"}
  BY DEF blankLine, echoLine, statusLine, Line
<1>2. parse_hex_line(line) = Err
  BY <1>1 DEF parse_hex_line
<1>3. ~looks_like_headers_on(line, "can")
  BY <1>1 DEF looks_like_headers_on
<1>4. Err.ok = FALSE
  BY DEF Err
<1>5. decode_can_headers_on(line) = Err
  BY <1>1 DEF decode_can_headers_on
<1> QED
  BY ONLY <1>2, <1>3, <1>4, <1>5 DEF decode_line

(***************************************************************************)
(* The loop over the lines                                                 *)
(***************************************************************************)

\* TakeBytes keeps the types.
LEMMA TakeBytesType ==
    ASSUME NEW st \in LoopStates, NEW b \in Seq(Byte), NEW p \in Seq(Byte), NEW prefix \in {{p}, {}}
    PROVE  TakeBytes(st, b, prefix) \in LoopStates
<1>1. /\ st.ok \in BOOLEAN /\ st.payloads \in Seq(Seq(Byte)) /\ st.current \in Seq(Byte)
  BY DEF LoopStates
<1>2. CASE \E q \in prefix : StartsWith(b, q)
  <2> DEFINE closed == st.matched /\ st.current # <<>>
             ps == IF closed THEN Append(st.payloads, st.current) ELSE st.payloads
             c == (IF closed THEN <<>> ELSE st.current) \o After(b, Len(p))
  <2>1. prefix = {p} /\ (CHOOSE q \in prefix : TRUE) = p
    BY <1>2
  <2>2. ps \in Seq(Seq(Byte))
    BY <1>1
  <2>3. c \in Seq(Byte)
    <3>1. After(b, Len(p)) \in Seq(Byte)
      BY DEF After
    <3> QED
      BY <1>1, <3>1
  <2>4. TakeBytes(st, b, prefix) = [st EXCEPT !.matched = TRUE, !.payloads = ps, !.current = c]
    BY <1>2, <2>1 DEF TakeBytes
  <2> HIDE DEF ps, c
  <2> QED
    BY <2>2, <2>3, <2>4 DEF LoopStates
<1>3. CASE ~(\E q \in prefix : StartsWith(b, q)) /\ st.matched
  <2>1. st.current \o b \in Seq(Byte)
    BY <1>1
  <2>2. TakeBytes(st, b, prefix) = [st EXCEPT !.current = st.current \o b]
    BY <1>3 DEF TakeBytes
  <2> DEFINE c == st.current \o b
  <2> HIDE DEF c
  <2>3. [st EXCEPT !.current = c] \in LoopStates
    BY <2>1 DEF LoopStates, c
  <2> QED
    BY <2>2, <2>3 DEF c
<1>4. CASE ~(\E q \in prefix : StartsWith(b, q)) /\ ~st.matched
  BY <1>4 DEF TakeBytes
<1> QED
  BY <1>2, <1>3, <1>4

\* TakeLine does, too.
LEMMA TakeLineType ==
    ASSUME NEW st \in LoopStates, NEW line \in PlainLines, NEW skip,
           NEW p \in Seq(Byte), NEW prefix \in {{p}, {}}
    PROVE  TakeLine(st, line, "can", skip, prefix) \in LoopStates
<1>1. CASE line \in {blankLine, echoLine, statusLine}
  <2>1. decode_line(line, "can", skip, prefix).ok = FALSE
    BY <1>1, NoHex DEF Err
  <2>2. TakeLine(st, line, "can", skip, prefix) \in {st, [st EXCEPT !.ok = FALSE]}
    BY <2>1 DEF TakeLine
  <2>3. [st EXCEPT !.ok = FALSE] \in LoopStates
    BY DEF LoopStates
  <2> QED
    BY <2>2, <2>3
<1>2. ASSUME NEW b \in Seq(Byte), line = hexLine(b)
      PROVE  TakeLine(st, line, "can", skip, prefix) \in LoopStates
  <2>1. decode_line(line, "can", skip, prefix) = Ok(b)
    BY <1>2, PlainLine
  <2>2. Ok(b).ok = TRUE /\ Ok(b).v = b
    BY DEF Ok
  <2>3. TakeLine(st, line, "can", skip, prefix) \in {st, TakeBytes(st, b, prefix)}
    BY <2>1, <2>2 DEF TakeLine
  <2>4. TakeBytes(st, b, prefix) \in LoopStates
    BY TakeBytesType
  <2> QED
    BY <2>3, <2>4
<1> QED
  BY <1>1, <1>2 DEF PlainLines

\* The states of the loop, one for each number of lines read.
Loop(text, skip, prefix) ==
    CHOOSE f : f = [i \in 0..Len(text) |->
        IF i = 0 THEN StartLoop(prefix) ELSE TakeLine(f[i - 1], text[i], "can", skip, prefix)]

\* How the loop goes: from StartLoop, a line at a time.
Loops(f, text, skip, prefix) ==
    /\ f \in [0..Len(text) -> LoopStates]
    /\ f[0] = StartLoop(prefix)
    /\ \A i \in 1..Len(text) : f[i] = TakeLine(f[i - 1], text[i], "can", skip, prefix)

\* The recursive function of the decoder has such a solution.
LEMMA LoopRuns ==
    ASSUME NEW text \in Seq(PlainLines), NEW skip, NEW p \in Seq(Byte), NEW prefix \in {{p}, {}}
    PROVE  Loops(Loop(text, skip, prefix), text, skip, prefix)
<1> DEFINE n == Len(text)
           v == StartLoop(prefix)
           step == [i \in 1..n |-> [st \in LoopStates |-> TakeLine(st, text[i], "can", skip, prefix)]]
           Solves(f) == f = [i \in 0..n |->
                IF i = 0 THEN v ELSE TakeLine(f[i - 1], text[i], "can", skip, prefix)]
<1>1. n \in Nat
  OBVIOUS
<1>2. v \in LoopStates
  BY DEF StartLoop, LoopStates
<1>3. \A i \in 1..n : \A st \in LoopStates : step[i][st] \in LoopStates
  <2> TAKE i \in 1..n
  <2> TAKE st \in LoopStates
  <2>1. text[i] \in PlainLines
    BY ElementOfSeq
  <2>2. TakeLine(st, text[i], "can", skip, prefix) \in LoopStates
    BY <2>1, TakeLineType
  <2> QED
    BY <2>2, Zenon
<1>4. \A i \in 1..n : \A st \in LoopStates :
        step[i][st] = TakeLine(st, text[i], "can", skip, prefix)
  BY Zenon
<1> HIDE DEF step, v, n
<1>5. PICK f \in [0..n -> LoopStates] : Recurs(f, v, step, n)
  BY <1>1, <1>2, <1>3, Recursion
<1>6. \A i \in 1..n : f[i] = TakeLine(f[i - 1], text[i], "can", skip, prefix)
  <2> TAKE i \in 1..n
  <2>1. f[i - 1] \in LoopStates
    BY <1>1
  <2> QED
    BY <1>4, <1>5, <2>1, Zenon DEF Recurs
<1>7. f[0] = v
  BY <1>5 DEF Recurs
<1>8. Solves(f)
  <2>1. \A i \in 0..n : f[i] = IF i = 0 THEN v ELSE TakeLine(f[i - 1], text[i], "can", skip, prefix)
    <3> TAKE i \in 0..n
    <3>1. i = 0 \/ i \in 1..n
      BY <1>1
    <3> QED
      BY <1>6, <1>7, <3>1, Zenon
  <2> QED
    BY <2>1
<1> DEFINE g == Loop(text, skip, prefix)
<1>9. Solves(g)
  BY <1>8, Zenon DEF Loop, n, v
<1> HIDE DEF g
<1>10. g[0] = v
  BY <1>1, <1>9
<1>11. \A i \in 1..n : g[i] = TakeLine(g[i - 1], text[i], "can", skip, prefix)
  <2> TAKE i \in 1..n
  <2>1. i \in 0..n /\ i # 0
    BY <1>1
  <2> QED
    BY <1>9, <2>1, Zenon
<1>12. \A i \in 0..n : g[i] = f[i]
  <2> DEFINE A == {i \in 0..n : g[i] = f[i]}
             id == [i \in 0..n |-> i]
  <2>1. 0 \in A
    BY <1>1, <1>7, <1>10
  <2>2. \A i \in (0 + 1)..n : id[i - 1] \in A => id[i] \in A
    <3> TAKE i \in (0 + 1)..n
    <3>1. i \in 1..n /\ i - 1 \in 0..n /\ i \in 0..n
      BY <1>1
    <3>2. id[i - 1] = i - 1 /\ id[i] = i
      BY <3>1
    <3>3. g[i - 1] = f[i - 1] => g[i] = f[i]
      BY <1>6, <1>11, <3>1, Zenon
    <3> QED
      BY <3>1, <3>2, <3>3
  <2>3. id[0] \in A /\ 0 <= n /\ 0 \in Nat
    BY <1>1, <2>1
  <2>4. \A i \in 0..n : id[i] = i
    OBVIOUS
  <2> HIDE DEF A, id
  <2>5. \A i \in 0..n : id[i] \in A
    BY <1>1, <2>2, <2>3, StaysIn
  <2> QED
    BY <2>4, <2>5 DEF A
<1>13. g \in [0..n -> LoopStates]
  BY <1>9, <1>12
<1> QED
  BY <1>10, <1>11, <1>13 DEF Loops, g, n, v

\* Before the answer begins, a line that is skipped or does not begin with the
\* prefix changes nothing.
LEMMA BeforeAnswer ==
    ASSUME NEW p \in Seq(Byte), NEW skip, NEW line, NEW b,
           line \in {blankLine, echoLine} \/ (line = hexLine(b) /\ ~StartsWith(b, p))
    PROVE  TakeLine(StartLoop({p}), line, "can", skip, {p}) = StartLoop({p})
<1> DEFINE st == StartLoop({p})
<1>1. st.matched = FALSE
  BY DEF StartLoop
<1>2. CASE line \in {blankLine, echoLine}
  BY <1>2 DEF TakeLine, Skipped, blankLine, echoLine, Line
<1>3. CASE line = hexLine(b) /\ ~StartsWith(b, p)
  <2>1. decode_line(line, "can", skip, {p}) = Ok(b)
    BY <1>3, PlainLine
  <2>2. Ok(b).ok = TRUE /\ Ok(b).v = b
    BY DEF Ok
  <2> HIDE DEF st
  <2>3. TakeBytes(st, b, {p}) = st
    BY <1>1, <1>3 DEF TakeBytes
  <2>4. TakeLine(st, line, "can", skip, {p}) = st
    BY <2>1, <2>2, <2>3 DEF TakeLine
  <2> QED
    BY <2>4 DEF st
<1> QED
  BY <1>2, <1>3

\* The state with one answer open, of which x has been read.
Opened(st, x) ==
    /\ st \in LoopStates
    /\ st.ok = TRUE /\ st.matched = TRUE /\ st.payloads = <<>> /\ st.current = x

\* The line that begins with the prefix begins the answer.
LEMMA AnswerBegins ==
    ASSUME NEW p \in Seq(Byte), NEW skip, NEW b \in Seq(Byte), StartsWith(b, p)
    PROVE  Opened(TakeLine(StartLoop({p}), hexLine(b), "can", skip, {p}), After(b, Len(p)))
<1> DEFINE st == StartLoop({p})
           line == hexLine(b)
           x == After(b, Len(p))
<1>1. st = [ok |-> TRUE, matched |-> FALSE, payloads |-> <<>>, current |-> <<>>]
  BY DEF StartLoop
<1>2. decode_line(line, "can", skip, {p}) = Ok(b)
  BY PlainLine
<1>3. Ok(b).ok = TRUE /\ Ok(b).v = b
  BY DEF Ok
<1>4. ~Skipped(st, line, {p})
  BY DEF Skipped, hexLine, Line
<1> HIDE DEF st, line
<1>5. TakeLine(st, line, "can", skip, {p}) = TakeBytes(st, b, {p})
  BY <1>1, <1>2, <1>3, <1>4 DEF TakeLine
<1>6. x \in Seq(Byte)
  BY DEF After
<1>7. (CHOOSE q \in {p} : TRUE) = p
  OBVIOUS
<1> HIDE DEF x
<1>8. <<>> \o x = x
  BY <1>6
<1> DEFINE u == [st EXCEPT !.matched = TRUE]
           w == [u EXCEPT !.payloads = <<>>]
           n == [w EXCEPT !.current = x]
<1>9. TakeBytes(st, b, {p}) = n
  BY <1>1, <1>7, <1>8 DEF TakeBytes, x
<1>10. st \in LoopStates /\ st.ok = TRUE
  BY <1>1 DEF LoopStates
<1> HIDE DEF u, w, n
<1>11. u \in LoopStates /\ u.ok = TRUE /\ u.matched = TRUE
  BY <1>10 DEF LoopStates, u
<1>12. w \in LoopStates /\ w.ok = TRUE /\ w.matched = TRUE /\ w.payloads = <<>>
  <2> DEFINE T == Seq(Seq(Byte))
  <2>1. <<>> \in T
    OBVIOUS
  <2> DEFINE e == <<>>
  <2> HIDE DEF T, e
  <2>2. e \in T
    BY <2>1 DEF e
  <2>3. w = [u EXCEPT !.payloads = e]
    BY DEF w, e
  <2>4. w \in LoopStates /\ w.ok = TRUE /\ w.matched = TRUE /\ w.payloads = e
    BY <1>11, <2>2, <2>3 DEF LoopStates, T
  <2> QED
    BY <2>4 DEF e
<1>13. n \in LoopStates /\ n.ok = TRUE /\ n.matched = TRUE /\ n.payloads = <<>> /\ n.current = x
  BY <1>6, <1>12 DEF LoopStates, n
<1> QED
  BY <1>5, <1>9, <1>13 DEF Opened, st, line, x

\* Once an answer that begins with x is open, the first answer begins with x.
Answering(x) ==
    {st \in LoopStates : st.matched /\ StartsWith(IF st.payloads = <<>> THEN st.current
                                                  ELSE st.payloads[1], x)}

\* No later bytes change that.
LEMMA BytesAfter ==
    ASSUME NEW x \in Seq(Byte), x # <<>>, NEW st \in Answering(x),
           NEW b \in Seq(Byte), NEW p \in Seq(Byte)
    PROVE  TakeBytes(st, b, {p}) \in Answering(x)
<1>1. /\ st \in LoopStates /\ st.matched = TRUE
      /\ st.payloads \in Seq(Seq(Byte)) /\ st.current \in Seq(Byte)
  BY DEF Answering, LoopStates
<1> DEFINE f == IF st.payloads = <<>> THEN st.current ELSE st.payloads[1]
<1>2. StartsWith(f, x)
  BY DEF Answering
<1>3. TakeBytes(st, b, {p}) \in LoopStates
  BY <1>1, TakeBytesType
<1>4. CASE StartsWith(b, p)
  <2> DEFINE closed == st.matched /\ st.current # <<>>
             ps == IF closed THEN Append(st.payloads, st.current) ELSE st.payloads
             c == (IF closed THEN <<>> ELSE st.current) \o After(b, Len(p))
             n == [st EXCEPT !.matched = TRUE, !.payloads = ps, !.current = c]
  <2>1. (CHOOSE q \in {p} : TRUE) = p
    OBVIOUS
  <2>2. TakeBytes(st, b, {p}) = n
    BY <1>4, <2>1 DEF TakeBytes
  <2>3. n.matched = TRUE /\ n.payloads = ps /\ n.current = c
    BY <1>1 DEF LoopStates
  <2>4. ps # <<>> /\ ps[1] = f
    <3>1. CASE st.payloads = <<>>
      <4>1. st.current # <<>>
        BY <1>1, <1>2, <3>1 DEF StartsWith
      <4> QED
        BY <1>1, <3>1, <4>1
    <3>2. CASE st.payloads # <<>>
      <4> DEFINE q == st.payloads
                 T == Seq(Byte)
      <4>1. q \in Seq(T) /\ q # <<>> /\ st.current \in T
        BY <1>1, <3>2
      <4> HIDE DEF T
      <4>2. Append(q, st.current) # <<>> /\ Append(q, st.current)[1] = q[1]
        BY <4>1, FirstStays, Zenon
      <4> QED
        BY <1>1, <3>2, <4>2
    <3> QED
      BY <3>1, <3>2
  <2> HIDE DEF n, ps, c, f
  <2> QED
    BY <1>2, <1>3, <2>2, <2>3, <2>4 DEF Answering
<1>5. CASE ~StartsWith(b, p)
  <2> DEFINE c == st.current \o b
             n == [st EXCEPT !.current = c]
  <2>1. TakeBytes(st, b, {p}) = n
    BY <1>1, <1>5 DEF TakeBytes
  <2>2. n.matched = TRUE /\ n.payloads = st.payloads /\ n.current = c
    BY <1>1 DEF LoopStates
  <2>3. StartsWith(IF st.payloads = <<>> THEN c ELSE st.payloads[1], x)
    <3>1. CASE st.payloads = <<>>
      <4>1. StartsWith(c, x)
        BY <1>1, <1>2, <3>1, BeginsLonger
      <4> QED
        BY <3>1, <4>1
    <3>2. CASE st.payloads # <<>>
      BY <1>2, <3>2
    <3> QED
      BY <3>1, <3>2
  <2> HIDE DEF n, c
  <2> QED
    BY <1>3, <2>1, <2>2, <2>3 DEF Answering
<1> QED
  BY <1>4, <1>5

\* Nor does any later line.
LEMMA LineAfter ==
    ASSUME NEW x \in Seq(Byte), x # <<>>, NEW st \in Answering(x),
           NEW line \in PlainLines, NEW skip, NEW p \in Seq(Byte)
    PROVE  TakeLine(st, line, "can", skip, {p}) \in Answering(x)
<1>1. st \in LoopStates
  BY DEF Answering
<1>2. CASE line \in {blankLine, echoLine, statusLine}
  <2>1. decode_line(line, "can", skip, {p}).ok = FALSE
    BY <1>2, NoHex DEF Err
  <2>2. TakeLine(st, line, "can", skip, {p}) \in {st, [st EXCEPT !.ok = FALSE]}
    BY <2>1 DEF TakeLine
  <2> DEFINE n == [st EXCEPT !.ok = FALSE]
  <2>3. /\ n \in LoopStates /\ n.matched = st.matched /\ n.payloads = st.payloads
        /\ n.current = st.current
    BY <1>1 DEF LoopStates
  <2> HIDE DEF n
  <2>4. n \in Answering(x)
    BY <2>3 DEF Answering
  <2> QED
    BY <2>2, <2>4 DEF n
<1>3. ASSUME NEW b \in Seq(Byte), line = hexLine(b)
      PROVE  TakeLine(st, line, "can", skip, {p}) \in Answering(x)
  <2>1. decode_line(line, "can", skip, {p}) = Ok(b)
    BY <1>3, PlainLine
  <2>2. Ok(b).ok = TRUE /\ Ok(b).v = b
    BY DEF Ok
  <2>3. TakeLine(st, line, "can", skip, {p}) \in {st, TakeBytes(st, b, {p})}
    BY <2>1, <2>2 DEF TakeLine
  <2> QED
    BY <2>3, BytesAfter
<1> QED
  BY <1>2, <1>3 DEF PlainLines

\* The lines before the answer: what is skipped, and what another unit says.
Unanswered(line, p) ==
    line \in {blankLine, echoLine} \/ \E q : line = hexLine(q) /\ ~StartsWith(q, p)

\* The loop opens the answer at its first line.
LEMMA LoopOpens ==
    ASSUME NEW text \in Seq(PlainLines), NEW skip, NEW p \in Seq(Byte),
           NEW k \in 1..Len(text), NEW b \in Seq(Byte), text[k] = hexLine(b), StartsWith(b, p),
           \A i \in 1..(k - 1) : Unanswered(text[i], p)
    PROVE  Opened(Loop(text, skip, {p})[k], After(b, Len(p)))
<1> DEFINE f == Loop(text, skip, {p})
           n == Len(text)
<1>1. Loops(f, text, skip, {p})
  BY LoopRuns
<1>2. n \in Nat /\ k \in 1..n
  OBVIOUS
<1> HIDE DEF f, n
<1>3. f[0] = StartLoop({p})
  BY <1>1 DEF Loops
<1>4. \A i \in 1..n : f[i] = TakeLine(f[i - 1], text[i], "can", skip, {p})
  BY <1>1 DEF Loops, n
<1>5. f[k - 1] = StartLoop({p})
  <2> DEFINE A == {StartLoop({p})}
  <2>1. f[0] \in A
    BY <1>3
  <2>2. ASSUME NEW i \in (0 + 1)..(k - 1), f[i - 1] \in A PROVE f[i] \in A
    <3>1. i \in 1..(k - 1) /\ i \in 1..n
      BY <1>2
    <3>2. f[i] = TakeLine(StartLoop({p}), text[i], "can", skip, {p})
      BY <1>4, <2>2, <3>1
    <3>3. Unanswered(text[i], p)
      BY <3>1
    <3>4. TakeLine(StartLoop({p}), text[i], "can", skip, {p}) = StartLoop({p})
      <4>1. CASE text[i] \in {blankLine, echoLine}
        BY <4>1, BeforeAnswer
      <4>2. ASSUME NEW q, text[i] = hexLine(q), ~StartsWith(q, p)
            PROVE  TakeLine(StartLoop({p}), text[i], "can", skip, {p}) = StartLoop({p})
        BY <4>2, BeforeAnswer
      <4> QED
        BY <3>3, <4>1, <4>2 DEF Unanswered
    <3> QED
      BY <3>2, <3>4
  <2>3. k - 1 \in Nat /\ 0 <= k - 1 /\ 0 \in Nat /\ k - 1 \in 0..(k - 1)
    BY <1>2
  <2> HIDE DEF A
  <2>4. \A i \in 0..(k - 1) : f[i] \in A
    BY <2>1, <2>2, <2>3, StaysIn
  <2> QED
    BY <2>3, <2>4 DEF A
<1>6. f[k] = TakeLine(StartLoop({p}), hexLine(b), "can", skip, {p})
  BY <1>2, <1>4, <1>5
<1> QED
  BY <1>6, AnswerBegins DEF f

\* What the decoder makes of the last state of the loop.
Outcome(st) ==
    LET payloads == IF st.current = <<>> THEN st.payloads ELSE Append(st.payloads, st.current)
    IN  IF ~st.ok \/ payloads = <<>> THEN Err ELSE Ok(payloads[1])

\* The decoded answer is the outcome of the loop over its lines.
LEMMA DecodeIsLoop ==
    ASSUME NEW text, NEW skip \in Nat \ {0}, NEW command, NEW p,
           expected_response_prefix(command, skip) = {p}
    PROVE  decode_elm_response_payload_for_command(text, "can", skip, command) =
               Outcome(Loop(text, skip, {p})[Len(text)])
<1> DEFINE st == Loop(text, skip, expected_response_prefix(command, skip))[Len(text)]
           ps == IF st.current = <<>> THEN st.payloads ELSE Append(st.payloads, st.current)
           r == IF ~st.ok \/ ps = <<>> THEN Err ELSE Ok(ps)
<1>1. decode_elm_response_payloads_for_command(text, "can", skip, command) = r
  BY Zenon DEF decode_elm_response_payloads_for_command, Loop
<1>0. st = Loop(text, skip, {p})[Len(text)]
  OBVIOUS
<1> HIDE DEF st
<1>2. Err.ok = FALSE /\ \A v : Ok(v).ok = TRUE /\ Ok(v).v = v
  BY DEF Ok, Err
<1>3. decode_elm_response_payload_for_command(text, "can", skip, command) =
          IF r.ok THEN Ok(r.v[1]) ELSE r
  BY <1>1 DEF decode_elm_response_payload_for_command, Then
<1>4. CASE ~st.ok \/ ps = <<>>
  BY <1>2, <1>3, <1>4, <1>0 DEF Outcome
<1>5. CASE ~(~st.ok \/ ps = <<>>)
  <2>1. r = Ok(ps)
    BY <1>5
  <2> QED
    BY <1>2, <1>3, <1>5, <1>0, <2>1 DEF Outcome
<1> QED
  BY <1>4, <1>5

\* The decoded answer begins with the rest of its first line.
LEMMA DecodedBegins ==
    ASSUME NEW text \in Seq(PlainLines), NEW skip \in Nat \ {0}, NEW command, NEW p \in Seq(Byte),
           expected_response_prefix(command, skip) = {p},
           NEW k \in 1..Len(text), NEW b \in Seq(Byte), text[k] = hexLine(b), StartsWith(b, p),
           After(b, Len(p)) # <<>>,
           \A i \in 1..(k - 1) : Unanswered(text[i], p),
           NEW d, d = decode_elm_response_payload_for_command(text, "can", skip, command), d.ok
    PROVE  d.v \in Seq(Byte) /\ StartsWith(d.v, After(b, Len(p)))
<1> DEFINE f == Loop(text, skip, {p})
           n == Len(text)
           x == After(b, Len(p))
<1>1. Loops(f, text, skip, {p})
  BY LoopRuns
<1>2. n \in Nat /\ k \in 1..n
  OBVIOUS
<1>3. Opened(f[k], x)
  BY LoopOpens
<1>4. d = Outcome(f[n])
  BY DecodeIsLoop
<1>5. x \in Seq(Byte) /\ x # <<>>
  BY DEF After
<1> HIDE DEF f, n, x
<1>6. f[k] \in Answering(x)
  <2>1. StartsWith(x, x)
    BY <1>5, Begins
  <2> QED
    BY <1>3, <2>1 DEF Opened, Answering
<1>7. ASSUME NEW i \in (k + 1)..n, f[i - 1] \in Answering(x) PROVE f[i] \in Answering(x)
  <2>1. i \in 1..n
    BY <1>2
  <2>2. text[i] \in PlainLines
    BY <2>1, ElementOfSeq DEF n
  <2>3. f[i] = TakeLine(f[i - 1], text[i], "can", skip, {p})
    BY <1>1, <2>1 DEF Loops, n
  <2> QED
    BY <1>5, <1>7, <2>2, <2>3, LineAfter
<1>8. f[n] \in Answering(x)
  <2>1. k \in Nat /\ k <= n /\ n \in k..n
    BY <1>2
  <2>2. \A i \in k..n : f[i] \in Answering(x)
    BY <1>2, <1>6, <1>7, <2>1, StaysIn
  <2> QED
    BY <2>1, <2>2
<1> DEFINE st == f[n]
           ps == IF st.current = <<>> THEN st.payloads ELSE Append(st.payloads, st.current)
<1> HIDE DEF st
<1>9. /\ st.payloads \in Seq(Seq(Byte)) /\ st.current \in Seq(Byte)
      /\ StartsWith(IF st.payloads = <<>> THEN st.current ELSE st.payloads[1], x)
  BY <1>8 DEF Answering, LoopStates, st
<1>10. d = Ok(ps[1])
  <2>1. d.ok /\ Err.ok = FALSE
    BY DEF Err
  <2> QED
    BY <1>4, <2>1 DEF Outcome, st
<1>11. ps[1] \in Seq(Byte) /\ StartsWith(ps[1], x)
  <2> DEFINE q == st.payloads
             T == Seq(Byte)
  <2>1. q \in Seq(T) /\ st.current \in T
    BY <1>9
  <2>2. CASE q = <<>>
    <3>1. st.current # <<>>
      BY <1>5, <1>9, <2>2 DEF StartsWith
    <3> QED
      BY <1>9, <2>2, <3>1
  <2>3. CASE q # <<>>
    <3> HIDE DEF T
    <3>1. q[1] \in T /\ Append(q, st.current)[1] = q[1]
      BY <2>1, <2>3
    <3> QED
      BY <1>9, <2>3, <3>1 DEF T
  <2> QED
    BY <2>2, <2>3
<1>12. d.v = ps[1]
  BY <1>10 DEF Ok
<1> QED
  BY <1>11, <1>12 DEF x

(***************************************************************************)
(* The text of an answer                                                   *)
(***************************************************************************)

\* The lines a PDU is written in, of at most LineLen bytes.
LEMMA InLinesShape ==
    ASSUME NEW b \in Seq(Byte), b # <<>>
    PROVE  /\ InLines(b) \in Seq(PlainLines) /\ InLines(b) # <<>>
           /\ InLines(b)[1] = hexLine(SubSeq(b, 1, IF Len(b) <= LineLen THEN Len(b) ELSE LineLen))
<1> DEFINE n == (Len(b) + LineLen - 1) \div LineLen
           to(i) == IF i < n THEN LineLen * i ELSE Len(b)
           text(i) == SubSeq(b, LineLen * (i - 1) + 1, to(i))
<1>1. Len(b) \in Nat \ {0}
  OBVIOUS
<1>2. n \in Nat \ {0} /\ 6 * n <= Len(b) + 5 /\ Len(b) <= 6 * n
  <2> DEFINE z == Len(b)
  <2>1. z \in Nat \ {0}
    BY <1>1
  <2> HIDE DEF z
  <2>2. (z + 5) \div 6 \in Nat \ {0} /\ 6 * ((z + 5) \div 6) <= z + 5 /\ z <= 6 * ((z + 5) \div 6)
    BY <2>1
  <2>3. n = (z + 5) \div 6
    BY <2>1 DEF LineLen, z
  <2> QED
    BY <2>2, <2>3 DEF z
<1> HIDE DEF n
<1>3. ASSUME NEW i \in 1..n PROVE text(i) \in Seq(Byte)
  <2>1. LineLen * (i - 1) + 1 \in Nat \ {0} /\ to(i) \in Nat /\ to(i) <= Len(b)
    BY <1>1, <1>2 DEF LineLen
  <2> HIDE DEF to
  <2> QED
    BY <2>1
<1>4. InLines(b) = [i \in 1..n |-> hexLine(text(i))]
  BY DEF InLines, n
<1> HIDE DEF text
<1>5. \A i \in 1..n : hexLine(text(i)) \in PlainLines
  BY <1>3 DEF PlainLines
<1>6. InLines(b) \in Seq(PlainLines) /\ Len(InLines(b)) = n
  BY <1>2, <1>4, <1>5
<1>7. InLines(b)[1] = hexLine(text(1))
  BY <1>2, <1>4
<1>8. text(1) = SubSeq(b, 1, IF Len(b) <= LineLen THEN Len(b) ELSE LineLen)
  <2>1. LineLen * (1 - 1) + 1 = 1
    BY DEF LineLen
  <2>2. to(1) = IF Len(b) <= LineLen THEN Len(b) ELSE LineLen
    BY <1>1, <1>2 DEF LineLen
  <2> QED
    BY <2>1, <2>2 DEF text
<1>9. InLines(b) # <<>>
  BY <1>2, <1>6
<1> QED
  BY <1>6, <1>7, <1>8, <1>9

\* A text has an answer that begins with line: only unanswered lines before it.
HasAnswer(text, line, p) ==
    \E k \in 1..Len(text) : text[k] = line /\ \A i \in 1..(k - 1) : Unanswered(text[i], p)

\* One unanswered line may come first.
LEMMA AnswerSecond ==
    ASSUME NEW p, NEW line \in PlainLines, Unanswered(line, p),
           NEW rest \in Seq(PlainLines), rest # <<>>
    PROVE  <<line>> \o rest \in Seq(PlainLines) /\ HasAnswer(<<line>> \o rest, rest[1], p)
<1> DEFINE t == <<line>> \o rest
<1>1. <<line>> \in Seq(PlainLines) /\ Len(<<line>>) = 1 /\ <<line>>[1] = line
  OBVIOUS
<1>2. t \in Seq(PlainLines) /\ Len(t) = 1 + Len(rest) /\ Len(rest) \in Nat \ {0}
      /\ t[1] = line /\ t[2] = rest[1]
  BY <1>1
<1> HIDE DEF t
<1>3. 2 \in 1..Len(t) /\ 1..(2 - 1) = {1}
  BY <1>2
<1>4. HasAnswer(t, rest[1], p)
  BY <1>2, <1>3 DEF HasAnswer
<1> QED
  BY <1>2, <1>4 DEF t

\* Or none.
LEMMA AnswerFirst ==
    ASSUME NEW p, NEW text \in Seq(PlainLines), text # <<>>
    PROVE  HasAnswer(text, text[1], p)
<1>1. Len(text) \in Nat \ {0}
  OBVIOUS
<1>2. 1 \in 1..Len(text) /\ 1..(1 - 1) = {}
  BY <1>1
<1> QED
  BY <1>2 DEF HasAnswer

\* More lines may follow.
LEMMA LinesFollow ==
    ASSUME NEW s \in Seq(PlainLines), s # <<>>, NEW t \in Seq(PlainLines)
    PROVE  s \o t \in Seq(PlainLines) /\ s \o t # <<>> /\ (s \o t)[1] = s[1]
<1>1. /\ s \o t \in Seq(PlainLines) /\ Len(s \o t) = Len(s) + Len(t)
      /\ Len(s) \in Nat /\ Len(t) \in Nat
      /\ \A i \in 1..Len(s) : (s \o t)[i] = s[i]
  BY Joined
<1>2. Len(s) # 0
  OBVIOUS
<1> QED
  BY <1>1, <1>2

\* The neighbour's code is one.
LEMMA NeighbourIsByte == NeighbourCode \in Byte
  BY DEF NeighbourCode, Byte

\* The refusal of a service that is no prefix.
LEMMA RefusalShape ==
    ASSUME NEW c, c.sid \in Byte, NEW nrc \in Byte, NEW p \in Seq(Byte), p # <<>>, p[1] # NEGATIVE
    PROVE  /\ Refusal(c, nrc) \in Seq(Byte) /\ Refusal(c, nrc) # <<>>
           /\ Refusal(c, nrc)[1] = NEGATIVE
           /\ InLines(Refusal(c, nrc)) = <<hexLine(Refusal(c, nrc))>>
           /\ hexLine(Refusal(c, nrc)) \in PlainLines
           /\ Unanswered(hexLine(Refusal(c, nrc)), p)
<1> DEFINE b == Refusal(c, nrc)
<1>1. b \in Seq(Byte) /\ Len(b) = 3 /\ b[1] = NEGATIVE
  BY DEF Refusal, NEGATIVE, Byte
<1> HIDE DEF b
<1>2. (Len(b) + LineLen - 1) \div LineLen = 1 /\ LineLen * (1 - 1) + 1 = 1
  BY <1>1 DEF LineLen
<1>3. SubSeq(b, 1, 3) = b
  BY <1>1
<1>4. InLines(b) = <<hexLine(b)>>
  <2>1. InLines(b) = [i \in 1..1 |-> hexLine(SubSeq(b, LineLen * (i - 1) + 1,
                                                   IF i < 1 THEN LineLen * i ELSE Len(b)))]
    BY <1>2 DEF InLines
  <2>2. ASSUME NEW i \in 1..1
        PROVE  SubSeq(b, LineLen * (i - 1) + 1, IF i < 1 THEN LineLen * i ELSE Len(b)) = b
    <3>1. i = 1
      OBVIOUS
    <3> QED
      BY <1>1, <1>2, <1>3, <3>1
  <2>3. InLines(b) = [i \in 1..1 |-> hexLine(b)]
    BY <2>1, <2>2
  <2> QED
    BY <2>3
<1>5. ~StartsWith(b, p)
  <2>1. Len(p) \in Nat \ {0}
    OBVIOUS
  <2> QED
    BY <1>1, <2>1, Begins
<1>6. hexLine(b) \in PlainLines
  BY <1>1 DEF PlainLines
<1>7. Unanswered(hexLine(b), p)
  BY <1>5 DEF Unanswered
<1>8. b # <<>>
  <2>1. Len(b) # Len(<< >>)
    BY ONLY <1>1
  <2> QED
    BY ONLY <2>1, Zenon
<1> QED
  BY <1>1, <1>4, <1>6, <1>7, <1>8, Zenon DEF b

\* Whoever else answers, the text of an answer has its first line where only
\* unanswered lines come before.
LEMMA TextShape ==
    ASSUME NEW a, a.req.sid \in Byte, a.pdu \in Seq(Byte), a.pdu # <<>>, a.other \in Neighbours,
           Positive(a.req, <<7, 7>>) \in Seq(Byte),
           NEW p \in Seq(Byte), p # <<>>, p[1] # NEGATIVE
    PROVE  Text(a) \in Seq(PlainLines) /\ HasAnswer(Text(a), InLines(a.pdu)[1], p)
<1> DEFINE l == InLines(a.pdu)
           r == hexLine(Refusal(a.req, NeighbourCode))
           q == InLines(Positive(a.req, <<7, 7>>))
<1>1. l \in Seq(PlainLines) /\ l # <<>>
  BY InLinesShape
<1>2. r \in PlainLines /\ Unanswered(r, p) /\ InLines(Refusal(a.req, NeighbourCode)) = <<r>>
  BY RefusalShape, NeighbourIsByte
<1>3. Positive(a.req, <<7, 7>>) # <<>> => q \in Seq(PlainLines)
  BY InLinesShape
<1>4. Positive(a.req, <<7, 7>>) = <<>> => FALSE
  <2>1. Len(<<a.req.sid + 64>> \o EchoOf(a.req) \o <<7, 7>>) # 0
    <3> DEFINE u == Positive(a.req, <<7, 7>>)
    <3>1. u = (<<a.req.sid + 64>> \o EchoOf(a.req)) \o <<7, 7>>
      BY DEF Positive
    <3>2. Len(<<a.req.sid + 64>>) = 1
      OBVIOUS
    <3> QED
      BY <3>1
  <2> QED
    BY <2>1 DEF Positive
<1>5. /\ blankLine \in PlainLines /\ Unanswered(blankLine, p)
      /\ echoLine \in PlainLines /\ Unanswered(echoLine, p) /\ statusLine \in PlainLines
  BY DEF PlainLines, Unanswered
<1> DEFINE Fits(t) == t \in Seq(PlainLines) /\ HasAnswer(t, l[1], p)
<1> HIDE DEF l, r, q
<1>6. CASE a.other = "none"
  <2>1. Fits(<<blankLine>> \o l)
    BY <1>1, <1>5, AnswerSecond
  <2>2. Text(a) = <<blankLine>> \o l
    BY <1>6 DEF Text, l
  <2> QED
    BY <2>1, <2>2 DEF l
<1>7. CASE a.other = "status"
  <2> DEFINE s == <<statusLine>>
             m == l \o s
  <2>1. s \in Seq(PlainLines)
    BY <1>5
  <2>2. m \in Seq(PlainLines) /\ m # <<>> /\ m[1] = l[1]
    BY <1>1, <2>1, LinesFollow
  <2> HIDE DEF m
  <2>3. Fits(<<echoLine>> \o m)
    BY <1>5, <2>2, AnswerSecond
  <2>4. Text(a) = (<<echoLine>> \o l) \o s
    BY <1>7 DEF Text, l
  <2> HIDE DEF s
  <2>5. (<<echoLine>> \o l) \o s = <<echoLine>> \o (l \o s)
    <3>1. <<echoLine>> \in Seq(PlainLines)
      BY <1>5
    <3>2. \A x, y, z \in Seq(PlainLines) : (x \o y) \o z = x \o (y \o z)
      BY ConcatAssociative, SMTT(30)
    <3> QED
      BY <1>1, <2>1, <3>1, <3>2
  <2> QED
    BY <2>3, <2>4, <2>5 DEF l, m
<1>8. CASE a.other = "refusal_before"
  <2>1. Fits(<<r>> \o l)
    BY <1>1, <1>2, AnswerSecond
  <2>2. Text(a) = <<r>> \o l
    BY <1>2, <1>8 DEF Text, l
  <2> QED
    BY <2>1, <2>2 DEF l
<1>9. ASSUME NEW t \in Seq(PlainLines), Text(a) = l \o t PROVE Fits(Text(a))
  <2>1. l \o t \in Seq(PlainLines) /\ l \o t # <<>> /\ (l \o t)[1] = l[1]
    BY <1>1, LinesFollow
  <2> QED
    BY <1>9, <2>1, AnswerFirst
<1>10. CASE a.other = "refusal_after"
  <2>1. <<r>> \in Seq(PlainLines) /\ Text(a) = l \o <<r>>
    BY <1>2, <1>10 DEF Text, l
  <2> QED
    BY <1>9, <2>1 DEF l
<1>11. CASE a.other = "positive_after"
  <2>1. q \in Seq(PlainLines) /\ Text(a) = l \o q
    BY <1>3, <1>4, <1>11 DEF Text, l, q
  <2> QED
    BY <1>9, <2>1 DEF l
<1> QED
  BY <1>6, <1>7, <1>8, <1>10, <1>11 DEF Neighbours

(***************************************************************************)
(* A positive answer                                                       *)
(***************************************************************************)

\* A request that has an echo, the echo in its answer, and the answer.
HasEcho(c, e) ==
    /\ c.sid \in EchoServices /\ c.data \in Seq(Byte)
    /\ e = EchoOf(c) /\ e = Slice(c.data, 0, EchoLength(c.sid)) /\ e \in Seq(Byte)
    /\ Len(e) = EchoLength(c.sid) /\ Len(e) \in 1..3 /\ Len(c.data) >= Len(e)
    /\ \A i \in 1..Len(e) : e[i] = c.data[i]

\* The calls of the services that are checked have one.
LEMMA EchoShape ==
    ASSUME NEW c \in Calls, c.sid \in EchoServices
    PROVE  HasEcho(c, EchoOf(c))
<1> DEFINE n == EchoLength(c.sid)
           e == SubSeq(c.data, 1, n)
<1>1. c.data \in Seq(Byte) /\ Len(c.data) >= n /\ c.sid \in Byte
  BY CallsAssumption
<1>2. n \in 1..3
  BY DEF EchoServices, EchoLength
<1> HIDE DEF n
<1>3. Slice(c.data, 0, n) = e
  BY <1>2 DEF Slice
<1>4. EchoOf(c) = e
  <2>1. EchoOf(c) = Slice(c.data, 0, IF n > Len(c.data) THEN Len(c.data) ELSE n)
    BY DEF EchoOf, n
  <2>2. (IF n > Len(c.data) THEN Len(c.data) ELSE n) = n
    BY <1>1, <1>2
  <2> QED
    BY ONLY <1>3, <2>1, <2>2, Zenon
<1>5. e \in Seq(Byte) /\ Len(e) = n /\ \A i \in 1..n : e[i] = c.data[i]
  BY <1>1, <1>2
<1> HIDE DEF e
<1> QED
  BY <1>1, <1>2, <1>3, <1>4, <1>5 DEF HasEcho, n

\* The services' answers have a first byte of their own, and no refusal's.
LEMMA ServiceByte ==
    ASSUME NEW s \in EchoServices
    PROVE  s + 64 \in Byte /\ s + 64 # NEGATIVE /\ s + 64 <= 255 /\ s \in Byte /\ s \in Nat
BY DEF EchoServices, Byte, NEGATIVE

\* Its positive answer is the service byte, the echo and the record.
LEMMA PositiveShape ==
    ASSUME NEW c, NEW e, HasEcho(c, e), NEW r \in Seq(Byte)
    PROVE  /\ Positive(c, r) \in Seq(Byte) /\ Positive(c, r) # <<>>
           /\ Positive(c, r)[1] = c.sid + 64
           /\ Len(Positive(c, r)) = 1 + Len(e) + Len(r)
           /\ After(Positive(c, r), 1) \in Seq(Byte)
           /\ StartsWith(After(Positive(c, r), 1), e)
           /\ \A i \in 1..Len(e) : Positive(c, r)[i + 1] = e[i]
<1> DEFINE s == <<c.sid + 64>>
           b == (s \o e) \o r
<1>1. s \in Seq(Byte) /\ Len(s) = 1 /\ s[1] = c.sid + 64
  <2>1. c.sid \in EchoServices
    BY DEF HasEcho
  <2>2. c.sid + 64 \in Byte
    BY <2>1, ServiceByte, Zenon
  <2> QED
    BY ONLY <2>2
<1>2. e \in Seq(Byte) /\ Len(e) \in Nat
  BY DEF HasEcho
<1> HIDE DEF s
<1>3. /\ b = s \o (e \o r) /\ b \in Seq(Byte) /\ e \o r \in Seq(Byte)
      /\ Len(b) = Len(s) + Len(e) + Len(r) /\ After(b, Len(s)) = e \o r
  <2>1. /\ ThreeParts(b, s, e, r)
        /\ e \o r \in Seq(Byte) /\ b \in Seq(Byte)
    BY <1>1, <1>2, MiddleSeparated, Zenon
  <2> QED
    BY <2>1, Zenon DEF ThreeParts
<1>4. \A i \in 1..Len(s) : b[i] = s[i]
  BY <1>1, <1>3, Joined
<1>5. \A i \in 1..Len(e) : (e \o r)[i] = e[i]
  BY <1>2, Joined
<1>6. StartsWith(e \o r, e)
  <2>1. StartsWith(e, e)
    BY <1>2, Begins
  <2> QED
    BY <1>2, <2>1, BeginsLonger
<1> DEFINE er == e \o r
<1>7. b = s \o er /\ er \in Seq(Byte) /\ \A i \in 1..Len(er) : (s \o er)[1 + i] = er[i]
  BY <1>1, <1>3, Joined
<1>8. Len(er) = Len(e) + Len(r) /\ Len(r) \in Nat
  BY <1>2, Joined
<1> HIDE DEF b, er
<1>9. ASSUME NEW i \in 1..Len(e) PROVE b[i + 1] = e[i]
  <2>1. i \in 1..Len(er) /\ i + 1 = 1 + i
    BY <1>2, <1>8
  <2> QED
    BY <1>5, <1>7, <2>1 DEF er
<1>10. Positive(c, r) = b
  BY DEF Positive, HasEcho, s, b
<1>11. b # <<>> /\ b[1] = c.sid + 64 /\ Len(b) = 1 + Len(e) + Len(r)
  BY <1>1, <1>2, <1>3, <1>4, <1>8
<1>12. After(b, 1) = er
  BY <1>1, <1>3 DEF er
<1> QED
  BY <1>3, <1>6, <1>7, <1>9, <1>10, <1>11, <1>12 DEF er

\* What ElmDecode drops from the front of an answer of a checked service.
LEMMA EchoPrefix ==
    ASSUME NEW c, c.sid \in EchoServices, c.data \in Seq(Byte)
    PROVE  /\ SkipBytes(c.sid) = 1
           /\ expected_response_prefix(<<c.sid>> \o c.data, 1) = {<<c.sid + 64>>}
<1> DEFINE d == <<c.sid>> \o c.data
<1>1. SkipBytes(c.sid) = 1
  BY DEF SkipBytes, EchoServices
<1>2. <<c.sid>> \in Seq(Byte) /\ Len(<<c.sid>>) = 1 /\ <<c.sid>>[1] = c.sid
  BY DEF EchoServices, Byte
<1>3. d \in Seq(Byte) /\ Len(d) = 1 + Len(c.data) /\ d[1] = c.sid /\ Len(c.data) \in Nat
  BY <1>2
<1> HIDE DEF d
<1>4. (d[1] + 64) % 256 = c.sid + 64
  BY <1>3 DEF EchoServices
<1>5. Slice(d, 1, 1 - 1) = <<>>
  BY <1>3 DEF Slice
<1>6. ~(1 = 0 \/ Len(d) < 1)
  BY <1>3
<1>7. expected_response_prefix(d, 1) = {<<c.sid + 64>> \o <<>>}
  BY <1>4, <1>5, <1>6 DEF expected_response_prefix
<1>8. <<c.sid + 64>> \o <<>> = <<c.sid + 64>>
  <2>1. <<c.sid + 64>> \in Seq(Nat)
    BY DEF EchoServices
  <2> QED
    BY <2>1
<1> QED
  BY <1>1, <1>7, <1>8 DEF d

\* The first line of an answer, of which every echo fits into one.
LEMMA FirstBytes ==
    ASSUME NEW s \in Byte, NEW e \in Seq(Byte), Len(e) \in 1..3,
           NEW b \in Seq(Byte), Len(b) >= 1 + Len(e), b[1] = s, \A i \in 1..Len(e) : b[i + 1] = e[i],
           NEW f, f = SubSeq(b, 1, IF Len(b) <= LineLen THEN Len(b) ELSE LineLen)
    PROVE  /\ f \in Seq(Byte) /\ StartsWith(f, <<s>>)
           /\ After(f, 1) \in Seq(Byte) /\ After(f, 1) # <<>> /\ StartsWith(After(f, 1), e)
<1> DEFINE m == IF Len(b) <= LineLen THEN Len(b) ELSE LineLen
           x == After(f, 1)
<1>1. m \in 1..Len(b) /\ m >= 1 + Len(e) /\ f = SubSeq(b, 1, m)
  BY DEF LineLen
<1> HIDE DEF m
<1>2. f \in Seq(Byte) /\ Len(f) = m /\ \A i \in 1..m : f[i] = b[i]
  <2>1. b \in Seq(Byte) /\ m \in 1..Len(b)
    BY <1>1
  <2>2. /\ SubSeq(b, 1, m) \in Seq(Byte) /\ Len(SubSeq(b, 1, m)) = m
        /\ \A i \in 1..m : SubSeq(b, 1, m)[i] = b[i]
    BY ONLY <2>1
  <2>3. f = SubSeq(b, 1, m)
    BY <1>1
  <2> QED
    BY ONLY <2>2, <2>3, Zenon
<1>3. f[1] = s
  BY <1>1, <1>2
<1>4. StartsWith(f, <<s>>)
  <2>1. <<s>> \in Seq(Byte) /\ Len(<<s>>) = 1 /\ <<s>>[1] = s
    OBVIOUS
  <2>2. ASSUME NEW i \in 1..1 PROVE f[i] = <<s>>[i]
    <3>1. i = 1
      OBVIOUS
    <3> QED
      BY ONLY <1>3, <2>1, <3>1
  <2>3. Len(f) >= 1
    BY <1>1, <1>2
  <2> DEFINE y == <<s>>
  <2>4. y \in Seq(Byte) /\ Len(y) = 1 /\ \A i \in 1..1 : f[i] = y[i]
    BY <2>1, <2>2
  <2> HIDE DEF y
  <2>5. Len(f) >= Len(y) /\ \A i \in 1..Len(y) : f[i] = y[i]
    BY <2>3, <2>4
  <2>6. StartsWith(f, y)
    BY <1>2, <2>4, <2>5, Begins, Zenon
  <2> QED
    BY <2>6 DEF y
<1>5. x \in Seq(Byte) /\ Len(x) = m - 1 /\ \A i \in 1..(m - 1) : x[i] = f[i + 1]
  BY <1>1, <1>2 DEF After
<1> HIDE DEF x
<1>6. Len(x) >= Len(e) /\ Len(x) # 0
  BY <1>1, <1>5
<1>7. ASSUME NEW i \in 1..Len(e) PROVE x[i] = e[i]
  <2>1. i \in 1..(m - 1) /\ i + 1 \in 1..m
    <3>1. Len(e) \in 1..3 /\ m >= 1 + Len(e) /\ i \in 1..Len(e) /\ m \in Int
      BY <1>1
    <3> QED
      BY ONLY <3>1
  <2> QED
    BY <1>2, <1>5, <2>1
<1>8. StartsWith(x, e)
  BY <1>5, <1>6, <1>7, Begins
<1>9. x # <<>>
  BY <1>6
<1> QED
  BY <1>2, <1>4, <1>5, <1>8, <1>9 DEF x

\* A prefix of a prefix.
LEMMA BeginsWithin ==
    ASSUME NEW S, NEW s \in Seq(S), NEW t \in Seq(S), NEW p \in Seq(S),
           StartsWith(s, t), StartsWith(t, p)
    PROVE  StartsWith(s, p)
<1>1. Len(s) >= Len(t) /\ \A i \in 1..Len(t) : s[i] = t[i]
  BY Begins
<1>2. Len(t) >= Len(p) /\ \A i \in 1..Len(p) : t[i] = p[i]
  BY Begins
<1>3. Len(s) \in Nat /\ Len(t) \in Nat /\ Len(p) \in Nat
  OBVIOUS
<1>4. \A i \in 1..Len(p) : i \in 1..Len(t)
  BY <1>2, <1>3
<1>5. Len(s) >= Len(p) /\ \A i \in 1..Len(p) : s[i] = p[i]
  BY <1>1, <1>2, <1>3, <1>4
<1> QED
  BY <1>5, Begins

\* A positive answer: the request it answers, its echo and its record.
Answers(a, d, e, r) ==
    /\ a.req = d /\ HasEcho(d, e) /\ r \in Seq(Byte) /\ a.pdu = Positive(d, r)
    /\ a.other \in Neighbours

\* What the ELM decoder makes of the text of an answer begins with its echo,
\* when the call that hears it is of the same service.
LEMMA ElmKeepsEcho ==
    ASSUME NEW c \in Calls, NEW a, NEW d, NEW e, NEW r, Answers(a, d, e, r), c.sid = d.sid,
           NEW h, h = send_routed_command(c.sid, c.data, Text(a), "can"), h.ok
    PROVE  h.v \in Seq(Byte) /\ StartsWith(h.v, e)
<1> DEFINE s == c.sid + 64
           l == InLines(a.pdu)[1]
           f == SubSeq(a.pdu, 1, IF Len(a.pdu) <= LineLen THEN Len(a.pdu) ELSE LineLen)
           t == Text(a)
           g == decode_elm_response_payload_for_command(t, "can", SkipBytes(c.sid), <<c.sid>> \o c.data)
<1>1. c.sid \in EchoServices /\ s \in Byte /\ s # NEGATIVE /\ c.data \in Seq(Byte)
  <2>1. c.sid \in EchoServices
    BY DEF Answers, HasEcho
  <2>2. c.data \in Seq(Byte)
    BY CallsAssumption
  <2> QED
    BY <2>1, <2>2, ServiceByte, Zenon
<1>2. SkipBytes(c.sid) = 1 /\ expected_response_prefix(<<c.sid>> \o c.data, 1) = {<<s>>}
  BY <1>1, EchoPrefix
<1>3. /\ HasEcho(d, e) /\ r \in Seq(Byte) /\ a.pdu = Positive(d, r) /\ a.req = d
      /\ a.other \in Neighbours
  BY DEF Answers
<1>4. /\ a.pdu \in Seq(Byte) /\ a.pdu # <<>> /\ a.pdu[1] = s /\ Len(a.pdu) = 1 + Len(e) + Len(r)
      /\ \A i \in 1..Len(e) : a.pdu[i + 1] = e[i]
  BY <1>3, PositiveShape
<1>5. e \in Seq(Byte) /\ Len(e) \in 1..3 /\ d.sid \in Byte
  <2>1. d.sid \in EchoServices /\ e \in Seq(Byte) /\ Len(e) \in 1..3
    BY <1>3 DEF HasEcho
  <2> QED
    BY <2>1, ServiceByte, Zenon
<1> HIDE DEF s
<1>6. f \in Seq(Byte) /\ StartsWith(f, <<s>>) /\ After(f, 1) \in Seq(Byte)
      /\ After(f, 1) # <<>> /\ StartsWith(After(f, 1), e)
  <2>1. Len(a.pdu) >= 1 + Len(e)
    <3>1. Len(r) \in Nat
      BY <1>3
    <3> QED
      BY <1>4, <1>5, <3>1
  <2> DEFINE b == a.pdu
  <2>2. /\ s \in Byte /\ e \in Seq(Byte) /\ Len(e) \in 1..3
        /\ b \in Seq(Byte) /\ Len(b) >= 1 + Len(e) /\ b[1] = s
        /\ \A i \in 1..Len(e) : b[i + 1] = e[i]
        /\ f = SubSeq(b, 1, IF Len(b) <= LineLen THEN Len(b) ELSE LineLen)
    BY <1>1, <1>4, <1>5, <2>1
  <2> HIDE DEF f, b
  <2> QED
    BY <2>2, FirstBytes, ZenonT(40)
<1>7. l = hexLine(f)
  BY <1>4, InLinesShape
<1>8. <<s>> \in Seq(Byte) /\ <<s>> # <<>> /\ <<s>>[1] = s /\ Len(<<s>>) = 1
  BY <1>1
<1>9. Positive(a.req, <<7, 7>>) \in Seq(Byte)
  <2>1. <<7, 7>> \in Seq(Byte)
    BY DEF Byte
  <2> QED
    BY <1>3, <2>1, PositiveShape
<1>10. t \in Seq(PlainLines) /\ HasAnswer(t, l, <<s>>)
  BY <1>1, <1>3, <1>4, <1>5, <1>8, <1>9, TextShape
<1> HIDE DEF f, l, t, g
<1>11. PICK k \in 1..Len(t) : t[k] = l /\ \A i \in 1..(k - 1) : Unanswered(t[i], <<s>>)
  BY <1>10 DEF HasAnswer
<1>12. h = IF g.ok THEN Ok(truncate_known_payload(c.sid, c.data, g.v)) ELSE check_response_error(t)
  BY DEF send_routed_command, g, t
<1>13. g.ok /\ h = Ok(truncate_known_payload(c.sid, c.data, g.v))
  BY <1>12, CheckIsError
<1>14. truncate_known_payload(c.sid, c.data, g.v) = g.v
  <2> DEFINE n == c.sid
  <2>1. n \in EchoServices
    BY <1>1
  <2> HIDE DEF n
  <2>2. n \notin {1, 2, 9, 33}
    BY ONLY <2>1 DEF EchoServices
  <2> QED
    BY ONLY <2>2 DEF truncate_known_payload, n
<1>15. h.v = g.v
  BY <1>13, <1>14 DEF Ok
<1>16. g = decode_elm_response_payload_for_command(t, "can", 1, <<c.sid>> \o c.data)
  BY <1>2 DEF g
<1>17. g.v \in Seq(Byte) /\ StartsWith(g.v, After(f, 1))
  <2> DEFINE p == <<s>>
             command == <<c.sid>> \o c.data
  <2>1. expected_response_prefix(command, 1) = {p} /\ 1 \in Nat \ {0} /\ p \in Seq(Byte)
    BY <1>2, <1>8
  <2>2. t[k] = hexLine(f) /\ After(f, Len(p)) # <<>> /\ f \in Seq(Byte) /\ StartsWith(f, p)
    BY <1>6, <1>7, <1>8, <1>11
  <2>3. k \in 1..Len(t) /\ \A i \in 1..(k - 1) : Unanswered(t[i], p)
    BY <1>11
  <2>4. /\ t \in Seq(PlainLines) /\ g.ok
        /\ g = decode_elm_response_payload_for_command(t, "can", 1, command)
    BY <1>10, <1>13, <1>16
  <2>5. Len(p) = 1
    BY <1>8
  <2> HIDE DEF p, command
  <2>6. g.v \in Seq(Byte) /\ StartsWith(g.v, After(f, Len(p)))
    BY <2>1, <2>2, <2>3, <2>4, DecodedBegins
  <2> QED
    BY <2>5, <2>6
<1>18. StartsWith(g.v, e)
  BY <1>5, <1>6, <1>17, BeginsWithin
<1> QED
  BY <1>15, <1>17, <1>18

\* What any transport hands back of an answer: the whole of it, which begins
\* with the service byte, or what begins with the echo.
Carries(p, d, e) ==
    /\ p \in Seq(Byte)
    /\ \/ p # <<>> /\ p[1] = d.sid + 64 /\ StartsWith(After(p, 1), e)
       \/ StartsWith(p, e)

\* An answer that is handed back is carried to the call whole or by its echo.
LEMMA HandedBackCarries ==
    ASSUME transport \in Transports, NEW c \in Calls, NEW a, NEW d, NEW e, NEW r,
           Answers(a, d, e, r), c.sid = d.sid, HandedBack(c, a).ok
    PROVE  Carries(HandedBack(c, a).v, d, e)
<1> DEFINE h == HandedBack(c, a)
<1>1. /\ a.pdu \in Seq(Byte) /\ a.pdu # <<>> /\ a.pdu[1] = d.sid + 64
      /\ After(a.pdu, 1) \in Seq(Byte) /\ StartsWith(After(a.pdu, 1), e)
  BY PositiveShape DEF Answers
<1>2. d.sid + 64 # NEGATIVE
  <2>1. d.sid \in EchoServices
    BY DEF Answers, HasEcho
  <2> QED
    BY <2>1, ServiceByte, Zenon
<1>3. CASE transport = "raw"
  <2>1. h = Ok(a.pdu)
    BY <1>3 DEF HandedBack
  <2> QED
    BY <1>1, <2>1 DEF Ok, Carries
<1>4. CASE transport = "stripped"
  <2>1. h = Ok(After(a.pdu, 1))
    BY <1>1, <1>2, <1>4 DEF HandedBack
  <2> QED
    BY <1>1, <2>1 DEF Ok, Carries
<1>5. CASE transport = "elm"
  <2>1. h = send_routed_command(c.sid, c.data, Text(a), "can")
    BY <1>5 DEF HandedBack
  <2> HIDE DEF h
  <2>2. h.ok
    BY DEF h
  <2>3. h.v \in Seq(Byte) /\ StartsWith(h.v, e)
    BY <2>1, <2>2, ElmKeepsEcho
  <2> QED
    BY <2>3 DEF Carries, h
<1> QED
  BY <1>3, <1>4, <1>5, UdsAssumption

\* A request with an echo has data.
LEMMA EchoNotEmpty ==
    ASSUME NEW c, NEW e, HasEcho(c, e)
    PROVE  c.data # <<>>
<1>1. Len(c.data) >= Len(e) /\ Len(e) \in 1..3 /\ c.data \in Seq(Byte)
  BY DEF HasEcho
<1>2. Len(c.data) # Len(<< >>)
  BY ONLY <1>1
<1> QED
  BY ONLY <1>2, Zenon

\* request_service normalises it to what begins with the echo, unless it is
\* a whole answer to another request, whose first byte is none of this one's.
LEMMA NormalizeCarries ==
    ASSUME NEW c, NEW d, NEW e, NEW p, HasEcho(c, EchoOf(c)), HasEcho(d, e), c.sid = d.sid,
           Carries(p, d, e), ~LooksWhole(c), ~LooksWhole(d),
           NEW n, n = normalize_transport_payload(c.sid, c.data, p), n.ok
    PROVE  /\ n.v \in Seq(Byte)
           /\ StartsWith(n.v, e) \/ (n.v # <<>> /\ n.v[1] # c.data[1])
<1> DEFINE s == c.sid + 64
<1>1. c.sid \in EchoServices /\ s # NEGATIVE /\ ~(s > 255)
  <2>1. c.sid \in EchoServices
    BY DEF HasEcho
  <2>2. s # NEGATIVE /\ s <= 255 /\ c.sid \in Nat
    BY <2>1, ServiceByte, Zenon
  <2> QED
    BY <2>1, <2>2
<1>2. positive_response_sid(c.sid).ok /\ positive_response_sid(c.sid).v = s
  BY <1>1 DEF positive_response_sid, Ok
<1>3. c.data # <<>> /\ d.data # <<>>
  BY EchoNotEmpty
<1>4. c.data[1] # s /\ d.data[1] # s
  BY <1>3 DEF LooksWhole
<1>5. p \in Seq(Byte)
  BY DEF Carries
<1> HIDE DEF s
<1> DEFINE whole == /\ p # <<>> /\ p[1] = s
                    /\ raw_positive_response_matches_echo(c.sid, c.data, After(p, 1))
<1>6. CASE p # <<>> /\ p[1] = s /\ StartsWith(After(p, 1), e)
  <2>1. n = IF whole THEN Ok(After(p, 1)) ELSE Ok(p)
    BY <1>1, <1>2, <1>6 DEF normalize_transport_payload
  <2>2. After(p, 1) \in Seq(Byte)
    BY <1>5, <1>6 DEF After
  <2>3. CASE whole
    BY <1>6, <2>1, <2>2, <2>3 DEF Ok
  <2>4. CASE ~whole
    BY <1>4, <1>5, <1>6, <2>1, <2>4 DEF Ok
  <2> QED
    BY <2>3, <2>4
<1>7. CASE StartsWith(p, e)
  <2>1. p # <<>> /\ p[1] = d.data[1]
    <3>1. e \in Seq(Byte) /\ Len(e) \in 1..3 /\ e[1] = d.data[1]
      BY DEF HasEcho
    <3>2. Len(p) >= Len(e) /\ \A i \in 1..Len(e) : p[i] = e[i]
      BY <1>5, <1>7, <3>1, Begins
    <3> QED
      BY <1>5, <3>1, <3>2
  <2>2. p[1] # NEGATIVE
    BY <2>1, RefusalIsError DEF normalize_transport_payload, parse_uds_response
  <2>3. n = Ok(p)
    BY <1>2, <1>4, <2>1, <2>2 DEF normalize_transport_payload
  <2> QED
    BY <1>5, <1>7, <2>3 DEF Ok
<1> QED
  BY <1>6, <1>7 DEF Carries, s

\* An identifier is its two bytes.
LEMMA Be16Injective ==
    ASSUME NEW a \in Seq(Byte), Len(a) >= 2, NEW b \in Seq(Byte), Len(b) >= 2, Be16(a) = Be16(b)
    PROVE  a[1] = b[1] /\ a[2] = b[2]
<1>1. a[1] \in Byte /\ a[2] \in Byte /\ b[1] \in Byte /\ b[2] \in Byte
  OBVIOUS
<1>2. 256 * a[1] + a[2] = 256 * b[1] + b[2]
  BY DEF Be16
<1> DEFINE u == a[1]
           v == a[2]
           w == b[1]
           x == b[2]
<1> HIDE DEF u, v, w, x
<1>3. u \in 0..255 /\ v \in 0..255 /\ w \in 0..255 /\ x \in 0..255 /\ 256 * u + v = 256 * w + x
  BY <1>1, <1>2 DEF Byte, u, v, w, x
<1>4. u = w /\ v = x
  BY ONLY <1>3
<1> QED
  BY <1>4 DEF u, v, w, x

\* split_required_echo and split_required_did compare what they take off.
LEMMA EchoTaken ==
    ASSUME NEW q \in Seq(Byte), NEW b, NEW r, r = split_required_echo(q, b), r.ok
    PROVE  q # <<>> /\ q[1] = b /\ r.v = After(q, 1) /\ r.v \in Seq(Byte)
           /\ Len(r.v) = Len(q) - 1 /\ \A i \in 1..(Len(q) - 1) : r.v[i] = q[i + 1]
<1>1. q # <<>> /\ q[1] = b /\ r.v = After(q, 1)
  BY DEF split_required_echo, Ok, Err
<1>2. After(q, 1) = SubSeq(q, 2, Len(q)) /\ Len(q) \in Nat \ {0}
  BY <1>1 DEF After
<1>3. /\ SubSeq(q, 2, Len(q)) \in Seq(Byte) /\ Len(SubSeq(q, 2, Len(q))) = Len(q) - 1
      /\ \A i \in 1..(Len(q) - 1) : SubSeq(q, 2, Len(q))[i] = q[i + 1]
  <2>1. q \in Seq(Byte) /\ Len(q) \in Nat \ {0}
    BY <1>2
  <2>2. SubSeq(q, 2, Len(q)) \in Seq(Byte)
    BY ONLY <2>1
  <2>3. Len(SubSeq(q, 2, Len(q))) = Len(q) - 1
    <3>1. CASE Len(q) = 1
      BY ONLY <2>1, <3>1
    <3>2. CASE Len(q) > 1
      BY ONLY <2>1, <3>2
    <3>3. Len(q) = 1 \/ Len(q) > 1
      <4>1. \A m \in Nat \ {0} : m = 1 \/ m > 1
        OBVIOUS
      <4> QED
        BY <2>1, <4>1, Zenon
    <3> QED
      BY <3>1, <3>2, <3>3, Zenon
  <2>4. \A i \in 1..(Len(q) - 1) : SubSeq(q, 2, Len(q))[i] = q[i + 1]
    BY ONLY <2>1
  <2> QED
    BY ONLY <2>2, <2>3, <2>4, Zenon
<1> QED
  BY <1>1, <1>2, <1>3

\* split_required_did compares both bytes of the identifier.
LEMMA DidTaken ==
    ASSUME NEW q \in Seq(Byte), NEW did \in Seq(Byte), Len(did) >= 2, split_required_did(q, did).ok
    PROVE  Len(q) >= 2 /\ q[1] = did[1] /\ q[2] = did[2]
<1>1. ~(Len(q) < 2) /\ Be16(q) = Be16(did)
  BY DEF split_required_did, Err
<1>2. Len(q) >= 2
  BY <1>1
<1> QED
  BY <1>1, <1>2, Be16Injective

\* Two echoes of a service that agree on their bytes are the same.
LEMMA SameEcho ==
    ASSUME NEW c, NEW e, HasEcho(c, e), NEW d, NEW f, HasEcho(d, f), c.sid = d.sid,
           \A i \in 1..EchoLength(c.sid) : c.data[i] = f[i]
    PROVE  e = f
<1> DEFINE n == EchoLength(c.sid)
<1>1. e \in Seq(Byte) /\ Len(e) = n /\ \A i \in 1..n : e[i] = c.data[i]
  BY DEF HasEcho
<1>2. f \in Seq(Byte) /\ Len(f) = n
  BY DEF HasEcho
<1> HIDE DEF n
<1>3. \A i \in 1..n : c.data[i] = f[i]
  BY DEF n
<1>4. \A i \in 1..n : e[i] = f[i]
  BY ONLY <1>1, <1>3
<1>5. \A i \in 1..Len(e) : e[i] = f[i]
  BY ONLY <1>1, <1>4
<1> QED
  BY ONLY <1>1, <1>2, <1>5

\* The first byte of an echo is taken off by every call that checks it.
LEMMA TakenFirst ==
    ASSUME NEW c \in Calls, Checked(c), NEW q \in Seq(Byte), Taken(c, q).ok
    PROVE  q # <<>> /\ q[1] = c.data[1]
<1>1. /\ c.data \in Seq(Byte)
      /\ c.take = "dtcs" => c.data[1] = 2
      /\ c.take = "did" => Len(c.data) >= 2
  BY CallsAssumption DEF EchoLength, EchoServices
<1>2. CASE c.take \in {"echo", "dtcs"}
  <2> DEFINE b == IF c.take = "echo" THEN c.data[1] ELSE 2
             r == split_required_echo(q, b)
  <2>1. r.ok
    BY <1>2 DEF Taken, Then, Err
  <2>2. b = c.data[1]
    BY <1>1, <1>2
  <2> HIDE DEF b
  <2>3. q # <<>> /\ q[1] = b
    BY <2>1, EchoTaken
  <2> QED
    BY <2>2, <2>3
<1>3. CASE c.take = "did"
  <2>1. split_required_did(q, c.data).ok
    BY <1>3 DEF Taken
  <2>2. Len(q) >= 2 /\ q[1] = c.data[1]
    BY <1>1, <1>3, <2>1, DidTaken
  <2>3. q # <<>>
    BY <2>2
  <2> QED
    BY <2>2, <2>3
<1>4. CASE c.take = "routine"
  <2>1. split_required_echo(q, c.data[1]).ok
    BY <1>4 DEF Taken, RequireRoutine, Then, Err
  <2> QED
    BY <2>1, EchoTaken
<1> QED
  BY <1>2, <1>3, <1>4 DEF Checked

\* What a call takes apart and begins with an echo begins with its own.
LEMMA TakenIsOwn ==
    ASSUME NEW c \in Calls, Checked(c), NEW q \in Seq(Byte), Taken(c, q).ok,
           NEW d, NEW f, HasEcho(d, f), c.sid = d.sid, StartsWith(q, f)
    PROVE  EchoOf(c) = f
<1> DEFINE n == EchoLength(c.sid)
<1>1. c.sid \in EchoServices /\ c.data \in Seq(Byte) /\ Len(c.data) >= n
  <2>1. c.sid \in EchoServices
    BY DEF HasEcho
  <2> QED
    BY <2>1, CallsAssumption
<1>2. HasEcho(c, EchoOf(c))
  BY <1>1, EchoShape
<1>3. Len(q) >= Len(f) /\ Len(f) = n /\ \A i \in 1..n : q[i] = f[i]
  <2>1. f \in Seq(Byte) /\ Len(f) = n
    BY DEF HasEcho
  <2> QED
    BY <2>1, Begins
<1>4. SUFFICES \A i \in 1..n : c.data[i] = q[i]
  BY <1>2, <1>3, SameEcho
<1>5. q[1] = c.data[1]
  BY TakenFirst
<1>6. CASE c.take \in {"echo", "dtcs"}
  <2>1. c.sid \in {16, 17, 25, 39, 41, 62, 133}
    BY <1>6, CallsAssumption DEF EchoServices
  <2>2. n = 1
    BY <2>1 DEF EchoLength
  <2> HIDE DEF n
  <2> QED
    BY <1>5, <2>2
<1>7. CASE c.take = "did"
  <2>1. n = 2
    BY <1>7, CallsAssumption DEF EchoLength
  <2> HIDE DEF n
  <2>2. split_required_did(q, c.data).ok
    BY <1>7 DEF Taken
  <2>3. q[1] = c.data[1] /\ q[2] = c.data[2]
    BY <1>1, <2>1, <2>2, DidTaken
  <2> QED
    BY <2>1, <2>3
<1>8. CASE c.take = "routine"
  <2> DEFINE r == split_required_echo(q, c.data[1])
             id == After(c.data, 1)
  <2>1. n = 3
    BY <1>8, CallsAssumption DEF EchoLength
  <2> HIDE DEF n
  <2>2. r.ok /\ split_required_did(r.v, id).ok
    BY <1>8 DEF Taken, RequireRoutine, Then, Err
  <2>3. r.v \in Seq(Byte) /\ Len(r.v) = Len(q) - 1 /\ \A i \in 1..(Len(q) - 1) : r.v[i] = q[i + 1]
    BY <2>2, EchoTaken
  <2>4. id \in Seq(Byte) /\ Len(id) >= 2 /\ id[1] = c.data[2] /\ id[2] = c.data[3]
    BY <1>1, <2>1 DEF After
  <2> HIDE DEF r, id
  <2>5. Len(r.v) >= 2 /\ r.v[1] = id[1] /\ r.v[2] = id[2]
    BY <2>2, <2>3, <2>4, DidTaken
  <2>6. r.v[1] = q[2] /\ r.v[2] = q[3]
    BY <2>3, <2>5
  <2>7. q[2] = c.data[2] /\ q[3] = c.data[3]
    BY <2>4, <2>5, <2>6
  <2> QED
    BY <1>5, <2>1, <2>7
<1> QED
  BY <1>6, <1>7, <1>8 DEF Checked

\* An answer to another request of the service is not taken for its own.
LEMMA NoOtherTaken ==
    ASSUME transport \in Transports, NEW c \in Calls, Checked(c), ~LooksWhole(c),
           NEW a, NEW d \in Calls, NEW r, Answers(a, d, EchoOf(d), r), ~LooksWhole(d), c.sid = d.sid,
           Then(HandedBack(c, a), LAMBDA q : Returned(c, q)).ok
    PROVE  EchoOf(c) = EchoOf(d)
<1> DEFINE h == HandedBack(c, a)
           n == normalize_transport_payload(c.sid, c.data, h.v)
<1>1. HasEcho(d, EchoOf(d)) /\ c.sid \in EchoServices
  BY DEF Answers, HasEcho
<1>2. HasEcho(c, EchoOf(c))
  BY <1>1, EchoShape
<1>3. h.ok /\ Returned(c, h.v).ok
  BY DEF Then, Err
<1>4. Carries(h.v, d, EchoOf(d))
  BY <1>3, HandedBackCarries
<1>5. Returned(c, h.v) = Then(n, LAMBDA q : Taken(c, q))
  BY DEF Returned, Checked
<1>6. n.ok /\ Taken(c, n.v).ok
  BY <1>3, <1>5 DEF Then, Err
<1>7. n.v \in Seq(Byte) /\ (StartsWith(n.v, EchoOf(d)) \/ (n.v # <<>> /\ n.v[1] # c.data[1]))
  <2> HIDE DEF h
  <2> QED
    BY <1>1, <1>2, <1>4, <1>6, NormalizeCarries
<1>8. n.v[1] = c.data[1]
  BY <1>6, <1>7, TakenFirst
<1> QED
  BY <1>1, <1>6, <1>7, <1>8, TakenIsOwn

(***************************************************************************)
(* The inductive invariant                                                 *)
(***************************************************************************)

\* The bus holds what control units answer to the calls, and a call that has
\* returned took one of these, of its own service, as its transport handed
\* it back.
Waiting == UNION {Responses(c) : c \in Calls}
TookOne(x) ==
    /\ x.call \in Calls /\ x.got \in Waiting /\ x.got.req.sid = x.call.sid
    /\ x.r = Then(HandedBack(x.call, x.got), LAMBDA q : Returned(x.call, q))
IInv ==
    /\ transport \in Transports
    /\ bus \in Seq(Waiting)
    /\ call \subseteq Calls
    /\ \A x \in result : TookOne(x)

\* What a control unit answers to a call.
LEMMA ResponseIs ==
    ASSUME NEW c \in Calls, NEW a \in Responses(c)
    PROVE  /\ a.req = c /\ a.other \in Neighbours
           /\ a.positive \in BOOLEAN
           /\ a.positive => /\ a.data \in Seq(Byte) /\ a.pdu = Positive(c, a.data)
                            /\ c.take = "empty" => a.data = <<>>
           /\ ~a.positive => /\ a.other # "positive_after"
                             /\ \E n \in Codes : a.pdu = Refusal(c, n) /\ a.data = <<n>>
<1> DEFINE others == IF transport = "elm" THEN Others ELSE {"none"}
           records == IF c.take = "empty" THEN {<<>>} ELSE Records
           P == {[req |-> c, pdu |-> Positive(c, r), data |-> r, positive |-> TRUE, other |-> o] :
                    r \in records, o \in others}
           N == {[req |-> c, pdu |-> Refusal(c, n), data |-> <<n>>, positive |-> FALSE, other |-> o] :
                    n \in Codes, o \in others \ {"positive_after"}}
<1>1. a \in P \cup N
  BY DEF Responses
<1>2. /\ others \subseteq Neighbours /\ records \subseteq Seq(Byte)
      /\ c.take = "empty" => \A r \in records : r = <<>>
  <2>1. <<>> \in Seq(Byte)
    OBVIOUS
  <2>2. {<<>>} \subseteq Seq(Byte)
    BY <2>1, Zenon
  <2> QED
    BY <2>2, CallsAssumption DEF Neighbours
<1> HIDE DEF others, records
<1>3. CASE a \in P
  <2>1. PICK r \in records, o \in others :
            a = [req |-> c, pdu |-> Positive(c, r), data |-> r, positive |-> TRUE, other |-> o]
    BY <1>3
  <2> QED
    BY <1>2, <2>1
<1>4. CASE a \in N
  <2>1. PICK n \in Codes, o \in others \ {"positive_after"} :
            a = [req |-> c, pdu |-> Refusal(c, n), data |-> <<n>>, positive |-> FALSE, other |-> o]
    BY <1>4
  <2> QED
    BY <1>2, <2>1
<1> QED
  BY <1>1, <1>3, <1>4

\* A waiting answer is one to a call.
LEMMA WaitingAnswers ==
    ASSUME NEW a \in Waiting
    PROVE  /\ a.req \in Calls /\ a.other \in Neighbours
           /\ a.positive => \E r \in Seq(Byte) : a.pdu = Positive(a.req, r)
<1>1. PICK c \in Calls : a \in Responses(c)
  BY DEF Waiting
<1> QED
  BY <1>1, ResponseIs

\* The invariant holds at the start.
LEMMA Initially == ASSUME Init PROVE IInv
<1>1. <<>> \in Seq(Waiting)
  OBVIOUS
<1> QED
  BY <1>1 DEF Init, IInv

\* The transport stays, and with it all that depends on it.
LEMMA TransportStays ==
    ASSUME UNCHANGED transport
    PROVE  /\ Waiting' = Waiting
           /\ \A c, a : HandedBack(c, a)' = HandedBack(c, a)
           /\ \A x : TookOne(x)' <=> TookOne(x)
<1>1. Waiting' = Waiting
  BY DEF Waiting, Responses
<1>2. \A c, a : HandedBack(c, a)' = HandedBack(c, a)
  BY DEF HandedBack
<1>3. ASSUME NEW x PROVE TookOne(x)' <=> TookOne(x)
  BY <1>1, <1>2 DEF TookOne, Then
<1> QED
  BY <1>1, <1>2, <1>3

\* Every step keeps it.
LEMMA Step == ASSUME IInv, [Next]_vars PROVE IInv'
<1>1. /\ transport \in Transports /\ bus \in Seq(Waiting) /\ call \subseteq Calls
      /\ \A x \in result : TookOne(x)
  BY DEF IInv
<1>2. UNCHANGED transport
  BY DEF Next, Begin, GroupTooLarge, Answered, Refused, TimedOut, vars
<1>3. SUFFICES /\ bus' \in Seq(Waiting) /\ call' \subseteq Calls
               /\ \A x \in result' : TookOne(x)
  BY <1>1, <1>2, TransportStays DEF IInv
<1>4. ASSUME NEW c \in Calls, Begin(c)
      PROVE  bus' \in Seq(Waiting) /\ call' \subseteq Calls /\ result' = result
  <2>1. PICK a \in Responses(c) : bus' = Append(bus, a)
    BY <1>4 DEF Begin
  <2>2. a \in Waiting
    BY <2>1 DEF Waiting
  <2>3. bus' \in Seq(Waiting)
    BY <1>1, <2>1, <2>2
  <2> QED
    BY <1>4, <2>3 DEF Begin
<1>5. ASSUME bus # <<>> PROVE Head(bus) \in Waiting /\ Tail(bus) \in Seq(Waiting)
  BY <1>1, <1>5
<1>6. CASE Answered
  <2>1. bus # <<>> /\ bus' = Tail(bus) /\ call' = {}
    BY <1>6 DEF Answered
  <2>2. PICK c \in call :
            /\ Head(bus).req.sid = c.sid
            /\ result' = {[call |-> c, got |-> Head(bus), current |-> inStep,
                           r |-> Then(HandedBack(c, Head(bus)), LAMBDA q : Returned(c, q))]}
    BY <1>6 DEF Answered
  <2>3. ASSUME NEW x \in result' PROVE TookOne(x)
    <3>1. /\ x.call = c /\ x.got = Head(bus)
          /\ x.r = Then(HandedBack(c, Head(bus)), LAMBDA q : Returned(c, q))
      BY <2>2
    <3> QED
      BY <1>1, <1>5, <2>1, <2>2, <3>1 DEF TookOne
  <2> QED
    BY <1>5, <2>1, <2>3
<1>7. CASE Refused
  <2>1. bus # <<>> /\ bus' = Tail(bus) /\ call' = {} /\ result' = {}
    BY <1>7 DEF Refused
  <2> QED
    BY <1>5, <2>1
<1>8. CASE TimedOut
  BY <1>1, <1>8 DEF TimedOut
<1>9. CASE UNCHANGED vars
  BY <1>1, <1>9 DEF vars
<1>10. CASE GroupTooLarge
  BY <1>1, <1>10 DEF GroupTooLarge
<1> QED
  BY <1>1, <1>4, <1>6, <1>7, <1>8, <1>9, <1>10 DEF Next

\* split_required_echo, split_required_did, routine_control: whatever the
\* calls, the records, the transport and the other control units on the bus,
\* a call that requires its echo accepts no late response to another session
\* type, identifier or routine (protocol/uds.rs).
THEOREM EchoProtected == Spec => []EchoProtects
<1>1. ASSUME IInv PROVE EchoProtects
  <2> SUFFICES ASSUME NEW x \in result, x.r.ok, Checked(x.call), x.got.positive, ~Ambiguous(x)
               PROVE  EchoOf(x.call) = EchoOf(x.got.req)
    BY DEF EchoProtects
  <2> DEFINE c == x.call
             a == x.got
             d == x.got.req
  <2>1. /\ transport \in Transports /\ c \in Calls /\ a \in Waiting /\ d.sid = c.sid
        /\ Then(HandedBack(c, a), LAMBDA q : Returned(c, q)).ok
    BY <1>1 DEF IInv, TookOne
  <2>2. ~LooksWhole(c) /\ ~LooksWhole(d)
    BY DEF Ambiguous
  <2>3. /\ d \in Calls /\ a.other \in Neighbours
        /\ \E r \in Seq(Byte) : a.pdu = Positive(d, r)
    BY <2>1, WaitingAnswers
  <2>4. PICK r \in Seq(Byte) : a.pdu = Positive(d, r)
    BY <2>3
  <2>5. c.sid \in EchoServices
    BY <2>1, CallsAssumption DEF Checked, EchoServices
  <2>6. HasEcho(d, EchoOf(d))
    BY <2>1, <2>3, <2>5, EchoShape
  <2>7. Answers(a, d, EchoOf(d), r)
    BY <2>3, <2>4, <2>6 DEF Answers
  <2> HIDE DEF a, c, d
  <2>8. Checked(c)
    BY DEF c
  <2>9. EchoOf(c) = EchoOf(d)
    BY <2>1, <2>2, <2>3, <2>7, <2>8, NoOtherTaken
  <2> QED
    BY <2>9 DEF c, d
<1> QED
  BY <1>1, Initially, Step, PTL DEF Spec

(***************************************************************************)
(* The whole answer                                                        *)
(***************************************************************************)

\* Line i of a PDU written in lines of at most LineLen bytes.
LinesOf(b) == (Len(b) + LineLen - 1) \div LineLen
UpToLine(b, i) == IF i < LinesOf(b) THEN LineLen * i ELSE Len(b)
LineOf(b, i) == SubSeq(b, LineLen * (i - 1) + 1, UpToLine(b, i))

\* How many lines there are and where they end.
LEMMA LineEnds ==
    ASSUME NEW b \in Seq(Byte), b # <<>>
    PROVE  /\ LinesOf(b) \in Nat \ {0}
           /\ \A i \in 1..LinesOf(b) :
                 /\ UpToLine(b, i) \in Nat /\ UpToLine(b, i) <= Len(b)
                 /\ LineLen * (i - 1) < UpToLine(b, i)
                 /\ LineOf(b, i) \in Seq(Byte)
           /\ \A i \in 1..(LinesOf(b) - 1) : UpToLine(b, i) = LineLen * i
           /\ UpToLine(b, LinesOf(b)) = Len(b)
           /\ UpToLine(b, 1) = IF Len(b) <= LineLen THEN Len(b) ELSE LineLen
<1> DEFINE n == LinesOf(b)
           z == Len(b)
<1>1. z \in Nat \ {0}
  OBVIOUS
<1>2. n \in Nat \ {0} /\ 6 * n <= z + 5 /\ z <= 6 * n
  <2> HIDE DEF z
  <2>1. (z + 5) \div 6 \in Nat \ {0} /\ 6 * ((z + 5) \div 6) <= z + 5 /\ z <= 6 * ((z + 5) \div 6)
    BY <1>1
  <2>2. n = (z + 5) \div 6
    BY <1>1 DEF LinesOf, LineLen, z
  <2> QED
    BY <2>1, <2>2
<1> HIDE DEF n
<1>3. \A i : UpToLine(b, i) = IF i < n THEN 6 * i ELSE z
  BY DEF UpToLine, n, LineLen
<1> HIDE DEF z
<1>4. ASSUME NEW i \in 1..n
      PROVE  UpToLine(b, i) \in Nat /\ UpToLine(b, i) <= z /\ 6 * (i - 1) < UpToLine(b, i)
  BY <1>1, <1>2, <1>3
<1>5. \A i \in 1..(n - 1) : UpToLine(b, i) = 6 * i
  BY <1>2, <1>3
<1>6. UpToLine(b, n) = z
  BY <1>2, <1>3
<1>7. UpToLine(b, 1) = IF z <= 6 THEN z ELSE 6
  BY <1>1, <1>2, <1>3
<1>8. ASSUME NEW i \in 1..n PROVE LineOf(b, i) \in Seq(Byte)
  <2> DEFINE u == 6 * (i - 1) + 1
             w == UpToLine(b, i)
  <2>1. u \in Nat \ {0} /\ w \in Nat /\ w <= Len(b)
    BY <1>2, <1>4 DEF z
  <2> HIDE DEF u, w
  <2>2. SubSeq(b, u, w) \in Seq(Byte)
    BY <2>1
  <2> QED
    BY <2>2 DEF LineOf, LineLen, u, w
<1> QED
  BY <1>2, <1>4, <1>5, <1>6, <1>7, <1>8 DEF n, z, LineLen

\* The lines are written one after the other.
LEMMA InLinesAre ==
    ASSUME NEW b \in Seq(Byte), b # <<>>
    PROVE  /\ Len(InLines(b)) = LinesOf(b)
           /\ \A i \in 1..LinesOf(b) : InLines(b)[i] = hexLine(LineOf(b, i))
<1> DEFINE n == LinesOf(b)
<1>1. n \in Nat \ {0}
  BY LineEnds
<1>2. InLines(b) = [i \in 1..n |-> hexLine(LineOf(b, i))]
  BY DEF InLines, LinesOf, LineOf, UpToLine
<1> HIDE DEF n
<1> QED
  BY <1>1, <1>2 DEF n

\* A part of a sequence and the part that follows.
LEMMA PartsJoin ==
    ASSUME NEW S, NEW b \in Seq(S), NEW m \in Nat \ {0}, NEW j \in Nat, NEW k \in Nat,
           m <= j + 1, j <= k, k <= Len(b)
    PROVE  SubSeq(b, m, j) \o SubSeq(b, j + 1, k) = SubSeq(b, m, k)
<1> DEFINE x == SubSeq(b, m, j)
           y == SubSeq(b, j + 1, k)
           z == SubSeq(b, m, k)
<1>1. x \in Seq(S) /\ Len(x) = j + 1 - m /\ \A i \in 1..(j + 1 - m) : x[i] = b[m + i - 1]
  BY SubSeqProperties
<1>2. y \in Seq(S) /\ Len(y) = k - j /\ \A i \in 1..(k - j) : y[i] = b[j + 1 + i - 1]
  BY SubSeqProperties
<1>3. z \in Seq(S) /\ Len(z) = k + 1 - m /\ \A i \in 1..(k + 1 - m) : z[i] = b[m + i - 1]
  BY SubSeqProperties
<1> HIDE DEF x, y, z
<1>4. /\ x \o y \in Seq(S) /\ Len(x \o y) = Len(x) + Len(y)
      /\ \A i \in 1..Len(x) : (x \o y)[i] = x[i]
      /\ \A i \in 1..Len(y) : (x \o y)[Len(x) + i] = y[i]
  <2>1. x \in Seq(S) /\ y \in Seq(S)
    BY <1>1, <1>2
  <2> QED
    BY ONLY <2>1, Joined
<1>5. Len(x \o y) = Len(z)
  BY <1>1, <1>2, <1>3, <1>4
<1>6. ASSUME NEW i \in 1..Len(z) PROVE (x \o y)[i] = z[i]
  <2>1. CASE i <= Len(x)
    BY <1>1, <1>3, <1>4, <2>1
  <2>2. CASE i > Len(x)
    <3> DEFINE h == i - Len(x)
    <3>1. h \in 1..Len(y) /\ i = Len(x) + h /\ j + 1 + h - 1 = m + i - 1 /\ i \in 1..(k + 1 - m)
      BY <1>1, <1>2, <1>3, <2>2
    <3> HIDE DEF h
    <3>2. (x \o y)[i] = y[h] /\ y[h] = b[m + i - 1] /\ z[i] = b[m + i - 1]
      BY <1>2, <1>3, <1>4, <3>1
    <3> QED
      BY <3>2
  <2>3. i \in Int /\ Len(x) \in Int
    BY <1>1, <1>3
  <2>4. i <= Len(x) \/ i > Len(x)
    BY ONLY <2>3
  <2> QED
    BY <2>1, <2>2, <2>4, Zenon
<1>7. x \o y = z
  BY <1>3, <1>4, <1>5, <1>6, SeqEqual
<1> QED
  BY <1>7 DEF x, y, z

\* A line that does not begin like the answer continues the open one.
LEMMA AnswerGoesOn ==
    ASSUME NEW x \in Seq(Byte), NEW st, Opened(st, x), NEW skip, NEW p \in Seq(Byte),
           NEW b \in Seq(Byte), ~StartsWith(b, p)
    PROVE  Opened(TakeLine(st, hexLine(b), "can", skip, {p}), x \o b)
<1> DEFINE line == hexLine(b)
           c == x \o b
           n == [st EXCEPT !.current = c]
<1>1. /\ st \in LoopStates /\ st.ok = TRUE /\ st.matched = TRUE /\ st.payloads = <<>>
      /\ st.current = x
  BY DEF Opened
<1>2. decode_line(line, "can", skip, {p}) = Ok(b)
  BY PlainLine
<1>3. Ok(b).ok = TRUE /\ Ok(b).v = b
  BY DEF Ok
<1>4. ~Skipped(st, line, {p})
  BY DEF Skipped, hexLine, Line
<1> HIDE DEF line
<1>5. TakeLine(st, line, "can", skip, {p}) = TakeBytes(st, b, {p})
  BY <1>1, <1>2, <1>3, <1>4 DEF TakeLine
<1>6. TakeBytes(st, b, {p}) = n
  BY <1>1 DEF TakeBytes
<1>7. c \in Seq(Byte)
  OBVIOUS
<1> HIDE DEF c
<1>8. n \in LoopStates /\ n.ok = TRUE /\ n.matched = TRUE /\ n.payloads = <<>> /\ n.current = c
  BY <1>1, <1>7 DEF LoopStates
<1> HIDE DEF n
<1> QED
  BY <1>5, <1>6, <1>8 DEF Opened, c, line

\* The loop puts the lines of a PDU together again, without the prefix.
LEMMA LinesJoin ==
    ASSUME NEW text \in Seq(PlainLines), NEW skip, NEW p \in Seq(Byte),
           NEW b \in Seq(Byte), b # <<>>, NEW k \in Nat, k + LinesOf(b) <= Len(text),
           \A i \in 1..LinesOf(b) : text[k + i] = hexLine(LineOf(b, i)),
           \A i \in 1..k : Unanswered(text[i], p),
           StartsWith(LineOf(b, 1), p),
           \A i \in 2..LinesOf(b) : ~StartsWith(LineOf(b, i), p)
    PROVE  Opened(Loop(text, skip, {p})[k + LinesOf(b)], After(b, Len(p)))
<1> DEFINE f == Loop(text, skip, {p})
           n == LinesOf(b)
           l == Len(p)
           z == Len(b)
           Read(i) == SubSeq(b, l + 1, UpToLine(b, i))
<1>1. Loops(f, text, skip, {p})
  BY LoopRuns
<1>2. n \in Nat \ {0} /\ k \in Nat /\ k + n <= Len(text) /\ l \in Nat /\ Len(text) \in Nat /\ z \in Nat
  BY LineEnds
<1>3. /\ \A i \in 1..n : /\ UpToLine(b, i) \in Nat /\ UpToLine(b, i) <= z
                         /\ LineLen * (i - 1) < UpToLine(b, i) /\ LineOf(b, i) \in Seq(Byte)
      /\ \A i \in 1..(n - 1) : UpToLine(b, i) = LineLen * i
      /\ UpToLine(b, n) = z
  BY LineEnds
<1>4. ASSUME NEW i \in 1..n PROVE text[k + i] = hexLine(LineOf(b, i))
  BY <1>4
<1>5. \A i \in 2..n : ~StartsWith(LineOf(b, i), p)
  OBVIOUS
<1> HIDE DEF f, n
<1>6. 1 \in 1..n /\ n \in 1..n
  BY <1>2
<1> DEFINE w == UpToLine(b, 1)
<1>7. LineOf(b, 1) = SubSeq(b, 1, w) /\ w \in Nat /\ w <= z
  <2>1. LineLen * (1 - 1) + 1 = 1
    BY DEF LineLen
  <2> QED
    BY <1>3, <1>6, <2>1 DEF LineOf
<1>8. l <= w /\ After(LineOf(b, 1), l) = Read(1)
  <2> DEFINE a == SubSeq(b, 1, w)
  <2> HIDE DEF w
  <2>1. a \in Seq(Byte) /\ Len(a) = w
    BY <1>2, <1>7
  <2>2. l <= w
    <3>1. StartsWith(a, p)
      BY <1>7
    <3> HIDE DEF a
    <3> QED
      BY <2>1, <3>1 DEF StartsWith
  <2>3. SubSeq(a, l + 1, w) = SubSeq(b, l + 1, w)
    <3> DEFINE u == SubSeq(a, l + 1, w)
               v == SubSeq(b, l + 1, w)
    <3>1. \A i \in (l + 1)..w : a[i] = b[i] /\ a[i] \in Byte /\ b[i] \in Byte
      BY <1>2, <1>7
    <3>2. u \in Seq(Byte) /\ Len(u) = (IF l + 1 <= w THEN w - (l + 1) + 1 ELSE 0)
          /\ \A i \in 1..(w - (l + 1) + 1) : u[i] = a[l + 1 + i - 1]
      <4> DEFINE y == l + 1
      <4>1. y \in Int /\ w \in Int /\ \A i \in y..w : a[i] \in Byte
        BY <1>2, <1>7, <3>1
      <4> HIDE DEF a, w, y
      <4>2. SubSeq(a, y, w) \in Seq(Byte) /\ Len(SubSeq(a, y, w)) = (IF y <= w THEN w - y + 1 ELSE 0)
            /\ \A i \in 1..(w - y + 1) : SubSeq(a, y, w)[i] = a[y + i - 1]
        BY ONLY <4>1, SubSeqProperties
      <4> QED
        BY <4>2 DEF y
    <3>3. v \in Seq(Byte) /\ Len(v) = (IF l + 1 <= w THEN w - (l + 1) + 1 ELSE 0)
          /\ \A i \in 1..(w - (l + 1) + 1) : v[i] = b[l + 1 + i - 1]
      <4> DEFINE y == l + 1
      <4>1. y \in Int /\ w \in Int /\ \A i \in y..w : b[i] \in Byte
        BY <1>2, <1>7, <3>1
      <4> HIDE DEF w, y
      <4>2. SubSeq(b, y, w) \in Seq(Byte) /\ Len(SubSeq(b, y, w)) = (IF y <= w THEN w - y + 1 ELSE 0)
            /\ \A i \in 1..(w - y + 1) : SubSeq(b, y, w)[i] = b[y + i - 1]
        BY ONLY <4>1, SubSeqProperties
      <4> QED
        BY <4>2 DEF y
    <3> HIDE DEF u, v, a
    <3>4. ASSUME NEW i \in 1..Len(u) PROVE u[i] = v[i]
      <4>1. i \in 1..(w - (l + 1) + 1) /\ l + 1 + i - 1 \in (l + 1)..w
        BY <1>2, <1>7, <2>2, <3>2
      <4> QED
        BY <3>1, <3>2, <3>3, <4>1, Zenon
    <3>5. Len(u) = Len(v)
      BY <3>2, <3>3
    <3>6. u = v
      BY <3>2, <3>3, <3>4, <3>5, SeqEqual
    <3> QED
      BY <3>6 DEF u, v
  <2> HIDE DEF a
  <2> QED
    BY <1>7, <2>1, <2>2, <2>3 DEF After, a, w
<1>9. Opened(f[k + 1], Read(1))
  <2>1. k + 1 \in 1..Len(text) /\ k + 1 - 1 = k
    BY <1>2, <1>6
  <2>2. text[k + 1] = hexLine(LineOf(b, 1)) /\ LineOf(b, 1) \in Seq(Byte)
    BY <1>3, <1>4, <1>6
  <2>3. \A i \in 1..(k + 1 - 1) : Unanswered(text[i], p)
    BY <2>1
  <2>4. Opened(Loop(text, skip, {p})[k + 1], After(LineOf(b, 1), Len(p)))
    <3> DEFINE h == k + 1
               a == LineOf(b, 1)
    <3>1. /\ h \in 1..Len(text) /\ text[h] = hexLine(a) /\ a \in Seq(Byte) /\ StartsWith(a, p)
          /\ \A i \in 1..(h - 1) : Unanswered(text[i], p)
      BY <2>1, <2>2, <2>3
    <3> HIDE DEF h, a
    <3>2. Opened(Loop(text, skip, {p})[h], After(a, Len(p)))
      BY <3>1, LoopOpens
    <3> QED
      BY <3>2 DEF h, a
  <2> QED
    BY <1>8, <2>4 DEF f
<1> HIDE DEF w
<1>10. ASSUME NEW i \in 2..n, Opened(f[k + i - 1], Read(i - 1)) PROVE Opened(f[k + i], Read(i))
  <2> DEFINE j == UpToLine(b, i - 1)
             m == UpToLine(b, i)
             t == LineOf(b, i)
  <2>1. i \in 1..n /\ i - 1 \in 1..(n - 1) /\ i - 1 \in 1..n /\ k + i \in 1..Len(text)
    BY <1>2
  <2>2. /\ j \in Nat /\ j = LineLen * (i - 1) /\ m \in Nat /\ j <= m /\ m <= z
        /\ t \in Seq(Byte) /\ l <= j
    <3>1. /\ UpToLine(b, i - 1) \in Nat /\ UpToLine(b, i - 1) = LineLen * (i - 1)
          /\ UpToLine(b, i) \in Nat /\ UpToLine(b, i) <= z /\ LineLen * (i - 1) < UpToLine(b, i)
          /\ LineOf(b, i) \in Seq(Byte)
      BY <1>3, <2>1
    <3>2. l <= UpToLine(b, i - 1)
      <4>1. 1 \in 1..(n - 1) /\ i - 1 >= 1
        BY <1>2, <2>1
      <4>2. w = LineLen * 1
        BY <1>3, <4>1 DEF w
      <4> QED
        BY <1>2, <1>7, <1>8, <2>1, <3>1, <4>1, <4>2 DEF LineLen
    <3> HIDE DEF LineLen
    <3> QED
      BY <3>1, <3>2
  <2>3. t = SubSeq(b, j + 1, m)
    BY <2>2 DEF LineOf
  <2> HIDE DEF j, m
  <2>4. SubSeq(b, l + 1, j) \o SubSeq(b, j + 1, m) = SubSeq(b, l + 1, m)
    <3>1. l + 1 \in Nat \ {0} /\ l + 1 <= j + 1 /\ j <= m /\ m <= Len(b)
      BY <1>2, <2>2
    <3> QED
      BY <2>2, <3>1, PartsJoin
  <2> HIDE DEF t
  <2>5. Read(i - 1) = SubSeq(b, l + 1, j) /\ Read(i) = SubSeq(b, l + 1, m)
    BY DEF j, m
  <2>6. Read(i - 1) \in Seq(Byte)
    <3>1. SubSeq(b, l + 1, j) \in Seq(Byte)
      <4>1. l \in Nat /\ j \in Nat /\ j <= Len(b) /\ b \in Seq(Byte)
        BY <1>2, <2>2
      <4> HIDE DEF l
      <4> QED
        BY ONLY <4>1
    <3> QED
      BY <2>5, <3>1
  <2>7. f[k + i] = TakeLine(f[k + i - 1], text[k + i], "can", skip, {p})
    <3>1. \A h \in 1..Len(text) : f[h] = TakeLine(f[h - 1], text[h], "can", skip, {p})
      BY <1>1, Zenon DEF Loops
    <3> DEFINE h == k + i
    <3>2. h \in 1..Len(text)
      BY <2>1
    <3> HIDE DEF h
    <3>3. f[h] = TakeLine(f[h - 1], text[h], "can", skip, {p})
      BY <3>1, <3>2, Zenon
    <3> QED
      BY <3>3 DEF h
  <2>8. text[k + i] = hexLine(t) /\ ~StartsWith(t, p)
    BY <1>4, <1>5, <2>1 DEF t
  <2> HIDE DEF Read
  <2>9. Opened(f[k + i], Read(i - 1) \o t)
    BY <1>10, <2>2, <2>6, <2>7, <2>8, AnswerGoesOn
  <2> QED
    BY <2>3, <2>4, <2>5, <2>9
<1> HIDE DEF Read
<1>11. Opened(f[k + n], Read(n))
  <2> DEFINE A == {i \in 1..n : Opened(f[k + i], Read(i))}
             id == [i \in 1..n |-> i]
  <2>1. id[1] \in A /\ 1 \in Nat /\ 1 <= n
    BY <1>2, <1>6, <1>9
  <2>2. ASSUME NEW i \in (1 + 1)..n, id[i - 1] \in A PROVE id[i] \in A
    <3>1. i \in 2..n /\ i - 1 \in 1..n /\ i \in 1..n /\ k + (i - 1) = k + i - 1
      BY <1>2
    <3>2. id[i - 1] = i - 1 /\ id[i] = i
      BY <3>1
    <3>3. Opened(f[k + i - 1], Read(i - 1))
      BY <2>2, <3>1, <3>2
    <3>4. Opened(f[k + i], Read(i))
      BY <1>10, <3>1, <3>3
    <3> QED
      BY <3>1, <3>2, <3>4
  <2>3. \A i \in 1..n : id[i] = i
    OBVIOUS
  <2> HIDE DEF A, id
  <2>4. \A i \in 1..n : id[i] \in A
    BY <1>2, <2>1, <2>2, StaysIn
  <2> QED
    BY <1>6, <2>3, <2>4 DEF A
<1>12. Read(n) = After(b, l)
  BY <1>3 DEF Read, After
<1> QED
  BY <1>11, <1>12 DEF f, n

\* The first answer is x, and another one is open.
Closed(x) ==
    {st \in LoopStates : st.ok = TRUE /\ st.matched = TRUE /\ st.payloads # <<>> /\ st.payloads[1] = x}

\* A line that begins like the answer closes the open one.
LEMMA AnswerEnds ==
    ASSUME NEW x \in Seq(Byte), x # <<>>, NEW st, Opened(st, x), NEW skip, NEW p \in Seq(Byte),
           NEW b \in Seq(Byte), StartsWith(b, p)
    PROVE  TakeLine(st, hexLine(b), "can", skip, {p}) \in Closed(x)
<1> DEFINE line == hexLine(b)
           y == After(b, Len(p))
           n == [st EXCEPT !.matched = TRUE, !.payloads = Append(st.payloads, st.current),
                           !.current = <<>> \o y]
<1>1. /\ st \in LoopStates /\ st.ok = TRUE /\ st.matched = TRUE /\ st.payloads = <<>>
      /\ st.current = x
  BY DEF Opened
<1>2. decode_line(line, "can", skip, {p}) = Ok(b)
  BY PlainLine
<1>3. Ok(b).ok = TRUE /\ Ok(b).v = b
  BY DEF Ok
<1>4. ~Skipped(st, line, {p})
  BY DEF Skipped, hexLine, Line
<1> HIDE DEF line
<1>5. TakeLine(st, line, "can", skip, {p}) = TakeBytes(st, b, {p})
  BY <1>1, <1>2, <1>3, <1>4 DEF TakeLine
<1>6. TakeBytes(st, b, {p}) = n
  <2>1. (CHOOSE q \in {p} : TRUE) = p
    OBVIOUS
  <2> QED
    BY <1>1, <2>1 DEF TakeBytes
<1>7. TakeBytes(st, b, {p}) \in LoopStates
  BY <1>1, TakeBytesType
<1>8. n.ok = TRUE /\ n.matched = TRUE /\ n.payloads = Append(st.payloads, st.current)
  BY <1>1 DEF LoopStates
<1>9. Append(st.payloads, st.current) # <<>> /\ Append(st.payloads, st.current)[1] = x
  BY <1>1
<1> HIDE DEF n
<1> QED
  BY <1>5, <1>6, <1>7, <1>8, <1>9 DEF Closed, line

\* No bytes that follow change it.
LEMMA ClosedStays ==
    ASSUME NEW x \in Seq(Byte), NEW st \in Closed(x), NEW skip, NEW p \in Seq(Byte), NEW b \in Seq(Byte)
    PROVE  TakeLine(st, hexLine(b), "can", skip, {p}) \in Closed(x)
<1> DEFINE line == hexLine(b)
           y == After(b, Len(p))
<1>1. /\ st \in LoopStates /\ st.ok = TRUE /\ st.matched = TRUE /\ st.payloads # <<>>
      /\ st.payloads[1] = x /\ st.payloads \in Seq(Seq(Byte)) /\ st.current \in Seq(Byte)
  BY DEF Closed, LoopStates
<1>2. decode_line(line, "can", skip, {p}) = Ok(b)
  BY PlainLine
<1>3. Ok(b).ok = TRUE /\ Ok(b).v = b
  BY DEF Ok
<1>4. ~Skipped(st, line, {p})
  BY DEF Skipped, hexLine, Line
<1> HIDE DEF line
<1>5. TakeLine(st, line, "can", skip, {p}) = TakeBytes(st, b, {p})
  BY <1>1, <1>2, <1>3, <1>4 DEF TakeLine
<1>6. TakeBytes(st, b, {p}) \in LoopStates
  BY <1>1, TakeBytesType
<1>7. CASE StartsWith(b, p)
  <2> DEFINE closed == st.matched /\ st.current # <<>>
             ps == IF closed THEN Append(st.payloads, st.current) ELSE st.payloads
             c == (IF closed THEN <<>> ELSE st.current) \o After(b, Len(p))
             n == [st EXCEPT !.matched = TRUE, !.payloads = ps, !.current = c]
  <2>1. (CHOOSE q \in {p} : TRUE) = p
    OBVIOUS
  <2>2. TakeBytes(st, b, {p}) = n
    BY <1>7, <2>1 DEF TakeBytes
  <2>3. n.ok = TRUE /\ n.matched = TRUE /\ n.payloads = ps
    BY <1>1 DEF LoopStates
  <2>4. ps # <<>> /\ ps[1] = x
    <3> DEFINE q == st.payloads
               T == Seq(Byte)
    <3>1. q \in Seq(T) /\ q # <<>> /\ st.current \in T
      BY <1>1
    <3> HIDE DEF T
    <3>2. Append(q, st.current) # <<>> /\ Append(q, st.current)[1] = q[1]
      BY <3>1, FirstStays, Zenon
    <3> QED
      BY <1>1, <3>2
  <2> HIDE DEF n, ps, c
  <2> QED
    BY <1>5, <1>6, <2>2, <2>3, <2>4 DEF Closed, line
<1>8. CASE ~StartsWith(b, p)
  <2> DEFINE c == st.current \o b
             n == [st EXCEPT !.current = c]
  <2>1. TakeBytes(st, b, {p}) = n
    BY <1>1, <1>8 DEF TakeBytes
  <2>2. n.ok = TRUE /\ n.matched = TRUE /\ n.payloads = st.payloads
    BY <1>1 DEF LoopStates
  <2> HIDE DEF n
  <2> QED
    BY <1>1, <1>5, <1>6, <2>1, <2>2 DEF Closed, line
<1> QED
  BY <1>7, <1>8

\* The status line is no part of the answer.
LEMMA StatusSkipped ==
    ASSUME NEW x, NEW st, Opened(st, x), NEW skip, NEW p
    PROVE  TakeLine(st, statusLine, "can", skip, {p}) = st
<1>1. Skipped(st, statusLine, {p})
  <2>1. st.matched = TRUE /\ statusLine.kind = "status" /\ {p} # {}
    BY DEF Opened, statusLine, Line
  <2> QED
    BY <2>1 DEF Skipped
<1> QED
  BY <1>1 DEF TakeLine

\* What may follow the first m lines of a text: nothing, a status line, or what
\* another unit answers.
Follows(text, m, p) ==
    \/ m = Len(text)
    \/ m + 1 = Len(text) /\ text[m + 1] = statusLine
    \/ /\ m < Len(text)
       /\ \A i \in (m + 1)..Len(text) : \E q \in Seq(Byte) :
             text[i] = hexLine(q) /\ (i = m + 1 => StartsWith(q, p))

\* The decoder returns the first PDU of the text without the prefix.
LEMMA DecodedWhole ==
    ASSUME NEW text \in Seq(PlainLines), NEW skip \in Nat \ {0}, NEW command, NEW p \in Seq(Byte),
           expected_response_prefix(command, skip) = {p},
           NEW b \in Seq(Byte), b # <<>>, NEW k \in Nat, k + LinesOf(b) <= Len(text),
           \A i \in 1..LinesOf(b) : text[k + i] = hexLine(LineOf(b, i)),
           \A i \in 1..k : Unanswered(text[i], p),
           StartsWith(LineOf(b, 1), p),
           \A i \in 2..LinesOf(b) : ~StartsWith(LineOf(b, i), p),
           Follows(text, k + LinesOf(b), p),
           After(b, Len(p)) \in Seq(Byte), After(b, Len(p)) # <<>>
    PROVE  decode_elm_response_payload_for_command(text, "can", skip, command) = Ok(After(b, Len(p)))
<1> DEFINE f == Loop(text, skip, {p})
           m == k + LinesOf(b)
           z == Len(text)
           x == After(b, Len(p))
<1>1. Loops(f, text, skip, {p})
  BY LoopRuns
<1>2. Opened(f[m], x)
  BY LinesJoin
<1>3. m \in Nat /\ m <= z /\ z \in Nat
  BY LineEnds
<1>4. decode_elm_response_payload_for_command(text, "can", skip, command) = Outcome(f[z])
  BY DecodeIsLoop
<1>5. x \in Seq(Byte) /\ x # <<>> /\ Follows(text, m, p)
  OBVIOUS
<1> HIDE DEF f, m, x
<1>6. \A h \in 1..z : f[h] = TakeLine(f[h - 1], text[h], "can", skip, {p})
  BY <1>1, Zenon DEF Loops
<1>7. ASSUME m < z,
             \A i \in (m + 1)..z : \E q \in Seq(Byte) :
                 text[i] = hexLine(q) /\ (i = m + 1 => StartsWith(q, p))
      PROVE  f[z] \in Closed(x)
  <2> DEFINE j == m + 1
  <2>1. j \in 1..z /\ j - 1 = m /\ j \in Nat /\ j <= z /\ z \in j..z
    BY <1>3, <1>7
  <2>2. f[j] \in Closed(x)
    <3>1. PICK q \in Seq(Byte) : text[j] = hexLine(q) /\ StartsWith(q, p)
      BY <1>3, <1>7, <2>1
    <3>2. f[j] = TakeLine(f[m], hexLine(q), "can", skip, {p})
      BY <1>6, <2>1, <3>1
    <3> QED
      BY <1>2, <1>5, <3>1, <3>2, AnswerEnds
  <2>3. ASSUME NEW i \in (j + 1)..z, f[i - 1] \in Closed(x) PROVE f[i] \in Closed(x)
    <3>1. i \in 1..z /\ i \in (m + 1)..z
      BY <2>1
    <3>2. PICK q \in Seq(Byte) : text[i] = hexLine(q)
      BY <1>7, <3>1
    <3>3. f[i] = TakeLine(f[i - 1], hexLine(q), "can", skip, {p})
      BY <1>6, <3>1, <3>2
    <3> QED
      BY <1>5, <2>3, <3>3, ClosedStays
  <2> HIDE DEF j
  <2>4. \A i \in j..z : f[i] \in Closed(x)
    BY <1>3, <2>1, <2>2, <2>3, StaysIn
  <2> QED
    BY <2>1, <2>4
<1>8. Opened(f[z], x) \/ f[z] \in Closed(x)
  <2>1. CASE m = z
    BY <1>2, <2>1
  <2>2. CASE m + 1 = z /\ text[m + 1] = statusLine
    <3>1. z \in 1..z /\ z - 1 = m
      BY <1>3, <2>2
    <3>2. f[z] = TakeLine(f[m], statusLine, "can", skip, {p})
      BY <1>6, <2>2, <3>1
    <3> QED
      BY <1>2, <3>2, StatusSkipped
  <2>3. \/ m = z
        \/ m + 1 = z /\ text[m + 1] = statusLine
        \/ /\ m < z
           /\ \A i \in (m + 1)..z : \E q \in Seq(Byte) :
                 text[i] = hexLine(q) /\ (i = m + 1 => StartsWith(q, p))
    BY <1>5 DEF Follows
  <2> QED
    BY <1>7, <2>1, <2>2, <2>3
<1>9. ASSUME NEW st, Opened(st, x) \/ st \in Closed(x) PROVE Outcome(st) = Ok(x)
  <2> DEFINE q == st.payloads
             ps == IF st.current = <<>> THEN q ELSE Append(q, st.current)
  <2>1. st.ok = TRUE /\ ps # <<>> /\ ps[1] = x
    <3>1. CASE Opened(st, x)
      BY <1>5, <3>1 DEF Opened
    <3>2. CASE st \in Closed(x)
      <4> DEFINE T == Seq(Byte)
                 c == st.current
      <4>1. st.ok = TRUE /\ q # <<>> /\ q[1] = x /\ q \in Seq(T) /\ c \in T
        BY <3>2 DEF Closed, LoopStates
      <4> HIDE DEF T, q, c
      <4>2. Append(q, c) # <<>> /\ Append(q, c)[1] = q[1]
        BY <4>1, FirstStays, Zenon
      <4>3. ps = q \/ ps = Append(q, c)
        BY DEF c
      <4> QED
        BY <4>1, <4>2, <4>3
    <3> QED
      BY <1>9, <3>1, <3>2
  <2> QED
    BY <2>1, Zenon DEF Outcome
<1> QED
  BY <1>4, <1>8, <1>9 DEF x, f

(***************************************************************************)
(* The text of an answer, line by line                                     *)
(***************************************************************************)

\* A text has the lines l where an answer begins: at most one unanswered line
\* comes before, and what may follow does.
HasLines(text, l, p) ==
    \E k \in {0, 1} :
        /\ k + Len(l) <= Len(text)
        /\ \A i \in 1..Len(l) : text[k + i] = l[i]
        /\ \A i \in 1..k : Unanswered(text[i], p)
        /\ Follows(text, k + Len(l), p)

\* One line before them, and nothing or a status line after.
LEMMA LinesSecond ==
    ASSUME NEW p, NEW line \in PlainLines, Unanswered(line, p),
           NEW l \in Seq(PlainLines), NEW t \in Seq(PlainLines), t = <<>> \/ t = <<statusLine>>
    PROVE  /\ <<line>> \o (l \o t) \in Seq(PlainLines)
           /\ HasLines(<<line>> \o (l \o t), l, p)
<1> DEFINE u == l \o t
           h == <<line>>
           text == h \o u
<1>1. /\ u \in Seq(PlainLines) /\ Len(u) = Len(l) + Len(t) /\ Len(l) \in Nat
      /\ \A i \in 1..Len(l) : u[i] = l[i]
      /\ \A i \in 1..Len(t) : u[Len(l) + i] = t[i]
  BY Joined
<1>2. Len(t) = 0 \/ (Len(t) = 1 /\ t[1] = statusLine)
  OBVIOUS
<1>3. h \in Seq(PlainLines) /\ Len(h) = 1 /\ h[1] = line
  OBVIOUS
<1> HIDE DEF u, h
<1>4. /\ text \in Seq(PlainLines) /\ Len(text) = 1 + Len(u) /\ text[1] = line
      /\ \A i \in 1..Len(u) : text[1 + i] = u[i]
  <2>1. /\ text \in Seq(PlainLines) /\ Len(text) = Len(h) + Len(u)
        /\ \A i \in 1..Len(h) : text[i] = h[i]
        /\ \A i \in 1..Len(u) : text[Len(h) + i] = u[i]
    <3>1. h \in Seq(PlainLines) /\ u \in Seq(PlainLines)
      BY <1>1, <1>3
    <3>2. \A x, y \in Seq(PlainLines) :
              /\ x \o y \in Seq(PlainLines) /\ Len(x \o y) = Len(x) + Len(y)
              /\ \A i \in 1..Len(x) : (x \o y)[i] = x[i]
              /\ \A i \in 1..Len(y) : (x \o y)[Len(x) + i] = y[i]
      BY Joined
    <3> QED
      BY <3>1, <3>2, Zenon
  <2> QED
    BY <1>3, <2>1
<1> HIDE DEF text
<1>5. 1 + Len(l) <= Len(text)
  BY <1>1, <1>2, <1>4
<1>6. \A i \in 1..Len(l) : text[1 + i] = l[i]
  <2> TAKE i \in 1..Len(l)
  <2>1. i \in 1..Len(u)
    BY <1>1, <1>2
  <2> QED
    BY <1>1, <1>4, <2>1
<1>7. \A i \in 1..1 : Unanswered(text[i], p)
  BY <1>4
<1>8. Follows(text, 1 + Len(l), p)
  <2>1. CASE Len(t) = 0
    BY <1>1, <1>4, <2>1 DEF Follows
  <2>2. CASE Len(t) = 1 /\ t[1] = statusLine
    <3> DEFINE m == Len(l) + 1
    <3>1. m \in 1..Len(u) /\ 1 \in 1..Len(t) /\ 1 + m = 1 + Len(l) + 1 /\ 1 + m = Len(text)
      BY <1>1, <1>4, <2>2
    <3>2. text[1 + m] = u[m] /\ u[m] = t[1]
      BY <1>1, <1>4, <3>1
    <3> HIDE DEF m
    <3> QED
      BY <2>2, <3>1, <3>2 DEF Follows
  <2> QED
    BY <1>2, <2>1, <2>2
<1>9. HasLines(text, l, p)
  BY <1>5, <1>6, <1>7, <1>8 DEF HasLines
<1> QED
  BY <1>4, <1>9 DEF text, h, u

\* None before them, and another answer after.
LEMMA LinesFirst ==
    ASSUME NEW p, NEW l \in Seq(PlainLines), NEW g \in Seq(PlainLines), g # <<>>,
           \A i \in 1..Len(g) : \E q \in Seq(Byte) : g[i] = hexLine(q) /\ (i = 1 => StartsWith(q, p))
    PROVE  l \o g \in Seq(PlainLines) /\ HasLines(l \o g, l, p)
<1> DEFINE text == l \o g
           n == Len(l)
<1>1. /\ text \in Seq(PlainLines) /\ Len(text) = n + Len(g) /\ n \in Nat /\ Len(g) \in Nat
      /\ \A i \in 1..n : text[i] = l[i]
      /\ \A i \in 1..Len(g) : text[n + i] = g[i]
  BY Joined
<1>2. Len(g) # 0
  OBVIOUS
<1> HIDE DEF text, n
<1>3. 0 + n = n /\ n < Len(text) /\ \A i \in 1..n : 0 + i = i
  BY <1>1, <1>2
<1>4. ASSUME NEW i \in (n + 1)..Len(text)
      PROVE  \E q \in Seq(Byte) : text[i] = hexLine(q) /\ (i = n + 1 => StartsWith(q, p))
  <2> DEFINE j == i - n
  <2>1. j \in 1..Len(g) /\ i = n + j /\ (i = n + 1 <=> j = 1)
    BY <1>1
  <2> HIDE DEF j
  <2>2. text[i] = g[j]
    BY <1>1, <2>1
  <2>3. PICK q \in Seq(Byte) : g[j] = hexLine(q) /\ (j = 1 => StartsWith(q, p))
    BY <2>1
  <2> QED
    BY <2>1, <2>2, <2>3
<1>5. Follows(text, n, p)
  BY <1>3, <1>4 DEF Follows
<1>6. /\ 0 + n <= Len(text)
      /\ \A i \in 1..n : text[0 + i] = l[i]
      /\ \A i \in 1..0 : Unanswered(text[i], p)
      /\ Follows(text, 0 + n, p)
  BY <1>1, <1>3, <1>5
<1>7. HasLines(text, l, p)
  BY <1>6 DEF HasLines, n
<1> QED
  BY <1>1, <1>7 DEF text

\* A prefix fits into the first line.
LEMMA FirstLineBegins ==
    ASSUME NEW b \in Seq(Byte), NEW p \in Seq(Byte), Len(p) \in 1..3, StartsWith(b, p)
    PROVE  b # <<>> /\ StartsWith(LineOf(b, 1), p)
<1>1. Len(b) >= Len(p) /\ Len(b) \in Nat /\ \A i \in 1..Len(p) : b[i] = p[i]
  BY Begins
<1>2. b # <<>>
  <2> DEFINE z == Len(b)
             y == Len(p)
  <2>1. z >= y /\ z \in Nat /\ y \in 1..3
    BY <1>1
  <2> HIDE DEF z, y
  <2>2. z # 0
    BY ONLY <2>1
  <2> QED
    BY <2>2 DEF z
<1> DEFINE m == UpToLine(b, 1)
           f == SubSeq(b, 1, m)
<1>3. LineOf(b, 1) = f
  <2>1. LineLen * (1 - 1) + 1 = 1
    BY DEF LineLen
  <2> QED
    BY <2>1 DEF LineOf
<1>4. m \in 1..Len(b) /\ m >= Len(p)
  <2>1. m = IF Len(b) <= LineLen THEN Len(b) ELSE LineLen
    BY <1>2, LineEnds
  <2> DEFINE z == Len(b)
             y == Len(p)
  <2>2. z >= y /\ z \in Nat /\ y \in 1..3
    BY <1>1
  <2>3. m = IF z <= 6 THEN z ELSE 6
    BY <2>1 DEF LineLen
  <2> HIDE DEF m, z, y
  <2>4. m \in 1..z /\ m >= y
    BY ONLY <2>2, <2>3
  <2> QED
    BY <2>4 DEF z, y
<1> HIDE DEF m
<1>5. f \in Seq(Byte) /\ Len(f) = m /\ \A i \in 1..m : f[i] = b[i]
  BY <1>4
<1> HIDE DEF f
<1>6. Len(f) >= Len(p) /\ \A i \in 1..Len(p) : f[i] = p[i]
  BY <1>1, <1>4, <1>5
<1>7. StartsWith(f, p)
  BY <1>5, <1>6, Begins
<1> QED
  BY <1>2, <1>3, <1>7

\* The text of an answer, unless a refusal follows it.
LEMMA TextInStep ==
    ASSUME NEW a, a.req.sid \in Byte, a.pdu \in Seq(Byte), a.pdu # <<>>,
           a.other \in Neighbours \ {"refusal_after"},
           NEW p \in Seq(Byte), Len(p) \in 1..3, p[1] # NEGATIVE,
           Positive(a.req, <<7, 7>>) \in Seq(Byte), StartsWith(Positive(a.req, <<7, 7>>), p)
    PROVE  Text(a) \in Seq(PlainLines) /\ HasLines(Text(a), InLines(a.pdu), p)
<1> DEFINE l == InLines(a.pdu)
           r == hexLine(Refusal(a.req, NeighbourCode))
           z == Positive(a.req, <<7, 7>>)
           g == InLines(z)
           Fits(t) == t \in Seq(PlainLines) /\ HasLines(t, l, p)
<1>0. p # <<>>
  OBVIOUS
<1>1. l \in Seq(PlainLines)
  BY InLinesShape
<1>2. r \in PlainLines /\ Unanswered(r, p) /\ InLines(Refusal(a.req, NeighbourCode)) = <<r>>
  BY <1>0, RefusalShape, NeighbourIsByte
<1>3. g \in Seq(PlainLines) /\ g # <<>>
      /\ \A i \in 1..Len(g) : \E q \in Seq(Byte) : g[i] = hexLine(q) /\ (i = 1 => StartsWith(q, p))
  <2> HIDE DEF z, g
  <2>1. z \in Seq(Byte) /\ z # <<>> /\ StartsWith(LineOf(z, 1), p)
    <3>1. z \in Seq(Byte) /\ StartsWith(z, p)
      BY DEF z
    <3> QED
      BY <3>1, FirstLineBegins
  <2>2. g \in Seq(PlainLines) /\ g # <<>>
    BY <2>1, InLinesShape DEF g
  <2>3. Len(g) = LinesOf(z) /\ \A i \in 1..LinesOf(z) : g[i] = hexLine(LineOf(z, i))
    BY <2>1, InLinesAre DEF g
  <2>4. \A i \in 1..LinesOf(z) : LineOf(z, i) \in Seq(Byte)
    BY <2>1, LineEnds
  <2>5. ASSUME NEW i \in 1..Len(g)
        PROVE  \E q \in Seq(Byte) : g[i] = hexLine(q) /\ (i = 1 => StartsWith(q, p))
    <3>1. i \in 1..LinesOf(z)
      BY <2>3
    <3>2. LineOf(z, i) \in Seq(Byte) /\ g[i] = hexLine(LineOf(z, i))
      BY <2>3, <2>4, <3>1
    <3> QED
      BY <2>1, <3>2
  <2> QED
    BY <2>2, <2>5
<1>4. /\ blankLine \in PlainLines /\ Unanswered(blankLine, p)
      /\ echoLine \in PlainLines /\ Unanswered(echoLine, p) /\ statusLine \in PlainLines
  BY DEF PlainLines, Unanswered
<1>5. l \o <<>> = l /\ <<>> \in Seq(PlainLines)
  BY <1>1
<1> HIDE DEF l, r, g, z
<1>6. CASE a.other = "none"
  <2>1. Fits(<<blankLine>> \o (l \o <<>>))
    BY <1>1, <1>4, <1>5, LinesSecond
  <2>2. Text(a) = <<blankLine>> \o l
    BY <1>6 DEF Text, l
  <2> QED
    BY <1>5, <2>1, <2>2 DEF l
<1>7. CASE a.other = "status"
  <2> DEFINE s == <<statusLine>>
  <2>1. s \in Seq(PlainLines) /\ <<echoLine>> \in Seq(PlainLines)
    BY <1>4
  <2>2. Fits(<<echoLine>> \o (l \o s))
    BY <1>1, <1>4, <2>1, LinesSecond
  <2>3. Text(a) = (<<echoLine>> \o l) \o s
    BY <1>7 DEF Text, l
  <2> HIDE DEF s
  <2>4. (<<echoLine>> \o l) \o s = <<echoLine>> \o (l \o s)
    <3>1. \A x, y, w \in Seq(PlainLines) : (x \o y) \o w = x \o (y \o w)
      BY ConcatAssociative, Z3T(30)
    <3> QED
      BY <1>1, <2>1, <3>1
  <2> QED
    BY <2>2, <2>3, <2>4 DEF l
<1>8. CASE a.other = "refusal_before"
  <2>1. Fits(<<r>> \o (l \o <<>>))
    BY <1>1, <1>2, <1>5, LinesSecond
  <2>2. Text(a) = <<r>> \o l
    BY <1>2, <1>8 DEF Text, l
  <2> QED
    BY <1>5, <2>1, <2>2 DEF l
<1>9. CASE a.other = "positive_after"
  <2>1. Fits(l \o g)
    BY <1>1, <1>3, LinesFirst
  <2>2. Text(a) = l \o g
    BY <1>9 DEF Text, l, g, z
  <2> QED
    BY <2>1, <2>2 DEF l
<1> QED
  BY <1>6, <1>7, <1>8, <1>9 DEF Neighbours

\* The loop returns what it began with while nothing is answered.
LEMMA NothingDecoded ==
    ASSUME NEW text \in Seq(PlainLines), text # <<>>, NEW skip \in Nat \ {0}, NEW command,
           NEW p \in Seq(Byte), expected_response_prefix(command, skip) = {p},
           \A i \in 1..(Len(text) - 1) : Unanswered(text[i], p),
           Unanswered(text[Len(text)], p) \/ text[Len(text)] = statusLine
    PROVE  decode_elm_response_payload_for_command(text, "can", skip, command) = Err
<1> DEFINE f == Loop(text, skip, {p})
           z == Len(text)
           v == StartLoop({p})
<1>1. Loops(f, text, skip, {p})
  BY LoopRuns
<1>2. decode_elm_response_payload_for_command(text, "can", skip, command) = Outcome(f[z])
  BY DecodeIsLoop
<1>3. z \in Nat \ {0} /\ \A i \in 1..(z - 1) : Unanswered(text[i], p)
  OBVIOUS
<1>4. Unanswered(text[z], p) \/ text[z] = statusLine
  OBVIOUS
<1> HIDE DEF f, z
<1>5. f[0] = v /\ \A i \in 1..z : f[i] = TakeLine(f[i - 1], text[i], "can", skip, {p})
  BY <1>1 DEF Loops, z
<1>6. ASSUME NEW i \in 1..z, Unanswered(text[i], p), f[i - 1] = v PROVE f[i] = v
  <2>1. f[i] = TakeLine(v, text[i], "can", skip, {p})
    BY <1>5, <1>6
  <2>2. CASE text[i] \in {blankLine, echoLine}
    BY <2>1, <2>2, BeforeAnswer
  <2>3. ASSUME NEW q, text[i] = hexLine(q), ~StartsWith(q, p) PROVE f[i] = v
    BY <2>1, <2>3, BeforeAnswer
  <2> QED
    BY <1>6, <2>2, <2>3 DEF Unanswered
<1>7. f[z - 1] = v
  <2> DEFINE A == {v}
  <2>1. f[0] \in A /\ 0 \in Nat /\ z - 1 \in Nat /\ 0 <= z - 1 /\ z - 1 \in 0..(z - 1)
    BY <1>3, <1>5
  <2>2. ASSUME NEW i \in (0 + 1)..(z - 1), f[i - 1] \in A PROVE f[i] \in A
    <3>1. i \in 1..(z - 1) /\ i \in 1..z
      BY <1>3
    <3> QED
      BY <1>3, <1>6, <2>2, <3>1
  <2> HIDE DEF A
  <2>3. \A i \in 0..(z - 1) : f[i] \in A
    BY <2>1, <2>2, StaysIn
  <2> QED
    BY <2>1, <2>3 DEF A
<1>8. z \in 1..z
  BY <1>3
<1>9. CASE Unanswered(text[z], p)
  <2>1. f[z] = v
    BY <1>6, <1>7, <1>8, <1>9
  <2>2. v.current = <<>> /\ v.payloads = <<>>
    BY DEF StartLoop
  <2> QED
    BY <1>2, <2>1, <2>2 DEF Outcome
<1>10. CASE text[z] = statusLine
  <2>1. f[z] = TakeLine(v, statusLine, "can", skip, {p})
    BY <1>5, <1>7, <1>8, <1>10
  <2>2. decode_line(statusLine, "can", skip, {p}).ok = FALSE
    BY NoHex DEF Err
  <2>3. ~Skipped(v, statusLine, {p}) /\ v.ok = TRUE
    BY DEF Skipped, StartLoop, statusLine, Line
  <2>4. f[z] = [v EXCEPT !.ok = FALSE]
    BY <2>1, <2>2, <2>3 DEF TakeLine
  <2>5. f[z].ok = FALSE
    BY <2>4 DEF StartLoop
  <2> QED
    BY <1>2, <2>5 DEF Outcome
<1> QED
  BY <1>4, <1>9, <1>10

(***************************************************************************)
(* An answer in step                                                       *)
(***************************************************************************)

\* What a recognised call's answer repeats of its request.
Own(c, e) ==
    /\ c \in Calls /\ c.take # "transport" /\ c.sid \in Byte /\ c.data \in Seq(Byte)
    /\ e = EchoOf(c) /\ e = Slice(c.data, 0, EchoLength(c.sid)) /\ e \in Seq(Byte)
    /\ Len(e) = EchoLength(c.sid) /\ Len(e) \in 0..3 /\ Len(c.data) >= Len(e)
    /\ \A i \in 1..Len(e) : e[i] = c.data[i]

\* Every call but a J1979 request has it.
LEMMA OwnEcho ==
    ASSUME NEW c \in Calls, c.take # "transport"
    PROVE  Own(c, EchoOf(c))
<1> DEFINE n == EchoLength(c.sid)
           e == SubSeq(c.data, 1, n)
<1>1. c.data \in Seq(Byte) /\ Len(c.data) >= n /\ c.sid \in Byte
  BY CallsAssumption, RecognisedAssumption
<1>2. n \in 0..3
  BY DEF EchoLength
<1> HIDE DEF n
<1>3. Slice(c.data, 0, n) = e
  BY <1>2 DEF Slice
<1>4. EchoOf(c) = e
  <2>1. EchoOf(c) = Slice(c.data, 0, IF n > Len(c.data) THEN Len(c.data) ELSE n)
    BY DEF EchoOf, n
  <2>2. (IF n > Len(c.data) THEN Len(c.data) ELSE n) = n
    BY <1>1, <1>2
  <2> QED
    BY ONLY <1>3, <2>1, <2>2, Zenon
<1>5. e \in Seq(Byte) /\ Len(e) = n /\ \A i \in 1..n : e[i] = c.data[i]
  BY <1>1, <1>2
<1> HIDE DEF e
<1> QED
  BY <1>1, <1>2, <1>3, <1>4, <1>5 DEF Own, n

\* The service byte of its positive answer.
Service(c) == <<c.sid + 64>>


\* Its positive answer is the service byte, the echo and the record.
LEMMA OwnPositive ==
    ASSUME NEW c, NEW e, Own(c, e), NEW r \in Seq(Byte)
    PROVE  /\ Service(c) \in Seq(Byte) /\ Len(Service(c)) = 1 /\ Service(c)[1] = c.sid + 64
           /\ c.sid + 64 \in Byte \ {NEGATIVE} /\ Service(c) \o e \in Seq(Byte)
           /\ ThreeParts(Positive(c, r), Service(c), e, r)
           /\ Positive(c, r) \in Seq(Byte) /\ Positive(c, r) # <<>>
           /\ Positive(c, r)[1] = c.sid + 64
           /\ e \o r \in Seq(Byte) /\ After(Positive(c, r), 1) = e \o r
<1> DEFINE s == Service(c)
           b == (s \o e) \o r
<1>1. c.sid + 64 \in Byte \ {NEGATIVE}
  BY RecognisedAssumption DEF Own
<1>2. s \in Seq(Byte) /\ Len(s) = 1 /\ s[1] = c.sid + 64
  BY ONLY <1>1 DEF Service
<1>3. e \in Seq(Byte) /\ e = EchoOf(c)
  BY DEF Own
<1>4. /\ b = s \o (e \o r) /\ b \in Seq(Byte) /\ e \o r \in Seq(Byte)
      /\ After(b, Len(s)) = e \o r /\ ThreeParts(b, s, e, r)
  <2> HIDE DEF s
  <2>1. /\ ThreeParts(b, s, e, r)
        /\ e \o r \in Seq(Byte) /\ b \in Seq(Byte)
    BY <1>2, <1>3, MiddleSeparated, Zenon
  <2> QED
    BY <2>1, Zenon DEF ThreeParts
<1>5. s \o e \in Seq(Byte)
  BY <1>2, <1>3
<1>6. Positive(c, r) = b
  BY <1>3 DEF Positive, Service
<1>7. b # <<>> /\ b[1] = c.sid + 64
  <2> DEFINE er == e \o r
  <2>1. er \in Seq(Byte) /\ b = s \o er
    BY <1>4
  <2> HIDE DEF er, b, s
  <2>2. /\ s \o er \in Seq(Byte) /\ Len(s \o er) = Len(s) + Len(er) /\ Len(er) \in Nat
        /\ \A i \in 1..Len(s) : (s \o er)[i] = s[i]
    BY <1>2, <2>1, Joined
  <2>3. Len(b) # 0 /\ b[1] = s[1] /\ b \in Seq(Byte)
    BY <1>2, <2>1, <2>2
  <2> QED
    BY <1>2, <2>3
<1> HIDE DEF b, s
<1>8. After(Positive(c, r), 1) = e \o r
  BY <1>2, <1>4, <1>6
<1>9. ThreeParts(Positive(c, r), s, e, r)
  BY <1>4, <1>6
<1> QED
  BY <1>1, <1>2, <1>4, <1>5, <1>6, <1>7, <1>8, <1>9, Zenon DEF s

\* Two sequences of bytes, one after the other.
LEMMA BytesJoined ==
    \A s, t \in Seq(Byte) :
        /\ s \o t \in Seq(Byte) /\ Len(s \o t) = Len(s) + Len(t)
        /\ \A i \in 1..Len(s) : (s \o t)[i] = s[i]
        /\ \A i \in 1..Len(t) : (s \o t)[Len(s) + i] = t[i]
BY Joined

\* What the ELM decoder takes off the front of it, and what it keeps.
Prefix(c) == IF c.sid = 34 THEN Service(c) \o EchoOf(c) ELSE Service(c)
Kept(c, r) == (IF c.sid = 34 THEN <<>> ELSE EchoOf(c)) \o r

\* The prefix of a read by identifier is the echo too.
LEMMA IdentifierPrefix ==
    ASSUME NEW c, NEW e, Own(c, e), c.sid = 34
    PROVE  expected_response_prefix(<<c.sid>> \o c.data, 3) = {<<c.sid + 64>> \o e}
<1> DEFINE d == <<c.sid>> \o c.data
           h == <<c.sid>>
           u == SubSeq(d, 2, 3)
<1>1. e \in Seq(Byte) /\ Len(e) = 2 /\ c.data \in Seq(Byte) /\ Len(c.data) >= 2
      /\ \A i \in 1..2 : e[i] = c.data[i]
  <2>1. EchoLength(c.sid) = 2
    BY DEF EchoLength
  <2> QED
    BY <2>1 DEF Own
<1>2. h \in Seq(Byte) /\ Len(h) = 1 /\ h[1] = 34
  BY DEF Byte
<1>3. /\ d \in Seq(Byte) /\ Len(d) = 1 + Len(c.data) /\ d[1] = 34
      /\ \A i \in 1..Len(c.data) : d[1 + i] = c.data[i]
  <2> HIDE DEF h
  <2>1. h \o c.data \in Seq(Byte) /\ Len(h \o c.data) = Len(h) + Len(c.data)
        /\ (\A i \in 1..Len(h) : (h \o c.data)[i] = h[i])
        /\ \A i \in 1..Len(c.data) : (h \o c.data)[Len(h) + i] = c.data[i]
    BY <1>1, <1>2, BytesJoined
  <2> QED
    BY <1>2, <2>1 DEF h
<1> HIDE DEF d
<1>4. Len(d) >= 3 /\ d[2] = e[1] /\ d[3] = e[2]
  <2>1. 1 \in 1..Len(c.data) /\ 2 \in 1..Len(c.data) /\ 1 + 1 = 2 /\ 1 + 2 = 3
    BY <1>1
  <2>2. d[1 + 1] = c.data[1] /\ d[1 + 2] = c.data[2]
    BY <1>3, <2>1
  <2> QED
    BY <1>1, <1>3, <2>1, <2>2
<1>5. u = e
  <2>1. u \in Seq(Byte) /\ Len(u) = 2 /\ u[1] = d[2] /\ u[2] = d[3]
    BY <1>3, <1>4
  <2> HIDE DEF u
  <2>2. \A i \in 1..Len(u) : u[i] = e[i]
    BY <1>4, <2>1
  <2> QED
    BY <1>1, <2>1, <2>2, SeqEqual
<1>6. Slice(d, 1, 3 - 1) = u
  BY DEF Slice
<1>7. (d[1] + 64) % 256 = c.sid + 64
  BY <1>3
<1>8. ~(3 = 0 \/ Len(d) < 3)
  BY <1>3, <1>4
<1> QED
  BY <1>5, <1>6, <1>7, <1>8 DEF expected_response_prefix, d

\* The prefix of the others is the service byte.
LEMMA ServicePrefix ==
    ASSUME NEW c, NEW e, Own(c, e)
    PROVE  expected_response_prefix(<<c.sid>> \o c.data, 1) = {<<c.sid + 64>>}
<1> DEFINE d == <<c.sid>> \o c.data
           s == c.sid + 64
<1>1. c.sid \in Byte /\ c.data \in Seq(Byte) /\ s \in Byte
  BY RecognisedAssumption DEF Own
<1>2. <<c.sid>> \in Seq(Byte) /\ Len(<<c.sid>>) = 1 /\ <<c.sid>>[1] = c.sid
  BY <1>1
<1>3. d \in Seq(Byte) /\ Len(d) = 1 + Len(c.data) /\ d[1] = c.sid /\ Len(c.data) \in Nat
  BY <1>1, <1>2
<1> HIDE DEF d
<1>4. (d[1] + 64) % 256 = s
  <2> DEFINE x == c.sid
  <2>1. d[1] = x /\ x \in Byte /\ x + 64 \in Byte
    BY <1>1, <1>3
  <2> HIDE DEF x
  <2>2. (x + 64) % 256 = x + 64
    BY ONLY <2>1 DEF Byte
  <2> QED
    BY <2>1, <2>2 DEF x
<1>5. Slice(d, 1, 1 - 1) = <<>>
  BY <1>3 DEF Slice
<1>6. ~(1 = 0 \/ Len(d) < 1)
  BY <1>3
<1> HIDE DEF s
<1>7. <<s>> \o <<>> = <<s>>
  <2>1. <<s>> \in Seq(Byte)
    BY <1>1
  <2> QED
    BY <2>1
<1> QED
  BY <1>4, <1>5, <1>6, <1>7 DEF expected_response_prefix, d, s

\* An answer is its prefix and what is kept.
LEMMA PrefixAndKept ==
    ASSUME NEW c, NEW e, Own(c, e), NEW r \in Seq(Byte)
    PROVE  /\ SkipBytes(c.sid) \in Nat \ {0}
           /\ expected_response_prefix(<<c.sid>> \o c.data, SkipBytes(c.sid)) = {Prefix(c)}
           /\ Prefix(c) \in Seq(Byte) /\ Len(Prefix(c)) \in 1..3 /\ Prefix(c)[1] # NEGATIVE
           /\ Positive(c, r) = Prefix(c) \o Kept(c, r) /\ Kept(c, r) \in Seq(Byte)
           /\ StartsWith(Positive(c, r), Prefix(c))
           /\ After(Positive(c, r), Len(Prefix(c))) = Kept(c, r)
<1> DEFINE s == Service(c)
           p == Prefix(c)
           k == Kept(c, r)
           n == SkipBytes(c.sid)
           ex(i) == expected_response_prefix(<<c.sid>> \o c.data, i)
<1>1. e = EchoOf(c) /\ e \in Seq(Byte) /\ c.sid \notin {1, 2, 9, 33}
  BY RecognisedAssumption DEF Own
<1>2. /\ s \in Seq(Byte) /\ Len(s) = 1 /\ s[1] = c.sid + 64 /\ c.sid + 64 # NEGATIVE
      /\ s \o e \in Seq(Byte) /\ e \o r \in Seq(Byte)
      /\ Positive(c, r) = (s \o e) \o r /\ Positive(c, r) = s \o (e \o r)
  <2>1. /\ s \in Seq(Byte) /\ Len(s) = 1 /\ s[1] = c.sid + 64 /\ c.sid + 64 \in Byte \ {NEGATIVE}
        /\ s \o e \in Seq(Byte) /\ e \o r \in Seq(Byte)
        /\ ThreeParts(Positive(c, r), s, e, r)
    BY OwnPositive
  <2> QED
    BY <2>1 DEF ThreeParts
<1>3. n \in Nat \ {0} /\ ex(n) = {p} /\ p \in Seq(Byte) /\ Len(p) \in 1..3 /\ p[1] # NEGATIVE
      /\ Positive(c, r) = p \o k /\ k \in Seq(Byte)
  <2>1. CASE c.sid = 34
    <3>1. n = 3
      BY <2>1 DEF SkipBytes
    <3>2. p = s \o e /\ k = <<>> \o r
      BY <1>1, <2>1 DEF Prefix, Kept
    <3>3. <<>> \o r = r
      OBVIOUS
    <3>4. Len(e) = 2
      BY <2>1 DEF Own, EchoLength
    <3>5. ex(3) = {s \o e}
      BY <2>1, IdentifierPrefix DEF Service
    <3> HIDE DEF s, p, k, n, ex
    <3>6. Len(s \o e) = Len(s) + Len(e) /\ \A i \in 1..Len(s) : (s \o e)[i] = s[i]
      <4>1. s \in Seq(Byte) /\ e \in Seq(Byte)
        BY <1>1, <1>2
      <4> QED
        BY ONLY <4>1, BytesJoined
    <3>7. p \in Seq(Byte) /\ Len(p) \in 1..3 /\ p[1] # NEGATIVE
      BY <1>2, <3>2, <3>4, <3>6
    <3>8. Positive(c, r) = p \o k /\ k \in Seq(Byte)
      BY <1>2, <3>2, <3>3
    <3>9. n \in Nat \ {0} /\ ex(n) = {p}
      BY <3>1, <3>2, <3>5
    <3> QED
      BY <3>7, <3>8, <3>9
  <2>2. CASE c.sid # 34
    <3>1. n = 1
      BY <1>1, <2>2 DEF SkipBytes
    <3>2. p = s /\ k = e \o r
      BY <1>1, <2>2 DEF Prefix, Kept
    <3>3. ex(1) = {s}
      BY ServicePrefix DEF Service
    <3> HIDE DEF s, p, k, n, ex
    <3>4. p \in Seq(Byte) /\ Len(p) \in 1..3 /\ p[1] # NEGATIVE
      BY <1>2, <3>2
    <3>5. Positive(c, r) = p \o k /\ k \in Seq(Byte)
      BY <1>2, <3>2
    <3> QED
      BY <3>1, <3>2, <3>3, <3>4, <3>5
  <2> QED
    BY <2>1, <2>2
<1> HIDE DEF p, k
<1>4. StartsWith(p \o k, p)
  <2>1. StartsWith(p, p)
    BY <1>3, Begins
  <2> QED
    BY <1>3, <2>1, BeginsLonger
<1>5. After(p \o k, Len(p)) = k
  BY <1>3, Separated
<1> QED
  BY <1>3, <1>4, <1>5 DEF p, k

\* The service is none whose payload is cut to a known length.
LEMMA NotTruncated ==
    ASSUME NEW c, NEW e, Own(c, e), NEW p
    PROVE  truncate_known_payload(c.sid, c.data, p) = p
<1>1. c.sid \notin {1, 2}
  BY RecognisedAssumption DEF Own
<1> QED
  BY <1>1 DEF truncate_known_payload

\* What send_routed_command makes of the text of a positive answer is all of
\* it but the prefix.
LEMMA ElmExact ==
    ASSUME NEW c, NEW e, Own(c, e), NEW r \in Seq(Byte), Kept(c, r) # <<>>,
           NEW a, a.req = c, a.pdu = Positive(c, r), a.other \in Neighbours \ {"refusal_after"},
           \A i \in 2..Len(InLines(a.pdu)) : ~StartsWith(InLines(a.pdu)[i].bytes, Prefix(c))
    PROVE  send_routed_command(c.sid, c.data, Text(a), "can") = Ok(Kept(c, r))
<1> DEFINE b == a.pdu
           l == InLines(b)
           p == Prefix(c)
           x == Kept(c, r)
           t == Text(a)
           skip == SkipBytes(c.sid)
           command == <<c.sid>> \o c.data
<1>1. /\ skip \in Nat \ {0} /\ expected_response_prefix(command, skip) = {p}
      /\ p \in Seq(Byte) /\ Len(p) \in 1..3 /\ p[1] # NEGATIVE
      /\ x \in Seq(Byte) /\ StartsWith(b, p) /\ After(b, Len(p)) = x
  BY PrefixAndKept
<1>2. b \in Seq(Byte) /\ b # <<>> /\ StartsWith(LineOf(b, 1), p)
  <2>1. Positive(c, r) \in Seq(Byte)
    BY OwnPositive
  <2>2. b \in Seq(Byte)
    BY <2>1
  <2> HIDE DEF b
  <2> QED
    BY <1>1, <2>2, FirstLineBegins
<1>3. t \in Seq(PlainLines) /\ HasLines(t, l, p)
  <2>1. <<7, 7>> \in Seq(Byte)
    BY DEF Byte
  <2>2. Positive(c, <<7, 7>>) \in Seq(Byte) /\ StartsWith(Positive(c, <<7, 7>>), p)
    BY <2>1, OwnPositive, PrefixAndKept
  <2>3. c.sid \in Byte
    BY DEF Own
  <2> HIDE DEF p
  <2> QED
    BY <1>1, <1>2, <2>2, <2>3, TextInStep
<1>4. /\ Len(l) = LinesOf(b) /\ LinesOf(b) \in Nat \ {0}
      /\ \A i \in 1..LinesOf(b) : l[i] = hexLine(LineOf(b, i))
  BY <1>2, InLinesAre, LineEnds
<1>5. \A i \in 2..Len(l) : ~StartsWith(l[i].bytes, p)
  OBVIOUS
<1> HIDE DEF b, l, p, x, t, skip, command
<1>6. \A i \in 2..LinesOf(b) : ~StartsWith(LineOf(b, i), p)
  <2> TAKE i \in 2..LinesOf(b)
  <2>1. i \in 1..LinesOf(b) /\ i \in 2..Len(l)
    BY <1>4
  <2>2. l[i].bytes = LineOf(b, i)
    BY <1>4, <2>1 DEF hexLine, Line
  <2> QED
    BY <1>5, <2>1, <2>2
<1>7. PICK k \in {0, 1} :
          /\ k + Len(l) <= Len(t)
          /\ \A i \in 1..Len(l) : t[k + i] = l[i]
          /\ \A i \in 1..k : Unanswered(t[i], p)
          /\ Follows(t, k + Len(l), p)
  BY <1>3 DEF HasLines
<1>8. decode_elm_response_payload_for_command(t, "can", skip, command) = Ok(After(b, Len(p)))
  <2>1. /\ k \in Nat /\ k + LinesOf(b) <= Len(t)
        /\ \A i \in 1..LinesOf(b) : t[k + i] = hexLine(LineOf(b, i))
        /\ \A i \in 1..k : Unanswered(t[i], p)
        /\ Follows(t, k + LinesOf(b), p)
    BY <1>4, <1>7
  <2>2. After(b, Len(p)) \in Seq(Byte) /\ After(b, Len(p)) # <<>>
    BY <1>1 DEF x
  <2>3. /\ skip \in Nat \ {0} /\ expected_response_prefix(command, skip) = {p}
        /\ p \in Seq(Byte) /\ b \in Seq(Byte) /\ b # <<>> /\ t \in Seq(PlainLines)
        /\ StartsWith(LineOf(b, 1), p)
    BY <1>1, <1>2, <1>3
  <2> QED
    BY ONLY <1>6, <2>1, <2>2, <2>3, DecodedWhole
<1>9. Ok(x).ok = TRUE /\ Ok(x).v = x
  BY DEF Ok
<1>10. truncate_known_payload(c.sid, c.data, x) = x
  BY NotTruncated
<1> QED
  BY <1>1, <1>8, <1>9, <1>10 DEF send_routed_command, Then, x, t, skip, command

\* A text of two lines.
LEMMA PairOfLines ==
    ASSUME NEW x \in PlainLines, NEW y \in PlainLines
    PROVE  /\ <<x>> \o <<y>> \in Seq(PlainLines) /\ Len(<<x>> \o <<y>>) = 2
           /\ (<<x>> \o <<y>>)[1] = x /\ (<<x>> \o <<y>>)[2] = y
<1> DEFINE u == <<x>>
           v == <<y>>
           s == u \o v
<1>1. /\ u \in Seq(PlainLines) /\ v \in Seq(PlainLines)
      /\ Len(u) = 1 /\ Len(v) = 1 /\ u[1] = x /\ v[1] = y
  OBVIOUS
<1> HIDE DEF u, v
<1>2. \A f, g \in Seq(PlainLines) :
          /\ f \o g \in Seq(PlainLines) /\ Len(f \o g) = Len(f) + Len(g)
          /\ \A i \in 1..Len(f) : (f \o g)[i] = f[i]
          /\ \A i \in 1..Len(g) : (f \o g)[Len(f) + i] = g[i]
  BY Joined
<1>3. s \in Seq(PlainLines) /\ Len(s) = 2 /\ s[1] = x /\ s[1 + 1] = y
  <2>1. /\ s \in Seq(PlainLines) /\ Len(s) = Len(u) + Len(v)
        /\ \A i \in 1..Len(u) : s[i] = u[i]
        /\ \A i \in 1..Len(v) : s[Len(u) + i] = v[i]
    BY <1>1, <1>2, Zenon
  <2> HIDE DEF s
  <2> QED
    BY <1>1, <2>1
<1>4. 1 + 1 = 2
  OBVIOUS
<1> HIDE DEF s
<1>5. s \in Seq(PlainLines) /\ Len(s) = 2 /\ s[1] = x /\ s[2] = y
  BY ONLY <1>3, <1>4
<1> QED
  BY <1>5 DEF u, v, s

\* A text of three lines.
LEMMA ThreeLines ==
    ASSUME NEW x \in PlainLines, NEW y \in PlainLines, NEW z \in PlainLines
    PROVE  /\ (<<x>> \o <<y>>) \o <<z>> \in Seq(PlainLines)
           /\ Len((<<x>> \o <<y>>) \o <<z>>) = 3
           /\ ((<<x>> \o <<y>>) \o <<z>>)[1] = x /\ ((<<x>> \o <<y>>) \o <<z>>)[2] = y
           /\ ((<<x>> \o <<y>>) \o <<z>>)[3] = z
<1> DEFINE s == <<x>> \o <<y>>
           w == <<z>>
           t == s \o w
<1>1. w \in Seq(PlainLines) /\ Len(w) = 1 /\ w[1] = z
  OBVIOUS
<1> HIDE DEF w
<1>2. \A f, g \in Seq(PlainLines) :
          /\ f \o g \in Seq(PlainLines) /\ Len(f \o g) = Len(f) + Len(g)
          /\ \A i \in 1..Len(f) : (f \o g)[i] = f[i]
          /\ \A i \in 1..Len(g) : (f \o g)[Len(f) + i] = g[i]
  BY Joined
<1>3. s \in Seq(PlainLines) /\ Len(s) = 2 /\ s[1] = x /\ s[2] = y
  BY ONLY PairOfLines
<1> HIDE DEF s
<1>4. t \in Seq(PlainLines) /\ Len(t) = 3 /\ t[1] = s[1] /\ t[2] = s[2] /\ t[2 + 1] = z
  <2>1. /\ t \in Seq(PlainLines) /\ Len(t) = Len(s) + Len(w)
        /\ \A i \in 1..Len(s) : t[i] = s[i]
        /\ \A i \in 1..Len(w) : t[Len(s) + i] = w[i]
    BY <1>1, <1>2, <1>3, Zenon
  <2> HIDE DEF t
  <2> QED
    BY <1>1, <1>3, <2>1
<1>5. 2 + 1 = 3
  OBVIOUS
<1> HIDE DEF t
<1>6. t \in Seq(PlainLines) /\ Len(t) = 3 /\ t[1] = x /\ t[2] = y /\ t[3] = z
  BY ONLY <1>3, <1>4, <1>5
<1> QED
  BY <1>6 DEF s, w, t

\* The bytes of two lines.
LEMMA TwoCompact ==
    ASSUME NEW t \in Seq(PlainLines), Len(t) = 2,
           t[1].kind \in {"blank", "hex"}, t[2].kind \in {"blank", "hex"},
           t[1].bytes \in Seq(Byte), t[2].bytes \in Seq(Byte)
    PROVE  compact_response_bytes(t) = t[1].bytes \o t[2].bytes
<1> DEFINE x == t[1].bytes
           y == t[2].bytes
           m == Map(t, LAMBDA line : line.bytes)
<1>1. compact_response_bytes(t) = Concat(m)
  <2>1. \A i \in 1..Len(t) : i = 1 \/ i = 2
    OBVIOUS
  <2>2. ~ \E i \in 1..Len(t) : t[i].kind \notin {"blank", "hex"}
    BY <2>1
  <2> QED
    BY <2>2 DEF compact_response_bytes
<1>2. m = [i \in 1..2 |-> t[i].bytes]
  BY DEF Map
<1>3. x \in Seq(Byte) /\ y \in Seq(Byte)
  OBVIOUS
<1> DEFINE v == <<y>> \o <<>>
           w == <<x>> \o v
<1>8. /\ v \in Seq(Seq(Byte)) /\ Len(v) = 1 /\ v[1] = y
  <2> HIDE DEF x, y, m
  <2> QED
    BY ONLY <1>3
<1>9. m = w
  <2>1. m \in Seq(Seq(Byte)) /\ Len(m) = 2 /\ m[1] = x /\ m[2] = y
    <3>1. \A i \in 1..2 : t[i].bytes \in Seq(Byte)
      <4>1. \A i \in 1..2 : i = 1 \/ i = 2
        OBVIOUS
      <4> QED
        BY <1>3, <4>1
    <3> HIDE DEF m
    <3>2. m \in Seq(Seq(Byte)) /\ Len(m) = 2 /\ \A i \in 1..2 : m[i] = t[i].bytes
      BY ONLY <1>2, <3>1
    <3> QED
      BY <3>2
  <2> HIDE DEF x, y, m, v
  <2>2. w \in Seq(Seq(Byte)) /\ Len(w) = 2 /\ w[1] = x /\ w[2] = v[1]
    <3> DEFINE u == <<x>>
    <3>1. u \in Seq(Seq(Byte)) /\ Len(u) = 1 /\ u[1] = x
      BY ONLY <1>3
    <3>2. w = u \o v
      OBVIOUS
    <3> HIDE DEF u, w
    <3>3. \A f, g \in Seq(Seq(Byte)) :
              /\ f \o g \in Seq(Seq(Byte)) /\ Len(f \o g) = Len(f) + Len(g)
              /\ \A i \in 1..Len(f) : (f \o g)[i] = f[i]
              /\ \A i \in 1..Len(g) : (f \o g)[Len(f) + i] = g[i]
      BY Joined
    <3>4. /\ w \in Seq(Seq(Byte)) /\ Len(w) = Len(u) + Len(v)
          /\ \A i \in 1..Len(u) : w[i] = u[i]
          /\ \A i \in 1..Len(v) : w[Len(u) + i] = v[i]
      BY <1>8, <3>1, <3>2, <3>3, Zenon
    <3>5. Len(w) = 2 /\ w[1] = u[1] /\ w[2] = v[1]
      <4>1. Len(w) = 2 /\ w[1] = u[1] /\ w[1 + 1] = v[1]
        BY ONLY <1>8, <3>1, <3>4
      <4>2. 1 + 1 = 2
        OBVIOUS
      <4> QED
        BY ONLY <4>1, <4>2
    <3> QED
      BY ONLY <3>1, <3>4, <3>5
  <2> HIDE DEF w
  <2>3. \A i \in 1..2 : m[i] = w[i]
    <3>1. \A i \in 1..2 : i = 1 \/ i = 2
      OBVIOUS
    <3> QED
      BY ONLY <1>8, <2>1, <2>2, <3>1
  <2>4. Len(m) = Len(w) /\ \A i \in 1..Len(m) : m[i] = w[i]
    BY ONLY <2>1, <2>2, <2>3
  <2>5. \A f, g \in Seq(Seq(Byte)) :
            (Len(f) = Len(g) /\ \A i \in 1..Len(f) : f[i] = g[i]) => f = g
    BY SeqEqual
  <2> QED
    BY <2>1, <2>2, <2>4, <2>5, Zenon
<1> HIDE DEF m, x, y
<1>4. <<>> \in Seq(Seq(Byte))
  OBVIOUS
<1>5. Concat(v) = y \o <<>>
  BY <1>3, <1>4, ConcatCons, ConcatEmpty
<1> HIDE DEF v
<1>6. Concat(m) = x \o (y \o <<>>)
  BY <1>3, <1>5, <1>8, <1>9, ConcatCons
<1>7. y \o <<>> = y
  BY <1>3
<1> QED
  BY <1>1, <1>6, <1>7 DEF x, y

\* A sequence of two is not empty and has one element before its last.
LEMMA TwoIndices ==
    ASSUME NEW t \in Seq(PlainLines), Len(t) = 2
    PROVE  t # <<>> /\ \A i \in 1..(Len(t) - 1) : i = 1
OBVIOUS

\* The text of a refusal, and the bytes that are found in it.
LEMMA RefusalText ==
    ASSUME NEW c, NEW e, Own(c, e), NEW nrc \in Byte, NEW p \in Seq(Byte), p # <<>>, p[1] # NEGATIVE,
           NEW a, a.req = c, a.pdu = Refusal(c, nrc), a.other \in {"none", "status", "refusal_before"}
    PROVE  /\ Text(a) \in Seq(PlainLines) /\ Text(a) # <<>>
           /\ \A i \in 1..(Len(Text(a)) - 1) : Unanswered(Text(a)[i], p)
           /\ Unanswered(Text(a)[Len(Text(a))], p) \/ Text(a)[Len(Text(a))] = statusLine
           /\ a.other = "none" =>
                compact_response_bytes(Text(a)) = <<NEGATIVE, c.sid, nrc>>
           /\ a.other = "refusal_before" =>
                compact_response_bytes(Text(a)) =
                    <<NEGATIVE, c.sid, NeighbourCode>> \o <<NEGATIVE, c.sid, nrc>>
           /\ a.other = "status" => compact_response_bytes(Text(a)) = <<>>
<1> DEFINE n == hexLine(Refusal(c, nrc))
           o == hexLine(Refusal(c, NeighbourCode))
           t == Text(a)
<1>1. c.sid \in Byte
  BY DEF Own
<1>2. n \in PlainLines /\ Unanswered(n, p) /\ InLines(Refusal(c, nrc)) = <<n>>
  BY <1>1, RefusalShape
<1>3. o \in PlainLines /\ Unanswered(o, p) /\ InLines(Refusal(c, NeighbourCode)) = <<o>>
  BY <1>1, RefusalShape, NeighbourIsByte
<1>4. /\ blankLine \in PlainLines /\ Unanswered(blankLine, p)
      /\ echoLine \in PlainLines /\ Unanswered(echoLine, p) /\ statusLine \in PlainLines
  BY DEF PlainLines, Unanswered
<1>5. /\ n.kind = "hex" /\ n.bytes = <<NEGATIVE, c.sid, nrc>>
      /\ o.kind = "hex" /\ o.bytes = <<NEGATIVE, c.sid, NeighbourCode>>
      /\ blankLine.kind = "blank" /\ blankLine.bytes = <<>> /\ echoLine.kind = "echo"
  BY DEF hexLine, blankLine, echoLine, Line, Refusal
<1>6. /\ <<NEGATIVE, c.sid, nrc>> \in Seq(Byte)
      /\ <<NEGATIVE, c.sid, NeighbourCode>> \in Seq(Byte)
  BY <1>1, NeighbourIsByte DEF NEGATIVE, Byte
<1> HIDE DEF n, o
<1>7. CASE a.other = "none"
  <2>1. t = <<blankLine>> \o <<n>>
    BY <1>2, <1>7 DEF Text
  <2> HIDE DEF t
  <2>2. t \in Seq(PlainLines) /\ Len(t) = 2 /\ t[1] = blankLine /\ t[2] = n
    <3>1. n \in PlainLines /\ blankLine \in PlainLines
      BY <1>2, <1>4
    <3> QED
      BY ONLY <2>1, <3>1, PairOfLines
  <2>3. t # <<>> /\ \A i \in 1..(Len(t) - 1) : i = 1
    BY ONLY <2>2, TwoIndices
  <2>4. compact_response_bytes(t) = t[1].bytes \o t[2].bytes
    <3>1. t[1].kind \in {"blank", "hex"} /\ t[2].kind \in {"blank", "hex"}
      BY ONLY <1>5, <2>2
    <3>2. t[1].bytes \in Seq(Byte) /\ t[2].bytes \in Seq(Byte)
      <4>1. <<>> \in Seq(Byte)
        OBVIOUS
      <4> QED
        BY <1>5, <1>6, <2>2, <4>1, Zenon
    <3> QED
      BY ONLY <2>2, <3>1, <3>2, TwoCompact
  <2>5. compact_response_bytes(t) = <<NEGATIVE, c.sid, nrc>>
    <3> DEFINE y == <<NEGATIVE, c.sid, nrc>>
    <3>1. y \in Seq(Byte) /\ t[1].bytes = <<>> /\ t[2].bytes = y
      BY <1>5, <1>6, <2>2
    <3> HIDE DEF y
    <3>2. t[1].bytes \o t[2].bytes = y
      BY ONLY <3>1
    <3> QED
      BY <2>4, <3>2 DEF y
  <2> QED
    BY <1>2, <1>4, <1>7, <2>2, <2>3, <2>5 DEF t
<1>8. CASE a.other = "status"
  <2>1. t = (<<echoLine>> \o <<n>>) \o <<statusLine>>
    BY <1>2, <1>8 DEF Text
  <2> HIDE DEF t
  <2>2. /\ t \in Seq(PlainLines) /\ Len(t) = 3
        /\ t[1] = echoLine /\ t[2] = n /\ t[3] = statusLine
    BY <1>2, <1>4, <2>1, ThreeLines
  <2>3. \A i \in 1..2 : i = 1 \/ i = 2
    OBVIOUS
  <2>4. t # <<>> /\ \A i \in 1..(Len(t) - 1) : i \in 1..2
    BY ONLY <2>2
  <2>5. compact_response_bytes(t) = <<>>
    <3>1. 1 \in 1..Len(t) /\ t[1].kind \notin {"blank", "hex"}
      BY <1>5, <2>2
    <3> QED
      BY <3>1 DEF compact_response_bytes
  <2> QED
    BY <1>2, <1>4, <1>8, <2>2, <2>3, <2>4, <2>5 DEF t
<1>9. CASE a.other = "refusal_before"
  <2>1. t = <<o>> \o <<n>>
    BY <1>2, <1>3, <1>9 DEF Text
  <2> HIDE DEF t
  <2>2. t \in Seq(PlainLines) /\ Len(t) = 2 /\ t[1] = o /\ t[2] = n
    <3>1. n \in PlainLines /\ o \in PlainLines
      BY <1>2, <1>3
    <3> QED
      BY ONLY <2>1, <3>1, PairOfLines
  <2>3. t # <<>> /\ \A i \in 1..(Len(t) - 1) : i = 1
    BY ONLY <2>2, TwoIndices
  <2>4. compact_response_bytes(t) = t[1].bytes \o t[2].bytes
    <3>1. t[1].kind \in {"blank", "hex"} /\ t[2].kind \in {"blank", "hex"}
      BY ONLY <1>5, <2>2
    <3>2. t[1].bytes \in Seq(Byte) /\ t[2].bytes \in Seq(Byte)
      BY <1>5, <1>6, <2>2, Zenon
    <3> QED
      BY ONLY <2>2, <3>1, <3>2, TwoCompact
  <2>5. compact_response_bytes(t) = <<NEGATIVE, c.sid, NeighbourCode>> \o <<NEGATIVE, c.sid, nrc>>
    BY <1>5, <2>2, <2>4, Zenon
  <2> QED
    BY <1>2, <1>3, <1>9, <2>2, <2>3, <2>5 DEF t
<1> QED
  BY <1>7, <1>8, <1>9

\* Of the text of a refusal the adapter makes the error that names the service
\* and the code, unless an echo comes first or the code is not known.
LEMMA ElmRefused ==
    ASSUME NEW c, NEW e, Own(c, e), NEW nrc \in Byte,
           NEW a, a.req = c, a.pdu = Refusal(c, nrc), a.other \in {"none", "status", "refusal_before"}
    PROVE  LET h == send_routed_command(c.sid, c.data, Text(a), "can")
           IN  /\ ~h.ok
               /\ (a.other # "status" /\ nrc \in NegativeCodes) => h = NegativeResponse(c.sid, nrc)
<1> DEFINE p == Prefix(c)
           t == Text(a)
           skip == SkipBytes(c.sid)
           command == <<c.sid>> \o c.data
           b == compact_response_bytes(t)
           h == send_routed_command(c.sid, c.data, t, "can")
<1>1. /\ skip \in Nat \ {0} /\ expected_response_prefix(command, skip) = {p}
      /\ p \in Seq(Byte) /\ p # <<>> /\ p[1] # NEGATIVE
  <2>1. <<>> \in Seq(Byte)
    OBVIOUS
  <2>2. /\ skip \in Nat \ {0} /\ expected_response_prefix(command, skip) = {p}
        /\ p \in Seq(Byte) /\ Len(p) \in 1..3 /\ p[1] # NEGATIVE
    BY <2>1, PrefixAndKept
  <2> HIDE DEF p
  <2>3. p # <<>>
    BY <2>2
  <2> QED
    BY <2>2, <2>3
<1> HIDE DEF p
<1>2. /\ t \in Seq(PlainLines) /\ t # <<>>
      /\ \A i \in 1..(Len(t) - 1) : Unanswered(t[i], p)
      /\ Unanswered(t[Len(t)], p) \/ t[Len(t)] = statusLine
      /\ a.other = "none" => b = <<NEGATIVE, c.sid, nrc>>
      /\ a.other = "refusal_before" => b = <<NEGATIVE, c.sid, NeighbourCode>> \o <<NEGATIVE, c.sid, nrc>>
      /\ a.other = "status" => b = <<>>
  BY <1>1, RefusalText
<1> HIDE DEF t, skip, command
<1>3. decode_elm_response_payload_for_command(t, "can", skip, command) = Err
  BY <1>1, <1>2, NothingDecoded
<1>4. h = check_response_error(t)
  BY <1>3 DEF send_routed_command, Err, t, skip, command
<1> HIDE DEF h, b
<1>5. ~h.ok
  BY <1>4 DEF check_response_error, NegativeResponse, Err
<1>6. ASSUME a.other # "status", nrc \in NegativeCodes
      PROVE  h = NegativeResponse(c.sid, nrc)
  <2> DEFINE z == Len(b)
             codes == {i \in 3..z : b[i] \in NegativeCodes}
  <2>1. z \in {3, 6} /\ b[1] = 127 /\ b[2] = c.sid /\ b[z] = nrc
    <3> DEFINE u == <<NEGATIVE, c.sid, NeighbourCode>>
               v == <<NEGATIVE, c.sid, nrc>>
    <3>3. /\ u \in Seq(Byte) /\ Len(u) = 3 /\ u[1] = 127 /\ u[2] = c.sid
          /\ v \in Seq(Byte) /\ Len(v) = 3 /\ v[1] = 127 /\ v[2] = c.sid /\ v[3] = nrc
      BY NeighbourIsByte DEF NEGATIVE, Own, Byte
    <3> HIDE DEF u, v
    <3>4. (a.other = "none" => b = v) /\ (a.other = "refusal_before" => b = u \o v)
      BY <1>2 DEF u, v
    <3>1. CASE a.other = "none"
      BY ONLY <3>1, <3>3, <3>4
    <3>2. CASE a.other = "refusal_before"
      <4> DEFINE w == u \o v
      <4>1. \A f, g \in Seq(Byte) :
                /\ Len(f \o g) = Len(f) + Len(g)
                /\ \A i \in 1..Len(f) : (f \o g)[i] = f[i]
                /\ \A i \in 1..Len(g) : (f \o g)[Len(f) + i] = g[i]
        BY Joined
      <4>2. /\ Len(w) = Len(u) + Len(v)
            /\ \A i \in 1..Len(u) : w[i] = u[i]
            /\ \A i \in 1..Len(v) : w[Len(u) + i] = v[i]
        BY <3>3, <4>1, Zenon
      <4>3. b = w
        BY <3>2, <3>4
      <4> HIDE DEF w
      <4>4. Len(w) = 6 /\ w[1] = u[1] /\ w[2] = u[2] /\ w[3 + 3] = v[3]
        BY ONLY <3>3, <4>2
      <4> QED
        BY ONLY <3>3, <4>3, <4>4
    <3> QED
      BY <1>6, <3>1, <3>2
  <2>2. z \in codes /\ \A j \in codes : j <= z
    <3>1. \A k \in {3, 6} : k \in 3..k /\ \A j \in 3..k : j <= k
      OBVIOUS
    <3> HIDE DEF z
    <3>2. z \in 3..z /\ \A j \in 3..z : j <= z
      BY ONLY <2>1, <3>1
    <3>3. b[z] \in NegativeCodes
      BY <1>6, <2>1
    <3> QED
      BY <3>2, <3>3, Zenon
  <2>3. \A i \in codes : (\A j \in codes : j <= i) => i = z
    BY <2>1, <2>2
  <2>4. (CHOOSE i \in codes : \A j \in codes : j <= i) = z
    BY <2>2, <2>3
  <2>5. codes # {}
    BY <2>2
  <2> HIDE DEF codes
  <2>6. check_response_error(t) =
            IF codes # {} /\ b[1] = 127
            THEN NegativeResponse(b[2], b[CHOOSE i \in codes : \A j \in codes : j <= i])
            ELSE Err
    BY DEF check_response_error, b, codes
  <2> QED
    BY ONLY <1>4, <2>1, <2>4, <2>5, <2>6
<1> QED
  BY <1>5, <1>6 DEF h, t

\* The payload is a whole response, for request_service.
LooksLikeWhole(c, q) ==
    /\ q # <<>> /\ q[1] = c.sid + 64
    /\ raw_positive_response_matches_echo(c.sid, c.data, After(q, 1))

\* A whole answer is stripped of its service byte, any other is left alone.
LEMMA Normalized ==
    ASSUME NEW c, NEW e, Own(c, e), NEW q, NEW n, n = normalize_transport_payload(c.sid, c.data, q)
    PROVE  /\ LooksLikeWhole(c, q) => n = Ok(After(q, 1))
           /\ (~LooksLikeWhole(c, q) /\ (q = <<>> \/ q[1] # NEGATIVE)) => n = Ok(q)
           /\ (~LooksLikeWhole(c, q) /\ n.ok) => n = Ok(q)
<1> DEFINE s == c.sid + 64
           pr == positive_response_sid(c.sid)
<1>1. c.sid \in 0..255 /\ s \in 0..255 /\ s # NEGATIVE
  BY RecognisedAssumption DEF Own, Byte
<1>2. pr.ok /\ pr.v = s
  <2>1. ~(s > 255)
    BY <1>1
  <2> QED
    BY <2>1 DEF positive_response_sid, Ok
<1> HIDE DEF s, pr
<1>3. CASE LooksLikeWhole(c, q)
  <2>1. q # <<>> /\ q[1] = s /\ raw_positive_response_matches_echo(c.sid, c.data, After(q, 1))
    BY <1>3 DEF LooksLikeWhole, s
  <2> QED
    BY <1>1, <1>2, <1>3, <2>1 DEF normalize_transport_payload, pr
<1>4. CASE ~LooksLikeWhole(c, q) /\ (q = <<>> \/ q[1] # NEGATIVE)
  <2>1. ~(q # <<>> /\ q[1] = s /\ raw_positive_response_matches_echo(c.sid, c.data, After(q, 1)))
    BY <1>4 DEF LooksLikeWhole, s
  <2> QED
    BY <1>2, <1>4, <2>1 DEF normalize_transport_payload, pr
<1>5. CASE q # <<>> /\ q[1] = NEGATIVE
  <2>1. ~LooksLikeWhole(c, q)
    BY <1>1, <1>5 DEF LooksLikeWhole, s
  <2>2. ~n.ok
    BY <1>5, RefusalIsError DEF normalize_transport_payload, parse_uds_response
  <2> QED
    BY <1>5, <2>1, <2>2
<1> QED
  BY <1>1, <1>3, <1>4, <1>5 DEF LooksLikeWhole, s

\* What is left of an answer of r when its prefix is gone.
Remains(c, r) == (IF transport = "elm" /\ c.sid = 34 THEN <<>> ELSE EchoOf(c)) \o r

\* Service 14 alone has no echo.
LEMMA EchoOrEmpty ==
    ASSUME NEW c, NEW e, Own(c, e)
    PROVE  /\ EchoLength(c.sid) = 0 <=> c.sid = 20
           /\ c.take = "empty" <=> c.sid = 20
           /\ (c.sid # 20) => (Len(e) \in 1..3 /\ e # <<>> /\ c.data # <<>> /\ e[1] = c.data[1])
<1>1. EchoLength(c.sid) = 0 <=> c.sid = 20
  BY DEF EchoLength
<1>2. c.take = "empty" <=> c.sid = 20
  BY RecognisedAssumption DEF Own
<1>3. ASSUME c.sid # 20
      PROVE  Len(e) \in 1..3 /\ e # <<>> /\ c.data # <<>> /\ e[1] = c.data[1]
  <2>1. /\ e \in Seq(Byte) /\ Len(e) \in 0..3 /\ Len(e) # 0 /\ Len(c.data) >= Len(e)
        /\ c.data \in Seq(Byte) /\ \A i \in 1..Len(e) : e[i] = c.data[i]
    BY <1>1, <1>3 DEF Own
  <2>2. Len(e) \in 1..3 /\ Len(c.data) # 0
    BY <2>1
  <2> QED
    BY <2>1, <2>2
<1> QED
  BY <1>1, <1>2, <1>3

\* The PDU as a raw transport hands it back does look whole.
LEMMA PositiveIsWhole ==
    ASSUME NEW c, NEW e, Own(c, e), NEW r \in Seq(Byte), c.take = "empty" => r = <<>>
    PROVE  LooksLikeWhole(c, Positive(c, r)) /\ After(Positive(c, r), 1) = e \o r
<1> DEFINE b == Positive(c, r)
<1>1. b # <<>> /\ b[1] = c.sid + 64 /\ After(b, 1) = e \o r
  BY OwnPositive
<1>2. e \in Seq(Byte) /\ e = Slice(c.data, 0, EchoLength(c.sid)) /\ Len(c.data) >= EchoLength(c.sid)
  BY DEF Own
<1>3. raw_positive_response_matches_echo(c.sid, c.data, e \o r)
  <2>1. CASE EchoLength(c.sid) = 0
    <3>1. r = <<>> /\ Len(e) = 0
      BY <2>1, EchoOrEmpty DEF Own
    <3>2. e \o r = <<>>
      BY <1>2, <3>1
    <3> QED
      BY <2>1, <3>2 DEF raw_positive_response_matches_echo
  <2>2. CASE EchoLength(c.sid) # 0
    <3>1. StartsWith(e, e)
      BY <1>2, Begins
    <3>2. StartsWith(e \o r, e)
      BY <1>2, <3>1, BeginsLonger
    <3> QED
      BY <1>2, <2>2, <3>2 DEF raw_positive_response_matches_echo
  <2> QED
    BY <2>1, <2>2
<1> HIDE DEF b
<1> QED
  BY <1>1, <1>3 DEF LooksLikeWhole, b

\* The bytes after the first m.
LEMMA AfterBytes ==
    ASSUME NEW q \in Seq(Byte), NEW m \in Nat, m <= Len(q)
    PROVE  /\ After(q, m) \in Seq(Byte) /\ Len(After(q, m)) = Len(q) - m
           /\ \A i \in 1..Len(After(q, m)) : After(q, m)[i] = q[m + i]
<1> DEFINE z == Len(q)
           t == After(q, m)
           y == m + 1
<1>1. z \in Nat /\ m <= z
  OBVIOUS
<1>2. t = SubSeq(q, y, z) /\ y \in Int /\ z \in Int /\ \A i \in y..z : q[i] \in Byte
  BY <1>1 DEF After
<1> HIDE DEF t, y, z
<1>3. /\ SubSeq(q, y, z) \in Seq(Byte) /\ Len(SubSeq(q, y, z)) = (IF y <= z THEN z - y + 1 ELSE 0)
      /\ \A i \in 1..(z - y + 1) : SubSeq(q, y, z)[i] = q[y + i - 1]
  BY ONLY <1>2, SubSeqProperties
<1>4. t \in Seq(Byte) /\ Len(t) = z - m /\ \A i \in 1..(z - m) : t[i] = q[m + i]
  BY <1>1, <1>2, <1>3 DEF y
<1> QED
  BY <1>4 DEF t, z

\* An identifier after the service byte of its answer.
WithService(e) == <<98>> \o e

\* What is left does not, unless nothing tells the two apart.
LEMMA RemainsIsNot ==
    ASSUME NEW c, NEW e, Own(c, e), NEW r \in Seq(Byte), c.take = "empty" => r = <<>>,
           ~LooksWhole(c),
           (transport = "elm" /\ c.sid = 34) => ~StartsWith(Remains(c, r), WithService(e))
    PROVE  ~LooksLikeWhole(c, Remains(c, r)) /\ Remains(c, r) \in Seq(Byte)
<1> DEFINE q == Remains(c, r)
<1>1. e \in Seq(Byte) /\ e = EchoOf(c) /\ e = Slice(c.data, 0, EchoLength(c.sid))
  BY DEF Own
<1>2. CASE transport = "elm" /\ c.sid = 34
  <2>1. q = r
    BY <1>2 DEF Remains
  <2>2. ASSUME LooksLikeWhole(c, r) PROVE FALSE
    <3>1. r # <<>> /\ r[1] = 98 /\ raw_positive_response_matches_echo(c.sid, c.data, After(r, 1))
      BY <1>2, <2>2 DEF LooksLikeWhole
    <3> DEFINE t == After(r, 1)
    <3>2. StartsWith(t, e)
      <4>1. EchoLength(c.sid) # 0
        BY <1>2 DEF EchoLength
      <4> QED
        BY <1>1, <3>1, <4>1 DEF raw_positive_response_matches_echo
    <3>3. t \in Seq(Byte) /\ Len(t) = Len(r) - 1 /\ \A i \in 1..Len(t) : t[i] = r[i + 1]
      <4> DEFINE y == Len(r)
      <4>1. y \in Nat /\ y # 0
        BY <3>1
      <4> HIDE DEF y
      <4>2. 1 <= y /\ \A i \in Nat : 1 + i = i + 1
        BY <4>1
      <4>3. 1 <= Len(r)
        BY <4>2 DEF y
      <4>4. /\ t \in Seq(Byte) /\ Len(t) = Len(r) - 1
            /\ \A i \in 1..Len(t) : t[i] = r[1 + i]
        BY <4>3, AfterBytes
      <4> QED
        BY <4>2, <4>4
    <3> HIDE DEF t
    <3>4. Len(t) >= Len(e) /\ \A i \in 1..Len(e) : t[i] = e[i]
      <4>1. t \in Seq(Byte) /\ e \in Seq(Byte)
        BY <1>1, <3>3
      <4> QED
        BY ONLY <3>2, <4>1, Begins
    <3> DEFINE p == <<98>> \o e
               h == <<98>>
    <3>5. h \in Seq(Byte) /\ Len(h) = 1 /\ h[1] = 98
      BY DEF Byte
    <3> HIDE DEF h
    <3>6. /\ h \o e \in Seq(Byte) /\ Len(h \o e) = Len(h) + Len(e)
          /\ \A i \in 1..Len(h) : (h \o e)[i] = h[i]
          /\ \A i \in 1..Len(e) : (h \o e)[Len(h) + i] = e[i]
      BY <1>1, <3>5, BytesJoined
    <3>7. p = h \o e
      BY DEF h
    <3> HIDE DEF p
    <3>8. /\ p \in Seq(Byte) /\ Len(p) = 1 + Len(e) /\ p[1] = 98
          /\ \A i \in 1..Len(e) : p[1 + i] = e[i]
      BY <3>5, <3>6, <3>7
    <3>9. Len(r) >= Len(p) /\ Len(e) \in Nat
      BY <1>1, <3>3, <3>4, <3>8
    <3>10. ASSUME NEW i \in 1..Len(p) PROVE r[i] = p[i]
      <4>1. CASE i = 1
        BY <3>1, <3>8, <4>1
      <4>2. CASE i # 1
        <5> DEFINE j == i - 1
        <5>1. j \in 1..Len(e) /\ i = 1 + j /\ i = j + 1 /\ j \in 1..Len(t)
          BY <3>3, <3>4, <3>8, <3>9, <4>2
        <5> HIDE DEF j
        <5> QED
          BY <3>3, <3>4, <3>8, <5>1
      <4> QED
        BY <4>1, <4>2
    <3>11. StartsWith(r, p)
      BY <3>8, <3>9, <3>10, Begins
    <3> QED
      BY <1>2, <2>1, <3>11 DEF p, WithService
  <2> QED
    BY <2>1, <2>2
<1>3. CASE ~(transport = "elm" /\ c.sid = 34)
  <2>1. q = e \o r
    BY <1>1, <1>3 DEF Remains
  <2>2. CASE c.sid = 20
    <3>1. Len(e) = 0 /\ r = <<>>
      BY <2>2, EchoOrEmpty DEF Own
    <3>2. q = <<>>
      BY <1>1, <2>1, <3>1
    <3> QED
      BY <3>2 DEF LooksLikeWhole
  <2>3. CASE c.sid # 20
    <3>1. Len(e) \in 1..3 /\ c.data # <<>> /\ e[1] = c.data[1]
      BY <2>3, EchoOrEmpty
    <3>2. q \in Seq(Byte) /\ q[1] = e[1]
      BY <1>1, <2>1, <3>1, BytesJoined
    <3>3. q[1] # c.sid + 64
      BY <3>1, <3>2 DEF LooksWhole
    <3> QED
      BY <3>2, <3>3 DEF LooksLikeWhole
  <2> QED
    BY <2>2, <2>3
<1> QED
  BY <1>2, <1>3

\* Bytes after the first n of those.
LEMMA AfterAfter ==
    ASSUME NEW q \in Seq(Byte), NEW m \in Nat, NEW n \in Nat, m + n <= Len(q)
    PROVE  After(After(q, m), n) = After(q, m + n)
<1> DEFINE z == Len(q)
           t == After(q, m)
           u == After(t, n)
           v == After(q, m + n)
<1>1. z \in Nat /\ m + n <= z /\ m <= z /\ m + n \in Nat
  OBVIOUS
<1>2. t \in Seq(Byte) /\ Len(t) = z - m /\ \A i \in 1..Len(t) : t[i] = q[m + i]
  BY <1>1, AfterBytes
<1>3. v \in Seq(Byte) /\ Len(v) = z - (m + n) /\ \A i \in 1..Len(v) : v[i] = q[m + n + i]
  BY <1>1, AfterBytes
<1> HIDE DEF t, v, z
<1>4. u \in Seq(Byte) /\ Len(u) = Len(t) - n /\ \A i \in 1..Len(u) : u[i] = t[n + i]
  <2>1. n <= Len(t)
    BY <1>1, <1>2
  <2> QED
    BY <1>2, <2>1, AfterBytes
<1> HIDE DEF u
<1>5. Len(u) = Len(v)
  BY <1>1, <1>2, <1>3, <1>4
<1>6. ASSUME NEW i \in 1..Len(u) PROVE u[i] = v[i]
  <2>1. i \in 1..Len(v) /\ n + i \in 1..Len(t) /\ m + (n + i) = m + n + i
    BY <1>1, <1>2, <1>4, <1>5
  <2> QED
    BY <1>2, <1>3, <1>4, <2>1
<1>7. u = v
  BY <1>3, <1>4, <1>5, <1>6, SeqEqual
<1> QED
  BY <1>7 DEF u, v, t

\* What begins with the echo is taken apart into the record.
LEMMA DidMatches ==
    ASSUME NEW q \in Seq(Byte), Len(q) >= 2, NEW did, did[1] = q[1], did[2] = q[2]
    PROVE  split_required_did(q, did) = Ok(After(q, 2))
BY DEF split_required_did, Be16

\* The same for the one byte of a session type's echo.
LEMMA EchoMatches ==
    ASSUME NEW q \in Seq(Byte), Len(q) >= 1
    PROVE  split_required_echo(q, q[1]) = Ok(After(q, 1))
<1>1. q # <<>>
  OBVIOUS
<1> QED
  BY <1>1 DEF split_required_echo

\* How many trouble codes a report of whole records lists.
LEMMA ReportCounts ==
    ASSUME NEW r \in Seq(Byte), NEW t, t = DtcReport(r), t.ok
    PROVE  1 + 4 * Len(t.v) = Len(r)
<1> DEFINE b == After(r, 1)
           n == Len(b) \div 4
           v == Map(Chunks(b, 4), LAMBDA c :
                    [code |-> Be16(c), failure_type |-> c[3], status |-> c[4]])
<1>0. t = Ok(v) /\ r # <<>> /\ Remainder(b, 4) = <<>>
  BY DEF DtcReport, decode_dtc_and_status_records, Err
<1> HIDE DEF v
<1>1. r # <<>> /\ Remainder(b, 4) = <<>>
  BY <1>0
<1>2. b \in Seq(Byte) /\ Len(b) = Len(r) - 1 /\ Len(b) \in Nat /\ Len(r) \in Nat
  <2>1. 1 <= Len(r) /\ Len(r) \in Nat
    BY <1>1
  <2> QED
    BY <2>1, AfterBytes
<1>3. n \in Nat /\ 4 * n <= Len(b) /\ Len(b) < 4 * n + 4
  <2> DEFINE z == Len(b)
  <2>1. z \in Nat
    BY <1>2
  <2> HIDE DEF z
  <2>2. z \div 4 \in Nat /\ 4 * (z \div 4) <= z /\ z < 4 * (z \div 4) + 4
    BY <2>1
  <2> QED
    BY <2>2 DEF z
<1> HIDE DEF b
<1>4. Len(v) = n
  <2>1. Len(Chunks(b, 4)) = n
    BY <1>3 DEF Chunks
  <2> HIDE DEF n
  <2> QED
    BY <1>3, <2>1 DEF Map, v
<1>5. ~(4 * n < Len(b))
  <2> DEFINE y == 4 * n
  <2>1. y \in Nat /\ y <= Len(b)
    BY <1>3
  <2>2. Remainder(b, 4) = After(b, y)
    BY DEF Remainder
  <2> HIDE DEF y, n
  <2> SUFFICES ASSUME y < Len(b) PROVE FALSE
    BY DEF y
  <2>3. Len(After(b, y)) = Len(b) - y
    BY <1>2, <2>1, AfterBytes
  <2>4. Len(After(b, y)) = 0
    BY <1>1, <2>2
  <2> QED
    BY <1>2, <2>1, <2>3, <2>4
<1> HIDE DEF n
<1>6. t.v = v
  BY <1>0 DEF Ok
<1> QED
  BY <1>2, <1>3, <1>4, <1>5, <1>6

\* What a call makes of what is left of its answer.
LEMMA TakenExact ==
    ASSUME NEW c, NEW e, Own(c, e), NEW r \in Seq(Byte), c.take = "empty" => r = <<>>,
           (transport = "elm" /\ c.take = "identifier") => ~StartsWith(Remains(c, r), c.data),
           NEW t, t = Taken(c, Remains(c, r))
    PROVE  /\ c.take \in {"echo", "did", "routine", "identifier", "empty"} => t = Ok(r)
           /\ (c.take = "dtcs" /\ t.ok) => 1 + 4 * Len(t.v) = Len(r)
           /\ c.take = "payload" => t = Ok(Remains(c, r))
<1> DEFINE q == Remains(c, r)
           z == e \o r
<1>1. /\ c \in Calls /\ e \in Seq(Byte) /\ e = EchoOf(c) /\ Len(e) = EchoLength(c.sid)
      /\ c.data \in Seq(Byte) /\ Len(c.data) >= Len(e) /\ \A i \in 1..Len(e) : e[i] = c.data[i]
  BY DEF Own
<1>2. /\ z \in Seq(Byte) /\ Len(z) = Len(e) + Len(r) /\ Len(r) \in Nat
      /\ \A i \in 1..Len(e) : z[i] = c.data[i]
      /\ After(z, Len(e)) = r
  <2>1. /\ z \in Seq(Byte) /\ Len(z) = Len(e) + Len(r)
        /\ \A i \in 1..Len(e) : z[i] = e[i]
    BY <1>1, BytesJoined
  <2>2. After(z, Len(e)) = r
    BY <1>1, Separated
  <2> QED
    BY <1>1, <2>1, <2>2
<1>3. c.sid # 34 => q = z
  BY <1>1 DEF Remains
<1>4. transport # "elm" => q = z
  BY <1>1 DEF Remains
<1>5. (transport = "elm" /\ c.sid = 34) => q = r
  BY DEF Remains
<1> HIDE DEF q, z
<1>6. t = Taken(c, q)
  BY DEF q
<1>7. CASE c.take = "echo"
  <2>1. c.sid \in {16, 17, 25, 39, 41, 62, 133}
    BY <1>1, <1>7, CallsAssumption DEF EchoServices
  <2>2. Len(e) = 1 /\ q = z
    BY <1>1, <1>3, <2>1 DEF EchoLength
  <2>3. Len(z) >= 1 /\ z[1] = c.data[1]
    BY <1>2, <2>2
  <2>4. split_required_echo(z, z[1]) = Ok(r)
    BY <1>2, <2>2, <2>3, EchoMatches
  <2>5. t = split_required_echo(z, z[1])
    BY <1>6, <1>7, <2>2, <2>3 DEF Taken
  <2> QED
    BY <1>7, <2>4, <2>5
<1>8. CASE c.take = "dtcs"
  <2>1. c.sid = 25 /\ c.data[1] = 2
    BY <1>1, <1>8, CallsAssumption
  <2>2. Len(e) = 1 /\ q = z
    BY <1>1, <1>3, <2>1 DEF EchoLength
  <2>3. Len(z) >= 1 /\ z[1] = 2
    BY <1>2, <2>1, <2>2
  <2>4. split_required_echo(z, 2) = Ok(r)
    BY <1>2, <2>2, <2>3, EchoMatches
  <2>5. t = DtcReport(r)
    BY <1>6, <1>8, <2>2, <2>4 DEF Taken, Then, Ok
  <2> QED
    BY <1>8, <2>5, ReportCounts
<1>9. CASE c.take = "did"
  <2>1. c.sid \in {46, 47}
    BY <1>1, <1>9, CallsAssumption
  <2>2. Len(e) = 2 /\ q = z
    BY <1>1, <1>3, <2>1 DEF EchoLength
  <2>3. Len(z) >= 2 /\ z[1] = c.data[1] /\ z[2] = c.data[2]
    BY <1>2, <2>2
  <2>4. split_required_did(z, c.data) = Ok(r)
    BY <1>2, <2>2, <2>3, DidMatches
  <2>5. t = split_required_did(z, c.data)
    BY <1>6, <1>9, <2>2 DEF Taken
  <2> QED
    BY <1>9, <2>4, <2>5
<1>10. CASE c.take = "routine"
  <2> DEFINE id == After(c.data, 1)
             y == After(z, 1)
  <2>1. c.sid = 49
    BY <1>1, <1>10, CallsAssumption
  <2>2. Len(e) = 3 /\ q = z
    BY <1>1, <1>3, <2>1 DEF EchoLength
  <2>3. Len(z) >= 3 /\ z[1] = c.data[1] /\ z[2] = c.data[2] /\ z[3] = c.data[3] /\ Len(c.data) >= 3
    BY <1>1, <1>2, <2>2
  <2>4. split_required_echo(z, c.data[1]) = Ok(y)
    BY <1>2, <2>3, EchoMatches
  <2>5. y \in Seq(Byte) /\ Len(y) >= 2 /\ y[1] = z[2] /\ y[2] = z[3]
    BY <1>2, <2>3 DEF After
  <2>6. id[1] = c.data[2] /\ id[2] = c.data[3]
    BY <1>1, <2>3 DEF After
  <2>7. After(y, 2) = r
    <3>1. After(After(z, 1), 2) = After(z, 1 + 2)
      BY <1>2, <2>3, AfterAfter
    <3> QED
      BY <1>2, <2>2, <3>1
  <2> HIDE DEF id, y
  <2>8. split_required_did(y, id) = Ok(r)
    BY <2>3, <2>5, <2>6, <2>7, DidMatches
  <2>9. t = RequireRoutine(z, c.data[1], id)
    BY <1>6, <1>10, <2>2 DEF Taken, id
  <2>10. Ok(y).ok = TRUE /\ Ok(y).v = y
    BY DEF Ok
  <2> QED
    BY <1>10, <2>4, <2>8, <2>9, <2>10 DEF RequireRoutine, Then
<1>11. CASE c.take = "identifier"
  <2>1. c.sid = 34 /\ Len(c.data) = 2
    BY <1>1, <1>11, RecognisedAssumption
  <2>2. t = Ok(StripIdentifier(q, c.data))
    BY <1>6, <1>11 DEF Taken
  <2>3. CASE transport = "elm"
    <3>1. q = r /\ ~StartsWith(q, c.data)
      BY <1>5, <1>11, <2>1, <2>3 DEF q
    <3> QED
      BY <1>11, <2>2, <3>1 DEF StripIdentifier
  <2>4. CASE transport # "elm"
    <3>1. q = z /\ Len(e) = 2
      BY <1>1, <1>4, <2>1, <2>4 DEF EchoLength
    <3>2. StartsWith(z, c.data)
      <4>1. Len(z) >= 2 /\ \A i \in 1..2 : z[i] = c.data[i]
        BY <1>2, <3>1
      <4> DEFINE d == c.data
      <4>2. z \in Seq(Byte) /\ d \in Seq(Byte) /\ Len(z) >= Len(d) /\ \A i \in 1..Len(d) : z[i] = d[i]
        BY <1>1, <1>2, <2>1, <4>1
      <4> HIDE DEF d
      <4>3. StartsWith(z, d)
        BY ONLY <4>2, Begins
      <4> QED
        BY <4>3 DEF d
    <3>3. StripIdentifier(z, c.data) = r
      BY <1>2, <3>1, <3>2 DEF StripIdentifier
    <3> QED
      BY <1>11, <2>2, <3>1, <3>3
  <2> QED
    BY <2>3, <2>4
<1>12. CASE c.take = "empty"
  <2>1. c.sid = 20 /\ r = <<>>
    BY <1>12, EchoOrEmpty
  <2>2. Len(e) = 0 /\ q = z
    BY <1>1, <1>3, <2>1 DEF EchoLength
  <2>3. z = <<>>
    BY <1>2, <2>1, <2>2
  <2>4. t = Ok(z)
    BY <1>6, <1>12, <2>2, <2>3 DEF Taken
  <2> QED
    BY <1>12, <2>1, <2>3, <2>4
<1>13. CASE c.take = "payload"
  BY <1>6, <1>13 DEF Taken, q
<1> QED
  BY <1>7, <1>8, <1>9, <1>10, <1>11, <1>12, <1>13 DEF q

\* A call that has returned, with an answer to it.
Returns(x) ==
    /\ x.call \in Calls /\ x.got \in Responses(x.call)
    /\ x.r = Then(HandedBack(x.call, x.got), LAMBDA q : Returned(x.call, q))

\* What the transport hands back of a positive answer is all of it or what is
\* left of it.
LEMMA HandedBackExact ==
    ASSUME transport \in Transports, NEW x, Returns(x), x.call.take # "transport",
           x.got.positive, Undisturbed(x)
    PROVE  HandedBack(x.call, x.got) = Ok(IF transport = "raw" THEN x.got.pdu ELSE Left(x))
<1> DEFINE c == x.call
           a == x.got
           r == a.data
           e == EchoOf(c)
<1>1. c \in Calls /\ Own(c, e)
  BY OwnEcho DEF Returns
<1>2. /\ a.req = c /\ a.other \in Neighbours /\ r \in Seq(Byte) /\ a.pdu = Positive(c, r)
      /\ c.take = "empty" => r = <<>>
  BY ResponseIs DEF Returns
<1>3. a.pdu[1] = c.sid + 64 /\ c.sid + 64 # NEGATIVE /\ After(a.pdu, 1) = e \o r
  <2> HIDE DEF a, c, e, r
  <2>0. Own(c, e) /\ r \in Seq(Byte)
    BY <1>1, <1>2
  <2>1. /\ Positive(c, r)[1] = c.sid + 64 /\ c.sid + 64 \in Byte \ {NEGATIVE}
        /\ After(Positive(c, r), 1) = e \o r
    BY ONLY <2>0, OwnPositive
  <2> QED
    BY <1>2, <2>1
<1>4. CASE transport = "raw"
  BY <1>4 DEF HandedBack
<1>5. CASE transport = "stripped"
  <2>1. HandedBack(c, a) = Ok(After(a.pdu, 1))
    BY <1>3, <1>5 DEF HandedBack
  <2>2. Left(x) = e \o r
    BY <1>5 DEF Left
  <2> QED
    BY <1>3, <1>5, <2>1, <2>2
<1>6. CASE transport = "elm"
  <2>1. HandedBack(c, a) = send_routed_command(c.sid, c.data, Text(a), "can")
    BY <1>6 DEF HandedBack
  <2>2. Left(x) = Kept(c, r)
    BY <1>6 DEF Left, Kept
  <2>3. Kept(c, r) # <<>> /\ a.other # "refusal_after"
    BY <1>6, <2>2 DEF Undisturbed, NothingLeft
  <2>4. expected_response_prefix(<<c.sid>> \o c.data, SkipBytes(c.sid)) = {Prefix(c)}
    BY <1>1, <1>2, PrefixAndKept
  <2>5. \A i \in 2..Len(InLines(a.pdu)) : ~StartsWith(InLines(a.pdu)[i].bytes, Prefix(c))
    BY <1>6, <2>4 DEF Undisturbed, SecondAnswer
  <2> HIDE DEF a, c, e, r
  <2>6. send_routed_command(c.sid, c.data, Text(a), "can") = Ok(Kept(c, r))
    BY <1>1, <1>2, <2>3, <2>5, ElmExact
  <2>7. HandedBack(c, a) = Ok(Left(x))
    BY <2>1, <2>2, <2>6
  <2> QED
    BY <1>6, <2>7 DEF a, c
<1> QED
  BY <1>4, <1>5, <1>6, UdsAssumption

\* In step, the call takes apart what is left of its positive answer.
LEMMA PositiveReturned ==
    ASSUME transport \in Transports, NEW x, Returns(x), x.call.take # "transport",
           x.got.positive, Undisturbed(x)
    PROVE  /\ x.r.ok => x.r = Taken(x.call, Left(x))
           /\ (Left(x) = <<>> \/ Left(x)[1] # NEGATIVE) => x.r = Taken(x.call, Left(x))
<1> DEFINE c == x.call
           a == x.got
           r == a.data
           e == EchoOf(c)
           q == Left(x)
           h == IF transport = "raw" THEN a.pdu ELSE q
           n == normalize_transport_payload(c.sid, c.data, h)
<1>1. c \in Calls /\ Own(c, e)
  BY OwnEcho DEF Returns
<1>2. r \in Seq(Byte) /\ a.pdu = Positive(c, r) /\ (c.take = "empty" => r = <<>>)
  BY ResponseIs DEF Returns
<1>3. q = Remains(c, r)
  BY DEF Left, Remains
<1>4. ~LooksWhole(c) /\ ((transport = "elm" /\ c.sid = 34) => ~StartsWith(q, WithService(e)))
  BY DEF Undisturbed, Ambiguous, WithService
<1>5. HandedBack(c, a) = Ok(h)
  BY HandedBackExact
<1>6. x.r = Returned(c, h)
  BY <1>5 DEF Returns, Then, Ok
<1>7. c.take # "transport"
  OBVIOUS
<1> HIDE DEF c, a, r, e, q, h
<1>8. x.r = IF n.ok THEN Taken(c, n.v) ELSE n
  BY <1>6, <1>7 DEF Returned, Then
<1>9. /\ (q = <<>> \/ q[1] # NEGATIVE) => n = Ok(q)
      /\ n.ok => n = Ok(q)
  <2>1. CASE transport = "raw"
    <3>1. h = Positive(c, r)
      BY <1>2, <2>1 DEF h
    <3>2. LooksLikeWhole(c, h) /\ After(h, 1) = e \o r
      BY <1>1, <1>2, <3>1, PositiveIsWhole
    <3>3. n = Ok(After(h, 1))
      BY <1>1, <3>2, Normalized
    <3>4. q = e \o r
      BY <1>3, <2>1 DEF Remains, e
    <3> QED
      BY <3>2, <3>3, <3>4
  <2>2. CASE transport # "raw"
    <3>1. h = q
      BY <2>2 DEF h
    <3>2. ~LooksLikeWhole(c, q)
      BY <1>1, <1>2, <1>3, <1>4, RemainsIsNot
    <3> QED
      BY <1>1, <3>1, <3>2, Normalized
  <2> QED
    BY <2>1, <2>2
<1> HIDE DEF n
<1>10. Ok(q).ok = TRUE /\ Ok(q).v = q /\ Err.ok = FALSE
  BY DEF Ok, Err
<1> QED
  BY <1>8, <1>9, <1>10 DEF c, q

\* In step, a refusal is the error that names its service and its code.
LEMMA RefusalReturned ==
    ASSUME transport \in Transports, NEW x, Returns(x), x.call.take # "transport",
           ~x.got.positive, x.got.other # "refusal_after"
    PROVE  /\ ~x.r.ok
           /\ ~CodeLost(x) => x.r = NegativeResponse(x.call.sid, x.got.data[1])
<1> DEFINE c == x.call
           a == x.got
           e == EchoOf(c)
           n == normalize_transport_payload(c.sid, c.data, a.pdu)
           h == HandedBack(c, a)
<1>1. c \in Calls /\ Own(c, e)
  BY OwnEcho DEF Returns
<1>2. a.req = c /\ a.other \in {"none", "status", "refusal_before"}
  BY ResponseIs DEF Returns, Neighbours
<1>3. PICK nrc \in Codes : a.pdu = Refusal(c, nrc) /\ a.data = <<nrc>>
  BY ResponseIs DEF Returns
<1> DEFINE f == NegativeResponse(c.sid, nrc)
<1>4. nrc \in Byte /\ a.data[1] = nrc
  BY <1>3, CallsAssumption
<1>5. Err.ok = FALSE /\ f.ok = FALSE /\ \A v : Ok(v).ok = TRUE /\ Ok(v).v = v
  BY DEF Ok, Err, NegativeResponse
<1>6. /\ a.pdu # <<>> /\ a.pdu[1] = NEGATIVE
      /\ Len(a.pdu) = 3 /\ a.pdu[2] = c.sid /\ a.pdu[3] = nrc
  BY <1>3 DEF Refusal
<1> HIDE DEF f
<1>7. ReadRefusal(a.pdu) = f
  BY <1>6 DEF ReadRefusal, f
<1>8. n = f
  BY <1>6, <1>7 DEF normalize_transport_payload, parse_uds_response
<1>9. c.take # "transport"
  OBVIOUS
<1>10. x.r = Then(h, LAMBDA q : Returned(c, q))
  BY DEF Returns
<1> HIDE DEF n
<1>11. Returned(c, a.pdu) = f
  BY <1>5, <1>8, <1>9 DEF Returned, Then, n
<1>12. h = Ok(a.pdu) \/ (~h.ok /\ (~CodeLost(x) => h = f))
  <2>1. CASE transport = "raw"
    BY <2>1 DEF HandedBack
  <2>2. CASE transport = "stripped"
    BY <1>5, <1>6, <1>7, <2>2 DEF HandedBack
  <2>3. CASE transport = "elm"
    <3>1. h = send_routed_command(c.sid, c.data, Text(a), "can")
      BY <2>3 DEF HandedBack
    <3>2. ~CodeLost(x) => a.other # "status" /\ nrc \in NegativeCodes
      BY <1>4, <2>3 DEF CodeLost
    <3> HIDE DEF a, c, e, h
    <3>3. /\ ~h.ok
          /\ (a.other # "status" /\ nrc \in NegativeCodes) => h = NegativeResponse(c.sid, nrc)
      BY <1>1, <1>2, <1>3, <1>4, <3>1, ElmRefused
    <3> QED
      BY <3>2, <3>3 DEF f
  <2> QED
    BY <2>1, <2>2, <2>3, UdsAssumption
<1> HIDE DEF a, c, e, h
<1>13. ~x.r.ok /\ (~CodeLost(x) => x.r = f)
  BY <1>5, <1>10, <1>11, <1>12 DEF Then
<1> QED
  BY <1>4, <1>13 DEF f, a, c

\* A J1979 request hands back what the transport does.
LEMMA TransportReturned ==
    ASSUME NEW x, Returns(x), x.call.take = "transport", x.r.ok, transport \in Transports
    PROVE  x.r = HandedBack(x.call, x.got)
<1> DEFINE c == x.call
           h == HandedBack(c, x.got)
<1>1. Err.ok = FALSE /\ \A v : Ok(v).ok = TRUE /\ Ok(v).v = v
  BY DEF Ok, Err
<1>2. ~h.ok \/ \E v : h = Ok(v)
  <2>1. CASE transport \in {"raw", "stripped"}
    <3>1. h = Ok(x.got.pdu) \/ h = Ok(After(x.got.pdu, 1)) \/ h = ReadRefusal(x.got.pdu)
      BY <2>1 DEF HandedBack
    <3> QED
      BY <3>1, RefusalIsError
  <2>2. CASE transport = "elm"
    <3>1. h = send_routed_command(c.sid, c.data, Text(x.got), "can")
      BY <2>2 DEF HandedBack
    <3> QED
      BY <3>1, CheckIsError DEF send_routed_command
  <2> QED
    BY <2>1, <2>2, UdsAssumption
<1>3. x.r = IF h.ok THEN Ok(h.v) ELSE h
  BY DEF Returns, Then, Returned
<1> HIDE DEF h
<1>4. x.r = h
  BY <1>1, <1>2, <1>3
<1> QED
  BY <1>4 DEF h

(***************************************************************************)
(* In step with the control unit                                           *)
(***************************************************************************)

\* Until a call times out the bus holds nothing but the answer to the call in
\* progress, and so a call that has returned took an answer to itself.
InStepInv ==
    /\ transport \in Transports
    /\ inStep => \/ call = {} /\ bus = <<>>
                 \/ \E c \in Calls : call = {c} /\ \E a \in Responses(c) : bus = <<a>>
    /\ \A x \in result : x.current => Returns(x)

\* It holds at the start.
LEMMA InStepInitially == ASSUME Init PROVE InStepInv
BY DEF Init, InStepInv

\* Every step keeps it.
LEMMA InStepStep == ASSUME InStepInv, [Next]_vars PROVE InStepInv'
<1>1. UNCHANGED transport
  BY DEF Next, Begin, GroupTooLarge, Answered, Refused, TimedOut, vars
<1>2. /\ \A c : Responses(c)' = Responses(c)
      /\ \A x : Returns(x)' <=> Returns(x)
  <2>1. \A c : Responses(c)' = Responses(c)
    BY <1>1 DEF Responses
  <2>2. \A c, a : HandedBack(c, a)' = HandedBack(c, a)
    BY <1>1 DEF HandedBack
  <2>3. ASSUME NEW x PROVE Returns(x)' <=> Returns(x)
    BY <2>1, <2>2 DEF Returns, Then
  <2> QED
    BY <2>1, <2>3
<1> DEFINE Bus == \/ call = {} /\ bus = <<>>
                  \/ \E c \in Calls : call = {c} /\ \E a \in Responses(c) : bus = <<a>>
<1>3. transport \in Transports /\ (inStep => Bus) /\ \A x \in result : x.current => Returns(x)
  BY DEF InStepInv
<1>4. SUFFICES /\ inStep' => \/ call' = {} /\ bus' = <<>>
                             \/ \E c \in Calls : call' = {c} /\ \E a \in Responses(c) : bus' = <<a>>
               /\ \A x \in result' : x.current => Returns(x)
  BY <1>1, <1>2, <1>3 DEF InStepInv
<1>5. ASSUME NEW c \in call, inStep, bus # <<>>
      PROVE  c \in Calls /\ Head(bus) \in Responses(c) /\ Tail(bus) = <<>>
  <2>1. PICK d \in Calls : call = {d} /\ \E a \in Responses(d) : bus = <<a>>
    BY <1>3, <1>5
  <2>2. PICK a \in Responses(d) : bus = <<a>>
    BY <2>1
  <2> QED
    BY <2>1, <2>2
<1>6. ASSUME NEW c \in Calls, Begin(c)
      PROVE  /\ inStep' => call' = {c} /\ \E a \in Responses(c) : bus' = <<a>>
             /\ result' = result
  <2>1. PICK a \in Responses(c) : bus' = Append(bus, a)
    BY <1>6 DEF Begin
  <2>2. call = {} /\ call' = {c} /\ inStep' = inStep /\ result' = result
    BY <1>6 DEF Begin
  <2>3. inStep => bus' = <<a>>
    <3>1. inStep => bus = <<>>
      BY <1>3, <2>2
    <3> QED
      BY <2>1, <3>1
  <2> QED
    BY <2>2, <2>3
<1>7. CASE Answered
  <2>1. bus # <<>> /\ bus' = Tail(bus) /\ call' = {} /\ inStep' = inStep
    BY <1>7 DEF Answered
  <2>2. PICK c \in call :
            result' = {[call |-> c, got |-> Head(bus), current |-> inStep,
                        r |-> Then(HandedBack(c, Head(bus)), LAMBDA q : Returned(c, q))]}
    BY <1>7 DEF Answered
  <2>3. ASSUME NEW x \in result', x.current PROVE Returns(x)
    <3>1. /\ x.call = c /\ x.got = Head(bus) /\ inStep
          /\ x.r = Then(HandedBack(c, Head(bus)), LAMBDA q : Returned(c, q))
      BY <2>2, <2>3
    <3> QED
      BY <1>5, <2>1, <3>1 DEF Returns
  <2> QED
    BY <1>5, <2>1, <2>2, <2>3
<1>8. CASE Refused
  <2>1. bus # <<>> /\ bus' = Tail(bus) /\ call' = {} /\ result' = {} /\ inStep' = inStep
    BY <1>8 DEF Refused
  <2>2. \E c \in call : TRUE
    BY <1>8 DEF Refused
  <2> QED
    BY <1>5, <2>1, <2>2
<1>9. CASE TimedOut
  BY <1>9 DEF TimedOut
<1>10. CASE UNCHANGED vars
  BY <1>3, <1>10 DEF vars
<1>11. CASE GroupTooLarge
  BY <1>3, <1>11 DEF GroupTooLarge
<1> QED
  BY <1>3, <1>6, <1>7, <1>8, <1>9, <1>10, <1>11 DEF Next

\* request_service: in step with the control unit, whatever the calls, the
\* records, the transport and the other units on the bus, what a call returns is
\* the record it was answered with, with no byte of the echo left in it and none
\* of its own taken for one (protocol/uds.rs, adapter/elm_codec.rs).
THEOREM RecordsExact == Spec => []RecordExact
<1>1. ASSUME InStepInv PROVE RecordExact
  <2> SUFFICES ASSUME NEW x \in result, Undisturbed(x), x.r.ok, x.got.positive
               PROVE  CASE x.call.take \in {"echo", "did", "routine", "identifier", "empty"} ->
                             x.r.v = x.got.data
                        [] x.call.take = "dtcs" -> 1 + 4 * Len(x.r.v) = Len(x.got.data)
                        [] x.call.take = "payload" -> x.r.v = Left(x)
                        [] x.call.take = "transport" -> x.r = HandedBack(x.call, x.got)
    BY DEF RecordExact
  <2>1. transport \in Transports /\ Returns(x)
    BY <1>1 DEF InStepInv, Undisturbed
  <2>2. x.call \in Calls /\ x.got \in Responses(x.call) /\ x.call.take \in Takes
    BY <2>1, CallsAssumption DEF Returns
  <2>3. CASE x.call.take = "transport"
    BY <2>1, <2>3, TransportReturned
  <2>4. CASE x.call.take # "transport"
    <3> DEFINE c == x.call
               r == x.got.data
               t == Taken(c, Left(x))
    <3>1. x.r = t
      BY <2>1, <2>4, PositiveReturned
    <3>2. Own(c, EchoOf(c)) /\ r \in Seq(Byte) /\ (c.take = "empty" => r = <<>>)
      BY <2>2, <2>4, OwnEcho, ResponseIs
    <3>3. Left(x) = Remains(c, r)
      BY DEF Left, Remains
    <3>4. (transport = "elm" /\ c.take = "identifier") => ~StartsWith(Remains(c, r), c.data)
      <4>1. c.take = "identifier" => c.sid = 34
        BY <2>2, RecognisedAssumption
      <4> QED
        BY <3>3, <4>1 DEF Undisturbed, Ambiguous
    <3>5. /\ c.take \in {"echo", "did", "routine", "identifier", "empty"} => t = Ok(r)
          /\ (c.take = "dtcs" /\ t.ok) => 1 + 4 * Len(t.v) = Len(r)
          /\ c.take = "payload" => t = Ok(Left(x))
      BY <3>2, <3>3, <3>4, TakenExact
    <3>6. \A v : Ok(v).v = v
      BY DEF Ok
    <3> HIDE DEF t
    <3> QED
      BY <2>2, <2>4, <3>1, <3>5, <3>6 DEF Takes
  <2> QED
    BY <2>3, <2>4
<1> QED
  BY <1>1, InStepInitially, InStepStep, PTL DEF Spec

\* request_service: in step, no positive answer is reported as an error, and a
\* refusal is the error that names its own service and code, whoever else has
\* refused before, except where the answer reads as the other or the chip's text
\* hides the code (protocol/uds.rs, adapter/elm_codec.rs, check_response_error).
THEOREM OutcomesFaithful == Spec => []OutcomeFaithful
<1>1. ASSUME InStepInv PROVE OutcomeFaithful
  <2> SUFFICES ASSUME NEW x \in result, Undisturbed(x), x.call.take # "transport"
               PROVE  IF x.got.positive
                      THEN (x.call.take # "dtcs" /\ (Left(x) = <<>> \/ Left(x)[1] # NEGATIVE)) => x.r.ok
                      ELSE IF CodeLost(x) THEN ~x.r.ok
                      ELSE x.r = NegativeResponse(x.call.sid, x.got.data[1])
    BY DEF OutcomeFaithful
  <2>1. transport \in Transports /\ Returns(x)
    BY <1>1 DEF InStepInv, Undisturbed
  <2>2. x.call \in Calls /\ x.got \in Responses(x.call) /\ x.call.take \in Takes
    BY <2>1, CallsAssumption DEF Returns
  <2>3. CASE ~x.got.positive
    BY <2>1, <2>3, RefusalReturned DEF Undisturbed
  <2>4. CASE x.got.positive
    <3> SUFFICES ASSUME x.call.take # "dtcs", Left(x) = <<>> \/ Left(x)[1] # NEGATIVE
                 PROVE  x.r.ok
      BY <2>4
    <3> DEFINE c == x.call
               r == x.got.data
               t == Taken(c, Left(x))
    <3>1. x.r = t
      BY <2>1, <2>4, PositiveReturned
    <3>2. Own(c, EchoOf(c)) /\ r \in Seq(Byte) /\ (c.take = "empty" => r = <<>>)
      BY <2>2, <2>4, OwnEcho, ResponseIs
    <3>3. Left(x) = Remains(c, r)
      BY DEF Left, Remains
    <3>4. (transport = "elm" /\ c.take = "identifier") => ~StartsWith(Remains(c, r), c.data)
      <4>1. c.take = "identifier" => c.sid = 34
        BY <2>2, RecognisedAssumption
      <4> QED
        BY <3>3, <4>1 DEF Undisturbed, Ambiguous
    <3>5. /\ c.take \in {"echo", "did", "routine", "identifier", "empty"} => t = Ok(r)
          /\ c.take = "payload" => t = Ok(Left(x))
      BY <3>2, <3>3, <3>4, TakenExact
    <3>6. \A v : Ok(v).ok = TRUE
      BY DEF Ok
    <3> HIDE DEF t
    <3> QED
      BY <2>2, <3>1, <3>5, <3>6 DEF Takes
  <2> QED
    BY <2>3, <2>4
<1> QED
  BY <1>1, InStepInitially, InStepStep, PTL DEF Spec
=============================================================================
