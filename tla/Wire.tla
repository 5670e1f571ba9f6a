-------------------------------- MODULE Wire --------------------------------
(***************************************************************************)
(* Bytes and fields, as the codecs of the repository use them: a payload   *)
(* is a sequence of bytes, a shift and mask is Bits, and a Result is one   *)
(* of Ok(v) and Err (the wording of errors is left out).  An Option is a   *)
(* set of at most one value.                                               *)
(***************************************************************************)
EXTENDS Integers, Sequences

Byte == 0..255

Ok(v) == [ok |-> TRUE, v |-> v]
Err == [ok |-> FALSE, v |-> "error"]

(* (x >> lo) & ((1 << n) - 1) *)
Bits(x, lo, n) == (x \div 2^lo) % 2^n

(* Integers of two and three bytes, low byte first and high byte first. *)
Le16(b) == b[1] + 256 * b[2]
Le24(b) == b[1] + 256 * b[2] + 65536 * b[3]
ToLe16(n) == <<Bits(n, 0, 8), Bits(n, 8, 8)>>
ToLe24(n) == <<Bits(n, 0, 8), Bits(n, 8, 8), Bits(n, 16, 8)>>
Be16(b) == 256 * b[1] + b[2]
ToBe16(n) == <<Bits(n, 8, 8), Bits(n, 0, 8)>>

(* n bytes that follow the first off. *)
Slice(s, off, n) == SubSeq(s, off + 1, off + n)

After(s, off) == SubSeq(s, off + 1, Len(s))

AllAre(s, b) == \A i \in 1..Len(s) : s[i] = b

Fill(n, b) == [i \in 1..n |-> b]

StartsWith(s, p) == Len(s) >= Len(p) /\ SubSeq(s, 1, Len(p)) = p

(* chunks_exact(n) and its remainder. *)
Chunks(s, n) == [i \in 1..(Len(s) \div n) |-> Slice(s, n * (i - 1), n)]
Remainder(s, n) == After(s, n * (Len(s) \div n))

(* The concatenation of a sequence of sequences. *)
Concat(ss) ==
    LET upTo[i \in 0..Len(ss)] == IF i = 0 THEN <<>> ELSE upTo[i - 1] \o ss[i]
    IN  upTo[Len(ss)]

(* op applied to every element. *)
Map(s, op(_)) == [i \in 1..Len(s) |-> op(s[i])]

(* A sequence of Results as one Result: the first error ends the loop. *)
Collect(rs) ==
    IF \A i \in 1..Len(rs) : rs[i].ok THEN Ok(Map(rs, LAMBDA r : r.v)) ELSE Err

(* The ? operator: an error is returned as it is. *)
Then(r, op(_)) == IF r.ok THEN op(r.v) ELSE r
=============================================================================
