----------------------------- MODULE WireProofs -----------------------------
(***************************************************************************)
(* Facts about the operators of Wire that the proofs of several components *)
(* cite.  Induction over lengths goes through the least counterexample     *)
(* (LeastNatural): Concat is a recursive function, and what it yields is   *)
(* proved for sequences of any length.                                     *)
(***************************************************************************)
EXTENDS Wire, TLAPS, SequenceTheorems, WellFoundedInduction

\* A set of naturals that is not empty has a least element.
LEMMA LeastNatural ==
    ASSUME NEW T, T \subseteq Nat, T # {}
    PROVE  \E x \in T : \A y \in T : x <= y
<1> DEFINE R == OpToRel(<, Nat)
<1>1. \E x \in T : \A y \in T : <<y, x>> \notin R
  BY WFMin, NatLessThanWellFounded
<1>2. \A x, y \in Nat : y < x => <<y, x>> \in R
  BY DEF OpToRel
<1> HIDE DEF R
<1>3. PICK x \in T : \A y \in T : <<y, x>> \notin R
  BY <1>1
<1>4. ASSUME NEW y \in T PROVE x <= y
  <2>1. x \in Nat /\ y \in Nat
    OBVIOUS
  <2>2. ~(y < x)
    BY <1>2, <1>3, <2>1, Zenon
  <2> QED
    BY <2>1, <2>2
<1> QED
  BY <1>4

\* The parts of a concatenation stay where they are.
LEMMA Joined ==
    ASSUME NEW S, NEW s \in Seq(S), NEW t \in Seq(S)
    PROVE  /\ s \o t \in Seq(S)
           /\ Len(s \o t) = Len(s) + Len(t)
           /\ Len(s) \in Nat /\ Len(t) \in Nat
           /\ \A i \in 1..Len(s) : (s \o t)[i] = s[i]
           /\ \A i \in 1..Len(t) : (s \o t)[Len(s) + i] = t[i]
OBVIOUS

\* A concatenation is taken apart where it was put together.
LEMMA Separated ==
    ASSUME NEW S, NEW s \in Seq(S), NEW t \in Seq(S)
    PROVE  Slice(s \o t, 0, Len(s)) = s /\ After(s \o t, Len(s)) = t
<1> DEFINE n == Len(s)
           k == Len(t)
           st == s \o t
<1>1. st \in Seq(S) /\ Len(st) = n + k /\ n \in Nat /\ k \in Nat
      /\ (\A i \in 1..n : st[i] = s[i]) /\ (\A i \in 1..k : st[n + i] = t[i])
  BY Joined
<1> HIDE DEF st, n, k
<1>2. SubSeq(st, 1, n) = s
  <2>1. SubSeq(st, 1, n) \in Seq(S) /\ Len(SubSeq(st, 1, n)) = n
        /\ \A i \in 1..n : SubSeq(st, 1, n)[i] = s[i]
    BY <1>1
  <2> QED
    BY <2>1, SeqEqual DEF n
<1>3. SubSeq(st, n + 1, n + k) = t
  <2>1. SubSeq(st, n + 1, n + k) \in Seq(S) /\ Len(SubSeq(st, n + 1, n + k)) = k
    BY <1>1
  <2>2. ASSUME NEW i \in 1..k PROVE SubSeq(st, n + 1, n + k)[i] = t[i]
    <3>1. SubSeq(st, n + 1, n + k)[i] = st[n + i]
      BY <1>1
    <3> QED
      BY <1>1, <3>1
  <2> QED
    BY <2>1, <2>2, SeqEqual DEF k
<1>4. 0 + 1 = 1 /\ 0 + n = n
  BY <1>1
<1> QED
  BY <1>1, <1>2, <1>3, <1>4, Zenon DEF Slice, After, st, n, k

ThreeParts(b, s, t, u) ==
    /\ b = (s \o t) \o u /\ b = s \o (t \o u)
    /\ Len(b) = Len(s) + Len(t) + Len(u)
    /\ Slice(b, 0, Len(s)) = s /\ After(b, Len(s)) = t \o u
    /\ Slice(b, Len(s), Len(t)) = t /\ After(b, Len(s) + Len(t)) = u

\* The same, for three parts.
LEMMA MiddleSeparated ==
    ASSUME NEW S, NEW s \in Seq(S), NEW t \in Seq(S), NEW u \in Seq(S)
    PROVE  /\ ThreeParts((s \o t) \o u, s, t, u)
           /\ t \o u \in Seq(S) /\ (s \o t) \o u \in Seq(S)
<1> DEFINE st == s \o t
           tu == t \o u
           b == st \o u
           n == Len(s)
           k == Len(t)
<1>1. b = s \o tu
  BY ConcatAssociative
<1>2. st \in Seq(S) /\ Len(st) = n + k /\ n \in Nat /\ k \in Nat
      /\ \A i \in 1..k : st[n + i] = t[i]
  BY Joined
<1>3. tu \in Seq(S)
  BY Joined
<1> HIDE DEF st, tu
<1>4. b \in Seq(S) /\ Len(b) = Len(st) + Len(u) /\ Len(u) \in Nat
      /\ \A i \in 1..Len(st) : b[i] = st[i]
  <2>1. st \in Seq(S)
    BY <1>2
  <2> QED
    BY <2>1, Joined
<1>5. Slice(b, 0, n) = s /\ After(b, n) = tu
  BY <1>1, <1>3, Separated
<1>6. After(b, n + k) = u
  <2>1. After(b, Len(st)) = u
    BY <1>2, Separated, Zenon
  <2>2. Len(st) = n + k
    BY <1>2
  <2> QED
    BY ONLY <2>1, <2>2, Zenon
<1> HIDE DEF b, n, k
<1>7. SubSeq(b, n + 1, n + k) = t
  <2> DEFINE r == SubSeq(b, n + 1, n + k)
  <2>1. r \in Seq(S) /\ Len(r) = k /\ \A i \in 1..k : r[i] = b[n + i]
    BY <1>2, <1>4
  <2> HIDE DEF r
  <2>2. \A i \in 1..k : n + i \in 1..Len(st)
    BY <1>2
  <2>3. \A i \in 1..k : r[i] = t[i]
    BY <1>2, <1>4, <2>1, <2>2, Zenon
  <2>4. r = t
    BY <2>1, <2>3, SeqEqual DEF k
  <2> QED
    BY <2>4 DEF r
<1>8. Len(b) = n + k + Len(u)
  BY <1>2, <1>4
<1> QED
  BY <1>1, <1>3, <1>4, <1>5, <1>6, <1>7, <1>8, Zenon DEF ThreeParts, Slice, b, st, tu, n, k

(***************************************************************************)
(* Concat                                                                  *)
(***************************************************************************)

\* The function that Concat defines, and what it is meant to satisfy.
UpTo(ss) ==
    CHOOSE f : f = [i \in 0..Len(ss) |-> IF i = 0 THEN <<>> ELSE f[i - 1] \o ss[i]]

Accumulates(f, ss, n) == f[0] = <<>> /\ \A i \in 1..n : f[i] = f[i - 1] \o ss[i]

\* The recursion of Concat has a solution on every initial segment.
LEMMA PartialSums ==
    ASSUME NEW S, NEW ss \in Seq(Seq(S)), NEW n \in 0..Len(ss)
    PROVE  \E f \in [0..n -> Seq(S)] : Accumulates(f, ss, n)
<1> DEFINE Has(k) == \E f \in [0..k -> Seq(S)] : Accumulates(f, ss, k)
           T == {k \in 0..Len(ss) : ~Has(k)}
<1>1. Has(0)
  <2> DEFINE f == [i \in 0..0 |-> <<>>]
  <2>1. Accumulates(f, ss, 0)
    BY DEF Accumulates
  <2>2. f \in [0..0 -> Seq(S)]
    OBVIOUS
  <2> QED
    BY <2>1, <2>2, Zenon
<1>2. ASSUME NEW k \in 0..Len(ss), k + 1 \in 0..Len(ss), Has(k) PROVE Has(k + 1)
  <2>1. PICK f \in [0..k -> Seq(S)] : Accumulates(f, ss, k)
    BY <1>2
  <2> DEFINE g == [i \in 0..(k + 1) |-> IF i <= k THEN f[i] ELSE f[k] \o ss[k + 1]]
  <2>2. ss[k + 1] \in Seq(S) /\ f[k] \in Seq(S)
    BY <1>2
  <2>3. f[k] \o ss[k + 1] \in Seq(S)
    BY <2>2
  <2>4. g \in [0..(k + 1) -> Seq(S)]
    BY <2>3
  <2>5. Accumulates(g, ss, k + 1)
    <3>1. (\A i \in 0..k : g[i] = f[i]) /\ g[k + 1] = f[k] \o ss[k + 1] /\ k \in Nat
      OBVIOUS
    <3> HIDE DEF g
    <3>2. g[0] = <<>>
      <4>1. 0 \in 0..k
        BY ONLY <3>1
      <4>2. f[0] = <<>>
        BY ONLY <2>1, Zenon DEF Accumulates
      <4> QED
        BY ONLY <3>1, <4>1, <4>2, Zenon
    <3>3. ASSUME NEW i \in 1..(k + 1) PROVE g[i] = g[i - 1] \o ss[i]
      <4>1. CASE i \in 1..k
        <5>1. f[i] = f[i - 1] \o ss[i]
          BY <2>1, <4>1 DEF Accumulates
        <5>2. i - 1 \in 0..k /\ i \in 0..k
          BY <3>1, <4>1
        <5> QED
          BY <3>1, <5>1, <5>2
      <4>2. CASE i = k + 1
        <5>1. i - 1 = k /\ k \in 0..k
          BY <3>1, <4>2
        <5> QED
          BY <3>1, <4>2, <5>1
      <4>3. i \in 1..k \/ i = k + 1
        BY <3>1
      <4> QED
        BY <4>1, <4>2, <4>3, Zenon
    <3> QED
      BY <3>2, <3>3 DEF Accumulates
  <2> QED
    BY <2>4, <2>5
<1>3. T = {}
  <2> HIDE DEF Has
  <2> SUFFICES ASSUME T # {} PROVE FALSE
    OBVIOUS
  <2>1. PICK k \in T : \A y \in T : k <= y
    <3>1. T \subseteq Nat /\ T # {}
      OBVIOUS
    <3> HIDE DEF T
    <3> QED
      BY <3>1, LeastNatural
  <2>2. k # 0
    BY <1>1
  <2>3. k - 1 \in 0..Len(ss) /\ Has(k - 1)
    BY <2>1, <2>2
  <2> QED
    BY <1>2, <2>1, <2>3
<1> QED
  BY <1>3

\* Concat is the last of the partial sums.
LEMMA ConcatSums ==
    ASSUME NEW S, NEW ss \in Seq(Seq(S))
    PROVE  /\ UpTo(ss) \in [0..Len(ss) -> Seq(S)]
           /\ Accumulates(UpTo(ss), ss, Len(ss))
           /\ Concat(ss) = UpTo(ss)[Len(ss)]
           /\ Concat(ss) \in Seq(S)
<1> DEFINE IsSum(f) == f = [i \in 0..Len(ss) |-> IF i = 0 THEN <<>> ELSE f[i - 1] \o ss[i]]
<1>1. PICK f \in [0..Len(ss) -> Seq(S)] : Accumulates(f, ss, Len(ss))
  BY PartialSums
<1>2. IsSum(f)
  BY <1>1 DEF Accumulates
<1>3. IsSum(UpTo(ss))
  BY <1>2 DEF UpTo
<1> DEFINE u == UpTo(ss)
<1> HIDE DEF u
<1>4. u = [i \in 0..Len(ss) |-> IF i = 0 THEN <<>> ELSE u[i - 1] \o ss[i]]
  BY <1>3 DEF u
<1>5. Accumulates(u, ss, Len(ss))
  <2>1. u[0] = <<>>
    BY <1>4
  <2>2. ASSUME NEW i \in 1..Len(ss) PROVE u[i] = u[i - 1] \o ss[i]
    <3>1. i \in 0..Len(ss) /\ i # 0
      OBVIOUS
    <3> QED
      BY <1>4, <3>1
  <2> QED
    BY <2>1, <2>2 DEF Accumulates
<1>6. \A i \in 0..Len(ss) : u[i] \in Seq(S)
  <2> DEFINE T == {i \in 0..Len(ss) : u[i] \notin Seq(S)}
  <2> SUFFICES ASSUME T # {} PROVE FALSE
    OBVIOUS
  <2>1. PICK k \in T : \A y \in T : k <= y
    <3>1. T \subseteq Nat /\ T # {}
      OBVIOUS
    <3> HIDE DEF T
    <3> QED
      BY <3>1, LeastNatural
  <2>2. k # 0
    <3>1. u[0] = <<>> /\ <<>> \in Seq(S)
      BY <1>5 DEF Accumulates
    <3> QED
      BY <3>1
  <2>3. k \in 1..Len(ss) /\ k - 1 \in 0..Len(ss) /\ k - 1 < k
    BY <2>2
  <2>4. u[k - 1] \in Seq(S) /\ ss[k] \in Seq(S)
    BY <2>1, <2>3
  <2>5. u[k] = u[k - 1] \o ss[k]
    BY <1>5, <2>3 DEF Accumulates
  <2>6. u[k - 1] \o ss[k] \in Seq(S)
    BY <2>4, ConcatProperties
  <2>7. u[k] \notin Seq(S)
    OBVIOUS
  <2> QED
    BY <2>5, <2>6, <2>7, Zenon
<1>7. u \in [0..Len(ss) -> Seq(S)]
  BY <1>4, <1>6
<1>8. Concat(ss) = u[Len(ss)]
  BY DEF Concat, UpTo, u
<1> QED
  BY <1>5, <1>6, <1>7, <1>8 DEF u

\* Whatever satisfies the recursion yields the concatenation.
LEMMA ConcatUnique ==
    ASSUME NEW S, NEW ss \in Seq(Seq(S)), NEW g \in [0..Len(ss) -> Seq(S)],
           Accumulates(g, ss, Len(ss))
    PROVE  Concat(ss) = g[Len(ss)]
<1> DEFINE u == UpTo(ss)
           T == {i \in 0..Len(ss) : u[i] # g[i]}
<1>1. u \in [0..Len(ss) -> Seq(S)] /\ Accumulates(u, ss, Len(ss)) /\ Concat(ss) = u[Len(ss)]
  BY ConcatSums
<1> HIDE DEF u
<1>2. T = {}
  <2> SUFFICES ASSUME T # {} PROVE FALSE
    OBVIOUS
  <2>1. PICK k \in T : \A y \in T : k <= y
    <3>1. T \subseteq Nat /\ T # {}
      OBVIOUS
    <3> HIDE DEF T
    <3> QED
      BY <3>1, LeastNatural
  <2>2. k # 0
    BY <1>1 DEF Accumulates
  <2>3. k \in 1..Len(ss) /\ k - 1 \in 0..Len(ss) /\ k - 1 < k
    BY <2>2
  <2>4. u[k - 1] = g[k - 1]
    BY <2>1, <2>3
  <2>5. u[k] = u[k - 1] \o ss[k] /\ g[k] = g[k - 1] \o ss[k]
    BY <1>1, <2>3 DEF Accumulates
  <2> QED
    BY <2>4, <2>5
<1> QED
  BY <1>1, <1>2

\* Nothing concatenated is nothing.
LEMMA ConcatEmpty == Concat(<<>>) = <<>>
<1> DEFINE g == [i \in 0..0 |-> <<>>]
<1>1. Accumulates(g, <<>>, 0) /\ g \in [0..0 -> Seq({})]
  BY DEF Accumulates
<1> QED
  BY <1>1, ConcatUnique

\* One more sequence in front.
LEMMA ConcatCons ==
    ASSUME NEW S, NEW x \in Seq(S), NEW ss \in Seq(Seq(S))
    PROVE  Concat(<<x>> \o ss) = x \o Concat(ss)
<1> DEFINE u == UpTo(ss)
           t == <<x>> \o ss
           g == [i \in 0..(Len(ss) + 1) |-> IF i = 0 THEN <<>> ELSE x \o u[i - 1]]
<1>1. u \in [0..Len(ss) -> Seq(S)] /\ Accumulates(u, ss, Len(ss)) /\ Concat(ss) = u[Len(ss)]
  BY ConcatSums
<1> HIDE DEF u
<1>2. t \in Seq(Seq(S)) /\ Len(t) = Len(ss) + 1 /\ t[1] = x
  OBVIOUS
<1>3. \A i \in 1..Len(ss) : t[i + 1] = ss[i]
  OBVIOUS
<1>4. g \in [0..Len(t) -> Seq(S)]
  BY <1>1, <1>2
<1>5. ASSUME NEW i \in 1..Len(t) PROVE g[i] = g[i - 1] \o t[i]
  <2>1. CASE i = 1
    BY <1>1, <1>2, <2>1 DEF Accumulates
  <2>2. CASE i # 1
    <3> DEFINE j == i - 1
    <3>1. j \in 1..Len(ss) /\ j - 1 \in 0..Len(ss) /\ j \in 0..Len(ss) /\ i = j + 1
      BY <1>2, <2>2
    <3> HIDE DEF j
    <3>2. u[j] = u[j - 1] \o ss[j] /\ t[i] = ss[j]
      BY <1>1, <1>3, <3>1 DEF Accumulates
    <3>3. u[j - 1] \in Seq(S) /\ ss[j] \in Seq(S)
      <4>1. u[j - 1] \in Seq(S)
        BY <1>1, <3>1, Zenon
      <4>2. ss[j] \in Seq(S)
        BY <3>1, ElementOfSeq
      <4> QED
        BY <4>1, <4>2
    <3>4. x \o (u[j - 1] \o ss[j]) = (x \o u[j - 1]) \o ss[j]
      <4> DEFINE a == u[j - 1]
                 b == ss[j]
      <4>1. x \in Seq(S) /\ a \in Seq(S) /\ b \in Seq(S)
        BY <3>3
      <4> HIDE DEF a, b
      <4>2. (x \o a) \o b = x \o (a \o b)
        BY ONLY <4>1, ConcatAssociative, Z3T(30)
      <4> QED
        BY <4>2 DEF a, b
    <3>5. j + 1 \in 0..(Len(ss) + 1) /\ j \in 0..(Len(ss) + 1) /\ j # 0 /\ j + 1 # 0
           /\ (j + 1) - 1 = j /\ i - 1 = j
      BY <3>1
    <3>6. g[j + 1] = x \o u[(j + 1) - 1] /\ g[j] = x \o u[j - 1]
      BY <3>5, Zenon
    <3> HIDE DEF g, t
    <3> QED
      BY <3>1, <3>2, <3>4, <3>5, <3>6, Zenon
  <2> QED
    BY <2>1, <2>2
<1>6. Accumulates(g, t, Len(t))
  <2>1. g[0] = <<>>
    OBVIOUS
  <2> HIDE DEF g, t
  <2> QED
    BY <1>5, <2>1 DEF Accumulates
<1>7. g[Len(t)] = x \o u[Len(ss)]
  BY <1>2
<1> HIDE DEF g, t
<1>8. Concat(t) = g[Len(t)]
  BY <1>2, <1>4, <1>6, ConcatUnique
<1> QED
  BY <1>1, <1>7, <1>8 DEF t

\* One more sequence at the end.
LEMMA ConcatSnoc ==
    ASSUME NEW S, NEW ss \in Seq(Seq(S)), NEW x \in Seq(S)
    PROVE  Concat(ss \o <<x>>) = Concat(ss) \o x
<1> DEFINE u == UpTo(ss)
           n == Len(ss)
           t == ss \o <<x>>
           g == [i \in 0..(n + 1) |-> IF i = n + 1 THEN u[n] \o x ELSE u[i]]
<1>1. u \in [0..n -> Seq(S)] /\ Accumulates(u, ss, n) /\ Concat(ss) = u[n]
  BY ConcatSums
<1> HIDE DEF u
<1>2. t \in Seq(Seq(S)) /\ Len(t) = n + 1 /\ t[n + 1] = x /\ n \in Nat
      /\ \A i \in 1..n : t[i] = ss[i]
  OBVIOUS
<1> HIDE DEF t, n
<1>3. u[n] \in Seq(S) /\ u[n] \o x \in Seq(S)
  BY <1>1, <1>2
<1>4. g \in [0..Len(t) -> Seq(S)]
  BY <1>1, <1>2, <1>3
<1>5. g[0] = <<>> /\ g[n + 1] = u[n] \o x /\ \A i \in 0..n : g[i] = u[i]
  BY <1>1, <1>2 DEF Accumulates
<1> HIDE DEF g
<1>6. ASSUME NEW i \in 1..Len(t) PROVE g[i] = g[i - 1] \o t[i]
  <2>1. CASE i = n + 1
    <3>1. i - 1 = n /\ n \in 0..n
      BY <1>2, <2>1
    <3> QED
      BY <1>2, <1>5, <2>1, <3>1, Zenon
  <2>2. CASE i \in 1..n
    <3>1. i \in 0..n /\ i - 1 \in 0..n
      BY <1>2, <2>2
    <3>2. u[i] = u[i - 1] \o ss[i]
      BY <1>1, <2>2 DEF Accumulates
    <3> QED
      BY <1>2, <1>5, <2>2, <3>1, <3>2, Zenon
  <2>3. i \in 1..n \/ i = n + 1
    BY <1>2
  <2> QED
    BY <2>1, <2>2, <2>3
<1>7. Accumulates(g, t, Len(t))
  BY <1>5, <1>6 DEF Accumulates
<1>8. Concat(t) = g[Len(t)]
  BY <1>2, <1>4, <1>7, ConcatUnique
<1> QED
  BY <1>1, <1>2, <1>5, <1>8, Zenon DEF t

(***************************************************************************)
(* Recursive functions                                                     *)
(***************************************************************************)

\* f begins with v and goes on by step for n arguments.
Recurs(f, v, step, n) == f[0] = v /\ \A i \in 1..n : f[i] = step[i][f[i - 1]]

\* A recursion over 0..n has a solution, whatever its step does.
LEMMA Recursion ==
    ASSUME NEW V, NEW v \in V, NEW n \in Nat, NEW step,
           \A i \in 1..n : \A x \in V : step[i][x] \in V
    PROVE  \E f \in [0..n -> V] : Recurs(f, v, step, n)
<1> DEFINE Has(k) == \E f \in [0..k -> V] : Recurs(f, v, step, k)
           T == {k \in 0..n : ~Has(k)}
<1>1. Has(0)
  <2> DEFINE f == [i \in 0..0 |-> v]
  <2>1. Recurs(f, v, step, 0)
    BY DEF Recurs
  <2>2. f \in [0..0 -> V]
    OBVIOUS
  <2> QED
    BY <2>1, <2>2, Zenon
<1>2. ASSUME NEW k \in 0..n, k + 1 \in 0..n, Has(k) PROVE Has(k + 1)
  <2>1. PICK f \in [0..k -> V] : Recurs(f, v, step, k)
    BY <1>2
  <2> DEFINE z == step[k + 1][f[k]]
             g == [i \in 0..(k + 1) |-> IF i <= k THEN f[i] ELSE z]
  <2>2. f[k] \in V /\ k + 1 \in 1..n
    BY <1>2
  <2>3. z \in V
    BY <2>2
  <2> HIDE DEF z
  <2>4. g \in [0..(k + 1) -> V]
    BY <2>3
  <2>5. Recurs(g, v, step, k + 1)
    <3>1. (\A i \in 0..k : g[i] = f[i]) /\ g[k + 1] = z /\ k \in Nat
      OBVIOUS
    <3> HIDE DEF g
    <3>2. g[0] = v
      BY <2>1, <3>1 DEF Recurs
    <3>3. ASSUME NEW i \in 1..(k + 1) PROVE g[i] = step[i][g[i - 1]]
      <4>1. CASE i \in 1..k
        <5>1. f[i] = step[i][f[i - 1]]
          BY <2>1, <4>1 DEF Recurs
        <5>2. i - 1 \in 0..k /\ i \in 0..k
          BY <3>1, <4>1
        <5>3. g[i - 1] = f[i - 1] /\ g[i] = f[i]
          BY <3>1, <5>2
        <5> QED
          BY <5>1, <5>3, Zenon
      <4>2. CASE i = k + 1
        <5>1. i - 1 = k /\ k \in 0..k
          BY <3>1, <4>2
        <5>2. g[i - 1] = f[k]
          BY <3>1, <5>1
        <5> QED
          BY <3>1, <4>2, <5>2, Zenon DEF z
      <4>3. i \in 1..k \/ i = k + 1
        BY <3>1
      <4> QED
        BY <4>1, <4>2, <4>3, Zenon
    <3> QED
      BY <3>2, <3>3 DEF Recurs
  <2> QED
    BY <2>4, <2>5
<1>3. T = {}
  <2> HIDE DEF Has
  <2> SUFFICES ASSUME T # {} PROVE FALSE
    OBVIOUS
  <2>1. PICK k \in T : \A y \in T : k <= y
    <3>1. T \subseteq Nat /\ T # {}
      OBVIOUS
    <3> HIDE DEF T
    <3> QED
      BY <3>1, LeastNatural
  <2>2. k # 0
    BY <1>1
  <2>3. k - 1 \in 0..n /\ Has(k - 1)
    BY <2>1, <2>2
  <2> QED
    BY <1>2, <2>1, <2>3
<1> QED
  BY <1>3

\* What holds of the first state of a recursion and is kept by its steps holds
\* of the last: A is the set of the states it holds of, from state m on.
LEMMA StaysIn ==
    ASSUME NEW f, NEW A, NEW m \in Nat, NEW n \in Nat, m <= n, f[m] \in A,
           \A i \in (m + 1)..n : f[i - 1] \in A => f[i] \in A
    PROVE  \A i \in m..n : f[i] \in A
<1> DEFINE T == {i \in m..n : f[i] \notin A}
<1> SUFFICES ASSUME T # {} PROVE FALSE
  OBVIOUS
<1>1. PICK k \in T : \A y \in T : k <= y
  <2>1. T \subseteq Nat /\ T # {}
    OBVIOUS
  <2> HIDE DEF T
  <2> QED
    BY <2>1, LeastNatural
<1>2. k \in m..n /\ f[k] \notin A /\ k # m
  OBVIOUS
<1>3. k \in (m + 1)..n /\ k - 1 \in m..n /\ ~(k <= k - 1)
  BY <1>2
<1>4. k - 1 \notin T
  BY <1>1, <1>3
<1>5. f[k - 1] \in A
  BY <1>3, <1>4
<1> QED
  BY <1>2, <1>3, <1>5
=============================================================================
