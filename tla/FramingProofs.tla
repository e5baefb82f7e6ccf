--------------------------- MODULE FramingProofs ---------------------------
(***************************************************************************)
(* Proofs about Framing, for every base, limit and set of payloads.  What  *)
(* the recursive functions compute is proved with the least counterexample *)
(* of a set of naturals in place of an induction principle.                *)
(***************************************************************************)
EXTENDS Framing, SequenceTheorems, WellFoundedInduction, TLAPS

-----------------------------------------------------------------------------
(* Numbers. *)

\* Every set of naturals that is not empty has a least element.
LEMMA Least ==
    ASSUME NEW T \in SUBSET Nat, T # {}
    PROVE  \E n \in T : \A m \in T : n <= m
<1> DEFINE R == {p \in Nat \X Nat : p[1] < p[2]}
<1>1. IsWellFoundedOn(R, Nat)
  BY NatLessThanWellFounded DEF OpToRel
<1>2. \A x, y \in Nat : y < x => <<y, x>> \in R
  OBVIOUS
<1> HIDE DEF R
<1>3. PICK x \in T : \A y \in T : ~ (<<y, x>> \in R)
  BY <1>1, WFMin
<1>4. \A y \in T : ~ (y < x)
  BY <1>2, <1>3
<1>5. \A y \in T : x <= y
  BY <1>4
<1> QED BY <1>5

\* Splitting a number into its last digit and the rest.
LEMMA Digits ==
    ASSUME NEW n \in Nat
    PROVE  /\ Base \in Nat /\ Base > 1
           /\ n \div Base \in Nat /\ n % Base \in Nat /\ n % Base < Base
           /\ n = Base * (n \div Base) + (n % Base)
           /\ n >= Base => n \div Base < n
           /\ n < Base => n % Base = n
BY FramingAssumption

\* The last digit is what the continuation bit leaves of a byte.
LEMMA DigitOfByte ==
    ASSUME NEW d \in Nat, d < Base
    PROVE  (Base + d) % Base = d
BY FramingAssumption

\* Adding the next digit with its weight leaves the total unchanged.
LEMMA NextDigit ==
    ASSUME NEW m \in Nat, NEW v \in Nat, NEW w \in Nat
    PROVE  (v + (m % Base) * w) + (m \div Base) * (w * Base) = v + m * w
<1> DEFINE q == m \div Base
           r == m % Base
<1>1. Base \in Nat /\ q \in Nat /\ r \in Nat /\ m = Base * q + r
  BY Digits
<1> HIDE DEF q, r
<1>2. \A b \in Nat : (v + r * w) + q * (w * b) = v + (b * q + r) * w
  BY <1>1
<1>3. (v + r * w) + q * (w * Base) = v + m * w
  BY <1>1, <1>2
<1> QED BY <1>3 DEF q, r

-----------------------------------------------------------------------------
(* _encode_varint(): the recursive definition defines a function. *)

\* One unfolding of the recursion.
EncodeStep(g, n) ==
    IF n < Base THEN <<n>> ELSE <<Base + (n % Base)>> \o g[n \div Base]

\* g satisfies the recursion below k.
Encodes(g, k) == \A n \in Nat : n < k => g[n] = EncodeStep(g, n)

\* One unfolding looks at smaller numbers only.
LEMMA StepAgrees ==
    ASSUME NEW g, NEW h, NEW n \in Nat, \A m \in Nat : m < n => g[m] = h[m]
    PROVE  EncodeStep(g, n) = EncodeStep(h, n)
<1>1. CASE n < Base
  BY <1>1 DEF EncodeStep
<1>2. CASE ~(n < Base)
  <2>1. n \div Base \in Nat /\ n \div Base < n
    BY <1>2, Digits
  <2>2. g[n \div Base] = h[n \div Base]
    BY <2>1
  <2> QED BY <1>2, <2>2 DEF EncodeStep
<1> QED BY <1>1, <1>2

\* Two solutions agree.
LEMMA EncodesUnique ==
    ASSUME NEW g, NEW h, NEW k \in Nat, Encodes(g, k), Encodes(h, k)
    PROVE  \A n \in Nat : n < k => g[n] = h[n]
<1> DEFINE T == {n \in Nat : n < k /\ g[n] # h[n]}
<1> SUFFICES ASSUME T # {} PROVE FALSE
  OBVIOUS
<1>1. PICK n \in T : \A m \in T : n <= m
  BY Least
<1>2. n \in Nat /\ n < k /\ g[n] # h[n]
  OBVIOUS
<1>3. \A m \in Nat : m < n => g[m] = h[m]
  BY <1>1, <1>2
<1> HIDE DEF T
<1>4. EncodeStep(g, n) = EncodeStep(h, n)
  BY <1>2, <1>3, StepAgrees
<1> QED BY <1>2, <1>4 DEF Encodes

\* There is a solution below every bound.
LEMMA EncodesExists == \A k \in Nat : \E g : Encodes(g, k)
<1> DEFINE T == {k \in Nat : ~ \E g : Encodes(g, k)}
<1> SUFFICES ASSUME T # {} PROVE FALSE
  OBVIOUS
<1>1. PICK k \in T : \A m \in T : k <= m
  BY Least
<1>2. k \in Nat /\ ~ \E g : Encodes(g, k)
  OBVIOUS
<1>3. k # 0
  BY <1>2 DEF Encodes
<1>4. k - 1 \in Nat /\ k - 1 \notin T
  BY <1>1, <1>2, <1>3
<1>5. PICK g : Encodes(g, k - 1)
  BY <1>4
<1> HIDE DEF T
<1> DEFINE h == [n \in Nat |-> IF n < k - 1 THEN g[n] ELSE EncodeStep(g, n)]
<1>6. \A n \in Nat : n < k - 1 => h[n] = g[n]
  OBVIOUS
<1>7. \A n \in Nat : n < k => h[n] = EncodeStep(g, n)
  BY <1>4, <1>5 DEF Encodes
<1> HIDE DEF h
<1>8. ASSUME NEW n \in Nat, n < k PROVE h[n] = EncodeStep(h, n)
  <2>1. \A m \in Nat : m < n => g[m] = h[m]
    BY <1>2, <1>6, <1>8
  <2>2. EncodeStep(g, n) = EncodeStep(h, n)
    BY <2>1, StepAgrees
  <2> QED BY <1>7, <1>8, <2>2
<1>9. Encodes(h, k)
  BY <1>8 DEF Encodes
<1> QED BY <1>2, <1>9

\* There is a solution.
LEMMA EncodeExists == \E g : g = [n \in Nat |-> EncodeStep(g, n)]
<1> DEFINE A(k) == CHOOSE g : Encodes(g, k)
           g == [n \in Nat |-> A(n + 1)[n]]
<1>1. \A k \in Nat : Encodes(A(k), k)
  BY EncodesExists
<1>2. \A n \in Nat : g[n] = A(n + 1)[n]
  OBVIOUS
<1>3. g = [n \in Nat |-> g[n]]
  OBVIOUS
<1> HIDE DEF A, g
<1>4. ASSUME NEW n \in Nat PROVE g[n] = EncodeStep(g, n)
  <2>1. Encodes(A(n + 1), n + 1)
    BY <1>1
  <2>2. ASSUME NEW m \in Nat, m < n PROVE A(n + 1)[m] = g[m]
    <3>1. Encodes(A(m + 1), m + 1)
      BY <1>1
    <3>2. Encodes(A(n + 1), m + 1)
      BY <2>1, <2>2 DEF Encodes
    <3>3. A(n + 1)[m] = A(m + 1)[m]
      BY <3>1, <3>2, EncodesUnique
    <3> QED BY <1>2, <3>3
  <2>3. EncodeStep(A(n + 1), n) = EncodeStep(g, n)
    BY <2>2, StepAgrees
  <2>4. A(n + 1)[n] = EncodeStep(A(n + 1), n)
    BY <2>1 DEF Encodes
  <2> QED BY <1>2, <2>3, <2>4
<1>5. g = [n \in Nat |-> EncodeStep(g, n)]
  BY <1>3, <1>4
<1> QED BY <1>5

\* _encode_varint() computes what its recursion says, for every length.
LEMMA EncodeDef == \A n \in Nat : Encode[n] = EncodeStep(Encode, n)
<1>1. Encode = [n \in Nat |-> EncodeStep(Encode, n)]
  BY EncodeExists DEF Encode, EncodeStep
<1> QED BY <1>1

\* Its bytes are bytes, and there is at least one.
LEMMA EncodeType == \A n \in Nat : Encode[n] \in Seq(Byte) /\ Encode[n] # <<>>
<1> DEFINE T == {n \in Nat : ~(Encode[n] \in Seq(Byte) /\ Encode[n] # <<>>)}
<1> SUFFICES ASSUME T # {} PROVE FALSE
  OBVIOUS
<1>1. PICK n \in T : \A m \in T : n <= m
  BY Least
<1>2. n \in Nat /\ ~(Encode[n] \in Seq(Byte) /\ Encode[n] # <<>>)
  OBVIOUS
<1>3. \A m \in Nat : m < n => Encode[m] \in Seq(Byte)
  BY <1>1, <1>2
<1> HIDE DEF T
<1>4. CASE n < Base
  <2>1. Encode[n] = <<n>>
    BY <1>2, <1>4, EncodeDef DEF EncodeStep
  <2>2. n \in Byte
    BY <1>2, <1>4, FramingAssumption DEF Byte
  <2> QED BY <1>2, <2>1, <2>2
<1>5. CASE ~(n < Base)
  <2>1. /\ n \div Base \in Nat /\ n \div Base < n
        /\ n % Base \in Nat /\ n % Base < Base
    BY <1>2, <1>5, Digits
  <2>2. Encode[n] = <<Base + (n % Base)>> \o Encode[n \div Base]
    BY <1>2, <1>5, EncodeDef DEF EncodeStep
  <2>3. Encode[n \div Base] \in Seq(Byte)
    BY <1>3, <2>1
  <2>4. Base + (n % Base) \in Byte
    BY <2>1, FramingAssumption DEF Byte
  <2>5. <<Base + (n % Base)>> \in Seq(Byte) /\ Len(<<Base + (n % Base)>>) = 1
    BY <2>4
  <2>6. Encode[n] \in Seq(Byte) /\ Len(Encode[n]) = 1 + Len(Encode[n \div Base])
    BY <2>2, <2>3, <2>5, ConcatProperties
  <2>7. Encode[n] # <<>>
    BY <2>3, <2>6
  <2> QED BY <1>2, <2>6, <2>7
<1> QED BY <1>4, <1>5

\* A framed payload is a sequence of bytes.
LEMMA FramedType ==
    ASSUME NEW f \in Seq(Byte)
    PROVE  Framed(f) \in Seq(Byte)
<1>1. Len(f) \in Nat
  OBVIOUS
<1>2. Encode[Len(f)] \in Seq(Byte)
  BY <1>1, EncodeType
<1> QED BY <1>2, ConcatProperties DEF Framed

-----------------------------------------------------------------------------
(* Sequences. *)

\* Taking a prefix that is known off the front of a buffer.
LEMMA DropPrefix ==
    ASSUME NEW s \in Seq(Byte), NEW t \in Seq(Byte), NEW u \in Seq(Byte), NEW v \in Seq(Byte),
           s \o t = u \o v, Len(s) >= Len(u)
    PROVE  /\ SubSeq(s, 1, Len(u)) = u
           /\ SubSeq(s, Len(u) + 1, Len(s)) \o t = v
<1> DEFINE n == Len(u)
           r == SubSeq(s, n + 1, Len(s))
           p == SubSeq(s, 1, n)
<1>1. /\ n \in Nat /\ Len(s) \in Nat /\ Len(t) \in Nat /\ Len(v) \in Nat /\ n <= Len(s)
  OBVIOUS
<1>2. /\ r \in Seq(Byte) /\ Len(r) = Len(s) - n
      /\ \A i \in 1..(Len(s) - n) : r[i] = s[n + i]
  BY <1>1
<1>3. /\ p \in Seq(Byte) /\ Len(p) = n /\ \A i \in 1..n : p[i] = s[i]
  BY <1>1
<1>4. /\ Len(s) + Len(t) = n + Len(v)
      /\ \A i \in 1..(Len(s) + Len(t)) :
           (IF i <= Len(s) THEN s[i] ELSE t[i - Len(s)]) = (IF i <= n THEN u[i] ELSE v[i - n])
  BY ConcatProperties
<1> HIDE DEF n, r, p
<1>5. p = u
  <2>1. ASSUME NEW i \in 1..n PROVE p[i] = u[i]
    <3>1. i \in 1..(Len(s) + Len(t)) /\ i <= Len(s) /\ i <= n
      BY <1>1
    <3>2. s[i] = u[i]
      BY <1>4, <3>1
    <3> QED BY <1>3, <3>2
  <2>2. Len(p) = Len(u)
    BY <1>3 DEF n
  <2> QED BY <1>3, <2>1, <2>2, SeqEqual
<1>6. r \o t = v
  <2>1. /\ r \o t \in Seq(Byte) /\ Len(r \o t) = Len(r) + Len(t)
        /\ \A i \in 1..(Len(r) + Len(t)) :
             (r \o t)[i] = IF i <= Len(r) THEN r[i] ELSE t[i - Len(r)]
    BY <1>2, ConcatProperties
  <2>2. Len(r \o t) = Len(v)
    BY <1>1, <1>2, <1>4, <2>1
  <2>3. ASSUME NEW i \in 1..Len(v) PROVE (r \o t)[i] = v[i]
    <3>1. n + i \in 1..(Len(s) + Len(t)) /\ i \in 1..(Len(r) + Len(t)) /\ ~(n + i <= n)
          /\ (n + i) - n = i /\ i \in Int
      BY <1>1, <1>2, <1>4
    <3>2. v[i] = IF n + i <= Len(s) THEN s[n + i] ELSE t[(n + i) - Len(s)]
      BY <1>4, <3>1
    <3>3. CASE i <= Len(r)
      BY <1>1, <1>2, <2>1, <3>1, <3>2, <3>3
    <3>4. CASE ~(i <= Len(r))
      <4>1. (n + i) - Len(s) = i - Len(r) /\ ~(n + i <= Len(s))
        BY <1>1, <1>2, <3>1, <3>4
      <4> QED BY <2>1, <3>1, <3>2, <3>4, <4>1
    <3> QED BY <3>3, <3>4
  <2> QED BY <2>1, <2>2, <2>3, SeqEqual
<1> QED BY <1>5, <1>6 DEF n, r, p

\* What is in s and t begins with the byte b.
Begins(s, t, b, v) ==
    /\ s \in Seq(Byte) /\ t \in Seq(Byte) /\ b \in Byte /\ v \in Seq(Byte)
    /\ s # <<>> /\ s \o t = <<b>> \o v

\* Reading one known byte.
LEMMA DropByte ==
    ASSUME NEW s, NEW t, NEW b, NEW v, Begins(s, t, b, v)
    PROVE  Head(s) = b /\ Tail(s) \o t = v
<1> DEFINE u == <<b>>
<1>1. /\ s \in Seq(Byte) /\ t \in Seq(Byte) /\ u \in Seq(Byte) /\ v \in Seq(Byte)
      /\ Len(u) = 1 /\ u[1] = b /\ s # <<>> /\ s \o t = u \o v
  BY DEF Begins
<1> HIDE DEF u
<1>2. Len(s) >= Len(u) /\ Len(s) >= 1
  BY <1>1
<1>3. SubSeq(s, 1, Len(u)) = u /\ SubSeq(s, Len(u) + 1, Len(s)) \o t = v
  BY <1>1, <1>2, DropPrefix, Zenon
<1>4. Tail(s) = SubSeq(s, 2, Len(s))
  BY <1>1, TailIsSubSeq
<1>5. Head(s) = s[1] /\ SubSeq(s, 1, 1)[1] = s[1]
  BY <1>1, <1>2
<1>6. 1 + 1 = 2
  OBVIOUS
<1> QED BY <1>1, <1>3, <1>4, <1>5, <1>6

\* Concatenation of bytes is associative.
LEMMA Associative ==
    \A s, t, u \in Seq(Byte) : (s \o t) \o u = s \o (t \o u)
BY ConcatAssociative

\* A chunk moves from the wire to the buffer.
LEMMA MoveChunk ==
    ASSUME NEW s \in Seq(Byte), NEW t \in Seq(Byte), NEW n \in 1..Len(t)
    PROVE  /\ s \o SubSeq(t, 1, n) \in Seq(Byte) /\ SubSeq(t, n + 1, Len(t)) \in Seq(Byte)
           /\ (s \o SubSeq(t, 1, n)) \o SubSeq(t, n + 1, Len(t)) = s \o t
<1> DEFINE p == SubSeq(t, 1, n)
           q == SubSeq(t, n + 1, Len(t))
<1>1. p \in Seq(Byte) /\ q \in Seq(Byte)
  OBVIOUS
<1>2. 1 \in 1..Len(t)+1 /\ n \in (1-1)..Len(t) /\ Len(t) \in n..Len(t)
  OBVIOUS
<1>3. p \o q = SubSeq(t, 1, Len(t))
  BY <1>2, ConcatAdjacentSubSeq
<1>4. SubSeq(t, 1, Len(t)) = t
  BY SubSeqFull
<1> HIDE DEF p, q
<1>5. (s \o p) \o q = s \o (p \o q)
  BY <1>1, Associative
<1>6. s \o p \in Seq(Byte)
  BY <1>1, ConcatProperties
<1> QED BY <1>1, <1>3, <1>4, <1>5, <1>6 DEF p, q

\* What follows a prefix.
LEMMA AfterPrefix ==
    ASSUME NEW s \in Seq(Byte), NEW t \in Seq(Byte)
    PROVE  SubSeq(s \o t, Len(s) + 1, Len(s \o t)) = t
<1>1. <<>> \in Seq(Byte) /\ s \o t \in Seq(Byte) /\ Len(s \o t) >= Len(s)
  BY ConcatProperties
<1>2. (s \o t) \o <<>> = s \o t
  BY <1>1, ConcatEmptySeq
<1>3. SubSeq(s \o t, Len(s) + 1, Len(s \o t)) \o <<>> = t
  BY <1>1, <1>2, DropPrefix
<1>4. SubSeq(s \o t, Len(s) + 1, Len(s \o t)) \in Seq(Byte)
  BY <1>1
<1> QED BY <1>3, <1>4, ConcatEmptySeq

-----------------------------------------------------------------------------
(* The bytes of the pending frames. *)

\* S[i] is the stream of the frames of p from the i-th on.
Streams(S, p) ==
    /\ S \in [1..(Len(p) + 1) -> Seq(Byte)]
    /\ S[Len(p) + 1] = <<>>
    /\ \A i \in 1..Len(p) : S[i] = Framed(p[i]) \o S[i + 1]

\* The recursive definition of Stream defines that stream.
LEMMA StreamIs ==
    ASSUME pending \in Seq(Payloads), MaxSent \in Nat, Len(pending) <= MaxSent,
           NEW S, Streams(S, pending)
    PROVE  Stream[1] = S[1]
<1> DEFINE L == Len(pending)
           Unfold(g, n) == IF n > L THEN <<>> ELSE Framed(pending[n]) \o g[n + 1]
           g == [n \in 1..(MaxSent + 1) |-> IF n > L THEN <<>> ELSE S[n]]
<1>1. L \in Nat /\ L <= MaxSent
  OBVIOUS
<1>2. /\ S[L + 1] = <<>>
      /\ \A i \in 1..L : S[i] = Framed(pending[i]) \o S[i + 1]
  BY DEF Streams
<1> HIDE DEF L
<1>3. \A n \in 1..(L + 1) : g[n] = S[n]
  BY <1>1, <1>2
<1>4. \A n \in 1..(MaxSent + 1) : g[n] = Unfold(g, n)
  <2>1. SUFFICES ASSUME NEW n \in 1..(MaxSent + 1) PROVE g[n] = Unfold(g, n)
    OBVIOUS
  <2>2. CASE n > L
    BY <2>2
  <2>3. CASE ~(n > L)
    <3>1. n \in 1..L /\ n \in 1..(L + 1) /\ n + 1 \in 1..(L + 1)
      BY <1>1, <2>3
    <3>2. g[n] = S[n] /\ g[n + 1] = S[n + 1]
      BY <1>3, <3>1
    <3> QED BY <1>2, <2>3, <3>1, <3>2
  <2> QED BY <2>2, <2>3
<1>5. g = [n \in 1..(MaxSent + 1) |-> Unfold(g, n)]
  BY <1>4
<1>6. \E h : h = [n \in 1..(MaxSent + 1) |-> Unfold(h, n)]
  BY <1>5
<1>7. Stream = [n \in 1..(MaxSent + 1) |-> Unfold(Stream, n)]
  BY <1>6 DEF Stream, L
<1>8. \A n \in 1..(MaxSent + 1) : Stream[n] = Unfold(Stream, n)
  BY <1>7
<1> DEFINE T == {k \in Nat : k <= L /\ Stream[(L + 1) - k] # S[(L + 1) - k]}
<1>9. T = {}
  <2> SUFFICES ASSUME T # {} PROVE FALSE
    OBVIOUS
  <2>1. PICK k \in T : \A m \in T : k <= m
    BY Least
  <2>2. k \in Nat /\ k <= L /\ Stream[(L + 1) - k] # S[(L + 1) - k]
    OBVIOUS
  <2>3. CASE k = 0
    <3>1. (L + 1) - k = L + 1 /\ L + 1 \in 1..(MaxSent + 1) /\ L + 1 > L
      BY <1>1, <2>3
    <3> QED BY <1>2, <1>8, <2>2, <3>1
  <2>4. CASE k # 0
    <3> DEFINE n == (L + 1) - k
    <3>1. /\ n \in 1..L /\ n \in 1..(MaxSent + 1) /\ ~(n > L)
          /\ k - 1 \in Nat /\ k - 1 <= L /\ (L + 1) - (k - 1) = n + 1
      BY <1>1, <2>2, <2>4
    <3>2. k - 1 \notin T
      BY <2>1, <2>2, <3>1
    <3>3. Stream[n + 1] = S[n + 1]
      BY <3>1, <3>2
    <3>4. Stream[n] # S[n]
      BY <2>2
    <3> HIDE DEF n, T
    <3> QED BY <1>2, <1>8, <3>1, <3>3, <3>4
  <2> QED BY <2>3, <2>4
<1>10. L \in Nat /\ L <= L /\ (L + 1) - L = 1
  BY <1>1
<1>11. L \notin T
  BY <1>9
<1> QED BY <1>10, <1>11

\* A frame is sent: every stream grows at its end.
LEMMA StreamsAppend ==
    ASSUME NEW p \in Seq(Payloads), NEW f \in Payloads, NEW S, Streams(S, p)
    PROVE  \E R : Streams(R, Append(p, f)) /\ R[1] = S[1] \o Framed(f)
                   /\ (p # <<>> => R[2] = S[2] \o Framed(f))
<1> DEFINE F == Framed(f)
           L == Len(p)
           q == Append(p, f)
           R == [i \in 1..(L + 2) |-> IF i <= L + 1 THEN S[i] \o F ELSE <<>>]
<1>1. f \in Seq(Byte) /\ \A i \in 1..L : p[i] \in Seq(Byte)
  BY FramingAssumption, ElementOfSeq
<1>2. F \in Seq(Byte) /\ \A i \in 1..L : Framed(p[i]) \in Seq(Byte)
  BY <1>1, FramedType
<1>3. /\ L \in Nat /\ Len(q) = L + 1 /\ q[L + 1] = f /\ \A i \in 1..L : q[i] = p[i]
  BY AppendProperties
<1>4. /\ \A i \in 1..(L + 1) : S[i] \in Seq(Byte)
      /\ S[L + 1] = <<>>
      /\ \A i \in 1..L : S[i] = Framed(p[i]) \o S[i + 1]
  BY DEF Streams
<1> HIDE DEF q, L
<1>5. /\ \A i \in 1..(L + 1) : R[i] = S[i] \o F
      /\ R[L + 2] = <<>>
      /\ DOMAIN R = 1..(L + 2)
  BY <1>3
<1>6. <<>> \in Seq(Byte) /\ F \o <<>> = F /\ <<>> \o F = F
  BY <1>2, ConcatEmptySeq
<1>7. R \in [1..(L + 2) -> Seq(Byte)]
  <2>1. \A i \in 1..(L + 1) : S[i] \o F \in Seq(Byte)
    BY <1>2, <1>4, ConcatProperties
  <2> QED BY <1>3, <1>6, <2>1
<1> HIDE DEF R, F
<1>8. ASSUME NEW i \in 1..(L + 1) PROVE R[i] = Framed(q[i]) \o R[i + 1]
  <2>1. CASE i = L + 1
    <3>1. R[i] = F /\ R[i + 1] = <<>> /\ Framed(q[i]) = F
      <4>1. i + 1 = L + 2 /\ i \in 1..(L + 1)
        BY <1>3, <2>1
      <4> QED BY <1>3, <1>4, <1>5, <1>6, <2>1, <4>1 DEF F
    <3> QED BY <1>6, <3>1
  <2>2. CASE i # L + 1
    <3>1. i \in 1..L /\ i + 1 \in 1..(L + 1) /\ i \in 1..(L + 1)
      BY <1>3, <2>2
    <3>2. R[i] = (Framed(p[i]) \o S[i + 1]) \o F /\ R[i + 1] = S[i + 1] \o F
      BY <1>4, <1>5, <3>1
    <3>3. (Framed(p[i]) \o S[i + 1]) \o F = Framed(p[i]) \o (S[i + 1] \o F)
      BY <1>2, <1>4, <3>1, Associative
    <3> QED BY <1>3, <3>1, <3>2, <3>3
  <2> QED BY <2>1, <2>2
<1>9. Len(q) + 1 = L + 2
  BY <1>3
<1>10. Streams(R, q)
  BY <1>3, <1>5, <1>7, <1>8, <1>9 DEF Streams
<1>11. R[1] = S[1] \o F
  BY <1>3, <1>5
<1>12. p # <<>> => R[2] = S[2] \o F
  <2> SUFFICES ASSUME p # <<>> PROVE R[2] = S[2] \o F
    OBVIOUS
  <2>1. 2 \in 1..(L + 1)
    BY <1>3 DEF L
  <2> QED BY <1>5, <2>1
<1> QED BY <1>10, <1>11, <1>12 DEF q, F

\* The oldest frame is taken.
LEMMA StreamsTail ==
    ASSUME NEW p \in Seq(Payloads), p # <<>>, NEW S, Streams(S, p)
    PROVE  \E R : Streams(R, Tail(p)) /\ R[1] = S[2]
<1> DEFINE L == Len(p)
           q == Tail(p)
           R == [i \in 1..L |-> S[i + 1]]
<1>1. /\ L \in Nat /\ L >= 1 /\ Len(q) + 1 = L
      /\ \A i \in 1..Len(q) : q[i] = p[i + 1]
  BY HeadTailProperties
<1>2. /\ \A i \in 1..(L + 1) : S[i] \in Seq(Byte)
      /\ S[L + 1] = <<>>
      /\ \A i \in 1..L : S[i] = Framed(p[i]) \o S[i + 1]
  BY DEF Streams
<1> HIDE DEF L, q
<1>3. \A i \in 1..L : R[i] = S[i + 1] /\ i + 1 \in 1..(L + 1)
  BY <1>1
<1>4. R \in [1..(Len(q) + 1) -> Seq(Byte)]
  BY <1>1, <1>2, <1>3
<1> HIDE DEF R
<1>5. R[Len(q) + 1] = <<>> /\ R[1] = S[2]
  BY <1>1, <1>2, <1>3
<1>6. ASSUME NEW i \in 1..Len(q) PROVE R[i] = Framed(q[i]) \o R[i + 1]
  <2>1. i \in 1..L /\ i + 1 \in 1..L
    BY <1>1
  <2> QED BY <1>1, <1>2, <1>3, <2>1
<1>7. Streams(R, q)
  BY <1>4, <1>5, <1>6 DEF Streams
<1> QED BY <1>5, <1>7 DEF q

\* Nothing is pending.
LEMMA StreamsEmpty ==
    /\ \E S : Streams(S, <<>>) /\ S[1] = <<>>
    /\ \A S : Streams(S, <<>>) => S[1] = <<>>
<1> DEFINE S == [i \in 1..1 |-> <<>>]
<1>1. Len(<<>>) + 1 = 1 /\ <<>> \in Seq(Byte)
  OBVIOUS
<1>2. S \in [1..1 -> Seq(Byte)] /\ S[1] = <<>>
  BY <1>1
<1> HIDE DEF S
<1>3. Streams(S, <<>>)
  BY <1>1, <1>2 DEF Streams
<1>4. \A R : Streams(R, <<>>) => R[1] = <<>>
  BY <1>1 DEF Streams
<1> QED BY <1>2, <1>3, <1>4

-----------------------------------------------------------------------------
(* The inductive invariant. *)

\* The frame being read.
Oldest == pending[1]

\* Inside its length: the bytes c have been read, the digits of m are still to come,
\* and with them the value is completed to the length.
InLength(S, m, c) ==
    /\ m \in Nat /\ c \in Seq(Byte) /\ Len(c) = count
    /\ value + m * weight = Len(Oldest)
    /\ Encode[Len(Oldest)] = c \o Encode[m]
    /\ buf \o wire = Encode[m] \o (Oldest \o S[2])

\* Inside its payload: the length has been read, and decoded right.
InPayload(S) ==
    /\ need = Len(Oldest)
    /\ Len(Encode[Len(Oldest)]) = count + 1
    /\ buf \o wire = Oldest \o S[2]

Reading(S) ==
    \/ pc # "payload" /\ count = 0 /\ buf \o wire = S[1]
    \/ pc = "length" /\ pending # <<>> /\ \E m, c : InLength(S, m, c)
    \/ pc = "payload" /\ pending # <<>> /\ InPayload(S)

\* In step, buffer and wire hold the rest of the stream of the pending frames.
Synced == ~skewed => \E S : Streams(S, pending) /\ Reading(S)

FramingInv == TypeOK /\ FreshLocals /\ Synced

\* The types of the frame being read and of what follows it.
LEMMA OldestType ==
    ASSUME TypeOK, pending # <<>>, NEW S, Streams(S, pending)
    PROVE  /\ Oldest \in Seq(Byte) /\ Oldest = Head(pending) /\ Len(Oldest) \in Nat
           /\ Encode[Len(Oldest)] \in Seq(Byte) /\ S[2] \in Seq(Byte)
           /\ Oldest \o S[2] \in Seq(Byte)
           /\ S[1] = Encode[Len(Oldest)] \o (Oldest \o S[2])
<1>1. pending \in Seq(Payloads) /\ Len(pending) \in Nat /\ Len(pending) >= 1
  BY DEF TypeOK
<1>2. Oldest = Head(pending) /\ Oldest \in Payloads
  BY <1>1 DEF Oldest
<1>3. Oldest \in Seq(Byte)
  BY <1>2, FramingAssumption
<1>4. Len(Oldest) \in Nat
  BY <1>3
<1>5. Encode[Len(Oldest)] \in Seq(Byte)
  BY <1>4, EncodeType
<1>6. 1 \in 1..Len(pending) /\ 2 \in 1..(Len(pending) + 1) /\ 1 + 1 = 2
  BY <1>1
<1>7. S[2] \in Seq(Byte) /\ S[1] = Framed(Oldest) \o S[1 + 1]
  BY <1>6 DEF Streams, Oldest
<1>8. S[1] = (Encode[Len(Oldest)] \o Oldest) \o S[2]
  BY <1>6, <1>7 DEF Framed
<1>9. (Encode[Len(Oldest)] \o Oldest) \o S[2] = Encode[Len(Oldest)] \o (Oldest \o S[2])
  BY <1>3, <1>5, <1>7, Associative
<1>10. Oldest \o S[2] \in Seq(Byte)
  BY <1>3, <1>7, ConcatProperties
<1> QED BY <1>2, <1>3, <1>4, <1>5, <1>7, <1>8, <1>9, <1>10

\* The invariant as the runs state it.
LEMMA SyncedInSync == FramingInv => InSync
<1> SUFFICES ASSUME FramingInv, ~skewed
             PROVE  /\ buf \o wire = SubSeq(Stream[1], ReadSoFar + 1, Len(Stream[1]))
                    /\ pc = "payload" => pending # <<>> /\ need = Len(Head(pending))
  BY DEF InSync
<1>1. PICK S : Streams(S, pending) /\ Reading(S)
  BY DEF FramingInv, Synced
<1>2. Stream[1] = S[1]
  <2>1. pending \in Seq(Payloads) /\ Len(pending) \in Nat /\ sent \in Nat /\ sent <= MaxSent
    BY DEF FramingInv, TypeOK
  <2>2. MaxSent \in Nat /\ Len(pending) <= sent
    BY FramingAssumption DEF FramingInv, FreshLocals
  <2>3. Len(pending) <= MaxSent
    BY <2>1, <2>2, FramingAssumption
  <2> QED BY <1>1, <2>1, <2>2, <2>3, StreamIs
<1>3. CASE pc # "payload" /\ count = 0 /\ buf \o wire = S[1]
  <2>1. buf \o wire \in Seq(Byte)
    BY ConcatProperties DEF FramingInv, TypeOK
  <2>2. SubSeq(S[1], 1, Len(S[1])) = S[1]
    BY <1>3, <2>1, SubSeqFull
  <2>3. ReadSoFar + 1 = 1
    BY <1>3 DEF ReadSoFar
  <2> QED BY <1>2, <1>3, <2>2, <2>3
<1>4. ASSUME pc = "length", pending # <<>>, NEW m, NEW c, InLength(S, m, c)
      PROVE  buf \o wire = SubSeq(Stream[1], ReadSoFar + 1, Len(Stream[1]))
  <2>1. /\ S[1] = Encode[Len(Oldest)] \o (Oldest \o S[2])
        /\ Oldest \o S[2] \in Seq(Byte)
    BY <1>1, <1>4, OldestType DEF FramingInv
  <2>2. /\ m \in Nat /\ c \in Seq(Byte) /\ Len(c) = count
        /\ Encode[Len(Oldest)] = c \o Encode[m]
        /\ buf \o wire = Encode[m] \o (Oldest \o S[2])
    BY <1>4 DEF InLength
  <2>3. Encode[m] \in Seq(Byte)
    BY <2>2, EncodeType
  <2>4. (c \o Encode[m]) \o (Oldest \o S[2]) = c \o (Encode[m] \o (Oldest \o S[2]))
    BY <2>1, <2>2, <2>3, Associative
  <2>5. S[1] = c \o (buf \o wire)
    BY <2>1, <2>2, <2>4
  <2>6. buf \o wire \in Seq(Byte)
    BY ConcatProperties DEF FramingInv, TypeOK
  <2>7. SubSeq(c \o (buf \o wire), Len(c) + 1, Len(c \o (buf \o wire))) = buf \o wire
    BY <2>2, <2>6, AfterPrefix
  <2>8. ReadSoFar = Len(c)
    BY <1>4, <2>2 DEF ReadSoFar
  <2> QED BY <1>2, <2>5, <2>7, <2>8
<1>5. ASSUME pc = "payload", pending # <<>>, InPayload(S)
      PROVE  /\ buf \o wire = SubSeq(Stream[1], ReadSoFar + 1, Len(Stream[1]))
             /\ need = Len(Head(pending))
  <2> DEFINE c == Encode[Len(Oldest)]
  <2>1. /\ S[1] = c \o (Oldest \o S[2]) /\ c \in Seq(Byte) /\ Oldest = Head(pending)
        /\ Oldest \o S[2] \in Seq(Byte)
    BY <1>1, <1>5, OldestType DEF FramingInv
  <2>2. /\ Len(c) = count + 1 /\ need = Len(Oldest)
        /\ buf \o wire = Oldest \o S[2]
    BY <1>5 DEF InPayload
  <2> HIDE DEF c
  <2>3. SubSeq(c \o (Oldest \o S[2]), Len(c) + 1, Len(c \o (Oldest \o S[2]))) = Oldest \o S[2]
    BY <2>1, AfterPrefix
  <2>4. ReadSoFar = Len(c)
    BY <1>5, <2>2 DEF ReadSoFar
  <2> QED BY <1>2, <2>1, <2>2, <2>3, <2>4
<1> QED BY <1>1, <1>3, <1>4, <1>5 DEF Reading

-----------------------------------------------------------------------------
(* The steps between two frames, and those that leave one. *)

\* _receive_main_message() gives up inside a frame: nothing is promised any more.
LEMMA SlipInv ==
    ASSUME FramingInv, Slip, wire' \in Seq(Byte), buf' \in Seq(Byte),
           orphan' \in BOOLEAN, sent' = sent
    PROVE  FramingInv'
<1>1. /\ pc' = "out" /\ value' = 0 /\ count' = 0 /\ weight' = 1 /\ need' = 0
      /\ taken' = NoFrame /\ skewed' = TRUE /\ pending' = <<>>
  BY DEF Slip, Return
<1>2. TypeOK'
  BY <1>1, FramingAssumption DEF FramingInv, TypeOK
<1>3. FreshLocals'
  BY <1>1 DEF FramingInv, TypeOK, FreshLocals
<1>4. Synced'
  BY <1>1 DEF Synced
<1> QED BY <1>2, <1>3, <1>4 DEF FramingInv

\* It gives up before the first byte of a frame: nothing is lost.
LEMMA QuitInv ==
    ASSUME FramingInv, pc # "out", ~Inside, Return(NoFrame),
           UNCHANGED <<pending, skewed, wire, buf, sent>>, orphan' \in BOOLEAN
    PROVE  FramingInv'
<1>0. /\ pc' = "out" /\ value' = 0 /\ count' = 0 /\ weight' = 1 /\ need' = 0
      /\ taken' = NoFrame
  BY DEF Return
<1>1. pc = "length" /\ count = 0
  BY DEF FramingInv, TypeOK, Inside
<1>2. TypeOK'
  BY <1>0, FramingAssumption DEF FramingInv, TypeOK
<1>3. FreshLocals'
  BY <1>0 DEF FramingInv, FreshLocals
<1>4. Synced'
  <2> SUFFICES ASSUME ~skewed PROVE \E S : Streams(S, pending) /\ buf \o wire = S[1]
    BY <1>0 DEF Synced, Reading
  <2>1. PICK S : Streams(S, pending) /\ Reading(S)
    BY DEF FramingInv, Synced
  <2>2. CASE buf \o wire = S[1]
    BY <2>1, <2>2
  <2>3. ASSUME pending # <<>>, NEW m, NEW c, InLength(S, m, c) PROVE buf \o wire = S[1]
    <3>1. /\ m \in Nat /\ c \in Seq(Byte) /\ Len(c) = 0
          /\ Encode[Len(Oldest)] = c \o Encode[m]
          /\ buf \o wire = Encode[m] \o (Oldest \o S[2])
      BY <1>1, <2>3 DEF InLength
    <3>2. c = <<>> /\ Encode[m] \in Seq(Byte)
      BY <3>1, EmptySeq, EncodeType
    <3>3. c \o Encode[m] = Encode[m]
      BY <3>2, ConcatEmptySeq
    <3>4. S[1] = Encode[Len(Oldest)] \o (Oldest \o S[2])
      BY <2>1, <2>3, OldestType DEF FramingInv
    <3> QED BY <3>1, <3>3, <3>4
  <2> QED BY <1>1, <2>1, <2>2, <2>3 DEF Reading
<1> QED BY <1>2, <1>3, <1>4 DEF FramingInv

\* A receive begins with fresh locals.
LEMMA BeginInv == FramingInv /\ Begin => FramingInv'
<1> SUFFICES ASSUME FramingInv, Begin PROVE FramingInv'
  OBVIOUS
<1>0. /\ pc = "out" /\ pc' = "length" /\ value' = 0 /\ count' = 0 /\ weight' = 1 /\ count = 0
      /\ UNCHANGED <<wire, buf, need, orphan, taken, sent, pending, skewed>>
  BY DEF Begin, FramingInv, FreshLocals
<1>1. TypeOK'
  BY <1>0, FramingAssumption DEF FramingInv, TypeOK
<1>2. FreshLocals'
  BY <1>0 DEF FramingInv, FreshLocals
<1>3. Synced'
  BY <1>0 DEF FramingInv, Synced, Reading
<1> QED BY <1>1, <1>2, <1>3 DEF FramingInv

\* A chunk only moves bytes from the wire into the buffer.
LEMMA ChunkInv == FramingInv /\ Chunk => FramingInv'
<1> SUFFICES ASSUME FramingInv, Chunk PROVE FramingInv'
  OBVIOUS
<1>0. UNCHANGED <<pc, value, count, weight, need, orphan, taken, sent, pending, skewed>>
  BY DEF Chunk, readVars
<1>1. PICK n \in 1..Len(wire) :
        /\ buf' = buf \o SubSeq(wire, 1, n)
        /\ wire' = SubSeq(wire, n + 1, Len(wire))
  BY DEF Chunk
<1>2. buf \in Seq(Byte) /\ wire \in Seq(Byte)
  BY DEF FramingInv, TypeOK
<1>3. buf' \in Seq(Byte) /\ wire' \in Seq(Byte) /\ buf' \o wire' = buf \o wire
  BY <1>1, <1>2, MoveChunk
<1>4. TypeOK'
  BY <1>0, <1>3 DEF FramingInv, TypeOK
<1>5. FreshLocals'
  BY <1>0 DEF FramingInv, FreshLocals
<1>6. Synced'
  BY <1>0, <1>3 DEF FramingInv, Synced, Reading, InLength, InPayload, Oldest
<1> QED BY <1>4, <1>5, <1>6 DEF FramingInv

\* The device sends a frame: every stream grows at its end.
LEMMA DevSendInv ==
    ASSUME FramingInv, NEW f \in Payloads, DevSend(f)
    PROVE  FramingInv'
<1> DEFINE F == Framed(f)
<1>0. /\ UNCHANGED <<buf, pc, value, count, weight, need, orphan, taken, skewed>>
      /\ sent < MaxSent /\ sent' = sent + 1 /\ wire' = wire \o F
      /\ pending' = IF skewed THEN <<>> ELSE Append(pending, f)
  BY DEF DevSend, readVars
<1>1. /\ buf \in Seq(Byte) /\ wire \in Seq(Byte) /\ pending \in Seq(Payloads)
      /\ f \in Seq(Byte) /\ skewed \in BOOLEAN
  BY FramingAssumption DEF FramingInv, TypeOK
<1>2. F \in Seq(Byte)
  BY <1>1, FramedType
<1>3. wire' \in Seq(Byte) /\ buf' \o wire' = (buf \o wire) \o F /\ buf \o wire \in Seq(Byte)
  <2>1. wire \o F \in Seq(Byte) /\ buf \o wire \in Seq(Byte)
    BY <1>1, <1>2, ConcatProperties
  <2>2. (buf \o wire) \o F = buf \o (wire \o F)
    BY <1>1, <1>2, Associative
  <2> QED BY <1>0, <2>1, <2>2
<1> HIDE DEF F
<1>4. pending' \in Seq(Payloads) /\ Len(pending') <= sent'
  <2>1. Len(pending) \in Nat /\ Len(pending) <= sent /\ sent \in Nat
    BY <1>1 DEF FramingInv, FreshLocals, TypeOK
  <2>2. Append(pending, f) \in Seq(Payloads) /\ Len(Append(pending, f)) = Len(pending) + 1
    BY <1>1, AppendProperties
  <2> QED BY <1>0, <2>1, <2>2
<1>5. TypeOK'
  BY <1>0, <1>3, <1>4, FramingAssumption DEF FramingInv, TypeOK
<1>6. FreshLocals'
  BY <1>0, <1>4 DEF FramingInv, FreshLocals
<1>7. Synced'
  <2> SUFFICES ASSUME ~skewed PROVE \E R : Streams(R, pending') /\ Reading(R)'
    BY <1>0 DEF Synced
  <2>1. PICK S : Streams(S, pending) /\ Reading(S)
    BY DEF FramingInv, Synced
  <2>2. pending' = Append(pending, f)
    BY <1>0
  <2>3. PICK R : /\ Streams(R, Append(pending, f)) /\ R[1] = S[1] \o Framed(f)
                 /\ pending # <<>> => R[2] = S[2] \o Framed(f)
    BY <1>1, <2>1, StreamsAppend
  <2>4. CASE pc # "payload" /\ count = 0 /\ buf \o wire = S[1]
    <3>1. Reading(R)'
      BY <1>0, <1>3, <2>3, <2>4 DEF Reading, F
    <3> QED BY <2>2, <2>3, <3>1
  <2>5. ASSUME pending # <<>>
        PROVE  /\ pending' # <<>> /\ Oldest' = Oldest /\ Oldest \in Seq(Byte)
               /\ S[2] \in Seq(Byte) /\ R[2] = S[2] \o F
               /\ (Oldest \o S[2]) \o F = Oldest \o R[2] /\ Oldest \o S[2] \in Seq(Byte)
    <3>1. Oldest \in Seq(Byte) /\ S[2] \in Seq(Byte) /\ Oldest \o S[2] \in Seq(Byte)
      BY <2>1, <2>5, OldestType DEF FramingInv
    <3>2. pending' # <<>> /\ Oldest' = Oldest
      BY <1>1, <2>2, <2>5 DEF Oldest
    <3>3. R[2] = S[2] \o F
      BY <2>3, <2>5 DEF F
    <3>4. (Oldest \o S[2]) \o F = Oldest \o (S[2] \o F)
      BY <1>2, <3>1, Associative
    <3> QED BY <3>1, <3>2, <3>3, <3>4
  <2>6. ASSUME pc = "length", pending # <<>>, NEW m, NEW c, InLength(S, m, c)
        PROVE  Reading(R)'
    <3>1. m \in Nat /\ buf \o wire = Encode[m] \o (Oldest \o S[2])
      BY <2>6 DEF InLength
    <3>2. Encode[m] \in Seq(Byte)
      BY <3>1, EncodeType
    <3>3. (Encode[m] \o (Oldest \o S[2])) \o F = Encode[m] \o ((Oldest \o S[2]) \o F)
      BY <1>2, <2>5, <2>6, <3>2, Associative
    <3>4. buf' \o wire' = Encode[m] \o (Oldest \o R[2])
      BY <1>3, <2>5, <2>6, <3>1, <3>3
    <3>5. InLength(R, m, c)'
      BY <1>0, <2>5, <2>6, <3>4 DEF InLength
    <3> QED BY <1>0, <2>5, <2>6, <3>5 DEF Reading
  <2>7. ASSUME pc = "payload", pending # <<>>, InPayload(S)
        PROVE  Reading(R)'
    <3>1. buf' \o wire' = Oldest \o R[2]
      BY <1>3, <2>5, <2>7 DEF InPayload
    <3>2. InPayload(R)'
      BY <1>0, <2>5, <2>7, <3>1 DEF InPayload
    <3> QED BY <1>0, <2>5, <2>7, <3>2 DEF Reading
  <2>8. Reading(R)'
    BY <1>0, <2>1, <2>4, <2>6, <2>7, <1>3, <2>3 DEF Reading, F
  <2> QED BY <2>2, <2>3, <2>8
<1> QED BY <1>5, <1>6, <1>7 DEF FramingInv

\* Time-outs and cancellations, between two frames or inside one.
LEMMA StopInv == FramingInv /\ (TimeOut \/ Cancel) => FramingInv'
<1> SUFFICES ASSUME FramingInv, TimeOut \/ Cancel PROVE FramingInv'
  OBVIOUS
<1>1. /\ pc # "out" /\ UNCHANGED <<wire, buf, sent>> /\ orphan' \in BOOLEAN
      /\ wire \in Seq(Byte) /\ buf \in Seq(Byte)
      /\ IF Inside THEN Slip ELSE Return(NoFrame) /\ UNCHANGED <<pending, skewed>>
  BY DEF TimeOut, Cancel, FramingInv, TypeOK
<1>2. CASE Inside
  BY <1>1, <1>2, SlipInv
<1>3. CASE ~Inside
  BY <1>1, <1>3, QuitInv
<1> QED BY <1>2, <1>3

\* What a read left running takes is gone from the wire.
LEMMA SuffixType ==
    ASSUME NEW s \in Seq(Byte), NEW r \in Suffixes(s)
    PROVE  r \in Seq(Byte)
<1>1. PICK i \in 1..(Len(s) + 1) : r = SubSeq(s, i, Len(s))
  BY DEF Suffixes
<1> QED BY <1>1

\* The read left running by a cancelled call.
LEMMA OrphanInv == FramingInv /\ OrphanRead => FramingInv'
<1> SUFFICES ASSUME FramingInv, OrphanRead PROVE FramingInv'
  OBVIOUS
<1>0. /\ UNCHANGED <<buf, pc, value, count, weight, need, taken, sent>> /\ orphan' = FALSE
      /\ wire' \in Suffixes(wire)
      /\ \/ wire' = wire /\ UNCHANGED <<pending, skewed>>
         \/ pending' = <<>> /\ skewed' = TRUE
  BY DEF OrphanRead, readVars
<1>1. wire' \in Seq(Byte)
  BY <1>0, SuffixType DEF FramingInv, TypeOK
<1>2. CASE wire' = wire /\ UNCHANGED <<pending, skewed>>
  <2>1. TypeOK' /\ FreshLocals'
    BY <1>0, <1>1, <1>2 DEF FramingInv, TypeOK, FreshLocals
  <2>2. Synced'
    BY <1>0, <1>2 DEF FramingInv, Synced, Reading, InLength, InPayload, Oldest
  <2> QED BY <2>1, <2>2 DEF FramingInv
<1>3. CASE pending' = <<>> /\ skewed' = TRUE
  <2>1. TypeOK'
    <3>1. <<>> \in Seq(Payloads)
      BY EmptySeq
    <3>2. pending' \in Seq(Payloads)
      BY <1>3, <3>1
    <3>3. skewed' \in BOOLEAN /\ orphan' \in BOOLEAN
      BY <1>0, <1>3, Zenon
    <3> QED BY <1>0, <1>1, <3>2, <3>3 DEF FramingInv, TypeOK
  <2>2. FreshLocals'
    BY <1>0, <1>3 DEF FramingInv, TypeOK, FreshLocals
  <2>3. Synced'
    BY <1>3 DEF Synced
  <2> QED BY <2>1, <2>2, <2>3 DEF FramingInv
<1> QED BY <1>0, <1>2, <1>3

\* The drain before a probe: an empty wire is in step again.
LEMMA DrainInv == FramingInv /\ Drain => FramingInv'
<1> SUFFICES ASSUME FramingInv, Drain PROVE FramingInv'
  OBVIOUS
<1>0. /\ UNCHANGED <<pc, value, count, weight, need, orphan, taken, sent>>
      /\ pc = "out" /\ buf' = <<>> /\ wire' \in Suffixes(wire)
      /\ skewed' = (wire' # <<>>) /\ pending' = <<>>
  BY DEF Drain, readVars
<1>1. wire' \in Seq(Byte)
  BY <1>0, SuffixType DEF FramingInv, TypeOK
<1>2. TypeOK'
  BY <1>0, <1>1 DEF FramingInv, TypeOK
<1>3. FreshLocals'
  BY <1>0 DEF FramingInv, TypeOK, FreshLocals
<1>4. Synced'
  <2> SUFFICES ASSUME ~skewed' PROVE \E S : Streams(S, pending') /\ Reading(S)'
    BY DEF Synced
  <2>1. PICK S : Streams(S, <<>>) /\ S[1] = <<>>
    BY StreamsEmpty
  <2>2. wire' = <<>> /\ buf' \o wire' = <<>>
    BY <1>0, ConcatEmptySeq, EmptySeq
  <2>3. pc' # "payload" /\ count' = 0
    BY <1>0 DEF FramingInv, FreshLocals
  <2>4. Reading(S)'
    BY <2>1, <2>2, <2>3 DEF Reading
  <2> QED BY <1>0, <2>1, <2>4
<1> QED BY <1>2, <1>3, <1>4 DEF FramingInv

-----------------------------------------------------------------------------
(* Reading a frame. *)

\* In step, a byte in the buffer at the length belongs to the oldest frame's.
LEMMA LengthIsOldest ==
    ASSUME FramingInv, ~skewed, pc = "length", buf # <<>>
    PROVE  /\ pending # <<>>
           /\ \E S, m, c : Streams(S, pending) /\ InLength(S, m, c)
<1>1. PICK S : Streams(S, pending) /\ Reading(S)
  BY DEF FramingInv, Synced
<1>2. CASE pending # <<>> /\ \E m, c : InLength(S, m, c)
  BY <1>1, <1>2
<1>3. CASE count = 0 /\ buf \o wire = S[1]
  <2>1. buf \in Seq(Byte) /\ wire \in Seq(Byte) /\ pending \in Seq(Payloads)
    BY DEF FramingInv, TypeOK
  <2>2. buf \o wire # <<>>
    BY <2>1, ConcatEqualIffEmpty
  <2>3. pending # <<>>
    BY <1>1, <1>3, <2>2, StreamsEmpty
  <2>4. /\ Len(Oldest) \in Nat /\ Encode[Len(Oldest)] \in Seq(Byte)
        /\ S[1] = Encode[Len(Oldest)] \o (Oldest \o S[2])
    BY <1>1, <2>3, OldestType DEF FramingInv
  <2>5. value = 0 /\ weight = 1
    BY <1>3 DEF FramingInv, FreshLocals
  <2>6. <<>> \in Seq(Byte) /\ Len(<<>>) = 0 /\ <<>> \o Encode[Len(Oldest)] = Encode[Len(Oldest)]
    BY <2>4, ConcatEmptySeq, EmptySeq
  <2>7. value + Len(Oldest) * weight = Len(Oldest)
    BY <2>4, <2>5
  <2>8. InLength(S, Len(Oldest), <<>>)
    BY <1>3, <2>4, <2>6, <2>7 DEF InLength
  <2> QED BY <1>1, <2>3, <2>8
<1> QED BY <1>1, <1>2, <1>3 DEF Reading

\* The last byte of a length completes it.
LEMMA LastByte ==
    ASSUME FramingInv, pending # <<>>, buf # <<>>,
           NEW S, Streams(S, pending), NEW m, NEW c, InLength(S, m, c), m < Base
    PROVE  /\ Head(buf) < Base /\ Shifted(Head(buf)) = Len(Oldest)
           /\ Tail(buf) \o wire = Oldest \o S[2]
           /\ Len(Encode[Len(Oldest)]) = count + 1
<1>1. /\ m \in Nat /\ c \in Seq(Byte) /\ Len(c) = count
      /\ value + m * weight = Len(Oldest)
      /\ Encode[Len(Oldest)] = c \o Encode[m]
      /\ buf \o wire = Encode[m] \o (Oldest \o S[2])
  BY DEF InLength
<1>2. Encode[m] = <<m>>
  BY <1>1, EncodeDef DEF EncodeStep
<1>9. m \in Byte
  BY <1>1, FramingAssumption DEF Byte
<1>3. buf \in Seq(Byte) /\ wire \in Seq(Byte) /\ Oldest \o S[2] \in Seq(Byte)
  BY OldestType DEF FramingInv, TypeOK
<1>10. buf \o wire = <<m>> \o (Oldest \o S[2])
  BY <1>1, <1>2
<1>4. Head(buf) = m /\ Tail(buf) \o wire = Oldest \o S[2]
  <2>1. Begins(buf, wire, m, Oldest \o S[2])
    BY <1>3, <1>9, <1>10 DEF Begins
  <2> QED BY <2>1, DropByte
<1>5. m % Base = m
  BY <1>1, Digits
<1>6. Shifted(Head(buf)) = Len(Oldest)
  BY <1>1, <1>4, <1>5 DEF Shifted
<1>7. <<m>> \in Seq(Byte) /\ Len(<<m>>) = 1
  BY <1>9
<1>8. Len(c \o <<m>>) = Len(c) + 1
  BY <1>1, <1>7, ConcatProperties
<1> QED BY <1>1, <1>2, <1>4, <1>6, <1>8

\* A byte with the continuation bit adds a digit and leaves the rest to come.
LEMMA MiddleByte ==
    ASSUME FramingInv, pending # <<>>, buf # <<>>,
           NEW S, Streams(S, pending), NEW m, NEW c, InLength(S, m, c), ~(m < Base)
    PROVE  /\ ~(Head(buf) < Base) /\ m \div Base \in Nat
           /\ Shifted(Head(buf)) + (m \div Base) * (weight * Base) = Len(Oldest)
           /\ Tail(buf) \o wire = Encode[m \div Base] \o (Oldest \o S[2])
           /\ \E d \in Seq(Byte) : /\ Len(d) = count + 1
                                   /\ Encode[Len(Oldest)] = d \o Encode[m \div Base]
<1> DEFINE r == m % Base
           q == m \div Base
           b == Base + r
<1>1. /\ m \in Nat /\ c \in Seq(Byte) /\ Len(c) = count
      /\ value + m * weight = Len(Oldest)
      /\ Encode[Len(Oldest)] = c \o Encode[m]
      /\ buf \o wire = Encode[m] \o (Oldest \o S[2])
  BY DEF InLength
<1>2. Encode[m] = <<b>> \o Encode[q]
  BY <1>1, EncodeDef DEF EncodeStep
<1>3. q \in Nat /\ r \in Nat /\ r < Base /\ Base \in Nat
  BY <1>1, Digits
<1>4. b \in Byte /\ ~(b < Base) /\ b % Base = r
  <2> HIDE DEF r
  <2>1. b \in Byte /\ ~(b < Base)
    BY <1>3 DEF Byte
  <2>2. b % Base = r
    BY <1>3, DigitOfByte
  <2> QED BY <2>1, <2>2
<1>5. /\ buf \in Seq(Byte) /\ wire \in Seq(Byte) /\ Oldest \o S[2] \in Seq(Byte)
      /\ value \in Nat /\ weight \in Nat
  BY OldestType DEF FramingInv, TypeOK
<1>6. (value + r * weight) + q * (weight * Base) = value + m * weight
  BY <1>1, <1>5, NextDigit
<1> HIDE DEF b, q, r
<1>7. Encode[q] \in Seq(Byte) /\ <<b>> \in Seq(Byte) /\ Len(<<b>>) = 1
  BY <1>3, <1>4, EncodeType
<1>8. (<<b>> \o Encode[q]) \o (Oldest \o S[2]) = <<b>> \o (Encode[q] \o (Oldest \o S[2]))
  BY <1>5, <1>7, Associative
<1>9. Encode[q] \o (Oldest \o S[2]) \in Seq(Byte)
  BY <1>5, <1>7, ConcatProperties
<1>14. buf \o wire = <<b>> \o (Encode[q] \o (Oldest \o S[2]))
  BY <1>1, <1>2, <1>8
<1>10. Head(buf) = b /\ Tail(buf) \o wire = Encode[q] \o (Oldest \o S[2])
  <2>1. Begins(buf, wire, b, Encode[q] \o (Oldest \o S[2]))
    BY <1>4, <1>5, <1>9, <1>14 DEF Begins
  <2> QED BY <2>1, DropByte
<1>11. Shifted(Head(buf)) = value + r * weight
  BY <1>4, <1>10 DEF Shifted
<1>12. /\ c \o <<b>> \in Seq(Byte) /\ Len(c \o <<b>>) = count + 1
       /\ Encode[Len(Oldest)] = (c \o <<b>>) \o Encode[q]
  <2>1. (c \o <<b>>) \o Encode[q] = c \o (<<b>> \o Encode[q])
    BY <1>1, <1>7, Associative
  <2> QED BY <1>1, <1>2, <1>7, <2>1, ConcatProperties
<1>13. Shifted(Head(buf)) + q * (weight * Base) = Len(Oldest)
  BY <1>1, <1>6, <1>11
<1> QED BY <1>3, <1>4, <1>10, <1>12, <1>13 DEF q

\* In step, a byte without the continuation bit ends the oldest frame's length.
LEMMA LengthEnds ==
    ASSUME FramingInv, ~skewed, pc = "length", buf # <<>>, Head(buf) < Base
    PROVE  /\ pending # <<>> /\ Shifted(Head(buf)) = Len(Oldest)
           /\ \E S : /\ Streams(S, pending)
                     /\ Tail(buf) \o wire = Oldest \o S[2]
                     /\ Len(Encode[Len(Oldest)]) = count + 1
<1>1. pending # <<>>
  BY LengthIsOldest
<1>2. PICK S, m, c : Streams(S, pending) /\ InLength(S, m, c)
  BY LengthIsOldest
<1>3. m < Base
  <2> SUFFICES ASSUME ~(m < Base) PROVE FALSE
    OBVIOUS
  <2>1. ~(Head(buf) < Base)
    BY <1>1, <1>2, MiddleByte
  <2> QED BY <2>1
<1>4. /\ Shifted(Head(buf)) = Len(Oldest) /\ Tail(buf) \o wire = Oldest \o S[2]
      /\ Len(Encode[Len(Oldest)]) = count + 1
  BY <1>1, <1>2, <1>3, LastByte
<1> QED BY <1>1, <1>2, <1>4

\* The four ways a byte of a length is taken.
LEMMA LengthByteCases ==
    ASSUME LengthByte
    PROVE  LET b == Head(buf)
               v == Shifted(b)
           IN  \/ /\ b >= Base /\ count + 1 < MaxBytes
                  /\ value' = v /\ count' = count + 1 /\ weight' = weight * Base
                  /\ UNCHANGED <<pc, need, taken, pending, skewed>>
               \/ /\ b < Base /\ v \in 1..MaxLen
                  /\ pc' = "payload" /\ need' = v
                  /\ UNCHANGED <<value, count, weight, taken, pending, skewed>>
               \/ /\ b < Base /\ v = 0 /\ ~skewed
                  /\ Return(NoFrame) /\ pending' = Tail(pending) /\ UNCHANGED skewed
               \/ Slip
<1> DEFINE b == Head(buf)
           v == Shifted(b)
<1>1. CASE b >= Base /\ count + 1 < MaxBytes
  BY <1>1 DEF LengthByte
<1>2. CASE b < Base /\ v \in 1..MaxLen
  BY <1>2 DEF LengthByte
<1>3. CASE b < Base /\ v = 0 /\ ~skewed
  BY <1>3 DEF LengthByte
<1>4. CASE /\ ~(b >= Base /\ count + 1 < MaxBytes)
           /\ ~(b < Base /\ v \in 1..MaxLen)
           /\ ~(b < Base /\ v = 0 /\ ~skewed)
  BY <1>4 DEF LengthByte
<1> QED BY <1>1, <1>2, <1>3, <1>4

\* One byte of a length.
LEMMA LengthByteInv == FramingInv /\ LengthByte => FramingInv'
<1> SUFFICES ASSUME FramingInv, LengthByte PROVE FramingInv'
  OBVIOUS
<1> DEFINE b == Head(buf)
           v == Shifted(b)
<1>0. /\ pc = "length" /\ buf # <<>> /\ buf' = Tail(buf) /\ UNCHANGED <<wire, orphan, sent>>
      /\ buf \in Seq(Byte) /\ wire \in Seq(Byte) /\ orphan \in BOOLEAN
      /\ pending \in Seq(Payloads) /\ count \in Nat /\ value \in Nat /\ weight \in Nat
  BY DEF LengthByte, FramingInv, TypeOK
<1>1. Tail(buf) \in Seq(Byte) /\ b \in Byte
  BY <1>0, HeadTailProperties
<1>2. b \in Nat /\ Base \in Nat /\ v \in Nat
  <2>1. b \in Nat /\ Base \in Nat
    BY <1>1, FramingAssumption DEF Byte
  <2>2. b % Base \in Nat
    BY <2>1, Digits
  <2> QED BY <1>0, <2>1, <2>2 DEF Shifted
<1>3. ~skewed => /\ pending # <<>>
                 /\ \E S, m, c : Streams(S, pending) /\ InLength(S, m, c)
  BY <1>0, LengthIsOldest
<1>4. CASE Slip
  BY <1>0, <1>1, <1>4, SlipInv
<1>5. CASE /\ b >= Base /\ count + 1 < MaxBytes
           /\ value' = v /\ count' = count + 1 /\ weight' = weight * Base
           /\ UNCHANGED <<pc, need, taken, pending, skewed>>
  <2> HIDE DEF v
  <2>1. TypeOK'
    <3>1. weight' \in Nat /\ value' \in Nat /\ count' \in 0..(MaxBytes - 1)
      BY <1>0, <1>2, <1>5, FramingAssumption
    <3> QED BY <1>0, <1>1, <1>5, <3>1 DEF FramingInv, TypeOK
  <2>2. FreshLocals'
    BY <1>0, <1>5 DEF FramingInv, FreshLocals
  <2>3. Synced'
    <3> SUFFICES ASSUME ~skewed PROVE \E S : Streams(S, pending) /\ Reading(S)'
      BY <1>5 DEF Synced
    <3>1. pending # <<>>
      BY <1>3
    <3>2. PICK S, m, c : Streams(S, pending) /\ InLength(S, m, c)
      BY <1>3
    <3>3. ~(m < Base)
      <4> SUFFICES ASSUME m < Base PROVE FALSE
        OBVIOUS
      <4>1. b < Base
        BY <1>0, <3>1, <3>2, LastByte
      <4> QED BY <1>2, <1>5, <4>1
    <3>4. /\ m \div Base \in Nat
          /\ v + (m \div Base) * (weight * Base) = Len(Oldest)
          /\ Tail(buf) \o wire = Encode[m \div Base] \o (Oldest \o S[2])
          /\ \E d \in Seq(Byte) : /\ Len(d) = count + 1
                                  /\ Encode[Len(Oldest)] = d \o Encode[m \div Base]
      BY <1>0, <3>1, <3>2, <3>3, MiddleByte DEF v
    <3>5. PICK d \in Seq(Byte) : /\ Len(d) = count + 1
                                 /\ Encode[Len(Oldest)] = d \o Encode[m \div Base]
      BY <3>4
    <3> DEFINE q == m \div Base
    <3>6. /\ q \in Nat /\ v + q * (weight * Base) = Len(Oldest)
          /\ Tail(buf) \o wire = Encode[q] \o (Oldest \o S[2])
          /\ Encode[Len(Oldest)] = d \o Encode[q]
      BY <3>4, <3>5
    <3> HIDE DEF q
    <3>7. Oldest' = Oldest
      BY <1>5 DEF Oldest
    <3>8. InLength(S, q, d)'
      BY <1>0, <1>5, <3>5, <3>6, <3>7 DEF InLength
    <3>9. Reading(S)'
      BY <1>0, <1>5, <3>1, <3>8 DEF Reading
    <3> QED BY <3>2, <3>9
  <2> QED BY <2>1, <2>2, <2>3 DEF FramingInv
<1>6. ASSUME ~skewed, b < Base
      PROVE  /\ pending # <<>> /\ v = Len(Oldest)
             /\ \E S : /\ Streams(S, pending)
                       /\ Tail(buf) \o wire = Oldest \o S[2]
                       /\ Len(Encode[Len(Oldest)]) = count + 1
  BY <1>0, <1>6, LengthEnds
<1>7. CASE /\ b < Base /\ v \in 1..MaxLen
           /\ pc' = "payload" /\ need' = v
           /\ UNCHANGED <<value, count, weight, taken, pending, skewed>>
  <2>1. TypeOK'
    BY <1>0, <1>1, <1>7 DEF FramingInv, TypeOK
  <2>2. FreshLocals'
    BY <1>0, <1>7 DEF FramingInv, FreshLocals
  <2>3. Synced'
    <3> SUFFICES ASSUME ~skewed PROVE \E S : Streams(S, pending) /\ Reading(S)'
      BY <1>7 DEF Synced
    <3> HIDE DEF v, b
    <3>1. PICK S : /\ Streams(S, pending)
                   /\ Tail(buf) \o wire = Oldest \o S[2]
                   /\ Len(Encode[Len(Oldest)]) = count + 1
      BY <1>6, <1>7
    <3>2. pending # <<>> /\ v = Len(Oldest)
      BY <1>6, <1>7
    <3>3. Oldest' = Oldest
      BY <1>7 DEF Oldest
    <3>4. InPayload(S)'
      BY <1>0, <1>7, <3>1, <3>2, <3>3 DEF InPayload
    <3>5. Reading(S)'
      BY <1>7, <3>2, <3>4 DEF Reading
    <3> QED BY <3>1, <3>5
  <2> QED BY <2>1, <2>2, <2>3 DEF FramingInv
<1>8. CASE /\ b < Base /\ v = 0 /\ ~skewed
           /\ Return(NoFrame) /\ pending' = Tail(pending) /\ UNCHANGED skewed
  <2> HIDE DEF v, b
  <2>1. PICK S : Streams(S, pending) /\ Tail(buf) \o wire = Oldest \o S[2]
    BY <1>6, <1>8
  <2>2. pending # <<>> /\ Len(Oldest) = 0
    BY <1>6, <1>8
  <2>3. /\ pc' = "out" /\ value' = 0 /\ count' = 0 /\ weight' = 1 /\ need' = 0
        /\ taken' = NoFrame
    BY <1>8 DEF Return
  <2>4. pending' \in Seq(Payloads) /\ Len(pending') = Len(pending) - 1 /\ Len(pending) \in Nat
    BY <1>0, <1>8, <2>2, HeadTailProperties
  <2>5. TypeOK'
    BY <1>0, <1>1, <1>8, <2>3, <2>4, FramingAssumption DEF FramingInv, TypeOK
  <2>6. FreshLocals'
    BY <1>0, <1>8, <2>3, <2>4 DEF FramingInv, FreshLocals, TypeOK
  <2>7. Synced'
    <3>1. Oldest \in Seq(Byte) /\ S[2] \in Seq(Byte)
      BY <2>1, <2>2, OldestType DEF FramingInv
    <3>2. Oldest = <<>>
      BY <2>2, <3>1, EmptySeq
    <3>3. Oldest \o S[2] = S[2]
      BY <3>1, <3>2, ConcatEmptySeq
    <3>4. PICK R : Streams(R, Tail(pending)) /\ R[1] = S[2]
      BY <1>0, <2>1, <2>2, StreamsTail
    <3>5. Reading(R)'
      BY <1>0, <2>1, <2>3, <3>3, <3>4 DEF Reading
    <3> QED BY <1>8, <3>4, <3>5 DEF Synced
  <2> QED BY <2>5, <2>6, <2>7 DEF FramingInv
<1> QED BY <1>4, <1>5, <1>7, <1>8, LengthByteCases

\* Everything s and t hold begins with u, which s holds whole.
Holds(s, t, u, v) ==
    /\ s \in Seq(Byte) /\ t \in Seq(Byte) /\ u \in Seq(Byte) /\ v \in Seq(Byte)
    /\ s \o t = u \o v /\ Len(s) >= Len(u)

\* Taking it out.
LEMMA TakeOut ==
    ASSUME NEW s, NEW t, NEW u, NEW v, Holds(s, t, u, v)
    PROVE  /\ SubSeq(s, 1, Len(u)) = u
           /\ SubSeq(s, Len(u) + 1, Len(s)) \o t = v
<1>1. /\ s \in Seq(Byte) /\ t \in Seq(Byte) /\ u \in Seq(Byte) /\ v \in Seq(Byte)
      /\ s \o t = u \o v /\ Len(s) >= Len(u)
  BY DEF Holds
<1> QED BY <1>1, DropPrefix, Zenon

\* In step, the payload that is taken is the oldest frame, whole.
LEMMA PayloadIsOldest ==
    ASSUME FramingInv, Payload, ~skewed
    PROVE  /\ pending # <<>> /\ SubSeq(buf, 1, need) = Head(pending)
           /\ \E S : /\ Streams(S, pending)
                     /\ SubSeq(buf, need + 1, Len(buf)) \o wire = S[2]
<1>0. pc = "payload" /\ Len(buf) >= need /\ buf \in Seq(Byte) /\ wire \in Seq(Byte)
  BY DEF Payload, FramingInv, TypeOK
<1>1. PICK S : Streams(S, pending) /\ Reading(S)
  BY DEF FramingInv, Synced
<1>2. pending # <<>> /\ need = Len(Oldest) /\ buf \o wire = Oldest \o S[2]
  BY <1>0, <1>1 DEF Reading, InPayload
<1>3. Oldest \in Seq(Byte) /\ Oldest = Head(pending) /\ S[2] \in Seq(Byte)
  BY <1>1, <1>2, OldestType DEF FramingInv
<1>4. Holds(buf, wire, Oldest, S[2])
  BY <1>0, <1>2, <1>3 DEF Holds
<1>5. /\ SubSeq(buf, 1, Len(Oldest)) = Oldest
      /\ SubSeq(buf, Len(Oldest) + 1, Len(buf)) \o wire = S[2]
  BY <1>4, TakeOut
<1> QED BY <1>1, <1>2, <1>3, <1>5

\* The payload is complete.
LEMMA PayloadInv == FramingInv /\ Payload => FramingInv'
<1> SUFFICES ASSUME FramingInv, Payload PROVE FramingInv'
  OBVIOUS
<1>0. /\ pc = "payload" /\ Len(buf) >= need /\ buf' = SubSeq(buf, need + 1, Len(buf))
      /\ pending' = (IF skewed THEN <<>> ELSE Tail(pending))
      /\ UNCHANGED <<wire, orphan, sent, skewed>>
      /\ buf \in Seq(Byte) /\ need \in Nat /\ pending \in Seq(Payloads)
      /\ skewed \in BOOLEAN
  BY FramingAssumption DEF Payload, FramingInv, TypeOK
<1>1. /\ pc' = "out" /\ value' = 0 /\ count' = 0 /\ weight' = 1 /\ need' = 0
      /\ taken' \in {SubSeq(buf, 1, need), NoFrame}
  BY DEF Payload, Return
<1>2. buf' \in Seq(Byte) /\ SubSeq(buf, 1, need) \in Seq(Byte)
  BY <1>0
<1>3. pending' \in Seq(Payloads) /\ Len(pending') <= sent
  <2>1. Len(pending) <= sent /\ Len(pending) \in Nat /\ sent \in Nat
    BY <1>0 DEF FramingInv, FreshLocals, TypeOK
  <2>2. CASE skewed
    BY <1>0, <2>1, <2>2, EmptySeq
  <2>3. CASE ~skewed
    <3>1. pending # <<>>
      BY <2>3, PayloadIsOldest
    <3>2. Tail(pending) \in Seq(Payloads) /\ Len(Tail(pending)) = Len(pending) - 1
      BY <1>0, <3>1, HeadTailProperties
    <3> QED BY <1>0, <2>1, <2>3, <3>2
  <2> QED BY <2>2, <2>3
<1>4. TypeOK'
  <2>1. skewed' \in BOOLEAN /\ orphan' \in BOOLEAN
    BY <1>0, Zenon DEF FramingInv, TypeOK
  <2>2. taken' \in Seq(Byte) \cup {NoFrame}
    BY <1>1, <1>2
  <2>3. /\ pc' \in {"out", "length", "payload"}
        /\ value' \in Nat /\ count' \in 0..(MaxBytes - 1) /\ weight' \in Nat
        /\ need' \in 0..MaxLen
    BY <1>1, FramingAssumption
  <2>4. wire' \in Seq(Byte) /\ sent' \in 0..MaxSent
    BY <1>0 DEF FramingInv, TypeOK
  <2> QED BY <1>2, <1>3, <2>1, <2>2, <2>3, <2>4 DEF TypeOK
<1>5. FreshLocals'
  BY <1>0, <1>1, <1>3 DEF FreshLocals
<1>6. Synced'
  <2> SUFFICES ASSUME ~skewed PROVE \E R : Streams(R, Tail(pending)) /\ Reading(R)'
    BY <1>0 DEF Synced
  <2>1. PICK S : Streams(S, pending) /\ SubSeq(buf, need + 1, Len(buf)) \o wire = S[2]
    BY PayloadIsOldest
  <2>2. pending # <<>>
    BY PayloadIsOldest
  <2>3. PICK R : Streams(R, Tail(pending)) /\ R[1] = S[2]
    BY <1>0, <2>1, <2>2, StreamsTail
  <2>4. Reading(R)'
    BY <1>0, <1>1, <2>1, <2>3 DEF Reading
  <2> QED BY <2>3, <2>4
<1> QED BY <1>4, <1>5, <1>6 DEF FramingInv

-----------------------------------------------------------------------------
(* The theorems. *)

\* Initially nothing has been sent or read.
LEMMA InitInv == Init => FramingInv
<1> SUFFICES ASSUME Init PROVE FramingInv
  OBVIOUS
<1>1. TypeOK
  <2>1. wire \in Seq(Byte) /\ buf \in Seq(Byte) /\ pending \in Seq(Payloads)
    BY EmptySeq DEF Init
  <2>2. orphan \in BOOLEAN /\ skewed \in BOOLEAN /\ taken \in Seq(Byte) \cup {NoFrame}
    BY Zenon DEF Init
  <2>3. /\ pc \in {"out", "length", "payload"}
        /\ value \in Nat /\ count \in 0..(MaxBytes - 1) /\ weight \in Nat
        /\ need \in 0..MaxLen /\ sent \in 0..MaxSent
    BY FramingAssumption DEF Init
  <2> QED BY <2>1, <2>2, <2>3 DEF TypeOK
<1>2. FreshLocals
  BY DEF Init, FreshLocals
<1>3. Synced
  <2>1. PICK S : Streams(S, <<>>) /\ S[1] = <<>>
    BY StreamsEmpty
  <2>2. buf \o wire = <<>>
    BY ConcatEmptySeq, EmptySeq DEF Init
  <2>3. Reading(S)
    BY <2>1, <2>2 DEF Init, Reading
  <2> QED BY <2>1, <2>3 DEF Init, Synced
<1> QED BY <1>1, <1>2, <1>3 DEF FramingInv

\* Every step keeps the reader in step, or says that it is not.
LEMMA NextInv == FramingInv /\ [Next]_vars => FramingInv'
<1> SUFFICES ASSUME FramingInv, [Next]_vars PROVE FramingInv'
  OBVIOUS
<1>1. CASE UNCHANGED vars
  <2>1. /\ UNCHANGED <<wire, buf, pc, value, count, weight, need, orphan, taken, sent>>
        /\ UNCHANGED <<pending, skewed>>
    BY <1>1 DEF vars, readVars
  <2>2. TypeOK' /\ FreshLocals'
    BY <2>1 DEF FramingInv, TypeOK, FreshLocals
  <2>3. Synced'
    BY <2>1 DEF FramingInv, Synced, Reading, InLength, InPayload, Oldest
  <2> QED BY <2>2, <2>3 DEF FramingInv
<1>2. CASE Next
  BY <1>2, DevSendInv, BeginInv, ChunkInv, LengthByteInv, PayloadInv, StopInv, OrphanInv,
     DrainInv DEF Next
<1> QED BY <1>1, <1>2

\* Types, fresh locals and the alignment of the stream hold in every state.
THEOREM FramingInvariant == Spec => []FramingInv
BY InitInv, NextInv, PTL DEF Spec

\* The bytes, the locals of _read_varint() and _receive_main_message() and the history
\* keep their types: a varint never exceeds its byte limit, a payload never the cap.
THEOREM FramingTypes == Spec => []TypeOK
<1>1. FramingInv => TypeOK
  BY DEF FramingInv
<1> QED BY <1>1, FramingInvariant, PTL

\* However receive() cuts the stream into chunks and whatever times out between two
\* frames, buffer and wire hold exactly what is left of the pending frames, and the
\* length decoded is the oldest frame's.
THEOREM StaysInSync == Spec => []InSync
BY SyncedInSync, FramingInvariant, PTL

-----------------------------------------------------------------------------
(* The queue of frames. *)

\* Where a receive is, as the queue sees it.
LEMMA AtCases ==
    ASSUME FramingInv
    PROVE  /\ pc = "out" => At = "out"
           /\ pc # "out" /\ Inside => At = "inside"
           /\ pc # "out" /\ ~Inside => At = "waiting"
           /\ Inside <=> (pc = "payload" \/ count # 0)
BY DEF FramingInv, TypeOK, At, Inside

\* The reader's locals, and so where a receive is, are untouched.
LEMMA AtUnchanged ==
    ASSUME UNCHANGED <<pc, count>>
    PROVE  At' = At
BY DEF At, Inside

\* _receive_main_message() returns: there is no receive.
LEMMA AtReturn ==
    ASSUME NEW r, Return(r)
    PROVE  At' = "out" /\ taken' = r
BY DEF Return, At

\* A receive that times out or is cancelled is a miss between frames, a slip inside one.
LEMMA StopIsMiss ==
    ASSUME FramingInv, TimeOut \/ Cancel
    PROVE  Channel!Miss \/ Channel!Slip
<1>1. /\ IF Inside THEN Slip ELSE Return(NoFrame) /\ UNCHANGED <<pending, skewed>>
      /\ pc # "out" /\ orphan' \in {orphan, TRUE}
  BY DEF TimeOut, Cancel
<1>2. CASE Inside
  <2>1. At = "inside" /\ At' = "out" /\ taken' = NoFrame
    BY <1>1, <1>2, AtCases, AtReturn DEF Slip
  <2> QED BY <1>1, <1>2, <2>1 DEF Slip, Channel!Slip
<1>3. CASE ~Inside
  <2>1. At = "waiting" /\ At' = "out" /\ taken' = NoFrame
    BY <1>1, <1>3, AtCases, AtReturn
  <2> QED BY <1>1, <1>3, <2>1 DEF Channel!Miss
<1> QED BY <1>2, <1>3

\* In step, a length that is given up at its first byte is that of a refused frame.
LEMMA GivenUpIsRefused ==
    ASSUME FramingInv, LengthByte, ~skewed, count = 0,
           ~(Head(buf) >= Base /\ count + 1 < MaxBytes),
           ~(Head(buf) < Base /\ Shifted(Head(buf)) \in 0..MaxLen)
    PROVE  pending # <<>> /\ Head(pending) \in Refused
<1>0. /\ pc = "length" /\ buf # <<>> /\ buf \in Seq(Byte) /\ MaxBytes \in Nat
      /\ MaxLen \in Nat /\ Base \in Nat /\ pending \in Seq(Payloads)
  BY FramingAssumption DEF LengthByte, FramingInv, TypeOK
<1>1. pending # <<>>
  BY <1>0, LengthIsOldest
<1>2. PICK S, m, c : Streams(S, pending) /\ InLength(S, m, c)
  BY <1>0, LengthIsOldest
<1>3. /\ Oldest = Head(pending) /\ Len(Oldest) \in Nat
      /\ Encode[Len(Oldest)] \in Seq(Byte)
  BY <1>1, <1>2, OldestType DEF FramingInv
<1>7. Head(pending) \in Payloads
  BY <1>0, <1>1, HeadTailProperties
<1>4. Head(buf) \in Nat
  <2>1. Head(buf) \in Byte
    BY <1>0, HeadTailProperties
  <2> QED BY <1>0, <2>1 DEF Byte
<1>5. CASE Head(buf) < Base
  <2>1. Shifted(Head(buf)) = Len(Oldest)
    BY <1>0, <1>5, LengthEnds
  <2>2. Len(Oldest) > MaxLen
    BY <1>0, <1>3, <1>5, <2>1
  <2> QED BY <1>1, <1>3, <1>7, <2>2 DEF Refused
<1>6. CASE ~(Head(buf) < Base)
  <2>1. MaxBytes <= 1
    BY <1>0, <1>4, <1>6
  <2>2. ~(m < Base)
    <3> SUFFICES ASSUME m < Base PROVE FALSE
      OBVIOUS
    <3>1. Head(buf) < Base
      BY <1>0, <1>1, <1>2, LastByte
    <3> QED BY <1>6, <3>1
  <2> DEFINE q == m \div Base
  <2>3. q \in Nat /\ \E d \in Seq(Byte) : Len(d) = count + 1 /\ Encode[Len(Oldest)] = d \o Encode[q]
    BY <1>0, <1>1, <1>2, <2>2, MiddleByte
  <2> HIDE DEF q
  <2>4. PICK d \in Seq(Byte) : Len(d) = 1 /\ Encode[Len(Oldest)] = d \o Encode[q]
    BY <2>3
  <2>5. Encode[q] \in Seq(Byte) /\ Len(Encode[q]) > 0
    <3>1. Encode[q] \in Seq(Byte) /\ Encode[q] # <<>>
      BY <2>3, EncodeType
    <3> QED BY <3>1, EmptySeq
  <2>6. Len(Encode[Len(Oldest)]) = 1 + Len(Encode[q])
    <3>1. Len(d \o Encode[q]) = Len(d) + Len(Encode[q])
      BY <2>4, <2>5, ConcatProperties
    <3> QED BY <2>4, <3>1
  <2>7. Len(Encode[Len(Oldest)]) > MaxBytes
    BY <1>0, <2>1, <2>5, <2>6
  <2> QED BY <1>1, <1>3, <1>7, <2>7 DEF Refused
<1> QED BY <1>5, <1>6

\* A frame whose length was read whole, and is within the limits, is not refused.
LEMMA WithinLimits ==
    ASSUME FramingInv, pending # <<>>, NEW S, Streams(S, pending),
           Len(Oldest) <= MaxLen, Len(Encode[Len(Oldest)]) = count + 1
    PROVE  Head(pending) \notin Refused
<1>1. Oldest = Head(pending) /\ Len(Oldest) \in Nat
  BY OldestType DEF FramingInv
<1>2. count + 1 <= MaxBytes /\ MaxBytes \in Nat /\ MaxLen \in Nat /\ count \in Nat
  BY FramingAssumption DEF FramingInv, TypeOK
<1> QED BY <1>1, <1>2 DEF Refused

\* A byte of a length opens the frame or goes on in it, gives it up, or takes an empty one.
LEMMA LengthByteIsStep ==
    ASSUME FramingInv, LengthByte
    PROVE  Channel!Open \/ Channel!Deliver \/ Channel!Slip \/ UNCHANGED Channel!vars
<1> DEFINE b == Head(buf)
           v == Shifted(b)
<1>0. /\ pc = "length" /\ buf # <<>> /\ orphan' = orphan /\ count \in Nat
      /\ At = IF count = 0 THEN "waiting" ELSE "inside"
  BY AtCases DEF LengthByte, FramingInv, TypeOK
<1>9. ~skewed => pending # <<>>
  BY <1>0, LengthIsOldest
<1>1. CASE /\ UNCHANGED <<taken, pending, skewed>>
           /\ \/ pc' = pc /\ count' = count + 1
              \/ pc' = "payload"
  <2>1. At' = "inside"
    BY <1>0, <1>1 DEF At, Inside
  <2> QED BY <1>0, <1>1, <1>9, <2>1 DEF Channel!Open, Channel!vars
<1>2. CASE /\ Slip
           /\ ~(b >= Base /\ count + 1 < MaxBytes)
           /\ ~(b < Base /\ v \in 1..MaxLen)
           /\ ~(b < Base /\ v = 0 /\ ~skewed)
  <2>1. /\ At' = "out" /\ taken' = NoFrame /\ skewed' = TRUE /\ pending' = <<>>
    BY <1>2, AtReturn DEF Slip
  <2>2. count = 0 /\ ~skewed => pending # <<>> /\ Head(pending) \in Refused
    <3> SUFFICES ASSUME count = 0, ~skewed PROVE pending # <<>> /\ Head(pending) \in Refused
      OBVIOUS
    <3> HIDE DEF v
    <3>1. ~(b < Base /\ v \in 0..MaxLen)
      <4>1. MaxLen \in Nat
        BY FramingAssumption
      <4>2. v \in 0..MaxLen => v = 0 \/ v \in 1..MaxLen
        BY <4>1
      <4> QED BY <1>2, <4>2
    <3> USE DEF v
    <3> QED BY <1>2, <3>1, GivenUpIsRefused
  <2> QED BY <1>0, <2>1, <2>2 DEF Channel!Slip
<1>3. CASE /\ b < Base /\ v = 0 /\ ~skewed
           /\ Return(NoFrame) /\ pending' = Tail(pending) /\ UNCHANGED skewed
  <2>1. pending # <<>> /\ v = Len(Oldest)
    BY <1>0, <1>3, LengthEnds
  <2>2. PICK S : Streams(S, pending) /\ Len(Encode[Len(Oldest)]) = count + 1
    BY <1>0, <1>3, LengthEnds
  <2>3. Oldest \in Seq(Byte) /\ Oldest = Head(pending)
    BY <2>1, <2>2, OldestType DEF FramingInv
  <2> HIDE DEF v, b
  <2>4. Head(pending) = <<>>
    BY <1>3, <2>1, <2>3, EmptySeq
  <2>5. Len(Oldest) <= MaxLen
    BY <1>3, <2>1, FramingAssumption
  <2>6. Head(pending) \notin Refused
    BY <2>1, <2>2, <2>5, WithinLimits
  <2>7. At' = "out" /\ taken' = NoFrame
    BY <1>3, AtReturn
  <2> QED BY <1>0, <1>3, <2>1, <2>4, <2>6, <2>7 DEF Channel!Deliver
<1>8. b < Base <=> ~(b >= Base)
  <2>1. b \in Byte
    BY HeadTailProperties DEF LengthByte, FramingInv, TypeOK
  <2>2. b \in Nat /\ Base \in Nat
    BY <2>1, FramingAssumption DEF Byte
  <2> QED BY <2>2
<1>4. CASE b >= Base /\ count + 1 < MaxBytes
  <2>1. UNCHANGED <<taken, pending, skewed>> /\ pc' = pc /\ count' = count + 1
    BY <1>4, <1>8 DEF LengthByte
  <2> QED BY <1>1, <2>1
<1>5. CASE b < Base /\ v \in 1..MaxLen
  <2>1. UNCHANGED <<taken, pending, skewed>> /\ pc' = "payload"
    BY <1>5, <1>8 DEF LengthByte
  <2> QED BY <1>1, <2>1
<1>6. CASE b < Base /\ v = 0 /\ ~skewed
  BY <1>3, <1>6, LengthByteCases DEF LengthByte
<1>7. CASE /\ ~(b >= Base /\ count + 1 < MaxBytes)
           /\ ~(b < Base /\ v \in 1..MaxLen)
           /\ ~(b < Base /\ v = 0 /\ ~skewed)
  BY <1>2, <1>7 DEF LengthByte
<1> QED BY <1>4, <1>5, <1>6, <1>7

\* A payload taken in step is the oldest frame; out of step it is anything.
LEMMA PayloadIsStep ==
    ASSUME FramingInv, Payload
    PROVE  Channel!Deliver \/ Channel!Stray
<1>0. /\ pc = "payload" /\ orphan' = orphan /\ At = "inside" /\ At' = "out"
  BY AtCases, AtReturn DEF Payload
<1>1. CASE ~skewed
  <2>1. pending # <<>> /\ SubSeq(buf, 1, need) = Head(pending)
    BY <1>1, PayloadIsOldest
  <2>2. /\ pending' = Tail(pending) /\ UNCHANGED skewed
        /\ taken' = SubSeq(buf, 1, need)
    BY <1>1 DEF Payload, Return
  <2>3. need > 0 /\ need \in Nat /\ need <= MaxLen /\ Len(buf) >= need /\ buf \in Seq(Byte)
    BY <1>0, FramingAssumption DEF Payload, FramingInv, FreshLocals, TypeOK
  <2>4. Len(SubSeq(buf, 1, need)) = need /\ SubSeq(buf, 1, need) \in Seq(Byte)
    BY <2>3
  <2>5. Head(pending) # <<>>
    <3>1. Len(Head(pending)) # 0
      BY <2>1, <2>3, <2>4
    <3> QED BY <3>1, EmptySeq
  <2>6. PICK S : Streams(S, pending) /\ InPayload(S)
    BY <1>0, <1>1 DEF FramingInv, Synced, Reading
  <2>7. Head(pending) \notin Refused
    BY <2>1, <2>3, <2>6, WithinLimits DEF InPayload
  <2> QED BY <1>0, <1>1, <2>1, <2>2, <2>5, <2>7 DEF Channel!Deliver
<1>2. CASE skewed
  <2>1. pending = <<>>
    BY <1>2 DEF FramingInv, FreshLocals
  <2>2. UNCHANGED <<pending, skewed>>
    BY <1>2, <2>1 DEF Payload
  <2> QED BY <1>0, <1>2, <2>2 DEF Channel!Stray
<1> QED BY <1>1, <1>2

\* In step, bytes on the wire are bytes of frames that are pending.
LEMMA WireIsPending ==
    ASSUME FramingInv, wire # <<>>
    PROVE  skewed \/ pending # <<>>
<1> SUFFICES ASSUME ~skewed, pending = <<>> PROVE FALSE
  OBVIOUS
<1>1. PICK S : Streams(S, pending) /\ Reading(S)
  BY DEF FramingInv, Synced
<1>2. buf \o wire = <<>>
  BY <1>1, StreamsEmpty DEF Reading
<1>3. buf \in Seq(Byte) /\ wire \in Seq(Byte)
  BY DEF FramingInv, TypeOK
<1> QED BY <1>2, <1>3, ConcatEqualIffEmpty

\* A suffix of nothing is nothing.
LEMMA NoSuffix ==
    ASSUME wire = <<>>, NEW w \in Suffixes(wire)
    PROVE  w = <<>>
<1>1. PICK i \in 1..(Len(wire) + 1) : w = SubSeq(wire, i, Len(wire))
  BY DEF Suffixes
<1>2. i = 1 /\ Len(wire) = 0
  BY <1>1
<1>3. w \in Seq(Byte) /\ Len(w) = 0
  BY <1>1, <1>2
<1> QED BY <1>3, EmptySeq

\* What is drained flushes the queue.
LEMMA DrainIsFlush ==
    ASSUME FramingInv, Drain
    PROVE  Channel!Flush
<1>1. /\ pending' = <<>> /\ taken' = taken /\ orphan' = orphan /\ skewed' = (wire' # <<>>)
      /\ pc = "out" /\ UNCHANGED <<pc, count>> /\ wire' \in Suffixes(wire)
  BY DEF Drain, readVars
<1>2. At = "out" /\ At' = At
  BY <1>1, AtCases, AtUnchanged
<1>3. wire' # <<>> => skewed \/ pending # <<>>
  BY <1>1, NoSuffix, WireIsPending
<1>4. skewed' = FALSE \/ skewed' = (skewed \/ pending # <<>>)
  BY <1>1, <1>3, Zenon DEF FramingInv, TypeOK
<1> QED BY <1>1, <1>2, <1>4 DEF Channel!Flush

\* What is taken by the read left running is stolen from the queue.
LEMMA OrphanIsSteal ==
    ASSUME FramingInv, OrphanRead
    PROVE  Channel!Steal
<1>1. /\ orphan /\ orphan' = FALSE /\ taken' = taken /\ UNCHANGED <<pc, count>>
      /\ wire' \in Suffixes(wire)
      /\ IF wire' = wire THEN UNCHANGED <<pending, skewed>>
                         ELSE pending' = <<>> /\ skewed' = TRUE
  BY DEF OrphanRead, readVars
<1>2. At' = At
  BY <1>1, AtUnchanged
<1>3. wire' # wire => skewed \/ pending # <<>>
  BY <1>1, NoSuffix, WireIsPending
<1> QED BY <1>1, <1>2, <1>3, Zenon DEF Channel!Steal

\* _receive_main_message() over receive_exact() implements a queue of whole frames: for
\* every base, byte limit, length cap and set of frames, and however receive() cuts the
\* stream, a receive in step returns the oldest frame unchanged or nothing, a frame
\* within the limits is never refused, a receive that times out between frames loses
\* nothing, and only a receive that ends inside a frame, a refused length, a drain that
\* leaves bytes or the read of a cancelled call brings it out of step.
THEOREM FramingImplementsChannel == Spec => ImplementsChannel
<1>1. Init => Channel!Init
  BY DEF Init, Channel!Init, At
<1>2. FramingInv /\ [Next]_vars => [Channel!Next]_(Channel!vars)
  <2> SUFFICES ASSUME FramingInv, [Next]_vars
               PROVE  Channel!Next \/ UNCHANGED Channel!vars
    OBVIOUS
  <2>1. ASSUME NEW f \in Payloads, DevSend(f)
        PROVE  Channel!Next
    <3>1. At' = At
      BY <2>1, AtUnchanged DEF DevSend, readVars
    <3>2. Channel!Send(f)
      BY <2>1, <3>1 DEF DevSend, Channel!Send
    <3> QED BY <3>2 DEF Channel!Next
  <2>2. CASE Begin
    <3>1. At = "out" /\ At' = "waiting"
      BY <2>2 DEF Begin, At, Inside
    <3>2. Channel!Begin
      BY <2>2, <3>1 DEF Begin, Channel!Begin
    <3> QED BY <3>2 DEF Channel!Next
  <2>3. CASE Chunk
    <3>1. At' = At
      BY <2>3, AtUnchanged DEF Chunk, readVars
    <3> QED BY <2>3, <3>1 DEF Chunk, Channel!vars
  <2>4. CASE LengthByte
    BY <2>4, LengthByteIsStep DEF Channel!Next
  <2>5. CASE Payload
    BY <2>5, PayloadIsStep DEF Channel!Next
  <2>6. CASE TimeOut \/ Cancel
    BY <2>6, StopIsMiss DEF Channel!Next
  <2>7. CASE OrphanRead
    BY <2>7, OrphanIsSteal DEF Channel!Next
  <2>8. CASE Drain
    BY <2>8, DrainIsFlush DEF Channel!Next
  <2>9. CASE UNCHANGED vars
    <3>1. At' = At
      BY <2>9, AtUnchanged DEF vars, readVars
    <3> QED BY <2>9, <3>1 DEF vars, Channel!vars
  <2> QED BY <2>1, <2>2, <2>3, <2>4, <2>5, <2>6, <2>7, <2>8, <2>9 DEF Next
<1> QED BY <1>1, <1>2, FramingInvariant, PTL DEF Spec, ImplementsChannel, Channel!Spec

=============================================================================
