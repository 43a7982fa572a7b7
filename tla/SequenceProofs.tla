--------------------------- MODULE SequenceProofs ---------------------------
(***************************************************************************)
(* Theorems about the operators of ByteSequence, for every sequence of     *)
(* bytes: reduce() undoes extend(), and the CRC shows the change of a byte.*)
(***************************************************************************)
EXTENDS ByteSequence, SequenceTheorems, WellFoundedInduction, TLAPS

-----------------------------------------------------------------------------
(* Induction over numbers and sequences, from the least element of a set.  *)

LEMMA Least ==
  ASSUME NEW T, T \subseteq Nat, T # {}
  PROVE  \E m \in T : \A k \in T : m <= k
<1> DEFINE R == OpToRel(<, Nat)
<1>1. \E x \in T : \A y \in T : ~(<<y, x>> \in R)
  <2>1. IsWellFoundedOn(R, Nat)
    BY NatLessThanWellFounded
  <2> HIDE DEF R
  <2> QED
    BY <2>1, WFMin
<1>2. \A x, y \in Nat : <<x, y>> \in R <=> x < y
  BY DEF OpToRel
<1> HIDE DEF R
<1>3. PICK x \in T : \A y \in T : ~(<<y, x>> \in R)
  BY <1>1
<1>4. \A y \in T : ~(y < x)
  BY <1>2, <1>3
<1> QED
  BY <1>4

LEMMA Induction ==
  ASSUME NEW T, T \subseteq Nat, 0 \in T, \A n \in T : n + 1 \in T
  PROVE  \A n \in Nat : n \in T
<1> SUFFICES ASSUME Nat \ T # {} PROVE FALSE
  OBVIOUS
<1>1. PICK m \in Nat \ T : \A k \in Nat \ T : m <= k
  BY Least
<1>2. m # 0 /\ m - 1 \in Nat /\ m - 1 \notin Nat \ T
  BY <1>1
<1>3. m - 1 \in T /\ (m - 1) + 1 = m
  BY <1>1, <1>2
<1> QED
  BY <1>1, <1>3

LEMMA FrontAppend ==
  ASSUME NEW S, NEW s \in Seq(S), NEW x \in S
  PROVE  /\ Append(s, x) # <<>> /\ Append(s, x) \in Seq(S)
         /\ Front(Append(s, x)) = s /\ Last(Append(s, x)) = x
<1> DEFINE t == Append(s, x)
<1>1. /\ t \in Seq(S) /\ t # <<>> /\ Len(s) \in Nat /\ Len(t) = Len(s) + 1
      /\ \A i \in 1..Len(s) : t[i] = s[i]
      /\ t[Len(s) + 1] = x
  BY AppendProperties, LenProperties
<1> HIDE DEF t
<1>2. /\ SubSeq(t, 1, Len(s)) \in Seq(S)
      /\ Len(SubSeq(t, 1, Len(s))) = Len(s)
      /\ \A i \in 1..Len(s) : SubSeq(t, 1, Len(s))[i] = t[i]
  <2>1. \A i \in 1..Len(s) : t[i] \in S
    BY <1>1, ElementOfSeq
  <2> QED
    BY <1>1, <2>1, SubSeqProperties
<1>3. SubSeq(t, 1, Len(s)) = s
  BY <1>1, <1>2, SeqEqual
<1> QED
  BY <1>1, <1>3 DEF Front, Last, t

\* A sequence is empty, or a shorter one and its last element.
LEMMA FrontLast ==
  ASSUME NEW S, NEW s \in Seq(S), s # <<>>
  PROVE  /\ Front(s) \in Seq(S) /\ Last(s) \in S
         /\ Len(Front(s)) = Len(s) - 1
         /\ s = Append(Front(s), Last(s))
<1>1. PICK t \in Seq(S), e \in S : s = Append(t, e)
  BY SequenceEmptyOrAppend
<1>2. Len(t) \in Nat /\ Len(s) = Len(t) + 1
  BY <1>1, AppendProperties, LenProperties
<1>3. Front(s) = t /\ Last(s) = e
  BY <1>1, FrontAppend
<1> QED
  BY <1>1, <1>2, <1>3

LEMMA SequenceInduction ==
  ASSUME NEW S, NEW T, T \subseteq Seq(S), <<>> \in T,
         \A s \in T, x \in S : Append(s, x) \in T
  PROVE  \A s \in Seq(S) : s \in T
<1> DEFINE N == {n \in Nat : \A s \in Seq(S) : Len(s) = n => s \in T}
<1>1. 0 \in N
  OBVIOUS
<1>2. ASSUME NEW n \in N PROVE n + 1 \in N
  <2>0. n \in Nat /\ n + 1 \in Nat /\ \A s \in Seq(S) : Len(s) = n => s \in T
    OBVIOUS
  <2> SUFFICES ASSUME NEW s \in Seq(S), Len(s) = n + 1 PROVE s \in T
    BY <2>0
  <2>1. s # <<>>
    BY EmptySeq
  <2>2. Front(s) \in Seq(S) /\ Last(s) \in S /\ Len(Front(s)) = Len(s) - 1
        /\ s = Append(Front(s), Last(s))
    BY <2>1, FrontLast
  <2>3. Front(s) \in T
    BY <2>0, <2>2
  <2> QED
    BY <2>2, <2>3
<1>3. N \subseteq Nat
  OBVIOUS
<1> HIDE DEF N
<1>4. \A n \in Nat : n \in N
  BY <1>1, <1>2, <1>3, Induction
<1> QED
  BY <1>4 DEF N

Prefix(s, n) == SubSeq(s, 1, n)

LEMMA PrefixAppend ==
  ASSUME NEW S, NEW s \in Seq(S), NEW x \in S
  PROVE  /\ \A i \in 1..Len(s) : Prefix(Append(s, x), i) = Prefix(s, i)
         /\ Prefix(Append(s, x), Len(s) + 1) = Append(s, x)
<1>1. Append(s, x) \in Seq(S) /\ Len(Append(s, x)) = Len(s) + 1
  BY AppendProperties
<1>2. Prefix(Append(s, x), Len(s) + 1) = Append(s, x)
  BY <1>1, SubSeqFull DEF Prefix
<1>3. ASSUME NEW i \in 1..Len(s) PROVE Prefix(Append(s, x), i) = Prefix(s, i)
  <2>1. Len(s) \in Nat /\ 1 \in 1..Len(s) /\ <<x>> \in Seq(S)
    BY LenProperties
  <2> QED
    BY <2>1, AppendIsConcat, SubSeqOfConcat1 DEF Prefix
<1> QED
  BY <1>2, <1>3

Steps(S, T) == [(Seq(S) \ {<<>>}) \X T -> T]

Recursive(f, S, base, step) ==
  \A s \in Seq(S) : f[s] = IF s = <<>> THEN base ELSE step[<<s, f[Front(s)]>>]

\* A function defined by recursion over sequences exists.
LEMMA Recursion ==
  ASSUME NEW S, NEW T, NEW base, base \in T, NEW step, step \in Steps(S, T)
  PROVE  \E f \in [Seq(S) -> T] : Recursive(f, S, base, step)
<1> USE DEF Steps
<1> DEFINE Runs(s) == {r \in [Nat -> T] :
                         /\ r[0] = base
                         /\ \A i \in 1..Len(s) : r[i] = step[<<Prefix(s, i), r[i - 1]>>]}
<1>1. ASSUME NEW s \in Seq(S), NEW x \in S, NEW r \in Runs(Append(s, x))
      PROVE  /\ r \in Runs(s)
             /\ r[Len(s) + 1] = step[<<Append(s, x), r[Len(s)]>>]
  <2> DEFINE t == Append(s, x)
  <2>1. Len(s) \in Nat /\ t \in Seq(S) /\ Len(t) = Len(s) + 1 /\ Prefix(t, Len(t)) = t
    BY LenProperties, AppendProperties, PrefixAppend
  <2>2. \A i \in 1..Len(s) : Prefix(t, i) = Prefix(s, i)
    BY PrefixAppend
  <2>3. r \in [Nat -> T] /\ r[0] = base
        /\ \A i \in 1..Len(t) : r[i] = step[<<Prefix(t, i), r[i - 1]>>]
    OBVIOUS
  <2> HIDE DEF t, Runs
  <2>4. \A i \in 1..Len(s) : r[i] = step[<<Prefix(s, i), r[i - 1]>>]
    BY <2>1, <2>2, <2>3
  <2>5. r[Len(s) + 1] = step[<<t, r[Len(s)]>>]
    BY <2>1, <2>3
  <2> QED
    BY <2>3, <2>4, <2>5 DEF t, Runs
<1>2. ASSUME NEW s \in Seq(S), NEW x \in S, NEW r \in Runs(s)
      PROVE  \E q : q \in Runs(Append(s, x))
  <2> DEFINE t == Append(s, x)
             q == [r EXCEPT ![Len(t)] = step[<<t, r[Len(s)]>>]]
  <2>1. Len(s) \in Nat /\ t \in Seq(S) /\ t # <<>> /\ Len(t) = Len(s) + 1
        /\ Prefix(t, Len(t)) = t
    BY LenProperties, AppendProperties, PrefixAppend
  <2>2. \A i \in 1..Len(s) : Prefix(t, i) = Prefix(s, i)
    BY PrefixAppend
  <2>3. r \in [Nat -> T] /\ r[0] = base
        /\ \A i \in 1..Len(s) : r[i] = step[<<Prefix(s, i), r[i - 1]>>]
    OBVIOUS
  <2> HIDE DEF t, Runs
  <2>4. step[<<t, r[Len(s)]>>] \in T
    BY <2>1, <2>3
  <2>5. q \in [Nat -> T] /\ q[0] = base
        /\ q[Len(t)] = step[<<t, r[Len(s)]>>]
        /\ \A i \in 0..Len(s) : q[i] = r[i]
    BY <2>1, <2>3, <2>4
  <2> HIDE DEF q
  <2>6. ASSUME NEW i \in 1..Len(t) PROVE q[i] = step[<<Prefix(t, i), q[i - 1]>>]
    <3>1. CASE i = Len(t)
      <4>1. i - 1 = Len(s) /\ Len(s) \in 0..Len(s)
        BY <3>1, <2>1
      <4>2. Prefix(t, i) = t /\ q[i - 1] = r[Len(s)]
        BY <3>1, <4>1, <2>1, <2>5
      <4> QED
        BY <3>1, <4>2, <2>5
    <3>2. CASE i # Len(t)
      <4>1. i \in 1..Len(s) /\ i \in 0..Len(s) /\ i - 1 \in 0..Len(s)
        BY <3>2, <2>1
      <4>2. q[i] = r[i] /\ q[i - 1] = r[i - 1] /\ Prefix(t, i) = Prefix(s, i)
        BY <4>1, <2>2, <2>5
      <4> QED
        BY <4>1, <4>2, <2>3
    <3> QED
      BY <3>1, <3>2
  <2> QED
    BY <2>5, <2>6 DEF t, Runs
<1>3. \A s \in Seq(S) : \E r : r \in Runs(s)
  <2> DEFINE U == {s \in Seq(S) : \E r : r \in Runs(s)}
  <2>1. <<>> \in U
    <3>1. [n \in Nat |-> base] \in Runs(<<>>)
      BY EmptySeq
    <3> QED
      BY <3>1, EmptySeq
  <2>2. ASSUME NEW s \in U, NEW x \in S PROVE Append(s, x) \in U
    <3> HIDE DEF Runs
    <3> QED
      BY <1>2, AppendProperties
  <2>3. U \subseteq Seq(S)
    OBVIOUS
  <2> HIDE DEF U
  <2>4. \A s \in Seq(S) : s \in U
    BY <2>1, <2>2, <2>3, SequenceInduction
  <2> QED
    BY <2>4 DEF U
<1>4. \A s \in Seq(S) : \A q, r \in Runs(s) : q[Len(s)] = r[Len(s)]
  <2> DEFINE U == {s \in Seq(S) : \A q, r \in Runs(s) : q[Len(s)] = r[Len(s)]}
  <2>1. <<>> \in U
    BY EmptySeq
  <2>2. ASSUME NEW s \in U, NEW x \in S PROVE Append(s, x) \in U
    <3> HIDE DEF Runs
    <3>1. s \in Seq(S) /\ \A q, r \in Runs(s) : q[Len(s)] = r[Len(s)]
      OBVIOUS
    <3>2. Append(s, x) \in Seq(S) /\ Len(Append(s, x)) = Len(s) + 1
      BY AppendProperties
    <3>3. ASSUME NEW q \in Runs(Append(s, x)), NEW r \in Runs(Append(s, x))
          PROVE  q[Len(s) + 1] = r[Len(s) + 1]
      <4>1. /\ q \in Runs(s) /\ q[Len(s) + 1] = step[<<Append(s, x), q[Len(s)]>>]
            /\ r \in Runs(s) /\ r[Len(s) + 1] = step[<<Append(s, x), r[Len(s)]>>]
        BY <1>1, <3>1
      <4>2. q[Len(s)] = r[Len(s)]
        BY <3>1, <4>1
      <4> QED
        BY <4>1, <4>2
    <3> QED
      BY <3>2, <3>3
  <2>3. U \subseteq Seq(S)
    OBVIOUS
  <2> HIDE DEF U
  <2>4. \A s \in Seq(S) : s \in U
    BY <2>1, <2>2, <2>3, SequenceInduction
  <2> QED
    BY <2>4 DEF U
<1> DEFINE run(s) == CHOOSE r : r \in Runs(s)
           f      == [s \in Seq(S) |-> run(s)[Len(s)]]
<1>5. ASSUME NEW s \in Seq(S) PROVE f[s] = IF s = <<>> THEN base ELSE step[<<s, f[Front(s)]>>]
  <2> HIDE DEF Runs
  <2>1. \A p \in Seq(S) : run(p) \in Runs(p) /\ f[p] = run(p)[Len(p)]
    BY <1>3
  <2>2. CASE s = <<>>
    BY <2>1, <2>2, EmptySeq DEF Runs
  <2>3. CASE s # <<>>
    <3> DEFINE p == Front(s)
               x == Last(s)
    <3>1. p \in Seq(S) /\ x \in S /\ s = Append(p, x) /\ Len(p) = Len(s) - 1 /\ Len(s) \in Nat
      BY <2>3, FrontLast, LenProperties
    <3> HIDE DEF p, x, run, f
    <3>2. run(s) \in Runs(p) /\ run(s)[Len(s)] = step[<<s, run(s)[Len(p)]>>]
      <4>1. run(s) \in Runs(Append(p, x))
        BY <2>1, <3>1
      <4>2. run(s) \in Runs(p) /\ run(s)[Len(p) + 1] = step[<<Append(p, x), run(s)[Len(p)]>>]
        BY <4>1, <3>1, <1>1
      <4> QED
        BY <4>2, <3>1
    <3>3. run(s)[Len(p)] = run(p)[Len(p)]
      BY <1>4, <2>1, <3>1, <3>2
    <3>4. f[s] = step[<<s, f[p]>>]
      BY <2>1, <3>1, <3>2, <3>3
    <3> QED
      BY <2>3, <3>4 DEF p
  <2> QED
    BY <2>2, <2>3
<1>6. f \in [Seq(S) -> T]
  <2>1. ASSUME NEW s \in Seq(S) PROVE run(s)[Len(s)] \in T
    <3>1. run(s) \in Runs(s)
      <4> HIDE DEF Runs
      <4> QED
        BY <1>3
    <3>2. run(s) \in [Nat -> T]
      <4> HIDE DEF run
      <4> QED
        BY <3>1
    <3> QED
      BY <3>2, LenProperties
  <2> HIDE DEF run
  <2> QED
    BY <2>1
<1> HIDE DEF f
<1> QED
  BY <1>5, <1>6 DEF Recursive

-----------------------------------------------------------------------------
(* extend(), reduce() and crc() by their last byte.                        *)

LEMMA EscapedBytes ==
  ASSUME NEW x \in Byte
  PROVE  /\ Escaped(x) \in Seq(Byte) /\ Escaped(x) # <<>>
         /\ x \notin Marker => Escaped(x) = <<x>>
         /\ x \in Marker => Escaped(x) = <<seq_exp, IF x = seq_syn THEN seq_synexp ELSE seq_expexp>>
<1>1. /\ <<seq_exp, seq_synexp>> \in Seq(Byte) /\ <<seq_exp, seq_synexp>> # <<>>
      /\ <<seq_exp, seq_expexp>> \in Seq(Byte) /\ <<seq_exp, seq_expexp>> # <<>>
      /\ <<x>> \in Seq(Byte) /\ <<x>> # <<>>
  BY DEF Byte, seq_exp, seq_synexp, seq_expexp
<1>2. CASE x = seq_syn
  <2>1. Escaped(x) = <<seq_exp, seq_synexp>> /\ x \in Marker
    BY <1>2 DEF Escaped, Marker
  <2> QED
    BY <1>1, <1>2, <2>1, Zenon
<1>3. CASE x = seq_exp
  <2>1. Escaped(x) = <<seq_exp, seq_expexp>> /\ x \in Marker /\ x # seq_syn
    BY <1>3 DEF Escaped, Marker, seq_exp, seq_syn
  <2> QED
    BY <1>1, <2>1, Zenon
<1>4. CASE x \notin Marker
  <2>1. Escaped(x) = <<x>>
    BY <1>4 DEF Escaped, Marker
  <2> QED
    BY <1>1, <1>4, <2>1, Zenon
<1> QED
  BY <1>2, <1>3, <1>4 DEF Marker

LEMMA ExtendedDef ==
  extended = [bytes \in Seq(Byte) |->
                IF bytes = <<>> THEN <<>> ELSE extended[Front(bytes)] \o Escaped(Last(bytes))]
<1> DEFINE step == [a \in (Seq(Byte) \ {<<>>}) \X Seq(Byte) |-> a[2] \o Escaped(Last(a[1]))]
<1>1. step \in Steps(Byte, Seq(Byte))
  <2> SUFFICES ASSUME NEW s \in Seq(Byte) \ {<<>>}, NEW v \in Seq(Byte)
               PROVE  v \o Escaped(Last(s)) \in Seq(Byte)
    BY DEF Steps
  <2> QED
    BY FrontLast, EscapedBytes, ConcatProperties
<1> DEFINE base == <<>>
<1>2. base \in Seq(Byte)
  OBVIOUS
<1>3. \A s \in Seq(Byte) \ {<<>>}, v \in Seq(Byte) : step[<<s, v>>] = v \o Escaped(Last(s))
  OBVIOUS
<1> HIDE DEF step, base
<1>4. PICK f \in [Seq(Byte) -> Seq(Byte)] : Recursive(f, Byte, base, step)
  BY <1>1, <1>2, Recursion
<1>5. \A s \in Seq(Byte) : f[s] = IF s = <<>> THEN <<>> ELSE f[Front(s)] \o Escaped(Last(s))
  BY <1>3, <1>4, FrontLast DEF base, Recursive
<1>6. f = [s \in Seq(Byte) |-> IF s = <<>> THEN <<>> ELSE f[Front(s)] \o Escaped(Last(s))]
  BY <1>5
<1> QED
  BY <1>6 DEF extended

\* extend(), byte by byte.
LEMMA ExtendedBytes ==
  /\ extended[<<>>] = <<>>
  /\ \A s \in Seq(Byte) :
       /\ extended[s] \in Seq(Byte)
       /\ \A x \in Byte : extended[Append(s, x)] = extended[s] \o Escaped(x)
<1>1. extended[<<>>] = <<>>
  BY ExtendedDef
<1>2. ASSUME NEW s \in Seq(Byte), NEW x \in Byte
      PROVE  extended[Append(s, x)] = extended[s] \o Escaped(x)
  BY ExtendedDef, FrontAppend
<1> DEFINE T == {s \in Seq(Byte) : extended[s] \in Seq(Byte)}
<1>3. <<>> \in T
  BY <1>1, EmptySeq
<1>4. ASSUME NEW s \in T, NEW x \in Byte PROVE Append(s, x) \in T
  <2>1. s \in Seq(Byte) /\ extended[s] \in Seq(Byte) /\ Append(s, x) \in Seq(Byte)
    BY AppendProperties
  <2>2. extended[s] \o Escaped(x) \in Seq(Byte)
    BY <2>1, EscapedBytes, ConcatProperties
  <2> QED
    BY <1>2, <2>1, <2>2
<1>5. T \subseteq Seq(Byte)
  OBVIOUS
<1> HIDE DEF T
<1>6. \A s \in Seq(Byte) : s \in T
  BY <1>3, <1>4, <1>5, SequenceInduction
<1> QED
  BY <1>1, <1>2, <1>6 DEF T

-----------------------------------------------------------------------------
(* The exclusive or and the table of the CRC are injective.  A byte is the *)
(* sum of its weighted bits.                                               *)

Weights == {1, 2, 4, 8, 16, 32, 64, 128}

Sum8(a, b, c, d, e, f, g, h) ==
  1 * a + 2 * b + 4 * c + 8 * d + 16 * e + 32 * f + 64 * g + 128 * h

Weighted(x) == Sum8(x[1], x[2], x[4], x[8], x[16], x[32], x[64], x[128])

Bits == [Weights -> {0, 1}]

Bits8(a, b, c, d, e, f, g, h) ==
  /\ a \in 0..1 /\ b \in 0..1 /\ c \in 0..1 /\ d \in 0..1
  /\ e \in 0..1 /\ f \in 0..1 /\ g \in 0..1 /\ h \in 0..1

LEMMA SumInjective ==
  ASSUME NEW a, NEW b, NEW c, NEW d, NEW e, NEW f, NEW g, NEW h, Bits8(a, b, c, d, e, f, g, h),
         NEW i, NEW j, NEW k, NEW l, NEW m, NEW n, NEW o, NEW p, Bits8(i, j, k, l, m, n, o, p),
         Sum8(a, b, c, d, e, f, g, h) = Sum8(i, j, k, l, m, n, o, p)
  PROVE  a = i /\ b = j /\ c = k /\ d = l /\ e = m /\ f = n /\ g = o /\ h = p
  BY DEF Sum8, Bits8

LEMMA WeightedInjective ==
  ASSUME NEW x \in Bits, NEW y \in Bits, Weighted(x) = Weighted(y)
  PROVE  \A k \in Weights : x[k] = y[k]
<1>1. \A k \in Weights : x[k] \in 0..1 /\ y[k] \in 0..1
  BY DEF Bits
<1>2. /\ Bits8(x[1], x[2], x[4], x[8], x[16], x[32], x[64], x[128])
      /\ Bits8(y[1], y[2], y[4], y[8], y[16], y[32], y[64], y[128])
  BY <1>1 DEF Weights, Bits8
<1>3. /\ x[1] = y[1] /\ x[2] = y[2] /\ x[4] = y[4] /\ x[8] = y[8]
      /\ x[16] = y[16] /\ x[32] = y[32] /\ x[64] = y[64] /\ x[128] = y[128]
  BY <1>2, SumInjective DEF Weighted
<1> QED
  BY <1>3 DEF Weights

LEMMA BitOf ==
  ASSUME NEW n \in Byte, NEW k \in Weights PROVE Bit(n, k) \in {0, 1}
  BY DEF Bit, Byte, Weights

LEMMA ByteWeighted ==
  ASSUME NEW n \in Byte PROVE Weighted([k \in Weights |-> Bit(n, k)]) = n
  BY DEF Weighted, Sum8, Bit, Byte, Weights

LEMMA XorWeighted ==
  ASSUME NEW a \in Byte, NEW b \in Byte
  PROVE  Xor(a, b) = Weighted([k \in Weights |-> (Bit(a, k) + Bit(b, k)) % 2])
<1> DEFINE x == [k \in Weights |-> (Bit(a, k) + Bit(b, k)) % 2]
<1>1. \A k \in Weights : x[k] = (Bit(a, k) + Bit(b, k)) % 2
  OBVIOUS
<1> HIDE DEF x
<1>2. /\ x[1] = (Bit(a, 1) + Bit(b, 1)) % 2 /\ x[2] = (Bit(a, 2) + Bit(b, 2)) % 2
      /\ x[4] = (Bit(a, 4) + Bit(b, 4)) % 2 /\ x[8] = (Bit(a, 8) + Bit(b, 8)) % 2
      /\ x[16] = (Bit(a, 16) + Bit(b, 16)) % 2 /\ x[32] = (Bit(a, 32) + Bit(b, 32)) % 2
      /\ x[64] = (Bit(a, 64) + Bit(b, 64)) % 2 /\ x[128] = (Bit(a, 128) + Bit(b, 128)) % 2
  BY <1>1 DEF Weights
<1>3. Xor(a, b) = Weighted(x)
  BY <1>2, Zenon DEF Xor, Weighted, Sum8
<1> QED
  BY <1>3 DEF x

LEMMA XorByte ==
  ASSUME NEW a \in Byte, NEW b \in Byte PROVE Xor(a, b) \in Byte
<1> DEFINE x == [k \in Weights |-> (Bit(a, k) + Bit(b, k)) % 2]
<1>1. \A k \in Weights : x[k] \in {0, 1}
  BY BitOf
<1>2. Weighted(x) \in Byte
  <2> HIDE DEF x
  <2> QED
  BY <1>1 DEF Weighted, Sum8, Byte, Weights
<1> QED
  BY <1>2, XorWeighted

LEMMA XorInjective ==
  ASSUME NEW a \in Byte, NEW b \in Byte, NEW c \in Byte
  PROVE  /\ Xor(a, b) = Xor(a, c) => b = c
         /\ Xor(b, a) = Xor(c, a) => b = c
<1> DEFINE bits(n) == [k \in Weights |-> Bit(n, k)]
           x(m, n) == [k \in Weights |-> (Bit(m, k) + Bit(n, k)) % 2]
<1>1. \A m, n \in Byte : x(m, n) \in Bits
  BY BitOf DEF Bits
<1>2. ASSUME NEW k \in Weights
      PROVE  /\ x(a, b)[k] = x(a, c)[k] => bits(b)[k] = bits(c)[k]
             /\ x(b, a)[k] = x(c, a)[k] => bits(b)[k] = bits(c)[k]
  <2>1. Bit(a, k) \in {0, 1} /\ Bit(b, k) \in {0, 1} /\ Bit(c, k) \in {0, 1}
    BY BitOf
  <2> QED
    BY <2>1
<1>3. \A m, n \in Byte : Xor(m, n) = Weighted(x(m, n)) /\ Weighted(bits(n)) = n
  BY XorWeighted, ByteWeighted
<1>4. bits(b) = bits(c) => b = c
  BY <1>3
<1>5. bits(b) \in [Weights -> Int] /\ bits(c) \in [Weights -> Int]
  BY BitOf
<1> HIDE DEF x, bits
<1>6. /\ Xor(a, b) = Xor(a, c) => \A k \in Weights : bits(b)[k] = bits(c)[k]
      /\ Xor(b, a) = Xor(c, a) => \A k \in Weights : bits(b)[k] = bits(c)[k]
  BY <1>1, <1>2, <1>3, WeightedInjective
<1> QED
  BY <1>4, <1>5, <1>6

LEMMA XorOdd ==
  ASSUME NEW a \in Byte, a % 2 = 0 PROVE Xor(a, 155) % 2 = 1
<1> DEFINE x == [k \in Weights |-> (Bit(a, k) + Bit(155, k)) % 2]
<1>1. \A k \in Weights : x[k] \in {0, 1}
  BY BitOf DEF Byte
<1>2. x[1] = 1
  BY DEF Bit, Weights, Byte
<1>3. Xor(a, 155) = Weighted(x)
  <2>1. 155 \in Byte
    BY DEF Byte
  <2> QED
    BY <2>1, XorWeighted
<1> HIDE DEF x
<1> QED
  BY <1>1, <1>2, <1>3 DEF Weighted, Sum8, Weights

LEMMA ShiftedInjective ==
  ASSUME NEW a \in Byte, NEW b \in Byte
  PROVE  Shifted(a) \in Byte /\ (Shifted(a) = Shifted(b) => a = b)
<1>1. ASSUME NEW n \in Byte, n >= 128
      PROVE  /\ 2 * n - 256 \in Byte /\ Shifted(n) = Xor(2 * n - 256, 155)
             /\ Shifted(n) \in Byte /\ Shifted(n) % 2 = 1
  <2>1. 2 * n - 256 \in Byte /\ (2 * n - 256) % 2 = 0 /\ 155 \in Byte
    BY <1>1 DEF Byte
  <2>2. Shifted(n) = Xor(2 * n - 256, 155)
    BY <1>1 DEF Shifted
  <2> QED
    BY <2>1, <2>2, XorByte, XorOdd
<1>2. ASSUME NEW n \in Byte, ~(n >= 128)
      PROVE  Shifted(n) = 2 * n /\ Shifted(n) \in Byte /\ Shifted(n) % 2 = 0
  BY <1>2 DEF Shifted, Byte
<1>3. 155 \in Byte
  BY DEF Byte
<1>4. CASE a >= 128 /\ b >= 128
  <2>1. Shifted(a) = Shifted(b) => 2 * a - 256 = 2 * b - 256
    <3> DEFINE x == 2 * a - 256
               y == 2 * b - 256
    <3>1. x \in Byte /\ y \in Byte /\ Shifted(a) = Xor(x, 155) /\ Shifted(b) = Xor(y, 155)
      BY <1>1, <1>4
    <3> HIDE DEF x, y
    <3>2. Shifted(a) = Shifted(b) => x = y
      BY <1>3, <3>1, XorInjective
    <3> QED
      BY <3>2 DEF x, y
  <2>2. 2 * a - 256 = 2 * b - 256 => a = b
    BY DEF Byte
  <2> QED
    BY <1>1, <1>4, <2>1, <2>2
<1>5. CASE ~(a >= 128) /\ ~(b >= 128)
  BY <1>2, <1>5 DEF Byte
<1>6. CASE (a >= 128) # (b >= 128)
  BY <1>1, <1>2, <1>6
<1> QED
  BY <1>4, <1>5, <1>6

LEMMA TableInjective ==
  /\ \A a \in Byte : crc_table[a] \in Byte
  /\ \A a, b \in Byte : crc_table[a] = crc_table[b] => a = b
<1>1. \A a, b \in Byte : ShiftedTwo(a) \in Byte /\ (ShiftedTwo(a) = ShiftedTwo(b) => a = b)
  BY ShiftedInjective DEF ShiftedTwo
<1>2. \A a, b \in Byte : ShiftedFour(a) \in Byte /\ (ShiftedFour(a) = ShiftedFour(b) => a = b)
  BY <1>1 DEF ShiftedFour
<1> QED
  BY <1>2 DEF crc_table

-----------------------------------------------------------------------------
(* reduce() and crc(), byte by byte.                                       *)

LEMMA ReadByte ==
  ASSUME NEW s \in Seq(Byte), NEW x \in Byte PROVE ReadAfter(s, x) \in Byte
<1>1. Marked(x) \in Byte
  BY DEF Marked, Byte, seq_syn, seq_exp
<1> QED
  BY <1>1 DEF ReadAfter

LEMMA ReducedDef ==
  ASSUME NEW s \in Seq(Byte)
  PROVE  reduced[s] =
           IF s = <<>> THEN <<>>
           ELSE IF Last(s) \in Marker THEN reduced[Front(s)]
           ELSE Append(reduced[Front(s)], ReadAfter(Front(s), Last(s)))
<1> DEFINE Read(t, v) == IF Last(t) \in Marker THEN v ELSE Append(v, ReadAfter(Front(t), Last(t)))
           step == [a \in (Seq(Byte) \ {<<>>}) \X Seq(Byte) |-> Read(a[1], a[2])]
           base == <<>>
<1>1. step \in Steps(Byte, Seq(Byte))
  <2> SUFFICES ASSUME NEW t \in Seq(Byte) \ {<<>>}, NEW v \in Seq(Byte)
               PROVE  Read(t, v) \in Seq(Byte)
    BY DEF Steps
  <2>1. ReadAfter(Front(t), Last(t)) \in Byte
    BY FrontLast, ReadByte
  <2> QED
    BY <2>1, AppendProperties
<1>2. base \in Seq(Byte)
  OBVIOUS
<1>3. \A t \in Seq(Byte) \ {<<>>}, v \in Seq(Byte) : step[<<t, v>>] = Read(t, v)
  OBVIOUS
<1> HIDE DEF step, base
<1>4. PICK f \in [Seq(Byte) -> Seq(Byte)] : Recursive(f, Byte, base, step)
  BY <1>1, <1>2, Recursion
<1>5. \A t \in Seq(Byte) : f[t] = IF t = <<>> THEN <<>> ELSE Read(t, f[Front(t)])
  <2> HIDE DEF Read
  <2> QED
    BY <1>3, <1>4, FrontLast DEF base, Recursive
<1>6. f = [t \in Seq(Byte) |->
             IF t = <<>> THEN <<>>
             ELSE IF Last(t) \in Marker THEN f[Front(t)]
             ELSE Append(f[Front(t)], ReadAfter(Front(t), Last(t)))]
  BY <1>5
<1>7. reduced = [t \in Seq(Byte) |->
                   IF t = <<>> THEN <<>>
                   ELSE IF Last(t) \in Marker THEN reduced[Front(t)]
                   ELSE Append(reduced[Front(t)], ReadAfter(Front(t), Last(t)))]
  BY <1>6 DEF reduced
<1> QED
  BY <1>7

LEMMA ReducedBytes ==
  /\ reduced[<<>>] = <<>>
  /\ \A s \in Seq(Byte) :
       /\ reduced[s] \in Seq(Byte)
       /\ \A x \in Byte : reduced[Append(s, x)] =
            IF x \in Marker THEN reduced[s] ELSE Append(reduced[s], ReadAfter(s, x))
<1>1. reduced[<<>>] = <<>>
  BY ReducedDef, EmptySeq
<1>2. ASSUME NEW s \in Seq(Byte), NEW x \in Byte
      PROVE  reduced[Append(s, x)] =
               IF x \in Marker THEN reduced[s] ELSE Append(reduced[s], ReadAfter(s, x))
  <2>1. /\ Append(s, x) \in Seq(Byte) /\ Append(s, x) # <<>>
        /\ Front(Append(s, x)) = s /\ Last(Append(s, x)) = x
    BY FrontAppend
  <2> QED
    BY <2>1, ReducedDef
<1> DEFINE T == {s \in Seq(Byte) : reduced[s] \in Seq(Byte)}
<1>3. <<>> \in T
  BY <1>1, EmptySeq
<1>4. ASSUME NEW s \in T, NEW x \in Byte PROVE Append(s, x) \in T
  <2>1. s \in Seq(Byte) /\ reduced[s] \in Seq(Byte) /\ Append(s, x) \in Seq(Byte)
    BY AppendProperties
  <2>2. ReadAfter(s, x) \in Byte
    BY <2>1, ReadByte
  <2>3. Append(reduced[s], ReadAfter(s, x)) \in Seq(Byte)
    BY <2>1, <2>2, AppendProperties
  <2> QED
    BY <1>2, <2>1, <2>3
<1>5. T \subseteq Seq(Byte)
  OBVIOUS
<1> HIDE DEF T
<1>6. \A s \in Seq(Byte) : s \in T
  BY <1>3, <1>4, <1>5, SequenceInduction
<1> QED
  BY <1>1, <1>2, <1>6 DEF T

LEMMA CrcDef ==
  ASSUME NEW s \in Seq(Byte)
  PROVE  calc_crc[s] = IF s = <<>> THEN 0 ELSE Xor(crc_table[calc_crc[Front(s)]], Last(s))
<1> DEFINE Next1(t, v) == Xor(crc_table[v], Last(t))
           step == [a \in (Seq(Byte) \ {<<>>}) \X Byte |-> Next1(a[1], a[2])]
<1>1. step \in Steps(Byte, Byte)
  <2> SUFFICES ASSUME NEW t \in Seq(Byte) \ {<<>>}, NEW v \in Byte PROVE Next1(t, v) \in Byte
    BY DEF Steps
  <2> QED
    BY FrontLast, TableInjective, XorByte
<1>2. 0 \in Byte
  BY DEF Byte
<1>3. \A t \in Seq(Byte) \ {<<>>}, v \in Byte : step[<<t, v>>] = Next1(t, v)
  OBVIOUS
<1> HIDE DEF step
<1>4. PICK f \in [Seq(Byte) -> Byte] : Recursive(f, Byte, 0, step)
  BY <1>1, <1>2, Recursion
<1>5. \A t \in Seq(Byte) : f[t] = IF t = <<>> THEN 0 ELSE Next1(t, f[Front(t)])
  <2> HIDE DEF Next1
  <2> QED
    BY <1>3, <1>4, FrontLast DEF Recursive
<1>6. f = [t \in Seq(Byte) |-> IF t = <<>> THEN 0 ELSE Xor(crc_table[f[Front(t)]], Last(t))]
  BY <1>5
<1>7. calc_crc = [t \in Seq(Byte) |->
                    IF t = <<>> THEN 0 ELSE Xor(crc_table[calc_crc[Front(t)]], Last(t))]
  BY <1>6 DEF calc_crc
<1> QED
  BY <1>7

LEMMA CrcBytes ==
  /\ calc_crc[<<>>] = 0
  /\ \A s \in Seq(Byte) :
       /\ calc_crc[s] \in Byte
       /\ \A x \in Byte : calc_crc[Append(s, x)] = Xor(crc_table[calc_crc[s]], x)
<1>1. calc_crc[<<>>] = 0
  BY CrcDef, EmptySeq
<1>2. ASSUME NEW s \in Seq(Byte), NEW x \in Byte
      PROVE  calc_crc[Append(s, x)] = Xor(crc_table[calc_crc[s]], x)
  <2>1. /\ Append(s, x) \in Seq(Byte) /\ Append(s, x) # <<>>
        /\ Front(Append(s, x)) = s /\ Last(Append(s, x)) = x
    BY FrontAppend
  <2> QED
    BY <2>1, CrcDef
<1> DEFINE T == {s \in Seq(Byte) : calc_crc[s] \in Byte}
<1>3. <<>> \in T
  BY <1>1, EmptySeq DEF Byte
<1>4. ASSUME NEW s \in T, NEW x \in Byte PROVE Append(s, x) \in T
  <2>1. s \in Seq(Byte) /\ crc_table[calc_crc[s]] \in Byte /\ Append(s, x) \in Seq(Byte)
    BY TableInjective, AppendProperties
  <2> QED
    BY <1>2, <2>1, XorByte
<1>5. T \subseteq Seq(Byte)
  OBVIOUS
<1> HIDE DEF T
<1>6. \A s \in Seq(Byte) : s \in T
  BY <1>3, <1>4, <1>5, SequenceInduction
<1> QED
  BY <1>1, <1>2, <1>6 DEF T

-----------------------------------------------------------------------------
(* Escaping.                                                               *)

\* A sequence whose last byte announces no other one.
Ended(s) == s = <<>> \/ Last(s) \notin Marker

LEMMA LastConcat ==
  ASSUME NEW S, NEW s \in Seq(S), NEW t \in Seq(S), t # <<>>
  PROVE  s \o t # <<>> /\ Last(s \o t) = Last(t)
<1>1. /\ s \o t \in Seq(S) /\ Len(s \o t) = Len(s) + Len(t)
      /\ Len(s) \in Nat /\ Len(t) \in Nat /\ Len(t) # 0
      /\ \A i \in 1..Len(s) + Len(t) : (s \o t)[i] = IF i <= Len(s) THEN s[i] ELSE t[i - Len(s)]
  BY ConcatProperties, LenProperties, EmptySeq
<1> DEFINE u == s \o t
<1> HIDE DEF u
<1>2. u # <<>>
  BY <1>1, EmptySeq DEF u
<1>3. u[Len(s) + Len(t)] = t[Len(t)]
  BY <1>1 DEF u
<1> QED
  BY <1>1, <1>2, <1>3 DEF u, Last

LEMMA ConcatAppend ==
  ASSUME NEW S, NEW s \in Seq(S), NEW t \in Seq(S), NEW x \in S
  PROVE  s \o Append(t, x) = Append(s \o t, x)
<1>1. <<x>> \in Seq(S) /\ s \o t \in Seq(S)
  BY ConcatProperties
<1>2. Append(t, x) = t \o <<x>> /\ Append(s \o t, x) = (s \o t) \o <<x>>
  BY <1>1, AppendIsConcat
<1> QED
  BY <1>1, <1>2, ConcatAssociative

LEMMA ReducedConcat ==
  ASSUME NEW s \in Seq(Byte), Ended(s)
  PROVE  \A t \in Seq(Byte) : reduced[s \o t] = reduced[s] \o reduced[t]
<1> DEFINE T == {t \in Seq(Byte) : reduced[s \o t] = reduced[s] \o reduced[t]}
<1>1. <<>> \in T
  BY ReducedBytes, EmptySeq, ConcatEmptySeq
<1>2. ASSUME NEW t \in T, NEW x \in Byte PROVE Append(t, x) \in T
  <2>1. /\ t \in Seq(Byte) /\ reduced[s \o t] = reduced[s] \o reduced[t]
        /\ s \o t \in Seq(Byte) /\ Append(t, x) \in Seq(Byte)
        /\ reduced[s] \in Seq(Byte) /\ reduced[t] \in Seq(Byte)
    BY ConcatProperties, AppendProperties, ReducedBytes
  <2>2. s \o Append(t, x) = Append(s \o t, x)
    BY <2>1, ConcatAppend
  <2>3. ReadAfter(s \o t, x) = ReadAfter(t, x)
    <3>1. CASE t = <<>>
      BY <3>1, ConcatEmptySeq DEF ReadAfter, Ended
    <3>2. CASE t # <<>>
      BY <3>2, <2>1, LastConcat DEF ReadAfter
    <3> QED
      BY <3>1, <3>2
  <2>4. /\ reduced[Append(s \o t, x)] =
             IF x \in Marker THEN reduced[s \o t] ELSE Append(reduced[s \o t], ReadAfter(s \o t, x))
        /\ reduced[Append(t, x)] =
             IF x \in Marker THEN reduced[t] ELSE Append(reduced[t], ReadAfter(t, x))
        /\ ReadAfter(t, x) \in Byte
    BY <2>1, ReducedBytes, ReadByte
  <2>5. reduced[s] \o Append(reduced[t], ReadAfter(t, x)) = Append(reduced[s] \o reduced[t], ReadAfter(t, x))
    <3> DEFINE u == reduced[s]
               v == reduced[t]
               y == ReadAfter(t, x)
    <3>1. u \in Seq(Byte) /\ v \in Seq(Byte) /\ y \in Byte
      BY <2>1, <2>4
    <3> HIDE DEF u, v, y
    <3>2. u \o Append(v, y) = Append(u \o v, y)
      BY <3>1, ConcatAppend
    <3> QED
      BY <3>2 DEF u, v, y
  <2>6. reduced[s \o Append(t, x)] = reduced[s] \o reduced[Append(t, x)]
    BY <2>1, <2>2, <2>3, <2>4, <2>5
  <2> QED
    BY <2>1, <2>6
<1>3. T \subseteq Seq(Byte)
  OBVIOUS
<1> HIDE DEF T
<1>4. \A t \in Seq(Byte) : t \in T
  BY <1>1, <1>2, <1>3, SequenceInduction
<1> QED
  BY <1>4 DEF T

\* reduce() of one byte, and of one byte as extend() writes it.
LEMMA ReducedByte ==
  /\ \A x \in Byte \ Marker : reduced[<<x>>] = <<x>>
  /\ \A x \in Byte \ Marker : reduced[<<seq_exp, x>>] = <<Marked(x)>>
  /\ \A x \in Byte : reduced[Escaped(x)] = <<x>> /\ Ended(Escaped(x))
<1>1. <<>> \in Seq(Byte) /\ seq_exp \in Byte /\ seq_exp \in Marker
  BY DEF Byte, Marker, seq_exp
<1>2. ASSUME NEW x \in Byte \ Marker PROVE reduced[<<x>>] = <<x>>
  <2>1. Append(<<>>, x) = <<x>>
    OBVIOUS
  <2>2. reduced[Append(<<>>, x)] = Append(reduced[<<>>], ReadAfter(<<>>, x))
    BY <1>1, ReducedBytes
  <2>3. ReadAfter(<<>>, x) = x
    BY DEF ReadAfter
  <2> QED
    BY <2>1, <2>2, <2>3, ReducedBytes
<1>3. ASSUME NEW x \in Byte \ Marker PROVE reduced[<<seq_exp, x>>] = <<Marked(x)>>
  <2>1. /\ Append(<<>>, seq_exp) = <<seq_exp>> /\ <<seq_exp>> \in Seq(Byte)
        /\ Append(<<seq_exp>>, x) = <<seq_exp, x>>
        /\ <<seq_exp>> # <<>> /\ Last(<<seq_exp>>) = seq_exp
    <3> DEFINE e == seq_exp
    <3>1. e \in Byte
      BY <1>1
    <3> HIDE DEF e
    <3>2. Append(<<>>, e) = <<e>> /\ <<e>> \in Seq(Byte) /\ <<e>> # <<>> /\ Last(<<e>>) = e
      BY <3>1 DEF Last
    <3>3. Append(<<e>>, x) = <<e, x>>
      <4> DEFINE u == Append(<<e>>, x)
      <4>1. u \in Seq(Byte) /\ Len(u) = 2 /\ u[1] = e /\ u[2] = x
        BY <3>1, <3>2, AppendProperties
      <4> HIDE DEF u
      <4>2. <<e, x>> \in Seq(Byte) /\ Len(<<e, x>>) = 2 /\ <<e, x>>[1] = e /\ <<e, x>>[2] = x
        BY <3>1
      <4>3. \A i \in 1..2 : u[i] = <<e, x>>[i]
        BY <4>1, <4>2
      <4> QED
        BY <4>1, <4>2, <4>3, SeqEqual DEF u
    <3> QED
      BY <3>2, <3>3 DEF e
  <2>2. reduced[<<seq_exp>>] = <<>>
    BY <1>1, <2>1, ReducedBytes
  <2>3. reduced[Append(<<seq_exp>>, x)] = Append(reduced[<<seq_exp>>], ReadAfter(<<seq_exp>>, x))
    BY <2>1, ReducedBytes
  <2>4. ReadAfter(<<seq_exp>>, x) = Marked(x)
    BY <1>1, <2>1 DEF ReadAfter
  <2>5. Append(<<>>, Marked(x)) = <<Marked(x)>>
    OBVIOUS
  <2> QED
    BY <2>1, <2>2, <2>3, <2>4, <2>5
<1>4. ASSUME NEW x \in Byte PROVE reduced[Escaped(x)] = <<x>> /\ Ended(Escaped(x))
  <2>1. CASE x \notin Marker
    <3>1. Escaped(x) = <<x>> /\ Last(<<x>>) = x
      BY <2>1, EscapedBytes DEF Last
    <3> QED
      BY <2>1, <3>1, <1>2 DEF Ended
  <2>2. CASE x \in Marker
    <3> DEFINE y == IF x = seq_syn THEN seq_synexp ELSE seq_expexp
    <3>1. y \in Byte \ Marker /\ Marked(y) = x
      BY <2>2 DEF Byte, Marker, Marked, seq_syn, seq_exp, seq_synexp, seq_expexp
    <3>2. Escaped(x) = <<seq_exp, y>>
      BY <2>2, EscapedBytes
    <3> HIDE DEF y
    <3>3. Last(<<seq_exp, y>>) = y
      BY DEF Last
    <3> QED
      BY <3>1, <3>2, <3>3, <1>3 DEF Ended
  <2> QED
    BY <2>1, <2>2
<1> QED
  BY <1>2, <1>3, <1>4

\* reduce() gives back what was passed to extend(), whatever bytes it has.
THEOREM ReduceUndoesExtend ==
  \A s \in Seq(Byte) : Reduce(Extend(Plain(s))) = Plain(s) /\ Ended(extended[s])
<1> DEFINE T == {s \in Seq(Byte) : reduced[extended[s]] = s /\ Ended(extended[s])}
<1>1. <<>> \in T
  BY ExtendedBytes, ReducedBytes, EmptySeq DEF Ended
<1>2. ASSUME NEW s \in T, NEW x \in Byte PROVE Append(s, x) \in T
  <2>1. /\ s \in Seq(Byte) /\ reduced[extended[s]] = s /\ Ended(extended[s])
        /\ extended[s] \in Seq(Byte) /\ Escaped(x) \in Seq(Byte) /\ Escaped(x) # <<>>
        /\ extended[Append(s, x)] = extended[s] \o Escaped(x)
        /\ Append(s, x) \in Seq(Byte)
    BY ExtendedBytes, EscapedBytes, AppendProperties
  <2>2. reduced[extended[s] \o Escaped(x)] = s \o <<x>>
    BY <2>1, ReducedConcat, ReducedByte
  <2>3. s \o <<x>> = Append(s, x)
    BY <2>1, AppendIsConcat
  <2>4. Ended(extended[s] \o Escaped(x))
    BY <2>1, LastConcat, ReducedByte DEF Ended
  <2> QED
    BY <2>1, <2>2, <2>3, <2>4
<1>3. T \subseteq Seq(Byte)
  OBVIOUS
<1> HIDE DEF T
<1>4. \A s \in Seq(Byte) : s \in T
  BY <1>1, <1>2, <1>3, SequenceInduction
<1>5. \A s \in Seq(Byte) : reduced[extended[s]] = s /\ Ended(extended[s])
  BY <1>4 DEF T
<1> QED
  BY <1>5 DEF Reduce, Extend, Plain

-----------------------------------------------------------------------------
(* One byte of a sequence changed.                                         *)

Changed(s, i, b) == [s EXCEPT ![i] = b]

LEMMA ChangedBytes ==
  ASSUME NEW S, NEW s \in Seq(S), NEW i \in DOMAIN s, NEW b \in S
  PROVE  /\ Changed(s, i, b) \in Seq(S) /\ Len(Changed(s, i, b)) = Len(s)
         /\ DOMAIN Changed(s, i, b) = DOMAIN s
         /\ Changed(s, i, b)[i] = b
         /\ \A j \in DOMAIN s : j # i => Changed(s, i, b)[j] = s[j]
<1>1. DOMAIN s = 1..Len(s)
  BY LenProperties
<1> DEFINE c == [s EXCEPT ![i] = b]
<1>2. c \in Seq(S) /\ Len(c) = Len(s) /\ \A j \in 1..Len(s) : c[j] = IF j = i THEN b ELSE s[j]
  BY <1>1, ExceptSeq
<1>3. DOMAIN c = 1..Len(c)
  BY <1>2, LenProperties
<1> HIDE DEF c
<1>4. c \in Seq(S) /\ Len(c) = Len(s) /\ DOMAIN c = DOMAIN s /\ c[i] = b /\ \A j \in DOMAIN s : j # i => c[j] = s[j]
  BY <1>1, <1>2, <1>3
<1>5. c = Changed(s, i, b)
  BY DEF c, Changed
<1> QED
  BY <1>4, <1>5

\* t is s but for the byte b at i.
Variant(t, s, i, b) ==
  Len(t) = Len(s) /\ t[i] = b /\ \A j \in DOMAIN s : j # i => t[j] = s[j]

LEMMA VariantIsChanged ==
  ASSUME NEW S, NEW s \in Seq(S), NEW i \in DOMAIN s, NEW b \in S, NEW t \in Seq(S), Variant(t, s, i, b)
  PROVE  t = Changed(s, i, b)
<1> DEFINE c == Changed(s, i, b)
<1>1. c \in Seq(S) /\ Len(c) = Len(s) /\ c[i] = b
  BY ChangedBytes
<1>2. ASSUME NEW j \in DOMAIN s, j # i PROVE c[j] = s[j]
  BY <1>2, ChangedBytes
<1>3. DOMAIN s = 1..Len(s)
  BY LenProperties
<1> HIDE DEF c
<1>4. Len(t) = Len(s) /\ \A j \in 1..Len(t) : t[j] = c[j]
  BY <1>1, <1>2, <1>3 DEF Variant
<1>5. t = c
  BY <1>1, <1>4, SeqEqual
<1> QED
  BY <1>5 DEF c

LEMMA Unchanged ==
  ASSUME NEW S, NEW s \in Seq(S), NEW i \in DOMAIN s
  PROVE  s[i] \in S /\ Changed(s, i, s[i]) = s
<1>1. s[i] \in S
  BY LenProperties
<1>2. Variant(s, s, i, s[i])
  BY DEF Variant
<1>3. s = Changed(s, i, s[i])
  BY <1>1, <1>2, VariantIsChanged
<1> QED
  BY <1>1, <1>3

LEMMA LeftIndex ==
  ASSUME NEW S, NEW s \in Seq(S), NEW t \in Seq(S), NEW u, u = s \o t, NEW i \in DOMAIN s
  PROVE  i \in DOMAIN u /\ u[i] = s[i]
<1>1. /\ u \in Seq(S) /\ Len(u) = Len(s) + Len(t)
      /\ \A j \in 1..Len(s) + Len(t) : u[j] = IF j <= Len(s) THEN s[j] ELSE t[j - Len(s)]
  BY ConcatProperties
<1>2. Len(s) \in Nat /\ Len(t) \in Nat /\ DOMAIN s = 1..Len(s) /\ DOMAIN u = 1..Len(u)
  BY <1>1, LenProperties
<1> QED
  BY <1>1, <1>2

LEMMA ChangedLeft ==
  ASSUME NEW S, NEW s \in Seq(S), NEW t \in Seq(S), NEW b \in S, NEW i \in DOMAIN s,
         NEW u, u = s \o t
  PROVE  Changed(u, i, b) = Changed(s, i, b) \o t
<1> DEFINE c == Changed(s, i, b)
<1>1. /\ c \in Seq(S) /\ Len(c) = Len(s) /\ c[i] = b
      /\ \A j \in DOMAIN s : j # i => c[j] = s[j]
  BY ChangedBytes
<1> HIDE DEF c
<1> DEFINE v == c \o t
<1>2. /\ u \in Seq(S) /\ Len(u) = Len(s) + Len(t)
      /\ \A j \in 1..Len(s) + Len(t) : u[j] = IF j <= Len(s) THEN s[j] ELSE t[j - Len(s)]
  BY ConcatProperties
<1>3. /\ v \in Seq(S) /\ Len(v) = Len(c) + Len(t)
      /\ \A j \in 1..Len(c) + Len(t) : v[j] = IF j <= Len(c) THEN c[j] ELSE t[j - Len(c)]
  BY <1>1, ConcatProperties
<1> HIDE DEF v
<1>4. Len(s) \in Nat /\ Len(t) \in Nat /\ DOMAIN s = 1..Len(s) /\ DOMAIN u = 1..Len(u)
  BY <1>2, LenProperties
<1>5. i \in DOMAIN u /\ v[i] = b /\ u[i] = s[i]
  BY <1>1, <1>2, <1>3, <1>4
<1>6. ASSUME NEW j \in DOMAIN u, j # i PROVE v[j] = u[j]
  <2>1. CASE j <= Len(s)
    BY <1>1, <1>2, <1>3, <1>4, <1>6, <2>1
  <2>2. CASE ~(j <= Len(s))
    BY <1>1, <1>2, <1>3, <1>4, <2>2
  <2> QED
    BY <2>1, <2>2
<1>7. Variant(v, u, i, b)
  BY <1>1, <1>2, <1>3, <1>5, <1>6 DEF Variant
<1>8. v = Changed(u, i, b)
  BY <1>2, <1>3, <1>5, <1>7, VariantIsChanged
<1> QED
  BY <1>8 DEF v, c

LEMMA AppendIndex ==
  ASSUME NEW S, NEW s \in Seq(S), NEW x \in S, NEW u, u = Append(s, x), NEW i \in DOMAIN u
  PROVE  IF i \in DOMAIN s THEN u[i] = s[i] ELSE u[i] = x /\ i = Len(s) + 1
BY AppendProperties, LenProperties

LEMMA ChangedBefore ==
  ASSUME NEW S, NEW s \in Seq(S), NEW x \in S, NEW b \in S,
         NEW u, u = Append(s, x), NEW i \in DOMAIN s
  PROVE  Changed(u, i, b) = Append(Changed(s, i, b), x)
<1>1. PICK t \in Seq(S) : t = <<x>>
  <2>1. <<x>> \in Seq(S)
    OBVIOUS
  <2> QED
    BY <2>1, Zenon
<1>2. u = s \o t
  BY <1>1, AppendIsConcat
<1>3. Changed(u, i, b) = Changed(s, i, b) \o t
  BY <1>2, ChangedLeft
<1> DEFINE c == Changed(s, i, b)
<1>4. c \in Seq(S)
  BY ChangedBytes
<1> HIDE DEF c
<1>5. Append(c, x) = c \o t
  BY <1>1, <1>4, AppendIsConcat
<1> QED
  BY <1>3, <1>5 DEF c

LEMMA ChangedLast ==
  ASSUME NEW S, NEW s \in Seq(S), NEW x \in S, NEW b \in S,
         NEW u, u = Append(s, x), NEW i \in DOMAIN u, i \notin DOMAIN s
  PROVE  Changed(u, i, b) = Append(s, b)
<1> DEFINE v == Append(s, b)
<1>1. u \in Seq(S) /\ v \in Seq(S) /\ Len(v) = Len(u)
  BY AppendProperties
<1>2. i = Len(s) + 1 /\ v[i] = b
  BY AppendIndex, AppendProperties, LenProperties
<1>3. v = Append(s, b) /\ DOMAIN v = DOMAIN u
  BY <1>1, LenProperties
<1> HIDE DEF v
<1>4. ASSUME NEW j \in DOMAIN u, j # i PROVE v[j] = u[j]
  <2>1. j \in DOMAIN s
    BY <1>1, <1>2, <1>4, AppendProperties, LenProperties
  <2>2. u[j] = s[j]
    BY <2>1, AppendIndex
  <2>3. v[j] = s[j]
    BY <1>3, <2>1, AppendIndex
  <2> QED
    BY <2>2, <2>3
<1>5. Variant(v, u, i, b)
  BY <1>1, <1>2, <1>4 DEF Variant
<1>6. v = Changed(u, i, b)
  BY <1>1, <1>5, VariantIsChanged
<1> QED
  BY <1>6 DEF v

\* The two cases as they are cited.
LastByte(s, x, u, i)   == s \in Seq(Byte) /\ x \in Byte /\ u = Append(s, x) /\ i \in DOMAIN u \ DOMAIN s
BeforeByte(s, x, u, i) == s \in Seq(Byte) /\ x \in Byte /\ u = Append(s, x) /\ i \in DOMAIN s

LEMMA LastChanged ==
  ASSUME NEW s, NEW x, NEW u, NEW i, NEW b \in Byte, LastByte(s, x, u, i)
  PROVE  Changed(u, i, b) = Append(s, b)
<1>1. s \in Seq(Byte) /\ x \in Byte /\ u = Append(s, x) /\ i \in DOMAIN u /\ i \notin DOMAIN s
  BY DEF LastByte
<1> QED
  BY <1>1, ChangedLast

LEMMA BeforeChanged ==
  ASSUME NEW s, NEW x, NEW u, NEW i, NEW b \in Byte, BeforeByte(s, x, u, i), NEW c, c = Changed(s, i, b)
  PROVE  Changed(u, i, b) = Append(c, x)
<1>1. s \in Seq(Byte) /\ x \in Byte /\ u = Append(s, x) /\ i \in DOMAIN s
  BY DEF BeforeByte
<1> QED
  BY <1>1, ChangedBefore

\* The CRC shows the change of one byte, wherever it is.
THEOREM CrcShowsChange ==
  \A s \in Seq(Byte) : \A i \in DOMAIN s, b \in Byte :
    calc_crc[Changed(s, i, b)] = calc_crc[s] => b = s[i]
<1> DEFINE T == {s \in Seq(Byte) : \A i \in DOMAIN s, b \in Byte :
                   calc_crc[Changed(s, i, b)] = calc_crc[s] => b = s[i]}
<1>1. <<>> \in T
  BY EmptySeq
<1>2. ASSUME NEW s \in T, NEW x \in Byte PROVE Append(s, x) \in T
  <2> DEFINE t == Append(s, x)
  <2>1. /\ s \in Seq(Byte) /\ t \in Seq(Byte)
        /\ \A i \in DOMAIN s, b \in Byte : calc_crc[Changed(s, i, b)] = calc_crc[s] => b = s[i]
    BY AppendProperties
  <2>4. t = Append(s, x)
    OBVIOUS
  <2> HIDE DEF t, T
  <2>2. /\ calc_crc[t] = Xor(crc_table[calc_crc[s]], x)
        /\ crc_table[calc_crc[s]] \in Byte /\ calc_crc[s] \in Byte
    BY <2>1, <2>4, CrcBytes, TableInjective
  <2>3. ASSUME NEW i \in DOMAIN t, NEW b \in Byte, calc_crc[Changed(t, i, b)] = calc_crc[t]
        PROVE  b = t[i]
    <3>1. CASE t[i] = x /\ Changed(t, i, b) = Append(s, b)
      <4>1. calc_crc[Append(s, b)] = Xor(crc_table[calc_crc[s]], b)
        BY <2>1, CrcBytes
      <4>2. b = x
        BY <2>2, <2>3, <3>1, <4>1, XorInjective
      <4> QED
        BY <3>1, <4>2
    <3>2. CASE i \in DOMAIN s /\ t[i] = s[i] /\ Changed(t, i, b) = Append(Changed(s, i, b), x)
      <4> DEFINE c == Changed(s, i, b)
      <4>1. c \in Seq(Byte)
        BY <2>1, <3>2, ChangedBytes
      <4> HIDE DEF c
      <4>2. /\ calc_crc[Append(c, x)] = Xor(crc_table[calc_crc[c]], x)
            /\ calc_crc[c] \in Byte /\ crc_table[calc_crc[c]] \in Byte
        BY <4>1, CrcBytes, TableInjective
      <4>3. Xor(crc_table[calc_crc[c]], x) = Xor(crc_table[calc_crc[s]], x)
        BY <2>2, <2>3, <3>2, <4>2 DEF c
      <4>4. crc_table[calc_crc[c]] = crc_table[calc_crc[s]]
        BY <2>2, <4>2, <4>3, XorInjective
      <4>5. calc_crc[c] = calc_crc[s]
        BY <2>2, <4>2, <4>4, TableInjective
      <4> QED
        BY <2>1, <3>2, <4>5 DEF c
    <3>3. CASE i \in DOMAIN s
      <4>1. t[i] = s[i]
        BY <2>1, <2>4, <3>3, AppendIndex
      <4>2. Changed(t, i, b) = Append(Changed(s, i, b), x)
        <5> DEFINE c == Changed(s, i, b)
        <5>1. BeforeByte(s, x, t, i) /\ c = Changed(s, i, b)
          BY <2>1, <2>4, <3>3 DEF BeforeByte
        <5> HIDE DEF c
        <5>2. Changed(t, i, b) = Append(c, x)
          BY <5>1, BeforeChanged
        <5> QED
          BY <5>1, <5>2
      <4> QED
        BY <3>2, <3>3, <4>1, <4>2
    <3>4. CASE i \notin DOMAIN s
      <4>1. t[i] = x
        BY <2>1, <2>4, <3>4, AppendIndex
      <4>2. Changed(t, i, b) = Append(s, b)
        BY <2>1, <2>4, <3>4, ChangedLast
      <4> QED
        BY <3>1, <4>1, <4>2
    <3> QED
      BY <3>3, <3>4
  <2> QED
    BY <2>1, <2>3 DEF t, T
<1>3. T \subseteq Seq(Byte)
  OBVIOUS
<1> HIDE DEF T
<1>4. \A s \in Seq(Byte) : s \in T
  BY <1>1, <1>2, <1>3, SequenceInduction
<1> QED
  BY <1>4 DEF T
-----------------------------------------------------------------------------
(* One byte of an extended sequence changed.                               *)

\* What follows the expand byte that stands for a marker.
Code(x) == IF x = seq_syn THEN seq_synexp ELSE seq_expexp

LEMMA MarkerBytes ==
  /\ seq_exp \in Byte /\ seq_exp \in Marker /\ seq_syn \in Byte /\ seq_syn \in Marker
  /\ seq_exp # seq_syn
  /\ \A x \in Marker : Code(x) \in Byte \ Marker /\ Marked(Code(x)) = x
  /\ \A x \in Byte : Marked(x) \in Marker
BY DEF Byte, Marker, Marked, Code, seq_syn, seq_exp, seq_synexp, seq_expexp

LEMMA ExtendedAppend ==
  ASSUME NEW s \in Seq(Byte), NEW x \in Byte
  PROVE  /\ x \notin Marker => extended[Append(s, x)] = Append(extended[s], x)
         /\ x \in Marker => extended[Append(s, x)] = Append(Append(extended[s], seq_exp), Code(x))
<1> DEFINE e == extended[s]
<1>1. e \in Seq(Byte) /\ extended[Append(s, x)] = e \o Escaped(x)
  BY ExtendedBytes
<1> HIDE DEF e
<1>2. CASE x \notin Marker
  <2>1. Escaped(x) = <<x>>
    BY <1>2, EscapedBytes
  <2>2. Append(e, x) = e \o <<x>>
    BY <1>1, AppendIsConcat
  <2> QED
    BY <1>1, <1>2, <2>1, <2>2 DEF e
<1>3. CASE x \in Marker
  <2> DEFINE y == Code(x)
             z == seq_exp
  <2>1. y \in Byte /\ z \in Byte
    BY <1>3, MarkerBytes
  <2>2. Escaped(x) = <<z, y>>
    BY <1>3, EscapedBytes DEF Code
  <2> HIDE DEF y, z
  <2>3. Append(<<z>>, y) = <<z, y>>
    <3> DEFINE u == Append(<<z>>, y)
    <3>1. <<z>> \in Seq(Byte) /\ Len(<<z>>) = 1 /\ <<z>>[1] = z
      BY <2>1
    <3>2. u \in Seq(Byte) /\ Len(u) = 2 /\ u[1] = z /\ u[2] = y
      BY <2>1, <3>1, AppendProperties
    <3> HIDE DEF u
    <3>3. <<z, y>> \in Seq(Byte) /\ Len(<<z, y>>) = 2 /\ <<z, y>>[1] = z /\ <<z, y>>[2] = y
      BY <2>1
    <3>4. \A i \in 1..2 : u[i] = <<z, y>>[i]
      BY <3>2, <3>3
    <3> QED
      BY <3>2, <3>3, <3>4, SeqEqual DEF u
  <2>4. <<z>> \in Seq(Byte)
    BY <2>1
  <2>5. e \o Append(<<z>>, y) = Append(e \o <<z>>, y) /\ e \o <<z>> = Append(e, z)
    BY <1>1, <2>1, <2>4, ConcatAppend, AppendIsConcat
  <2> QED
    BY <1>1, <1>3, <2>2, <2>3, <2>5 DEF e, y, z
<1> QED
  BY <1>2, <1>3

LEMMA RoundTrip ==
  ASSUME NEW s \in Seq(Byte)
  PROVE  extended[s] \in Seq(Byte) /\ reduced[extended[s]] = s /\ Ended(extended[s])
<1>1. Ended(extended[s]) /\ Reduce(Extend(Plain(s))) = Plain(s)
  BY ReduceUndoesExtend
<1>2. Reduce(Extend(Plain(s))) = Plain(reduced[extended[s]])
  BY DEF Reduce, Extend, Plain
<1>3. reduced[extended[s]] = s
  BY <1>1, <1>2 DEF Plain
<1> QED
  BY <1>1, <1>3, ExtendedBytes

\* SYN does not occur in an extended sequence.
LEMMA ExtendedNoSyn == \A s \in Seq(Byte) : extended[s] \in Seq(Byte \ {seq_syn})
<1> DEFINE N == Byte \ {seq_syn}
           T == {s \in Seq(Byte) : extended[s] \in Seq(N)}
<1>1. <<>> \in T
  BY ExtendedBytes, EmptySeq
<1>2. ASSUME NEW s \in T, NEW x \in Byte PROVE Append(s, x) \in T
  <2>1. s \in Seq(Byte) /\ extended[s] \in Seq(N) /\ Append(s, x) \in Seq(Byte)
    BY AppendProperties
  <2> DEFINE e == extended[s]
             y == Code(x)
  <2>2. e \in Seq(N)
    BY <2>1
  <2>3. seq_exp \in N /\ (x \notin Marker => x \in N) /\ (x \in Marker => y \in N)
    BY MarkerBytes DEF Marker
  <2>4. /\ x \notin Marker => extended[Append(s, x)] = Append(e, x)
        /\ x \in Marker => extended[Append(s, x)] = Append(Append(e, seq_exp), y)
    BY <2>1, ExtendedAppend
  <2> HIDE DEF e, y, N
  <2>5. CASE x \notin Marker
    <3>1. Append(e, x) \in Seq(N)
      BY <2>2, <2>3, <2>5, AppendProperties
    <3> QED
      BY <2>1, <2>4, <2>5, <3>1, Zenon
  <2>6. CASE x \in Marker
    <3>1. Append(e, seq_exp) \in Seq(N)
      BY <2>2, <2>3, AppendProperties
    <3>2. Append(Append(e, seq_exp), y) \in Seq(N)
      BY <2>3, <2>6, <3>1, AppendProperties
    <3> QED
      BY <2>1, <2>4, <2>6, <3>2, Zenon
  <2> QED
    BY <2>5, <2>6
<1>3. T \subseteq Seq(Byte)
  OBVIOUS
<1> HIDE DEF T
<1>4. \A s \in Seq(Byte) : s \in T
  BY <1>1, <1>2, <1>3, SequenceInduction
<1> QED
  BY <1>4 DEF T

\* With the byte b at i the extended sequence e is still one byte after the
\* other, and some c at i extends what is read.
Resumes(e, i, b) ==
  LET d == Changed(e, i, b)
  IN Ended(d) /\ Len(reduced[d]) = Len(reduced[e])
       /\ \E c \in Byte : extended[reduced[d]] = Changed(e, i, c)

LEMMA EndedAppend ==
  ASSUME NEW s \in Seq(Byte), NEW x \in Byte
  PROVE  Ended(Append(s, x)) <=> x \notin Marker
BY FrontAppend DEF Ended

LEMMA ReducedAppend ==
  ASSUME NEW s \in Seq(Byte), NEW x \in Byte
  PROVE  /\ reduced[s] \in Seq(Byte)
         /\ x \in Marker => reduced[Append(s, x)] = reduced[s]
         /\ x \notin Marker /\ Ended(s) => reduced[Append(s, x)] = Append(reduced[s], x)
         /\ x \notin Marker /\ ~Ended(s) => reduced[Append(s, x)] = Append(reduced[s], Marked(x))
BY ReducedBytes DEF Ended, ReadAfter

\* The last byte changed.
LEMMA ResumesLast ==
  ASSUME NEW s \in Seq(Byte), NEW x \in Byte, NEW b \in Byte \ Marker,
         NEW e, e = extended[Append(s, x)], NEW i, i = Len(e)
  PROVE  Resumes(e, i, b)
<1> DEFINE e1 == extended[s]
<1>1. e1 \in Seq(Byte) /\ reduced[e1] = s /\ Ended(e1) /\ Append(s, x) \in Seq(Byte)
  BY RoundTrip, AppendProperties
<1>2. reduced[e] = Append(s, x)
  BY <1>1, RoundTrip
<1>3. /\ x \notin Marker => e = Append(e1, x)
      /\ x \in Marker => e = Append(Append(e1, seq_exp), Code(x))
  BY ExtendedAppend
<1> HIDE DEF e1
<1>4. CASE x \notin Marker
  <2>1. i \in DOMAIN e /\ i \notin DOMAIN e1
    BY <1>1, <1>3, <1>4, AppendProperties, LenProperties
  <2>2. \A c \in Byte : Changed(e, i, c) = Append(e1, c)
    <3>1. LastByte(e1, x, e, i)
      BY <1>1, <1>3, <1>4, <2>1 DEF LastByte
    <3> QED
      BY <3>1, LastChanged
  <2>3. reduced[Append(e1, b)] = Append(s, b) /\ Ended(Append(e1, b))
    BY <1>1, ReducedAppend, EndedAppend
  <2>4. extended[Append(s, b)] = Append(e1, b)
    BY ExtendedAppend DEF e1
  <2>5. Len(Append(s, b)) = Len(Append(s, x))
    BY AppendProperties
  <2>6. b \in Byte
    OBVIOUS
  <2> QED
    BY <1>2, <2>2, <2>3, <2>4, <2>5, <2>6, Zenon DEF Resumes
<1>5. CASE x \in Marker
  <2> DEFINE e2 == Append(e1, seq_exp)
             y == Code(x)
             m == Marked(b)
             n == Code(m)
  <2>1. e2 \in Seq(Byte) /\ y \in Byte /\ m \in Byte /\ m \in Marker /\ n \in Byte
    BY <1>1, <1>5, MarkerBytes, AppendProperties DEF Marker
  <2>2. e = Append(e2, y)
    BY <1>3, <1>5
  <2>3. ~Ended(e2) /\ reduced[e2] = s
    BY <1>1, MarkerBytes, EndedAppend, ReducedAppend
  <2>4. extended[Append(s, m)] = Append(e2, n)
    BY <2>1, ExtendedAppend DEF e1
  <2> HIDE DEF e2, y, n
  <2>5. i \in DOMAIN e /\ i \notin DOMAIN e2
    BY <2>1, <2>2, AppendProperties, LenProperties
  <2>6. \A c \in Byte : Changed(e, i, c) = Append(e2, c)
    <3>1. LastByte(e2, y, e, i)
      BY <2>1, <2>2, <2>5 DEF LastByte
    <3> QED
      BY <3>1, LastChanged
  <2>7. reduced[Append(e2, b)] = Append(s, m) /\ Ended(Append(e2, b))
    BY <2>1, <2>3, ReducedAppend, EndedAppend
  <2> HIDE DEF m
  <2>8. Len(Append(s, m)) = Len(Append(s, x))
    BY <2>1, AppendProperties
  <2>9. b \in Byte
    OBVIOUS
  <2> QED
    BY <1>2, <2>1, <2>4, <2>6, <2>7, <2>8, <2>9, Zenon DEF Resumes
<1> QED
  BY <1>4, <1>5

\* A byte before the last one changed.
LEMMA ResumesBefore ==
  ASSUME NEW s \in Seq(Byte), NEW x \in Byte, NEW b \in Byte,
         NEW e1, e1 = extended[s], NEW i \in DOMAIN e1, Resumes(e1, i, b)
  PROVE  Resumes(extended[Append(s, x)], i, b)
<1> DEFINE d1 == Changed(e1, i, b)
           r == reduced[d1]
           e == extended[Append(s, x)]
<1>1. e1 \in Seq(Byte) /\ reduced[e1] = s /\ Append(s, x) \in Seq(Byte)
  BY RoundTrip, AppendProperties
<1>2. reduced[e] = Append(s, x)
  BY <1>1, RoundTrip
<1>3. d1 \in Seq(Byte)
  BY <1>1, ChangedBytes
<1>4. r \in Seq(Byte) /\ Ended(d1) /\ Len(r) = Len(s)
  BY <1>1, <1>3, ReducedBytes DEF Resumes
<1>5. PICK c \in Byte : extended[r] = Changed(e1, i, c)
  BY DEF Resumes
<1>6. /\ x \notin Marker => e = Append(e1, x)
      /\ x \in Marker => e = Append(Append(e1, seq_exp), Code(x))
  BY ExtendedAppend
<1> HIDE DEF e
<1>7. Append(r, x) \in Seq(Byte) /\ Len(Append(r, x)) = Len(Append(s, x))
  BY <1>4, AppendProperties
<1>8. CASE x \notin Marker
  <2>1. e = Append(e1, x)
    BY <1>6, <1>8
  <2>2. \A a \in Byte : Changed(e, i, a) = Append(Changed(e1, i, a), x)
    <3>1. e1 \in Seq(Byte)
      BY <1>1
    <3>2. ASSUME NEW a \in Byte PROVE Changed(e, i, a) = Append(Changed(e1, i, a), x)
      BY <2>1, <3>1, ChangedBefore
    <3> QED
      BY <3>2
  <2>3. Changed(e, i, b) = Append(d1, x) /\ Changed(e, i, c) = Append(extended[r], x)
    BY <1>5, <2>2
  <2> HIDE DEF d1
  <2>4. reduced[Append(d1, x)] = Append(r, x) /\ Ended(Append(d1, x))
    BY <1>3, <1>4, <1>8, ReducedAppend, EndedAppend
  <2> HIDE DEF r
  <2>5. extended[Append(r, x)] = Append(extended[r], x)
    BY <1>4, <1>8, ExtendedAppend
  <2> QED
    BY <1>2, <1>7, <2>3, <2>4, <2>5, Zenon DEF Resumes, e
<1>9. CASE x \in Marker
  <2> DEFINE y == Code(x)
             e2 == Append(e1, seq_exp)
             d2 == Append(d1, seq_exp)
  <2>1. y \in Byte /\ y \notin Marker /\ Marked(y) = x /\ seq_exp \in Byte /\ seq_exp \in Marker
    BY <1>9, MarkerBytes
  <2>2. e2 \in Seq(Byte) /\ i \in DOMAIN e2
    BY <1>1, <2>1, AppendProperties, LenProperties
  <2>3. e = Append(e2, y)
    BY <1>6, <1>9
  <2>4. d2 \in Seq(Byte) /\ reduced[d2] = r /\ ~Ended(d2)
    <3> HIDE DEF d1
    <3> QED
      BY <1>3, <1>4, <2>1, AppendProperties, ReducedAppend, EndedAppend
  <2>5. e2 = Append(e1, seq_exp)
    OBVIOUS
  <2> HIDE DEF y, e2
  <2>6. \A a \in Byte : Changed(e, i, a) = Append(Append(Changed(e1, i, a), seq_exp), y)
    <3>1. e1 \in Seq(Byte)
      BY <1>1
    <3>2. e2 \in Seq(Byte)
      BY <2>2
    <3>3. y \in Byte
      BY <2>1
    <3>4. seq_exp \in Byte
      BY <2>1
    <3>5. ASSUME NEW a \in Byte PROVE Changed(e, i, a) = Append(Append(Changed(e1, i, a), seq_exp), y)
      <4>1. i \in DOMAIN e2
        BY <2>2
      <4>2. Changed(e, i, a) = Append(Changed(e2, i, a), y)
        BY <2>3, <3>2, <3>3, <4>1, ChangedBefore
      <4>3. Changed(e2, i, a) = Append(Changed(e1, i, a), seq_exp)
        BY <2>5, <3>1, <3>4, ChangedBefore
      <4> QED
        BY <4>2, <4>3
    <3> QED
      BY <3>5
  <2>7. Changed(e, i, b) = Append(d2, y) /\ Changed(e, i, c) = Append(Append(extended[r], seq_exp), y)
    BY <1>5, <2>6
  <2> HIDE DEF d2
  <2>8. reduced[Append(d2, y)] = Append(r, x) /\ Ended(Append(d2, y))
    BY <2>1, <2>4, ReducedAppend, EndedAppend
  <2> HIDE DEF r
  <2>9. extended[Append(r, x)] = Append(Append(extended[r], seq_exp), y)
    BY <1>4, <1>9, ExtendedAppend DEF y
  <2> QED
    BY <1>2, <1>7, <2>7, <2>8, <2>9, Zenon DEF Resumes, e
<1> QED
  BY <1>8, <1>9 DEF e

\* Whatever byte of an extended sequence noise turns into another one, no
\* marker becoming or being one.
LEMMA ChangeResumes ==
  ASSUME NEW s \in Seq(Byte), NEW e, e = extended[s],
         NEW i \in DOMAIN e, NEW b \in Byte \ Marker, e[i] \notin Marker
  PROVE  Resumes(e, i, b)
<1> DEFINE Sound(u) == \A j \in DOMAIN u : u[j] \notin Marker => Resumes(u, j, b)
           T == {u \in Seq(Byte) : Sound(extended[u])}
<1>1. <<>> \in T
  BY ExtendedBytes, EmptySeq
<1>2. ASSUME NEW u \in T, NEW x \in Byte PROVE Append(u, x) \in T
  <2> DEFINE e1 == extended[u]
             e2 == extended[Append(u, x)]
  <2>1. u \in Seq(Byte) /\ e1 \in Seq(Byte) /\ Append(u, x) \in Seq(Byte) /\ e2 \in Seq(Byte)
    BY AppendProperties, RoundTrip
  <2>2. Sound(e1)
    OBVIOUS
  <2>3. /\ x \notin Marker => e2 = Append(e1, x)
        /\ x \in Marker => e2 = Append(Append(e1, seq_exp), Code(x))
    BY <2>1, ExtendedAppend
  <2>4. e1 = extended[u] /\ e2 = extended[Append(u, x)]
    OBVIOUS
  <2> HIDE DEF e1, e2
  <2>5. ASSUME NEW j \in DOMAIN e2, e2[j] \notin Marker PROVE Resumes(e2, j, b)
    <3>1. CASE j = Len(e2)
      BY <2>1, <2>4, <3>1, ResumesLast
    <3>2. CASE j # Len(e2)
      <4>1. j \in DOMAIN e1 /\ e1[j] \notin Marker
        <5>1. CASE x \notin Marker
          <6>1. e2 = Append(e1, x) /\ Len(e2) = Len(e1) + 1
            BY <2>1, <2>3, <5>1, AppendProperties
          <6>2. j \in DOMAIN e1
            BY <2>1, <3>2, <6>1, LenProperties
          <6>3. e2[j] = e1[j]
            BY <2>1, <6>1, <6>2, AppendIndex
          <6> QED
            BY <2>5, <6>2, <6>3
        <5>2. CASE x \in Marker
          <6> DEFINE e3 == Append(e1, seq_exp)
                     y == Code(x)
          <6>1. e3 \in Seq(Byte) /\ Len(e3) = Len(e1) + 1 /\ y \in Byte /\ seq_exp \in Byte
            BY <2>1, <5>2, AppendProperties, MarkerBytes
          <6>2. e2 = Append(e3, y) /\ e3 = Append(e1, seq_exp)
            BY <2>3, <5>2
          <6> HIDE DEF e3, y
          <6>3. Len(e2) = Len(e3) + 1
            BY <6>1, <6>2, AppendProperties
          <6>4. j \in DOMAIN e3
            BY <2>1, <3>2, <6>1, <6>3, LenProperties
          <6>5. e2[j] = e3[j]
            BY <6>1, <6>2, <6>4, AppendIndex
          <6>6. IF j \in DOMAIN e1 THEN e3[j] = e1[j] ELSE e3[j] = seq_exp
            BY <2>1, <6>1, <6>2, <6>4, AppendIndex
          <6> QED
            BY <2>5, <6>5, <6>6, MarkerBytes
        <5> QED
          BY <5>1, <5>2
      <4>2. Resumes(e1, j, b)
        BY <2>2, <4>1
      <4>3. b \in Byte /\ u \in Seq(Byte)
        BY <2>1
      <4> QED
        BY <2>4, <4>1, <4>2, <4>3, ResumesBefore
    <3> QED
      BY <3>1, <3>2
  <2>6. Sound(e2)
    BY <2>5
  <2> HIDE DEF Sound
  <2> QED
    BY <2>1, <2>4, <2>6
<1>3. T \subseteq Seq(Byte)
  OBVIOUS
<1> HIDE DEF T
<1>4. \A u \in Seq(Byte) : u \in T
  BY <1>1, <1>2, <1>3, SequenceInduction
<1> QED
  BY <1>4 DEF T

\* A reader takes no other bytes for those that were sent, though one of them
\* changed: with the CRC of what was sent, it has read what was sent.
THEOREM NoiseSeen ==
  ASSUME NEW s \in Seq(Byte), NEW e, e = extended[s],
         NEW i \in DOMAIN e, NEW b \in Byte \ Marker, e[i] \notin Marker,
         NEW r, r = reduced[Changed(e, i, b)]
  PROVE  /\ r \in Seq(Byte) /\ Len(r) = Len(s) /\ Ended(Changed(e, i, b))
         /\ calc_crc[extended[r]] = calc_crc[e] => r = s
<1>1. Resumes(e, i, b)
  BY ChangeResumes
<1>2. e \in Seq(Byte) /\ reduced[e] = s
  BY RoundTrip
<1>3. b \in Byte
  OBVIOUS
<1>4. Changed(e, i, b) \in Seq(Byte)
  BY <1>2, <1>3, ChangedBytes
<1>5. r \in Seq(Byte) /\ Len(r) = Len(s) /\ Ended(Changed(e, i, b))
  BY <1>1, <1>2, <1>4, ReducedBytes DEF Resumes
<1>6. PICK c \in Byte : extended[r] = Changed(e, i, c)
  BY <1>1 DEF Resumes
<1>7. ASSUME calc_crc[extended[r]] = calc_crc[e] PROVE r = s
  <2>1. calc_crc[Changed(e, i, c)] = calc_crc[e]
    BY <1>6, <1>7
  <2>2. c = e[i]
    BY <1>2, <2>1, CrcShowsChange
  <2>3. extended[r] = e
    BY <1>2, <1>6, <2>2, Unchanged
  <2> QED
    BY <1>2, <1>5, <2>3, RoundTrip
<1> QED
  BY <1>5, <1>7

-----------------------------------------------------------------------------
(* One sequence after another.                                             *)

LEMMA ExtendedConcat ==
  ASSUME NEW s \in Seq(Byte)
  PROVE  \A t \in Seq(Byte) : extended[s \o t] = extended[s] \o extended[t]
<1> DEFINE T == {t \in Seq(Byte) : extended[s \o t] = extended[s] \o extended[t]}
<1>1. <<>> \in T
  <2>1. extended[s] \in Seq(Byte) /\ extended[<<>>] = <<>>
    BY ExtendedBytes
  <2> QED
    BY <2>1, EmptySeq, ConcatEmptySeq
<1>2. ASSUME NEW t \in T, NEW x \in Byte PROVE Append(t, x) \in T
  <2>1. /\ t \in Seq(Byte) /\ extended[s \o t] = extended[s] \o extended[t]
        /\ s \o t \in Seq(Byte) /\ Append(t, x) \in Seq(Byte)
        /\ extended[s] \in Seq(Byte) /\ extended[t] \in Seq(Byte) /\ Escaped(x) \in Seq(Byte)
    BY ConcatProperties, AppendProperties, RoundTrip, EscapedBytes
  <2>2. s \o Append(t, x) = Append(s \o t, x)
    BY <2>1, ConcatAppend
  <2>3. /\ extended[Append(s \o t, x)] = extended[s \o t] \o Escaped(x)
        /\ extended[Append(t, x)] = extended[t] \o Escaped(x)
    BY <2>1, ExtendedBytes
  <2>4. (extended[s] \o extended[t]) \o Escaped(x) = extended[s] \o (extended[t] \o Escaped(x))
    <3> DEFINE a == extended[s]
               b == extended[t]
               c == Escaped(x)
    <3>1. a \in Seq(Byte) /\ b \in Seq(Byte) /\ c \in Seq(Byte)
      BY <2>1
    <3> HIDE DEF a, b, c
    <3>2. (a \o b) \o c = a \o (b \o c)
      BY <3>1, ConcatAssociative
    <3> QED
      BY <3>2 DEF a, b, c
  <2>5. extended[s \o Append(t, x)] = extended[s] \o extended[Append(t, x)]
    BY <2>1, <2>2, <2>3, <2>4, Zenon
  <2> QED
    BY <2>1, <2>5
<1>3. T \subseteq Seq(Byte)
  OBVIOUS
<1> HIDE DEF T
<1>4. \A t \in Seq(Byte) : t \in T
  BY <1>1, <1>2, <1>3, SequenceInduction
<1> QED
  BY <1>4 DEF T

\* Bytes without a marker are the same before and after extend() and reduce().
LEMMA NoMarker ==
  \A u \in Seq(Byte \ Marker) : u \in Seq(Byte) /\ extended[u] = u /\ reduced[u] = u /\ Ended(u)
<1> DEFINE N == Byte \ Marker
           T == {u \in Seq(N) : u \in Seq(Byte) /\ extended[u] = u}
<1>1. <<>> \in T
  BY ExtendedBytes, EmptySeq
<1>2. ASSUME NEW u \in T, NEW x \in N PROVE Append(u, x) \in T
  <2>1. u \in Seq(N) /\ u \in Seq(Byte) /\ extended[u] = u /\ x \in Byte /\ x \notin Marker
    OBVIOUS
  <2>2. extended[Append(u, x)] = Append(u, x) /\ Append(u, x) \in Seq(Byte)
    BY <2>1, ExtendedAppend, AppendProperties
  <2>3. x \in N
    OBVIOUS
  <2> HIDE DEF N
  <2>4. Append(u, x) \in Seq(N)
    BY <2>1, <2>3, AppendProperties
  <2> QED
    BY <2>2, <2>4
<1>3. T \subseteq Seq(N)
  OBVIOUS
<1>4. \A u \in Seq(N) : u \in T
  <2> HIDE DEF T, N
  <2> QED
    BY <1>1, <1>2, <1>3, SequenceInduction
<1>5. ASSUME NEW u \in Seq(N)
      PROVE  u \in Seq(Byte) /\ extended[u] = u /\ reduced[u] = u /\ Ended(u)
  <2>1. u \in Seq(Byte) /\ extended[u] = u
    BY <1>4
  <2>2. reduced[extended[u]] = u /\ Ended(extended[u])
    BY <2>1, RoundTrip
  <2> QED
    BY <2>1, <2>2
<1> QED
  BY <1>5

\* The byte at i of u, s and then t, is the one at k of t.
Lies(S, u, s, t, i, k) ==
  k \in DOMAIN t /\ u[i] = t[k] /\ \A b \in S : Changed(u, i, b) = s \o Changed(t, k, b)

LEMMA ChangedRight ==
  ASSUME NEW S, NEW s \in Seq(S), NEW t \in Seq(S),
         NEW u, u = s \o t, NEW i \in DOMAIN u, i \notin DOMAIN s
  PROVE  \E k : Lies(S, u, s, t, i, k)
<1> DEFINE k == i - Len(s)
<1>1. /\ u \in Seq(S) /\ Len(u) = Len(s) + Len(t)
      /\ \A j \in 1..Len(s) + Len(t) : u[j] = IF j <= Len(s) THEN s[j] ELSE t[j - Len(s)]
  BY ConcatProperties
<1>2. Len(s) \in Nat /\ Len(t) \in Nat /\ DOMAIN s = 1..Len(s) /\ DOMAIN u = 1..Len(u) /\ DOMAIN t = 1..Len(t)
  BY <1>1, LenProperties
<1>3. k \in DOMAIN t /\ u[i] = t[k] /\ i \in 1..Len(s) + Len(t)
  <2>1. i \in 1..Len(s) + Len(t) /\ ~(i <= Len(s))
    BY <1>1, <1>2
  <2> QED
    BY <1>1, <1>2, <2>1
<1>11. k = i - Len(s)
  OBVIOUS
<1> HIDE DEF k
<1>12. ASSUME NEW b \in S PROVE Changed(u, i, b) = s \o Changed(t, k, b)
  <2> DEFINE c == Changed(t, k, b)
             v == s \o c
  <2>4. /\ c \in Seq(S) /\ Len(c) = Len(t) /\ c[k] = b
        /\ \A j \in DOMAIN t : j # k => c[j] = t[j]
    BY <1>3, ChangedBytes
  <2> HIDE DEF c
  <2>5. /\ v \in Seq(S) /\ Len(v) = Len(s) + Len(c)
        /\ \A j \in 1..Len(s) + Len(c) : v[j] = IF j <= Len(s) THEN s[j] ELSE c[j - Len(s)]
    BY <2>4, ConcatProperties
  <2> HIDE DEF v
  <2>6. v[i] = b
    <3>1. i \in 1..Len(s) + Len(c) /\ ~(i <= Len(s)) /\ i - Len(s) = k
      BY <1>2, <1>3, <1>11, <2>4
    <3> QED
      BY <2>4, <2>5, <3>1
  <2>7. ASSUME NEW j \in DOMAIN u, j # i PROVE v[j] = u[j]
    <3>1. CASE j <= Len(s)
      BY <1>1, <1>2, <2>4, <2>5, <3>1
    <3>2. CASE ~(j <= Len(s))
      <4>1. j - Len(s) \in DOMAIN t /\ j - Len(s) # k
        BY <1>1, <1>2, <1>3, <1>11, <2>7, <3>2
      <4> QED
        BY <1>1, <1>2, <2>4, <2>5, <3>2, <4>1
    <3> QED
      BY <3>1, <3>2
  <2>8. i \in DOMAIN u /\ Len(v) = Len(u)
    BY <1>1, <1>2, <1>3, <2>4, <2>5
  <2>9. Variant(v, u, i, b)
    BY <2>6, <2>7, <2>8 DEF Variant
  <2>10. v = Changed(u, i, b)
    BY <1>1, <2>5, <2>8, <2>9, VariantIsChanged
  <2> QED
    BY <2>10 DEF v, c
<1> QED
  BY <1>3, <1>12, Zenon DEF Lies
=============================================================================
