--------------------------- MODULE ExchangeProofs ---------------------------
(***************************************************************************)
(* Theorems about Exchange, for every address, every set of messages,      *)
(* responses and noise, and any number of disturbed parts.                 *)
(***************************************************************************)
EXTENDS Exchange, SequenceProofs

-----------------------------------------------------------------------------
(* What a reader counts.                                                   *)

LEMMA ByteNat == \A byte \in Byte : byte \in Nat
BY DEF Byte

\* What a byte adds to what a reader counts.
Counted(byte) == IF byte = seq_exp THEN 0 ELSE 1

LEMMA SizeDef ==
  ASSUME NEW s \in Seq(Byte)
  PROVE  size[s] = IF s = <<>> THEN 0 ELSE size[Front(s)] + Counted(Last(s))
<1> DEFINE Next1(t, v) == v + Counted(Last(t))
           step == [a \in (Seq(Byte) \ {<<>>}) \X Nat |-> Next1(a[1], a[2])]
<1>1. ASSUME NEW t \in Seq(Byte) \ {<<>>}, NEW v \in Nat PROVE Next1(t, v) \in Nat
  BY DEF Counted
<1> HIDE DEF Next1
<1>2. step \in Steps(Byte, Nat)
  BY <1>1 DEF Steps
<1>3. \A t \in Seq(Byte) \ {<<>>}, v \in Nat : step[<<t, v>>] = Next1(t, v)
  OBVIOUS
<1> HIDE DEF step
<1>4. PICK f \in [Seq(Byte) -> Nat] : Recursive(f, Byte, 0, step)
  BY <1>2, Recursion
<1>5. \A t \in Seq(Byte) : f[t] = IF t = <<>> THEN 0 ELSE f[Front(t)] + Counted(Last(t))
  <2>1. ASSUME NEW t \in Seq(Byte)
        PROVE  f[t] = IF t = <<>> THEN 0 ELSE f[Front(t)] + Counted(Last(t))
    <3>1. CASE t = <<>>
      BY <1>4, <3>1 DEF Recursive
    <3>2. CASE t # <<>>
      <4>1. Front(t) \in Seq(Byte)
        BY <3>2, FrontLast
      <4>2. f[Front(t)] \in Nat
        BY <4>1
      <4>3. f[t] = step[<<t, f[Front(t)]>>]
        BY <1>4, <3>2 DEF Recursive
      <4> QED
        BY <1>3, <3>2, <4>2, <4>3 DEF Next1
    <3> QED
      BY <3>1, <3>2
  <2> QED
    BY <2>1
<1>6. f = [t \in Seq(Byte) |-> IF t = <<>> THEN 0 ELSE f[Front(t)] + Counted(Last(t))]
  BY <1>5
<1>7. size = [t \in Seq(Byte) |-> IF t = <<>> THEN 0 ELSE size[Front(t)] + Counted(Last(t))]
  BY <1>6, Zenon DEF size, Counted
<1> QED
  BY <1>7

LEMMA SizeBytes ==
  /\ size[<<>>] = 0
  /\ \A s \in Seq(Byte) :
       /\ size[s] \in Nat
       /\ \A x \in Byte : size[Append(s, x)] = size[s] + Counted(x)
<1>1. size[<<>>] = 0
  BY SizeDef, EmptySeq
<1>2. ASSUME NEW s \in Seq(Byte), NEW x \in Byte PROVE size[Append(s, x)] = size[s] + Counted(x)
  <2>1. /\ Append(s, x) \in Seq(Byte) /\ Append(s, x) # <<>>
        /\ Front(Append(s, x)) = s /\ Last(Append(s, x)) = x
    BY FrontAppend
  <2> QED
    BY <2>1, SizeDef
<1> DEFINE T == {s \in Seq(Byte) : size[s] \in Nat}
<1>3. <<>> \in T
  BY <1>1, EmptySeq
<1>4. ASSUME NEW s \in T, NEW x \in Byte PROVE Append(s, x) \in T
  BY <1>2, AppendProperties DEF Counted
<1>5. T \subseteq Seq(Byte)
  OBVIOUS
<1> HIDE DEF T
<1>6. \A s \in Seq(Byte) : s \in T
  BY <1>3, <1>4, <1>5, SequenceInduction
<1> QED
  BY <1>1, <1>2, <1>6 DEF T

\* A reader counts the bytes that are meant.
LEMMA SizeExtended == \A s \in Seq(Byte) : size[extended[s]] = Len(s)
<1> DEFINE T == {s \in Seq(Byte) : size[extended[s]] = Len(s)}
<1>1. <<>> \in T
  BY ExtendedBytes, SizeBytes, EmptySeq
<1>2. ASSUME NEW s \in T, NEW x \in Byte PROVE Append(s, x) \in T
  <2> DEFINE e == extended[s]
             y == Code(x)
  <2>1. s \in Seq(Byte) /\ e \in Seq(Byte) /\ size[e] = Len(s) /\ Append(s, x) \in Seq(Byte)
    BY RoundTrip, AppendProperties
  <2>2. /\ x \notin Marker => extended[Append(s, x)] = Append(e, x)
        /\ x \in Marker => extended[Append(s, x)] = Append(Append(e, seq_exp), y)
    BY <2>1, ExtendedAppend
  <2>3. Len(s) \in Nat /\ Len(Append(s, x)) = Len(s) + 1
    BY <2>1, LenProperties, AppendProperties
  <2>4. seq_exp \in Byte /\ Counted(seq_exp) = 0 /\ (x \notin Marker => Counted(x) = 1)
    BY MarkerBytes DEF Counted, Marker
  <2>5. x \in Marker => y \in Byte /\ Counted(y) = 1
    BY MarkerBytes DEF Counted, Marker
  <2> HIDE DEF e, y
  <2>6. size[extended[Append(s, x)]] = Len(s) + 1
    <3>1. CASE x \notin Marker
      <4>1. size[Append(e, x)] = size[e] + 1
        BY <2>1, <2>4, <3>1, SizeBytes
      <4> QED
        BY <2>1, <2>2, <2>3, <3>1, <4>1
    <3>2. CASE x \in Marker
      <4>1. Append(e, seq_exp) \in Seq(Byte) /\ size[Append(e, seq_exp)] = size[e] + 0
        BY <2>1, <2>4, SizeBytes, AppendProperties
      <4>2. size[Append(Append(e, seq_exp), y)] = size[Append(e, seq_exp)] + 1
        BY <2>5, <3>2, <4>1, SizeBytes
      <4>3. size[Append(e, seq_exp)] = Len(s)
        BY <2>1, <2>3, <4>1
      <4>4. extended[Append(s, x)] = Append(Append(e, seq_exp), y)
        BY <2>2, <3>2
      <4> QED
        BY <4>2, <4>3, <4>4
    <3> QED
      BY <3>1, <3>2
  <2> QED
    BY <2>1, <2>3, <2>6
<1>3. T \subseteq Seq(Byte)
  OBVIOUS
<1> HIDE DEF T
<1>4. \A s \in Seq(Byte) : s \in T
  BY <1>1, <1>2, <1>3, SequenceInduction
<1> QED
  BY <1>4 DEF T

\* One byte changed.
LEMMA SizeChanged ==
  ASSUME NEW s \in Seq(Byte), NEW i \in DOMAIN s, NEW b \in Byte
  PROVE  size[Changed(s, i, b)] + Counted(s[i]) = size[s] + Counted(b)
<1> DEFINE Sized(u) == \A j \in DOMAIN u : size[Changed(u, j, b)] + Counted(u[j]) = size[u] + Counted(b)
           T == {u \in Seq(Byte) : Sized(u)}
<1>1. <<>> \in T
  BY EmptySeq
<1>2. ASSUME NEW u \in T, NEW x \in Byte PROVE Append(u, x) \in T
  <2> DEFINE v == Append(u, x)
  <2>1. u \in Seq(Byte) /\ v \in Seq(Byte) /\ Sized(u)
    BY AppendProperties
  <2>2. v = Append(u, x)
    OBVIOUS
  <2> HIDE DEF v
  <2>3. ASSUME NEW j \in DOMAIN v PROVE size[Changed(v, j, b)] + Counted(v[j]) = size[v] + Counted(b)
    <3>1. size[v] = size[u] + Counted(x) /\ size[u] \in Nat /\ Counted(x) \in Nat /\ Counted(b) \in Nat
      BY <2>1, <2>2, SizeBytes DEF Counted
    <3>2. CASE j \in DOMAIN u
      <4>1. v[j] = u[j]
        BY <2>1, <2>2, <3>2, AppendIndex
      <4> DEFINE d == Changed(u, j, b)
      <4>2. d \in Seq(Byte)
        BY <2>1, <3>2, ChangedBytes
      <4>3. size[d] + Counted(u[j]) = size[u] + Counted(b)
        BY <2>1, <3>2
      <4>4. u \in Seq(Byte)
        BY <2>1
      <4>5. Changed(v, j, b) = Append(d, x)
        BY <2>2, <3>2, <4>4, ChangedBefore
      <4> HIDE DEF d
      <4>6. size[Append(d, x)] = size[d] + Counted(x) /\ size[d] \in Nat
        BY <4>2, SizeBytes
      <4> DEFINE a == Counted(u[j])
      <4>7. a \in Nat /\ Counted(v[j]) = a
        BY <4>1 DEF Counted
      <4>8. size[d] + a = size[u] + Counted(b)
        BY <4>3
      <4> HIDE DEF a
      <4>9. size[Changed(v, j, b)] = size[d] + Counted(x)
        BY <4>5, <4>6
      <4> DEFINE m == size[u]
                 n == size[d]
                 q == Counted(x)
                 z == Counted(b)
      <4>10. m \in Nat /\ n \in Nat /\ q \in Nat /\ z \in Nat /\ n + a = m + z
        BY <3>1, <4>6, <4>8
      <4>11. size[Changed(v, j, b)] = n + q /\ size[v] = m + q
        BY <3>1, <4>9
      <4> HIDE DEF m, n, q, z
      <4>12. (n + q) + a = (m + q) + z
        BY <4>7, <4>10
      <4> QED
        BY <4>7, <4>11, <4>12 DEF z
    <3>3. CASE j \notin DOMAIN u
      <4>1. v[j] = x
        BY <2>1, <2>2, <3>3, AppendIndex
      <4>2. u \in Seq(Byte)
        BY <2>1
      <4>3. Changed(v, j, b) = Append(u, b)
        BY <2>2, <3>3, <4>2, ChangedLast
      <4>4. size[Append(u, b)] = size[u] + Counted(b)
        BY <4>2, SizeBytes
      <4> QED
        BY <3>1, <4>1, <4>3, <4>4
    <3> QED
      BY <3>2, <3>3
  <2>4. Sized(v)
    BY <2>3
  <2> HIDE DEF Sized
  <2> QED
    BY <2>1, <2>2, <2>4
<1>3. T \subseteq Seq(Byte)
  OBVIOUS
<1> HIDE DEF T
<1>4. \A u \in Seq(Byte) : u \in T
  BY <1>1, <1>2, <1>3, SequenceInduction
<1> QED
  BY <1>4 DEF T

-----------------------------------------------------------------------------
(* The parts of a telegram.                                                *)

LEMMA AfterConcat ==
  ASSUME NEW S, NEW u \in Seq(S), NEW v \in Seq(S), NEW n, n = Len(u)
  PROVE  After(u \o v, n) = v
<1> DEFINE s == u \o v
           w == SubSeq(s, n + 1, Len(s))
<1>1. /\ s \in Seq(S) /\ Len(s) = Len(u) + Len(v)
      /\ \A j \in 1..Len(u) + Len(v) : s[j] = IF j <= Len(u) THEN u[j] ELSE v[j - Len(u)]
  BY ConcatProperties
<1>2. Len(u) \in Nat /\ Len(v) \in Nat
  BY LenProperties
<1>3. \A j \in n + 1..Len(s) : s[j] \in S
  BY <1>1, <1>2, ElementOfSeq
<1> HIDE DEF s
<1>4. /\ w \in Seq(S)
      /\ Len(w) = IF n + 1 <= Len(s) THEN Len(s) - (n + 1) + 1 ELSE 0
      /\ \A j \in 1..(Len(s) - (n + 1) + 1) : w[j] = s[(n + 1) + j - 1]
  BY <1>1, <1>2, <1>3, SubSeqProperties
<1> HIDE DEF w
<1>5. Len(w) = Len(v)
  BY <1>1, <1>2, <1>4
<1>6. ASSUME NEW j \in 1..Len(v) PROVE w[j] = v[j]
  <2>1. w[j] = s[n + j]
    BY <1>1, <1>2, <1>4
  <2>2. s[n + j] = v[j]
    BY <1>1, <1>2
  <2> QED
    BY <2>1, <2>2
<1>7. w = v
  BY <1>4, <1>5, <1>6, SeqEqual
<1> QED
  BY <1>7 DEF w, s, After

\* The part p, the header u and the data w, is put on the bus as s: extended,
\* and with the CRC c.
IsSent(s, p, e, u, w, x, v, c) ==
  /\ u \in Seq(Byte \ Marker) /\ w \in Seq(Byte) /\ p = u \o w /\ u # <<>>
  /\ e = extended[p] /\ x = extended[w] /\ v = Append(x, c)
  /\ s = Append(e, c) /\ c \in Byte \ Marker

LEMMA SentPart ==
  ASSUME NEW s, NEW p, NEW e, NEW u, NEW w, NEW x, NEW v, NEW c, IsSent(s, p, e, u, w, x, v, c)
  PROVE  /\ p \in Seq(Byte) /\ s \in Seq(Byte \ {seq_syn}) /\ s \in Seq(Byte)
         /\ Len(p) = Len(u) + Len(w)
         /\ u \in Seq(Byte) /\ e \in Seq(Byte) /\ x \in Seq(Byte) /\ v \in Seq(Byte) /\ c \in Byte
         /\ e = u \o x /\ s = u \o v /\ s = Append(e, c)
         /\ reduced[s] = Append(p, c) /\ After(s, Len(u)) = v
<1>1. u \in Seq(Byte) /\ extended[u] = u /\ w \in Seq(Byte) /\ p = u \o w
  BY NoMarker DEF IsSent
<1>2. p \in Seq(Byte) /\ Len(p) = Len(u) + Len(w)
  BY <1>1, ConcatProperties
<1>3. e = extended[p] /\ x = extended[w] /\ v = Append(x, c) /\ e = u \o x
  BY <1>1, ExtendedConcat DEF IsSent
<1>4. e \in Seq(Byte) /\ x \in Seq(Byte) /\ reduced[e] = p /\ Ended(e) /\ e \in Seq(Byte \ {seq_syn})
  BY <1>1, <1>2, <1>3, RoundTrip, ExtendedNoSyn
<1>5. s = Append(e, c) /\ c \in Byte /\ c \notin Marker
  BY DEF IsSent
<1>6. s \in Seq(Byte \ {seq_syn}) /\ s \in Seq(Byte)
  <2>1. c \in Byte \ {seq_syn}
    BY <1>5 DEF Marker
  <2> QED
    BY <1>4, <1>5, <2>1, AppendProperties
<1>7. reduced[s] = Append(p, c)
  BY <1>4, <1>5, ReducedAppend
<1>8. v \in Seq(Byte) /\ s = u \o v
  <2>1. u \in Seq(Byte) /\ x \in Seq(Byte) /\ c \in Byte
    BY <1>1, <1>4, <1>5
  <2>2. u \o Append(x, c) = Append(u \o x, c)
    BY ONLY <2>1, ConcatAppend
  <2>3. v \in Seq(Byte)
    BY <1>3, <2>1, AppendProperties
  <2> QED
    BY <1>3, <1>5, <2>2, <2>3, Zenon
<1>9. After(s, Len(u)) = v
  BY <1>1, <1>8, AfterConcat, Zenon
<1> QED
  BY <1>1, <1>2, <1>3, <1>4, <1>5, <1>6, <1>7, <1>8, <1>9, Zenon

LEMMA SizeCrc ==
  ASSUME NEW w \in Seq(Byte), NEW c \in Byte \ Marker
  PROVE  /\ size[Append(extended[w], c)] = Len(w) + 1
         /\ Complete(Append(extended[w], c), Len(w)) /\ ~Early(Append(extended[w], c), Len(w))
<1> DEFINE x == extended[w]
           v == Append(x, c)
<1>1. x \in Seq(Byte) /\ size[x] = Len(w) /\ c # seq_exp /\ Len(w) \in Nat
  BY RoundTrip, SizeExtended, LenProperties DEF Marker
<1> HIDE DEF x
<1>2. size[v] = Len(w) + 1
  BY <1>1, SizeBytes DEF Counted
<1>3. Front(v) = x /\ Last(v) = c
  BY <1>1, FrontAppend
<1> HIDE DEF v
<1>4. Complete(v, Len(w)) /\ ~Early(v, Len(w))
  BY <1>1, <1>2, <1>3 DEF Complete, Early
<1> QED
  BY <1>2, <1>4 DEF v, x

\* What a reader of d takes from it is as long as p, and is p if the CRC it
\* reads is that of the bytes it reads.
Reads(d, p, h) ==
  \E q \in Seq(Byte), x \in Byte :
    /\ reduced[d] = Append(q, x) /\ Len(q) = Len(p) /\ q[h] = p[h]
    /\ calc_crc[extended[q]] = x => q = p

\* Nothing changed.
LEMMA ReadsSent ==
  ASSUME NEW s, NEW p, NEW e, NEW u, NEW w, NEW x, NEW v, NEW c,
         IsSent(s, p, e, u, w, x, v, c)
  PROVE  Reads(s, p, Len(u))
<1>1. p \in Seq(Byte) /\ reduced[s] = Append(p, c)
  BY SentPart
<1>2. c \in Byte
  BY DEF IsSent
<1> QED
  BY <1>1, <1>2 DEF Reads

LEMMA FirstPart ==
  ASSUME NEW S, NEW u \in Seq(S), NEW w \in Seq(S), NEW p, p = u \o w, NEW i \in DOMAIN u
  PROVE  i \in DOMAIN p /\ p[i] = u[i] /\ (u # <<>> => Len(u) \in DOMAIN u)
BY LeftIndex, LenProperties, EmptySeq

\* A byte of the header changed, but not the size byte.
LEMMA ReadsHeader ==
  ASSUME NEW s, NEW p, NEW e, NEW u, NEW w, NEW x, NEW v, NEW c,
         IsSent(s, p, e, u, w, x, v, c), c = calc_crc[e],
         NEW i \in DOMAIN u, i # Len(u), NEW b \in Byte \ Marker
  PROVE  Reads(Changed(s, i, b), p, Len(u))
<1> DEFINE u2 == Changed(u, i, b)
           q == u2 \o w
           e2 == extended[q]
           t == Append(e2, c)
           h == Len(u)
<1>1. /\ u \in Seq(Byte) /\ u \in Seq(Byte \ Marker) /\ w \in Seq(Byte) /\ p = u \o w /\ u # <<>>
      /\ e = extended[p] /\ x = extended[w] /\ v = Append(x, c) /\ c \in Byte \ Marker
  BY NoMarker DEF IsSent
<1>2. u2 \in Seq(Byte \ Marker) /\ Len(u2) = h /\ DOMAIN u2 = DOMAIN u
  BY <1>1, ChangedBytes
<1>3. u2 \in Seq(Byte) /\ u2 # <<>> /\ b \in Byte
  BY <1>1, <1>2, NoMarker, EmptySeq, LenProperties
<1>4. h \in DOMAIN u /\ u2[h] = u[h]
  <2>1. h \in DOMAIN u
    BY <1>1, FirstPart
  <2> QED
    BY <1>1, <2>1, ChangedBytes
<1>5. /\ e \in Seq(Byte) /\ x \in Seq(Byte) /\ v \in Seq(Byte) /\ p \in Seq(Byte)
      /\ e = u \o x /\ s = u \o v /\ Len(p) = Len(u) + Len(w) /\ c \in Byte
  BY SentPart
<1> HIDE DEF u2
<1>6. IsSent(t, q, e2, u2, w, x, v, c)
  BY <1>1, <1>2, <1>3 DEF IsSent
<1>13. q = u2 \o w /\ e2 = extended[q]
  OBVIOUS
<1> HIDE DEF t, q, e2
<1>7. q \in Seq(Byte) /\ Len(q) = Len(u2) + Len(w) /\ e2 = u2 \o x /\ t = u2 \o v /\ reduced[t] = Append(q, c)
  <2>1. q \in Seq(Byte) /\ Len(q) = Len(u2) + Len(w) /\ e2 = u2 \o x
    BY ONLY <1>6, SentPart
  <2>2. t = u2 \o v
    BY ONLY <1>6, SentPart
  <2>3. reduced[t] = Append(q, c)
    BY ONLY <1>6, SentPart
  <2> QED
    BY <2>1, <2>2, <2>3
<1>8. Changed(s, i, b) = u2 \o v /\ Changed(e, i, b) = u2 \o x
  <2>1. v \in Seq(Byte)
    BY <1>5
  <2>2. x \in Seq(Byte)
    BY <1>5
  <2>3. u \in Seq(Byte)
    BY <1>1
  <2>4. b \in Byte
    BY <1>3
  <2>5. s = u \o v
    BY <1>5
  <2>6. e = u \o x
    BY <1>5
  <2>7. Changed(s, i, b) = u2 \o v
    BY ONLY <2>1, <2>3, <2>4, <2>5, i \in DOMAIN u, ChangedLeft DEF u2
  <2>8. Changed(e, i, b) = u2 \o x
    BY ONLY <2>2, <2>3, <2>4, <2>6, i \in DOMAIN u, ChangedLeft DEF u2
  <2> QED
    BY <2>7, <2>8
<1>9. Len(q) = Len(p)
  BY <1>2, <1>5, <1>7
<1>10. q[h] = p[h]
  <2>1. p[h] = u[h]
    BY <1>1, <1>4, FirstPart
  <2>2. h \in DOMAIN u2 /\ q = u2 \o w
    BY <1>2, <1>4, <1>13
  <2>3. q[h] = u2[h]
    BY <1>1, <1>3, <2>2, FirstPart
  <2> QED
    BY <1>4, <2>1, <2>3
<1>11. ASSUME calc_crc[extended[q]] = c PROVE q = p
  <2>1. calc_crc[Changed(e, i, b)] = calc_crc[e]
    BY <1>7, <1>8, <1>11, <1>13
  <2>2. i \in DOMAIN e /\ e[i] = u[i]
    BY <1>1, <1>5, FirstPart
  <2>3. b = u[i]
    BY <1>3, <1>5, <2>1, <2>2, CrcShowsChange
  <2>4. u2 = u
    BY <1>1, <2>3, Unchanged DEF u2
  <2> QED
    BY <1>1, <1>13, <2>4
<1> QED
  BY <1>5, <1>7, <1>8, <1>9, <1>10, <1>11, Zenon DEF Reads, h

\* A byte after the header changed, but not the CRC.
LEMMA ReadsData ==
  ASSUME NEW s, NEW p, NEW e, NEW u, NEW w, NEW x, NEW v, NEW c,
         IsSent(s, p, e, u, w, x, v, c), c = calc_crc[e],
         NEW i \in DOMAIN e, i \notin DOMAIN u, e[i] \notin Marker, NEW b \in Byte \ Marker
  PROVE  Reads(Changed(s, i, b), p, Len(u))
<1>1. /\ u \in Seq(Byte) /\ w \in Seq(Byte) /\ p = u \o w /\ u # <<>> /\ reduced[u] = u /\ Ended(u)
      /\ e = extended[p] /\ c \in Byte /\ c \notin Marker /\ b \in Byte
  BY NoMarker DEF IsSent
<1>2. /\ e \in Seq(Byte) /\ x \in Seq(Byte) /\ p \in Seq(Byte) /\ e = u \o x /\ s = Append(e, c)
  BY SentPart
<1> DEFINE f == Changed(e, i, b)
           r == reduced[f]
           h == Len(u)
<1>3. /\ r \in Seq(Byte) /\ Len(r) = Len(p) /\ Ended(f)
      /\ calc_crc[extended[r]] = calc_crc[e] => r = p
  <2>1. p \in Seq(Byte)
    BY <1>2
  <2>2. e = extended[p]
    BY <1>1
  <2>3. r = reduced[Changed(e, i, b)]
    OBVIOUS
  <2> HIDE DEF r
  <2>4. /\ r \in Seq(Byte) /\ Len(r) = Len(p) /\ Ended(Changed(e, i, b))
        /\ calc_crc[extended[r]] = calc_crc[e] => r = p
    BY <2>1, <2>2, <2>3, NoiseSeen
  <2> QED
    BY <2>4
<1>4. f \in Seq(Byte)
  BY <1>1, <1>2, ChangedBytes
<1>5. Changed(s, i, b) = Append(f, c)
  <2>1. e \in Seq(Byte)
    BY <1>2
  <2>2. c \in Byte
    BY <1>1
  <2>3. b \in Byte
    BY <1>1
  <2>4. s = Append(e, c)
    BY <1>2
  <2> QED
    BY ONLY <2>1, <2>2, <2>3, <2>4, i \in DOMAIN e, ChangedBefore
<1>6. PICK k : k \in DOMAIN x /\ f = u \o Changed(x, k, b)
  <2>1. u \in Seq(Byte)
    BY <1>1
  <2>2. x \in Seq(Byte)
    BY <1>2
  <2>3. e = u \o x
    BY <1>2
  <2>4. PICK k : Lies(Byte, e, u, x, i, k)
    BY ONLY <2>1, <2>2, <2>3, i \in DOMAIN e, i \notin DOMAIN u, ChangedRight
  <2> QED
    BY <1>1, <2>4 DEF Lies
<1>7. Changed(x, k, b) \in Seq(Byte)
  <2>1. x \in Seq(Byte)
    BY <1>2
  <2>2. k \in DOMAIN x
    BY <1>6
  <2>3. b \in Byte
    BY <1>1
  <2> QED
    BY ONLY <2>1, <2>2, <2>3, ChangedBytes
<1> HIDE DEF f
<1>8. reduced[Append(f, c)] = Append(r, c)
  BY <1>1, <1>3, <1>4, ReducedAppend
<1> DEFINE g == Changed(x, k, b)
           z == reduced[g]
<1>9. z \in Seq(Byte) /\ r = u \o z
  <2> HIDE DEF g
  <2>1. reduced[u \o g] = reduced[u] \o reduced[g] /\ reduced[g] \in Seq(Byte)
    BY <1>1, <1>7, ReducedConcat, ReducedBytes DEF g
  <2> QED
    BY <1>1, <1>6, <2>1 DEF g
<1> HIDE DEF z, r
<1>10. r[h] = p[h]
  <2>1. h \in DOMAIN u
    BY <1>1, LenProperties, EmptySeq
  <2>2. p[h] = u[h]
    BY <1>1, <2>1, FirstPart
  <2>3. r[h] = u[h]
    BY <1>1, <1>9, <2>1, FirstPart
  <2> QED
    BY <2>2, <2>3
<1> QED
  BY <1>1, <1>3, <1>5, <1>8, <1>10, Zenon DEF Reads, h

\* The CRC changed.
LEMMA ReadsCrc ==
  ASSUME NEW s, NEW p, NEW e, NEW u, NEW w, NEW x, NEW v, NEW c,
         IsSent(s, p, e, u, w, x, v, c),
         NEW i \in DOMAIN s, i \notin DOMAIN e, NEW b \in Byte \ Marker
  PROVE  Reads(Changed(s, i, b), p, Len(u))
<1>1. e = extended[p] /\ c \in Byte /\ b \in Byte /\ b \notin Marker
  BY DEF IsSent
<1>2. e \in Seq(Byte) /\ p \in Seq(Byte) /\ s = Append(e, c)
  BY SentPart
<1>3. reduced[e] = p /\ Ended(e)
  BY <1>1, <1>2, RoundTrip
<1>4. Changed(s, i, b) = Append(e, b)
  <2>1. e \in Seq(Byte)
    BY <1>2
  <2>2. c \in Byte
    BY <1>1
  <2>3. b \in Byte
    BY <1>1
  <2>4. s = Append(e, c)
    BY <1>2
  <2> QED
    BY ONLY <2>1, <2>2, <2>3, <2>4, i \in DOMAIN s, i \notin DOMAIN e, ChangedLast
<1>5. reduced[Append(e, b)] = Append(p, b)
  BY <1>1, <1>2, <1>3, ReducedAppend
<1> QED
  BY <1>1, <1>2, <1>4, <1>5, Zenon DEF Reads

\* One byte changed, whichever: noise that the reader cannot see is not in
\* what it counts.  (SYN ends the telegram; for an expand byte in the header
\* see ShiftRefused.)
THEOREM NoisyRead ==
  ASSUME NEW s, NEW p, NEW e, NEW u, NEW w, NEW x, NEW v, NEW c,
         IsSent(s, p, e, u, w, x, v, c), c = calc_crc[e],
         NEW h, h = Len(u), NEW n, n = Len(w), u[h] = n,
         NEW i \in DOMAIN s, NEW b \in Byte \ {seq_syn}, i \in DOMAIN u /\ i # h => b # seq_exp,
         NEW d, d = Changed(s, i, b), Complete(After(d, h), d[h])
  PROVE  Reads(d, p, h)
<1>1. /\ w \in Seq(Byte) /\ u # <<>> /\ x = extended[w] /\ v = Append(x, c) /\ c \in Byte \ Marker
      /\ e = extended[p] /\ c \in Byte /\ b \in Byte
  BY DEF IsSent
<1>2. /\ s \in Seq(Byte \ {seq_syn}) /\ s \in Seq(Byte) /\ u \in Seq(Byte) /\ e \in Seq(Byte)
      /\ v \in Seq(Byte) /\ s = u \o v /\ s = Append(e, c)
  BY SentPart
<1>3. size[v] = n + 1 /\ n \in Nat
  BY <1>1, SizeCrc, LenProperties
<1>4. h \in DOMAIN u /\ s[h] = n
  BY <1>1, <1>2, FirstPart
<1>5. size[After(d, h)] = d[h] + 1
  BY DEF Complete
<1>6. ASSUME b = s[i] PROVE Reads(d, p, h)
  <2>1. d = s
    BY <1>2, <1>6, Unchanged
  <2> QED
    BY <2>1, ReadsSent
<1>7. CASE i \in DOMAIN u /\ i # h
  <2>1. b \in Byte \ Marker
    BY <1>1, <1>7 DEF Marker
  <2> QED
    BY <1>7, <2>1, ReadsHeader
<1>8. CASE i = h
  <2> DEFINE g == Changed(u, i, b)
  <2>1. g \in Seq(Byte) /\ Len(g) = h /\ g # <<>> /\ g[h] = b /\ DOMAIN g = DOMAIN u
    <3>1. u \in Seq(Byte) /\ i \in DOMAIN u /\ b \in Byte
      BY <1>1, <1>2, <1>4, <1>8
    <3>2. g \in Seq(Byte) /\ Len(g) = Len(u) /\ g[i] = b /\ DOMAIN g = DOMAIN u
      <4>1. u \in Seq(Byte)
        BY <3>1
      <4>2. i \in DOMAIN u
        BY <3>1
      <4>3. b \in Byte
        BY <3>1
      <4> QED
        BY ONLY <4>1, <4>2, <4>3, ChangedBytes
    <3> HIDE DEF g
    <3>3. g # <<>>
      BY <1>1, <1>2, <3>2, EmptySeq, LenProperties
    <3> QED
      BY <1>8, <3>2, <3>3
  <2>2. d = g \o v
    <3>1. u \in Seq(Byte)
      BY <1>2
    <3>2. v \in Seq(Byte)
      BY <1>2
    <3>3. b \in Byte
      BY <1>1
    <3>4. i \in DOMAIN u
      BY <1>4, <1>8
    <3>5. s = u \o v
      BY <1>2
    <3>6. Changed(s, i, b) = g \o v
      BY ONLY <3>1, <3>2, <3>3, <3>4, <3>5, ChangedLeft
    <3> QED
      BY <3>6
  <2> HIDE DEF g
  <2>3. After(d, h) = v
    <3>1. g \in Seq(Byte)
      BY <2>1
    <3>2. v \in Seq(Byte)
      BY <1>2
    <3>3. h = Len(g)
      BY <2>1
    <3> QED
      BY ONLY <2>2, <3>1, <3>2, <3>3, AfterConcat, Zenon
  <2>4. d[h] = b
    BY <1>2, <1>4, <2>1, <2>2, FirstPart
  <2>5. b = n
    <3>1. b + 1 = n + 1
      BY <1>3, <1>5, <2>3, <2>4
    <3>2. b \in Nat /\ n \in Nat
      BY <1>1, <1>3, ByteNat
    <3> QED
      BY ONLY <3>1, <3>2
  <2> QED
    BY <1>4, <1>6, <1>8, <2>5
<1>9. CASE i \notin DOMAIN u
  <2>1. PICK k : Lies(Byte, s, u, v, i, k)
    <3>1. u \in Seq(Byte)
      BY <1>2
    <3>2. v \in Seq(Byte)
      BY <1>2
    <3>3. s = u \o v
      BY <1>2
    <3> QED
      BY ONLY <3>1, <3>2, <3>3, i \in DOMAIN s, <1>9, ChangedRight
  <2> DEFINE g == Changed(v, k, b)
  <2>2. k \in DOMAIN v /\ d = u \o g
    BY <1>1, <2>1 DEF Lies
  <2>3. s[i] = v[k]
    BY <2>1 DEF Lies
  <2>4. g \in Seq(Byte)
    <3>1. v \in Seq(Byte)
      BY <1>2
    <3>2. k \in DOMAIN v
      BY <2>2
    <3>3. b \in Byte
      BY <1>1
    <3> QED
      BY ONLY <3>1, <3>2, <3>3, ChangedBytes
  <2>5. size[g] + Counted(v[k]) = size[v] + Counted(b)
    <3>1. v \in Seq(Byte)
      BY <1>2
    <3>2. k \in DOMAIN v
      BY <2>2
    <3>3. b \in Byte
      BY <1>1
    <3> QED
      BY ONLY <3>1, <3>2, <3>3, SizeChanged
  <2> HIDE DEF g
  <2>6. After(d, h) = g
    <3>1. u \in Seq(Byte)
      BY <1>2
    <3>2. d = u \o g
      BY <2>2
    <3> QED
      BY ONLY h = Len(u), <2>4, <3>1, <3>2, AfterConcat, Zenon
  <2>7. d[h] = n
    BY <1>2, <1>4, <2>2, <2>4, FirstPart
  <2>8. size[g] = n + 1
    BY <1>5, <2>6, <2>7
  <2>9. s[i] = seq_exp <=> b = seq_exp
    <3> DEFINE a == Counted(v[k])
               z == Counted(b)
    <3>1. n + 1 + a = n + 1 + z
      BY <1>3, <2>5, <2>8
    <3>2. a \in {0, 1} /\ z \in {0, 1} /\ (a = 0 <=> v[k] = seq_exp) /\ (z = 0 <=> b = seq_exp)
      BY DEF Counted
    <3> HIDE DEF a, z
    <3>3. a = z
      BY <1>3, <3>1, <3>2
    <3> QED
      BY <2>3, <3>2, <3>3
  <2>10. CASE b = seq_exp
    BY <1>6, <2>9, <2>10
  <2>11. CASE b # seq_exp
    <3>1. b \in Byte \ Marker
      BY <1>1, <2>11 DEF Marker
    <3>2. s[i] \notin Marker
      <4>1. s[i] \in Byte \ {seq_syn}
        BY <1>2, LenProperties, ElementOfSeq
      <4> QED
        BY <2>9, <2>11, <4>1 DEF Marker
    <3>3. CASE i \in DOMAIN e
      <4>1. s[i] = e[i]
        BY <1>1, <1>2, <3>3, AppendIndex
      <4> QED
        BY <1>9, <3>1, <3>2, <3>3, <4>1, ReadsData
    <3>4. CASE i \notin DOMAIN e
      BY <3>1, <3>4, ReadsCrc
    <3> QED
      BY <3>3, <3>4
  <2> QED
    BY <2>10, <2>11
<1> QED
  BY <1>7, <1>8, <1>9

-----------------------------------------------------------------------------
(* The types of Telegram's operators.                                      *)

LEMMA SubSeqBytes ==
  ASSUME NEW b \in Seq(Byte), NEW n \in Nat, n <= Len(b)
  PROVE  /\ SubSeq(b, 1, n) \in Seq(Byte) /\ Len(SubSeq(b, 1, n)) = n
         /\ \A i \in 1..n : SubSeq(b, 1, n)[i] = b[i]
<1>1. \A i \in 1..n : b[i] \in Byte
  BY ElementOfSeq, LenProperties
<1> QED
  BY <1>1, SubSeqProperties

\* What is taken of a part, and how.
Taken == [part : SeqObjects, crc : Byte, state : PartStates]

LEMMA TakenPart ==
  ASSUME NEW b \in Seq(Byte), NEW n \in Nat, n <= Len(b), Len(b) <= n + 1
  PROVE  TakePart(b, n) \in Taken
<1> DEFINE q == SubSeq(b, 1, n)
<1>1. q \in Seq(Byte)
  BY SubSeqBytes
<1> HIDE DEF q
<1>2. Plain(q) \in SeqObjects /\ AfterCrc(Plain(q)) \in SeqObjects /\ Crc(Plain(q)) \in Byte
  BY <1>1, RoundTrip, CrcBytes DEF Plain, AfterCrc, Crc, Extend, SeqObjects
<1>3. Len(b) # n => b[n + 1] \in Byte
  BY ElementOfSeq, LenProperties
<1> QED
  BY <1>2, <1>3 DEF TakePart, Taken, PartStates, q

LEMMA SetMasterTyped ==
  ASSUME NEW t \in Telegrams, NEW b, NEW error \in PartStates, NEW taken,
         error = "OK" => taken \in Taken /\ b[5] \in 0..seq_max_bytes
  PROVE  SetMaster(t, b, error, taken) \in Telegrams
<1>1. CASE error = "OK"
  <2>1. TelegramType(b[2]) \in {"undefined", "BC", "MM", "MS"}
    BY DEF TelegramType
  <2> QED
    BY <1>1, <2>1 DEF SetMaster, Telegrams, Taken
<1>2. CASE error # "OK"
  BY <1>2 DEF SetMaster, Telegrams
<1> QED
  BY <1>1, <1>2

LEMMA SetSlaveTyped ==
  ASSUME NEW t \in Telegrams, NEW b, NEW error \in PartStates, NEW taken,
         error = "OK" => taken \in Taken /\ b[1] \in 0..seq_max_bytes
  PROVE  SetSlave(t, b, error, taken) \in Telegrams
<1>1. CASE error = "OK"
  BY <1>1 DEF SetSlave, Telegrams, Taken
<1>2. CASE error # "OK"
  BY <1>2 DEF SetSlave, Telegrams
<1> QED
  BY <1>1, <1>2

LEMMA FirstOK ==
  ASSUME NEW e \in PartStates, NEW f \in PartStates
  PROVE  First(e, f) \in PartStates /\ (First(e, f) = "OK" <=> e = "OK" /\ f = "OK")
BY DEF First

LEMMA SizeErrors ==
  ASSUME NEW b, NEW n
  PROVE  /\ SizeError(b, n) \in PartStates
         /\ SizeError(b, n) = "OK" <=> ~(Len(b) < n) /\ ~(Len(b) > n + 1)
BY DEF SizeError, PartStates

LEMMA MasterErrors ==
  ASSUME NEW b \in Seq(Byte), NEW error, error = First(HeaderError(b), SizeError(b, 5 + b[5]))
  PROVE  /\ error \in PartStates
         /\ error = "OK" =>
              /\ Len(b) >= 6 /\ IsMaster(b[1]) /\ IsAddressValid(b[2])
              /\ b[5] \in 0..seq_max_bytes /\ 5 + b[5] <= Len(b) /\ Len(b) <= 5 + b[5] + 1
<1>1. Len(b) \in Nat /\ (Len(b) >= 6 => b[5] \in Byte)
  BY LenProperties, ElementOfSeq
<1>2. /\ HeaderError(b) \in PartStates
      /\ HeaderError(b) = "OK" =>
           ~(Len(b) < 6) /\ IsMaster(b[1]) /\ IsAddressValid(b[2]) /\ ~(b[5] > seq_max_bytes)
  BY DEF HeaderError, PartStates
<1>3. /\ error \in PartStates
      /\ error = "OK" <=> HeaderError(b) = "OK" /\ SizeError(b, 5 + b[5]) = "OK"
  BY <1>2, SizeErrors, FirstOK
<1>4. ASSUME error = "OK"
      PROVE  /\ Len(b) >= 6 /\ IsMaster(b[1]) /\ IsAddressValid(b[2])
             /\ b[5] \in 0..seq_max_bytes /\ 5 + b[5] <= Len(b) /\ Len(b) <= 5 + b[5] + 1
  <2>1. /\ ~(Len(b) < 6) /\ IsMaster(b[1]) /\ IsAddressValid(b[2]) /\ ~(b[5] > seq_max_bytes)
        /\ ~(Len(b) < 5 + b[5]) /\ ~(Len(b) > 5 + b[5] + 1)
    BY <1>2, <1>3, <1>4, SizeErrors
  <2>2. b[5] \in Nat
    <3>1. Len(b) >= 6
      BY <1>1, <2>1
    <3>2. b[5] \in Byte
      BY <1>1, <3>1
    <3> QED
      BY <3>2, ByteNat, Zenon
  <2> DEFINE n == b[5]
  <2> HIDE DEF n
  <2>3. n \in Nat /\ ~(n > seq_max_bytes) /\ ~(Len(b) < 5 + n) /\ ~(Len(b) > 5 + n + 1)
    BY <2>1, <2>2 DEF n
  <2>4. Len(b) >= 6 /\ n \in 0..seq_max_bytes /\ 5 + n <= Len(b) /\ Len(b) <= 5 + n + 1
    BY <1>1, <2>1, <2>3 DEF seq_max_bytes
  <2> QED
    BY <2>1, <2>4 DEF n
<1> QED
  BY <1>3, <1>4

LEMMA SlaveErrors ==
  ASSUME NEW b \in Seq(Byte), NEW error, error = First(SlaveError(b), SizeError(b, 1 + b[1]))
  PROVE  /\ error \in PartStates
         /\ error = "OK" =>
              /\ Len(b) >= 2 /\ b[1] \in 0..seq_max_bytes
              /\ 1 + b[1] <= Len(b) /\ Len(b) <= 1 + b[1] + 1
<1>1. Len(b) \in Nat /\ (Len(b) >= 2 => b[1] \in Byte)
  BY LenProperties, ElementOfSeq
<1>2. /\ SlaveError(b) \in PartStates
      /\ SlaveError(b) = "OK" => ~(Len(b) < 2) /\ ~(b[1] > seq_max_bytes)
  BY DEF SlaveError, PartStates
<1>3. /\ error \in PartStates
      /\ error = "OK" <=> SlaveError(b) = "OK" /\ SizeError(b, 1 + b[1]) = "OK"
  BY <1>2, SizeErrors, FirstOK
<1>4. ASSUME error = "OK"
      PROVE  /\ Len(b) >= 2 /\ b[1] \in 0..seq_max_bytes
             /\ 1 + b[1] <= Len(b) /\ Len(b) <= 1 + b[1] + 1
  <2>1. /\ ~(Len(b) < 2) /\ ~(b[1] > seq_max_bytes)
        /\ ~(Len(b) < 1 + b[1]) /\ ~(Len(b) > 1 + b[1] + 1)
    BY <1>2, <1>3, <1>4, SizeErrors
  <2>2. b[1] \in Nat
    <3>1. Len(b) >= 2
      BY <1>1, <2>1
    <3>2. b[1] \in Byte
      BY <1>1, <3>1
    <3> QED
      BY <3>2, ByteNat, Zenon
  <2> DEFINE n == b[1]
  <2> HIDE DEF n
  <2>3. n \in Nat /\ ~(n > seq_max_bytes) /\ ~(Len(b) < 1 + n) /\ ~(Len(b) > 1 + n + 1)
    BY <2>1, <2>2 DEF n
  <2>4. Len(b) >= 2 /\ n \in 0..seq_max_bytes /\ 1 + n <= Len(b) /\ Len(b) <= 1 + n + 1
    BY <1>1, <2>1, <2>3 DEF seq_max_bytes
  <2> QED
    BY <2>4 DEF n
<1> QED
  BY <1>3, <1>4

LEMMA ReduceTyped ==
  ASSUME NEW s \in SeqObjects PROVE Reduce(s).m_seq \in Seq(Byte)
BY ReducedBytes DEF SeqObjects, Reduce, Plain

LEMMA CreateTyped ==
  ASSUME NEW t \in Telegrams, NEW s \in SeqObjects
  PROVE  CreateMaster(t, s) \in Telegrams /\ CreateSlave(t, s) \in Telegrams
<1> DEFINE b == Reduce(s).m_seq
<1>1. b \in Seq(Byte)
  BY ReduceTyped
<1> HIDE DEF b
<1>2. TakeMaster(t, b) \in Telegrams
  <2> DEFINE error == First(HeaderError(b), SizeError(b, 5 + b[5]))
             taken == TakePart(b, 5 + b[5])
  <2>0. error = First(HeaderError(b), SizeError(b, 5 + b[5]))
    OBVIOUS
  <2> HIDE DEF error
  <2>1. /\ error \in PartStates
        /\ error = "OK" => b[5] \in 0..seq_max_bytes /\ 5 + b[5] <= Len(b) /\ Len(b) <= 5 + b[5] + 1
    BY <1>1, <2>0, MasterErrors
  <2>2. ASSUME error = "OK" PROVE taken \in Taken
    <3> DEFINE n == 5 + b[5]
    <3>1. n \in Nat /\ n <= Len(b) /\ Len(b) <= n + 1
      BY <2>1, <2>2
    <3> HIDE DEF n
    <3>2. TakePart(b, n) \in Taken
      BY <1>1, <3>1, TakenPart
    <3> QED
      BY <3>2 DEF n
  <2> HIDE DEF taken
  <2>3. SetMaster(t, b, error, taken) \in Telegrams
    BY <2>1, <2>2, SetMasterTyped
  <2> QED
    BY <2>3 DEF TakeMaster, error, taken
<1>3. TakeSlave(t, b) \in Telegrams
  <2> DEFINE error == First(SlaveError(b), SizeError(b, 1 + b[1]))
             taken == TakePart(b, 1 + b[1])
  <2>0. error = First(SlaveError(b), SizeError(b, 1 + b[1]))
    OBVIOUS
  <2> HIDE DEF error
  <2>1. /\ error \in PartStates
        /\ error = "OK" => b[1] \in 0..seq_max_bytes /\ 1 + b[1] <= Len(b) /\ Len(b) <= 1 + b[1] + 1
    BY <1>1, <2>0, SlaveErrors
  <2>2. ASSUME error = "OK" PROVE taken \in Taken
    <3> DEFINE n == 1 + b[1]
    <3>1. n \in Nat /\ n <= Len(b) /\ Len(b) <= n + 1
      BY <2>1, <2>2
    <3> HIDE DEF n
    <3>2. TakePart(b, n) \in Taken
      BY <1>1, <3>1, TakenPart
    <3> QED
      BY <3>2 DEF n
  <2> HIDE DEF taken
  <2>3. SetSlave(t, b, error, taken) \in Telegrams
    BY <2>1, <2>2, SetSlaveTyped
  <2> QED
    BY <2>3 DEF TakeSlave, error, taken
<1> QED
  BY <1>2, <1>3 DEF CreateMaster, CreateSlave, b

-----------------------------------------------------------------------------
(* The bus.                                                                *)

Listeners ==
  [m_sequence : Seq(Byte \ {seq_syn}),
   published  : SUBSET {Published(Parse(Received(s))) : s \in Seq(Byte)}]

LEMMA MonitorTyped ==
  ASSUME NEW l \in Listeners, NEW x \in Byte PROVE MonitorByte(l, x) \in Listeners
<1> DEFINE N == Byte \ {seq_syn}
<1>1. l.m_sequence \in Seq(N)
  BY DEF Listeners
<1>2. CASE x # seq_syn
  <2>1. x \in N
    BY <1>2
  <2> HIDE DEF N
  <2>2. Append(l.m_sequence, x) \in Seq(N)
    BY <1>1, <2>1, AppendProperties
  <2> QED
    BY <1>2, <2>2 DEF MonitorByte, Listeners, N
<1>3. CASE x = seq_syn
  <2> DEFINE t == Parse(Received(l.m_sequence))
             P == {Published(Parse(Received(s))) : s \in Seq(Byte)}
             new == IF l.m_sequence # <<>> /\ IsValid(t) THEN {Published(t)} ELSE {}
  <2>1. \A u \in Seq(N) : u \in Seq(Byte)
    BY SeqMonotonic, Zenon
  <2>2. Published(t) \in P
    BY <1>1, <2>1, Zenon
  <2>3. <<>> \in Seq(N)
    BY EmptySeq
  <2> HIDE DEF t, P
  <2>4. l.published \cup new \subseteq P
    BY <2>2 DEF Listeners, P
  <2>5. MonitorByte(l, x) = [m_sequence |-> <<>>, published |-> l.published \cup new]
    BY <1>3 DEF MonitorByte, t
  <2> HIDE DEF new
  <2> QED
    BY <2>3, <2>4, <2>5 DEF Listeners, P
<1> QED
  BY <1>2, <1>3

LEMMA HeardDef ==
  ASSUME listener \in Listeners, NEW s \in Seq(Byte)
  PROVE  /\ heard[s] \in Listeners
         /\ heard[s] = IF s = <<>> THEN listener ELSE MonitorByte(heard[Front(s)], Last(s))
<1> DEFINE Next1(t, v) == MonitorByte(v, Last(t))
           step == [a \in (Seq(Byte) \ {<<>>}) \X Listeners |-> Next1(a[1], a[2])]
<1>1. ASSUME NEW t \in Seq(Byte) \ {<<>>}, NEW v \in Listeners PROVE Next1(t, v) \in Listeners
  BY FrontLast, MonitorTyped
<1> HIDE DEF Next1
<1>2. step \in Steps(Byte, Listeners)
  BY <1>1 DEF Steps
<1>3. \A t \in Seq(Byte) \ {<<>>}, v \in Listeners : step[<<t, v>>] = Next1(t, v)
  OBVIOUS
<1> HIDE DEF step
<1>4. PICK f \in [Seq(Byte) -> Listeners] : Recursive(f, Byte, listener, step)
  BY <1>2, Recursion
<1>5. \A t \in Seq(Byte) : f[t] = IF t = <<>> THEN listener ELSE MonitorByte(f[Front(t)], Last(t))
  <2>1. ASSUME NEW t \in Seq(Byte)
        PROVE  f[t] = IF t = <<>> THEN listener ELSE MonitorByte(f[Front(t)], Last(t))
    <3>1. CASE t = <<>>
      BY <1>4, <3>1 DEF Recursive
    <3>2. CASE t # <<>>
      <4>1. Front(t) \in Seq(Byte)
        BY <3>2, FrontLast
      <4>2. f[Front(t)] \in Listeners
        BY <4>1
      <4>3. f[t] = step[<<t, f[Front(t)]>>]
        BY <1>4, <3>2 DEF Recursive
      <4> QED
        BY <1>3, <3>2, <4>2, <4>3 DEF Next1
    <3> QED
      BY <3>1, <3>2
  <2> QED
    BY <2>1
<1>6. f = [t \in Seq(Byte) |-> IF t = <<>> THEN listener ELSE MonitorByte(f[Front(t)], Last(t))]
  BY <1>5
<1> DEFINE Fix(g) == g = [t \in Seq(Byte) |-> IF t = <<>> THEN listener ELSE MonitorByte(g[Front(t)], Last(t))]
<1>7. heard = CHOOSE g : Fix(g)
  BY DEF heard
<1>8. Fix(heard)
  BY <1>6, <1>7, Zenon
<1>9. \A t \in Seq(Byte) : heard[t] = IF t = <<>> THEN listener ELSE MonitorByte(heard[Front(t)], Last(t))
  BY <1>8, Zenon
<1> DEFINE T == {t \in Seq(Byte) : heard[t] \in Listeners}
<1>10. <<>> \in T
  BY <1>9, EmptySeq
<1>11. ASSUME NEW t \in T, NEW x \in Byte PROVE Append(t, x) \in T
  <2>1. /\ Append(t, x) \in Seq(Byte) /\ Append(t, x) # <<>>
        /\ Front(Append(t, x)) = t /\ Last(Append(t, x)) = x
    BY FrontAppend
  <2> QED
    BY <1>9, <2>1, MonitorTyped
<1>12. T \subseteq Seq(Byte)
  OBVIOUS
<1> HIDE DEF T
<1>13. \A t \in Seq(Byte) : t \in T
  BY <1>10, <1>11, <1>12, SequenceInduction
<1> QED
  BY <1>9, <1>13 DEF T

\* What noise may make of a part.
Noisy(d, part) ==
  \/ d = part
  \/ /\ \E i \in DOMAIN part, b \in NoiseBytes : d = Changed(part, i, b)
     /\ d \notin {<<seq_ack>>, <<seq_nak>>}

LEMMA NoisyPart ==
  ASSUME NEW part \in Seq(Byte), NEW d, Noisy(d, part)
  PROVE  d \in Seq(Byte) /\ Len(d) = Len(part)
<1>1. CASE d = part
  BY <1>1
<1>2. CASE d # part
  <2>1. PICK i \in DOMAIN part, b \in NoiseBytes : d = Changed(part, i, b)
    BY <1>2 DEF Noisy
  <2>2. b \in Byte
    BY ExchangeAssumption
  <2> QED
    BY <2>1, <2>2, ChangedBytes
<1> QED
  BY <1>1, <1>2

LEMMA OutcomesNoisy ==
  ASSUME NEW part \in Seq(Byte), NEW o \in Outcomes(part)
  PROVE  /\ Noisy(o.all, part) /\ Noisy(o.reader, part)
         /\ o.reader # part => noise # MaxNoise
<1>1. ASSUME NEW d \in Disturbed(part) PROVE Noisy(d, part)
  BY <1>1 DEF Disturbed, Noisy, Changed
<1>2. CASE o = [all |-> part, reader |-> part]
  BY <1>2 DEF Noisy
<1>3. CASE o # [all |-> part, reader |-> part]
  <2>1. noise # MaxNoise
    BY <1>3 DEF Outcomes
  <2>2. PICK d \in Disturbed(part) :
          o \in {[all |-> d, reader |-> d], [all |-> part, reader |-> d]}
    BY <1>3, <2>1, Zenon DEF Outcomes
  <2>3. Noisy(d, part) /\ Noisy(part, part)
    BY <1>1 DEF Noisy
  <2>4. o.reader = d /\ o.all \in {d, part}
    BY <2>2
  <2> QED
    BY <2>1, <2>3, <2>4
<1> QED
  BY <1>2, <1>3

\* ExchangeTypeOK, and what a listener has published was parsed.
ExchangeTypeInv == ExchangeTypeOK /\ listener \in Listeners

LEMMA OnBusTyped ==
  ASSUME ExchangeTypeInv, NEW part \in Seq(Byte), NEW o \in Outcomes(part), OnBus(part, o)
  PROVE  /\ listener' \in Listeners /\ noise' \in 0..MaxNoise /\ exact' \in BOOLEAN
         /\ o.all \in Seq(Byte) /\ o.reader \in Seq(Byte) /\ Len(o.reader) = Len(part)
         /\ Noisy(o.all, part) /\ Noisy(o.reader, part)
         /\ noise' = 0 => noise = 0 /\ o.reader = part
         /\ deceived' = deceived
<1>1. /\ o.all \in Seq(Byte) /\ o.reader \in Seq(Byte) /\ Len(o.reader) = Len(part)
      /\ Noisy(o.all, part) /\ Noisy(o.reader, part)
  BY OutcomesNoisy, NoisyPart
<1>2. listener' = heard[o.all] /\ listener \in Listeners
  BY DEF OnBus, Heard, ExchangeTypeInv
<1>3. listener' \in Listeners
  BY <1>1, <1>2, HeardDef
<1>4. noise \in 0..MaxNoise /\ MaxNoise \in Nat /\ exact \in BOOLEAN
  BY ExchangeAssumption DEF ExchangeTypeInv, ExchangeTypeOK
<1>5. noise' \in 0..MaxNoise /\ (noise' = 0 => noise = 0 /\ o.reader = part)
  BY <1>4, OutcomesNoisy DEF OnBus
<1>6. exact' \in BOOLEAN
  BY <1>4 DEF OnBus
<1>7. deceived' = deceived
  BY DEF OnBus
<1> QED
  BY <1>1, <1>3, <1>5, <1>6, <1>7

LEMMA ReadSynTyped ==
  ASSUME NEW s \in Seq(Byte) PROVE ReadSyn(s) \in Seq(Byte)
BY MarkerBytes, EmptySeq, AppendProperties DEF ReadSyn

-----------------------------------------------------------------------------
(* The types of the variables.                                             *)

LEMMA PartsTyped ==
  ASSUME ExchangeTypeInv
  PROVE  /\ MasterPart \in Seq(Byte)
         /\ ResponsePart \in Seq(Byte) /\ ResponsePart # <<>>
         /\ \A n \in {seq_ack, seq_nak} : <<n>> \in Seq(Byte) /\ Len(<<n>>) = 1
<1>1. ASSUME NEW s \in Seq(Byte), NEW x \in Byte
      PROVE  Append(s, x) \in Seq(Byte) /\ Append(s, x) # <<>>
  BY FrontAppend
<1>2. ASSUME NEW s \in Seq(Byte), s # <<>> PROVE Tail(s) \in Seq(Byte)
  BY <1>2, HeadTailProperties
<1>3. /\ tel.m_master.m_seq \in Seq(Byte) /\ tel.m_masterCRC \in Byte
      /\ ptel.m_slave.m_seq \in Seq(Byte) /\ ptel.m_slaveCRC \in Byte
  BY DEF ExchangeTypeInv, ExchangeTypeOK, Telegrams, SeqObjects
<1> DEFINE part == Append(tel.m_master.m_seq, tel.m_masterCRC)
<1>4. part \in Seq(Byte) /\ Tail(part) \in Seq(Byte)
  BY <1>1, <1>2, <1>3
<1>5. MasterPart \in Seq(Byte)
  BY <1>4 DEF MasterPart
<1>6. ResponsePart \in Seq(Byte) /\ ResponsePart # <<>>
  BY <1>1, <1>3 DEF ResponsePart
<1>7. \A n \in {seq_ack, seq_nak} : <<n>> \in Seq(Byte) /\ Len(<<n>>) = 1
  <2>1. \A n \in {seq_ack, seq_nak} : n \in Byte
    BY DEF seq_ack, seq_nak, Byte
  <2> QED
    BY <2>1
<1> QED
  BY <1>5, <1>6, <1>7

LEMMA PlainTyped ==
  ASSUME NEW s \in Seq(Byte) PROVE Plain(s) \in SeqObjects /\ Received(s) \in SeqObjects
BY DEF Plain, Received, SeqObjects

LEMMA NoTelegramTyped == NoTelegram \in Telegrams
BY EmptySeq DEF NoTelegram, Telegrams, NoBytes, Plain, SeqObjects, PartStates, Byte, seq_max_bytes

LEMMA ACKTyped ==
  ASSUME NEW t \in Telegrams, NEW byte \in Byte
  PROVE  /\ [t EXCEPT !.m_slaveACK = byte] \in Telegrams
         /\ [t EXCEPT !.m_masterACK = byte] \in Telegrams
BY DEF Telegrams

LEMMA TypeInit == Init => ExchangeTypeInv
<1> SUFFICES ASSUME Init PROVE ExchangeTypeInv
  OBVIOUS
<1>1. listener \in Listeners
  BY EmptySeq DEF Init, Listeners
<1>2. tel \in Telegrams /\ ptel \in Telegrams
  BY NoTelegramTyped DEF Init
<1>3. m_sequence \in Seq(Byte) /\ seq \in Seq(Byte) /\ listener.m_sequence \in Seq(Byte \ {seq_syn})
  BY EmptySeq DEF Init
<1>4. noise \in 0..MaxNoise /\ exact \in BOOLEAN
  BY ExchangeAssumption DEF Init
<1>5. phase \in Phases /\ code \in Codes /\ {retry, pretry} \subseteq 0..1
  BY DEF Init, Phases, Codes
<1>6. deceived \in {"nobody", "sender", "addressee"}
  BY DEF Init
<1> QED
  BY <1>1, <1>2, <1>3, <1>4, <1>5, <1>6 DEF ExchangeTypeInv, ExchangeTypeOK

LEMMA TypeNext == ExchangeTypeInv /\ [Next]_vars => ExchangeTypeInv'
<1> SUFFICES ASSUME ExchangeTypeInv, [Next]_vars PROVE ExchangeTypeInv'
  OBVIOUS
<1> USE DEF ExchangeTypeInv
<1>1. /\ phase \in Phases /\ code \in Codes /\ tel \in Telegrams /\ ptel \in Telegrams
      /\ retry \in 0..1 /\ pretry \in 0..1 /\ m_sequence \in Seq(Byte)
      /\ seq \in Seq(Byte) /\ deceived \in {"nobody", "sender", "addressee"}
      /\ noise \in 0..MaxNoise /\ exact \in BOOLEAN /\ listener \in Listeners
  BY DEF ExchangeTypeOK
<1>2. SUFFICES /\ phase' \in Phases /\ code' \in Codes /\ tel' \in Telegrams /\ ptel' \in Telegrams
               /\ retry' \in 0..1 /\ pretry' \in 0..1 /\ m_sequence' \in Seq(Byte)
               /\ seq' \in Seq(Byte) /\ deceived' \in {"nobody", "sender", "addressee"}
               /\ noise' \in 0..MaxNoise /\ exact' \in BOOLEAN /\ listener' \in Listeners
  BY DEF ExchangeTypeOK, Listeners
<1>3. CASE Lock
  <2>1. PICK m \in Messages : tel' = CreateMaster(NoTelegram, Plain(<<Address>> \o m))
    BY <1>3 DEF Lock
  <2>2. <<Address>> \in Seq(Byte) /\ <<Address>> \o m \in Seq(Byte)
    BY ExchangeAssumption, ConcatProperties
  <2>3. tel' \in Telegrams
    BY <2>1, <2>2, PlainTyped, NoTelegramTyped, CreateTyped
  <2>4. listener' \in Listeners
    BY <1>1, <1>3, <2>2, HeardDef DEF Lock, Heard
  <2> QED
    BY <1>1, <1>3, <2>2, <2>3, <2>4 DEF Lock, Phases
<1>4. CASE MasterMissed
  <2>1. PICK o \in Outcomes(MasterPart) :
          /\ OnBus(MasterPart, o)
          /\ m_sequence' = m_sequence \o o.reader \/ m_sequence' = <<>>
    BY <1>4 DEF MasterMissed
  <2>2. /\ listener' \in Listeners /\ noise' \in 0..MaxNoise /\ exact' \in BOOLEAN /\ deceived' = deceived
        /\ o.reader \in Seq(Byte)
    BY <2>1, PartsTyped, OnBusTyped
  <2>3. phase' \in Phases /\ code' \in Codes
    BY <1>1, <1>4 DEF MasterMissed, SendMessage, Ends, Phases, Codes
  <2>4. m_sequence' \in Seq(Byte)
    <3>1. m_sequence \o o.reader \in Seq(Byte) /\ <<>> \in Seq(Byte)
      BY <1>1, <2>2, ConcatProperties, EmptySeq
    <3> QED
      BY <2>1, <3>1
  <2> QED
    BY <1>1, <1>4, <2>2, <2>3, <2>4 DEF MasterMissed
<1>5. CASE MasterReceived
  <2>1. PICK o \in Outcomes(MasterPart) :
          LET s == m_sequence \o o.reader
          IN /\ OnBus(MasterPart, o)
             /\ ptel' = CreateMaster(NoTelegram, Received(s))
             /\ SendMessage(s[2] # seq_broad)
    BY <1>5 DEF MasterReceived
  <2>2. /\ listener' \in Listeners /\ noise' \in 0..MaxNoise /\ exact' \in BOOLEAN /\ deceived' = deceived
        /\ o.reader \in Seq(Byte)
    BY <2>1, PartsTyped, OnBusTyped
  <2>3. phase' \in Phases /\ code' \in Codes
    BY <1>1, <2>1 DEF SendMessage, Ends, Phases, Codes
  <2>4. m_sequence \o o.reader \in Seq(Byte)
    BY <1>1, <2>2, ConcatProperties
  <2>5. ptel' \in Telegrams
    BY <2>1, <2>4, PlainTyped, NoTelegramTyped, CreateTyped
  <2>6. m_sequence' \in Seq(Byte)
    BY <1>5, EmptySeq DEF MasterReceived
  <2> QED
    BY <1>1, <1>5, <2>2, <2>3, <2>5, <2>6 DEF MasterReceived
<1>6. ASSUME NEW responding \in BOOLEAN, SlaveAnswers(responding)
      PROVE  <1>2!1
  <2> DEFINE ack == IF ptel.m_masterState = "OK" THEN seq_ack ELSE seq_nak
  <2>1. PICK o \in Outcomes(<<ack>>) :
          /\ OnBus(<<ack>>, o) /\ ReceiveACK(o.reader[1], responding)
          /\ tel' = [tel EXCEPT !.m_slaveACK = o.reader[1]]
    BY <1>6 DEF SlaveAnswers
  <2>2. <<ack>> \in Seq(Byte) /\ Len(<<ack>>) = 1
    BY PartsTyped
  <2> HIDE DEF ack
  <2>3. /\ listener' \in Listeners /\ noise' \in 0..MaxNoise /\ exact' \in BOOLEAN /\ deceived' = deceived
        /\ o.reader \in Seq(Byte) /\ Len(o.reader) = 1
    BY <2>1, <2>2, OnBusTyped
  <2>4. o.reader[1] \in Byte
    BY <2>3, ElementOfSeq
  <2>5. tel' \in Telegrams
    BY <1>1, <2>1, <2>4, ACKTyped
  <2>6. phase' \in Phases /\ code' \in Codes /\ retry' \in 0..1
    BY <1>1, <2>1 DEF ReceiveACK, Refused, Again, Ends, Phases, Codes
  <2>7. ptel' \in Telegrams
    <3>1. CASE responding
      <4>1. PICK r \in Responses : ptel' = CreateSlave(ptel, Plain(r))
        BY <1>6, <3>1 DEF SlaveAnswers
      <4>2. r \in Seq(Byte)
        BY ExchangeAssumption
      <4> QED
        BY <1>1, <4>1, <4>2, PlainTyped, CreateTyped
    <3>2. CASE ~responding
      BY <1>1, <1>6, <3>2 DEF SlaveAnswers
    <3> QED
      BY <3>1, <3>2
  <2> QED
    BY <1>1, <1>6, <2>3, <2>5, <2>6, <2>7 DEF SlaveAnswers
<1>7. CASE ResponseUnread
  <2>1. PICK o \in Outcomes(ResponsePart) :
          /\ OnBus(ResponsePart, o)
          /\ code' = "EBUS_ERR_TRANSMIT" \/ code' = code
          /\ seq' \in {o.reader, seq}
    BY <1>7 DEF ResponseUnread
  <2>2. /\ listener' \in Listeners /\ noise' \in 0..MaxNoise /\ exact' \in BOOLEAN /\ deceived' = deceived
        /\ o.reader \in Seq(Byte)
    BY <2>1, PartsTyped, OnBusTyped
  <2> QED
    BY <1>1, <1>7, <2>1, <2>2 DEF ResponseUnread, addressee, Phases, Codes
<1>8. CASE ResponseReceived
  <2>1. PICK o \in Outcomes(ResponsePart) :
          OnBus(ResponsePart, o) /\ tel' = CreateSlave(tel, Received(o.reader))
    BY <1>8 DEF ResponseReceived
  <2>2. /\ listener' \in Listeners /\ noise' \in 0..MaxNoise /\ exact' \in BOOLEAN /\ deceived' = deceived
        /\ o.reader \in Seq(Byte)
    BY <2>1, PartsTyped, OnBusTyped
  <2>3. tel' \in Telegrams
    BY <1>1, <2>1, <2>2, PlainTyped, CreateTyped
  <2> QED
    BY <1>1, <1>8, <2>2, <2>3 DEF ResponseReceived, addressee, Phases
<1>9. CASE MasterAnswers
  <2> DEFINE ack == IF tel.m_slaveState = "OK" THEN seq_ack ELSE seq_nak
  <2>1. PICK o \in Outcomes(<<ack>>) :
          OnBus(<<ack>>, o) /\ tel' = [tel EXCEPT !.m_masterACK = ack]
    BY <1>9 DEF MasterAnswers
  <2>2. <<ack>> \in Seq(Byte) /\ ack \in Byte
    BY PartsTyped DEF seq_ack, seq_nak, Byte
  <2>3. pretry' \in 0..1 /\ phase' \in Phases /\ code' \in Codes /\ retry' \in 0..1
    BY <1>1, <1>9 DEF MasterAnswers, Again, Ends, Phases, Codes
  <2> HIDE DEF ack
  <2>4. listener' \in Listeners /\ noise' \in 0..MaxNoise /\ exact' \in BOOLEAN /\ deceived' = deceived
    BY <2>1, <2>2, OnBusTyped
  <2>5. tel' \in Telegrams
    BY <1>1, <2>1, <2>2, ACKTyped
  <2> QED
    BY <1>1, <1>9, <2>3, <2>4, <2>5 DEF MasterAnswers
<1>10. ASSUME NEW end, Syn(end), code' \in Codes PROVE <1>2!1
  <2>1. <<seq_syn>> \in Seq(Byte)
    BY MarkerBytes
  <2>2. listener' \in Listeners
    BY <1>1, <1>10, <2>1, HeardDef DEF Syn, Heard
  <2>3. m_sequence' \in Seq(Byte) /\ seq' \in Seq(Byte)
    BY <1>1, <1>10, ReadSynTyped DEF Syn
  <2>4. phase' \in Phases /\ deceived' \in {"nobody", "sender", "addressee"}
    BY <1>10 DEF Syn, Phases, Reader
  <2> QED
    BY <1>1, <1>10, <2>2, <2>3, <2>4 DEF Syn
<1>11. CASE FreeBus
  BY <1>1, <1>10, <1>11 DEF FreeBus
<1>12. CASE GeneratorSyn
  <2>1. code' \in Codes /\ Syn("silent")
    BY <1>1, <1>12 DEF GeneratorSyn, Codes
  <2> QED
    BY <1>10, <2>1
<1>13. CASE LateSyn
  <2>1. m_sequence' \in Seq(Byte) /\ seq' \in Seq(Byte)
    BY <1>1, <1>13, ReadSynTyped DEF LateSyn
  <2> QED
    BY <1>1, <1>13, <2>1 DEF LateSyn, bus
<1>14. ASSUME NEW responding \in BOOLEAN, MasterLate(responding)
       PROVE  <1>2!1
  <2> DEFINE t == CreateMaster(NoTelegram, Received(m_sequence))
  <2>1. t \in Telegrams
    BY <1>1, PlainTyped, NoTelegramTyped, CreateTyped
  <2>2. ptel' = t \/ \E r \in Responses : ptel' = CreateSlave(t, Plain(r))
    BY <1>14 DEF MasterLate
  <2> HIDE DEF t
  <2>3. ptel' \in Telegrams
    BY <2>1, <2>2, ExchangeAssumption, PlainTyped, CreateTyped
  <2>4. m_sequence' = <<>> /\ m_sequence' \in Seq(Byte) /\ phase' \in Phases
    BY <1>14, EmptySeq DEF MasterLate, Phases
  <2> QED
    BY <1>1, <1>14, <2>3, <2>4 DEF MasterLate, sender, bus
<1>15. CASE ResponseLate
  <2> DEFINE t == CreateSlave(tel, Received(seq))
  <2>1. t \in Telegrams
    BY <1>1, PlainTyped, CreateTyped
  <2>2. /\ \E ack \in {seq_ack, seq_nak} : tel' = [t EXCEPT !.m_masterACK = ack]
        /\ code' \in Codes /\ retry' \in {retry, retry - 1} /\ (retry' = retry - 1 => retry = 1)
    BY <1>1, <1>15 DEF ResponseLate, Codes, Again
  <2> HIDE DEF t
  <2>3. seq_ack \in Byte /\ seq_nak \in Byte
    BY DEF seq_ack, seq_nak, Byte
  <2>4. tel' \in Telegrams
    BY <2>1, <2>2, <2>3, ACKTyped
  <2>5. seq' = <<>> /\ seq' \in Seq(Byte) /\ phase' \in Phases
    BY <1>15, EmptySeq DEF ResponseLate, Phases
  <2> QED
    BY <1>1, <1>15, <2>2, <2>4, <2>5 DEF ResponseLate, addressee, bus
<1>16. CASE Over
  BY <1>1, <1>16 DEF Over, vars, sender, addressee, bus
<1>17. CASE UNCHANGED vars
  BY <1>1, <1>17 DEF vars, sender, addressee, bus
<1> QED
  BY <1>3, <1>4, <1>5, <1>6, <1>7, <1>8, <1>9, <1>11, <1>12, <1>13, <1>14, <1>15, <1>16, <1>17 DEF Next

LEMMA TypeInvariant == Spec => []ExchangeTypeInv
<1> QED
  BY TypeInit, TypeNext, PTL DEF Spec

\* The variables have their types, whatever noise makes of the parts.
THEOREM ExchangeTyped == Spec => []ExchangeTypeOK
<1>1. ExchangeTypeInv => ExchangeTypeOK
  BY DEF ExchangeTypeInv
<1> QED
  BY <1>1, TypeInvariant, PTL
-----------------------------------------------------------------------------
(* A part as it is sent, and what the other node makes of it.              *)

\* e is the part p extended, c its CRC; the h-th byte of p is its size byte,
\* and no byte up to there, nor the CRC, is a marker.
Sent(e, c, p, h) ==
  /\ p \in Seq(Byte) /\ p[h] \in 0..seq_max_bytes /\ Len(p) = h + p[h]
  /\ \A i \in 1..h : p[i] \notin Marker
  /\ e = extended[p] /\ c = calc_crc[e] /\ c \in Byte \ Marker

Split(p, h, u, w) ==
  /\ u \in Seq(Byte \ Marker) /\ w \in Seq(Byte)
  /\ p = u \o w /\ u # <<>> /\ Len(u) = h /\ Len(w) = p[h] /\ u[h] = p[h]

LEMMA SentSplit ==
  ASSUME NEW e, NEW c, NEW p, NEW h \in Nat \ {0}, Sent(e, c, p, h)
  PROVE  \E u, w : Split(p, h, u, w)
<1> DEFINE n == p[h]
           m == Len(p)
           u == SubSeq(p, 1, h)
           w == SubSeq(p, h + 1, m)
<1>1. p \in Seq(Byte) /\ n \in Nat /\ m = h + n
  BY DEF Sent, seq_max_bytes
<1>2. m = Len(p) /\ n = p[h]
  OBVIOUS
<1> HIDE DEF m, n
<1>3. \A i \in 1..m : p[i] \in Byte
  BY <1>1, <1>2, ElementOfSeq
<1>4. \A i \in 1..h : p[i] \in Byte \ Marker
  BY <1>1, <1>3 DEF Sent
<1>5. /\ u \in Seq(Byte \ Marker) /\ Len(u) = h /\ \A i \in 1..h : u[i] = p[i]
  <2>1. /\ u \in Seq(Byte \ Marker) /\ Len(u) = IF 1 <= h THEN h - 1 + 1 ELSE 0
        /\ \A i \in 1..h - 1 + 1 : u[i] = p[1 + i - 1]
    BY <1>4, SubSeqProperties
  <2> QED
    BY <2>1
<1>6. w \in Seq(Byte) /\ Len(w) = n
  <2>1. \A i \in h + 1..m : p[i] \in Byte
    BY <1>1, <1>3
  <2>2. w \in Seq(Byte) /\ Len(w) = IF h + 1 <= m THEN m - (h + 1) + 1 ELSE 0
    BY <1>1, <2>1, SubSeqProperties
  <2> QED
    BY <1>1, <2>2
<1>7. p = u \o w
  <2>1. 1 \in 1..m + 1 /\ h \in 1 - 1..m /\ m \in h..m
    BY <1>1
  <2>2. SubSeq(p, 1, h) \o SubSeq(p, h + 1, m) = SubSeq(p, 1, m)
    BY <1>1, <1>2, <2>1, ConcatAdjacentSubSeq
  <2>3. SubSeq(p, 1, m) = p
    BY <1>1, <1>2, SubSeqFull
  <2> QED
    BY <2>2, <2>3
<1>8. u # <<>> /\ u[h] = n
  <2>1. h \in 1..h /\ Len(u) # 0
    BY <1>5
  <2> QED
    BY <1>2, <1>5, <2>1, EmptySeq
<1> HIDE DEF u, w
<1>9. Split(p, h, u, w)
  BY <1>2, <1>5, <1>6, <1>7, <1>8 DEF Split
<1> QED
  BY <1>9

LEMMA SentIs ==
  ASSUME NEW e, NEW c, NEW p, NEW h \in Nat \ {0}, Sent(e, c, p, h)
  PROVE  \E u, w, x, v :
           /\ IsSent(Append(e, c), p, e, u, w, x, v, c)
           /\ u # <<>> /\ Len(u) = h /\ Len(w) = p[h] /\ u[h] = p[h]
<1>1. PICK u, w : Split(p, h, u, w)
  BY SentSplit
<1>2. IsSent(Append(e, c), p, e, u, w, extended[w], Append(extended[w], c), c)
  BY <1>1 DEF IsSent, Sent, Split
<1> QED
  BY <1>1, <1>2 DEF Split

Header(s, p, h) == \A i \in 1..h : i \in DOMAIN s /\ s[i] = p[i]

LEMMA SentHeader ==
  ASSUME NEW e, NEW c, NEW p, NEW h \in Nat \ {0}, Sent(e, c, p, h), NEW s, s = Append(e, c)
  PROVE  Header(s, p, h)
<1>1. PICK u, w, x, v :
        /\ IsSent(s, p, e, u, w, x, v, c)
        /\ u # <<>> /\ Len(u) = h /\ Len(w) = p[h] /\ u[h] = p[h]
  BY SentIs
<1>0. IsSent(s, p, e, u, w, x, v, c)
  BY <1>1
<1>2. /\ s \in Seq(Byte \ {seq_syn}) /\ s \in Seq(Byte) /\ e \in Seq(Byte) /\ c \in Byte
      /\ u \in Seq(Byte) /\ v \in Seq(Byte) /\ s = u \o v
  <2>1. s \in Seq(Byte \ {seq_syn}) /\ s \in Seq(Byte) /\ e \in Seq(Byte)
    BY ONLY <1>0, SentPart
  <2>2. c \in Byte /\ u \in Seq(Byte) /\ v \in Seq(Byte)
    BY ONLY <1>0, SentPart
  <2>3. s = u \o v
    BY ONLY <1>0, SentPart
  <2> QED
    BY <2>1, <2>2, <2>3
<1>5. w \in Seq(Byte) /\ p = u \o w /\ v = Append(extended[w], c) /\ c \in Byte \ Marker
  BY <1>1 DEF IsSent
<1>6. ASSUME NEW i \in 1..h PROVE i \in DOMAIN s /\ s[i] = p[i]
  <2>1. i \in DOMAIN u
    BY <1>1, <1>2, LenProperties
  <2>2. i \in DOMAIN s /\ s[i] = u[i]
    BY <1>2, <2>1, FirstPart
  <2>3. p[i] = u[i]
    BY <1>2, <1>5, <2>1, FirstPart
  <2> QED
    BY <2>2, <2>3
<1> QED
  BY <1>6 DEF Header

\* Undisturbed it is what it should be: nothing is missing, nothing too much.
LEMMA SentComplete ==
  ASSUME NEW e, NEW c, NEW p, NEW h \in Nat \ {0}, Sent(e, c, p, h), NEW s, s = Append(e, c)
  PROVE  /\ e \in Seq(Byte) /\ c \in Byte /\ s \in Seq(Byte) /\ s \in Seq(Byte \ {seq_syn})
         /\ reduced[s] = Append(p, c) /\ Reads(s, p, h)
         /\ Complete(After(s, h), s[h]) /\ ~Early(After(s, h), s[h])
<1>1. PICK u, w, x, v :
        /\ IsSent(s, p, e, u, w, x, v, c)
        /\ u # <<>> /\ Len(u) = h /\ Len(w) = p[h] /\ u[h] = p[h]
  BY SentIs
<1>0. IsSent(s, p, e, u, w, x, v, c)
  BY <1>1
<1>2. /\ s \in Seq(Byte \ {seq_syn}) /\ s \in Seq(Byte) /\ e \in Seq(Byte) /\ c \in Byte
      /\ u \in Seq(Byte) /\ v \in Seq(Byte) /\ s = u \o v
  <2>1. s \in Seq(Byte \ {seq_syn}) /\ s \in Seq(Byte) /\ e \in Seq(Byte)
    BY ONLY <1>0, SentPart
  <2>2. c \in Byte /\ u \in Seq(Byte) /\ v \in Seq(Byte)
    BY ONLY <1>0, SentPart
  <2>3. s = u \o v
    BY ONLY <1>0, SentPart
  <2> QED
    BY <2>1, <2>2, <2>3
<1>3. reduced[s] = Append(p, c) /\ After(s, h) = v
  BY <1>1, SentPart
<1>4. Reads(s, p, h)
  BY <1>1, ReadsSent
<1>5. w \in Seq(Byte) /\ p = u \o w /\ v = Append(extended[w], c) /\ c \in Byte \ Marker
  BY <1>1 DEF IsSent
<1>7. Complete(v, Len(w)) /\ ~Early(v, Len(w))
  BY <1>5, SizeCrc
<1>8. s[h] = Len(w)
  <2>1. s[h] = p[h]
    BY SentHeader DEF Header
  <2> QED
    BY <1>1, <2>1
<1> QED
  BY <1>2, <1>3, <1>4, <1>7, <1>8

\* One byte changed.
LEMMA SentNoisy ==
  ASSUME NEW e, NEW c, NEW p, NEW h \in Nat \ {0}, Sent(e, c, p, h), NEW s, s = Append(e, c),
         NEW i \in DOMAIN s, NEW b \in Byte \ {seq_syn}, i < h => b # seq_exp,
         NEW d, d = Changed(s, i, b), Complete(After(d, h), d[h])
  PROVE  Reads(d, p, h)
<1>1. PICK u, w, x, v :
        /\ IsSent(s, p, e, u, w, x, v, c)
        /\ u # <<>> /\ Len(u) = h /\ Len(w) = p[h] /\ u[h] = p[h]
  BY SentIs
<1>2. c = calc_crc[e]
  BY DEF Sent
<1>3. u \in Seq(Byte) /\ s \in Seq(Byte)
  BY <1>1, SentPart
<1>4. i \in DOMAIN u /\ i # h => b # seq_exp
  BY <1>1, <1>3, LenProperties
<1>5. h = Len(u) /\ u[h] = Len(w)
  BY <1>1
<1> DEFINE n == Len(w)
<1>6. n = Len(w) /\ u[h] = n
  BY <1>5
<1> HIDE DEF n
<1> QED
  BY <1>1, <1>2, <1>4, <1>5, <1>6, NoisyRead
-----------------------------------------------------------------------------
(* What createMaster() and createSlave() take.                             *)

\* The bytes of a part that is OK, and their CRC.
LEMMA TakenWhole ==
  ASSUME NEW b \in Seq(Byte), NEW n \in Nat, n <= Len(b), Len(b) <= n + 1,
         NEW q, q = SubSeq(b, 1, n), NEW taken, taken = TakePart(b, n), taken.state = "OK"
  PROVE  Reduce(taken.part) = Plain(q) /\ taken.crc = calc_crc[extended[q]]
<1>1. q \in Seq(Byte) /\ Len(q) = n /\ \A i \in 1..n : q[i] = b[i]
  BY SubSeqBytes
<1>2. Crc(Plain(q)) = calc_crc[extended[q]]
  BY DEF Crc, Extend, Plain
<1>3. Reduce(Plain(q)) = Plain(q)
  BY DEF Reduce, Plain
<1>4. Reduce(AfterCrc(Plain(q))) = Plain(q)
  BY <1>1, RoundTrip DEF Reduce, AfterCrc, Extend, Plain
<1>5. taken = IF Len(b) = n THEN [part |-> Plain(q), crc |-> Crc(Plain(q)), state |-> "OK"]
              ELSE [part |-> AfterCrc(Plain(q)), crc |-> b[n + 1],
                    state |-> IF Crc(Plain(q)) = b[n + 1] THEN "OK" ELSE "CRC"]
  BY DEF TakePart
<1>6. CASE Len(b) = n
  BY <1>1, <1>2, <1>3, <1>5, <1>6
<1>7. CASE Len(b) # n
  <2>1. taken = [part |-> AfterCrc(Plain(q)), crc |-> b[n + 1],
                 state |-> IF Crc(Plain(q)) = b[n + 1] THEN "OK" ELSE "CRC"]
    BY <1>5, <1>7
  <2>2. Crc(Plain(q)) = b[n + 1]
    BY <2>1
  <2> QED
    BY <1>1, <1>2, <1>4, <2>1, <2>2
<1> QED
  BY <1>6, <1>7

\* A part with its CRC.
Matches(q, x) == calc_crc[extended[q]] = x

LEMMA TakenCrc ==
  ASSUME NEW q \in Seq(Byte), NEW x \in Byte, NEW b, b = Append(q, x), NEW n, n = Len(q)
  PROVE  /\ b \in Seq(Byte) /\ Len(b) = n + 1 /\ n \in Nat /\ SubSeq(b, 1, n) = q
         /\ TakePart(b, n).state = "OK" => Matches(q, x)
         /\ Matches(q, x) => TakePart(b, n).state = "OK"
<1>1. /\ b \in Seq(Byte) /\ Len(b) = n + 1 /\ n \in Nat
      /\ b[n + 1] = x /\ \A i \in 1..n : b[i] = q[i]
  BY AppendProperties, LenProperties
<1>2. SubSeq(b, 1, n) = q
  <2>1. /\ SubSeq(b, 1, n) \in Seq(Byte) /\ Len(SubSeq(b, 1, n)) = n
        /\ \A i \in 1..n : SubSeq(b, 1, n)[i] = b[i]
    BY <1>1, SubSeqBytes
  <2>2. \A i \in 1..n : SubSeq(b, 1, n)[i] = q[i]
    BY <1>1, <2>1
  <2> DEFINE u == SubSeq(b, 1, n)
  <2> HIDE DEF u
  <2>3. u \in Seq(Byte) /\ Len(u) = Len(q) /\ \A i \in 1..Len(u) : u[i] = q[i]
    BY <2>1, <2>2 DEF u
  <2>4. u = q
    BY <2>3, SeqEqual
  <2> QED
    BY <2>4 DEF u
<1>3. Crc(Plain(q)) = calc_crc[extended[q]]
  BY DEF Crc, Extend, Plain
<1>4. TakePart(b, n) = [part |-> AfterCrc(Plain(q)), crc |-> x,
                        state |-> IF Crc(Plain(q)) = x THEN "OK" ELSE "CRC"]
  <2>1. Len(b) # n
    BY <1>1
  <2> QED
    BY <1>1, <1>2, <2>1 DEF TakePart
<1>5. TakePart(b, n).state = IF Crc(Plain(q)) = x THEN "OK" ELSE "CRC"
  BY <1>4
<1>6. TakePart(b, n).state = "OK" <=> calc_crc[extended[q]] = x
  BY <1>3, <1>5
<1> QED
  BY <1>1, <1>2, <1>6 DEF Matches

LEMMA TakenOK ==
  ASSUME NEW q \in Seq(Byte), NEW x \in Byte, Matches(q, x),
         NEW b, b = Append(q, x), NEW n, n = Len(q)
  PROVE  TakePart(b, n).state = "OK"
<1>1. Len(b) = n + 1 /\ n \in Nat
  BY TakenCrc
<1>2. SubSeq(b, 1, n) = q
  BY TakenCrc
<1>3. b[n + 1] = x
  BY AppendProperties
<1>4. Crc(Plain(q)) = x
  BY DEF Crc, Extend, Plain, Matches
<1>5. TakePart(b, n) = [part |-> AfterCrc(Plain(q)), crc |-> x, state |-> "OK"]
  <2>1. Len(b) # n
    BY <1>1
  <2> QED
    BY <1>2, <1>3, <1>4, <2>1 DEF TakePart
<1> QED
  BY <1>5

LEMMA SetMasterIs ==
  ASSUME NEW t \in Telegrams, NEW b, NEW error \in PartStates, NEW taken,
         NEW v, v = SetMaster(t, b, error, taken)
  PROVE  /\ v.m_slave = t.m_slave /\ v.m_slaveState = t.m_slaveState
         /\ v.m_masterState = IF error = "OK" THEN taken.state ELSE error
         /\ error = "OK" => /\ v.m_type = TelegramType(b[2])
                            /\ v.m_master = taken.part /\ v.m_masterCRC = taken.crc
BY DEF SetMaster, Telegrams

LEMMA SetSlaveIs ==
  ASSUME NEW t \in Telegrams, NEW b, NEW error \in PartStates, NEW taken,
         NEW v, v = SetSlave(t, b, error, taken)
  PROVE  /\ v.m_master = t.m_master /\ v.m_masterState = t.m_masterState /\ v.m_type = t.m_type
         /\ v.m_masterCRC = t.m_masterCRC
         /\ v.m_slaveState = IF error = "OK" THEN taken.state ELSE error
         /\ error = "OK" => v.m_slave = taken.part /\ v.m_slaveCRC = taken.crc
BY DEF SetSlave, Telegrams

\* b is taken for the part q of n bytes, the h-th of which is the size byte.
Taking(b, h, n, q) == b \in Seq(Byte) /\ n = h + b[h] /\ q = SubSeq(b, 1, n)

\* What createMaster() accepts, q.
HeldMaster(v, b, n, q) ==
  /\ n \in Nat /\ n <= Len(b) /\ q \in Seq(Byte) /\ Len(q) = n /\ n = 5 + q[5]
  /\ q[5] \in 0..seq_max_bytes /\ TakePart(b, n).state = "OK"
  /\ \A i \in 1..5 : q[i] = b[i]
  /\ IsMaster(q[1]) /\ IsAddressValid(q[2])
  /\ v.m_type = TelegramType(q[2])
  /\ Reduce(v.m_master) = Plain(q) /\ v.m_masterCRC = calc_crc[extended[q]]

LEMMA MasterTaken ==
  ASSUME NEW t \in Telegrams, NEW b, NEW n, NEW q, Taking(b, 5, n, q),
         NEW v, v = TakeMaster(t, b), v.m_masterState = "OK"
  PROVE  HeldMaster(v, b, n, q)
<1>a. b \in Seq(Byte) /\ n = 5 + b[5] /\ q = SubSeq(b, 1, n)
  BY DEF Taking
<1> DEFINE error == First(HeaderError(b), SizeError(b, 5 + b[5]))
           taken == TakePart(b, n)
<1>1. error = First(HeaderError(b), SizeError(b, 5 + b[5]))
  OBVIOUS
<1>2. v = SetMaster(t, b, error, taken) /\ taken = TakePart(b, n)
  BY <1>a DEF TakeMaster
<1> HIDE DEF error, taken
<1>3. /\ error \in PartStates
      /\ error = "OK" =>
           /\ Len(b) >= 6 /\ IsMaster(b[1]) /\ IsAddressValid(b[2])
           /\ b[5] \in 0..seq_max_bytes /\ 5 + b[5] <= Len(b) /\ Len(b) <= 5 + b[5] + 1
  BY <1>1, <1>a, MasterErrors
<1>4. /\ v.m_masterState = IF error = "OK" THEN taken.state ELSE error
      /\ error = "OK" => /\ v.m_type = TelegramType(b[2])
                         /\ v.m_master = taken.part /\ v.m_masterCRC = taken.crc
  <2>1. error \in PartStates
    BY <1>3
  <2>2. v = SetMaster(t, b, error, taken)
    BY <1>2
  <2> QED
    BY <2>1, <2>2 DEF SetMaster, Telegrams
<1>5. error = "OK" /\ taken.state = "OK"
  BY <1>4
<1>6. /\ IsMaster(b[1]) /\ IsAddressValid(b[2])
      /\ b[5] \in 0..seq_max_bytes /\ n \in Nat /\ n <= Len(b) /\ Len(b) <= n + 1 /\ 5 <= n
  BY <1>3, <1>5, <1>a DEF seq_max_bytes
<1>0. q \in Seq(Byte) /\ Len(q) = n /\ \A i \in 1..n : q[i] = b[i]
  BY <1>6, <1>a, SubSeqBytes
<1>7. Reduce(taken.part) = Plain(q) /\ taken.crc = calc_crc[extended[q]]
  <2>1. n \in Nat
    BY <1>6
  <2>2. n <= Len(b)
    BY <1>6
  <2>3. Len(b) <= n + 1
    BY <1>6
  <2>4. taken = TakePart(b, n)
    BY <1>2
  <2>5. taken.state = "OK"
    BY <1>5
  <2>6. b \in Seq(Byte) /\ q = SubSeq(b, 1, n)
    BY <1>a
  <2> QED
    BY ONLY <2>6, <2>1, <2>2, <2>3, <2>4, <2>5, TakenWhole
<1>8. \A i \in 1..5 : q[i] = b[i]
  <2>1. n \in Nat /\ 5 <= n
    BY <1>6
  <2>2. \A i \in 1..n : q[i] = b[i]
    BY <1>0
  <2>3. \A i \in 1..5 : i \in 1..n
    BY ONLY <2>1
  <2> QED
    BY ONLY <2>2, <2>3
<1>9. q[1] = b[1] /\ q[2] = b[2] /\ q[5] = b[5]
  BY ONLY <1>8
<1> QED
  BY <1>0, <1>2, <1>4, <1>5, <1>6, <1>7, <1>8, <1>9, <1>a, Zenon DEF HeldMaster

\* What createSlave() accepts.
HeldSlave(v, b, n, q) ==
  /\ n \in Nat /\ q \in Seq(Byte) /\ Len(q) = n /\ n = 1 + q[1]
  /\ q[1] \in 0..seq_max_bytes /\ TakePart(b, n).state = "OK" /\ q[1] = b[1]
  /\ Reduce(v.m_slave) = Plain(q) /\ v.m_slaveCRC = calc_crc[extended[q]]

LEMMA SlaveTaken ==
  ASSUME NEW t \in Telegrams, NEW b, NEW n, NEW q, Taking(b, 1, n, q),
         NEW v, v = TakeSlave(t, b), v.m_slaveState = "OK"
  PROVE  HeldSlave(v, b, n, q)
<1>a. b \in Seq(Byte) /\ n = 1 + b[1] /\ q = SubSeq(b, 1, n)
  BY DEF Taking
<1> DEFINE error == First(SlaveError(b), SizeError(b, 1 + b[1]))
           taken == TakePart(b, n)
<1>1. error = First(SlaveError(b), SizeError(b, 1 + b[1]))
  OBVIOUS
<1>2. v = SetSlave(t, b, error, taken) /\ taken = TakePart(b, n)
  BY <1>a DEF TakeSlave
<1> HIDE DEF error, taken
<1>3. /\ error \in PartStates
      /\ error = "OK" =>
           /\ Len(b) >= 2 /\ b[1] \in 0..seq_max_bytes
           /\ 1 + b[1] <= Len(b) /\ Len(b) <= 1 + b[1] + 1
  BY <1>1, <1>a, SlaveErrors
<1>4. /\ v.m_slaveState = IF error = "OK" THEN taken.state ELSE error
      /\ error = "OK" => v.m_slave = taken.part /\ v.m_slaveCRC = taken.crc
  <2>1. error \in PartStates
    BY <1>3
  <2>2. v = SetSlave(t, b, error, taken)
    BY <1>2
  <2> QED
    BY ONLY t \in Telegrams, <2>1, <2>2, SetSlaveIs
<1>5. error = "OK" /\ taken.state = "OK"
  BY <1>4
<1>6. b[1] \in 0..seq_max_bytes /\ n \in Nat /\ n <= Len(b) /\ Len(b) <= n + 1 /\ 1 <= n
  BY <1>3, <1>5, <1>a DEF seq_max_bytes
<1>0. q \in Seq(Byte) /\ Len(q) = n /\ \A i \in 1..n : q[i] = b[i]
  BY <1>6, <1>a, SubSeqBytes
<1>7. Reduce(taken.part) = Plain(q) /\ taken.crc = calc_crc[extended[q]]
  <2>1. n \in Nat
    BY <1>6
  <2>2. n <= Len(b)
    BY <1>6
  <2>3. Len(b) <= n + 1
    BY <1>6
  <2>4. taken = TakePart(b, n)
    BY <1>2
  <2>5. taken.state = "OK"
    BY <1>5
  <2>6. b \in Seq(Byte) /\ q = SubSeq(b, 1, n)
    BY <1>a
  <2> QED
    BY ONLY <2>6, <2>1, <2>2, <2>3, <2>4, <2>5, TakenWhole
<1>8. q[1] = b[1]
  <2>1. 1 \in 1..n
    BY <1>6
  <2> QED
    BY <1>0, <2>1
<1> QED
  BY <1>0, <1>2, <1>4, <1>5, <1>6, <1>7, <1>8, <1>a, Zenon DEF HeldSlave

\* Each of the two leaves the other part of a telegram as it is.
LEMMA OtherPart ==
  ASSUME NEW t \in Telegrams, NEW s \in SeqObjects,
         NEW v, v = CreateMaster(t, s), NEW w, w = CreateSlave(t, s)
  PROVE  /\ v.m_slave = t.m_slave /\ v.m_slaveState = t.m_slaveState
         /\ w.m_master = t.m_master /\ w.m_masterState = t.m_masterState
         /\ w.m_masterCRC = t.m_masterCRC /\ w.m_type = t.m_type
<1>1. ASSUME NEW b, NEW error, NEW taken
      PROVE  /\ SetMaster(t, b, error, taken).m_slave = t.m_slave
             /\ SetMaster(t, b, error, taken).m_slaveState = t.m_slaveState
             /\ SetSlave(t, b, error, taken).m_master = t.m_master
             /\ SetSlave(t, b, error, taken).m_masterState = t.m_masterState
             /\ SetSlave(t, b, error, taken).m_masterCRC = t.m_masterCRC
             /\ SetSlave(t, b, error, taken).m_type = t.m_type
  BY DEF SetMaster, SetSlave, Telegrams
<1> QED
  BY <1>1 DEF CreateMaster, TakeMaster, CreateSlave, TakeSlave

\* The h-th byte of p is its size byte.
Sized(p, h) == p[h] \in 0..seq_max_bytes /\ Len(p) = h + p[h]

\* A reader's bytes and its CRC.
LEMMA ReadsPart ==
  ASSUME NEW p, NEW h \in Nat \ {0}, Sized(p, h), NEW d, Reads(d, p, h),
         NEW b, b = reduced[d], NEW n, NEW q, Taking(b, h, n, q), TakePart(b, n).state = "OK"
  PROVE  q = p
<1>1. PICK r \in Seq(Byte), x \in Byte :
        /\ b = Append(r, x) /\ Len(r) = Len(p) /\ r[h] = p[h]
        /\ calc_crc[extended[r]] = x => r = p
  BY DEF Reads
<1> DEFINE m == Len(r)
<1>2. /\ Len(b) = m + 1 /\ m \in Nat /\ SubSeq(b, 1, m) = r
      /\ TakePart(b, m).state = "OK" => Matches(r, x)
  <2>1. b = Append(r, x) /\ m = Len(r)
    BY <1>1
  <2> HIDE DEF m
  <2>2. Len(b) = m + 1 /\ m \in Nat
    BY ONLY r \in Seq(Byte), x \in Byte, <2>1, TakenCrc
  <2>3. SubSeq(b, 1, m) = r
    BY ONLY r \in Seq(Byte), x \in Byte, <2>1, TakenCrc
  <2>4. TakePart(b, m).state = "OK" => Matches(r, x)
    BY ONLY r \in Seq(Byte), x \in Byte, <2>1, TakenCrc
  <2> QED
    BY <2>2, <2>3, <2>4
<1>3. \A i \in 1..m : b[i] = r[i]
  BY <1>1, AppendProperties
<1>4. m = n
  <2> DEFINE k == p[h]
  <2>1. m = h + k /\ r[h] = k /\ k \in Nat
    BY <1>1 DEF Sized, seq_max_bytes
  <2> HIDE DEF k, m
  <2>2. h \in 1..m
    BY ONLY <2>1, h \in Nat \ {0}
  <2>3. b[h] = k
    BY <1>3, <2>1, <2>2
  <2> QED
    BY <2>1, <2>3 DEF Taking
<1> QED
  BY <1>1, <1>2, <1>4 DEF Matches, Taking

LEMMA ReceivedBytes ==
  ASSUME NEW d \in Seq(Byte)
  PROVE  Received(d) \in SeqObjects /\ Reduce(Received(d)).m_seq = reduced[d] /\ reduced[d] \in Seq(Byte)
BY ReducedBytes, PlainTyped DEF Received, Reduce, Plain

\* What the node that reads d accepts is p.
LEMMA MasterAccepted ==
  ASSUME NEW p, Sized(p, 5),
         NEW d \in Seq(Byte), Reads(d, p, 5), NEW t \in Telegrams,
         NEW v, v = CreateMaster(t, Received(d)), v.m_masterState = "OK"
  PROVE  Reduce(v.m_master) = Plain(p) /\ v.m_type = TelegramType(p[2])
<1> DEFINE b == reduced[d]
           n == 5 + b[5]
           q == SubSeq(b, 1, n)
<1>1. b = reduced[d] /\ Taking(b, 5, n, q)
  BY ReceivedBytes DEF Taking
<1>2. v = TakeMaster(t, b)
  BY ReceivedBytes DEF CreateMaster
<1> HIDE DEF b, n, q
<1>3. HeldMaster(v, b, n, q)
  BY <1>1, <1>2, MasterTaken
<1>4. TakePart(b, n).state = "OK"
  BY <1>3 DEF HeldMaster
<1>5. q = p
  <2> DEFINE h == 5
  <2>1. h \in Nat \ {0}
    OBVIOUS
  <2>2. b = reduced[d]
    BY <1>1
  <2>3. Taking(b, h, n, q) /\ Sized(p, h) /\ Reads(d, p, h)
    BY <1>1
  <2> HIDE DEF h
  <2> QED
    BY ONLY <2>1, <2>2, <2>3, <1>4, ReadsPart, Zenon
<1> QED
  BY <1>3, <1>5 DEF HeldMaster

LEMMA SlaveAccepted ==
  ASSUME NEW p, Sized(p, 1),
         NEW d \in Seq(Byte), Reads(d, p, 1), NEW t \in Telegrams,
         NEW v, v = CreateSlave(t, Received(d)), v.m_slaveState = "OK"
  PROVE  Reduce(v.m_slave) = Plain(p)
<1> DEFINE b == reduced[d]
           n == 1 + b[1]
           q == SubSeq(b, 1, n)
<1>1. b = reduced[d] /\ Taking(b, 1, n, q)
  BY ReceivedBytes DEF Taking
<1>2. v = TakeSlave(t, b)
  BY ReceivedBytes DEF CreateSlave
<1> HIDE DEF b, n, q
<1>3. HeldSlave(v, b, n, q)
  BY <1>1, <1>2, SlaveTaken
<1>4. TakePart(b, n).state = "OK"
  BY <1>3 DEF HeldSlave
<1>5. q = p
  <2>1. 1 \in Nat \ {0}
    OBVIOUS
  <2>2. b = reduced[d]
    BY <1>1
  <2>3. Taking(b, 1, n, q)
    BY <1>1
  <2> QED
    BY ONLY <2>1, <2>2, <2>3, <1>4, Sized(p, 1), Reads(d, p, 1), ReadsPart, Zenon
<1> QED
  BY <1>3, <1>5 DEF HeldSlave

\* x is what reduce() leaves of a master part p that was sent, or of a response.
MasterIs(x, p, type) ==
  /\ x \in Seq(Byte) /\ IsMaster(p[1]) /\ type = TelegramType(p[2])
  /\ \E e, c : Sent(e, c, p, 5) /\ x = Append(p, c)

SlaveIs(x, p) ==
  /\ x \in Seq(Byte)
  /\ \E e, c : Sent(e, c, p, 1) /\ x = Append(p, c)

LEMMA MasterBytesOf ==
  ASSUME NEW x, NEW p, NEW type, MasterIs(x, p, type)
  PROVE  /\ x \in Seq(Byte) /\ p \in Seq(Byte) /\ p[5] \in 0..16 /\ Len(p) = 5 + p[5]
         /\ Len(x) = 6 + p[5] /\ \A i \in 1..5 : x[i] = p[i]
         /\ IsMaster(x[1]) /\ IsAddressValid(x[2]) /\ type = TelegramType(x[2])
<1>1. PICK e, c : Sent(e, c, p, 5) /\ x = Append(p, c)
  BY DEF MasterIs
<1>2. /\ p \in Seq(Byte) /\ c \in Byte /\ p[5] \in 0..16 /\ Len(p) = 5 + p[5]
      /\ p[2] \notin Marker /\ IsMaster(p[1]) /\ type = TelegramType(p[2])
  BY <1>1 DEF Sent, MasterIs, seq_max_bytes
<1> DEFINE k == p[5]
<1>3. k \in 0..16 /\ Len(p) = 5 + k /\ k = p[5]
  BY <1>2
<1> HIDE DEF k
<1>4. x \in Seq(Byte) /\ Len(x) = Len(p) + 1 /\ \A i \in 1..Len(p) : x[i] = p[i]
  BY <1>1, <1>2, AppendProperties
<1>5. Len(x) = 6 + k
  BY <1>3, <1>4
<1>6. \A i \in 1..5 : i \in 1..Len(p)
  BY <1>3
<1>7. \A i \in 1..5 : x[i] = p[i]
  BY <1>4, <1>6
<1>8. x[1] = p[1] /\ x[2] = p[2]
  BY <1>7
<1>9. IsMaster(x[1]) /\ IsAddressValid(x[2]) /\ type = TelegramType(x[2])
  BY <1>2, <1>8 DEF IsAddressValid, Marker
<1> QED
  BY <1>2, <1>3, <1>4, <1>5, <1>7, <1>9

LEMMA SlaveBytesOf ==
  ASSUME NEW x, NEW p, SlaveIs(x, p)
  PROVE  /\ x \in Seq(Byte) /\ p \in Seq(Byte) /\ p[1] \in 0..16 /\ Len(p) = 1 + p[1]
         /\ Len(x) = 2 + p[1] /\ x[1] = p[1]
<1>1. PICK e, c : Sent(e, c, p, 1) /\ x = Append(p, c)
  BY DEF SlaveIs
<1>2. p \in Seq(Byte) /\ c \in Byte /\ p[1] \in 0..16 /\ Len(p) = 1 + p[1]
  BY <1>1 DEF Sent, seq_max_bytes
<1> DEFINE k == p[1]
<1>3. k \in 0..16 /\ Len(p) = 1 + k /\ k = p[1]
  BY <1>2
<1> HIDE DEF k
<1>4. x \in Seq(Byte) /\ Len(x) = Len(p) + 1 /\ \A i \in 1..Len(p) : x[i] = p[i]
  BY <1>1, <1>2, AppendProperties
<1>5. Len(x) = 2 + k /\ 1 \in 1..Len(p)
  BY <1>3, <1>4
<1> QED
  BY <1>2, <1>3, <1>4, <1>5

\* createMaster() takes all of it.
LEMMA MasterTakes ==
  ASSUME NEW x, NEW p, NEW type, MasterIs(x, p, type), NEW t \in Telegrams, NEW v, v = TakeMaster(t, x)
  PROVE  /\ v \in Telegrams /\ v.m_masterState = "OK" /\ v.m_masterNN = p[5]
         /\ v.m_type = type /\ v.m_slaveState = t.m_slaveState
<1>1. PICK e, c : Sent(e, c, p, 5) /\ x = Append(p, c)
  BY DEF MasterIs
<1> DEFINE k == p[5]
           n == 5 + k
<1>2. /\ x \in Seq(Byte) /\ p \in Seq(Byte) /\ k \in 0..16 /\ Len(p) = n /\ x[5] = k
      /\ Len(x) = 6 + k /\ IsMaster(x[1]) /\ IsAddressValid(x[2]) /\ type = TelegramType(x[2])
  BY MasterBytesOf
<1>3. TakePart(x, n).state = "OK"
  <2>1. p \in Seq(Byte)
    BY <1>2
  <2>2. c \in Byte /\ Matches(p, c)
    BY <1>1 DEF Sent, Matches
  <2>3. c \in Byte
    BY <2>2
  <2>4. Matches(p, c)
    BY <2>2
  <2>5. x = Append(p, c)
    BY <1>1
  <2>6. n = Len(p)
    BY <1>2
  <2> QED
    BY ONLY <2>1, <2>3, <2>4, <2>5, <2>6, TakenOK
<1>4. n = 5 + k /\ k = p[5]
  OBVIOUS
<1> HIDE DEF k, n
<1>5. HeaderError(x) = "OK"
  <2>1. ~(Len(x) < 6) /\ ~(x[5] > seq_max_bytes)
    BY <1>2 DEF seq_max_bytes
  <2> QED
    BY <1>2, <2>1 DEF HeaderError
<1>6. SizeError(x, n) = "OK"
  <2>1. ~(Len(x) < n) /\ ~(Len(x) > n + 1)
    BY <1>2, <1>4
  <2> QED
    BY <2>1 DEF SizeError
<1>7. 5 + x[5] = n
  BY <1>2, <1>4
<1>8. v = SetMaster(t, x, "OK", TakePart(x, n))
  BY <1>5, <1>6, <1>7 DEF TakeMaster, First
<1>9. v \in Telegrams
  <2>1. Plain(x) \in SeqObjects /\ v = CreateMaster(t, Plain(x))
    BY <1>2, PlainTyped DEF CreateMaster, Reduce, Plain
  <2> QED
    BY <2>1, CreateTyped
<1> QED
  BY <1>2, <1>3, <1>4, <1>8, <1>9 DEF SetMaster, Telegrams

LEMMA SlaveTakes ==
  ASSUME NEW x, NEW p, SlaveIs(x, p), NEW t \in Telegrams, NEW v, v = TakeSlave(t, x)
  PROVE  /\ v \in Telegrams /\ v.m_slaveState = "OK" /\ v.m_slaveNN = p[1]
         /\ v.m_masterState = t.m_masterState /\ v.m_type = t.m_type
<1>1. PICK e, c : Sent(e, c, p, 1) /\ x = Append(p, c)
  BY DEF SlaveIs
<1> DEFINE k == p[1]
           n == 1 + k
<1>2. /\ x \in Seq(Byte) /\ p \in Seq(Byte) /\ k \in 0..16 /\ Len(p) = n /\ x[1] = k
      /\ Len(x) = 2 + k
  BY SlaveBytesOf
<1>3. TakePart(x, n).state = "OK"
  <2>1. p \in Seq(Byte)
    BY <1>2
  <2>2. c \in Byte /\ Matches(p, c)
    BY <1>1 DEF Sent, Matches
  <2>3. c \in Byte
    BY <2>2
  <2>4. Matches(p, c)
    BY <2>2
  <2>5. x = Append(p, c)
    BY <1>1
  <2>6. n = Len(p)
    BY <1>2
  <2> QED
    BY ONLY <2>1, <2>3, <2>4, <2>5, <2>6, TakenOK
<1>4. n = 1 + k /\ k = p[1]
  OBVIOUS
<1> HIDE DEF k, n
<1>5. SlaveError(x) = "OK"
  <2>1. ~(Len(x) < 2) /\ ~(x[1] > seq_max_bytes)
    BY <1>2 DEF seq_max_bytes
  <2> QED
    BY <1>2, <2>1 DEF SlaveError
<1>6. SizeError(x, n) = "OK"
  <2>1. ~(Len(x) < n) /\ ~(Len(x) > n + 1)
    BY <1>2, <1>4
  <2> QED
    BY <2>1 DEF SizeError
<1>7. 1 + x[1] = n
  BY <1>2, <1>4
<1>8. v = SetSlave(t, x, "OK", TakePart(x, n))
  BY <1>5, <1>6, <1>7 DEF TakeSlave, First
<1>9. v \in Telegrams
  <2>1. Plain(x) \in SeqObjects /\ v = CreateSlave(t, Plain(x))
    BY <1>2, PlainTyped DEF CreateSlave, Reduce, Plain
  <2> QED
    BY <2>1, CreateTyped
<1> QED
  BY <1>2, <1>3, <1>4, <1>8, <1>9 DEF SetSlave, Telegrams

LEMMA SentReduced ==
  ASSUME NEW e, NEW c, NEW p, NEW h \in Nat \ {0}, Sent(e, c, p, h),
         NEW s, s = Append(e, c), NEW x, x = Append(p, c)
  PROVE  /\ s \in Seq(Byte) /\ s \in Seq(Byte \ {seq_syn}) /\ Ended(s)
         /\ reduced[s] = x /\ x \in Seq(Byte) /\ s # <<>>
<1>1. e \in Seq(Byte) /\ c \in Byte /\ s \in Seq(Byte) /\ s \in Seq(Byte \ {seq_syn})
  BY SentComplete
<1>2. reduced[s] = Append(p, c)
  BY SentComplete
<1>3. s # <<>> /\ Last(s) = c
  BY <1>1, FrontAppend
<1>4. c \notin Marker /\ p \in Seq(Byte)
  BY DEF Sent
<1>5. x \in Seq(Byte)
  BY <1>1, <1>4, AppendProperties
<1> QED
  BY <1>1, <1>2, <1>3, <1>4, <1>5 DEF Ended

\* What reduce() leaves of a part that comes as it was sent.
LEMMA SentMaster ==
  ASSUME NEW e, NEW c, NEW p, Sent(e, c, p, 5), IsMaster(p[1]), NEW s, s = Append(e, c)
  PROVE  /\ s \in Seq(Byte) /\ s \in Seq(Byte \ {seq_syn}) /\ Ended(s) /\ s # <<>>
         /\ MasterIs(reduced[s], p, TelegramType(p[2]))
<1> DEFINE h == 5
           x == Append(p, c)
<1>1. h \in Nat \ {0} /\ Sent(e, c, p, h) /\ x = Append(p, c)
  OBVIOUS
<1> HIDE DEF h, x
<1>2. h \in Nat \ {0}
  BY <1>1
<1>3. Sent(e, c, p, h)
  BY <1>1
<1>5. x = Append(p, c)
  BY <1>1
<1>6. s \in Seq(Byte) /\ s \in Seq(Byte \ {seq_syn}) /\ Ended(s) /\ s # <<>>
  BY ONLY <1>2, <1>3, s = Append(e, c), <1>5, SentReduced
<1>7. reduced[s] = x /\ x \in Seq(Byte)
  BY ONLY <1>2, <1>3, s = Append(e, c), <1>5, SentReduced
<1>8. MasterIs(x, p, TelegramType(p[2]))
  BY <1>5, <1>7 DEF MasterIs
<1> QED
  BY <1>6, <1>7, <1>8

LEMMA SentSlave ==
  ASSUME NEW e, NEW c, NEW p, Sent(e, c, p, 1), NEW s, s = Append(e, c)
  PROVE  /\ s \in Seq(Byte) /\ s \in Seq(Byte \ {seq_syn}) /\ Ended(s) /\ s # <<>>
         /\ SlaveIs(reduced[s], p)
<1> DEFINE h == 1
           x == Append(p, c)
<1>1. h \in Nat \ {0} /\ Sent(e, c, p, h) /\ x = Append(p, c)
  OBVIOUS
<1> HIDE DEF h, x
<1>2. h \in Nat \ {0}
  BY <1>1
<1>3. Sent(e, c, p, h)
  BY <1>1
<1>5. x = Append(p, c)
  BY <1>1
<1>6. s \in Seq(Byte) /\ s \in Seq(Byte \ {seq_syn}) /\ Ended(s) /\ s # <<>>
  BY ONLY <1>2, <1>3, s = Append(e, c), <1>5, SentReduced
<1>7. reduced[s] = x /\ x \in Seq(Byte)
  BY ONLY <1>2, <1>3, s = Append(e, c), <1>5, SentReduced
<1>8. SlaveIs(x, p)
  BY <1>5, <1>7 DEF SlaveIs
<1> QED
  BY <1>6, <1>7, <1>8

\* A part nothing has changed is accepted.
LEMMA MasterComplete ==
  ASSUME NEW e, NEW c, NEW p, Sent(e, c, p, 5), IsMaster(p[1]), NEW t \in Telegrams,
         NEW v, v = CreateMaster(t, Received(Append(e, c)))
  PROVE  v.m_masterState = "OK"
<1> DEFINE s == Append(e, c)
           x == reduced[s]
<1>1. s \in Seq(Byte) /\ MasterIs(x, p, TelegramType(p[2]))
  BY SentMaster
<1>2. v = CreateMaster(t, Received(s))
  OBVIOUS
<1> HIDE DEF s
<1>3. v = TakeMaster(t, x)
  BY <1>1, <1>2, ReceivedBytes DEF CreateMaster
<1> HIDE DEF x
<1> QED
  BY <1>1, <1>3, MasterTakes

LEMMA SlaveComplete ==
  ASSUME NEW e, NEW c, NEW p, Sent(e, c, p, 1), NEW t \in Telegrams,
         NEW v, v = CreateSlave(t, Received(Append(e, c)))
  PROVE  v.m_slaveState = "OK"
<1> DEFINE s == Append(e, c)
           x == reduced[s]
<1>1. s \in Seq(Byte) /\ SlaveIs(x, p)
  BY SentSlave
<1>2. v = CreateSlave(t, Received(s))
  OBVIOUS
<1> HIDE DEF s
<1>3. v = TakeSlave(t, x)
  BY <1>1, <1>2, ReceivedBytes DEF CreateSlave
<1> HIDE DEF x
<1> QED
  BY <1>1, <1>3, SlaveTakes

-----------------------------------------------------------------------------
(* The telegrams of the two nodes.                                         *)

\* The master part of t is p, and is sent as it has to be.
HasMaster(t, p) ==
  /\ Sent(t.m_master.m_seq, t.m_masterCRC, p, 5) /\ IsMaster(p[1])
  /\ Reduce(t.m_master) = Plain(p) /\ t.m_type = TelegramType(p[2])

\* So is its response.
HasSlave(t, p) == Sent(t.m_slave.m_seq, t.m_slaveCRC, p, 1) /\ Reduce(t.m_slave) = Plain(p)

MasterBytes(t) == Reduce(t.m_master).m_seq
SlaveBytes(t)  == Reduce(t.m_slave).m_seq
MasterSent(t)  == Append(t.m_master.m_seq, t.m_masterCRC)

\* lockBus() of a message.
LEMMA MasterCreated ==
  ASSUME NEW m \in Seq(Byte), CleanMessage(m), Address \in Byte,
         NEW t, t = CreateMaster(NoTelegram, Plain(<<Address>> \o m)), t.m_masterState = "OK",
         NEW p, p = MasterBytes(t)
  PROVE  /\ HasMaster(t, p) /\ p[1] = Address /\ p[2] = m[1]
         /\ ShiftRefused(MasterSent(t)) /\ t.m_slave = NoBytes /\ t.m_slaveState = "EMPTY"
<1> DEFINE b == <<Address>> \o m
           n == 5 + b[5]
           q == SubSeq(b, 1, n)
<1>1. <<Address>> \in Seq(Byte) /\ b \in Seq(Byte)
  BY ConcatProperties
<1>2. Taking(b, 5, n, q)
  BY <1>1 DEF Taking
<1>3. t = TakeMaster(NoTelegram, b)
  BY DEF CreateMaster, Reduce, Plain
<1>4. b = <<Address>> \o m
  OBVIOUS
<1>5. Plain(b) \in SeqObjects /\ t = CreateMaster(NoTelegram, Plain(b))
  BY <1>1, PlainTyped
<1> HIDE DEF b, n, q
<1>6. HeldMaster(t, b, n, q)
  BY <1>2, <1>3, NoTelegramTyped, MasterTaken
<1>7. Reduce(t.m_master) = Plain(q) /\ p = q
  BY <1>6 DEF HeldMaster, MasterBytes, Plain
<1>8. Clean(t.m_master, t.m_masterCRC, 5) /\ ShiftRefused(MasterSent(t))
  BY <1>4, <1>5 DEF CleanMessage, MasterSent
<1>9. t \in Telegrams
  BY <1>5, NoTelegramTyped, CreateTyped
<1>10. Sent(t.m_master.m_seq, t.m_masterCRC, p, 5)
  <2>1. /\ t.m_master.m_seq = extended[p] /\ t.m_masterCRC \notin Marker
        /\ \A i \in 1..5 : p[i] \notin Marker
    BY <1>8 DEF Clean, MasterBytes
  <2>2. t.m_masterCRC \in Byte
    BY <1>9 DEF Telegrams
  <2>3. /\ p \in Seq(Byte) /\ p[5] \in 0..seq_max_bytes /\ Len(p) = 5 + p[5]
        /\ t.m_masterCRC = calc_crc[extended[p]]
    BY <1>6, <1>7, Zenon DEF HeldMaster
  <2> QED
    BY <2>1, <2>2, <2>3 DEF Sent
<1>11. p[1] = b[1] /\ p[2] = b[2]
  BY <1>6, <1>7 DEF HeldMaster
<1>12. b[1] = Address /\ b[2] = m[1]
  <2>1. /\ Len(<<Address>>) = 1 /\ <<Address>>[1] = Address
        /\ \A i \in 1..Len(<<Address>>) + Len(m) :
             b[i] = IF i <= Len(<<Address>>) THEN <<Address>>[i] ELSE m[i - Len(<<Address>>)]
        /\ Len(b) = Len(<<Address>>) + Len(m) /\ Len(m) \in Nat
    BY <1>1, <1>4, ConcatProperties, LenProperties
  <2>2. Len(b) >= 2
    <3> DEFINE k == q[5]
    <3>1. n = 5 + k /\ k \in 0..seq_max_bytes /\ n <= Len(b)
      BY <1>6 DEF HeldMaster
    <3>2. Len(b) \in Nat
      BY <1>1, LenProperties
    <3> HIDE DEF k
    <3> QED
      BY <3>1, <3>2 DEF seq_max_bytes
  <2> QED
    BY <2>1, <2>2
<1>13. t.m_slave = NoBytes /\ t.m_slaveState = "EMPTY"
  BY <1>5, NoTelegramTyped, OtherPart DEF NoTelegram
<1>14. IsMaster(p[1]) /\ t.m_type = TelegramType(p[2])
  BY <1>6, <1>7 DEF HeldMaster
<1> QED
  BY <1>7, <1>8, <1>10, <1>11, <1>12, <1>13, <1>14 DEF HasMaster

\* createSlave() makes the same response of the same bytes, whatever the telegram.
LEMMA SlaveAlike ==
  ASSUME NEW t \in Telegrams, NEW r, NEW v, v = CreateSlave(t, Plain(r)), v.m_slaveState = "OK"
  PROVE  /\ CreateSlave(NoTelegram, Plain(r)).m_slaveState = "OK"
         /\ CreateSlave(NoTelegram, Plain(r)).m_slave = v.m_slave
         /\ CreateSlave(NoTelegram, Plain(r)).m_slaveCRC = v.m_slaveCRC
<1>1. ASSUME NEW error, NEW taken, SetSlave(t, r, error, taken).m_slaveState = "OK"
      PROVE  /\ SetSlave(NoTelegram, r, error, taken).m_slaveState = "OK"
             /\ SetSlave(NoTelegram, r, error, taken).m_slave = SetSlave(t, r, error, taken).m_slave
             /\ SetSlave(NoTelegram, r, error, taken).m_slaveCRC = SetSlave(t, r, error, taken).m_slaveCRC
  <2>1. error = "OK"
    BY <1>1 DEF SetSlave, Telegrams
  <2> QED
    BY <1>1, <2>1, NoTelegramTyped DEF SetSlave, Telegrams
<1>2. v = TakeSlave(t, r) /\ CreateSlave(NoTelegram, Plain(r)) = TakeSlave(NoTelegram, r)
  BY DEF CreateSlave, Reduce, Plain
<1> QED
  BY <1>1, <1>2 DEF TakeSlave

\* The addressee's response.
LEMMA SlaveCreated ==
  ASSUME NEW r \in Seq(Byte), CleanResponse(r), NEW t \in Telegrams,
         NEW v, v = CreateSlave(t, Plain(r)), v.m_slaveState = "OK", NEW p, p = SlaveBytes(v)
  PROVE  HasSlave(v, p)
<1> DEFINE n == 1 + r[1]
           q == SubSeq(r, 1, n)
           w == CreateSlave(NoTelegram, Plain(r))
<1>1. Taking(r, 1, n, q)
  BY DEF Taking
<1>2. v = TakeSlave(t, r) /\ w = TakeSlave(NoTelegram, r)
  BY DEF CreateSlave, Reduce, Plain
<1>3. Plain(r) \in SeqObjects
  BY PlainTyped
<1> HIDE DEF n, q
<1>4. HeldSlave(v, r, n, q)
  BY <1>1, <1>2, SlaveTaken
<1>5. Reduce(v.m_slave) = Plain(q) /\ p = q
  BY <1>4 DEF HeldSlave, SlaveBytes, Plain
<1>6. w.m_slaveState = "OK" /\ w.m_slave = v.m_slave /\ w.m_slaveCRC = v.m_slaveCRC
  BY SlaveAlike
<1>7. Clean(w.m_slave, w.m_slaveCRC, 1)
  BY <1>6 DEF CleanResponse
<1>8. v \in Telegrams
  BY <1>3, CreateTyped
<1> HIDE DEF w
<1>9. Sent(v.m_slave.m_seq, v.m_slaveCRC, p, 1)
  <2>1. /\ v.m_slave.m_seq = extended[p] /\ v.m_slaveCRC \notin Marker
        /\ \A i \in 1..1 : p[i] \notin Marker
    BY <1>6, <1>7 DEF Clean, SlaveBytes
  <2>2. v.m_slaveCRC \in Byte
    BY <1>8 DEF Telegrams
  <2>3. /\ p \in Seq(Byte) /\ p[1] \in 0..seq_max_bytes /\ Len(p) = 1 + p[1]
        /\ v.m_slaveCRC = calc_crc[extended[p]]
    BY <1>4, <1>5, Zenon DEF HeldSlave
  <2> QED
    BY <2>1, <2>2, <2>3 DEF Sent
<1> QED
  BY <1>5, <1>9 DEF HasSlave
-----------------------------------------------------------------------------
(* The noise in them.                                                      *)

\* s is the part, or one byte of it is changed.
OneChanged(s, part) == s = part \/ \E i \in DOMAIN part, b \in NoiseBytes : s = Changed(part, i, b)

LEMMA FirstAndTail ==
  ASSUME NEW S, NEW s \in Seq(S), s # <<>>, NEW a, a = s[1]
  PROVE  <<a>> \o Tail(s) = s
<1> DEFINE t == Tail(s)
           u == <<a>> \o t
<1>1. t \in Seq(S) /\ Len(t) = Len(s) - 1 /\ \A i \in 1..Len(t) : t[i] = s[i + 1]
  BY HeadTailProperties
<1>2. Len(s) \in Nat \ {0} /\ a \in S
  BY EmptySeq, ElementOfSeq
<1> HIDE DEF t
<1>3. <<a>> \in Seq(S) /\ Len(<<a>>) = 1 /\ <<a>>[1] = a
  BY <1>2
<1>4. /\ u \in Seq(S) /\ Len(u) = 1 + Len(t)
      /\ \A i \in 1..1 + Len(t) : u[i] = IF i <= 1 THEN <<a>>[i] ELSE t[i - 1]
  BY <1>1, <1>3, ConcatProperties
<1> HIDE DEF u
<1>5. Len(t) \in Nat
  BY <1>1, <1>2
<1>6. ASSUME NEW i \in 1..Len(s) PROVE u[i] = s[i]
  <2>1. CASE i = 1
    BY <1>2, <1>3, <1>4, <1>5, <2>1
  <2>2. CASE i # 1
    <3>1. i - 1 \in 1..Len(t) /\ i \in 1..1 + Len(t) /\ ~(i <= 1) /\ (i - 1) + 1 = i
      BY <1>1, <1>2, <2>2
    <3>2. u[i] = t[i - 1]
      BY <1>4, <3>1
    <3>3. t[i - 1] = s[(i - 1) + 1]
      BY <1>1, <3>1
    <3> QED
      BY <3>1, <3>2, <3>3
  <2> QED
    BY <2>1, <2>2
<1>7. Len(u) = Len(s)
  BY <1>1, <1>2, <1>4
<1>8. u = s
  BY <1>4, <1>6, <1>7, SeqEqual
<1> QED
  BY <1>8 DEF u, t

Moved(a, c, s, b) == \E j \in DOMAIN s : <<a>> \o c = Changed(s, j, b)

LEMMA ChangedTail ==
  ASSUME NEW S, NEW s \in Seq(S), s # <<>>, NEW a, a = s[1],
         NEW t, t = Tail(s), NEW k \in DOMAIN t, NEW b \in S, NEW c, c = Changed(t, k, b)
  PROVE  Moved(a, c, s, b)
<1> DEFINE d == Changed(s, k + 1, b)
           u == <<a>> \o c
<1>1. t \in Seq(S) /\ Len(t) = Len(s) - 1 /\ \A i \in 1..Len(t) : t[i] = s[i + 1]
  BY HeadTailProperties
<1>2. Len(s) \in Nat \ {0} /\ a \in S
  BY EmptySeq, ElementOfSeq
<1>3. k \in 1..Len(t) /\ k + 1 \in DOMAIN s /\ k + 1 \in 1..Len(s)
  BY <1>1, <1>2, LenProperties
<1>4. c \in Seq(S) /\ Len(c) = Len(t) /\ c[k] = b /\ \A j \in DOMAIN t : j # k => c[j] = t[j]
  <2>1. t \in Seq(S)
    BY <1>1
  <2> QED
    BY ONLY <2>1, k \in DOMAIN t, b \in S, c = Changed(t, k, b), ChangedBytes
<1>5. d \in Seq(S) /\ Len(d) = Len(s) /\ d[k + 1] = b /\ \A j \in DOMAIN s : j # k + 1 => d[j] = s[j]
  BY <1>3, ChangedBytes
<1> HIDE DEF d
<1>6. <<a>> \in Seq(S) /\ Len(<<a>>) = 1 /\ <<a>>[1] = a
  BY <1>2
<1>7. /\ u \in Seq(S) /\ Len(u) = 1 + Len(c)
      /\ \A i \in 1..1 + Len(c) : u[i] = IF i <= 1 THEN <<a>>[i] ELSE c[i - 1]
  BY <1>4, <1>6, ConcatProperties
<1> HIDE DEF u
<1>8. Len(t) \in Nat /\ DOMAIN t = 1..Len(t) /\ DOMAIN s = 1..Len(s)
  BY <1>1, LenProperties
<1>9. ASSUME NEW i \in 1..Len(s) PROVE u[i] = d[i]
  <2>1. CASE i = 1
    <3>1. i # k + 1 /\ i \in 1..1 + Len(c) /\ i <= 1
      BY <1>3, <1>4, <1>8, <2>1
    <3>2. d[i] = s[i]
      BY <1>5, <1>8, <3>1
    <3>3. u[i] = <<a>>[i]
      BY <1>7, <3>1
    <3> QED
      BY <1>6, <2>1, <3>2, <3>3
  <2>2. CASE i # 1
    <3> DEFINE j == i - 1
    <3>1. j \in 1..Len(t) /\ i \in 1..1 + Len(c) /\ ~(i <= 1) /\ i = j + 1
      BY <1>1, <1>2, <1>4, <2>2
    <3>2. u[i] = c[j]
      BY <1>7, <3>1
    <3>3. t[j] = s[i]
      BY <1>1, <3>1
    <3> HIDE DEF j
    <3>4. CASE j = k
      BY <1>4, <1>5, <3>1, <3>2, <3>4
    <3>5. CASE j # k
      <4>1. i # k + 1
        BY <1>3, <3>1, <3>5
      <4>2. c[j] = t[j]
        BY <1>4, <1>8, <3>1, <3>5
      <4>3. d[i] = s[i]
        BY <1>5, <1>8, <4>1
      <4> QED
        BY <3>2, <3>3, <4>2, <4>3
    <3> QED
      BY <3>4, <3>5
  <2> QED
    BY <2>1, <2>2
<1>10. Len(u) = Len(d)
  BY <1>1, <1>2, <1>4, <1>5, <1>7
<1>11. u = d
  BY <1>5, <1>7, <1>9, <1>10, SeqEqual
<1> QED
  BY <1>3, <1>11 DEF u, d, Moved

\* The addressee hears the address of lockBus() first, or with the repetition.
LEMMA MasterHeard ==
  ASSUME NEW p, HasMaster(tel, p), p[1] = Address,
         m_sequence = IF Again THEN <<Address>> ELSE <<>>,
         NEW d, Noisy(d, MasterPart), NEW s, s = m_sequence \o d
  PROVE  OneChanged(s, MasterSent(tel)) /\ (d = MasterPart => s = MasterSent(tel))
<1> DEFINE part == MasterSent(tel)
<1>0. part = Append(tel.m_master.m_seq, tel.m_masterCRC) /\ part = MasterSent(tel)
  BY DEF MasterSent
<1>1. Sent(tel.m_master.m_seq, tel.m_masterCRC, p, 5)
  BY DEF HasMaster
<1> HIDE DEF part
<1>2. part \in Seq(Byte) /\ part # <<>> /\ part[1] = Address
  <2> DEFINE h == 5
  <2>1. h \in Nat \ {0} /\ 1 \in 1..h
    OBVIOUS
  <2>5. Sent(tel.m_master.m_seq, tel.m_masterCRC, p, h)
    BY <1>1
  <2> HIDE DEF h
  <2>2. Header(part, p, h)
    BY ONLY <1>0, <2>1, <2>5, SentHeader
  <2>3. tel.m_master.m_seq \in Seq(Byte) /\ tel.m_masterCRC \in Byte
    BY <1>1, RoundTrip DEF Sent
  <2>4. part \in Seq(Byte) /\ part # <<>>
    BY <1>0, <2>3, FrontAppend
  <2> QED
    BY <2>1, <2>2, <2>4 DEF Header
<1>3. CASE ~Again
  <2>1. MasterPart = part /\ m_sequence = <<>>
    BY <1>0, <1>3 DEF MasterPart
  <2>2. d \in Seq(Byte)
    BY <1>2, <2>1, NoisyPart
  <2>3. s = d
    BY <2>1, <2>2, ConcatEmptySeq
  <2> QED
    BY <1>0, <2>1, <2>3 DEF Noisy, OneChanged
<1>4. CASE Again
  <2> DEFINE t == Tail(part)
  <2>1. MasterPart = t /\ m_sequence = <<Address>>
    BY <1>0, <1>4 DEF MasterPart
  <2>2. <<Address>> \o t = part
    BY <1>2, FirstAndTail
  <2>3. CASE d = t
    BY <1>0, <2>1, <2>2, <2>3 DEF OneChanged
  <2>4. CASE d # t
    <3>1. PICK k \in DOMAIN t, b \in NoiseBytes : d = Changed(t, k, b)
      BY <2>1, <2>4 DEF Noisy
    <3>2. b \in Byte
      BY ExchangeAssumption
    <3>3. t = Tail(part)
      OBVIOUS
    <3> HIDE DEF t
    <3>4. PICK j \in DOMAIN part : <<Address>> \o d = Changed(part, j, b)
      <4>1. part \in Seq(Byte)
        BY <1>2
      <4>2. part # <<>>
        BY <1>2
      <4>3. Address = part[1]
        BY <1>2
      <4>4. Moved(Address, d, part, b)
        BY ONLY <3>1, <3>2, <3>3, <4>1, <4>2, <4>3, k \in DOMAIN t, ChangedTail
      <4> QED
        BY <4>4 DEF Moved
    <3>5. s = Changed(part, j, b)
      BY <2>1, <3>4
    <3> QED
      BY <1>0, <2>1, <2>4, <3>5 DEF OneChanged
  <2> QED
    BY <2>3, <2>4
<1> QED
  BY <1>3, <1>4
\* An expand byte in the place of QQ makes no master of it.
LEMMA FirstIsMarker ==
  ASSUME NEW s \in Seq(Byte), Len(s) >= 2, s[1] = seq_exp, s[2] \notin Marker
  PROVE  reduced[s][1] \in Marker
<1> DEFINE m == Len(s)
           y == s[2]
           g == SubSeq(s, 1, 2)
           w == SubSeq(s, 3, m)
<1>1. m \in Nat /\ m >= 2 /\ y \in Byte
  BY LenProperties, ElementOfSeq
<1>2. g \in Seq(Byte) /\ w \in Seq(Byte) /\ s = g \o w
  <2>1. \A i \in 1..m : s[i] \in Byte
    BY ElementOfSeq
  <2>2. g \in Seq(Byte)
    BY SubSeqBytes
  <2>3. w \in Seq(Byte)
    <3>1. \A i \in 3..m : s[i] \in Byte
      BY <1>1, <2>1
    <3> QED
      BY <1>1, <3>1, SubSeqProperties
  <2>4. 1 \in 1..m + 1 /\ 2 \in 1 - 1..m /\ m \in 2..m
    BY <1>1
  <2>5. SubSeq(s, 1, 2) \o SubSeq(s, 2 + 1, m) = SubSeq(s, 1, m)
    BY <2>4, ConcatAdjacentSubSeq
  <2>6. SubSeq(s, 1, m) = s
    BY SubSeqFull
  <2> QED
    BY <2>2, <2>3, <2>5, <2>6
<1>3. g = Append(<<seq_exp>>, y)
  <2>1. Len(g) = 2 /\ \A i \in 1..2 : g[i] = s[i]
    BY SubSeqBytes
  <2>2. g[1] = seq_exp /\ g[2] = y
    BY <2>1
  <2> DEFINE k == Append(<<seq_exp>>, y)
  <2>3. <<seq_exp>> \in Seq(Byte) /\ Len(<<seq_exp>>) = 1 /\ <<seq_exp>>[1] = seq_exp
    BY MarkerBytes
  <2>4. k \in Seq(Byte) /\ Len(k) = 2 /\ k[1] = seq_exp /\ k[2] = y
    <3>1. k \in Seq(Byte) /\ Len(k) = Len(<<seq_exp>>) + 1 /\ k[Len(<<seq_exp>>) + 1] = y
      BY <1>1, <2>3, AppendProperties
    <3>2. k[1] = <<seq_exp>>[1]
      BY <1>1, <2>3, AppendProperties
    <3> QED
      BY <2>3, <3>1, <3>2
  <2> HIDE DEF k, g
  <2>5. \A i \in 1..Len(g) : g[i] = k[i]
    BY <2>1, <2>2, <2>4
  <2>6. g = k
    BY <1>2, <2>1, <2>4, <2>5, SeqEqual
  <2> QED
    BY <2>6 DEF k
<1> HIDE DEF g, w
<1>4. reduced[g] = <<Marked(y)>> /\ Ended(g)
  <2> DEFINE x == <<seq_exp>>
  <2>1. x = Append(<<>>, seq_exp) /\ <<>> \in Seq(Byte) /\ x \in Seq(Byte)
    BY MarkerBytes, EmptySeq
  <2>2. reduced[<<>>] = <<>>
    BY ReducedBytes
  <2>3. x = Append(<<>>, seq_exp)
    BY <2>1
  <2> HIDE DEF x
  <2>4. reduced[x] = <<>> /\ ~Ended(x)
    <3>1. reduced[Append(<<>>, seq_exp)] = reduced[<<>>]
      BY <2>1, MarkerBytes, ReducedAppend
    <3>2. ~Ended(Append(<<>>, seq_exp))
      BY <2>1, MarkerBytes, EndedAppend
    <3> QED
      BY <2>2, <2>3, <3>1, <3>2
  <2>5. reduced[Append(x, y)] = Append(reduced[x], Marked(y))
    BY <1>1, <2>1, <2>4, ReducedAppend
  <2>6. Ended(Append(x, y))
    BY <1>1, <2>1, EndedAppend
  <2>7. g = Append(x, y)
    BY <1>3 DEF x
  <2>8. Append(<<>>, Marked(y)) = <<Marked(y)>>
    OBVIOUS
  <2> QED
    BY <2>4, <2>5, <2>6, <2>7, <2>8
<1>5. reduced[s] = <<Marked(y)>> \o reduced[w] /\ reduced[w] \in Seq(Byte)
  <2>1. reduced[w] \in Seq(Byte)
    BY <1>2, ReducedBytes
  <2>2. g \in Seq(Byte) /\ w \in Seq(Byte) /\ Ended(g)
    BY <1>2, <1>4
  <2>3. reduced[g \o w] = reduced[g] \o reduced[w]
    BY ONLY <2>2, ReducedConcat
  <2> QED
    BY <1>2, <1>4, <2>1, <2>3
<1>6. Marked(y) \in Marker /\ Marked(y) \in Byte
  BY <1>1, MarkerBytes DEF Marked
<1>7. reduced[s][1] = Marked(y)
  <2> DEFINE x == <<Marked(y)>>
             z == reduced[w]
             u == x \o z
  <2>1. x \in Seq(Byte) /\ Len(x) = 1 /\ x[1] = Marked(y) /\ z \in Seq(Byte)
    BY <1>5, <1>6
  <2> HIDE DEF x, z
  <2>2. 1 \in 1..Len(x) + Len(z) /\ 1 <= Len(x)
    <3>1. Len(z) \in Nat
      BY <2>1, LenProperties
    <3> QED
      BY <2>1, <3>1
  <2>3. u[1] = x[1]
    BY <2>1, <2>2, ConcatProperties
  <2> QED
    BY <1>5, <2>1, <2>3 DEF x, z
<1> QED
  BY <1>6, <1>7

\* Bytes on the bus are what the theorems suppose: messages and responses sent
\* as they have to be, no SYN by noise; the addressee is a master.
CleanExchange ==
  /\ \A m \in Messages : CleanMessage(m)
  /\ \A r \in Responses : CleanResponse(r)
  /\ IsMaster(Addressed) /\ seq_syn \notin NoiseBytes

\* An expand byte is nobody's address.
LEMMA NotAtMe ==
  ASSUME CleanExchange PROVE ~AtMe(seq_exp)
<1>1. Addressed \in 0..255 /\ IsMaster(Addressed)
  BY ExchangeAssumption DEF CleanExchange, Byte
<1>2. Addressed # 169 /\ Addressed # 164
  BY <1>1 DEF IsMaster, MasterNibbles
<1>3. SlaveAddress(Addressed) # 169
  BY <1>1, <1>2 DEF SlaveAddress, IsSlave
<1> QED
  BY <1>2, <1>3 DEF AtMe, seq_exp, seq_broad

LEMMA MarkerIsNoMaster == \A byte \in Marker : ~IsMaster(byte)
BY DEF Marker, seq_syn, seq_exp, IsMaster, MasterNibbles
\* The addressee accepts nothing but what the sender's telegram holds.
LEMMA MasterReadsSent ==
  ASSUME CleanExchange, NEW p, HasMaster(tel, p), ShiftRefused(MasterSent(tel)),
         NEW s, OneChanged(s, MasterSent(tel)), MasterRead(s),
         NEW v, v = CreateMaster(NoTelegram, Received(s)), v.m_masterState = "OK"
  PROVE  Reduce(v.m_master) = Plain(p) /\ v.m_type = TelegramType(p[2])
<1> DEFINE part == MasterSent(tel)
           e == tel.m_master.m_seq
           c == tel.m_masterCRC
           h == 5
<1>1. Sent(e, c, p, h) /\ part = Append(e, c) /\ h \in Nat \ {0} /\ Sized(p, h)
  BY DEF HasMaster, MasterSent, Sent, Sized
<1>2. part = MasterSent(tel) /\ h = 5
  OBVIOUS
<1> HIDE DEF part, e, c, h
<1>3. part \in Seq(Byte) /\ Reads(part, p, h)
  <2>1. part \in Seq(Byte)
    BY <1>1, SentComplete
  <2>2. Reads(part, p, h)
    BY <1>1, SentComplete
  <2> QED
    BY <2>1, <2>2
<1>4. ASSUME s \in Seq(Byte), Reads(s, p, h) PROVE Reduce(v.m_master) = Plain(p) /\ v.m_type = TelegramType(p[2])
  <2>1. Sized(p, 5) /\ Reads(s, p, 5)
    BY <1>1, <1>2, <1>4
  <2>2. s \in Seq(Byte)
    BY <1>4
  <2>3. NoTelegram \in Telegrams
    BY NoTelegramTyped
  <2>4. v = CreateMaster(NoTelegram, Received(s))
    OBVIOUS
  <2>5. v.m_masterState = "OK"
    OBVIOUS
  <2>6. Reduce(v.m_master) = Plain(p)
    BY ONLY <2>1, <2>2, <2>3, <2>4, <2>5, MasterAccepted
  <2>7. v.m_type = TelegramType(p[2])
    BY ONLY <2>1, <2>2, <2>3, <2>4, <2>5, MasterAccepted
  <2> QED
    BY <2>6, <2>7
<1>5. CASE s = part
  BY <1>3, <1>4, <1>5
<1>6. CASE s # part
  <2>1. PICK i \in DOMAIN part, b \in NoiseBytes : s = Changed(part, i, b)
    BY <1>2, <1>6 DEF OneChanged
  <2>2. b \in Byte /\ b # seq_syn
    BY ExchangeAssumption DEF CleanExchange
  <2>3. s \in Seq(Byte) /\ Len(s) = Len(part) /\ s[i] = b
    BY <1>3, <2>1, <2>2, ChangedBytes
  <2>4. \A j \in DOMAIN part : j # i => s[j] = part[j]
    BY <1>3, <2>1, <2>2, ChangedBytes
  <2>5. i \in 1..Len(part) /\ Len(part) \in Nat
    BY <1>3, LenProperties
  <2>6. Header(part, p, h)
    BY <1>1, SentHeader
  <2>7. CASE i < h => b # seq_exp
    <3>1. Complete(After(s, h), s[h])
      BY <1>2 DEF MasterRead
    <3>2. b \in Byte \ {seq_syn}
      BY <2>2
    <3>3. Reads(s, p, h)
      BY ONLY <1>1, <2>1, <2>7, <3>1, <3>2, i \in DOMAIN part, SentNoisy
    <3> QED
      BY <1>4, <2>3, <3>3
  <2>8. CASE i < h /\ b = seq_exp
    <3>1. i \in {1, 2, 3, 4}
      BY <1>2, <2>5, <2>8
    <3>2. CASE i = 1
      <4>1. s[1] = seq_exp
        BY <2>3, <2>8, <3>2
      <4>2. 2 \in DOMAIN part /\ part[2] = p[2] /\ p[2] \notin Marker
        BY <1>1, <1>2, <2>6 DEF Header, Sent
      <4>3. s[2] \notin Marker /\ Len(s) >= 2
        BY <1>3, <2>3, <2>4, <3>2, <4>2, LenProperties
      <4>4. reduced[s][1] \in Marker
        BY <2>3, <4>1, <4>3, FirstIsMarker
      <4> DEFINE b1 == reduced[s]
                 n == 5 + b1[5]
                 q == SubSeq(b1, 1, n)
      <4>5. Taking(b1, 5, n, q)
        BY <2>3, ReceivedBytes DEF Taking
      <4>6. v = TakeMaster(NoTelegram, b1)
        BY <2>3, ReceivedBytes DEF CreateMaster
      <4>7. b1[1] \in Marker
        BY <4>4
      <4> HIDE DEF b1, n, q
      <4>8. HeldMaster(v, b1, n, q)
        BY <4>5, <4>6, NoTelegramTyped, MasterTaken
      <4>9. IsMaster(b1[1])
        BY <4>8 DEF HeldMaster
      <4> QED
        BY <4>7, <4>9, MarkerIsNoMaster
    <3>3. CASE i = 2
      BY <2>3, <2>8, <3>3, NotAtMe DEF MasterRead
    <3>4. CASE i \in {3, 4}
      <4>1. s = [part EXCEPT ![i] = seq_exp] /\ seq_exp \in NoiseBytes
        BY <2>1, <2>8 DEF Changed
      <4> QED
        BY <1>2, <3>4, <4>1 DEF ShiftRefused
    <3> QED
      BY <3>1, <3>2, <3>3, <3>4
  <2> QED
    BY <2>7, <2>8
<1> QED
  BY <1>5, <1>6
LEMMA TailIsAfter ==
  ASSUME NEW s \in Seq(Byte), s # <<>> PROVE Tail(s) = After(s, 1)
BY TailIsSubSeq DEF After

\* Nor does the sender take a response but the addressee's.
LEMMA SlaveReadsSent ==
  ASSUME CleanExchange, NEW p, HasSlave(ptel, p), NEW d, Noisy(d, ResponsePart),
         Complete(Tail(d), d[1]), NEW t \in Telegrams,
         NEW v, v = CreateSlave(t, Received(d)), v.m_slaveState = "OK"
  PROVE  Reduce(v.m_slave) = Plain(p)
<1> DEFINE part == ResponsePart
           e == ptel.m_slave.m_seq
           c == ptel.m_slaveCRC
           h == 1
<1>1. Sent(e, c, p, h) /\ part = Append(e, c) /\ h \in Nat \ {0} /\ Sized(p, h)
  BY DEF HasSlave, ResponsePart, Sent, Sized
<1>2. part = ResponsePart /\ h = 1
  OBVIOUS
<1> HIDE DEF part, e, c, h
<1>3. part \in Seq(Byte) /\ part # <<>> /\ Reads(part, p, h)
  <2>1. part \in Seq(Byte)
    BY <1>1, SentComplete
  <2>2. Reads(part, p, h)
    BY <1>1, SentComplete
  <2>3. e \in Seq(Byte) /\ c \in Byte
    BY <1>1, RoundTrip DEF Sent
  <2>4. part # <<>>
    BY <1>1, <2>3, FrontAppend
  <2> QED
    BY <2>1, <2>2, <2>4
<1>4. d \in Seq(Byte) /\ Len(d) = Len(part) /\ d # <<>>
  <2>1. d \in Seq(Byte) /\ Len(d) = Len(part)
    BY <1>2, <1>3, NoisyPart
  <2> QED
    BY <1>3, <2>1, EmptySeq
<1>5. ASSUME Reads(d, p, h) PROVE Reduce(v.m_slave) = Plain(p)
  <2>1. Sized(p, 1) /\ Reads(d, p, 1)
    BY <1>1, <1>2, <1>5
  <2> QED
    BY <1>4, <2>1, SlaveAccepted
<1>6. CASE d = part
  BY <1>3, <1>5, <1>6
<1>7. CASE d # part
  <2>1. PICK i \in DOMAIN part, b \in NoiseBytes : d = Changed(part, i, b)
    BY <1>2, <1>7 DEF Noisy
  <2>2. b \in Byte \ {seq_syn}
    BY ExchangeAssumption DEF CleanExchange
  <2>3. Complete(After(d, h), d[h])
    BY <1>2, <1>4, TailIsAfter
  <2>4. i < h => b # seq_exp
    BY <1>2, <1>3, LenProperties
  <2>5. Reads(d, p, h)
    BY ONLY <1>1, <2>1, <2>2, <2>3, <2>4, i \in DOMAIN part, SentNoisy
  <2> QED
    BY <1>5, <2>5
<1> QED
  BY <1>6, <1>7

-----------------------------------------------------------------------------
(* What is accepted was sent.                                              *)

\* The sender's telegram is one that lockBus() may send.
Locked(t) ==
  /\ HasMaster(t, MasterBytes(t)) /\ MasterBytes(t)[1] = Address
  /\ ShiftRefused(MasterSent(t))

AcceptedInv ==
  /\ phase # "lock" => Locked(tel)
  /\ phase = "lock" => retry = 1 /\ ptel.m_masterState # "OK"
  /\ phase = "master" => m_sequence = IF Again THEN <<Address>> ELSE <<>>
  /\ phase = "slaveACK" => m_sequence = <<>> /\ ptel.m_slave = NoBytes
  /\ phase \in {"master", "slaveACK"} => tel.m_slave = NoBytes
  /\ phase \in {"response", "masterACK"} =>
       ptel.m_masterState = "OK" /\ HasSlave(ptel, SlaveBytes(ptel))
  /\ phase = "masterACK" /\ tel.m_slaveState = "OK" => SameSlave(ptel, tel)
  /\ code = "SEQ_OK" => phase \in {"free", "late", "done"}
  /\ ptel.m_masterState = "OK" /\ deceived # "addressee" => ptel.m_type = tel.m_type
  /\ AcceptedIsSent

\* Only a reader that waits has bytes of an unfinished part; the addressee
\* waits when the sender knows its result, the sender for a response to what
\* the addressee has accepted.
LateInv ==
  /\ deceived # "nobody" => phase \in {"late", "done"}
  /\ phase = "late" => deceived = (IF m_sequence # <<>> THEN "addressee" ELSE "sender")
  /\ phase = "late" /\ m_sequence = <<>> => seq # <<>>
  /\ m_sequence # <<>> =>
       phase = "master" \/ /\ phase \in {"free", "silent", "late"}
                           /\ (code = "SEQ_OK" /\ tel.m_type = "BC") \/ code \notin {"none", "SEQ_OK"}
  /\ seq # <<>> =>
       /\ phase \in {"silent", "late"} /\ code # "SEQ_OK"
       /\ m_sequence = <<>> /\ ptel.m_masterState = "OK"

\* Everything that is said of a telegram's master part is said of these members.
LEMMA MasterKept ==
  ASSUME NEW t, NEW u, u.m_master = t.m_master, u.m_masterCRC = t.m_masterCRC, u.m_type = t.m_type
  PROVE  /\ Locked(t) => Locked(u)
         /\ \A v : SameMaster(v, t) <=> SameMaster(v, u)
BY DEF Locked, HasMaster, MasterBytes, MasterSent, SameMaster

LEMMA ACKKeeps ==
  ASSUME NEW t \in Telegrams, NEW byte,
         NEW u, u = [t EXCEPT !.m_slaveACK = byte] \/ u = [t EXCEPT !.m_masterACK = byte]
  PROVE  /\ u.m_master = t.m_master /\ u.m_masterCRC = t.m_masterCRC /\ u.m_type = t.m_type
         /\ u.m_slave = t.m_slave /\ u.m_slaveState = t.m_slaveState
BY DEF Telegrams

LEMMA AcceptedInit == Init => AcceptedInv
BY DEF Init, AcceptedInv, AcceptedIsSent, NoTelegram

LEMMA AcceptedLock ==
  ASSUME ExchangeTypeInv, AcceptedInv, CleanExchange, Lock
  PROVE  AcceptedInv'
<1>1. PICK m \in Messages :
        tel' = CreateMaster(NoTelegram, Plain(<<Address>> \o m)) /\ tel'.m_masterState = "OK"
  BY DEF Lock
<1>2. m \in Seq(Byte) /\ CleanMessage(m) /\ Address \in Byte
  BY ExchangeAssumption DEF CleanExchange
<1> DEFINE t == tel'
           p == MasterBytes(t)
<1>3. t = CreateMaster(NoTelegram, Plain(<<Address>> \o m)) /\ t.m_masterState = "OK" /\ p = MasterBytes(t)
  BY <1>1
<1> HIDE DEF t, p
<1>4. /\ HasMaster(t, p) /\ p[1] = Address
      /\ ShiftRefused(MasterSent(t)) /\ t.m_slave = NoBytes
  BY <1>2, <1>3, MasterCreated
<1>5. Locked(t) /\ t.m_slave = NoBytes
  BY <1>3, <1>4 DEF Locked
<1>6. Locked(tel') /\ tel'.m_slave = NoBytes
  BY <1>5 DEF t
<1> QED
  BY <1>6 DEF Lock, AcceptedInv, AcceptedIsSent, Again

LEMMA AcceptedMissed ==
  ASSUME ExchangeTypeInv, AcceptedInv, MasterMissed
  PROVE  AcceptedInv'
<1>1. UNCHANGED <<tel, retry, ptel, pretry, deceived>> /\ phase = "master" /\ SendMessage(FALSE)
  BY DEF MasterMissed, OnBus
<1>2. CASE tel.m_type = "BC"
  BY <1>1, <1>2 DEF SendMessage, Ends, AcceptedInv, AcceptedIsSent, SameMaster, SameSlave
<1>3. CASE tel.m_type # "BC"
  BY <1>1, <1>3 DEF SendMessage, AcceptedInv, AcceptedIsSent, SameMaster, SameSlave
<1> QED
  BY <1>2, <1>3

LEMMA AcceptedReceived ==
  ASSUME ExchangeTypeInv, AcceptedInv, CleanExchange, MasterReceived
  PROVE  AcceptedInv'
<1>1. phase = "master" /\ m_sequence' = <<>> /\ UNCHANGED <<tel, retry, pretry>>
  BY DEF MasterReceived
<1>2. PICK o \in Outcomes(MasterPart) :
        LET s == m_sequence \o o.reader
        IN /\ OnBus(MasterPart, o) /\ MasterRead(s)
           /\ ptel' = CreateMaster(NoTelegram, Received(s))
           /\ SendMessage(s[2] # seq_broad)
  BY DEF MasterReceived
<1> DEFINE s == m_sequence \o o.reader
           v == ptel'
           p == MasterBytes(tel)
           d == o.reader
<1>3. MasterRead(s) /\ v = CreateMaster(NoTelegram, Received(s)) /\ SendMessage(s[2] # seq_broad)
  BY <1>2
<1>4. Locked(tel) /\ p = MasterBytes(tel) /\ d = o.reader /\ s = m_sequence \o d
  BY <1>1 DEF AcceptedInv
<1>5. Noisy(d, MasterPart) /\ d \in Seq(Byte)
  BY <1>2, PartsTyped, OnBusTyped
<1>6. s \in Seq(Byte)
  BY <1>5, ConcatProperties DEF ExchangeTypeInv, ExchangeTypeOK
<1>7. m_sequence = IF Again THEN <<Address>> ELSE <<>>
  BY <1>1 DEF AcceptedInv
<1> HIDE DEF s, v, p, d
<1>8. HasMaster(tel, p) /\ p[1] = Address /\ ShiftRefused(MasterSent(tel))
  BY <1>4 DEF Locked
<1>9. OneChanged(s, MasterSent(tel))
  BY <1>4, <1>5, <1>7, <1>8, MasterHeard
<1>10. ASSUME v.m_masterState = "OK" PROVE SameMaster(v, tel) /\ v.m_type = tel.m_type
  <2>1. Reduce(v.m_master) = Plain(p) /\ v.m_type = TelegramType(p[2])
    <3>1. Reduce(v.m_master) = Plain(p)
      BY <1>3, <1>8, <1>9, <1>10, MasterReadsSent
    <3>2. v.m_type = TelegramType(p[2])
      BY <1>3, <1>8, <1>9, <1>10, MasterReadsSent
    <3> QED
      BY <3>1, <3>2
  <2> QED
    BY <1>8, <2>1 DEF HasMaster, SameMaster
<1>11. v.m_slave = NoBytes
  <2>1. Received(s) \in SeqObjects
    BY <1>6, PlainTyped
  <2> QED
    BY <1>3, <2>1, NoTelegramTyped, OtherPart DEF NoTelegram
<1>12. tel.m_slave = NoBytes
  BY <1>1 DEF AcceptedInv
<1>13. ptel' = v
  BY DEF v
<1>14. SameMaster(ptel', tel') <=> SameMaster(v, tel)
  BY <1>1, <1>13
<1>15. CASE tel.m_type = "BC"
  <2>1. phase' = "free" /\ code' = "SEQ_OK"
    BY <1>3, <1>15 DEF SendMessage, Ends
  <2> QED
    BY <1>1, <1>4, <1>10, <1>13, <1>14, <1>15, <2>1 DEF AcceptedInv, AcceptedIsSent
<1>16. CASE tel.m_type # "BC"
  <2>1. phase' \in {"slaveACK", "silent"} /\ code' \in {code, "EBUS_ERR_DEVICE"}
    BY <1>3, <1>16 DEF SendMessage
  <2>2. code # "SEQ_OK"
    BY <1>1 DEF AcceptedInv
  <2> QED
    BY <1>1, <1>4, <1>10, <1>11, <1>12, <1>13, <1>14, <1>16, <2>1, <2>2 DEF AcceptedInv, AcceptedIsSent
<1> QED
  BY <1>15, <1>16

\* Noise turns no acknowledge into the other.
LEMMA ACKHeard ==
  ASSUME NEW ack \in {seq_ack, seq_nak}, NEW d, Noisy(d, <<ack>>), NEW byte, byte = d[1]
  PROVE  byte \in {seq_ack, seq_nak} => byte = ack
<1> SUFFICES ASSUME byte \in {seq_ack, seq_nak} PROVE byte = ack
  OBVIOUS
<1>1. CASE d = <<ack>>
  BY <1>1
<1>2. CASE d # <<ack>>
  <2>1. <<ack>> \in Seq(Byte) /\ Len(<<ack>>) = 1
    BY DEF seq_ack, seq_nak, Byte
  <2>2. d \in Seq(Byte) /\ Len(d) = 1
    BY <2>1, NoisyPart
  <2>3. d # <<seq_ack>> /\ d # <<seq_nak>>
    BY <1>2 DEF Noisy
  <2>4. d = <<d[1]>>
    BY <2>2
  <2> QED
    BY <2>3, <2>4
<1> QED
  BY <1>1, <1>2

LEMMA AcceptedAnswers ==
  ASSUME ExchangeTypeInv, AcceptedInv, LateInv, CleanExchange, NEW responding \in BOOLEAN, SlaveAnswers(responding)
  PROVE  AcceptedInv'
<1> DEFINE ack == IF ptel.m_masterState = "OK" THEN seq_ack ELSE seq_nak
<1>1. PICK o \in Outcomes(<<ack>>) :
        /\ OnBus(<<ack>>, o)
        /\ responding => ptel.m_masterState = "OK" /\ ptel.m_type = "MS"
        /\ ReceiveACK(o.reader[1], responding)
        /\ tel' = [tel EXCEPT !.m_slaveACK = o.reader[1]]
  BY DEF SlaveAnswers
<1>2. phase = "slaveACK" /\ m_sequence' = m_sequence /\ (~responding => ptel' = ptel)
  BY DEF SlaveAnswers
<1> DEFINE byte == o.reader[1]
<1>3. tel \in Telegrams /\ ptel \in Telegrams /\ retry \in 0..1
  BY DEF ExchangeTypeInv, ExchangeTypeOK
<1>4. byte \in {seq_ack, seq_nak} => byte = ack
  <2>1. <<ack>> \in Seq(Byte) /\ ack \in {seq_ack, seq_nak}
    BY PartsTyped
  <2> DEFINE d == o.reader
  <2>2. Noisy(d, <<ack>>)
    BY <1>1, <2>1, OnBusTyped
  <2>3. byte = d[1]
    OBVIOUS
  <2> HIDE DEF ack, d, byte
  <2> QED
    <3>1. ack \in {seq_ack, seq_nak}
      BY <2>1
    <3> QED
      BY ONLY <3>1, <2>2, <2>3, ACKHeard
<1>5. byte = seq_ack => ptel.m_masterState = "OK"
  BY <1>4 DEF seq_ack, seq_nak
<1>6. /\ responding => ptel.m_masterState = "OK" /\ ptel.m_type = "MS"
      /\ ReceiveACK(byte, responding)
      /\ tel' = [tel EXCEPT !.m_slaveACK = byte]
  BY <1>1
<1> HIDE DEF ack, byte
<1>7. /\ tel'.m_master = tel.m_master /\ tel'.m_masterCRC = tel.m_masterCRC /\ tel'.m_type = tel.m_type
      /\ tel'.m_slave = tel.m_slave
  BY <1>3, <1>6, ACKKeeps
<1>8. Locked(tel) /\ Locked(tel')
  BY <1>2, <1>7, MasterKept DEF AcceptedInv
<1>9. ptel'.m_masterState = ptel.m_masterState /\ ptel'.m_master = ptel.m_master /\ ptel'.m_type = ptel.m_type
  <2>1. CASE responding
    <3>1. PICK r \in Responses : ptel' = CreateSlave(ptel, Plain(r))
      BY <2>1 DEF SlaveAnswers
    <3>2. Plain(r) \in SeqObjects
      BY ExchangeAssumption, PlainTyped
    <3> QED
      BY <1>3, <3>1, <3>2, OtherPart
  <2>2. CASE ~responding
    BY <1>2, <2>2
  <2> QED
    BY <2>1, <2>2
<1>10. responding => HasSlave(ptel', SlaveBytes(ptel'))
  <2> SUFFICES ASSUME responding PROVE HasSlave(ptel', SlaveBytes(ptel'))
    OBVIOUS
  <2>1. PICK r \in Responses : ptel' = CreateSlave(ptel, Plain(r)) /\ ptel'.m_slaveState = "OK"
    BY DEF SlaveAnswers
  <2>2. r \in Seq(Byte) /\ CleanResponse(r)
    BY ExchangeAssumption DEF CleanExchange
  <2> DEFINE v == ptel'
  <2>3. v = CreateSlave(ptel, Plain(r)) /\ v.m_slaveState = "OK"
    BY <2>1
  <2> HIDE DEF v
  <2>4. HasSlave(v, SlaveBytes(v))
    BY <1>3, <2>2, <2>3, SlaveCreated
  <2> QED
    BY <2>4 DEF v
<1>11. ptel.m_masterState = "OK" => SameMaster(ptel, tel) /\ ptel.m_type = tel.m_type
  BY <1>2 DEF AcceptedInv, AcceptedIsSent, LateInv
<1>12. ptel'.m_masterState = "OK" => SameMaster(ptel', tel') /\ ptel'.m_type = tel'.m_type
  BY <1>7, <1>9, <1>11 DEF SameMaster
<1>13. code # "SEQ_OK" /\ m_sequence = <<>> /\ ptel.m_slave = NoBytes /\ tel.m_slave = NoBytes
  BY <1>2 DEF AcceptedInv
<1>14. CASE code' = "EBUS_ERR_TRANSMIT" /\ phase' = "free"
  BY <1>8, <1>12, <1>14 DEF AcceptedInv, AcceptedIsSent
<1>15. CASE Again /\ phase' = "master" /\ retry' = retry - 1 /\ code' = code
  BY <1>2, <1>3, <1>7, <1>8, <1>12, <1>13, <1>15 DEF AcceptedInv, AcceptedIsSent, Again
<1>16. CASE byte = seq_ack /\ tel.m_type = "MM" /\ code' = "SEQ_OK" /\ phase' = "free"
  <2>1. ptel.m_masterState = "OK"
    BY <1>5, <1>16
  <2>2. ptel' = ptel
    BY <1>2, <1>6, <1>11, <1>16, <2>1
  <2>3. SameSlave(ptel', tel')
    BY <1>7, <1>13, <2>2 DEF SameSlave
  <2> QED
    BY <1>8, <1>9, <1>12, <1>16, <2>1, <2>3 DEF AcceptedInv, AcceptedIsSent
<1>17. CASE /\ byte = seq_ack /\ code' = code
            /\ phase' = IF responding THEN "response" ELSE "silent"
  BY <1>5, <1>8, <1>9, <1>10, <1>12, <1>13, <1>17 DEF AcceptedInv, AcceptedIsSent
<1> QED
  BY <1>6, <1>14, <1>15, <1>16, <1>17 DEF ReceiveACK, Refused, Ends

LEMMA AcceptedUnread ==
  ASSUME ExchangeTypeInv, AcceptedInv, ResponseUnread
  PROVE  AcceptedInv'
<1>1. /\ phase = "response" /\ phase' = "silent"
      /\ UNCHANGED <<tel, retry, m_sequence, ptel, pretry, deceived>>
      /\ code' \in {code, "EBUS_ERR_TRANSMIT"}
  BY DEF ResponseUnread, addressee, OnBus
<1> QED
  BY <1>1 DEF AcceptedInv, AcceptedIsSent, SameMaster

LEMMA AcceptedResponse ==
  ASSUME ExchangeTypeInv, AcceptedInv, LateInv, CleanExchange, ResponseReceived
  PROVE  AcceptedInv'
<1>1. /\ phase = "response" /\ phase' = "masterACK"
      /\ UNCHANGED <<retry, code, m_sequence, ptel, pretry>>
  BY DEF ResponseReceived, addressee
<1>2. PICK o \in Outcomes(ResponsePart) :
        /\ OnBus(ResponsePart, o) /\ Complete(Tail(o.reader), o.reader[1])
        /\ tel' = CreateSlave(tel, Received(o.reader))
  BY DEF ResponseReceived
<1> DEFINE d == o.reader
           v == tel'
           p == SlaveBytes(ptel)
<1>3. Noisy(d, ResponsePart) /\ d \in Seq(Byte)
  BY <1>2, PartsTyped, OnBusTyped
<1>4. tel \in Telegrams /\ Received(d) \in SeqObjects
  BY <1>3, PlainTyped DEF ExchangeTypeInv, ExchangeTypeOK
<1>5. v = CreateSlave(tel, Received(d)) /\ Complete(Tail(d), d[1])
  BY <1>2
<1>6. HasSlave(ptel, p) /\ ptel.m_masterState = "OK"
  BY <1>1 DEF AcceptedInv
<1> HIDE DEF d, v, p
<1>7. /\ v.m_master = tel.m_master /\ v.m_masterCRC = tel.m_masterCRC /\ v.m_type = tel.m_type
  BY <1>4, <1>5, OtherPart
<1>8. v.m_slaveState = "OK" => SameSlave(ptel, v)
  <2> SUFFICES ASSUME v.m_slaveState = "OK" PROVE SameSlave(ptel, v)
    OBVIOUS
  <2>1. Reduce(v.m_slave) = Plain(p)
    BY <1>3, <1>4, <1>5, <1>6, SlaveReadsSent
  <2> QED
    BY <1>6, <2>1 DEF HasSlave, SameSlave
<1>9. Locked(tel) /\ SameMaster(ptel, tel) /\ ptel.m_type = tel.m_type /\ code # "SEQ_OK"
  BY <1>1, <1>6 DEF AcceptedInv, AcceptedIsSent, LateInv
<1>10. Locked(v) /\ SameMaster(ptel, v)
  BY <1>7, <1>9, MasterKept
<1>11. tel' = v
  BY DEF v
<1>12. Locked(tel') /\ SameMaster(ptel', tel') /\ ptel'.m_type = tel'.m_type
  BY <1>1, <1>7, <1>9, <1>10, <1>11
<1>13. tel'.m_slaveState = "OK" => SameSlave(ptel', tel')
  BY <1>1, <1>8, <1>11
<1>14. HasSlave(ptel', SlaveBytes(ptel')) /\ ptel'.m_masterState = "OK"
  BY <1>1, <1>6 DEF p
<1> QED
  BY <1>1, <1>9, <1>12, <1>13, <1>14 DEF AcceptedInv, AcceptedIsSent

LEMMA AcceptedEnd ==
  ASSUME ExchangeTypeInv, AcceptedInv, LateInv, MasterAnswers
  PROVE  AcceptedInv'
<1> DEFINE ack == IF tel.m_slaveState = "OK" THEN seq_ack ELSE seq_nak
<1>1. /\ phase = "masterACK" /\ UNCHANGED <<m_sequence, ptel>>
      /\ tel' = [tel EXCEPT !.m_masterACK = ack]
      /\ \/ tel.m_slaveState = "OK" /\ phase' = "free" /\ code' = "SEQ_OK"
         \/ phase' = "free" /\ code' = "EBUS_ERR_TRANSMIT"
         \/ phase' \in {"response", "silent"} /\ code' = code
  BY DEF MasterAnswers, Ends
<1>2. tel \in Telegrams
  BY DEF ExchangeTypeInv, ExchangeTypeOK
<1> HIDE DEF ack
<1>3. /\ tel'.m_master = tel.m_master /\ tel'.m_masterCRC = tel.m_masterCRC /\ tel'.m_type = tel.m_type
      /\ tel'.m_slave = tel.m_slave
  BY <1>1, <1>2, ACKKeeps
<1>4. /\ Locked(tel) /\ SameMaster(ptel, tel) /\ ptel.m_type = tel.m_type /\ code # "SEQ_OK"
      /\ ptel.m_masterState = "OK" /\ HasSlave(ptel, SlaveBytes(ptel))
      /\ tel.m_slaveState = "OK" => SameSlave(ptel, tel)
  BY <1>1 DEF AcceptedInv, AcceptedIsSent, LateInv
<1>5. Locked(tel') /\ SameMaster(ptel', tel') /\ ptel'.m_type = tel'.m_type
  BY <1>1, <1>3, <1>4, MasterKept
<1>6. tel.m_slaveState = "OK" => SameSlave(ptel', tel')
  BY <1>1, <1>3, <1>4 DEF SameSlave
<1>7. ptel'.m_masterState = "OK" /\ HasSlave(ptel', SlaveBytes(ptel'))
  BY <1>1, <1>4
<1> QED
  BY <1>1, <1>4, <1>5, <1>6, <1>7 DEF AcceptedInv, AcceptedIsSent

\* The SYN changes neither telegram.
LEMMA AcceptedSyn ==
  ASSUME AcceptedInv, LateInv, NEW end \in {"free", "silent"}, Syn(end),
         code' = code \/ (code' = "EBUS_ERR_TRANSMIT" /\ code # "SEQ_OK")
  PROVE  AcceptedInv'
<1>1. /\ phase \in {"free", "silent"} /\ phase' \in {"late", "done"}
      /\ UNCHANGED <<tel, retry, ptel>>
  BY DEF Syn
<1>2. deceived = "nobody" /\ (code = "SEQ_OK" => phase = "free")
  BY <1>1 DEF AcceptedInv, LateInv
<1> QED
  BY <1>1, <1>2 DEF AcceptedInv, AcceptedIsSent, SameMaster, SameSlave

\* What the addressee accepts late may be anything.
LEMMA AcceptedMasterLate ==
  ASSUME AcceptedInv, LateInv, NEW responding \in BOOLEAN, MasterLate(responding)
  PROVE  AcceptedInv'
<1>1. /\ phase = "late" /\ phase' = "done" /\ m_sequence # <<>>
      /\ UNCHANGED <<tel, retry, code, deceived>>
  BY DEF MasterLate, MasterFilled, sender, bus
<1>2. deceived = "addressee" /\ (code = "SEQ_OK" => tel.m_type = "BC") /\ Locked(tel)
  BY <1>1 DEF LateInv, AcceptedInv
<1> QED
  BY <1>1, <1>2 DEF AcceptedInv, AcceptedIsSent

\* So may the response that the sender accepts late, but not the telegram.
LEMMA AcceptedResponseLate ==
  ASSUME ExchangeTypeInv, AcceptedInv, LateInv, ResponseLate
  PROVE  AcceptedInv'
<1> DEFINE t == CreateSlave(tel, Received(seq))
<1>1. /\ phase = "late" /\ phase' = "done" /\ seq # <<>>
      /\ UNCHANGED <<m_sequence, ptel, deceived>>
      /\ \E ack \in {seq_ack, seq_nak} : tel' = [t EXCEPT !.m_masterACK = ack]
  BY DEF ResponseLate, ResponseFilled, addressee, bus
<1>2. tel \in Telegrams /\ seq \in Seq(Byte)
  BY DEF ExchangeTypeInv, ExchangeTypeOK
<1>3. /\ t \in Telegrams
      /\ t.m_master = tel.m_master /\ t.m_masterCRC = tel.m_masterCRC /\ t.m_type = tel.m_type
  BY <1>2, PlainTyped, CreateTyped, OtherPart
<1> HIDE DEF t
<1>4. tel'.m_master = tel.m_master /\ tel'.m_masterCRC = tel.m_masterCRC /\ tel'.m_type = tel.m_type
  BY <1>1, <1>3, ACKKeeps
<1>5. m_sequence = <<>> /\ deceived = "sender" /\ ptel.m_masterState = "OK"
  BY <1>1 DEF LateInv
<1>6. Locked(tel) /\ SameMaster(ptel, tel) /\ ptel.m_type = tel.m_type
  BY <1>1, <1>5 DEF AcceptedInv, AcceptedIsSent
<1>7. Locked(tel') /\ SameMaster(ptel', tel') /\ ptel'.m_type = tel'.m_type
  BY <1>1, <1>4, <1>6, MasterKept
<1> QED
  BY <1>1, <1>5, <1>7 DEF AcceptedInv, AcceptedIsSent

LEMMA AcceptedNext ==
  ASSUME CleanExchange
  PROVE  ExchangeTypeInv /\ AcceptedInv /\ LateInv /\ [Next]_vars => AcceptedInv'
<1> SUFFICES ASSUME ExchangeTypeInv, AcceptedInv, LateInv, [Next]_vars PROVE AcceptedInv'
  OBVIOUS
<1>1. CASE FreeBus
  BY <1>1, AcceptedSyn DEF FreeBus
<1>2. CASE GeneratorSyn
  <2>1. Syn("silent") /\ (code' = code \/ (code' = "EBUS_ERR_TRANSMIT" /\ code # "SEQ_OK"))
    BY <1>2 DEF GeneratorSyn
  <2> QED
    BY <2>1, AcceptedSyn
<1>3. CASE LateSyn
  BY <1>3 DEF LateSyn, bus, AcceptedInv, AcceptedIsSent, SameMaster, SameSlave
<1>4. CASE UNCHANGED vars
  BY <1>4 DEF vars, sender, addressee, bus, AcceptedInv, AcceptedIsSent, SameMaster, SameSlave, Again
<1>5. CASE Over
  BY <1>4, <1>5 DEF Over
<1> QED
  BY <1>1, <1>2, <1>3, <1>4, <1>5, AcceptedLock, AcceptedMissed, AcceptedReceived, AcceptedAnswers,
     AcceptedUnread, AcceptedResponse, AcceptedEnd, AcceptedMasterLate, AcceptedResponseLate DEF Next

LEMMA ReadSynEmpty ==
  ASSUME NEW s \in Seq(Byte) PROVE ReadSyn(s) = <<>> <=> s = <<>>
BY MarkerBytes, FrontAppend DEF ReadSyn

LEMMA LateSyns ==
  ASSUME ExchangeTypeInv, LateInv, FreeBus \/ GeneratorSyn
  PROVE  LateInv'
<1>1. /\ m_sequence' = <<>> <=> m_sequence = <<>>
      /\ seq' = <<>> <=> seq = <<>>
      /\ deceived' = Reader /\ phase' = (IF Reader = "nobody" THEN "done" ELSE "late")
      /\ UNCHANGED <<tel, ptel>> /\ phase \in {"free", "silent"}
  BY ReadSynEmpty DEF FreeBus, GeneratorSyn, Syn, ExchangeTypeInv, ExchangeTypeOK
<1>2. code' = code \/ (code = "none" /\ seq = <<>>)
  BY DEF FreeBus, GeneratorSyn
<1>3. CASE m_sequence # <<>>
  <2>1. phase' = "late" /\ deceived' = "addressee"
    BY <1>1, <1>3 DEF Reader
  <2> QED
    BY <1>1, <1>2, <1>3, <2>1 DEF LateInv
<1>4. CASE m_sequence = <<>> /\ seq # <<>>
  <2>1. phase' = "late" /\ deceived' = "sender"
    BY <1>1, <1>4 DEF Reader
  <2> QED
    BY <1>1, <1>2, <1>4, <2>1 DEF LateInv
<1>5. CASE m_sequence = <<>> /\ seq = <<>>
  <2>1. phase' = "done" /\ deceived' = "nobody"
    BY <1>1, <1>5 DEF Reader
  <2> QED
    BY <1>1, <1>5, <2>1 DEF LateInv
<1> QED
  BY <1>3, <1>4, <1>5

LEMMA LateNext == ExchangeTypeInv /\ AcceptedInv /\ LateInv /\ [Next]_vars => LateInv'
<1> SUFFICES ASSUME ExchangeTypeInv, AcceptedInv, LateInv, [Next]_vars PROVE LateInv'
  OBVIOUS
<1>1. CASE Lock
  BY <1>1 DEF Lock, LateInv
<1>2. CASE MasterMissed
  <2>1. /\ phase = "master" /\ UNCHANGED <<tel, seq, ptel, deceived>>
        /\ phase' \in {"free", "silent"}
        /\ (code' = "SEQ_OK" /\ tel.m_type = "BC") \/ code' = "EBUS_ERR_DEVICE"
    BY <1>2 DEF MasterMissed, OnBus, SendMessage, Ends
  <2> QED
    BY <2>1 DEF LateInv
<1>3. CASE MasterReceived
  <2>1. /\ phase = "master" /\ UNCHANGED <<seq, deceived>> /\ m_sequence' = <<>>
        /\ phase' \in {"free", "slaveACK", "silent"}
    BY <1>3 DEF MasterReceived, OnBus, SendMessage, Ends
  <2> QED
    BY <2>1 DEF LateInv
<1>4. ASSUME NEW responding \in BOOLEAN, SlaveAnswers(responding) PROVE LateInv'
  <2>1. /\ phase = "slaveACK" /\ UNCHANGED <<seq, m_sequence, deceived>>
        /\ phase' \in {"free", "master", "response", "silent"}
    BY <1>4 DEF SlaveAnswers, OnBus, ReceiveACK, Refused, Ends
  <2> QED
    BY <2>1 DEF LateInv
<1>5. CASE ResponseUnread
  <2>1. /\ phase = "response" /\ phase' = "silent" /\ UNCHANGED <<m_sequence, ptel, deceived>>
        /\ code' \in {code, "EBUS_ERR_TRANSMIT"}
    BY <1>5 DEF ResponseUnread, OnBus, addressee
  <2>2. code # "SEQ_OK" /\ ptel.m_masterState = "OK"
    BY <2>1 DEF AcceptedInv
  <2>3. m_sequence = <<>>
    BY <2>1 DEF LateInv
  <2> QED
    BY <2>1, <2>2, <2>3 DEF LateInv
<1>6. CASE ResponseReceived
  <2>1. /\ phase = "response" /\ phase' = "masterACK"
        /\ UNCHANGED <<seq, m_sequence, ptel, deceived>>
    BY <1>6 DEF ResponseReceived, OnBus, addressee
  <2> QED
    BY <2>1 DEF LateInv
<1>7. CASE MasterAnswers
  <2>1. /\ phase = "masterACK" /\ UNCHANGED <<seq, m_sequence, ptel, deceived>>
        /\ phase' \in {"free", "response", "silent"}
    BY <1>7 DEF MasterAnswers, OnBus, Ends
  <2> QED
    BY <2>1 DEF LateInv
<1>8. CASE LateSyn
  <2>1. /\ m_sequence' = <<>> <=> m_sequence = <<>>
        /\ seq' = <<>> <=> seq = <<>>
        /\ UNCHANGED <<phase, tel, code, ptel, deceived>>
    BY <1>8, ReadSynEmpty DEF LateSyn, bus, ExchangeTypeInv, ExchangeTypeOK
  <2> QED
    BY <2>1 DEF LateInv
<1>9. ASSUME NEW responding \in BOOLEAN, MasterLate(responding) PROVE LateInv'
  <2>1. /\ phase = "late" /\ phase' = "done" /\ m_sequence # <<>> /\ m_sequence' = <<>>
        /\ UNCHANGED <<seq, code>>
    BY <1>9 DEF MasterLate, MasterFilled, sender
  <2>2. seq = <<>>
    BY <2>1 DEF LateInv
  <2> QED
    BY <2>1, <2>2 DEF LateInv
<1>10. CASE ResponseLate
  <2>1. /\ phase = "late" /\ phase' = "done" /\ seq # <<>> /\ seq' = <<>>
        /\ UNCHANGED m_sequence
    BY <1>10 DEF ResponseLate, ResponseFilled, addressee
  <2>2. m_sequence = <<>>
    BY <2>1 DEF LateInv
  <2> QED
    BY <2>1, <2>2 DEF LateInv
<1>11. CASE UNCHANGED vars
  BY <1>11 DEF vars, sender, addressee, bus, LateInv
<1>12. CASE Over
  BY <1>11, <1>12 DEF Over
<1> QED
  BY <1>1, <1>2, <1>3, <1>4, <1>5, <1>6, <1>7, <1>8, <1>9, <1>10, <1>11, <1>12, LateSyns DEF Next

LEMMA AcceptedInvariant ==
  ASSUME CleanExchange PROVE Spec => [](AcceptedInv /\ LateInv)
<1>1. ExchangeTypeInv /\ AcceptedInv /\ LateInv /\ [Next]_vars => AcceptedInv' /\ LateInv'
  BY AcceptedNext, LateNext
<1>2. Init => AcceptedInv /\ LateInv
  BY AcceptedInit DEF Init, LateInv
<1> QED
  BY <1>1, <1>2, TypeInvariant, PTL DEF Spec

\* What the addressee accepts is what the application passed to transmit(), and
\* the response transmit() returns with SEQ_OK is what the callback answered:
\* whatever noise does, if no part is sent raw and the node that accepts has
\* not taken the SYN behind the telegram for a byte of it.
THEOREM OnlySentAccepted ==
  ASSUME CleanExchange PROVE Spec => []AcceptedIsSent
<1>1. AcceptedInv => AcceptedIsSent
  BY DEF AcceptedInv
<1> QED
  BY <1>1, AcceptedInvariant, PTL

-----------------------------------------------------------------------------
(* Nothing is accepted twice or late: Exchange implements Delivery.        *)

\* What the addressee has done, in each phase.
OnceInv ==
  /\ phase = "lock" => ptel.m_slaveState # "OK"
  /\ phase # "lock" => MasterBytes(tel) \in MessageParts
  /\ phase \in {"lock", "master", "slaveACK", "response", "masterACK"} => code = "none"
  /\ phase = "master" \/ m_sequence # <<>> => ptel.m_masterState # "OK"
  /\ seq # <<>> => code = "none" /\ tel.m_type = "MS" /\ ptel.m_slaveState = "OK"
  /\ ptel.m_slaveState = "OK" => ptel.m_masterState = "OK"
  /\ phase = "slaveACK" => ptel.m_slaveState # "OK"
  /\ phase \in {"response", "masterACK"} => ptel.m_slaveState = "OK" /\ tel.m_type = "MS"

\* The kind of telegram the sender sends is that of its bytes.
LEMMA TypeOfAsked ==
  ASSUME AcceptedInv, OnceInv, phase # "lock", NEW type
  PROVE  MasterBytes(tel) \in OfType(type) <=> tel.m_type = type
<1>1. Locked(tel) /\ MasterBytes(tel) \in MessageParts
  BY DEF AcceptedInv, OnceInv
<1>2. tel.m_type = TelegramType(MasterBytes(tel)[2])
  BY <1>1 DEF Locked, HasMaster
<1> QED
  BY <1>1, <1>2 DEF OfType

\* The master part of a telegram, and what kind it is, stay.
KeepsMaster(t, u) == u.m_type = t.m_type /\ u.m_master = t.m_master

LEMMA LateKeepsMaster ==
  ASSUME ExchangeTypeInv, ResponseLate PROVE KeepsMaster(tel, tel')
<1> DEFINE t == CreateSlave(tel, Received(seq))
<1>1. \E ack \in {seq_ack, seq_nak} : tel' = [t EXCEPT !.m_masterACK = ack]
  BY DEF ResponseLate
<1>2. tel \in Telegrams /\ seq \in Seq(Byte)
  BY DEF ExchangeTypeInv, ExchangeTypeOK
<1>3. t \in Telegrams /\ t.m_master = tel.m_master /\ t.m_type = tel.m_type
  BY <1>2, PlainTyped, CreateTyped, OtherPart
<1> HIDE DEF t
<1> QED
  BY <1>1, <1>3, ACKKeeps DEF KeepsMaster

\* What a step of the sender amounts to.
LEMMA SenderWaits ==
  ASSUME phase # "lock", phase' # "lock", KeepsMaster(tel, tel'), code' = code,
         code # "SEQ_OK" \/ tel'.m_slave = tel.m_slave
  PROVE  UNCHANGED Promise!sender
BY DEF Promise!sender, KeepsMaster, OnlyIf

LEMMA SenderFails ==
  ASSUME phase # "lock", phase' # "lock", KeepsMaster(tel, tel'), code = "none",
         code' \in {"EBUS_ERR_TRANSMIT", "EBUS_ERR_DEVICE"}
  PROVE  Promise!Fail
BY DEF Promise!Fail, Promise!Underway, KeepsMaster, OnlyIf

LEMMA SenderSucceeds ==
  ASSUME AcceptedInv, OnceInv, deceived = "nobody", phase # "lock", phase' # "lock", KeepsMaster(tel, tel'),
         code = "none", code' = "SEQ_OK",
         tel.m_type = "BC" \/ ptel.m_masterState = "OK",
         ptel.m_slaveState = "OK" <=> tel.m_type = "MS",
         tel.m_type = "MS" => SameSlave(ptel, tel')
  PROVE  Promise!Succeed
<1> DEFINE asked == MasterBytes(tel)
           given == SlaveBytes(ptel)
<1>1. OnlyIf(phase # "lock", Reduce(tel.m_master).m_seq) = {asked}
  BY DEF OnlyIf, MasterBytes
<1>2. OnlyIf(phase # "lock", Reduce(tel.m_master).m_seq)' = {asked}
  BY DEF OnlyIf, MasterBytes, KeepsMaster
<1>3. asked \in OfType("BC") \/ OnlyIf(ptel.m_masterState = "OK", Reduce(ptel.m_master).m_seq) = {asked}
  <2>1. CASE tel.m_type = "BC"
    BY <2>1, TypeOfAsked
  <2>2. CASE ptel.m_masterState = "OK"
    <3>1. SameMaster(ptel, tel)
      BY <2>2 DEF AcceptedInv, AcceptedIsSent
    <3> QED
      BY <2>2, <3>1 DEF OnlyIf, SameMaster, MasterBytes
  <2> QED
    BY <2>1, <2>2
<1>4. asked \in OfType("MS") <=> tel.m_type = "MS"
  BY TypeOfAsked
<1>5. OnlyIf(ptel.m_slaveState = "OK", Reduce(ptel.m_slave).m_seq)
        = IF tel.m_type = "MS" THEN {given} ELSE {}
  BY DEF OnlyIf, SlaveBytes
<1>6. OnlyIf(code = "SEQ_OK" /\ tel.m_type = "MS", Reduce(tel.m_slave).m_seq)'
        = IF tel.m_type = "MS" THEN {given} ELSE {}
  BY DEF OnlyIf, SlaveBytes, SameSlave, KeepsMaster
<1> HIDE DEF asked, given
<1>7. Promise!Underway
  BY <1>1 DEF Promise!Underway
<1> QED
  BY <1>1, <1>2, <1>3, <1>4, <1>5, <1>6, <1>7 DEF Promise!Succeed

\* And of the addressee.
LEMMA AddresseeWaits ==
  ASSUME ptel' = ptel PROVE UNCHANGED Promise!addressee
BY DEF Promise!addressee, OnlyIf

LEMMA AddresseeAccepts ==
  ASSUME phase # "lock", code = "none", ptel.m_masterState # "OK", ptel.m_slaveState # "OK",
         ptel'.m_slaveState # "OK", ptel'.m_masterState = "OK" => SameMaster(ptel', tel)
  PROVE  Promise!Accept \/ UNCHANGED Promise!addressee
<1>1. CASE ptel'.m_masterState = "OK"
  BY <1>1 DEF Promise!Accept, Promise!Underway, OnlyIf, SameMaster
<1>2. CASE ptel'.m_masterState # "OK"
  BY <1>2 DEF Promise!addressee, OnlyIf
<1> QED
  BY <1>1, <1>2

LEMMA AddresseeResponds ==
  ASSUME AcceptedInv, OnceInv, deceived = "nobody", phase # "lock", code = "none", tel.m_type = "MS",
         ptel.m_masterState = "OK", ptel.m_slaveState # "OK",
         ptel'.m_master = ptel.m_master, ptel'.m_masterState = "OK",
         ptel'.m_slaveState = "OK", SlaveBytes(ptel') \in ResponseParts
  PROVE  Promise!Respond
<1>1. SameMaster(ptel, tel)
  BY DEF AcceptedInv, AcceptedIsSent
<1>2. MasterBytes(ptel) \in OfType("MS")
  BY <1>1, TypeOfAsked DEF SameMaster, MasterBytes
<1> QED
  BY <1>1, <1>2 DEF Promise!Respond, Promise!Underway, OnlyIf, MasterBytes, SlaveBytes

LEMMA OnceInit == Init => OnceInv /\ Promise!Init
BY DEF Init, OnceInv, NoTelegram, Promise!Init, OnlyIf

LEMMA OnceLock ==
  ASSUME AcceptedInv, LateInv, OnceInv, Lock
  PROVE  OnceInv' /\ Promise!Next
<1>1. PICK m \in Messages :
        tel' = CreateMaster(NoTelegram, Plain(<<Address>> \o m)) /\ tel'.m_masterState = "OK"
  BY DEF Lock
<1>2. MasterBytes(tel') \in MessageParts
  BY <1>1 DEF MasterBytes, MessageOf, MessageParts
<1>3. phase = "lock" /\ phase' = "master" /\ code' = code /\ ptel' = ptel /\ UNCHANGED <<seq, deceived>>
  BY DEF Lock
<1>4. code = "none" /\ ptel.m_masterState # "OK" /\ ptel.m_slaveState # "OK"
  BY <1>3 DEF AcceptedInv, OnceInv
<1>5. Promise!Ask
  BY <1>2, <1>3, <1>4 DEF Promise!Ask, OnlyIf, MasterBytes
<1>6. UNCHANGED Promise!addressee
  BY <1>3, AddresseeWaits
<1>7. OnceInv'
  BY <1>2, <1>3, <1>4 DEF OnceInv, LateInv
<1> QED
  BY <1>3, <1>5, <1>6, <1>7 DEF Promise!Next

\* The end of the master part, and what follows from it.
LEMMA OnceSent ==
  ASSUME AcceptedInv, LateInv, OnceInv, phase = "master", NEW answering \in BOOLEAN,
         SendMessage(answering), tel' = tel
  PROVE  /\ Promise!Succeed \/ Promise!Fail \/ UNCHANGED Promise!sender
         /\ phase' \in {"free", "slaveACK", "silent"}
         /\ phase' = "slaveACK" => code' = code
<1>1. /\ code = "none" /\ ptel.m_masterState # "OK" /\ ptel.m_slaveState # "OK" /\ KeepsMaster(tel, tel')
      /\ deceived = "nobody"
  BY DEF OnceInv, LateInv, KeepsMaster
<1>2. CASE tel.m_type = "BC"
  <2>1. phase' = "free" /\ code' = "SEQ_OK"
    BY <1>2 DEF SendMessage, Ends
  <2>2. Promise!Succeed
    BY <1>1, <1>2, <2>1, SenderSucceeds
  <2> QED
    BY <2>1, <2>2
<1>3. CASE tel.m_type # "BC" /\ answering
  <2>1. phase' = "slaveACK" /\ code' = code
    BY <1>3 DEF SendMessage
  <2>2. UNCHANGED Promise!sender
    BY <1>1, <2>1, SenderWaits
  <2> QED
    BY <2>1, <2>2
<1>4. CASE tel.m_type # "BC" /\ ~answering
  <2>1. phase' = "silent" /\ code' = "EBUS_ERR_DEVICE"
    BY <1>4 DEF SendMessage
  <2>2. Promise!Fail
    BY <1>1, <2>1, SenderFails
  <2> QED
    BY <2>1, <2>2
<1> QED
  BY <1>2, <1>3, <1>4

LEMMA OnceMissed ==
  ASSUME AcceptedInv, LateInv, OnceInv, MasterMissed
  PROVE  OnceInv' /\ Promise!Next
<1>1. UNCHANGED <<tel, ptel, seq, deceived>> /\ phase = "master" /\ SendMessage(FALSE)
  BY DEF MasterMissed, OnBus
<1>2. /\ Promise!Succeed \/ Promise!Fail \/ UNCHANGED Promise!sender
      /\ phase' \in {"free", "slaveACK", "silent"} /\ (phase' = "slaveACK" => code' = code)
  BY <1>1, OnceSent
<1>3. UNCHANGED Promise!addressee
  BY <1>1, AddresseeWaits
<1>4. seq = <<>>
  BY <1>1 DEF LateInv
<1>5. OnceInv'
  BY <1>1, <1>2, <1>4 DEF OnceInv
<1> QED
  BY <1>1, <1>2, <1>3, <1>5 DEF Promise!Next

LEMMA OnceReceived ==
  ASSUME ExchangeTypeInv, AcceptedInv, AcceptedInv', LateInv, OnceInv, MasterReceived
  PROVE  OnceInv' /\ Promise!Next
<1>1. /\ phase = "master" /\ tel' = tel /\ m_sequence' = <<>>
      /\ UNCHANGED <<seq, deceived>> /\ deceived = "nobody" /\ seq = <<>>
  BY DEF MasterReceived, OnBus, LateInv
<1>2. PICK o \in Outcomes(MasterPart) :
        LET s == m_sequence \o o.reader
        IN /\ OnBus(MasterPart, o)
           /\ ptel' = CreateMaster(NoTelegram, Received(s))
           /\ SendMessage(s[2] # seq_broad)
  BY DEF MasterReceived
<1> DEFINE s == m_sequence \o o.reader
<1>3. o.reader \in Seq(Byte)
  BY <1>2, PartsTyped, OnBusTyped
<1>4. s \in Seq(Byte)
  BY <1>3, ConcatProperties DEF ExchangeTypeInv, ExchangeTypeOK
<1>5. ptel' = CreateMaster(NoTelegram, Received(s)) /\ SendMessage(s[2] # seq_broad)
  BY <1>2
<1> HIDE DEF s
<1>6. ptel'.m_slaveState # "OK"
  <2>1. Received(s) \in SeqObjects
    BY <1>4, PlainTyped
  <2> DEFINE v == ptel'
  <2>2. v = CreateMaster(NoTelegram, Received(s))
    BY <1>5
  <2> HIDE DEF v
  <2>3. v.m_slaveState = NoTelegram.m_slaveState
    BY <2>1, <2>2, NoTelegramTyped, OtherPart
  <2> QED
    BY <2>3 DEF v, NoTelegram
<1>7. /\ Promise!Succeed \/ Promise!Fail \/ UNCHANGED Promise!sender
      /\ phase' \in {"free", "slaveACK", "silent"} /\ (phase' = "slaveACK" => code' = code)
  BY <1>1, <1>5, OnceSent
<1>8. ptel'.m_masterState = "OK" => SameMaster(ptel', tel)
  BY <1>1 DEF AcceptedInv, AcceptedIsSent
<1>9. code = "none" /\ ptel.m_masterState # "OK" /\ ptel.m_slaveState # "OK"
  BY <1>1 DEF OnceInv
<1>10. Promise!Accept \/ UNCHANGED Promise!addressee
  BY <1>1, <1>6, <1>8, <1>9, AddresseeAccepts
<1>11. OnceInv'
  BY <1>1, <1>6, <1>7 DEF OnceInv
<1> QED
  BY <1>1, <1>7, <1>10, <1>11 DEF Promise!Next

\* The response, and the attempt at one, after the acknowledge.
LEMMA OnceAnswers ==
  ASSUME ExchangeTypeInv, AcceptedInv, LateInv, OnceInv, NEW responding \in BOOLEAN, SlaveAnswers(responding)
  PROVE  OnceInv' /\ Promise!Next
<1> DEFINE ack == IF ptel.m_masterState = "OK" THEN seq_ack ELSE seq_nak
<1>1. PICK o \in Outcomes(<<ack>>) :
        /\ OnBus(<<ack>>, o)
        /\ responding => ptel.m_masterState = "OK" /\ ptel.m_type = "MS"
        /\ ReceiveACK(o.reader[1], responding)
        /\ tel' = [tel EXCEPT !.m_slaveACK = o.reader[1]]
  BY DEF SlaveAnswers
<1>2. /\ phase = "slaveACK" /\ (~responding => ptel' = ptel)
      /\ UNCHANGED <<seq, m_sequence, deceived>>
      /\ seq = <<>> /\ m_sequence = <<>> /\ deceived = "nobody"
  BY DEF SlaveAnswers, OnBus, LateInv
<1> DEFINE byte == o.reader[1]
<1>3. tel \in Telegrams /\ ptel \in Telegrams
  BY DEF ExchangeTypeInv, ExchangeTypeOK
<1>4. byte \in {seq_ack, seq_nak} => byte = ack
  <2>1. <<ack>> \in Seq(Byte) /\ ack \in {seq_ack, seq_nak}
    BY PartsTyped
  <2> DEFINE d == o.reader
  <2>2. Noisy(d, <<ack>>)
    BY <1>1, <2>1, OnBusTyped
  <2>3. byte = d[1]
    OBVIOUS
  <2> HIDE DEF ack, d, byte
  <2> QED
    <3>1. ack \in {seq_ack, seq_nak}
      BY <2>1
    <3> QED
      BY ONLY <3>1, <2>2, <2>3, ACKHeard
<1>5. byte = seq_ack => ptel.m_masterState = "OK"
  BY <1>4 DEF seq_ack, seq_nak
<1>6. byte = seq_nak => ptel.m_masterState # "OK"
  BY <1>4 DEF seq_ack, seq_nak
<1>7. /\ responding => ptel.m_masterState = "OK" /\ ptel.m_type = "MS"
      /\ ReceiveACK(byte, responding)
      /\ tel' = [tel EXCEPT !.m_slaveACK = byte]
  BY <1>1
<1> HIDE DEF ack, byte
<1>8. KeepsMaster(tel, tel') /\ tel'.m_slave = tel.m_slave
  BY <1>3, <1>7, ACKKeeps DEF KeepsMaster
<1>9. /\ code = "none" /\ ptel.m_slaveState # "OK" /\ MasterBytes(tel) \in MessageParts
      /\ ptel.m_masterState = "OK" => ptel.m_type = tel.m_type
  BY <1>2 DEF OnceInv, AcceptedInv
<1>10. responding => /\ ptel'.m_master = ptel.m_master /\ ptel'.m_masterState = "OK"
                     /\ ptel'.m_slaveState = "OK" /\ SlaveBytes(ptel') \in ResponseParts
  <2> SUFFICES ASSUME responding
               PROVE  /\ ptel'.m_master = ptel.m_master /\ ptel'.m_masterState = "OK"
                      /\ ptel'.m_slaveState = "OK" /\ SlaveBytes(ptel') \in ResponseParts
    OBVIOUS
  <2>1. PICK r \in Responses : ptel' = CreateSlave(ptel, Plain(r)) /\ ptel'.m_slaveState = "OK"
    BY DEF SlaveAnswers
  <2> DEFINE v == ptel'
  <2>2. v = CreateSlave(ptel, Plain(r)) /\ v.m_slaveState = "OK" /\ r \in Seq(Byte)
    BY <2>1, ExchangeAssumption
  <2> HIDE DEF v
  <2>3. Plain(r) \in SeqObjects
    BY <2>2, PlainTyped
  <2>4. v.m_master = ptel.m_master /\ v.m_masterState = ptel.m_masterState
    BY <1>3, <2>2, <2>3, OtherPart
  <2>5. v.m_slave = CreateSlave(NoTelegram, Plain(r)).m_slave
    BY <1>3, <2>2, SlaveAlike
  <2>6. SlaveBytes(v) \in ResponseParts
    BY <2>5 DEF SlaveBytes, ResponseOf, ResponseParts
  <2> QED
    BY <1>7, <2>2, <2>4, <2>6 DEF v
<1>11. UNCHANGED Promise!addressee \/ Promise!Respond
  <2>1. CASE responding
    BY <1>2, <1>7, <1>9, <1>10, <2>1, AddresseeResponds
  <2>2. CASE ~responding
    BY <1>2, <2>2, AddresseeWaits
  <2> QED
    BY <2>1, <2>2
<1>12. MasterBytes(tel') \in MessageParts
  BY <1>8, <1>9 DEF KeepsMaster, MasterBytes
<1>13. CASE code' = "EBUS_ERR_TRANSMIT" /\ phase' = "free"
  <2>1. Promise!Fail
    BY <1>2, <1>8, <1>9, <1>13, SenderFails
  <2>2. OnceInv'
    BY <1>2, <1>9, <1>10, <1>12, <1>13 DEF OnceInv
  <2> QED
    BY <1>2, <1>11, <2>1, <2>2 DEF Promise!Next
<1>14. CASE byte = seq_nak /\ phase' = "master" /\ code' = code
  <2>1. UNCHANGED Promise!sender
    BY <1>2, <1>8, <1>9, <1>14, SenderWaits
  <2>2. ptel' = ptel /\ ptel.m_masterState # "OK"
    BY <1>2, <1>6, <1>7, <1>14
  <2>3. OnceInv'
    BY <1>2, <1>9, <1>12, <1>14, <2>2 DEF OnceInv
  <2> QED
    BY <1>2, <1>11, <2>1, <2>3 DEF Promise!Next
<1>15. CASE byte = seq_ack /\ tel.m_type = "MM" /\ code' = "SEQ_OK" /\ phase' = "free"
  <2>1. ptel.m_masterState = "OK"
    BY <1>5, <1>15
  <2>2. ptel' = ptel
    BY <1>2, <1>7, <1>9, <1>15, <2>1
  <2>3. Promise!Succeed
    BY <1>2, <1>8, <1>9, <1>15, <2>1, SenderSucceeds
  <2>4. OnceInv'
    BY <1>2, <1>9, <1>12, <1>15, <2>2 DEF OnceInv
  <2> QED
    BY <1>2, <1>11, <2>3, <2>4 DEF Promise!Next
<1>16. CASE /\ byte = seq_ack /\ tel.m_type = "MS" /\ code' = code
            /\ phase' = IF responding THEN "response" ELSE "silent"
  <2>1. UNCHANGED Promise!sender
    BY <1>2, <1>8, <1>9, <1>16, SenderWaits
  <2>2. OnceInv'
    BY <1>2, <1>8, <1>9, <1>10, <1>12, <1>16 DEF OnceInv, KeepsMaster
  <2> QED
    BY <1>2, <1>11, <2>1, <2>2 DEF Promise!Next
<1> QED
  BY <1>7, <1>13, <1>14, <1>15, <1>16 DEF ReceiveACK, Refused, Ends

LEMMA OnceUnread ==
  ASSUME AcceptedInv, LateInv, OnceInv, ResponseUnread
  PROVE  OnceInv' /\ Promise!Next
<1>1. /\ phase = "response" /\ phase' = "silent" /\ tel' = tel /\ ptel' = ptel
      /\ UNCHANGED <<m_sequence, deceived>>
      /\ code' = code \/ (code' = "EBUS_ERR_TRANSMIT" /\ seq' = seq)
  BY DEF ResponseUnread, OnBus, addressee
<1>2. KeepsMaster(tel, tel') /\ code = "none" /\ seq = <<>> /\ m_sequence = <<>>
  BY <1>1 DEF KeepsMaster, OnceInv, LateInv
<1>3. Promise!Fail \/ UNCHANGED Promise!sender
  BY <1>1, <1>2, SenderFails, SenderWaits
<1>4. UNCHANGED Promise!addressee
  BY <1>1, AddresseeWaits
<1>5. OnceInv'
  BY <1>1, <1>2 DEF OnceInv
<1> QED
  BY <1>1, <1>3, <1>4, <1>5 DEF Promise!Next

LEMMA OnceResponse ==
  ASSUME ExchangeTypeInv, AcceptedInv, LateInv, OnceInv, ResponseReceived
  PROVE  OnceInv' /\ Promise!Next
<1>1. /\ phase = "response" /\ phase' = "masterACK" /\ code' = code /\ ptel' = ptel
      /\ UNCHANGED <<seq, m_sequence, deceived>> /\ seq = <<>> /\ m_sequence = <<>>
  BY DEF ResponseReceived, OnBus, addressee, LateInv
<1>2. PICK o \in Outcomes(ResponsePart) :
        OnBus(ResponsePart, o) /\ tel' = CreateSlave(tel, Received(o.reader))
  BY DEF ResponseReceived
<1>3. o.reader \in Seq(Byte)
  BY <1>2, PartsTyped, OnBusTyped
<1>4. tel \in Telegrams /\ Received(o.reader) \in SeqObjects
  BY <1>3, PlainTyped DEF ExchangeTypeInv, ExchangeTypeOK
<1>5. KeepsMaster(tel, tel')
  <2> DEFINE v == tel'
             s == Received(o.reader)
  <2>1. v = CreateSlave(tel, s) /\ tel \in Telegrams /\ s \in SeqObjects
    BY <1>2, <1>4
  <2> HIDE DEF v, s
  <2>2. v.m_master = tel.m_master /\ v.m_type = tel.m_type
    BY <2>1, OtherPart
  <2> QED
    BY <2>2 DEF v, KeepsMaster
<1>6. code = "none"
  BY <1>1 DEF OnceInv
<1>7. UNCHANGED Promise!sender
  BY <1>1, <1>5, <1>6, SenderWaits
<1>8. UNCHANGED Promise!addressee
  BY <1>1, AddresseeWaits
<1>9. OnceInv'
  BY <1>1, <1>5 DEF OnceInv, KeepsMaster, MasterBytes
<1> QED
  BY <1>1, <1>7, <1>8, <1>9 DEF Promise!Next

LEMMA OnceEnd ==
  ASSUME ExchangeTypeInv, AcceptedInv, LateInv, OnceInv, MasterAnswers
  PROVE  OnceInv' /\ Promise!Next
<1> DEFINE ack == IF tel.m_slaveState = "OK" THEN seq_ack ELSE seq_nak
<1>1. /\ phase = "masterACK" /\ ptel' = ptel
      /\ UNCHANGED <<seq, m_sequence, deceived>>
      /\ seq = <<>> /\ m_sequence = <<>> /\ deceived = "nobody"
      /\ tel' = [tel EXCEPT !.m_masterACK = ack]
      /\ \/ tel.m_slaveState = "OK" /\ phase' = "free" /\ code' = "SEQ_OK"
         \/ phase' = "free" /\ code' = "EBUS_ERR_TRANSMIT"
         \/ phase' \in {"response", "silent"} /\ code' = code
  BY DEF MasterAnswers, Ends, OnBus, LateInv
<1>2. tel \in Telegrams
  BY DEF ExchangeTypeInv, ExchangeTypeOK
<1> HIDE DEF ack
<1>3. KeepsMaster(tel, tel') /\ tel'.m_slave = tel.m_slave
  BY <1>1, <1>2, ACKKeeps DEF KeepsMaster
<1>4. /\ code = "none" /\ tel.m_type = "MS" /\ ptel.m_masterState = "OK" /\ ptel.m_slaveState = "OK"
  BY <1>1 DEF AcceptedInv, OnceInv
<1>5. UNCHANGED Promise!addressee
  BY <1>1, AddresseeWaits
<1>6. OnceInv'
  BY <1>1, <1>3, <1>4 DEF OnceInv, KeepsMaster, MasterBytes
<1>7. CASE tel.m_slaveState = "OK" /\ phase' = "free" /\ code' = "SEQ_OK"
  <2>1. SameSlave(ptel, tel')
    BY <1>1, <1>3, <1>7 DEF AcceptedInv, SameSlave
  <2>2. Promise!Succeed
    BY <1>1, <1>3, <1>4, <1>7, <2>1, SenderSucceeds
  <2> QED
    BY <1>1, <1>5, <1>6, <2>2 DEF Promise!Next
<1>8. CASE phase' = "free" /\ code' = "EBUS_ERR_TRANSMIT"
  <2>1. Promise!Fail
    BY <1>1, <1>3, <1>4, <1>8, SenderFails
  <2> QED
    BY <1>1, <1>5, <1>6, <2>1 DEF Promise!Next
<1>9. CASE phase' \in {"response", "silent"} /\ code' = code
  <2>1. UNCHANGED Promise!sender
    BY <1>1, <1>3, <1>4, <1>9, SenderWaits
  <2> QED
    BY <1>1, <1>5, <1>6, <2>1 DEF Promise!Next
<1> QED
  BY <1>1, <1>7, <1>8, <1>9

\* A node is deceived before it has accepted what it reads.
LEMMA Deceives ==
  ASSUME AcceptedInv, OnceInv, LateInv, phase \in {"free", "silent"}, deceived' = Reader
  PROVE  \/ deceived = "nobody" /\ (Promise!DeceiveAddressee \/ Promise!DeceiveSender)
         \/ UNCHANGED deceived
<1>1. deceived = "nobody"
  BY DEF LateInv
<1>2. CASE m_sequence # <<>>
  <2>1. deceived' = "addressee" /\ code # "none" /\ ptel.m_masterState # "OK"
    BY <1>2 DEF Reader, LateInv, OnceInv
  <2> QED
    BY <1>1, <2>1 DEF Promise!DeceiveAddressee, OnlyIf
<1>3. CASE m_sequence = <<>> /\ seq # <<>>
  <2>1. /\ deceived' = "sender" /\ code = "none"
        /\ ptel.m_masterState = "OK" /\ ptel.m_slaveState = "OK"
    BY <1>3 DEF Reader, LateInv, OnceInv
  <2>2. SameMaster(ptel, tel)
    BY <1>1, <2>1 DEF AcceptedInv, AcceptedIsSent
  <2> QED
    BY <1>1, <2>1, <2>2 DEF Promise!DeceiveSender, Promise!Underway, OnlyIf, SameMaster
<1>4. CASE m_sequence = <<>> /\ seq = <<>>
  BY <1>1, <1>4 DEF Reader
<1> QED
  BY <1>2, <1>3, <1>4

LEMMA OnceSyn ==
  ASSUME ExchangeTypeInv, AcceptedInv, LateInv, OnceInv, NEW end \in {"free", "silent"}, Syn(end),
         code' = code \/ (code = "none" /\ seq = <<>> /\ code' = "EBUS_ERR_TRANSMIT")
  PROVE  OnceInv' /\ Promise!Next
<1>1. /\ phase \in {"free", "silent"} /\ phase' \in {"late", "done"} /\ tel' = tel /\ ptel' = ptel
      /\ m_sequence' = <<>> <=> m_sequence = <<>>
      /\ seq' = <<>> <=> seq = <<>>
  BY ReadSynEmpty DEF Syn, ExchangeTypeInv, ExchangeTypeOK
<1>2. KeepsMaster(tel, tel')
  BY <1>1 DEF KeepsMaster
<1>3. Promise!Fail \/ UNCHANGED Promise!sender
  BY <1>1, <1>2, SenderFails, SenderWaits
<1>4. UNCHANGED Promise!addressee
  BY <1>1, AddresseeWaits
<1>5. OnceInv'
  BY <1>1 DEF OnceInv
<1>6. deceived' = Reader
  BY DEF Syn
<1> QED
  BY <1>1, <1>3, <1>4, <1>5, <1>6, Deceives DEF Promise!Next

LEMMA OnceLateSyn ==
  ASSUME ExchangeTypeInv, OnceInv, LateSyn
  PROVE  OnceInv' /\ Promise!Next
<1>1. /\ phase = "late" /\ UNCHANGED <<phase, tel, code, ptel, deceived>>
      /\ m_sequence' = <<>> <=> m_sequence = <<>>
      /\ seq' = <<>> <=> seq = <<>>
  BY ReadSynEmpty DEF LateSyn, bus, ExchangeTypeInv, ExchangeTypeOK
<1>2. UNCHANGED Promise!sender /\ UNCHANGED Promise!addressee
  BY <1>1 DEF Promise!sender, Promise!addressee
<1>3. OnceInv'
  BY <1>1 DEF OnceInv
<1> QED
  BY <1>1, <1>2, <1>3 DEF Promise!Next

\* The addressee that reads late accepts once, as it would have before.
LEMMA OnceMasterLate ==
  ASSUME ExchangeTypeInv, LateInv, OnceInv, NEW responding \in BOOLEAN, MasterLate(responding)
  PROVE  OnceInv' /\ Promise!Next
<1> DEFINE t == CreateMaster(NoTelegram, Received(m_sequence))
<1>1. /\ phase = "late" /\ phase' = "done" /\ m_sequence # <<>> /\ m_sequence' = <<>>
      /\ UNCHANGED <<tel, seq, code, deceived>>
  BY DEF MasterLate, MasterFilled, sender, bus
<1>2. \/ ptel' = t
      \/ /\ t.m_masterState = "OK"
         /\ \E r \in Responses : ptel' = CreateSlave(t, Plain(r)) /\ ptel'.m_slaveState = "OK"
  BY DEF MasterLate
<1>3. t \in Telegrams /\ t.m_slaveState # "OK"
  <2>1. Received(m_sequence) \in SeqObjects
    BY PlainTyped DEF ExchangeTypeInv, ExchangeTypeOK
  <2>2. t \in Telegrams
    BY <2>1, NoTelegramTyped, CreateTyped
  <2>3. t.m_slaveState = NoTelegram.m_slaveState
    BY <2>1, NoTelegramTyped, OtherPart
  <2> QED
    BY <2>2, <2>3 DEF NoTelegram
<1> HIDE DEF t
<1>4. /\ deceived = "addressee" /\ seq = <<>>
      /\ ptel.m_masterState # "OK" /\ ptel.m_slaveState # "OK"
  BY <1>1 DEF LateInv, OnceInv
<1>5. UNCHANGED Promise!sender
  BY <1>1 DEF Promise!sender
<1>6. CASE ptel' = t
  <2>1. OnceInv'
    BY <1>1, <1>3, <1>4, <1>6 DEF OnceInv
  <2>2. Promise!AcceptDeceived \/ UNCHANGED Promise!addressee
    <3>1. CASE ptel'.m_masterState = "OK"
      BY <1>3, <1>4, <1>6, <3>1 DEF Promise!AcceptDeceived, Promise!IsPart, OnlyIf
    <3>2. CASE ptel'.m_masterState # "OK"
      BY <1>3, <1>4, <1>6, <3>2 DEF Promise!addressee, OnlyIf
    <3> QED
      BY <3>1, <3>2
  <2> QED
    BY <1>1, <1>5, <2>1, <2>2 DEF Promise!Next
<1>7. CASE /\ t.m_masterState = "OK"
           /\ \E r \in Responses : ptel' = CreateSlave(t, Plain(r)) /\ ptel'.m_slaveState = "OK"
  <2>1. PICK r \in Responses : ptel' = CreateSlave(t, Plain(r)) /\ ptel'.m_slaveState = "OK"
    BY <1>7
  <2> DEFINE v == ptel'
  <2>2. v = CreateSlave(t, Plain(r)) /\ v.m_slaveState = "OK" /\ r \in Seq(Byte)
    BY <2>1, ExchangeAssumption
  <2> HIDE DEF v
  <2>3. Plain(r) \in SeqObjects
    BY <2>2, PlainTyped
  <2>4. v.m_masterState = t.m_masterState
    BY <1>3, <2>2, <2>3, OtherPart
  <2>5. v.m_slave = CreateSlave(NoTelegram, Plain(r)).m_slave
    BY <1>3, <2>2, SlaveAlike
  <2>6. SlaveBytes(v) \in ResponseParts
    BY <2>5 DEF SlaveBytes, ResponseOf, ResponseParts
  <2>7. ptel'.m_masterState = "OK" /\ ptel'.m_slaveState = "OK" /\ SlaveBytes(ptel') \in ResponseParts
    BY <1>7, <2>1, <2>4, <2>6 DEF v
  <2>8. OnceInv'
    BY <1>1, <1>4, <2>7 DEF OnceInv
  <2>9. Promise!AcceptDeceived
    BY <1>4, <2>7 DEF Promise!AcceptDeceived, Promise!IsPart, OnlyIf, SlaveBytes
  <2> QED
    BY <1>1, <1>5, <2>8, <2>9 DEF Promise!Next
<1> QED
  BY <1>2, <1>6, <1>7

\* The sender that reads late has its result once.
LEMMA OnceResponseLate ==
  ASSUME ExchangeTypeInv, LateInv, OnceInv, ResponseLate
  PROVE  OnceInv' /\ Promise!Next
<1>1. /\ phase = "late" /\ phase' = "done" /\ seq # <<>> /\ seq' = <<>>
      /\ UNCHANGED <<m_sequence, ptel, deceived>>
      /\ code' \in {"SEQ_OK", "EBUS_ERR_TRANSMIT"}
  BY DEF ResponseLate, ResponseFilled, addressee, bus
<1>2. KeepsMaster(tel, tel')
  BY LateKeepsMaster
<1>3. deceived = "sender" /\ m_sequence = <<>> /\ code = "none" /\ tel.m_type = "MS"
  BY <1>1 DEF LateInv, OnceInv
<1>4. UNCHANGED Promise!addressee
  BY <1>1, AddresseeWaits
<1>5. OnceInv'
  BY <1>1, <1>2, <1>3 DEF OnceInv, KeepsMaster, MasterBytes
<1>6. CASE code' = "SEQ_OK"
  <2>1. Promise!SucceedDeceived
    BY <1>1, <1>2, <1>3, <1>6
       DEF Promise!SucceedDeceived, Promise!Underway, Promise!IsPart, OnlyIf, KeepsMaster
  <2> QED
    BY <1>1, <1>4, <1>5, <2>1 DEF Promise!Next
<1>7. CASE code' = "EBUS_ERR_TRANSMIT"
  <2>1. Promise!Fail
    BY <1>1, <1>2, <1>3, <1>7, SenderFails
  <2> QED
    BY <1>1, <1>4, <1>5, <2>1 DEF Promise!Next
<1> QED
  BY <1>1, <1>6, <1>7

LEMMA OnceStutter ==
  ASSUME OnceInv, UNCHANGED vars PROVE OnceInv' /\ Promise!Next
BY DEF vars, sender, addressee, bus, OnceInv, Promise!Next, Promise!sender, Promise!addressee, OnlyIf

LEMMA OnceNext ==
  ExchangeTypeInv /\ AcceptedInv /\ AcceptedInv' /\ LateInv /\ OnceInv /\ [Next]_vars
    => OnceInv' /\ Promise!Next
<1> SUFFICES ASSUME ExchangeTypeInv, AcceptedInv, AcceptedInv', LateInv, OnceInv, [Next]_vars
             PROVE  OnceInv' /\ Promise!Next
  OBVIOUS
<1>1. CASE FreeBus
  BY <1>1, OnceSyn DEF FreeBus
<1>2. CASE GeneratorSyn
  <2>1. /\ Syn("silent")
        /\ code' = code \/ (code = "none" /\ seq = <<>> /\ code' = "EBUS_ERR_TRANSMIT")
    BY <1>2 DEF GeneratorSyn
  <2> QED
    BY <2>1, OnceSyn
<1>3. CASE Over \/ UNCHANGED vars
  BY <1>3, OnceStutter DEF Over
<1> QED
  BY <1>1, <1>2, <1>3, OnceLock, OnceMissed, OnceReceived, OnceAnswers, OnceUnread, OnceResponse,
     OnceEnd, OnceLateSyn, OnceMasterLate, OnceResponseLate DEF Next

\* Noise, wrong sizes and the attempts of both nodes notwithstanding, a telegram
\* is accepted and answered at most once and SEQ_OK comes once: if no part is
\* sent raw, before transmit() returns, as it was passed to it and with the
\* response that was given, unless the one node that accepts has taken the SYN
\* behind the telegram for a byte of it.
THEOREM ExchangeDelivers ==
  ASSUME CleanExchange PROVE Spec => DeliversOnce
<1>1. ExchangeTypeInv /\ AcceptedInv /\ AcceptedInv' /\ LateInv /\ OnceInv /\ [Next]_vars
        => OnceInv' /\ [Promise!Next]_Promise!vars
  BY OnceNext
<1> QED
  BY <1>1, OnceInit, TypeInvariant, AcceptedInvariant, PTL DEF Spec, DeliversOnce, Promise!Spec

-----------------------------------------------------------------------------
(* A bus without noise.                                                    *)

\* Every telegram is one the addressee reads: to it, or a broadcast.
AddressedHere == \A m \in Messages : AtMe(m[1])

\* Without noise the first attempt succeeds, unless the callback has no response.
QuietInv ==
  /\ phase # "lock" => AtMe(MasterBytes(tel)[2])
  /\ noise = 0 =>
       /\ phase = "master" => retry = 1
       /\ phase = "slaveACK" => tel.m_type # "BC"
       /\ phase \in {"slaveACK", "silent"} => ptel.m_masterState = "OK" /\ ptel.m_slaveState = "EMPTY"
       /\ phase = "masterACK" => tel.m_slaveState = "OK"
       /\ phase = "free" => code = "SEQ_OK"
       /\ phase \in {"slaveACK", "response", "masterACK", "free", "silent"} =>
            m_sequence = <<>> /\ seq = <<>>
       /\ phase # "late"
       /\ FailsOnlyByNoise

\* The addressee reads a master part that comes as it was sent.
LEMMA MasterIsRead ==
  ASSUME NEW p, HasMaster(tel, p), AtMe(p[2]), NEW s, s = MasterSent(tel)
  PROVE  MasterRead(s) /\ ~MasterUnread(s)
<1> DEFINE e == tel.m_master.m_seq
           c == tel.m_masterCRC
           h == 5
<1>1. Sent(e, c, p, h) /\ h \in Nat \ {0} /\ s = Append(e, c)
  BY DEF HasMaster, MasterSent
<1>2. p[5] \in 0..seq_max_bytes
  BY <1>1 DEF Sent
<1>3. 2 \in 1..h /\ 5 \in 1..h
  OBVIOUS
<1>4. \A b : Complete(After(b, h), b[h]) = Complete(After(b, 5), b[5]) /\ Early(After(b, h), b[h]) = Early(After(b, 5), b[5])
  OBVIOUS
<1> HIDE DEF e, c, h
<1>5. Sent(e, c, p, h)
  BY <1>1
<1>6. h \in Nat \ {0}
  BY <1>1
<1>7. s = Append(e, c)
  BY <1>1
<1>8. Header(s, p, h)
  BY ONLY <1>5, <1>6, <1>7, SentHeader
<1>9. Complete(After(s, h), s[h]) /\ ~Early(After(s, h), s[h])
  BY ONLY <1>5, <1>6, <1>7, SentComplete
<1>10. s[2] = p[2] /\ s[5] = p[5]
  BY <1>3, <1>8 DEF Header
<1>11. AtMe(s[2])
  BY <1>10
<1>12. s[5] <= seq_max_bytes /\ ~(s[5] > seq_max_bytes)
  BY <1>2, <1>10 DEF seq_max_bytes
<1>13. Complete(After(s, 5), s[5]) /\ ~Early(After(s, 5), s[5])
  BY <1>4, <1>9
<1> QED
  BY ONLY <1>11, <1>12, <1>13 DEF MasterRead, MasterUnread, MasterIgnored, MasterWaits

LEMMA QuietInit == Init => QuietInv
  BY DEF Init, QuietInv, FailsOnlyByNoise

LEMMA QuietLock ==
  ASSUME ExchangeTypeInv, AcceptedInv, QuietInv, CleanExchange, AddressedHere, Lock
  PROVE  QuietInv'
<1>1. PICK m \in Messages :
        LET t == CreateMaster(NoTelegram, Plain(<<Address>> \o m))
        IN t.m_masterState = "OK" /\ tel' = t
  BY DEF Lock
<1>2. phase = "lock" /\ phase' = "master" /\ retry' = retry /\ noise' = noise
  BY DEF Lock
<1> DEFINE t == tel'
           p == MasterBytes(t)
<1>3. m \in Seq(Byte) /\ CleanMessage(m) /\ Address \in Byte /\ AtMe(m[1])
  BY ExchangeAssumption DEF CleanExchange, AddressedHere
<1>4. t = CreateMaster(NoTelegram, Plain(<<Address>> \o m)) /\ t.m_masterState = "OK"
  BY <1>1
<1>5. p = MasterBytes(t)
  OBVIOUS
<1> HIDE DEF t, p
<1>6. p[2] = m[1]
  BY <1>3, <1>4, <1>5, MasterCreated
<1>7. AtMe(MasterBytes(tel')[2])
  BY <1>3, <1>5, <1>6 DEF t
<1>8. retry = 1
  BY <1>2 DEF AcceptedInv
<1> QED
  BY <1>2, <1>7, <1>8 DEF QuietInv, FailsOnlyByNoise

\* What the reader has when a master part comes undisturbed.
LEMMA MasterUndisturbed ==
  ASSUME ExchangeTypeInv, AcceptedInv, QuietInv, phase = "master",
         NEW o \in Outcomes(MasterPart), OnBus(MasterPart, o), noise' = 0,
         NEW s, s = m_sequence \o o.reader
  PROVE  noise = 0 /\ s = MasterSent(tel) /\ ~MasterUnread(s)
<1> DEFINE d == o.reader
           p == MasterBytes(tel)
<1>1. noise = 0 /\ d = MasterPart /\ Noisy(d, MasterPart)
  BY PartsTyped, OnBusTyped
<1>2. HasMaster(tel, p) /\ p[1] = Address /\ AtMe(p[2])
  BY DEF AcceptedInv, Locked, QuietInv
<1>3. m_sequence = IF Again THEN <<Address>> ELSE <<>>
  BY DEF AcceptedInv
<1>4. s = m_sequence \o d
  OBVIOUS
<1> HIDE DEF d, p
<1>5. s = MasterSent(tel)
  BY <1>1, <1>2, <1>3, <1>4, MasterHeard
<1>6. ~MasterUnread(s)
  BY <1>2, <1>5, MasterIsRead
<1> QED
  BY <1>1, <1>5, <1>6

LEMMA QuietMissed ==
  ASSUME ExchangeTypeInv, AcceptedInv, QuietInv, MasterMissed
  PROVE  QuietInv'
<1>1. PICK o \in Outcomes(MasterPart) :
        OnBus(MasterPart, o) /\ MasterUnread(m_sequence \o o.reader)
  BY DEF MasterMissed
<1>2. phase = "master" /\ tel' = tel
  BY DEF MasterMissed
<1>3. noise' # 0
  <2> DEFINE s == m_sequence \o o.reader
  <2>1. s = m_sequence \o o.reader /\ MasterUnread(s)
    BY <1>1
  <2> HIDE DEF s
  <2> QED
    BY <1>1, <1>2, <2>1, MasterUndisturbed
<1> QED
  BY <1>2, <1>3 DEF QuietInv, FailsOnlyByNoise

LEMMA QuietReceived ==
  ASSUME ExchangeTypeInv, AcceptedInv, LateInv, QuietInv, MasterReceived
  PROVE  QuietInv'
<1>1. PICK o \in Outcomes(MasterPart) :
        LET s == m_sequence \o o.reader
        IN /\ OnBus(MasterPart, o)
           /\ ptel' = CreateMaster(NoTelegram, Received(s))
           /\ SendMessage(s[2] # seq_broad)
  BY DEF MasterReceived
<1>2. phase = "master" /\ tel' = tel /\ m_sequence' = <<>> /\ seq' = seq /\ seq = <<>>
  BY DEF MasterReceived, LateInv
<1> DEFINE s == m_sequence \o o.reader
           v == ptel'
           p == MasterBytes(tel)
           e == tel.m_master.m_seq
           c == tel.m_masterCRC
<1>3. s = m_sequence \o o.reader /\ v = CreateMaster(NoTelegram, Received(s)) /\ SendMessage(s[2] # seq_broad)
  BY <1>1
<1>4. Sent(e, c, p, 5) /\ IsMaster(p[1]) /\ MasterSent(tel) = Append(e, c)
  BY <1>2 DEF AcceptedInv, Locked, HasMaster, MasterSent
<1>5. phase' \in {"free", "slaveACK", "silent"} /\ (phase' = "free" => code' = "SEQ_OK")
        /\ (phase' = "slaveACK" => tel.m_type # "BC")
  BY <1>3 DEF SendMessage, Ends
<1>6. ptel' = v
  OBVIOUS
<1> HIDE DEF s, v, p, e, c
<1>7. ASSUME noise' = 0
      PROVE  v.m_masterState = "OK" /\ v.m_slaveState = "EMPTY"
  <2>1. s = Append(e, c)
    <3>1. OnBus(MasterPart, o)
      BY <1>1
    <3>2. s = m_sequence \o o.reader
      BY <1>3
    <3>3. phase = "master"
      BY <1>2
    <3>4. s = MasterSent(tel)
      BY <1>7, <3>1, <3>2, <3>3, MasterUndisturbed
    <3> QED
      BY <1>4, <3>4
  <2>2. v = CreateMaster(NoTelegram, Received(Append(e, c)))
    BY <1>3, <2>1
  <2>3. v.m_masterState = "OK"
    BY <1>4, <2>2, NoTelegramTyped, MasterComplete
  <2>4. e \in Seq(Byte) /\ c \in Byte
    BY <1>2 DEF e, c, ExchangeTypeInv, ExchangeTypeOK, Telegrams, SeqObjects
  <2>5. Received(s) \in SeqObjects
    <3>1. s \in Seq(Byte)
      BY <2>1, <2>4, AppendProperties
    <3> QED
      BY <3>1, PlainTyped
  <2>6. v.m_slaveState = "EMPTY"
    BY <1>3, <2>5, NoTelegramTyped, OtherPart DEF NoTelegram
  <2> QED
    BY <2>3, <2>6
<1>8. AtMe(MasterBytes(tel')[2])
  BY <1>2 DEF QuietInv
<1> QED
  BY <1>2, <1>5, <1>6, <1>7, <1>8 DEF QuietInv, FailsOnlyByNoise

LEMMA QuietAnswers ==
  ASSUME ExchangeTypeInv, AcceptedInv, QuietInv, NEW responding \in BOOLEAN, SlaveAnswers(responding)
  PROVE  QuietInv'
<1> DEFINE ack == IF ptel.m_masterState = "OK" THEN seq_ack ELSE seq_nak
<1>1. PICK o \in Outcomes(<<ack>>) :
        /\ OnBus(<<ack>>, o)
        /\ ReceiveACK(o.reader[1], responding)
        /\ tel' = [tel EXCEPT !.m_slaveACK = o.reader[1]]
  BY DEF SlaveAnswers
<1>2. phase = "slaveACK" /\ (~responding => ptel' = ptel) /\ UNCHANGED <<seq, m_sequence>>
  BY DEF SlaveAnswers
<1> DEFINE byte == o.reader[1]
<1>3. tel \in Telegrams
  BY DEF ExchangeTypeInv, ExchangeTypeOK
<1>4. noise' = 0 => noise = 0 /\ byte = ack
  <2> SUFFICES ASSUME noise' = 0 PROVE noise = 0 /\ byte = ack
    OBVIOUS
  <2>1. <<ack>> \in Seq(Byte)
    BY PartsTyped
  <2>2. OnBus(<<ack>>, o)
    BY <1>1
  <2>3. noise = 0 /\ o.reader = <<ack>>
    <3> HIDE DEF ack
    <3> QED
      BY ONLY ExchangeTypeInv, <1>1, <2>1, <2>2, noise' = 0, OnBusTyped
  <2> QED
    BY <2>3
<1>5. ReceiveACK(byte, responding) /\ tel' = [tel EXCEPT !.m_slaveACK = byte]
  BY <1>1
<1> HIDE DEF byte
<1>6. tel'.m_master = tel.m_master /\ tel'.m_type = tel.m_type
  BY <1>3, <1>5, ACKKeeps
<1>7. AtMe(MasterBytes(tel')[2])
  BY <1>2, <1>6 DEF QuietInv, MasterBytes
<1>8. phase' # "lock"
  BY <1>5 DEF ReceiveACK, Refused, Ends
<1>9. ASSUME noise' = 0
      PROVE  /\ noise = 0 /\ byte = seq_ack /\ ptel.m_masterState = "OK" /\ ptel.m_slaveState = "EMPTY"
             /\ tel.m_type # "BC"
  BY <1>2, <1>4, <1>9 DEF QuietInv
<1>10. ASSUME noise' = 0
       PROVE  \/ phase' = "free" /\ code' = "SEQ_OK"
              \/ phase' = IF responding THEN "response" ELSE "silent"
  BY <1>5, <1>9, <1>10 DEF ReceiveACK, Ends, seq_ack, seq_nak
<1> QED
  BY <1>2, <1>7, <1>8, <1>9, <1>10 DEF QuietInv, FailsOnlyByNoise

\* What the sender reads when a response comes undisturbed.
LEMMA ResponseUndisturbed ==
  ASSUME ExchangeTypeInv, AcceptedInv, phase \in {"response", "masterACK"},
         NEW o \in Outcomes(ResponsePart), OnBus(ResponsePart, o), noise' = 0,
         NEW d, d = o.reader, NEW v, v = CreateSlave(tel, Received(d))
  PROVE  /\ noise = 0 /\ d[1] \in 0..seq_max_bytes /\ Complete(Tail(d), d[1])
         /\ v.m_slaveState = "OK"
<1> DEFINE e == ptel.m_slave.m_seq
           c == ptel.m_slaveCRC
           p == SlaveBytes(ptel)
           h == 1
<1>1. noise = 0 /\ d = ResponsePart
  BY PartsTyped, OnBusTyped
<1>2. Sent(e, c, p, h)
  BY DEF AcceptedInv, HasSlave
<1>3. h \in Nat \ {0} /\ 1 \in 1..h
  OBVIOUS
<1>4. d = Append(e, c)
  BY <1>1 DEF ResponsePart
<1>5. e \in Seq(Byte) /\ c \in Byte /\ tel \in Telegrams
  BY DEF ExchangeTypeInv, ExchangeTypeOK, Telegrams, SeqObjects
<1>6. p[1] \in 0..seq_max_bytes
  BY <1>2 DEF Sent
<1>7. h = 1
  OBVIOUS
<1> HIDE DEF e, c, p, h
<1>8. h \in Nat \ {0}
  BY <1>3
<1>9. Header(d, p, h)
  BY ONLY <1>2, <1>4, <1>8, SentHeader
<1>10. Complete(After(d, h), d[h]) /\ d \in Seq(Byte)
  BY ONLY <1>2, <1>4, <1>8, SentComplete
<1>11. d[1] = p[1] /\ d # <<>>
  BY <1>3, <1>9 DEF Header
<1>12. Complete(Tail(d), d[1])
  BY <1>7, <1>10, <1>11, TailIsAfter
<1>13. v = CreateSlave(tel, Received(Append(e, c)))
  BY <1>4
<1>14. Sent(e, c, p, 1)
  BY <1>2, <1>7
<1>15. v.m_slaveState = "OK"
  BY <1>5, <1>13, <1>14, SlaveComplete
<1> QED
  BY <1>1, <1>6, <1>11, <1>12, <1>15

LEMMA QuietUnread ==
  ASSUME ExchangeTypeInv, AcceptedInv, QuietInv, ResponseUnread
  PROVE  QuietInv'
<1>1. PICK o \in Outcomes(ResponsePart) :
        LET n == o.reader[1]
        IN OnBus(ResponsePart, o) /\ (n > seq_max_bytes \/ ~Complete(Tail(o.reader), n))
  BY DEF ResponseUnread
<1>2. phase = "response" /\ phase' = "silent" /\ tel' = tel
  BY DEF ResponseUnread
<1>3. noise' # 0
  <2> SUFFICES ASSUME noise' = 0 PROVE FALSE
    OBVIOUS
  <2> DEFINE d == o.reader
             v == CreateSlave(tel, Received(d))
  <2>1. d[1] \in 0..seq_max_bytes /\ Complete(Tail(d), d[1])
    BY <1>1, <1>2, ResponseUndisturbed
  <2>2. ~(d[1] > seq_max_bytes)
    BY <2>1 DEF seq_max_bytes
  <2> QED
    BY <1>1, <2>1, <2>2
<1> QED
  BY <1>2, <1>3 DEF QuietInv, FailsOnlyByNoise

LEMMA QuietResponse ==
  ASSUME ExchangeTypeInv, AcceptedInv, QuietInv, ResponseReceived
  PROVE  QuietInv'
<1>1. PICK o \in Outcomes(ResponsePart) :
        OnBus(ResponsePart, o) /\ tel' = CreateSlave(tel, Received(o.reader))
  BY DEF ResponseReceived
<1>2. phase = "response" /\ phase' = "masterACK" /\ UNCHANGED <<seq, m_sequence>>
  BY DEF ResponseReceived, addressee
<1> DEFINE d == o.reader
           v == tel'
<1>3. d = o.reader /\ v = CreateSlave(tel, Received(d)) /\ tel' = v
  BY <1>1
<1>4. d \in Seq(Byte) /\ tel \in Telegrams
  BY <1>1, PartsTyped, OnBusTyped DEF ExchangeTypeInv, ExchangeTypeOK
<1> HIDE DEF d, v
<1>5. noise' = 0 => v.m_slaveState = "OK"
  BY <1>1, <1>2, <1>3, ResponseUndisturbed
<1>6. Received(d) \in SeqObjects
  BY <1>4, PlainTyped
<1>7. v.m_master = tel.m_master
  BY <1>3, <1>4, <1>6, OtherPart
<1>8. AtMe(MasterBytes(tel')[2])
  BY <1>2, <1>3, <1>7 DEF QuietInv, MasterBytes
<1>9. noise' = 0 => noise = 0
  BY <1>1, PartsTyped, OnBusTyped, <1>2
<1>10. noise' = 0 => m_sequence' = <<>> /\ seq' = <<>>
  BY <1>2, <1>9 DEF QuietInv
<1> QED
  BY <1>2, <1>3, <1>5, <1>8, <1>10 DEF QuietInv, FailsOnlyByNoise

LEMMA QuietEnd ==
  ASSUME ExchangeTypeInv, AcceptedInv, QuietInv, MasterAnswers
  PROVE  QuietInv'
<1> DEFINE ack == IF tel.m_slaveState = "OK" THEN seq_ack ELSE seq_nak
<1>1. /\ phase = "masterACK" /\ tel' = [tel EXCEPT !.m_masterACK = ack] /\ phase' # "lock"
      /\ tel.m_slaveState = "OK" => phase' = "free" /\ code' = "SEQ_OK"
      /\ UNCHANGED <<seq, m_sequence>>
  BY DEF MasterAnswers, Ends
<1>2. noise' = 0 => noise = 0
  <2>1. PICK o \in Outcomes(<<ack>>) : OnBus(<<ack>>, o)
    BY DEF MasterAnswers
  <2> QED
    BY <2>1, PartsTyped, OnBusTyped
<1>3. tel \in Telegrams
  BY DEF ExchangeTypeInv, ExchangeTypeOK
<1> HIDE DEF ack
<1>4. tel'.m_master = tel.m_master
  BY <1>1, <1>3, ACKKeeps
<1>5. AtMe(MasterBytes(tel')[2])
  BY <1>1, <1>4 DEF QuietInv, MasterBytes
<1> QED
  BY <1>1, <1>2, <1>5 DEF QuietInv, FailsOnlyByNoise

LEMMA QuietNext ==
  ASSUME CleanExchange, AddressedHere
  PROVE  ExchangeTypeInv /\ AcceptedInv /\ LateInv /\ QuietInv /\ [Next]_vars => QuietInv'
<1> SUFFICES ASSUME ExchangeTypeInv, AcceptedInv, LateInv, QuietInv, [Next]_vars PROVE QuietInv'
  OBVIOUS
<1>1. CASE FreeBus
  <2>1. /\ phase = "free" /\ UNCHANGED <<tel, code, ptel, noise>> /\ phase' \in {"done", "late"}
        /\ Reader = "nobody" => phase' = "done" /\ deceived' = "nobody"
    BY <1>1 DEF FreeBus, Syn
  <2>2. noise = 0 => Reader = "nobody"
    BY <2>1 DEF QuietInv, Reader
  <2> QED
    BY <2>1, <2>2 DEF QuietInv, FailsOnlyByNoise
<1>2. CASE GeneratorSyn
  <2>1. /\ phase = "silent" /\ UNCHANGED <<tel, ptel, noise>> /\ phase' \in {"done", "late"}
        /\ Reader = "nobody" => phase' = "done" /\ deceived' = "nobody"
    BY <1>2 DEF GeneratorSyn, Syn
  <2>2. noise = 0 => Reader = "nobody"
    BY <2>1 DEF QuietInv, Reader
  <2> QED
    BY <2>1, <2>2 DEF QuietInv, FailsOnlyByNoise
<1>3. CASE UNCHANGED vars
  BY <1>3 DEF vars, sender, addressee, bus, QuietInv, FailsOnlyByNoise
<1>4. CASE Over
  BY <1>3, <1>4 DEF Over
<1>5. ASSUME phase = "late", noise' = noise, KeepsMaster(tel, tel'), phase' # "lock" PROVE QuietInv'
  BY <1>5 DEF QuietInv, KeepsMaster, MasterBytes, FailsOnlyByNoise
<1>6. CASE LateSyn
  BY <1>5, <1>6 DEF LateSyn, bus, KeepsMaster
<1>7. ASSUME NEW responding \in BOOLEAN, MasterLate(responding) PROVE QuietInv'
  BY <1>5, <1>7 DEF MasterLate, sender, bus, KeepsMaster
<1>8. CASE ResponseLate
  BY <1>5, <1>8, LateKeepsMaster DEF ResponseLate, bus
<1> QED
  BY <1>1, <1>2, <1>3, <1>4, <1>6, <1>7, <1>8, QuietLock, QuietMissed, QuietReceived, QuietAnswers, QuietUnread,
     QuietResponse, QuietEnd DEF Next

\* On a bus without noise no reader waits for more than is sent, and a telegram
\* to the addressee, or to all, fails only if the addressee accepts it and its
\* callback has no response.
THEOREM NoFailureWithoutNoise ==
  ASSUME CleanExchange, AddressedHere PROVE Spec => []FailsOnlyByNoise
<1>1. ExchangeTypeInv /\ AcceptedInv /\ LateInv /\ QuietInv /\ [Next]_vars => QuietInv'
  BY QuietNext
<1>2. QuietInv => FailsOnlyByNoise
  <2> SUFFICES ASSUME QuietInv PROVE FailsOnlyByNoise
    OBVIOUS
  <2> QED
    BY DEF QuietInv, FailsOnlyByNoise
<1> QED
  BY <1>1, <1>2, QuietInit, TypeInvariant, AcceptedInvariant, PTL DEF Spec

-----------------------------------------------------------------------------
(* What parse() makes of the parts that were sent.                         *)

\* Concatenation, as an operator the provers do not look into.
Cat(u, v) == u \o v

LEMMA CatTyped ==
  ASSUME NEW S, NEW u \in Seq(S), NEW v \in Seq(S) PROVE Cat(u, v) \in Seq(S)
BY ConcatProperties DEF Cat

LEMMA CatEmpty ==
  ASSUME NEW S, NEW u \in Seq(S) PROVE Cat(u, <<>>) = u /\ Cat(<<>>, u) = u
BY ConcatEmptySeq DEF Cat

LEMMA CatAssociative ==
  ASSUME NEW u \in Seq(Byte), NEW v \in Seq(Byte), NEW w \in Seq(Byte)
  PROVE  Cat(Cat(u, v), w) = Cat(u, Cat(v, w))
BY ConcatAssociative DEF Cat

LEMMA CatReduced ==
  ASSUME NEW u \in Seq(Byte), NEW v \in Seq(Byte), Ended(u)
  PROVE  reduced[Cat(u, v)] = Cat(reduced[u], reduced[v])
BY ReducedConcat DEF Cat

LEMMA CatEnded ==
  ASSUME NEW u \in Seq(Byte), NEW v \in Seq(Byte), v # <<>>
  PROVE  (Ended(v) => Ended(Cat(u, v))) /\ Cat(u, v) # <<>>
BY LastConcat DEF Cat, Ended

LEMMA CatAppend ==
  ASSUME NEW u \in Seq(Byte), NEW v \in Seq(Byte), NEW x \in Byte
  PROVE  Cat(u, Append(v, x)) = Append(Cat(u, v), x)
BY ConcatAppend DEF Cat

LEMMA Beginning ==
  ASSUME NEW x \in Seq(Byte), NEW y \in Seq(Byte), NEW b, b = Cat(x, y)
  PROVE  /\ b \in Seq(Byte) /\ Len(x) \in Nat /\ Len(b) \in Nat /\ Len(x) <= Len(b)
         /\ SubSeq(b, 1, Len(x)) = x /\ \A i \in 1..Len(x) : b[i] = x[i]
<1>1. /\ b \in Seq(Byte) /\ Len(b) = Len(x) + Len(y)
      /\ \A i \in 1..Len(x) + Len(y) : b[i] = IF i <= Len(x) THEN x[i] ELSE y[i - Len(x)]
  BY ConcatProperties DEF Cat
<1>2. Len(x) \in Nat /\ Len(y) \in Nat
  BY LenProperties
<1>3. Len(b) \in Nat /\ Len(x) <= Len(b) /\ \A i \in 1..Len(x) : b[i] = x[i]
  BY <1>1, <1>2
<1> DEFINE n == Len(x)
           q == SubSeq(b, 1, n)
<1>4. q \in Seq(Byte) /\ Len(q) = n /\ \A i \in 1..n : q[i] = b[i]
  BY <1>1, <1>2, <1>3, SubSeqBytes
<1> HIDE DEF q
<1>5. \A i \in 1..n : q[i] = x[i]
  BY <1>3, <1>4
<1>6. q = x
  BY <1>4, <1>5, SeqEqual
<1> QED
  BY <1>1, <1>2, <1>3, <1>6 DEF q

\* The byte that follows x.
LEMMA NextByte ==
  ASSUME NEW x \in Seq(Byte), NEW byte \in Byte, NEW y \in Seq(Byte),
         NEW b, b = Cat(x, Cat(<<byte>>, y)), NEW n, n = Len(x) + 1
  PROVE  b \in Seq(Byte) /\ ~(Len(b) < n) /\ b[n] = byte /\ After(b, n) = y
<1> DEFINE u == x \o <<byte>>
<1>1. <<byte>> \in Seq(Byte) /\ Len(<<byte>>) = 1 /\ <<byte>>[1] = byte
  OBVIOUS
<1>2. /\ u \in Seq(Byte) /\ Len(u) = Len(x) + 1
      /\ \A i \in 1..Len(x) + 1 : u[i] = IF i <= Len(x) THEN x[i] ELSE <<byte>>[i - Len(x)]
  BY <1>1, ConcatProperties
<1>3. b = u \o y
  BY <1>1, ConcatAssociative DEF Cat
<1>4. Len(x) \in Nat
  BY LenProperties
<1> HIDE DEF u
<1>5. u[n] = byte /\ n \in 1..Len(u) /\ n = Len(u)
  <2>1. n \in 1..Len(x) + 1 /\ ~(n <= Len(x)) /\ n - Len(x) = 1
    BY <1>4
  <2>2. u[n] = <<byte>>[n - Len(x)]
    BY <1>2, <2>1
  <2> QED
    BY <1>1, <1>2, <2>1, <2>2
<1>6. /\ b \in Seq(Byte) /\ Len(u) \in Nat /\ Len(b) \in Nat /\ Len(u) <= Len(b)
      /\ \A i \in 1..Len(u) : b[i] = u[i]
  <2>1. b = Cat(u, y)
    BY <1>3 DEF Cat
  <2>2. u \in Seq(Byte)
    BY <1>2
  <2> QED
    BY ONLY <2>1, <2>2, y \in Seq(Byte), Beginning
<1>7. After(b, n) = y
  BY <1>2, <1>3, <1>5, AfterConcat
<1> QED
  BY <1>5, <1>6, <1>7

LEMMA ParseMasterSent ==
  ASSUME NEW x, NEW p, NEW type, MasterIs(x, p, type), NEW y \in Seq(Byte),
         NEW b, b = Cat(x, y), NEW t \in Telegrams, NEW v, v = ParseMaster(t, b)
  PROVE  /\ v \in Telegrams /\ v.m_masterState = "OK" /\ v.m_masterNN + 6 = Len(x)
         /\ v.m_type = type /\ v.m_slaveState = t.m_slaveState
<1> DEFINE k == p[5]
<1>1. /\ x \in Seq(Byte) /\ k \in 0..16 /\ Len(x) = 6 + k /\ x[5] = k
      /\ IsMaster(x[1]) /\ IsAddressValid(x[2]) /\ type = TelegramType(x[2])
  BY MasterBytesOf
<1>2. k = p[5]
  OBVIOUS
<1> HIDE DEF k
<1>3. x \in Seq(Byte)
  BY <1>1
<1>4. /\ b \in Seq(Byte) /\ Len(b) \in Nat /\ Len(x) <= Len(b)
      /\ SubSeq(b, 1, Len(x)) = x /\ \A i \in 1..Len(x) : b[i] = x[i]
  BY ONLY <1>3, y \in Seq(Byte), b = Cat(x, y), Beginning
<1>5. b[1] = x[1] /\ b[2] = x[2] /\ b[5] = k
  <2>1. 1 \in 1..Len(x) /\ 2 \in 1..Len(x) /\ 5 \in 1..Len(x)
    BY <1>1
  <2> QED
    BY <1>1, <1>4, <2>1
<1>6. HeaderError(b) = "OK"
  <2>1. ~(Len(b) < 6) /\ ~(b[5] > seq_max_bytes)
    BY <1>1, <1>4, <1>5 DEF seq_max_bytes
  <2> QED
    BY <1>1, <1>5, <2>1 DEF HeaderError
<1>7. MasterPartError(b) = "OK"
  <2>1. ~(Len(b) < 6 + b[5])
    BY <1>1, <1>4, <1>5
  <2> QED
    BY <1>6, <2>1 DEF MasterPartError, First
<1>8. SubSeq(b, 1, 6 + b[5]) = x
  <2>1. 6 + b[5] = Len(x)
    BY <1>1, <1>5
  <2> QED
    BY <1>4, <2>1
<1>9. v = TakeMaster(t, x)
  BY <1>7, <1>8 DEF ParseMaster
<1>10. /\ v \in Telegrams /\ v.m_masterState = "OK" /\ v.m_masterNN = p[5]
       /\ v.m_type = type /\ v.m_slaveState = t.m_slaveState
  BY <1>9, MasterTakes
<1> QED
  BY <1>1, <1>2, <1>10

LEMMA ParseSlaveSent ==
  ASSUME NEW x, NEW p, SlaveIs(x, p), NEW y \in Seq(Byte),
         NEW b, b = Cat(x, y), NEW t \in Telegrams, NEW v, v = ParseSlave(t, b)
  PROVE  /\ v \in Telegrams /\ v.m_slaveState = "OK" /\ v.m_slaveNN + 2 = Len(x)
         /\ v.m_masterState = t.m_masterState /\ v.m_type = t.m_type
<1> DEFINE k == p[1]
<1>1. x \in Seq(Byte) /\ k \in 0..16 /\ Len(x) = 2 + k /\ x[1] = k
  BY SlaveBytesOf
<1>2. k = p[1]
  OBVIOUS
<1> HIDE DEF k
<1>3. x \in Seq(Byte)
  BY <1>1
<1>4. /\ b \in Seq(Byte) /\ Len(b) \in Nat /\ Len(x) <= Len(b)
      /\ SubSeq(b, 1, Len(x)) = x /\ \A i \in 1..Len(x) : b[i] = x[i]
  BY ONLY <1>3, y \in Seq(Byte), b = Cat(x, y), Beginning
<1>5. b[1] = k
  <2>1. 1 \in 1..Len(x)
    BY <1>1
  <2> QED
    BY <1>1, <1>4, <2>1
<1>6. SlaveError(b) = "OK"
  <2>1. ~(Len(b) < 2) /\ ~(b[1] > seq_max_bytes)
    BY <1>1, <1>4, <1>5 DEF seq_max_bytes
  <2> QED
    BY <2>1 DEF SlaveError
<1>7. SlavePartError(b) = "OK"
  <2>1. ~(Len(b) < 2 + b[1])
    BY <1>1, <1>4, <1>5
  <2> QED
    BY <1>6, <2>1 DEF SlavePartError, First
<1>8. SubSeq(b, 1, 2 + b[1]) = x
  <2>1. 2 + b[1] = Len(x)
    BY <1>1, <1>5
  <2> QED
    BY <1>4, <2>1
<1>9. v = TakeSlave(t, x)
  BY <1>7, <1>8 DEF ParseSlave
<1>10. /\ v \in Telegrams /\ v.m_slaveState = "OK" /\ v.m_slaveNN = p[1]
       /\ v.m_masterState = t.m_masterState /\ v.m_type = t.m_type
  BY <1>9, SlaveTakes
<1> QED
  BY <1>1, <1>2, <1>10

\* The acknowledge byte of a master part that was taken.
LEMMA ParseACKSent ==
  ASSUME NEW v \in Telegrams, v.m_slaveState = "EMPTY",
         NEW x \in Seq(Byte), v.m_masterNN + 6 = Len(x), NEW ack \in {seq_ack, seq_nak},
         NEW y \in Seq(Byte), NEW b, b = Cat(x, Cat(<<ack>>, y)), NEW w, w = ParseSlaveACK(v, b)
  PROVE  /\ w \in Telegrams /\ w.m_slaveState = "EMPTY" /\ w.m_slaveACK = ack
         /\ w.m_masterState = v.m_masterState /\ w.m_type = v.m_type
         /\ After(b, w.m_masterNN + 7) = y
<1> DEFINE n == Len(x) + 1
<1>1. ack \in Byte
  BY DEF seq_ack, seq_nak, Byte
<1>2. n = Len(x) + 1
  OBVIOUS
<1>3. v.m_masterNN + 7 = n
  <2>1. v.m_masterNN \in Nat
    BY DEF Telegrams, seq_max_bytes
  <2> QED
    BY <2>1
<1> HIDE DEF n
<1>4. ~(Len(b) < n) /\ b[n] = ack /\ After(b, n) = y
  BY ONLY <1>1, <1>2, x \in Seq(Byte), y \in Seq(Byte), b = Cat(x, Cat(<<ack>>, y)), NextByte
<1>5. w = [v EXCEPT !.m_slaveACK = ack, !.m_slaveState = "EMPTY"]
  BY <1>3, <1>4 DEF ParseSlaveACK, ACKError
<1>6. w = [v EXCEPT !.m_slaveACK = ack]
  BY <1>5 DEF Telegrams
<1>7. w \in Telegrams
  BY <1>1, <1>6, ACKTyped
<1>8. /\ w.m_slaveACK = ack /\ w.m_slaveState = "EMPTY"
      /\ w.m_masterNN = v.m_masterNN /\ w.m_masterState = v.m_masterState /\ w.m_type = v.m_type
  BY <1>6 DEF Telegrams
<1> QED
  BY <1>3, <1>4, <1>7, <1>8

\* t after x was read as its master part, and after the acknowledge byte that
\* follows x in b, with y behind it.
TookMaster(t, x, type) ==
  /\ t \in Telegrams /\ t.m_masterState = "OK" /\ t.m_masterNN + 6 = Len(x)
  /\ t.m_type = type /\ t.m_slaveState = "EMPTY"

TookACK(t, b, ack, type, y) ==
  /\ t \in Telegrams /\ t.m_slaveState = "EMPTY" /\ t.m_slaveACK = ack
  /\ t.m_masterState = "OK" /\ t.m_type = type /\ After(b, t.m_masterNN + 7) = y

LEMMA MasterParsedHere ==
  ASSUME NEW x, NEW p, NEW type, MasterIs(x, p, type), NEW y \in Seq(Byte), NEW b, b = Cat(x, y),
         NEW t \in Telegrams, t.m_slaveState = "EMPTY", NEW v, v = ParseMaster(t, b)
  PROVE  TookMaster(v, x, type)
BY ParseMasterSent DEF TookMaster

LEMMA ACKParsedHere ==
  ASSUME NEW v, NEW x \in Seq(Byte), NEW type, TookMaster(v, x, type), NEW ack \in {seq_ack, seq_nak},
         NEW y \in Seq(Byte), NEW b, b = Cat(x, Cat(<<ack>>, y)), NEW w, w = ParseSlaveACK(v, b)
  PROVE  TookACK(w, b, ack, type, y)
<1>1. v \in Telegrams /\ v.m_slaveState = "EMPTY" /\ v.m_masterNN + 6 = Len(x)
  BY DEF TookMaster
<1>2. /\ w \in Telegrams /\ w.m_slaveState = "EMPTY" /\ w.m_slaveACK = ack
      /\ w.m_masterState = v.m_masterState /\ w.m_type = v.m_type
      /\ After(b, w.m_masterNN + 7) = y
  BY <1>1, ParseACKSent
<1> QED
  BY <1>2 DEF TookMaster, TookACK

\* What follows the positive acknowledge of a telegram of this type.
Answer(type, y) ==
  IF type = "MM" THEN y = <<>>
  ELSE \E e, c, q : Sent(e, c, q, 1) /\ y = Cat(Append(e, c), <<seq_ack>>)

\* parse() is content with z in its place.
Fits(type, z) ==
  /\ z \in Seq(Byte)
  /\ \A t \in Telegrams :
       t.m_masterState = "OK" /\ t.m_type = type => IsValid(ParseResponse(t, z))

LEMMA MasterReduced ==
  ASSUME NEW t, NEW p, HasMaster(t, p), NEW s, s = MasterSent(t)
  PROVE  /\ s \in Seq(Byte) /\ s \in Seq(Byte \ {seq_syn}) /\ Ended(s) /\ s # <<>>
         /\ MasterIs(reduced[s], p, t.m_type)
<1> DEFINE e == t.m_master.m_seq
           c == t.m_masterCRC
<1>1. Sent(e, c, p, 5) /\ IsMaster(p[1]) /\ s = Append(e, c) /\ t.m_type = TelegramType(p[2])
  BY DEF HasMaster, MasterSent
<1> HIDE DEF e, c
<1> QED
  BY <1>1, SentMaster

LEMMA ACKReduced ==
  ASSUME NEW ack \in {seq_ack, seq_nak}
  PROVE  /\ <<ack>> \in Seq(Byte) /\ <<ack>> \in Seq(Byte \ {seq_syn}) /\ <<ack>> # <<>>
         /\ reduced[<<ack>>] = <<ack>> /\ Ended(<<ack>>)
<1>1. ack \in Byte \ Marker /\ ack \in Byte /\ ack \in Byte \ {seq_syn}
  BY DEF seq_ack, seq_nak, Byte, Marker, seq_syn, seq_exp
<1>2. Last(<<ack>>) = ack
  BY DEF Last
<1>3. <<ack>> \in Seq(Byte) /\ <<ack>> \in Seq(Byte \ {seq_syn}) /\ <<ack>> # <<>>
  BY <1>1
<1> QED
  BY <1>1, <1>2, <1>3, ReducedByte DEF Ended

LEMMA AnswerFits ==
  ASSUME NEW type \in {"MM", "MS"}, NEW y, Answer(type, y), NEW z, z = reduced[y]
  PROVE  y \in Seq(Byte) /\ z \in Seq(Byte) /\ Fits(type, z)
<1>1. CASE type = "MM"
  <2>1. y = <<>> /\ y \in Seq(Byte) /\ z \in Seq(Byte)
    BY <1>1, ReducedBytes, EmptySeq DEF Answer
  <2>2. ASSUME NEW t \in Telegrams, t.m_masterState = "OK", t.m_type = type
        PROVE  IsValid(ParseResponse(t, z))
    BY <1>1, <2>2 DEF ParseResponse, IsValid
  <2> QED
    BY <2>1, <2>2 DEF Fits
<1>2. CASE type = "MS"
  <2>1. PICK e, c, q : Sent(e, c, q, 1) /\ y = Cat(Append(e, c), <<seq_ack>>)
    BY <1>2 DEF Answer
  <2> DEFINE s == Append(e, c)
             x == reduced[s]
             ack == <<seq_ack>>
  <2>2. s = Append(e, c) /\ x = reduced[s] /\ y = Cat(s, ack) /\ ack = <<seq_ack>>
    BY <2>1
  <2> HIDE DEF s, x
  <2>3. s \in Seq(Byte) /\ Ended(s) /\ SlaveIs(x, q)
    BY <2>1, <2>2, SentSlave
  <2>4. ack \in Seq(Byte) /\ reduced[ack] = ack /\ seq_ack \in Byte
    BY ACKReduced DEF seq_ack, Byte
  <2> HIDE DEF ack
  <2>5. y \in Seq(Byte) /\ z = Cat(x, ack) /\ x \in Seq(Byte) /\ z \in Seq(Byte)
    <3>1. y \in Seq(Byte) /\ x \in Seq(Byte)
      BY <2>2, <2>3, <2>4, CatTyped DEF SlaveIs
    <3>2. reduced[y] = Cat(x, ack)
      BY <2>2, <2>3, <2>4, CatReduced
    <3>3. z \in Seq(Byte)
      BY <2>4, <3>1, <3>2, CatTyped
    <3> QED
      BY <3>1, <3>2, <3>3
  <2>6. ASSUME NEW t \in Telegrams, t.m_masterState = "OK", t.m_type = "MS"
        PROVE  IsValid(ParseResponse(t, z))
    <3> DEFINE v == ParseSlave(t, z)
               w == ParseMasterACK(v, z)
               n == Len(x) + 1
    <3>1. v = ParseSlave(t, z) /\ w = ParseMasterACK(v, z) /\ n = Len(x) + 1
      OBVIOUS
    <3> HIDE DEF v, w, n
    <3>2. /\ v \in Telegrams /\ v.m_slaveState = "OK" /\ v.m_slaveNN + 2 = Len(x)
          /\ v.m_masterState = "OK" /\ v.m_type = "MS"
      BY <2>3, <2>4, <2>5, <2>6, <3>1, ParseSlaveSent
    <3>3. v.m_slaveNN + 3 = n
      <4>1. v.m_slaveNN \in Nat
        BY <3>2 DEF Telegrams, seq_max_bytes
      <4> QED
        BY <3>1, <3>2, <4>1
    <3>4. ~(Len(z) < n) /\ z[n] = seq_ack
      <4> DEFINE none == <<>>
      <4>1. none \in Seq(Byte) /\ Cat(ack, none) = ack
        BY <2>4, CatEmpty
      <4> HIDE DEF none
      <4>2. z = Cat(x, Cat(<<seq_ack>>, none))
        BY <2>2, <2>5, <4>1
      <4>3. x \in Seq(Byte) /\ seq_ack \in Byte
        BY <2>4, <2>5
      <4> QED
        BY ONLY <3>1, <4>1, <4>2, <4>3, NextByte
    <3>5. w = [v EXCEPT !.m_masterACK = seq_ack, !.m_masterState = "OK"]
      BY <3>1, <3>2, <3>3, <3>4 DEF ParseMasterACK, ACKError
    <3>6. w.m_masterACK = seq_ack /\ w.m_masterState = "OK" /\ w.m_slaveState = "OK" /\ w.m_type = "MS"
      BY <3>2, <3>5 DEF Telegrams
    <3>7. SlaveParsed(v, z) = w
      BY <3>1, <3>2, <3>6 DEF SlaveParsed, Response
    <3>8. ParseResponse(t, z) = w
      BY <2>6, <3>1, <3>7 DEF ParseResponse
    <3> QED
      BY <3>6, <3>8 DEF IsValid
  <2> QED
    BY <1>2, <2>5, <2>6 DEF Fits
<1> QED
  BY <1>1, <1>2

LEMMA BroadcastParsed ==
  ASSUME NEW x, NEW p, MasterIs(x, p, "BC")
  PROVE  IsValid(ParseBytes(x))
<1> DEFINE v == ParseMaster(NoTelegram, x)
           none == <<>>
<1>1. x \in Seq(Byte) /\ x = Cat(x, none) /\ none \in Seq(Byte)
  BY CatEmpty, EmptySeq DEF MasterIs
<1> HIDE DEF none
<1>2. v.m_masterState = "OK" /\ v.m_type = "BC"
  BY <1>1, NoTelegramTyped, ParseMasterSent
<1>3. ParseBytes(x) = v
  BY <1>2 DEF ParseBytes, MasterParsed
<1> QED
  BY <1>2, <1>3 DEF IsValid

LEMMA OnceParsed ==
  ASSUME NEW x, NEW p, NEW type \in {"MM", "MS"}, MasterIs(x, p, type), NEW z, Fits(type, z),
         NEW b, b = Cat(x, Cat(<<seq_ack>>, z))
  PROVE  IsValid(ParseBytes(b))
<1> DEFINE v == ParseMaster(NoTelegram, b)
           w == ParseSlaveACK(v, b)
           y == Cat(<<seq_ack>>, z)
<1>1. /\ x \in Seq(Byte) /\ z \in Seq(Byte) /\ y \in Seq(Byte) /\ b = Cat(x, y)
      /\ NoTelegram.m_slaveState = "EMPTY"
  BY ACKReduced, CatTyped DEF MasterIs, Fits, NoTelegram
<1>2. v = ParseMaster(NoTelegram, b) /\ w = ParseSlaveACK(v, b)
  OBVIOUS
<1> HIDE DEF v, w, y
<1>3. TookMaster(v, x, type)
  BY <1>1, <1>2, NoTelegramTyped, MasterParsedHere
<1>4. TookACK(w, b, seq_ack, type, z)
  <2>1. x \in Seq(Byte) /\ z \in Seq(Byte) /\ seq_ack \in {seq_ack, seq_nak}
    BY <1>1
  <2>2. b = Cat(x, Cat(<<seq_ack>>, z)) /\ w = ParseSlaveACK(v, b)
    BY <1>2
  <2> QED
    BY ONLY <1>3, <2>1, <2>2, ACKParsedHere
<1>5. ParseBytes(b) = ParseResponse(w, z)
  BY <1>2, <1>3, <1>4 DEF ParseBytes, MasterParsed, Answered, TookMaster, TookACK
<1> QED
  BY <1>4, <1>5 DEF Fits, TookACK

\* After a refusal the part comes once more.
LEMMA AgainParsed ==
  ASSUME NEW x, NEW p, NEW type \in {"MM", "MS"}, MasterIs(x, p, type), NEW z, Fits(type, z),
         NEW d, d = Cat(x, Cat(<<seq_ack>>, z)), NEW b, b = Cat(x, Cat(<<seq_nak>>, d))
  PROVE  IsValid(ParseBytes(b))
<1> DEFINE v == ParseMaster(NoTelegram, b)
           w == ParseSlaveACK(v, b)
           u == [w EXCEPT !.m_master = NoBytes]
           f == ParseMaster(u, d)
           g == ParseSlaveACK(f, d)
           y == Cat(<<seq_ack>>, z)
           a == Cat(<<seq_nak>>, d)
<1>1. /\ x \in Seq(Byte) /\ z \in Seq(Byte) /\ y \in Seq(Byte) /\ d = Cat(x, y)
      /\ d \in Seq(Byte) /\ a \in Seq(Byte) /\ b = Cat(x, a)
      /\ NoTelegram.m_slaveState = "EMPTY"
  <2>1. x \in Seq(Byte) /\ z \in Seq(Byte) /\ y \in Seq(Byte)
    BY ACKReduced, CatTyped DEF MasterIs, Fits
  <2>2. d \in Seq(Byte)
    BY <2>1, CatTyped
  <2>3. a \in Seq(Byte)
    BY <2>2, ACKReduced, CatTyped
  <2> QED
    BY <2>1, <2>2, <2>3 DEF NoTelegram
<1>2. v = ParseMaster(NoTelegram, b) /\ w = ParseSlaveACK(v, b)
  OBVIOUS
<1>3. f = ParseMaster(u, d) /\ g = ParseSlaveACK(f, d) /\ u = [w EXCEPT !.m_master = NoBytes]
  OBVIOUS
<1> HIDE DEF v, w, u, f, g, y, a
<1>4. TookMaster(v, x, type)
  BY <1>1, <1>2, NoTelegramTyped, MasterParsedHere
<1>5. TookACK(w, b, seq_nak, type, d)
  <2>1. x \in Seq(Byte) /\ d \in Seq(Byte) /\ seq_nak \in {seq_ack, seq_nak}
    BY <1>1
  <2>2. b = Cat(x, Cat(<<seq_nak>>, d)) /\ w = ParseSlaveACK(v, b)
    BY <1>2
  <2> QED
    BY ONLY <1>4, <2>1, <2>2, ACKParsedHere
<1>6. u \in Telegrams /\ u.m_slaveState = "EMPTY"
  BY <1>3, <1>5, EmptySeq DEF TookACK, Telegrams, SeqObjects, NoBytes, Plain
<1>7. TookMaster(f, x, type)
  <2>1. f = ParseMaster(u, d) /\ d = Cat(x, y) /\ y \in Seq(Byte)
    BY <1>1, <1>3
  <2> QED
    BY ONLY <1>6, <2>1, MasterIs(x, p, type), MasterParsedHere
<1>8. TookACK(g, d, seq_ack, type, z)
  <2>1. x \in Seq(Byte) /\ z \in Seq(Byte) /\ seq_ack \in {seq_ack, seq_nak}
    BY <1>1
  <2>2. d = Cat(x, Cat(<<seq_ack>>, z)) /\ g = ParseSlaveACK(f, d)
    BY <1>3
  <2> QED
    BY ONLY <1>7, <2>1, <2>2, ACKParsedHere
<1>9. ParseMasterAgain(w, d) = ParseResponse(g, z)
  BY <1>3, <1>7, <1>8 DEF ParseMasterAgain, MasterParsedAgain, AnsweredAgain, TookMaster, TookACK
<1>10. ParseBytes(b) = ParseMasterAgain(w, d)
  BY <1>2, <1>4, <1>5 DEF ParseBytes, MasterParsed, Answered, seq_ack, seq_nak, TookMaster, TookACK
<1> QED
  BY <1>8, <1>9, <1>10 DEF Fits, TookACK

-----------------------------------------------------------------------------
(* What a listener hears.                                                  *)

\* The master part, once more if it was refused.
Twice(t) == Cat(Cat(MasterSent(t), <<seq_nak>>), MasterSent(t))

Asked(t, b) == b = MasterSent(t) \/ b = Twice(t)

\* All of a telegram that was delivered.
Told(t, s) ==
  IF t.m_type = "BC" THEN s = MasterSent(t)
  ELSE \E b, y : Asked(t, b) /\ Answer(t.m_type, y) /\ s = Cat(Cat(b, <<seq_ack>>), y)

LEMMA AskedReduced ==
  ASSUME NEW t, NEW p, HasMaster(t, p), NEW b, Asked(t, b), NEW x, x = reduced[MasterSent(t)]
  PROVE  /\ b \in Seq(Byte) /\ Ended(b)
         /\ reduced[b] = x \/ reduced[b] = Cat(Cat(x, <<seq_nak>>), x)
<1> DEFINE m == MasterSent(t)
           nak == <<seq_nak>>
<1>1. m \in Seq(Byte) /\ Ended(m) /\ m # <<>> /\ x = reduced[m]
  BY MasterReduced
<1>2. nak \in Seq(Byte) /\ reduced[nak] = nak /\ Ended(nak) /\ nak # <<>>
  BY ACKReduced
<1>3. b = m \/ b = Cat(Cat(m, nak), m)
  BY DEF Asked, Twice
<1>4. reduced[b] = x \/ reduced[b] = Cat(Cat(x, nak), x) <=>
      reduced[b] = x \/ reduced[b] = Cat(Cat(x, <<seq_nak>>), x)
  OBVIOUS
<1> HIDE DEF m, nak
<1>5. Cat(m, nak) \in Seq(Byte) /\ Ended(Cat(m, nak)) /\ reduced[Cat(m, nak)] = Cat(x, nak)
  BY <1>1, <1>2, CatTyped, CatEnded, CatReduced
<1>6. /\ Cat(Cat(m, nak), m) \in Seq(Byte) /\ Ended(Cat(Cat(m, nak), m))
      /\ reduced[Cat(Cat(m, nak), m)] = Cat(Cat(x, nak), x)
  BY <1>1, <1>5, CatTyped, CatEnded, CatReduced
<1>7. b \in Seq(Byte) /\ Ended(b) /\ (reduced[b] = x \/ reduced[b] = Cat(Cat(x, nak), x))
  BY <1>1, <1>3, <1>6
<1> QED
  BY <1>4, <1>7

\* A listener finds what it has heard of a delivered telegram valid.
LEMMA ToldValid ==
  ASSUME NEW t, NEW p, HasMaster(t, p), NEW s, Told(t, s)
  PROVE  s \in Seq(Byte) /\ s # <<>> /\ IsValid(Parse(Received(s)))
<1> DEFINE m == MasterSent(t)
           x == reduced[m]
           ack == <<seq_ack>>
           nak == <<seq_nak>>
           r == reduced[s]
<1>1. m = MasterSent(t) /\ x = reduced[m] /\ r = reduced[s]
  OBVIOUS
<1>2. ASSUME s \in Seq(Byte), IsValid(ParseBytes(r)) PROVE IsValid(Parse(Received(s)))
  BY <1>2, ReceivedBytes DEF Parse
<1>3. ack = <<seq_ack>> /\ nak = <<seq_nak>>
  OBVIOUS
<1>4. /\ ack \in Seq(Byte) /\ reduced[ack] = ack /\ Ended(ack) /\ ack # <<>> /\ nak \in Seq(Byte)
  BY ACKReduced
<1> HIDE DEF m, x, r
<1>5. MasterIs(x, p, t.m_type) /\ m \in Seq(Byte) /\ m # <<>>
  BY <1>1, MasterReduced
<1>6. x \in Seq(Byte) /\ t.m_type \in {"BC", "MM", "MS"}
  BY <1>5 DEF MasterIs, TelegramType
<1>7. CASE t.m_type = "BC"
  <2>1. s = m /\ r = x
    BY <1>1, <1>7 DEF Told
  <2>2. IsValid(ParseBytes(r))
    BY <1>5, <1>7, <2>1, BroadcastParsed
  <2> QED
    BY <1>2, <1>5, <2>1, <2>2
<1>8. CASE t.m_type # "BC"
  <2>1. PICK b, y : Asked(t, b) /\ Answer(t.m_type, y) /\ s = Cat(Cat(b, ack), y)
    BY <1>8 DEF Told
  <2> DEFINE type == t.m_type
             z == reduced[y]
             a == reduced[b]
             q == Cat(b, ack)
  <2>2. type \in {"MM", "MS"} /\ z = reduced[y] /\ a = reduced[b] /\ MasterIs(x, p, type)
    BY <1>5, <1>6, <1>8
  <2>3. Answer(type, y) /\ q = Cat(b, ack) /\ s = Cat(q, y)
    BY <2>1
  <2> HIDE DEF z, a, type, q
  <2>4. y \in Seq(Byte) /\ Fits(type, z) /\ z \in Seq(Byte)
    BY <2>2, <2>3, AnswerFits
  <2>5. b \in Seq(Byte) /\ (a = x \/ a = Cat(Cat(x, nak), x)) /\ Ended(b)
    BY <1>1, <2>1, <2>2, AskedReduced
  <2> HIDE DEF ack, nak
  <2>6. q \in Seq(Byte) /\ Ended(q) /\ reduced[q] = Cat(a, ack) /\ q # <<>>
    BY <1>4, <2>2, <2>3, <2>5, CatTyped, CatEnded, CatReduced
  <2>7. s \in Seq(Byte) /\ r = Cat(Cat(a, ack), z)
    BY <1>1, <2>2, <2>3, <2>4, <2>6, CatTyped, CatReduced
  <2>8. s # <<>>
    <3>1. CASE y = <<>>
      BY <2>3, <2>6, <3>1, CatEmpty
    <3>2. CASE y # <<>>
      BY <2>3, <2>4, <2>6, <3>2, CatEnded
    <3> QED
      BY <3>1, <3>2
  <2> DEFINE d == Cat(x, Cat(ack, z))
  <2>9. d = Cat(x, Cat(ack, z)) /\ Cat(Cat(x, ack), z) = d
    BY <1>4, <1>6, <2>4, CatAssociative
  <2>10. d = Cat(x, Cat(<<seq_ack>>, z))
    BY <1>3
  <2> HIDE DEF d
  <2>11. CASE a = x
    <3>1. r = d
      BY <2>7, <2>9, <2>11
    <3>2. IsValid(ParseBytes(r))
      BY <2>2, <2>4, <2>10, <3>1, OnceParsed
    <3> QED
      BY <1>2, <2>7, <2>8, <3>2
  <2>12. CASE a = Cat(Cat(x, nak), x)
    <3> DEFINE f == Cat(x, nak)
    <3>1. f \in Seq(Byte) /\ f = Cat(x, nak) /\ a = Cat(f, x)
      BY <1>4, <1>6, <2>12, CatTyped
    <3> HIDE DEF f
    <3>2. Cat(Cat(a, ack), z) = Cat(a, Cat(ack, z))
      <4>1. a \in Seq(Byte)
        BY <1>6, <3>1, CatTyped
      <4> QED
        BY <1>4, <2>4, <4>1, CatAssociative
    <3>3. Cat(a, Cat(ack, z)) = Cat(f, d)
      <4>1. Cat(ack, z) \in Seq(Byte)
        BY <1>4, <2>4, CatTyped
      <4> QED
        BY <1>6, <2>9, <3>1, <4>1, CatAssociative
    <3>4. Cat(f, d) = Cat(x, Cat(nak, d))
      <4>1. d \in Seq(Byte)
        BY <1>4, <1>6, <2>4, <2>9, CatTyped
      <4> QED
        BY <1>4, <1>6, <3>1, <4>1, CatAssociative
    <3>5. r = Cat(x, Cat(<<seq_nak>>, d))
      BY <1>3, <2>7, <3>2, <3>3, <3>4
    <3>6. IsValid(ParseBytes(r))
      BY <2>2, <2>4, <2>10, <3>5, AgainParsed
    <3> QED
      BY <1>2, <2>7, <2>8, <3>6
  <2> QED
    BY <2>5, <2>11, <2>12
<1> QED
  BY <1>7, <1>8

\* monitorBus() collects what is no SYN.
LEMMA HeardPart ==
  ASSUME listener \in Listeners, NEW part \in Seq(Byte \ {seq_syn})
  PROVE  heard[part] = [listener EXCEPT !.m_sequence = Cat(@, part)]
<1> DEFINE N == Byte \ {seq_syn}
           q == listener.m_sequence
           Joined(s) == [listener EXCEPT !.m_sequence = Cat(q, s)]
           T == {s \in Seq(N) : heard[s] = Joined(s)}
<1>1. q \in Seq(N) /\ q = listener.m_sequence /\ listener = [listener EXCEPT !.m_sequence = q]
  BY DEF Listeners
<1>2. \A s \in Seq(N) : s \in Seq(Byte)
  BY SeqMonotonic, Zenon
<1>3. \A x \in N : x \in Byte /\ x # seq_syn
  OBVIOUS
<1>4. part \in Seq(N) /\ <<>> \in Seq(N)
  BY EmptySeq
<1> HIDE DEF N, q
<1>5. <<>> \in T
  <2>1. heard[<<>>] = listener
    BY <1>2, <1>4, HeardDef
  <2>2. Cat(q, <<>>) = q
    BY <1>1, CatEmpty
  <2> QED
    BY <1>1, <1>4, <2>1, <2>2
<1>6. T \subseteq Seq(N) /\ \A s \in Seq(N) : s \in T <=> heard[s] = Joined(s)
  OBVIOUS
<1> HIDE DEF T
<1>7. ASSUME NEW s \in T, NEW x \in N PROVE Append(s, x) \in T
  <2> DEFINE w == Append(s, x)
  <2>1. s \in Seq(N) /\ heard[s] = Joined(s)
    BY <1>6
  <2>2. w \in Seq(N) /\ w # <<>> /\ Front(w) = s /\ Last(w) = x /\ w = Append(s, x)
    BY <2>1, FrontAppend
  <2> HIDE DEF w
  <2>3. heard[w] = MonitorByte(heard[s], x)
    BY <1>2, <2>2, HeardDef
  <2>4. Cat(q, w) = Append(Cat(q, s), x)
    <3>1. q \in Seq(Byte)
      BY <1>1, <1>2
    <3>2. s \in Seq(Byte)
      BY <1>2, <2>1
    <3>3. x \in Byte
      BY <1>3
    <3>4. Cat(q, Append(s, x)) = Append(Cat(q, s), x)
      BY ONLY <3>1, <3>2, <3>3, CatAppend
    <3> QED
      BY <2>2, <3>4
  <2>5. MonitorByte(Joined(s), x) = [listener EXCEPT !.m_sequence = Append(Cat(q, s), x)]
    BY <1>3 DEF MonitorByte, Listeners
  <2>6. heard[w] = Joined(w)
    BY <2>1, <2>3, <2>4, <2>5
  <2> QED
    BY <1>6, <2>2, <2>6
<1>8. part \in T
  BY <1>4, <1>5, <1>6, <1>7, SequenceInduction
<1> QED
  BY <1>4, <1>6, <1>8 DEF q

\* As long as the listener has heard each part as it was sent, it has the bytes
\* of the telegram up to here; a repeated response is not among them.
ListenInv == exact =>
  /\ phase = "lock" => listener.m_sequence = <<>>
  /\ phase = "master" =>
       IF Again THEN listener.m_sequence = <<Address>>
       ELSE tel.m_type # "BC" /\ listener.m_sequence = Cat(MasterSent(tel), <<seq_nak>>)
  /\ phase = "slaveACK" =>
       /\ tel.m_type # "BC"
       /\ listener.m_sequence = IF Again THEN MasterSent(tel) ELSE Twice(tel)
  /\ phase \in {"response", "masterACK"} => tel.m_type = "MS"
  /\ phase = "response" /\ pretry = 1 =>
       \E b : Asked(tel, b) /\ listener.m_sequence = Cat(b, <<seq_ack>>)
  /\ phase = "masterACK" /\ pretry = 1 =>
       \E b : Asked(tel, b) /\ listener.m_sequence = Cat(Cat(b, <<seq_ack>>), ResponsePart)
  /\ phase = "free" /\ code = "SEQ_OK" /\ pretry = 1 => Told(tel, listener.m_sequence)
  /\ phase = "late" /\ code = "SEQ_OK" /\ pretry = 1 => listener.published # {}
  /\ phase = "done" => DeliveredIsPublished

\* All of this is said of the master part.
LEMMA ToldKept ==
  ASSUME NEW t, NEW u, u.m_master = t.m_master, u.m_masterCRC = t.m_masterCRC, u.m_type = t.m_type
  PROVE  /\ MasterSent(u) = MasterSent(t) /\ Twice(u) = Twice(t)
         /\ \A b : Asked(u, b) <=> Asked(t, b)
         /\ \A s : Told(u, s) <=> Told(t, s)
<1>1. MasterSent(u) = MasterSent(t)
  BY DEF MasterSent
<1>2. Twice(u) = Twice(t)
  BY <1>1 DEF Twice
<1>3. \A b : Asked(u, b) <=> Asked(t, b)
  BY <1>1, <1>2 DEF Asked
<1>4. \A s : Told(u, s) <=> Told(t, s)
  BY <1>1, <1>3 DEF Told
<1> QED
  BY <1>1, <1>2, <1>3, <1>4

LEMMA HeardExactly ==
  ASSUME ExchangeTypeInv, NEW part \in Seq(Byte \ {seq_syn}),
         NEW o \in Outcomes(part), OnBus(part, o), exact'
  PROVE  exact /\ listener'.m_sequence = Cat(listener.m_sequence, part)
<1>1. listener' = heard[o.all] /\ exact /\ o.all = part
  BY DEF OnBus, Heard
<1>2. listener \in Listeners
  BY DEF ExchangeTypeInv
<1>3. listener' = [listener EXCEPT !.m_sequence = Cat(@, part)]
  BY <1>1, <1>2, HeardPart
<1> QED
  BY <1>1, <1>2, <1>3 DEF Listeners

LEMMA ListenInit == Init => ListenInv
BY DEF Init, ListenInv

\* lockBus() puts the address on the bus.
LEMMA AddressHeard ==
  ASSUME ExchangeTypeInv, AcceptedInv, CleanExchange, Lock
  PROVE  /\ listener'.m_sequence = Cat(listener.m_sequence, <<Address>>)
         /\ listener'.published = listener.published
<1>1. phase' = "master" /\ listener' = heard[<<Address>>]
  BY DEF Lock, Heard
<1>2. Address \in Byte \ {seq_syn}
  <2>1. AcceptedInv'
    BY AcceptedLock
  <2>2. Locked(tel')
    BY <1>1, <2>1 DEF AcceptedInv
  <2> DEFINE p == MasterBytes(tel')
  <2>3. HasMaster(tel', p) /\ p[1] = Address
    BY <2>2 DEF Locked
  <2> HIDE DEF p
  <2>4. p[1] \notin Marker
    BY <2>3 DEF HasMaster, Sent
  <2> QED
    BY <2>3, <2>4, ExchangeAssumption DEF Marker
<1> DEFINE part == <<Address>>
<1>3. part \in Seq(Byte \ {seq_syn}) /\ listener' = heard[part] /\ part = <<Address>>
  BY <1>1, <1>2
<1> HIDE DEF part
<1>4. listener' = [listener EXCEPT !.m_sequence = Cat(@, part)] /\ listener \in Listeners
  BY <1>3, HeardPart DEF ExchangeTypeInv
<1>5. listener'.m_sequence = Cat(listener.m_sequence, part) /\ listener'.published = listener.published
  BY <1>4 DEF Listeners
<1> QED
  BY <1>3, <1>5

LEMMA ListenLock ==
  ASSUME ExchangeTypeInv, AcceptedInv, CleanExchange, ListenInv, Lock
  PROVE  ListenInv'
<1>1. phase = "lock" /\ phase' = "master" /\ retry' = retry /\ exact' = exact
  BY DEF Lock
<1> DEFINE part == <<Address>>
<1>2. part \in Seq(Byte) /\ part = <<Address>>
  BY ExchangeAssumption
<1> HIDE DEF part
<1>3. listener'.m_sequence = Cat(listener.m_sequence, part)
  BY <1>2, AddressHeard
<1>4. exact => listener'.m_sequence = <<Address>>
  BY <1>1, <1>2, <1>3, CatEmpty DEF ListenInv
<1>5. retry = 1
  BY <1>1 DEF AcceptedInv
<1> QED
  BY <1>1, <1>4, <1>5 DEF ListenInv, Again

\* The address of lockBus() and the rest of the part, or the part once more.
LEMMA MasterListened ==
  ASSUME ExchangeTypeInv, AcceptedInv, ListenInv, phase = "master",
         NEW o \in Outcomes(MasterPart), OnBus(MasterPart, o), exact'
  PROVE  /\ listener'.m_sequence = IF Again THEN MasterSent(tel) ELSE Twice(tel)
         /\ tel.m_type = "BC" => Again
<1> DEFINE p == MasterBytes(tel)
           s == MasterSent(tel)
           N == Byte \ {seq_syn}
<1>1. HasMaster(tel, p) /\ p[1] = Address
  BY DEF AcceptedInv, Locked
<1>2. s = MasterSent(tel) /\ MasterPart = IF Again THEN Tail(s) ELSE s
  BY DEF MasterPart, MasterSent
<1> HIDE DEF p, s
<1>3. s \in Seq(N) /\ s # <<>>
  BY <1>1, <1>2, MasterReduced
<1>4. Tail(s) \in Seq(N)
  BY <1>3, HeadTailProperties
<1>5. MasterPart \in Seq(N)
  BY <1>2, <1>3, <1>4
<1>6. exact /\ listener'.m_sequence = Cat(listener.m_sequence, MasterPart)
  BY <1>5, HeardExactly
<1>7. CASE Again
  <2>1. listener.m_sequence = <<Address>> /\ MasterPart = Tail(s)
    BY <1>2, <1>6, <1>7 DEF ListenInv
  <2>2. s[1] = Address
    <3> DEFINE h == 5
               e == tel.m_master.m_seq
               c == tel.m_masterCRC
    <3>1. h \in Nat \ {0} /\ 1 \in 1..h /\ Sent(e, c, p, h) /\ s = Append(e, c)
      BY <1>1, <1>2 DEF HasMaster, MasterSent
    <3> HIDE DEF h, e, c
    <3>2. h \in Nat \ {0}
      BY <3>1
    <3>3. Sent(e, c, p, h)
      BY <3>1
    <3>4. s = Append(e, c)
      BY <3>1
    <3>5. Header(s, p, h)
      BY ONLY <3>2, <3>3, <3>4, SentHeader
    <3> QED
      BY <1>1, <3>1, <3>5 DEF Header
  <2>3. <<Address>> \o Tail(s) = s
    BY <1>3, <2>2, FirstAndTail
  <2> QED
    BY <1>2, <1>6, <1>7, <2>1, <2>3 DEF Cat
<1>8. CASE ~Again
  BY <1>2, <1>6, <1>8 DEF ListenInv, Twice
<1> QED
  BY <1>7, <1>8

LEMMA ListenMaster ==
  ASSUME ExchangeTypeInv, AcceptedInv, ListenInv, phase = "master", UNCHANGED <<tel, retry>>,
         NEW o \in Outcomes(MasterPart), OnBus(MasterPart, o),
         NEW answering \in BOOLEAN, SendMessage(answering)
  PROVE  ListenInv'
<1> SUFFICES ASSUME exact' PROVE ListenInv'
  BY DEF ListenInv
<1>1. /\ listener'.m_sequence = IF Again THEN MasterSent(tel) ELSE Twice(tel)
      /\ tel.m_type = "BC" => Again
  BY MasterListened
<1>2. tel' = tel /\ (Again' <=> Again)
  BY DEF Again
<1>3. CASE tel.m_type = "BC"
  <2>1. phase' = "free" /\ code' = "SEQ_OK"
    BY <1>3 DEF SendMessage, Ends
  <2>2. Told(tel, listener'.m_sequence)
    BY <1>1, <1>3 DEF Told
  <2> QED
    BY <1>2, <2>1, <2>2 DEF ListenInv
<1>4. CASE tel.m_type # "BC"
  <2>1. phase' \in {"slaveACK", "silent"}
    BY <1>4 DEF SendMessage
  <2>2. listener'.m_sequence = IF Again' THEN MasterSent(tel') ELSE Twice(tel')
    BY <1>1, <1>2
  <2> QED
    BY <1>2, <1>4, <2>1, <2>2 DEF ListenInv
<1> QED
  BY <1>3, <1>4

LEMMA ListenMissed ==
  ASSUME ExchangeTypeInv, AcceptedInv, ListenInv, MasterMissed
  PROVE  ListenInv'
<1>1. PICK o \in Outcomes(MasterPart) : OnBus(MasterPart, o)
  BY DEF MasterMissed
<1>2. phase = "master" /\ UNCHANGED <<tel, retry>> /\ SendMessage(FALSE)
  BY DEF MasterMissed
<1> QED
  BY <1>1, <1>2, ListenMaster

LEMMA ListenReceived ==
  ASSUME ExchangeTypeInv, AcceptedInv, ListenInv, MasterReceived
  PROVE  ListenInv'
<1>1. PICK o \in Outcomes(MasterPart) :
        LET s == m_sequence \o o.reader IN OnBus(MasterPart, o) /\ SendMessage(s[2] # seq_broad)
  BY DEF MasterReceived
<1>2. phase = "master" /\ UNCHANGED <<tel, retry>>
  BY DEF MasterReceived
<1> DEFINE answering == (m_sequence \o o.reader)[2] # seq_broad
<1>3. OnBus(MasterPart, o) /\ SendMessage(answering) /\ answering \in BOOLEAN
  BY <1>1
<1> HIDE DEF answering
<1> QED
  BY <1>2, <1>3, ListenMaster

LEMMA ListenAnswers ==
  ASSUME ExchangeTypeInv, AcceptedInv, ListenInv, NEW responding \in BOOLEAN, SlaveAnswers(responding)
  PROVE  ListenInv'
<1> SUFFICES ASSUME exact' PROVE ListenInv'
  BY DEF ListenInv
<1> DEFINE ack == IF ptel.m_masterState = "OK" THEN seq_ack ELSE seq_nak
<1>1. PICK o \in Outcomes(<<ack>>) :
        /\ OnBus(<<ack>>, o)
        /\ ReceiveACK(o.reader[1], responding)
        /\ tel' = [tel EXCEPT !.m_slaveACK = o.reader[1]]
  BY DEF SlaveAnswers
<1> DEFINE byte == o.reader[1]
           d == o.reader
           b == listener.m_sequence
           part == <<ack>>
<1>2. /\ phase = "slaveACK" /\ ReceiveACK(byte, responding) /\ tel' = [tel EXCEPT !.m_slaveACK = byte]
      /\ ack \in {seq_ack, seq_nak} /\ part = <<ack>> /\ byte = d[1] /\ d = o.reader
      /\ o \in Outcomes(part) /\ OnBus(part, o) /\ b = listener.m_sequence
  BY <1>1 DEF SlaveAnswers
<1> HIDE DEF ack, byte, part, d, b
<1>3. part \in Seq(Byte \ {seq_syn}) /\ part \in Seq(Byte)
  BY <1>2, ACKReduced
<1>4. exact /\ listener'.m_sequence = Cat(b, part)
  BY <1>2, <1>3, HeardExactly
<1>5. byte \in {seq_ack, seq_nak} => byte = ack
  <2>1. Noisy(d, <<ack>>)
    BY <1>2, <1>3, OnBusTyped
  <2>2. byte = d[1] /\ ack \in {seq_ack, seq_nak}
    BY <1>2
  <2> QED
    BY ONLY <2>1, <2>2, ACKHeard
<1>6. /\ tel.m_type # "BC" /\ b = IF Again THEN MasterSent(tel) ELSE Twice(tel)
      /\ code # "SEQ_OK"
  BY <1>2, <1>4 DEF ListenInv, AcceptedInv
<1>7. Asked(tel, b)
  BY <1>6 DEF Asked
<1>8. tel'.m_master = tel.m_master /\ tel'.m_masterCRC = tel.m_masterCRC /\ tel'.m_type = tel.m_type
  <2>1. tel \in Telegrams
    BY DEF ExchangeTypeInv, ExchangeTypeOK
  <2> QED
    BY <1>2, <2>1, ACKKeeps
<1> DEFINE u == tel'
<1>9. u = tel'
  OBVIOUS
<1>10. u.m_type = tel.m_type /\ MasterSent(u) = MasterSent(tel) /\ Asked(u, b)
  <2>1. u.m_master = tel.m_master /\ u.m_masterCRC = tel.m_masterCRC /\ u.m_type = tel.m_type
    BY <1>8
  <2> HIDE DEF u
  <2> QED
    BY <1>7, <2>1, ToldKept
<1>11. CASE code' = "EBUS_ERR_TRANSMIT" /\ phase' = "free"
  BY <1>11 DEF ListenInv
<1>12. CASE byte = seq_nak /\ Again /\ phase' = "master" /\ retry' = retry - 1
  <2>1. part = <<seq_nak>>
    BY <1>2, <1>5, <1>12
  <2>2. listener'.m_sequence = Cat(MasterSent(tel'), <<seq_nak>>)
    BY <1>4, <1>6, <1>10, <1>12, <2>1
  <2>3. ~Again' /\ tel'.m_type # "BC"
    BY <1>6, <1>8, <1>12 DEF Again
  <2> QED
    BY <1>12, <2>2, <2>3 DEF ListenInv
<1>13. CASE byte = seq_ack /\ tel.m_type = "MM" /\ code' = "SEQ_OK" /\ phase' = "free"
  <2> DEFINE s == Cat(b, <<seq_ack>>)
             y == <<>>
  <2>1. listener'.m_sequence = s
    BY <1>2, <1>4, <1>5, <1>13
  <2>2. b \in Seq(Byte)
    BY <1>2 DEF ExchangeTypeInv, Listeners
  <2>3. s = Cat(s, y) /\ Answer(u.m_type, y)
    <3>1. s \in Seq(Byte)
      BY <2>2, ACKReduced, CatTyped
    <3>2. Answer(u.m_type, y)
      BY <1>10, <1>13 DEF Answer
    <3> HIDE DEF s
    <3> QED
      BY <3>1, <3>2, CatEmpty
  <2>4. u.m_type # "BC"
    BY <1>10, <1>13
  <2>5. Told(u, s)
    <3> HIDE DEF y, u
    <3> QED
      BY <1>10, <2>3, <2>4 DEF Told
  <2> QED
    BY <1>13, <2>1, <2>5 DEF ListenInv
<1>14. CASE /\ byte = seq_ack /\ tel.m_type = "MS" /\ code' = code
            /\ phase' = IF responding THEN "response" ELSE "silent"
  <2>1. listener'.m_sequence = Cat(b, <<seq_ack>>)
    BY <1>2, <1>4, <1>5, <1>14
  <2>2. \E c : Asked(tel', c) /\ listener'.m_sequence = Cat(c, <<seq_ack>>)
    BY <1>10, <2>1
  <2>3. tel'.m_type = "MS"
    BY <1>8, <1>14
  <2>4. phase' \in {"response", "silent"}
    BY <1>14
  <2> QED
    BY <2>2, <2>3, <2>4 DEF ListenInv
<1> QED
  BY <1>2, <1>11, <1>12, <1>13, <1>14 DEF ReceiveACK, Refused, Ends

LEMMA ListenUnread ==
  ASSUME ResponseUnread PROVE ListenInv'
<1>1. phase' = "silent"
  BY DEF ResponseUnread
<1> QED
  BY <1>1 DEF ListenInv

\* The part of the response, as SentSlave has it.
LEMMA ResponseSent ==
  ASSUME AcceptedInv, phase \in {"response", "masterACK"}
  PROVE  /\ ResponsePart \in Seq(Byte \ {seq_syn}) /\ ResponsePart \in Seq(Byte)
         /\ \E e, c, q : Sent(e, c, q, 1) /\ ResponsePart = Append(e, c)
<1> DEFINE e == ptel.m_slave.m_seq
           c == ptel.m_slaveCRC
           q == SlaveBytes(ptel)
<1>1. Sent(e, c, q, 1) /\ ResponsePart = Append(e, c)
  BY DEF AcceptedInv, HasSlave, ResponsePart
<1> HIDE DEF e, c, q
<1> QED
  BY <1>1, SentSlave

LEMMA ListenResponse ==
  ASSUME ExchangeTypeInv, AcceptedInv, ListenInv, ResponseReceived
  PROVE  ListenInv'
<1> SUFFICES ASSUME exact' PROVE ListenInv'
  BY DEF ListenInv
<1>1. phase = "response" /\ phase' = "masterACK" /\ ptel' = ptel /\ pretry' = pretry
  BY DEF ResponseReceived, addressee
<1>2. PICK o \in Outcomes(ResponsePart) :
        OnBus(ResponsePart, o) /\ tel' = CreateSlave(tel, Received(o.reader))
  BY DEF ResponseReceived
<1>3. ResponsePart \in Seq(Byte \ {seq_syn}) /\ ResponsePart \in Seq(Byte)
  BY <1>1, ResponseSent
<1>4. exact /\ listener'.m_sequence = Cat(listener.m_sequence, ResponsePart)
  BY <1>2, <1>3, HeardExactly
<1> DEFINE u == tel'
           d == Received(o.reader)
<1>5. u.m_master = tel.m_master /\ u.m_masterCRC = tel.m_masterCRC /\ u.m_type = tel.m_type
  <2>1. tel \in Telegrams /\ u = CreateSlave(tel, d)
    BY <1>2 DEF ExchangeTypeInv, ExchangeTypeOK
  <2>2. d \in SeqObjects
    BY <1>2, <1>3, OnBusTyped, PlainTyped
  <2> HIDE DEF u, d
  <2> QED
    BY <2>1, <2>2, OtherPart
<1>6. tel'.m_type = "MS"
  BY <1>1, <1>4, <1>5 DEF ListenInv
<1>7. ResponsePart' = ResponsePart
  BY <1>1 DEF ResponsePart
<1>8. ASSUME pretry = 1
      PROVE  \E b : Asked(tel', b) /\ listener'.m_sequence = Cat(Cat(b, <<seq_ack>>), ResponsePart)
  <2>1. PICK b : Asked(tel, b) /\ listener.m_sequence = Cat(b, <<seq_ack>>)
    BY <1>1, <1>4, <1>8 DEF ListenInv
  <2>2. Asked(u, b)
    <3> HIDE DEF u
    <3> QED
      BY <1>5, <2>1, ToldKept
  <2> QED
    BY <1>4, <2>1, <2>2
<1> QED
  BY <1>1, <1>6, <1>7, <1>8 DEF ListenInv

LEMMA ListenEnd ==
  ASSUME ExchangeTypeInv, AcceptedInv, ListenInv, MasterAnswers
  PROVE  ListenInv'
<1> SUFFICES ASSUME exact' PROVE ListenInv'
  BY DEF ListenInv
<1> DEFINE ack == IF tel.m_slaveState = "OK" THEN seq_ack ELSE seq_nak
<1>1. PICK o \in Outcomes(<<ack>>) :
        LET repeated == o.reader[1] = seq_nak /\ pretry = 1
        IN /\ OnBus(<<ack>>, o)
           /\ pretry' = IF repeated THEN 0 ELSE pretry
           /\ \/ tel.m_slaveState = "OK" /\ phase' = "free" /\ code' = "SEQ_OK"
              \/ phase' = IF repeated THEN "response" ELSE "silent"
              \/ phase' = "free" /\ code' = "EBUS_ERR_TRANSMIT"
  BY DEF MasterAnswers, Ends
<1>2. phase = "masterACK" /\ tel' = [tel EXCEPT !.m_masterACK = ack] /\ tel \in Telegrams
  BY DEF MasterAnswers, ExchangeTypeInv, ExchangeTypeOK
<1>3. /\ OnBus(<<ack>>, o)
      /\ \/ tel.m_slaveState = "OK" /\ phase' = "free" /\ code' = "SEQ_OK" /\ pretry' \in {0, pretry}
         \/ phase' = "response" /\ pretry' = 0
         \/ phase' = "silent"
         \/ phase' = "free" /\ code' = "EBUS_ERR_TRANSMIT"
  BY <1>1
<1> DEFINE part == <<ack>>
           u == tel'
<1>4. /\ ack \in {seq_ack, seq_nak} /\ part = <<ack>> /\ o \in Outcomes(part) /\ OnBus(part, o)
      /\ tel.m_slaveState = "OK" => ack = seq_ack
  BY <1>3
<1> HIDE DEF ack, part
<1>5. part \in Seq(Byte \ {seq_syn}) /\ part \in Seq(Byte)
  BY <1>4, ACKReduced
<1>6. exact /\ listener'.m_sequence = Cat(listener.m_sequence, part)
  BY <1>4, <1>5, HeardExactly
<1>7. u.m_master = tel.m_master /\ u.m_masterCRC = tel.m_masterCRC /\ u.m_type = tel.m_type
  BY <1>2, ACKKeeps
<1>8. u.m_type = "MS"
  BY <1>2, <1>6, <1>7 DEF ListenInv
<1>9. CASE tel.m_slaveState = "OK" /\ phase' = "free" /\ pretry' \in {0, pretry}
  <2> SUFFICES ASSUME pretry' = 1 PROVE Told(u, listener'.m_sequence)
    BY <1>9 DEF ListenInv
  <2>1. pretry = 1
    BY <1>9
  <2>2. PICK b : Asked(tel, b) /\ listener.m_sequence = Cat(Cat(b, <<seq_ack>>), ResponsePart)
    BY <1>2, <1>6, <2>1 DEF ListenInv
  <2> DEFINE a == <<seq_ack>>
             r == ResponsePart
             q == Cat(b, a)
             y == Cat(r, a)
  <2>3. a = <<seq_ack>> /\ r = ResponsePart /\ q = Cat(b, a) /\ y = Cat(r, a)
    OBVIOUS
  <2>4. listener.m_sequence = Cat(q, r)
    BY <2>2
  <2> HIDE DEF a, r, q, y, u
  <2>5. listener'.m_sequence = Cat(Cat(q, r), a)
    BY <1>4, <1>6, <1>9, <2>3, <2>4
  <2>6. a \in Seq(Byte) /\ r \in Seq(Byte)
    BY <1>2, <2>3, ResponseSent, ACKReduced
  <2>7. q \in Seq(Byte)
    <3> DEFINE p == MasterBytes(tel)
               x == reduced[MasterSent(tel)]
    <3>1. HasMaster(tel, p)
      BY <1>2 DEF AcceptedInv, Locked
    <3>2. x = reduced[MasterSent(tel)]
      OBVIOUS
    <3> HIDE DEF p, x
    <3>3. b \in Seq(Byte)
      BY <2>2, <3>1, <3>2, AskedReduced
    <3> QED
      BY <2>3, <2>6, <3>3, CatTyped
  <2>8. listener'.m_sequence = Cat(q, y)
    BY <2>3, <2>5, <2>6, <2>7, CatAssociative
  <2>9. Answer("MS", y)
    <3>1. \E e, c, z : Sent(e, c, z, 1) /\ r = Append(e, c)
      BY <1>2, <2>3, ResponseSent
    <3> QED
      BY <2>3, <3>1 DEF Answer
  <2>10. Asked(u, b)
    BY <1>7, <2>2, ToldKept
  <2> QED
    BY <1>8, <2>3, <2>8, <2>9, <2>10 DEF Told
<1>10. CASE phase' = "response" /\ pretry' = 0
  BY <1>8, <1>10 DEF ListenInv
<1>11. CASE phase' = "silent" \/ (phase' = "free" /\ code' = "EBUS_ERR_TRANSMIT")
  BY <1>11 DEF ListenInv
<1> QED
  BY <1>3, <1>9, <1>10, <1>11

\* The SYN that ends the telegram lets the listener parse what it has.
LEMMA SynHeard ==
  ASSUME ExchangeTypeInv, NEW end, Syn(end)
  PROVE  listener' = MonitorByte(listener, seq_syn)
<1> DEFINE syn == <<seq_syn>>
<1>1. /\ syn \in Seq(Byte) /\ syn # <<>> /\ Front(syn) = <<>> /\ Last(syn) = seq_syn
      /\ listener' = heard[syn]
  <2>1. seq_syn \in Byte
    BY DEF seq_syn, Byte
  <2> QED
    BY <2>1 DEF Front, Last, Syn, Heard
<1> HIDE DEF syn
<1>2. <<>> \in Seq(Byte) /\ listener \in Listeners
  BY EmptySeq DEF ExchangeTypeInv
<1>3. heard[<<>>] = listener
  BY <1>2, HeardDef
<1>4. heard[syn] = MonitorByte(heard[Front(syn)], Last(syn))
  BY <1>1, <1>2, HeardDef
<1> QED
  BY <1>1, <1>3, <1>4

LEMMA ListenFree ==
  ASSUME ExchangeTypeInv, AcceptedInv, ListenInv, FreeBus
  PROVE  ListenInv'
<1>1. phase = "free" /\ phase' \in {"done", "late"} /\ UNCHANGED <<tel, code, pretry, exact>>
  BY DEF FreeBus, Syn
<1> SUFFICES ASSUME exact, code = "SEQ_OK", pretry = 1 PROVE listener'.published # {}
  BY <1>1 DEF ListenInv, DeliveredIsPublished, OkHeard
<1> DEFINE s == listener.m_sequence
           p == MasterBytes(tel)
<1>2. HasMaster(tel, p)
  BY <1>1 DEF AcceptedInv, Locked
<1>3. Told(tel, s)
  BY <1>1 DEF ListenInv
<1>4. s = listener.m_sequence
  OBVIOUS
<1> HIDE DEF s, p
<1>5. s # <<>> /\ IsValid(Parse(Received(s)))
  BY <1>2, <1>3, ToldValid
<1>6. listener' = MonitorByte(listener, seq_syn)
  BY SynHeard DEF FreeBus
<1> QED
  BY <1>4, <1>5, <1>6 DEF MonitorByte

LEMMA ListenGenerator ==
  ASSUME AcceptedInv, GeneratorSyn
  PROVE  ListenInv'
<1>1. phase = "silent" /\ phase' \in {"done", "late"} /\ code # "SEQ_OK"
  BY DEF GeneratorSyn, Syn, AcceptedInv
<1>2. code' # "SEQ_OK"
  BY <1>1 DEF GeneratorSyn
<1> QED
  BY <1>1, <1>2 DEF ListenInv, DeliveredIsPublished, OkHeard

LEMMA ListenNext ==
  ASSUME CleanExchange
  PROVE  ExchangeTypeInv /\ AcceptedInv /\ LateInv /\ ListenInv /\ [Next]_vars => ListenInv'
<1> SUFFICES ASSUME ExchangeTypeInv, AcceptedInv, LateInv, ListenInv, [Next]_vars PROVE ListenInv'
  OBVIOUS
<1>1. CASE UNCHANGED vars
  BY <1>1 DEF vars, sender, addressee, bus, ListenInv, Again, ResponsePart, DeliveredIsPublished, OkHeard
<1>2. CASE Over
  BY <1>1, <1>2 DEF Over
<1>3. CASE LateSyn
  <2>1. phase = "late" /\ UNCHANGED <<phase, code, pretry, listener, exact>>
    BY <1>3 DEF LateSyn, bus
  <2> QED
    BY <2>1 DEF ListenInv
<1>4. ASSUME NEW responding \in BOOLEAN, MasterLate(responding) PROVE ListenInv'
  <2>1. phase = "late" /\ phase' = "done" /\ UNCHANGED <<code, pretry, listener, exact, deceived>>
    BY <1>4 DEF MasterLate, sender, bus
  <2> QED
    BY <2>1 DEF ListenInv, DeliveredIsPublished, OkHeard
<1>5. CASE ResponseLate
  <2>1. phase = "late" /\ phase' = "done" /\ seq # <<>> /\ deceived' = deceived
    BY <1>5 DEF ResponseLate, ResponseFilled, bus
  <2>2. deceived' = "sender"
    BY <2>1 DEF LateInv
  <2> QED
    BY <2>1, <2>2 DEF ListenInv, DeliveredIsPublished, OkHeard
<1> QED
  BY <1>1, <1>2, <1>3, <1>4, <1>5, ListenLock, ListenMissed, ListenReceived, ListenAnswers, ListenUnread,
     ListenResponse, ListenEnd, ListenFree, ListenGenerator DEF Next

\* A listener that has heard every part as it was sent publishes a telegram
\* for which transmit() returned SEQ_OK, if its response was not repeated.
THEOREM DeliveryPublished ==
  ASSUME CleanExchange PROVE Spec => []DeliveredIsPublished
<1>1. ExchangeTypeInv /\ AcceptedInv /\ LateInv /\ ListenInv /\ [Next]_vars => ListenInv'
  BY ListenNext
<1>2. ListenInv => DeliveredIsPublished
  BY DEF ListenInv, DeliveredIsPublished, OkHeard
<1> QED
  BY <1>1, <1>2, ListenInit, TypeInvariant, AcceptedInvariant, PTL DEF Spec

-----------------------------------------------------------------------------
(* What parse() makes of a telegram that is not complete.                  *)

\* The part that was taken.
LEMMA MasterTakesBytes ==
  ASSUME NEW x, NEW p, NEW type, MasterIs(x, p, type), NEW t \in Telegrams, NEW v, v = TakeMaster(t, x)
  PROVE  Reduce(v.m_master) = Plain(p)
<1> DEFINE n == 5 + x[5]
           q == SubSeq(x, 1, n)
<1>1. PICK e, c : Sent(e, c, p, 5) /\ x = Append(p, c)
  BY DEF MasterIs
<1>2. p \in Seq(Byte) /\ c \in Byte
  BY <1>1 DEF Sent
<1>3. x[5] = p[5] /\ Len(p) = n
  BY MasterBytesOf
<1>4. n = Len(p)
  BY <1>3
<1>5. q = SubSeq(x, 1, n) /\ Taking(x, 5, n, q)
  BY DEF Taking, MasterIs
<1> HIDE DEF n, q
<1>6. SubSeq(x, 1, n) = p
  BY <1>1, <1>2, <1>4, TakenCrc
<1>7. v.m_masterState = "OK"
  BY MasterTakes
<1>8. HeldMaster(v, x, n, q)
  BY <1>5, <1>7, MasterTaken
<1> QED
  BY <1>5, <1>6, <1>8 DEF HeldMaster

LEMMA SlaveTakesBytes ==
  ASSUME NEW x, NEW p, SlaveIs(x, p), NEW t \in Telegrams, NEW v, v = TakeSlave(t, x)
  PROVE  Reduce(v.m_slave) = Plain(p) /\ v.m_master = t.m_master
<1> DEFINE n == 1 + x[1]
           q == SubSeq(x, 1, n)
<1>1. PICK e, c : Sent(e, c, p, 1) /\ x = Append(p, c)
  BY DEF SlaveIs
<1>2. p \in Seq(Byte) /\ c \in Byte
  BY <1>1 DEF Sent
<1>3. x[1] = p[1] /\ Len(p) = n
  BY SlaveBytesOf
<1>4. n = Len(p)
  BY <1>3
<1>5. q = SubSeq(x, 1, n) /\ Taking(x, 1, n, q)
  BY DEF Taking, SlaveIs
<1> HIDE DEF n, q
<1>6. SubSeq(x, 1, n) = p
  BY <1>1, <1>2, <1>4, TakenCrc
<1>7. v.m_slaveState = "OK"
  BY SlaveTakes
<1>8. HeldSlave(v, x, n, q)
  BY <1>5, <1>7, SlaveTaken
<1>9. Plain(x) \in SeqObjects /\ v = CreateSlave(t, Plain(x))
  BY PlainTyped DEF SlaveIs, CreateSlave, Reduce, Plain
<1>10. v.m_master = t.m_master
  BY <1>9, OtherPart
<1> QED
  BY <1>5, <1>6, <1>8, <1>10 DEF HeldSlave

\* What createMaster() takes is the beginning of the bytes.
LEMMA ParseMasterTakes ==
  ASSUME NEW x, NEW p, NEW type, MasterIs(x, p, type), NEW y \in Seq(Byte),
         NEW b, b = Cat(x, y), NEW t
  PROVE  ParseMaster(t, b) = TakeMaster(t, x)
<1> DEFINE k == p[5]
<1>1. /\ x \in Seq(Byte) /\ k \in 0..16 /\ Len(x) = 6 + k /\ x[5] = k
      /\ IsMaster(x[1]) /\ IsAddressValid(x[2]) /\ type = TelegramType(x[2])
  BY MasterBytesOf
<1>2. k = p[5]
  OBVIOUS
<1> HIDE DEF k
<1>3. x \in Seq(Byte)
  BY <1>1
<1>4. /\ b \in Seq(Byte) /\ Len(b) \in Nat /\ Len(x) <= Len(b)
      /\ SubSeq(b, 1, Len(x)) = x /\ \A i \in 1..Len(x) : b[i] = x[i]
  BY ONLY <1>3, y \in Seq(Byte), b = Cat(x, y), Beginning
<1>5. b[1] = x[1] /\ b[2] = x[2] /\ b[5] = k
  <2>1. 1 \in 1..Len(x) /\ 2 \in 1..Len(x) /\ 5 \in 1..Len(x)
    BY <1>1
  <2> QED
    BY <1>1, <1>4, <2>1
<1>6. HeaderError(b) = "OK"
  <2>1. ~(Len(b) < 6) /\ ~(b[5] > seq_max_bytes)
    BY <1>1, <1>4, <1>5 DEF seq_max_bytes
  <2> QED
    BY <1>1, <1>5, <2>1 DEF HeaderError
<1>7. MasterPartError(b) = "OK"
  <2>1. ~(Len(b) < 6 + b[5])
    BY <1>1, <1>4, <1>5
  <2> QED
    BY <1>6, <2>1 DEF MasterPartError, First
<1>8. SubSeq(b, 1, 6 + b[5]) = x
  <2>1. 6 + b[5] = Len(x)
    BY <1>1, <1>5
  <2> QED
    BY <1>4, <2>1
<1> QED
  BY <1>7, <1>8 DEF ParseMaster

LEMMA ParseSlaveTakes ==
  ASSUME NEW x, NEW p, SlaveIs(x, p), NEW y \in Seq(Byte), NEW b, b = Cat(x, y), NEW t
  PROVE  ParseSlave(t, b) = TakeSlave(t, x)
<1> DEFINE k == p[1]
<1>1. x \in Seq(Byte) /\ k \in 0..16 /\ Len(x) = 2 + k /\ x[1] = k
  BY SlaveBytesOf
<1>2. k = p[1]
  OBVIOUS
<1> HIDE DEF k
<1>3. x \in Seq(Byte)
  BY <1>1
<1>4. /\ b \in Seq(Byte) /\ Len(b) \in Nat /\ Len(x) <= Len(b)
      /\ SubSeq(b, 1, Len(x)) = x /\ \A i \in 1..Len(x) : b[i] = x[i]
  BY ONLY <1>3, y \in Seq(Byte), b = Cat(x, y), Beginning
<1>5. b[1] = k
  <2>1. 1 \in 1..Len(x)
    BY <1>1
  <2> QED
    BY <1>1, <1>4, <2>1
<1>6. SlaveError(b) = "OK"
  <2>1. ~(Len(b) < 2) /\ ~(b[1] > seq_max_bytes)
    BY <1>1, <1>4, <1>5 DEF seq_max_bytes
  <2> QED
    BY <2>1 DEF SlaveError
<1>7. SlavePartError(b) = "OK"
  <2>1. ~(Len(b) < 2 + b[1])
    BY <1>1, <1>4, <1>5
  <2> QED
    BY <1>6, <2>1 DEF SlavePartError, First
<1>8. SubSeq(b, 1, 2 + b[1]) = x
  <2>1. 2 + b[1] = Len(x)
    BY <1>1, <1>5
  <2> QED
    BY <1>4, <2>1
<1> QED
  BY <1>7, <1>8 DEF ParseSlave

\* If u is valid, it is the telegram of master part p, with a response of S.
Tells(u, type, p, S) ==
  IsValid(u) => /\ u.m_type = type /\ Reduce(u.m_master) = Plain(p)
                /\ type = "MS" => \E q \in S : Reduce(u.m_slave) = Plain(q)

\* z, in the place of the response, makes it so.
Leads(type, p, z, S) ==
  /\ z \in Seq(Byte)
  /\ \A t \in Telegrams :
       t.m_masterState = "OK" /\ t.m_type = type /\ Reduce(t.m_master) = Plain(p)
         => Tells(ParseResponse(t, z), type, p, S)

LEMMA MasterLeads ==
  ASSUME NEW p, NEW S, NEW z \in Seq(Byte) PROVE Leads("MM", p, z, S)
BY DEF Leads, Tells, ParseResponse

LEMMA EmptyErrors == SlavePartError(<<>>) = "SHORT" /\ MasterPartError(<<>>) = "SHORT"
<1>1. Len(<<>>) < 2 /\ Len(<<>>) < 6
  OBVIOUS
<1> QED
  BY <1>1 DEF SlavePartError, SlaveError, MasterPartError, HeaderError, First

\* No response.
LEMMA NothingLeads ==
  ASSUME NEW p, NEW S PROVE Leads("MS", p, <<>>, S)
<1>1. ASSUME NEW t \in Telegrams PROVE ~IsValid(ParseResponse(t, <<>>)) \/ t.m_type # "MS"
  <2>1. ParseSlave(t, <<>>) = [t EXCEPT !.m_slaveState = "SHORT"]
    BY EmptyErrors DEF ParseSlave
  <2> DEFINE v == ParseSlave(t, <<>>)
  <2>2. v.m_slaveState = "SHORT" /\ v.m_type = t.m_type
    BY <2>1 DEF Telegrams
  <2>3. t.m_type = "MS" => ParseResponse(t, <<>>) = v
    BY <2>2 DEF ParseResponse, SlaveParsed
  <2> HIDE DEF v
  <2> QED
    BY <2>2, <2>3 DEF IsValid
<1>2. <<>> \in Seq(Byte)
  BY EmptySeq
<1> QED
  BY <1>1, <1>2 DEF Leads, Tells

\* A response, and what becomes of it.
LEMMA ResponseTaken ==
  ASSUME NEW x, NEW q, SlaveIs(x, q), NEW y \in Seq(Byte), NEW z, z = Cat(x, y),
         NEW t \in Telegrams, t.m_masterState = "OK", NEW v, v = ParseSlave(t, z)
  PROVE  /\ v \in Telegrams /\ v.m_slaveState = "OK" /\ v.m_masterState = "OK"
         /\ v.m_type = t.m_type /\ v.m_master = t.m_master /\ Reduce(v.m_slave) = Plain(q)
         /\ v.m_slaveNN \in Nat /\ v.m_slaveNN + 2 = Len(x)
<1>1. /\ v \in Telegrams /\ v.m_slaveState = "OK" /\ v.m_slaveNN + 2 = Len(x)
      /\ v.m_masterState = "OK" /\ v.m_type = t.m_type
  BY ParseSlaveSent
<1>2. v = TakeSlave(t, x)
  BY ParseSlaveTakes
<1>3. Reduce(v.m_slave) = Plain(q) /\ v.m_master = t.m_master
  BY <1>2, SlaveTakesBytes
<1>4. v.m_slaveNN \in Nat
  BY <1>1 DEF Telegrams, seq_max_bytes
<1> QED
  BY <1>1, <1>3, <1>4

\* It is not acknowledged.
LEMMA UnheardLeads ==
  ASSUME NEW p, NEW S, NEW x, NEW q, SlaveIs(x, q) PROVE Leads("MS", p, x, S)
<1>1. x \in Seq(Byte) /\ Len(x) \in Nat
  BY LenProperties DEF SlaveIs
<1>2. ASSUME NEW t \in Telegrams, t.m_masterState = "OK", t.m_type = "MS"
      PROVE  ~IsValid(ParseResponse(t, x))
  <2> DEFINE v == ParseSlave(t, x)
             w == ParseMasterACK(v, x)
             none == <<>>
  <2>1. x = Cat(x, none) /\ none \in Seq(Byte) /\ v = ParseSlave(t, x) /\ w = ParseMasterACK(v, x)
    BY <1>1, CatEmpty, EmptySeq
  <2> HIDE DEF v, w, none
  <2>2. /\ v \in Telegrams /\ v.m_slaveState = "OK" /\ v.m_masterState = "OK" /\ v.m_type = "MS"
        /\ v.m_slaveNN \in Nat /\ v.m_slaveNN + 2 = Len(x)
    BY <1>2, <2>1, ResponseTaken
  <2>3. Len(x) < v.m_slaveNN + 3
    BY <1>1, <2>2
  <2>4. w = [v EXCEPT !.m_masterState = "ACK_MISS"]
    BY <2>1, <2>3 DEF ParseMasterACK
  <2>5. w.m_masterState = "ACK_MISS"
    BY <2>2, <2>4 DEF Telegrams
  <2>6. ParseResponse(t, x) = w
    BY <1>2, <2>1, <2>2, <2>5 DEF ParseResponse, SlaveParsed, Response
  <2> QED
    BY <2>5, <2>6 DEF IsValid
<1>3. ASSUME NEW t \in Telegrams, t.m_masterState = "OK", t.m_type = "MS"
      PROVE  Tells(ParseResponse(t, x), "MS", p, S)
  BY <1>2, <1>3 DEF Tells
<1> QED
  BY <1>1, <1>3 DEF Leads

\* It is acknowledged, or refused.
LEMMA AnsweredLeads ==
  ASSUME NEW p, NEW x, NEW q, SlaveIs(x, q), NEW ack \in {seq_ack, seq_nak},
         NEW z, z = Cat(x, <<ack>>)
  PROVE  Leads("MS", p, z, IF ack = seq_ack THEN {q} ELSE {})
<1> DEFINE a == <<ack>>
           none == <<>>
<1>1. /\ x \in Seq(Byte) /\ Len(x) \in Nat /\ a \in Seq(Byte) /\ ack \in Byte /\ none \in Seq(Byte)
      /\ z = Cat(x, a) /\ a = Cat(<<ack>>, none)
  <2>1. x \in Seq(Byte) /\ Len(x) \in Nat
    BY LenProperties DEF SlaveIs
  <2>2. a \in Seq(Byte) /\ ack \in Byte /\ z = Cat(x, a)
    BY ACKReduced DEF seq_ack, seq_nak, Byte
  <2>3. none \in Seq(Byte)
    BY EmptySeq
  <2>4. a = Cat(a, none)
    BY <2>2, CatEmpty
  <2> QED
    BY <2>1, <2>2, <2>3, <2>4
<1> HIDE DEF a, none
<1>2. z \in Seq(Byte)
  BY <1>1, CatTyped
<1>3. Len(z) = Len(x) + 1
  <2>1. Len(<<ack>>) = 1 /\ <<ack>> \in Seq(Byte)
    BY <1>1
  <2>2. Len(x \o <<ack>>) = Len(x) + Len(<<ack>>)
    BY <1>1, <2>1, ConcatProperties
  <2> QED
    BY <2>1, <2>2 DEF Cat
<1>4. ASSUME NEW t \in Telegrams, t.m_masterState = "OK", t.m_type = "MS", Reduce(t.m_master) = Plain(p)
      PROVE  Tells(ParseResponse(t, z), "MS", p, IF ack = seq_ack THEN {q} ELSE {})
  <2> DEFINE v == ParseSlave(t, z)
             w == ParseMasterACK(v, z)
             n == Len(x) + 1
  <2>1. v = ParseSlave(t, z) /\ w = ParseMasterACK(v, z) /\ n = Len(x) + 1
    OBVIOUS
  <2> HIDE DEF v, w, n
  <2>2. /\ v \in Telegrams /\ v.m_slaveState = "OK" /\ v.m_masterState = "OK"
        /\ v.m_type = "MS" /\ v.m_master = t.m_master /\ Reduce(v.m_slave) = Plain(q)
        /\ v.m_slaveNN \in Nat /\ v.m_slaveNN + 2 = Len(x)
    BY <1>1, <1>4, <2>1, ResponseTaken
  <2>3. v.m_slaveNN + 3 = n
    BY <2>1, <2>2
  <2>4. ~(Len(z) < n) /\ z[n] = ack
    <3>1. x \in Seq(Byte)
      BY <1>1
    <3>2. ack \in Byte
      BY <1>1
    <3>3. none \in Seq(Byte)
      BY <1>1
    <3>4. z = Cat(x, Cat(<<ack>>, none))
      BY <1>1
    <3>5. n = Len(x) + 1
      BY <2>1
    <3> QED
      BY ONLY <3>1, <3>2, <3>3, <3>4, <3>5, NextByte
  <2>5. w = [v EXCEPT !.m_masterACK = ack, !.m_masterState = "OK"]
    BY <2>1, <2>2, <2>3, <2>4 DEF ParseMasterACK, ACKError
  <2>6. /\ w.m_masterACK = ack /\ w.m_masterState = "OK" /\ w.m_slaveState = "OK" /\ w.m_type = "MS"
        /\ w.m_master = t.m_master /\ w.m_slave = v.m_slave /\ w.m_slaveNN = v.m_slaveNN
    BY <2>2, <2>5 DEF Telegrams
  <2>7. ParseResponse(t, z) = Response(w, z)
    BY <1>4, <2>1, <2>2 DEF ParseResponse, SlaveParsed
  <2>8. CASE ack = seq_ack
    <3>1. Response(w, z) = w
      BY <2>6, <2>8 DEF Response
    <3> QED
      BY <1>4, <2>2, <2>6, <2>7, <2>8, <3>1 DEF Tells
  <2>9. CASE ack # seq_ack
    <3>1. Len(z) < w.m_slaveNN + 4
      BY <1>1, <1>3, <2>2, <2>6
    <3>2. Response(w, z) = [w EXCEPT !.m_slaveState = "SHORT"]
      BY <2>6, <2>9, <3>1 DEF Response
    <3>3. /\ [w EXCEPT !.m_slaveState = "SHORT"].m_slaveState = "SHORT"
          /\ [w EXCEPT !.m_slaveState = "SHORT"].m_type = "MS"
      BY <2>2, <2>5 DEF Telegrams
    <3> QED
      BY <2>7, <3>2, <3>3 DEF Tells, IsValid
  <2> QED
    BY <2>8, <2>9
<1> QED
  BY <1>2, <1>4 DEF Leads

\* What follows the master part: nothing, a refusal, or an acknowledge and z.
Follows(type, p, y, S) ==
  \/ y = <<>> \/ y = <<seq_nak>>
  \/ \E z : Leads(type, p, z, S) /\ y = Cat(<<seq_ack>>, z)

LEMMA FollowsTyped ==
  ASSUME NEW type, NEW p, NEW S, NEW y, Follows(type, p, y, S) PROVE y \in Seq(Byte)
<1>1. <<>> \in Seq(Byte) /\ <<seq_nak>> \in Seq(Byte)
  BY ACKReduced, EmptySeq
<1>2. ASSUME NEW z, Leads(type, p, z, S) PROVE Cat(<<seq_ack>>, z) \in Seq(Byte)
  BY <1>2, ACKReduced, CatTyped DEF Leads
<1> QED
  BY <1>1, <1>2 DEF Follows

\* An acknowledge byte changes neither the part nor its type.
LEMMA ACKLeaves ==
  ASSUME NEW t \in Telegrams, NEW b, NEW w, w = ParseSlaveACK(t, b)
  PROVE  w.m_master = t.m_master /\ w.m_type = t.m_type /\ w.m_masterState = t.m_masterState
BY DEF ParseSlaveACK, Telegrams

\* It is missing.
LEMMA ACKMissing ==
  ASSUME NEW v, NEW x \in Seq(Byte), NEW type, TookMaster(v, x, type), NEW w, w = ParseSlaveACK(v, x)
  PROVE  w.m_slaveState = "ACK_MISS" /\ w.m_masterState = "OK" /\ w.m_type = type
<1>1. v \in Telegrams /\ v.m_masterState = "OK" /\ v.m_masterNN + 6 = Len(x) /\ v.m_type = type
  BY DEF TookMaster
<1>2. v.m_masterNN \in Nat /\ Len(x) \in Nat
  BY <1>1, LenProperties DEF Telegrams, seq_max_bytes
<1>3. Len(x) < v.m_masterNN + 7
  BY <1>1, <1>2
<1>4. w = [v EXCEPT !.m_slaveState = "ACK_MISS"]
  BY <1>3 DEF ParseSlaveACK
<1> QED
  BY <1>1, <1>4 DEF Telegrams

\* t is as it is after x was read as its master part p, at the beginning of b.
LEMMA MasterIsFound ==
  ASSUME NEW x, NEW p, NEW type, MasterIs(x, p, type), NEW y \in Seq(Byte), NEW b, b = Cat(x, y),
         NEW t \in Telegrams, t.m_slaveState = "EMPTY", NEW v, v = ParseMaster(t, b),
         NEW w, w = ParseSlaveACK(v, b)
  PROVE  /\ TookMaster(v, x, type) /\ Reduce(v.m_master) = Plain(p)
         /\ w.m_master = v.m_master /\ w.m_type = type /\ w.m_masterState = "OK"
<1>1. TookMaster(v, x, type)
  BY MasterParsedHere
<1>2. v = TakeMaster(t, x)
  BY ParseMasterTakes
<1>3. Reduce(v.m_master) = Plain(p)
  BY <1>2, MasterTakesBytes
<1>4. v \in Telegrams /\ v.m_type = type /\ v.m_masterState = "OK"
  BY <1>1 DEF TookMaster
<1>5. w.m_master = v.m_master /\ w.m_type = v.m_type /\ w.m_masterState = v.m_masterState
  BY <1>4, ACKLeaves
<1> QED
  BY <1>1, <1>3, <1>4, <1>5

LEMMA BroadcastTold ==
  ASSUME NEW x, NEW p, MasterIs(x, p, "BC"), NEW S
  PROVE  Tells(ParseBytes(x), "BC", p, S)
<1> DEFINE v == ParseMaster(NoTelegram, x)
           w == ParseSlaveACK(v, x)
           none == <<>>
<1>1. x \in Seq(Byte) /\ x = Cat(x, none) /\ none \in Seq(Byte)
  BY CatEmpty, EmptySeq DEF MasterIs
<1>2. NoTelegram.m_slaveState = "EMPTY" /\ v = ParseMaster(NoTelegram, x) /\ w = ParseSlaveACK(v, x)
  BY DEF NoTelegram
<1> HIDE DEF none, v, w
<1>3. TookMaster(v, x, "BC") /\ Reduce(v.m_master) = Plain(p)
  BY <1>1, <1>2, NoTelegramTyped, MasterIsFound
<1>4. ParseBytes(x) = v
  BY <1>2, <1>3 DEF ParseBytes, MasterParsed, TookMaster
<1> QED
  BY <1>3, <1>4 DEF Tells, TookMaster

LEMMA OnceTold ==
  ASSUME NEW x, NEW p, NEW type \in {"MM", "MS"}, MasterIs(x, p, type), NEW S,
         NEW y, Follows(type, p, y, S), NEW b, b = Cat(x, y)
  PROVE  Tells(ParseBytes(b), type, p, S)
<1> DEFINE v == ParseMaster(NoTelegram, b)
           w == ParseSlaveACK(v, b)
<1>1. x \in Seq(Byte) /\ y \in Seq(Byte) /\ NoTelegram.m_slaveState = "EMPTY"
  BY FollowsTyped DEF MasterIs, NoTelegram
<1>2. v = ParseMaster(NoTelegram, b) /\ w = ParseSlaveACK(v, b)
  OBVIOUS
<1> HIDE DEF v, w
<1>3. /\ TookMaster(v, x, type) /\ Reduce(v.m_master) = Plain(p)
      /\ w.m_master = v.m_master /\ w.m_type = type /\ w.m_masterState = "OK"
  BY <1>1, <1>2, NoTelegramTyped, MasterIsFound
<1>4. ParseBytes(b) = Answered(w, b)
  BY <1>2, <1>3 DEF ParseBytes, MasterParsed, TookMaster
<1>5. CASE y = <<>>
  <2>1. b = x
    BY <1>1, <1>5, CatEmpty
  <2>2. w.m_slaveState = "ACK_MISS"
    BY <1>1, <1>2, <1>3, <2>1, ACKMissing
  <2>3. ParseBytes(b) = w
    BY <1>4, <2>2 DEF Answered
  <2> QED
    BY <1>3, <2>2, <2>3 DEF Tells, IsValid
<1>6. CASE y = <<seq_nak>>
  <2> DEFINE none == <<>>
  <2>1. none \in Seq(Byte) /\ <<seq_nak>> \in Seq(Byte) /\ none = <<>>
    BY EmptySeq, ACKReduced
  <2> HIDE DEF none
  <2>2. b = Cat(x, Cat(<<seq_nak>>, none))
    BY <1>6, <2>1, CatEmpty
  <2>3. TookACK(w, b, seq_nak, type, none)
    <3>1. x \in Seq(Byte) /\ none \in Seq(Byte) /\ seq_nak \in {seq_ack, seq_nak}
      BY <1>1, <2>1
    <3>2. w = ParseSlaveACK(v, b)
      BY <1>2
    <3>3. TookMaster(v, x, type)
      BY <1>3
    <3> QED
      BY ONLY <2>2, <3>1, <3>2, <3>3, ACKParsedHere
  <2>4. ParseBytes(b) = ParseMasterAgain(w, <<>>)
    BY <1>4, <2>1, <2>3 DEF Answered, TookACK, seq_ack, seq_nak
  <2> DEFINE u == [w EXCEPT !.m_master = NoBytes]
             f == ParseMaster(u, <<>>)
  <2>5. f = [u EXCEPT !.m_masterState = "SHORT"]
    BY EmptyErrors DEF ParseMaster
  <2>6. f.m_masterState = "SHORT"
    BY <2>3, <2>5 DEF TookACK, Telegrams
  <2>7. ParseMasterAgain(w, <<>>) = f
    BY <2>6 DEF ParseMasterAgain, MasterParsedAgain
  <2> HIDE DEF u, f
  <2> QED
    BY <2>4, <2>6, <2>7 DEF Tells, IsValid
<1>7. ASSUME NEW z, Leads(type, p, z, S), y = Cat(<<seq_ack>>, z)
      PROVE  Tells(ParseBytes(b), type, p, S)
  <2>1. TookACK(w, b, seq_ack, type, z)
    <3>1. x \in Seq(Byte) /\ z \in Seq(Byte) /\ seq_ack \in {seq_ack, seq_nak}
      BY <1>1, <1>7 DEF Leads
    <3>2. w = ParseSlaveACK(v, b)
      BY <1>2
    <3>3. TookMaster(v, x, type)
      BY <1>3
    <3>4. b = Cat(x, Cat(<<seq_ack>>, z))
      BY <1>7
    <3> QED
      BY ONLY <3>1, <3>2, <3>3, <3>4, ACKParsedHere
  <2>2. ParseBytes(b) = ParseResponse(w, z)
    BY <1>4, <2>1 DEF Answered, TookACK
  <2>3. w \in Telegrams /\ w.m_masterState = "OK" /\ w.m_type = type /\ Reduce(w.m_master) = Plain(p)
    BY <1>3, <2>1 DEF TookACK
  <2> QED
    BY <1>7, <2>2, <2>3 DEF Leads
<1> QED
  BY <1>5, <1>6, <1>7 DEF Follows

\* The master part comes once more.
LEMMA AgainTold ==
  ASSUME NEW x, NEW p, NEW type \in {"MM", "MS"}, MasterIs(x, p, type), NEW S,
         NEW y, Follows(type, p, y, S), NEW d, d = Cat(x, y), NEW b, b = Cat(x, Cat(<<seq_nak>>, d))
  PROVE  Tells(ParseBytes(b), type, p, S)
<1> DEFINE v == ParseMaster(NoTelegram, b)
           w == ParseSlaveACK(v, b)
           u == [w EXCEPT !.m_master = NoBytes]
           f == ParseMaster(u, d)
           g == ParseSlaveACK(f, d)
           a == Cat(<<seq_nak>>, d)
<1>1. /\ x \in Seq(Byte) /\ y \in Seq(Byte) /\ NoTelegram.m_slaveState = "EMPTY"
      /\ d \in Seq(Byte) /\ a \in Seq(Byte) /\ b = Cat(x, a)
  <2>1. x \in Seq(Byte) /\ y \in Seq(Byte)
    BY FollowsTyped DEF MasterIs
  <2>2. d \in Seq(Byte)
    BY <2>1, CatTyped
  <2>3. a \in Seq(Byte)
    BY <2>2, ACKReduced, CatTyped
  <2> QED
    BY <2>1, <2>2, <2>3 DEF NoTelegram
<1>2. v = ParseMaster(NoTelegram, b) /\ w = ParseSlaveACK(v, b)
  OBVIOUS
<1>3. f = ParseMaster(u, d) /\ g = ParseSlaveACK(f, d) /\ u = [w EXCEPT !.m_master = NoBytes]
  OBVIOUS
<1> HIDE DEF v, w, u, f, g, a
<1>4. TookMaster(v, x, type)
  BY <1>1, <1>2, NoTelegramTyped, MasterParsedHere
<1>5. TookACK(w, b, seq_nak, type, d)
  <2>1. x \in Seq(Byte) /\ d \in Seq(Byte) /\ seq_nak \in {seq_ack, seq_nak}
    BY <1>1
  <2>2. b = Cat(x, Cat(<<seq_nak>>, d)) /\ w = ParseSlaveACK(v, b)
    BY <1>2
  <2> QED
    BY ONLY <1>4, <2>1, <2>2, ACKParsedHere
<1>6. u \in Telegrams /\ u.m_slaveState = "EMPTY"
  BY <1>3, <1>5, EmptySeq DEF TookACK, Telegrams, SeqObjects, NoBytes, Plain
<1>7. /\ TookMaster(f, x, type) /\ Reduce(f.m_master) = Plain(p)
      /\ g.m_master = f.m_master /\ g.m_type = type /\ g.m_masterState = "OK"
  <2>1. f = ParseMaster(u, d) /\ d = Cat(x, y) /\ y \in Seq(Byte) /\ g = ParseSlaveACK(f, d)
    BY <1>1, <1>3
  <2> QED
    BY ONLY <1>6, <2>1, MasterIs(x, p, type), MasterIsFound
<1>8. ParseBytes(b) = AnsweredAgain(g, d)
  <2>1. ParseBytes(b) = ParseMasterAgain(w, d)
    BY <1>2, <1>4, <1>5 DEF ParseBytes, MasterParsed, Answered, seq_ack, seq_nak, TookMaster, TookACK
  <2>2. ParseMasterAgain(w, d) = AnsweredAgain(g, d)
    BY <1>3, <1>7 DEF ParseMasterAgain, MasterParsedAgain, TookMaster
  <2> QED
    BY <2>1, <2>2
<1>9. CASE y = <<>>
  <2>1. d = x
    BY <1>1, <1>9, CatEmpty
  <2>2. g.m_slaveState = "ACK_MISS"
    BY <1>1, <1>3, <1>7, <2>1, ACKMissing
  <2>3. ParseBytes(b) = g
    BY <1>8, <2>2 DEF AnsweredAgain
  <2> QED
    BY <1>7, <2>2, <2>3 DEF Tells, IsValid
<1>10. CASE y = <<seq_nak>>
  <2> DEFINE none == <<>>
  <2>1. none \in Seq(Byte) /\ <<seq_nak>> \in Seq(Byte)
    BY EmptySeq, ACKReduced
  <2> HIDE DEF none
  <2>2. d = Cat(x, Cat(<<seq_nak>>, none))
    BY <1>10, <2>1, CatEmpty DEF none
  <2>3. TookACK(g, d, seq_nak, type, none)
    <3>1. x \in Seq(Byte) /\ none \in Seq(Byte) /\ seq_nak \in {seq_ack, seq_nak}
      BY <1>1, <2>1
    <3>2. g = ParseSlaveACK(f, d)
      BY <1>3
    <3>3. TookMaster(f, x, type)
      BY <1>7
    <3> QED
      BY ONLY <2>2, <3>1, <3>2, <3>3, ACKParsedHere
  <2> DEFINE e == IF Len(d) > g.m_masterNN + 7 THEN "LONG" ELSE "INVALID"
             h == [g EXCEPT !.m_masterState = e]
  <2>4. e \in {"LONG", "INVALID"}
    OBVIOUS
  <2>5. ParseBytes(b) = h
    BY <1>8, <2>3 DEF AnsweredAgain, TookACK, seq_ack, seq_nak
  <2> HIDE DEF e
  <2>6. h.m_masterState = e
    BY <2>3 DEF TookACK, Telegrams
  <2> HIDE DEF h
  <2> QED
    BY <2>4, <2>5, <2>6 DEF Tells, IsValid
<1>11. ASSUME NEW z, Leads(type, p, z, S), y = Cat(<<seq_ack>>, z)
      PROVE  Tells(ParseBytes(b), type, p, S)
  <2>1. TookACK(g, d, seq_ack, type, z)
    <3>1. x \in Seq(Byte) /\ z \in Seq(Byte) /\ seq_ack \in {seq_ack, seq_nak}
      BY <1>1, <1>11 DEF Leads
    <3>2. g = ParseSlaveACK(f, d)
      BY <1>3
    <3>3. TookMaster(f, x, type)
      BY <1>7
    <3>4. d = Cat(x, Cat(<<seq_ack>>, z))
      BY <1>11
    <3> QED
      BY ONLY <3>1, <3>2, <3>3, <3>4, ACKParsedHere
  <2>2. ParseBytes(b) = ParseResponse(g, z)
    BY <1>8, <2>1 DEF AnsweredAgain, TookACK
  <2>3. g \in Telegrams /\ g.m_masterState = "OK" /\ g.m_type = type /\ Reduce(g.m_master) = Plain(p)
    BY <1>7, <2>1 DEF TookACK
  <2> QED
    BY <1>11, <2>2, <2>3 DEF Leads
<1> QED
  BY <1>9, <1>10, <1>11 DEF Follows

\* What was heard after the master part, with the responses S acknowledged.
Rest(type, y, S) ==
  \/ y \in {<<>>, <<seq_nak>>, <<seq_ack>>}
  \/ /\ type = "MS"
     /\ \E e, c, q : /\ Sent(e, c, q, 1)
                     /\ \/ y = Cat(<<seq_ack>>, Append(e, c))
                        \/ y = Cat(<<seq_ack>>, Cat(Append(e, c), <<seq_nak>>))
                        \/ y = Cat(<<seq_ack>>, Cat(Append(e, c), <<seq_ack>>)) /\ q \in S

LEMMA LeadsMore ==
  ASSUME NEW type, NEW p, NEW z, NEW S, NEW T, S \subseteq T, Leads(type, p, z, S)
  PROVE  Leads(type, p, z, T)
<1>1. \A u : Tells(u, type, p, S) => Tells(u, type, p, T)
  BY DEF Tells
<1> QED
  BY <1>1 DEF Leads

\* z is what an acknowledge and y leave.
LEMMA ACKThen ==
  ASSUME NEW y \in Seq(Byte), NEW s, s = Cat(<<seq_ack>>, y)
  PROVE  s \in Seq(Byte) /\ reduced[s] = Cat(<<seq_ack>>, reduced[y])
<1> DEFINE a == <<seq_ack>>
<1>1. a \in Seq(Byte) /\ reduced[a] = a /\ Ended(a)
  BY ACKReduced
<1> HIDE DEF a
<1>2. Cat(a, y) \in Seq(Byte) /\ reduced[Cat(a, y)] = Cat(a, reduced[y])
  BY <1>1, CatTyped, CatReduced
<1> QED
  BY <1>2 DEF a

LEMMA RestFollows ==
  ASSUME NEW type \in {"MM", "MS"}, NEW p, NEW S, NEW y, Rest(type, y, S)
  PROVE  y \in Seq(Byte) /\ Follows(type, p, reduced[y], S)
<1>1. CASE y = <<>>
  <2>1. <<>> \in Seq(Byte) /\ reduced[<<>>] = <<>>
    BY EmptySeq, ReducedBytes
  <2> QED
    BY <1>1, <2>1 DEF Follows
<1>2. CASE y = <<seq_nak>>
  <2>1. <<seq_nak>> \in Seq(Byte) /\ reduced[<<seq_nak>>] = <<seq_nak>>
    BY ACKReduced
  <2> QED
    BY <1>2, <2>1 DEF Follows
<1>3. CASE y = <<seq_ack>>
  <2> DEFINE none == <<>>
  <2>1. <<seq_ack>> \in Seq(Byte) /\ reduced[<<seq_ack>>] = <<seq_ack>> /\ none \in Seq(Byte)
    BY ACKReduced, EmptySeq
  <2>2. Leads(type, p, none, S)
    BY <2>1, NothingLeads, MasterLeads
  <2> HIDE DEF none
  <2>3. Cat(<<seq_ack>>, none) = <<seq_ack>>
    BY <2>1, CatEmpty DEF none
  <2> QED
    BY <1>3, <2>1, <2>2, <2>3 DEF Follows
<1>4. ASSUME type = "MS", NEW e, NEW c, NEW q, Sent(e, c, q, 1),
             \/ y = Cat(<<seq_ack>>, Append(e, c))
             \/ y = Cat(<<seq_ack>>, Cat(Append(e, c), <<seq_nak>>))
             \/ y = Cat(<<seq_ack>>, Cat(Append(e, c), <<seq_ack>>)) /\ q \in S
      PROVE  y \in Seq(Byte) /\ Follows(type, p, reduced[y], S)
  <2> DEFINE r == Append(e, c)
             x == reduced[r]
  <2>1. r = Append(e, c) /\ x = reduced[r]
    OBVIOUS
  <2>2. r \in Seq(Byte) /\ Ended(r) /\ SlaveIs(x, q)
    BY <1>4, SentSlave
  <2>3. \/ y = Cat(<<seq_ack>>, r)
        \/ y = Cat(<<seq_ack>>, Cat(r, <<seq_nak>>))
        \/ y = Cat(<<seq_ack>>, Cat(r, <<seq_ack>>)) /\ q \in S
    BY <1>4
  <2> HIDE DEF r, x
  <2>4. ASSUME NEW ack \in {seq_ack, seq_nak}
        PROVE  /\ Cat(r, <<ack>>) \in Seq(Byte) /\ reduced[Cat(r, <<ack>>)] = Cat(x, <<ack>>)
               /\ Leads(type, p, Cat(x, <<ack>>), IF ack = seq_ack THEN {q} ELSE {})
    <3> DEFINE a == <<ack>>
    <3>1. a \in Seq(Byte) /\ reduced[a] = a
      BY ACKReduced
    <3> HIDE DEF a
    <3>2. Cat(r, a) \in Seq(Byte) /\ reduced[Cat(r, a)] = Cat(x, a)
      BY <2>1, <2>2, <3>1, CatTyped, CatReduced
    <3>3. Leads(type, p, Cat(x, <<ack>>), IF ack = seq_ack THEN {q} ELSE {})
      BY <1>4, <2>2, AnsweredLeads
    <3> QED
      BY <3>2, <3>3 DEF a
  <2>5. ASSUME NEW w \in Seq(Byte), y = Cat(<<seq_ack>>, w), Leads(type, p, reduced[w], S)
        PROVE  y \in Seq(Byte) /\ Follows(type, p, reduced[y], S)
    <3>1. y \in Seq(Byte) /\ reduced[y] = Cat(<<seq_ack>>, reduced[w])
      BY <2>5, ACKThen
    <3> QED
      BY <2>5, <3>1 DEF Follows
  <2>6. CASE y = Cat(<<seq_ack>>, r)
    <3>1. Leads(type, p, reduced[r], S)
      BY <1>4, <2>1, <2>2, UnheardLeads
    <3> QED
      BY <2>2, <2>5, <2>6, <3>1
  <2>7. CASE y = Cat(<<seq_ack>>, Cat(r, <<seq_nak>>))
    <3> DEFINE w == Cat(r, <<seq_nak>>)
    <3>1. w \in Seq(Byte) /\ reduced[w] = Cat(x, <<seq_nak>>) /\ Leads(type, p, Cat(x, <<seq_nak>>), {})
      BY <2>4 DEF seq_ack, seq_nak
    <3>2. Leads(type, p, reduced[w], S)
      BY <3>1, LeadsMore
    <3>3. y = Cat(<<seq_ack>>, w)
      BY <2>7
    <3> HIDE DEF w
    <3> QED
      BY <2>5, <3>1, <3>2, <3>3
  <2>8. CASE y = Cat(<<seq_ack>>, Cat(r, <<seq_ack>>)) /\ q \in S
    <3> DEFINE w == Cat(r, <<seq_ack>>)
    <3>1. w \in Seq(Byte) /\ reduced[w] = Cat(x, <<seq_ack>>) /\ Leads(type, p, Cat(x, <<seq_ack>>), {q})
      BY <2>4
    <3>2. Leads(type, p, reduced[w], S)
      BY <2>8, <3>1, LeadsMore
    <3>3. y = Cat(<<seq_ack>>, w)
      BY <2>8
    <3> HIDE DEF w
    <3> QED
      BY <2>5, <3>1, <3>2, <3>3
  <2> QED
    BY <2>3, <2>6, <2>7, <2>8
<1> QED
  BY <1>1, <1>2, <1>3, <1>4 DEF Rest

\* What may have been heard of a telegram, in the end.
HeardOf(t, s, S) ==
  IF t.m_type = "BC" THEN s = MasterSent(t)
  ELSE \E b, y : Asked(t, b) /\ Rest(t.m_type, y, S) /\ s = Cat(b, y)

LEMMA HeardTells ==
  ASSUME NEW t, NEW p, HasMaster(t, p), NEW S, NEW s, HeardOf(t, s, S)
  PROVE  s \in Seq(Byte) /\ Tells(Parse(Received(s)), t.m_type, p, S)
<1> DEFINE m == MasterSent(t)
           x == reduced[m]
           r == reduced[s]
           type == t.m_type
<1>1. m = MasterSent(t) /\ x = reduced[m] /\ r = reduced[s] /\ type = t.m_type
  OBVIOUS
<1>2. ASSUME s \in Seq(Byte), Tells(ParseBytes(r), type, p, S)
      PROVE  s \in Seq(Byte) /\ Tells(Parse(Received(s)), t.m_type, p, S)
  BY <1>2, ReceivedBytes DEF Parse
<1> HIDE DEF m, x, r, type
<1>3. MasterIs(x, p, type) /\ m \in Seq(Byte) /\ x \in Seq(Byte) /\ type \in {"BC", "MM", "MS"}
  <2>1. MasterIs(x, p, type) /\ m \in Seq(Byte)
    BY <1>1, MasterReduced
  <2> QED
    BY <2>1 DEF MasterIs, TelegramType
<1>4. CASE type = "BC"
  <2>1. s = m /\ r = x
    BY <1>1, <1>4 DEF HeardOf
  <2>2. Tells(ParseBytes(r), type, p, S)
    BY <1>3, <1>4, <2>1, BroadcastTold
  <2> QED
    BY <1>2, <1>3, <2>1, <2>2
<1>5. CASE type # "BC"
  <2>1. PICK b, y : Asked(t, b) /\ Rest(type, y, S) /\ s = Cat(b, y)
    BY <1>1, <1>5 DEF HeardOf
  <2> DEFINE z == reduced[y]
             a == reduced[b]
             nak == <<seq_nak>>
  <2>2. type \in {"MM", "MS"} /\ z = reduced[y] /\ a = reduced[b]
    BY <1>3, <1>5
  <2>3. y \in Seq(Byte) /\ Follows(type, p, z, S)
    BY <2>1, <2>2, RestFollows
  <2>4. nak = <<seq_nak>> /\ nak \in Seq(Byte)
    BY ACKReduced
  <2>5. b \in Seq(Byte) /\ (a = x \/ a = Cat(Cat(x, nak), x)) /\ Ended(b)
    BY <1>1, <2>1, <2>2, AskedReduced
  <2> HIDE DEF z, a, nak
  <2>6. z \in Seq(Byte)
    BY <2>3, FollowsTyped
  <2>7. s \in Seq(Byte) /\ r = Cat(a, z)
    BY <1>1, <2>1, <2>2, <2>3, <2>5, CatTyped, CatReduced
  <2>8. CASE a = x
    <3>1. r = Cat(x, z)
      BY <2>7, <2>8
    <3>2. Tells(ParseBytes(r), type, p, S)
      BY <1>3, <2>2, <2>3, <3>1, OnceTold
    <3> QED
      BY <1>2, <2>7, <3>2
  <2>9. CASE a = Cat(Cat(x, nak), x)
    <3> DEFINE f == Cat(x, nak)
               d == Cat(x, z)
    <3>1. f \in Seq(Byte) /\ f = Cat(x, nak) /\ a = Cat(f, x) /\ d = Cat(x, z) /\ d \in Seq(Byte)
      BY <1>3, <2>4, <2>6, <2>9, CatTyped
    <3> HIDE DEF f, d
    <3>2. Cat(Cat(f, x), z) = Cat(f, d)
      BY <1>3, <2>6, <3>1, CatAssociative
    <3>3. Cat(f, d) = Cat(x, Cat(nak, d))
      <4>1. x \in Seq(Byte) /\ nak \in Seq(Byte) /\ d \in Seq(Byte) /\ f = Cat(x, nak)
        BY <1>3, <2>4, <3>1
      <4> QED
        BY ONLY <4>1, CatAssociative
    <3>4. r = Cat(x, Cat(<<seq_nak>>, d))
      BY <2>4, <2>7, <3>1, <3>2, <3>3
    <3>5. Tells(ParseBytes(r), type, p, S)
      BY <1>3, <2>2, <2>3, <3>1, <3>4, AgainTold
    <3> QED
      BY <1>2, <2>7, <3>5
  <2> QED
    BY <2>5, <2>8, <2>9
<1> QED
  BY <1>4, <1>5

-----------------------------------------------------------------------------
(* What a listener publishes is true.                                      *)

\* A listener that has heard every part as it was sent publishes no telegram
\* but the one that was sent, and a response only if transmit() returned it
\* with SEQ_OK: whatever the reader of a part heard instead, whichever part was
\* refused or is missing.  Only the repeated response is left aside.
HeardIsTrue == exact /\ pretry = 1 => PublishedIsTrue

\* Until the telegram is over nothing is published; then what was heard is a
\* beginning of it, and an acknowledged response is the one that was returned.
TrueInv == exact /\ pretry = 1 =>
  /\ phase \notin {"late", "done"} => listener.published = {}
  /\ phase \in {"free", "silent"} =>
       HeardOf(tel, listener.m_sequence, OnlyIf(code = "SEQ_OK", SlaveBytes(tel)))
  /\ phase \in {"late", "done"} => PublishedIsTrue

\* Only a SYN publishes.
LEMMA StillUnpublished ==
  ASSUME ExchangeTypeInv, NEW part \in Seq(Byte \ {seq_syn}), NEW o, OnBus(part, o), exact'
  PROVE  exact /\ listener'.published = listener.published
<1>1. listener' = heard[o.all] /\ exact /\ o.all = part
  BY DEF OnBus, Heard
<1>2. listener \in Listeners
  BY DEF ExchangeTypeInv
<1>3. listener' = [listener EXCEPT !.m_sequence = Cat(@, part)]
  BY <1>1, <1>2, HeardPart
<1> QED
  BY <1>1, <1>2, <1>3 DEF Listeners

LEMMA TrueInit == Init => TrueInv
BY DEF Init, TrueInv

LEMMA TrueLock ==
  ASSUME ExchangeTypeInv, AcceptedInv, CleanExchange, TrueInv, Lock
  PROVE  TrueInv'
<1> SUFFICES ASSUME exact', pretry' = 1 PROVE TrueInv'
  BY DEF TrueInv
<1>1. phase = "lock" /\ phase' = "master" /\ exact /\ pretry = 1
  BY DEF Lock
<1> QED
  BY <1>1, AddressHeard DEF TrueInv

LEMMA TrueMaster ==
  ASSUME ExchangeTypeInv, AcceptedInv, ListenInv, TrueInv,
         phase = "master", UNCHANGED <<tel, retry, pretry>>,
         NEW o \in Outcomes(MasterPart), OnBus(MasterPart, o),
         NEW answering \in BOOLEAN, SendMessage(answering)
  PROVE  TrueInv'
<1> SUFFICES ASSUME exact', pretry' = 1 PROVE TrueInv'
  BY DEF TrueInv
<1> DEFINE s == listener'.m_sequence
           S == OnlyIf(code' = "SEQ_OK", SlaveBytes(tel'))
           p == MasterBytes(tel)
           type == tel.m_type
<1>1. /\ s = IF Again THEN MasterSent(tel) ELSE Twice(tel)
      /\ tel.m_type = "BC" => Again
  BY MasterListened
<1>2. HasMaster(tel, p) /\ tel' = tel /\ pretry = 1
  BY DEF AcceptedInv, Locked
<1>3. listener'.published = {}
  <2>1. MasterPart \in Seq(Byte \ {seq_syn})
    <3>1. MasterSent(tel) \in Seq(Byte \ {seq_syn}) /\ MasterSent(tel) # <<>>
      BY <1>2, MasterReduced
    <3>2. Tail(MasterSent(tel)) \in Seq(Byte \ {seq_syn})
      BY <3>1, HeadTailProperties
    <3> QED
      BY <3>1, <3>2 DEF MasterPart, MasterSent
  <2>2. exact /\ listener'.published = listener.published
    BY <2>1, StillUnpublished
  <2> QED
    BY <1>2, <2>2 DEF TrueInv
<1>4. s = listener'.m_sequence /\ type = tel.m_type
  OBVIOUS
<1> HIDE DEF s, S, p, type
<1>5. CASE type = "BC"
  <2>1. phase' = "free"
    BY <1>4, <1>5 DEF SendMessage, Ends
  <2>2. HeardOf(tel', s, S)
    BY <1>1, <1>2, <1>4, <1>5 DEF HeardOf
  <2> QED
    BY <1>3, <1>4, <2>1, <2>2 DEF TrueInv, S
<1>6. CASE type # "BC"
  <2>1. phase' \in {"slaveACK", "silent"}
    BY <1>4, <1>6 DEF SendMessage
  <2> DEFINE y == <<>>
             x == reduced[MasterSent(tel)]
  <2>2. Asked(tel, s) /\ Rest(type, y, S) /\ x = reduced[MasterSent(tel)]
    BY <1>1 DEF Asked, Rest
  <2> HIDE DEF x
  <2>3. s \in Seq(Byte)
    BY <1>2, <2>2, AskedReduced
  <2>4. s = Cat(s, y)
    BY <2>3, CatEmpty
  <2> HIDE DEF y
  <2>5. HeardOf(tel', s, S)
    BY <1>2, <1>4, <1>6, <2>2, <2>4 DEF HeardOf
  <2> QED
    BY <1>3, <1>4, <2>1, <2>5 DEF TrueInv, S
<1> QED
  BY <1>5, <1>6

LEMMA TrueMissed ==
  ASSUME ExchangeTypeInv, AcceptedInv, ListenInv, TrueInv, MasterMissed
  PROVE  TrueInv'
<1>1. PICK o \in Outcomes(MasterPart) : OnBus(MasterPart, o)
  BY DEF MasterMissed
<1>2. phase = "master" /\ UNCHANGED <<tel, retry, pretry>> /\ SendMessage(FALSE)
  BY DEF MasterMissed
<1> QED
  BY <1>1, <1>2, TrueMaster

LEMMA TrueReceived ==
  ASSUME ExchangeTypeInv, AcceptedInv, ListenInv, TrueInv, MasterReceived
  PROVE  TrueInv'
<1>1. PICK o \in Outcomes(MasterPart) :
        LET s == m_sequence \o o.reader IN OnBus(MasterPart, o) /\ SendMessage(s[2] # seq_broad)
  BY DEF MasterReceived
<1>2. phase = "master" /\ UNCHANGED <<tel, retry, pretry>>
  BY DEF MasterReceived
<1> DEFINE answering == (m_sequence \o o.reader)[2] # seq_broad
<1>3. OnBus(MasterPart, o) /\ SendMessage(answering) /\ answering \in BOOLEAN
  BY <1>1
<1> HIDE DEF answering
<1> QED
  BY <1>2, <1>3, TrueMaster

LEMMA TrueAnswers ==
  ASSUME ExchangeTypeInv, AcceptedInv, ListenInv, TrueInv,
         NEW responding \in BOOLEAN, SlaveAnswers(responding)
  PROVE  TrueInv'
<1> SUFFICES ASSUME exact', pretry' = 1 PROVE TrueInv'
  BY DEF TrueInv
<1> DEFINE ack == IF ptel.m_masterState = "OK" THEN seq_ack ELSE seq_nak
<1>1. PICK o \in Outcomes(<<ack>>) :
        /\ OnBus(<<ack>>, o)
        /\ ReceiveACK(o.reader[1], responding)
        /\ tel' = [tel EXCEPT !.m_slaveACK = o.reader[1]]
  BY DEF SlaveAnswers
<1> DEFINE byte == o.reader[1]
           b == listener.m_sequence
           part == <<ack>>
           u == tel'
           s == listener'.m_sequence
           S == OnlyIf(code' = "SEQ_OK", SlaveBytes(u))
<1>2. /\ phase = "slaveACK" /\ ReceiveACK(byte, responding) /\ u = [tel EXCEPT !.m_slaveACK = byte]
      /\ ack \in {seq_ack, seq_nak} /\ part = <<ack>>
      /\ o \in Outcomes(part) /\ OnBus(part, o) /\ b = listener.m_sequence
      /\ pretry = 1 /\ tel \in Telegrams /\ s = listener'.m_sequence
  BY <1>1 DEF SlaveAnswers, ExchangeTypeInv, ExchangeTypeOK
<1> HIDE DEF ack, byte, part, b, u, s, S
<1>3. part \in Seq(Byte \ {seq_syn}) /\ part \in Seq(Byte)
  BY <1>2, ACKReduced
<1>4. exact /\ s = Cat(b, part)
  BY <1>2, <1>3, HeardExactly
<1>5. listener'.published = {}
  <2>1. listener'.published = listener.published
    BY <1>2, <1>3, StillUnpublished
  <2> QED
    BY <1>2, <1>4, <2>1 DEF TrueInv
<1>6. tel.m_type # "BC" /\ b = IF Again THEN MasterSent(tel) ELSE Twice(tel)
  BY <1>2, <1>4 DEF ListenInv
<1>7. Asked(tel, b)
  BY <1>6 DEF Asked
<1>8. u.m_type # "BC" /\ Asked(u, b)
  <2>1. u.m_master = tel.m_master /\ u.m_masterCRC = tel.m_masterCRC /\ u.m_type = tel.m_type
    BY <1>2, ACKKeeps
  <2>2. Asked(u, b)
    BY <1>7, <2>1, ToldKept
  <2> QED
    BY <1>6, <2>1, <2>2
<1>9. Rest(u.m_type, part, S)
  BY <1>2 DEF Rest
<1>10. HeardOf(u, s, S)
  BY <1>4, <1>8, <1>9 DEF HeardOf
<1>11. phase' \notin {"late", "done"}
  BY <1>2 DEF ReceiveACK, Refused, Ends
<1> QED
  BY <1>5, <1>10, <1>11 DEF TrueInv, u, s, S

\* The response was heard; how its reader took it tells the acknowledge.
LEMMA ResponseHeard ==
  ASSUME NEW t, NEW p, HasMaster(t, p), t.m_type = "MS", NEW b, Asked(t, b),
         NEW e, NEW c, NEW q, Sent(e, c, q, 1), NEW r \in Seq(Byte), r = Append(e, c),
         NEW S, NEW h, h = Cat(Cat(b, <<seq_ack>>), r)
  PROVE  /\ HeardOf(t, h, S)
         /\ HeardOf(t, Cat(h, <<seq_nak>>), S)
         /\ q \in S => HeardOf(t, Cat(h, <<seq_ack>>), S)
<1> DEFINE a == <<seq_ack>>
           n == <<seq_nak>>
           x == reduced[MasterSent(t)]
<1>1. a \in Seq(Byte) /\ n \in Seq(Byte) /\ h = Cat(Cat(b, a), r) /\ x = reduced[MasterSent(t)]
  BY ACKReduced
<1>2. a = <<seq_ack>> /\ n = <<seq_nak>>
  OBVIOUS
<1> HIDE DEF a, n, x
<1>3. b \in Seq(Byte)
  BY <1>1, AskedReduced
<1>4. h = Cat(b, Cat(a, r)) /\ Cat(a, r) \in Seq(Byte)
  BY <1>1, <1>3, CatAssociative, CatTyped
<1>5. ASSUME NEW y \in Seq(Byte)
      PROVE  Cat(h, y) = Cat(b, Cat(a, Cat(r, y)))
  <2> DEFINE f == Cat(a, r)
  <2>1. f \in Seq(Byte) /\ h = Cat(b, f) /\ f = Cat(a, r)
    BY <1>4
  <2> HIDE DEF f
  <2>2. Cat(h, y) = Cat(b, Cat(f, y))
    BY <1>3, <2>1, CatAssociative
  <2>3. Cat(f, y) = Cat(a, Cat(r, y))
    <3>1. a \in Seq(Byte) /\ r \in Seq(Byte) /\ f = Cat(a, r)
      BY <1>1, <2>1
    <3> QED
      BY ONLY <3>1, y \in Seq(Byte), CatAssociative
  <2> QED
    BY <2>2, <2>3
<1>6. Rest("MS", Cat(a, r), S)
  BY <1>2 DEF Rest
<1>7. Rest("MS", Cat(a, Cat(r, n)), S)
  BY <1>2 DEF Rest
<1>8. q \in S => Rest("MS", Cat(a, Cat(r, a)), S)
  BY <1>2 DEF Rest
<1>9. ASSUME NEW y, Rest("MS", y, S) PROVE HeardOf(t, Cat(b, y), S)
  BY <1>9 DEF HeardOf
<1>10. HeardOf(t, h, S)
  BY <1>4, <1>6, <1>9
<1>11. HeardOf(t, Cat(h, n), S)
  BY <1>1, <1>5, <1>7, <1>9
<1>12. q \in S => HeardOf(t, Cat(h, a), S)
  BY <1>1, <1>5, <1>8, <1>9
<1> QED
  BY <1>2, <1>10, <1>11, <1>12

LEMMA TrueUnread ==
  ASSUME ExchangeTypeInv, AcceptedInv, ListenInv, TrueInv, ResponseUnread
  PROVE  TrueInv'
<1> SUFFICES ASSUME exact', pretry' = 1 PROVE TrueInv'
  BY DEF TrueInv
<1> DEFINE r == ResponsePart
           s == listener'.m_sequence
           S == OnlyIf(code' = "SEQ_OK", SlaveBytes(tel'))
           p == MasterBytes(tel)
<1>1. PICK o \in Outcomes(r) : OnBus(r, o)
  BY DEF ResponseUnread
<1>2. /\ phase = "response" /\ phase' = "silent" /\ tel' = tel /\ pretry = 1
      /\ r = ResponsePart /\ s = listener'.m_sequence
  BY DEF ResponseUnread, addressee
<1> HIDE DEF r, s, S, p
<1>3. r \in Seq(Byte \ {seq_syn}) /\ r \in Seq(Byte)
  BY <1>2, ResponseSent
<1>4. exact /\ s = Cat(listener.m_sequence, r)
  BY <1>1, <1>2, <1>3, HeardExactly
<1>5. listener'.published = {}
  <2>1. listener'.published = listener.published
    BY <1>1, <1>3, StillUnpublished
  <2> QED
    BY <1>2, <1>4, <2>1 DEF TrueInv
<1>6. PICK b : Asked(tel, b) /\ listener.m_sequence = Cat(b, <<seq_ack>>)
  BY <1>2, <1>4 DEF ListenInv
<1>7. HasMaster(tel, p) /\ tel.m_type = "MS"
  BY <1>2, <1>4 DEF AcceptedInv, Locked, ListenInv, p
<1>8. PICK e, c, q : Sent(e, c, q, 1) /\ r = Append(e, c)
  BY <1>2, ResponseSent
<1>9. s = Cat(Cat(b, <<seq_ack>>), r)
  BY <1>4, <1>6
<1>10. HeardOf(tel, s, S)
  BY <1>3, <1>6, <1>7, <1>8, <1>9, ResponseHeard
<1> QED
  BY <1>2, <1>5, <1>10 DEF TrueInv, s, S

LEMMA TrueResponse ==
  ASSUME ExchangeTypeInv, AcceptedInv, TrueInv, ResponseReceived
  PROVE  TrueInv'
<1> SUFFICES ASSUME exact', pretry' = 1 PROVE TrueInv'
  BY DEF TrueInv
<1>1. phase = "response" /\ phase' = "masterACK" /\ pretry = 1
  BY DEF ResponseReceived, addressee
<1>2. PICK o \in Outcomes(ResponsePart) : OnBus(ResponsePart, o)
  BY DEF ResponseReceived
<1>3. ResponsePart \in Seq(Byte \ {seq_syn})
  BY <1>1, ResponseSent
<1>4. exact /\ listener'.published = listener.published
  BY <1>2, <1>3, StillUnpublished
<1> QED
  BY <1>1, <1>4 DEF TrueInv

\* What is acknowledged is what transmit() returns.
LEMMA TrueEnd ==
  ASSUME ExchangeTypeInv, AcceptedInv, ListenInv, TrueInv, MasterAnswers
  PROVE  TrueInv'
<1> SUFFICES ASSUME exact', pretry' = 1 PROVE TrueInv'
  BY DEF TrueInv
<1> DEFINE ack == IF tel.m_slaveState = "OK" THEN seq_ack ELSE seq_nak
           part == <<ack>>
<1>1. PICK o \in Outcomes(<<ack>>) :
        LET repeated == o.reader[1] = seq_nak /\ pretry = 1
        IN /\ OnBus(<<ack>>, o)
           /\ pretry' = IF repeated THEN 0 ELSE pretry
           /\ \/ tel.m_slaveState = "OK" /\ phase' = "free" /\ code' = "SEQ_OK"
              \/ tel.m_slaveState # "OK" /\ phase' = IF repeated THEN "response" ELSE "silent"
              \/ tel.m_slaveState # "OK" /\ phase' = "free"
  BY DEF MasterAnswers, Ends
<1>2. /\ phase = "masterACK" /\ tel' = [tel EXCEPT !.m_masterACK = ack] /\ tel \in Telegrams
      /\ ptel' = ptel
  BY DEF MasterAnswers, ExchangeTypeInv, ExchangeTypeOK
<1>3. /\ OnBus(part, o) /\ pretry = 1 /\ o \in Outcomes(part)
      /\ phase' \in {"free", "response", "silent"}
      /\ tel.m_slaveState = "OK" => code' = "SEQ_OK"
  BY <1>1
<1> DEFINE u == tel'
           s == listener'.m_sequence
           S == OnlyIf(code' = "SEQ_OK", SlaveBytes(u))
           r == ResponsePart
           p == MasterBytes(u)
           e == ptel.m_slave.m_seq
           c == ptel.m_slaveCRC
           q == SlaveBytes(ptel)
           h == listener.m_sequence
<1>4. /\ ack = IF tel.m_slaveState = "OK" THEN seq_ack ELSE seq_nak
      /\ part = <<ack>> /\ ack \in {seq_ack, seq_nak}
      /\ u = tel' /\ s = listener'.m_sequence /\ h = listener.m_sequence /\ r = ResponsePart
  OBVIOUS
<1>5. Sent(e, c, q, 1) /\ r = Append(e, c)
  BY <1>2 DEF AcceptedInv, HasSlave, ResponsePart
<1>6. tel.m_slaveState = "OK" => SameSlave(ptel, tel)
  BY <1>2 DEF AcceptedInv
<1> HIDE DEF ack, part, u, s, S, r, p, e, c, q, h
<1>7. part \in Seq(Byte \ {seq_syn}) /\ r \in Seq(Byte)
  BY <1>2, <1>4, ACKReduced, ResponseSent
<1>8. exact /\ s = Cat(h, part)
  BY <1>3, <1>4, <1>7, HeardExactly
<1>9. listener'.published = {}
  <2>1. listener'.published = listener.published
    BY <1>3, <1>7, StillUnpublished
  <2> QED
    BY <1>2, <1>3, <1>8, <2>1 DEF TrueInv
<1>10. PICK b : Asked(tel, b) /\ h = Cat(Cat(b, <<seq_ack>>), r)
  BY <1>2, <1>3, <1>4, <1>8 DEF ListenInv
<1>11. /\ u.m_master = tel.m_master /\ u.m_masterCRC = tel.m_masterCRC /\ u.m_type = tel.m_type
       /\ u.m_slave = tel.m_slave
  BY <1>2, <1>4, ACKKeeps
<1>12. HasMaster(u, p) /\ u.m_type = "MS" /\ Asked(u, b)
  <2>1. tel.m_type = "MS" /\ Locked(tel)
    BY <1>2, <1>8 DEF ListenInv, AcceptedInv
  <2>2. Locked(u)
    BY <1>11, <2>1, MasterKept
  <2>3. Asked(u, b)
    BY <1>10, <1>11, ToldKept
  <2> QED
    BY <1>11, <2>1, <2>2, <2>3 DEF Locked, p
<1>13. /\ HeardOf(u, Cat(h, <<seq_nak>>), S)
       /\ q \in S => HeardOf(u, Cat(h, <<seq_ack>>), S)
  BY <1>5, <1>7, <1>10, <1>12, ResponseHeard
<1>14. HeardOf(u, s, S)
  <2>1. CASE tel.m_slaveState = "OK"
    <3>1. part = <<seq_ack>>
      BY <1>4, <2>1
    <3>2. q \in S
      BY <1>3, <1>6, <1>11, <2>1 DEF q, S, OnlyIf, SlaveBytes, SameSlave
    <3> QED
      BY <1>8, <1>13, <3>1, <3>2
  <2>2. CASE tel.m_slaveState # "OK"
    <3>1. part = <<seq_nak>>
      BY <1>4, <2>2
    <3> QED
      BY <1>8, <1>13, <3>1
  <2> QED
    BY <2>1, <2>2
<1> QED
  BY <1>3, <1>9, <1>14 DEF TrueInv, u, s, S

\* What the SYN publishes, if anything.
LEMMA TrueSyn ==
  ASSUME ExchangeTypeInv, AcceptedInv, TrueInv, NEW end \in {"free", "silent"}, Syn(end),
         code' = code \/ (code = "none" /\ code' # "SEQ_OK")
  PROVE  TrueInv'
<1> SUFFICES ASSUME exact', pretry' = 1 PROVE TrueInv'
  BY DEF TrueInv
<1>1. phase = end /\ phase' \in {"done", "late"} /\ tel' = tel /\ pretry = 1 /\ exact
  BY DEF Syn
<1>2. code' = "SEQ_OK" <=> code = "SEQ_OK"
  OBVIOUS
<1> DEFINE s == listener.m_sequence
           p == MasterBytes(tel)
           S == OnlyIf(code = "SEQ_OK", SlaveBytes(tel))
           t == Parse(Received(s))
<1>3. HasMaster(tel, p)
  BY <1>1 DEF AcceptedInv, Locked
<1>4. HeardOf(tel, s, S) /\ listener.published = {}
  BY <1>1 DEF TrueInv
<1>5. s = listener.m_sequence /\ t = Parse(Received(s))
  OBVIOUS
<1> HIDE DEF s, p, S, t
<1>6. Tells(t, tel.m_type, p, S)
  BY <1>3, <1>4, <1>5, HeardTells
<1>7. listener' = MonitorByte(listener, seq_syn)
  BY SynHeard
<1>8. \A w \in listener'.published : w = Published(t) /\ IsValid(t)
  BY <1>4, <1>5, <1>7 DEF MonitorByte
<1>9. Reduce(tel.m_master) = Plain(p)
  BY <1>3 DEF HasMaster
<1>10. \A q \in S : code = "SEQ_OK" /\ Plain(q) = Reduce(tel.m_slave)
  <2>1. tel.m_slave \in SeqObjects
    BY DEF ExchangeTypeInv, ExchangeTypeOK, Telegrams
  <2>2. Plain(SlaveBytes(tel)) = Reduce(tel.m_slave)
    <3>1. CASE tel.m_slave.m_extended
      BY <3>1 DEF SlaveBytes, Plain, Reduce
    <3>2. CASE ~tel.m_slave.m_extended
      BY <2>1, <3>2 DEF SlaveBytes, Plain, Reduce, SeqObjects
    <3> QED
      BY <3>1, <3>2
  <2> QED
    BY <2>2 DEF S, OnlyIf
<1>11. ASSUME NEW w \in listener'.published
       PROVE  /\ w.m_type = tel'.m_type
              /\ w.m_master = Reduce(tel'.m_master)
              /\ w.m_type = "MS" => code' = "SEQ_OK" /\ w.m_slave = Reduce(tel'.m_slave)
  <2>1. w.m_type = t.m_type /\ w.m_master = Reduce(t.m_master) /\ w.m_slave = Reduce(t.m_slave)
    BY <1>8 DEF Published
  <2>2. /\ t.m_type = tel.m_type /\ Reduce(t.m_master) = Plain(p)
        /\ tel.m_type = "MS" => \E q \in S : Reduce(t.m_slave) = Plain(q)
    BY <1>6, <1>8 DEF Tells
  <2> QED
    BY <1>1, <1>2, <1>9, <1>10, <2>1, <2>2
<1> QED
  BY <1>1, <1>11 DEF TrueInv, PublishedIsTrue

\* The sender that waits for its response has had none published.
LEMMA TrueLate ==
  ASSUME ExchangeTypeInv, LateInv, OnceInv, TrueInv, ResponseLate
  PROVE  TrueInv'
<1>1. phase = "late" /\ phase' = "done" /\ seq # <<>> /\ UNCHANGED <<pretry, listener, exact>>
  BY DEF ResponseLate, ResponseFilled, addressee, bus
<1>2. code # "SEQ_OK" /\ tel.m_type = "MS"
  BY <1>1 DEF LateInv, OnceInv
<1>3. exact /\ pretry = 1 => listener.published = {}
  BY <1>1, <1>2 DEF TrueInv, PublishedIsTrue
<1> QED
  BY <1>1, <1>3 DEF TrueInv, PublishedIsTrue

LEMMA TrueNext ==
  ASSUME CleanExchange
  PROVE  ExchangeTypeInv /\ AcceptedInv /\ LateInv /\ OnceInv /\ ListenInv /\ TrueInv /\ [Next]_vars => TrueInv'
<1> SUFFICES ASSUME ExchangeTypeInv, AcceptedInv, LateInv, OnceInv, ListenInv, TrueInv, [Next]_vars
             PROVE  TrueInv'
  OBVIOUS
<1>1. CASE UNCHANGED vars
  BY <1>1 DEF vars, sender, addressee, bus, TrueInv, PublishedIsTrue
<1>2. CASE Over
  BY <1>1, <1>2 DEF Over
<1>3. CASE FreeBus
  BY <1>3, TrueSyn DEF FreeBus
<1>4. CASE GeneratorSyn
  <2>1. Syn("silent") /\ (code' = code \/ (code = "none" /\ code' # "SEQ_OK"))
    BY <1>4 DEF GeneratorSyn
  <2> QED
    BY <2>1, TrueSyn
<1>5. ASSUME phase = "late", phase' \in {"late", "done"}, UNCHANGED <<tel, code, pretry, listener, exact>>
      PROVE  TrueInv'
  BY <1>5 DEF TrueInv, PublishedIsTrue
<1>6. CASE LateSyn
  BY <1>5, <1>6 DEF LateSyn, bus
<1>7. ASSUME NEW responding \in BOOLEAN, MasterLate(responding) PROVE TrueInv'
  BY <1>5, <1>7 DEF MasterLate, sender, bus
<1> QED
  BY <1>1, <1>2, <1>3, <1>4, <1>6, <1>7, TrueLock, TrueMissed, TrueReceived, TrueAnswers, TrueUnread,
     TrueResponse, TrueEnd, TrueLate DEF Next

\* Noise that the readers of the parts alone hear, refusals, missing answers and
\* readers that take SYN for a response make no listener publish what was not
\* said.
THEOREM OnlySaidPublished ==
  ASSUME CleanExchange PROVE Spec => []HeardIsTrue
<1>1. ExchangeTypeInv /\ AcceptedInv /\ LateInv /\ OnceInv /\ ListenInv /\ TrueInv /\ [Next]_vars
        => TrueInv'
  BY TrueNext
<1>2. TrueInv => HeardIsTrue
  BY DEF TrueInv, HeardIsTrue, PublishedIsTrue
<1>3. ExchangeTypeInv /\ AcceptedInv /\ LateInv /\ ListenInv /\ [Next]_vars => ListenInv'
  BY ListenNext
<1>4. ExchangeTypeInv /\ AcceptedInv /\ AcceptedInv' /\ LateInv /\ OnceInv /\ [Next]_vars => OnceInv'
  BY OnceNext
<1>5. Init => OnceInv
  BY OnceInit
<1> QED
  BY <1>1, <1>2, <1>3, <1>4, <1>5, TrueInit, ListenInit, TypeInvariant, AcceptedInvariant, PTL DEF Spec
=============================================================================
