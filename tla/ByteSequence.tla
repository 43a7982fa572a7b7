---------------------------- MODULE ByteSequence ----------------------------
(***************************************************************************)
(* The class Sequence of src/src/Sequence.cpp: bytes, and whether they are *)
(* extended, that is escaped as they have to be on the bus, where SYN      *)
(* separates telegrams and must not occur inside one.                      *)
(***************************************************************************)
EXTENDS Integers, SequencesExt

Byte == 0..255

seq_syn    == 170
seq_exp    == 169
seq_synexp == 1
seq_expexp == 0

\* A sequence that is not extended, and what clear() leaves.
Plain(bytes) == [m_seq |-> bytes, m_extended |-> FALSE]
NoBytes      == Plain(<<>>)

Escaped(byte) ==
  IF byte = seq_syn THEN <<seq_exp, seq_synexp>>
  ELSE IF byte = seq_exp THEN <<seq_exp, seq_expexp>>
  ELSE <<byte>>

extended[bytes \in Seq(Byte)] ==
  IF bytes = <<>> THEN <<>> ELSE extended[Front(bytes)] \o Escaped(Last(bytes))

Extend(s) ==
  IF s.m_extended THEN s ELSE [m_seq |-> extended[s.m_seq], m_extended |-> TRUE]

\* The bytes SYN and expand are markers: each is dropped, and the byte after
\* it stands for one of the two, whatever it is.
Marker == {seq_syn, seq_exp}

Marked(byte) == IF byte = seq_synexp THEN seq_syn ELSE seq_exp

ReadAfter(before, byte) ==
  IF before # <<>> /\ Last(before) \in Marker THEN Marked(byte) ELSE byte

reduced[bytes \in Seq(Byte)] ==
  IF bytes = <<>> THEN <<>>
  ELSE IF Last(bytes) \in Marker THEN reduced[Front(bytes)]
  ELSE Append(reduced[Front(bytes)], ReadAfter(Front(bytes), Last(bytes)))

Reduce(s) == IF s.m_extended THEN Plain(reduced[s.m_seq]) ELSE s

-----------------------------------------------------------------------------
(* The CRC of the polynomial x^8 + x^7 + x^4 + x^3 + x + 1.                *)

\* The exclusive or of two bytes; k is the weight of a bit.
Bit(n, k) == (n \div k) % 2

Xor(a, b) ==
  LET x(k) == k * ((Bit(a, k) + Bit(b, k)) % 2)
  IN x(1) + x(2) + x(4) + x(8) + x(16) + x(32) + x(64) + x(128)

Shifted(crc)     == IF crc >= 128 THEN Xor(2 * crc - 256, 155) ELSE 2 * crc
ShiftedTwo(crc)  == Shifted(Shifted(crc))
ShiftedFour(crc) == ShiftedTwo(ShiftedTwo(crc))

crc_table == [crc \in Byte |-> ShiftedFour(ShiftedFour(crc))]

\* calc_crc() for one byte after the other
calc_crc[bytes \in Seq(Byte)] ==
  IF bytes = <<>> THEN 0 ELSE Xor(crc_table[calc_crc[Front(bytes)]], Last(bytes))

\* The object stays extended: the test of m_extended that ends crc() asks for
\* the flag extend() has just set.
Crc(s) == calc_crc[Extend(s).m_seq]

AfterCrc(s) == Extend(s)
=============================================================================
