----------------------------- MODULE MCExchange -----------------------------
(***************************************************************************)
(* Small instances of Exchange for TLC.  The addressee is the master 0x03, *)
(* whose slave address is 0x08.  A part is sent as it has to be if it has  *)
(* no SYN or expand byte in it, or is passed with its CRC; RawMessages is  *)
(* the other case.  A part without data is refused if it has no CRC.       *)
(***************************************************************************)
EXTENDS Exchange

WithCrc(bytes) == Append(bytes, Crc(Plain(bytes)))
MessageWithCrc(bytes) == Append(bytes, Crc(Plain(<<Address>> \o bytes)))

GoodMessages ==
  {MessageWithCrc(<<8, 7, 2, 0>>), <<3, 7, 2, 1, 5>>, <<254, 7, 2, 1, 0>>,
   MessageWithCrc(<<8, 7, 2, 1, seq_syn>>), MessageWithCrc(<<8, 7, 2, 2, seq_exp, 1>>)}

GoodResponses == {WithCrc(<<0>>), <<1, 5>>, WithCrc(<<1, seq_syn>>), WithCrc(<<2, seq_exp, 0>>)}

RawMessages == {<<8, 7, 2, 1, seq_syn>>}

\* Noise that makes a SYN of a byte is left out: reduce() drops it, and the part
\* is taken for one without CRC, as in RawMessages.
NoiseOn == {0, 1, 3, 255, seq_exp}

\* The parts are what the theorems of ExchangeProofs suppose.
ASSUME GoodParts ==
  /\ \A m \in GoodMessages : CleanMessage(m) /\ AtMe(m[1])
  /\ \A r \in GoodResponses : CleanResponse(r)
  /\ \A m \in RawMessages : ~CleanMessage(m)
  /\ IsMaster(Addressed) /\ seq_syn \notin NoiseOn

\* A size byte that noise has raised by one makes a reader take the SYN behind
\* the part for its CRC, and the CRC for data: reduce() drops the SYN and the part
\* is accepted as one without CRC, as another message or response.
Raised(part, nn) == ReadSyn([part EXCEPT ![nn] = @ + 1])

ASSUME SynTakenForCrc ==
  /\ LET sent == CreateMaster(NoTelegram, Plain(<<Address>> \o MessageWithCrc(<<8, 7, 2, 0>>)))
         read == CreateMaster(NoTelegram, Received(Raised(Append(sent.m_master.m_seq, sent.m_masterCRC), 5)))
     IN read.m_masterState = "OK" /\ ~SameMaster(read, sent)
  /\ LET sent == CreateSlave(NoTelegram, Plain(WithCrc(<<0>>)))
         read == CreateSlave(NoTelegram, Received(Raised(Append(sent.m_slave.m_seq, sent.m_slaveCRC), 1)))
     IN read.m_slaveState = "OK" /\ ~SameSlave(read, sent)

\* The telegrams of src/test/test_telegram.cpp with a CRC, and what their
\* comments call them, hold the operators against the implementation's own data.
TestMaster == <<255, 82, 181, 9, 3, 13, 6, 0>>
TestSlave  == <<3, 176, 251, seq_syn>>
TestSent   == TestMaster \o <<67>>
TestAnswer == <<3, 176, 251, seq_exp, seq_synexp, 208>>

ASSUME TestTelegrams ==
  /\ Crc(Plain(TestMaster)) = 67 /\ Crc(Plain(TestSlave)) = 208
  /\ \A s \in {TestSent \o <<0>> \o TestAnswer \o <<0>>,
               TestSent \o <<255>> \o TestSent \o <<0>> \o TestAnswer \o <<0>>,
               TestSent \o <<0>> \o TestAnswer \o <<255, 0>> \o TestAnswer \o <<0>>,
               TestSent \o <<255>> \o TestSent \o <<0>> \o TestAnswer \o <<255, 0>> \o TestAnswer \o <<0>>} :
       LET t == Parse(Received(s))
       IN IsValid(t) /\ Reduce(t.m_master) = Plain(TestMaster) /\ Reduce(t.m_slave) = Plain(TestSlave)
  /\ \A s \in {TestSent \o <<255>> \o TestSent \o <<255>>,
               TestSent \o <<255>> \o TestSent \o <<0>> \o TestAnswer \o <<255, 0>> \o TestAnswer \o <<255>>} :
       ~IsValid(Parse(Received(s)))
=============================================================================
