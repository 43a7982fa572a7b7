------------------------------ MODULE Telegram ------------------------------
(***************************************************************************)
(* The class Telegram of src/src/Telegram.cpp: a telegram is taken from    *)
(* the bytes a node sends or receives, part by part, or parsed from all    *)
(* the bytes between two SYN.  A telegram is a record of the object's      *)
(* members, an operator on it returns what the method leaves.              *)
(***************************************************************************)
EXTENDS ByteSequence

seq_ack       == 0
seq_nak       == 255
seq_broad     == 254
seq_max_bytes == 16

\* clear()
NoTelegram == [m_type |-> "undefined",
               m_master |-> NoBytes, m_masterNN |-> 0, m_masterCRC |-> 0,
               m_masterACK |-> 0, m_masterState |-> "EMPTY",
               m_slave |-> NoBytes, m_slaveNN |-> 0, m_slaveCRC |-> 0,
               m_slaveACK |-> 0, m_slaveState |-> "EMPTY"]

MasterNibbles == {0, 1, 3, 7, 15}

IsMaster(byte) == byte \div 16 \in MasterNibbles /\ byte % 16 \in MasterNibbles

IsAddressValid(byte) == byte \notin {seq_syn, seq_exp}

IsSlave(byte) == ~IsMaster(byte) /\ byte \notin {seq_syn, seq_exp}

SlaveAddress(address) == IF IsSlave(address) THEN address ELSE (address + 5) % 256

TelegramType(zz) ==
  IF zz = seq_broad THEN "BC" ELSE IF IsMaster(zz) THEN "MM" ELSE "MS"

-----------------------------------------------------------------------------
(* The two parts of a telegram, each followed by its CRC.                  *)

\* The tests createMaster() and checkMasterSequence() have in common.
HeaderError(b) ==
  IF Len(b) < 6 THEN "SHORT"
  ELSE IF ~IsMaster(b[1]) THEN "QQ"
  ELSE IF ~IsAddressValid(b[2]) THEN "ZZ"
  ELSE IF b[5] > seq_max_bytes THEN "NN"
  ELSE "OK"

\* n is the size of the part without CRC: createMaster() and createSlave() take
\* it with CRC and without, parse() asks for the CRC.
SizeError(b, n) == IF Len(b) < n THEN "SHORT" ELSE IF Len(b) > n + 1 THEN "LONG" ELSE "OK"

First(e, f) == IF e # "OK" THEN e ELSE f

\* A part without CRC gets one and stays as it is; the CRC of a part that has
\* one is compared, and the part is extended by that.
TakePart(b, n) ==
  LET part == Plain(SubSeq(b, 1, n))
  IN IF Len(b) = n THEN [part |-> part, crc |-> Crc(part), state |-> "OK"]
     ELSE [part |-> AfterCrc(part), crc |-> b[n + 1],
           state |-> IF Crc(part) = b[n + 1] THEN "OK" ELSE "CRC"]

SetMaster(t, b, error, taken) ==
  IF error # "OK" THEN [t EXCEPT !.m_masterState = error]
  ELSE [t EXCEPT !.m_type = TelegramType(b[2]), !.m_masterNN = b[5],
                 !.m_master = taken.part, !.m_masterCRC = taken.crc,
                 !.m_masterState = taken.state]

TakeMaster(t, b) ==
  SetMaster(t, b, First(HeaderError(b), SizeError(b, 5 + b[5])), TakePart(b, 5 + b[5]))

CreateMaster(t, s) == TakeMaster(t, Reduce(s).m_seq)

SlaveError(b) ==
  IF Len(b) < 2 THEN "SHORT" ELSE IF b[1] > seq_max_bytes THEN "NN" ELSE "OK"

SetSlave(t, b, error, taken) ==
  IF error # "OK" THEN [t EXCEPT !.m_slaveState = error]
  ELSE [t EXCEPT !.m_slaveNN = b[1], !.m_slave = taken.part,
                 !.m_slaveCRC = taken.crc, !.m_slaveState = taken.state]

TakeSlave(t, b) ==
  SetSlave(t, b, First(SlaveError(b), SizeError(b, 1 + b[1])), TakePart(b, 1 + b[1]))

CreateSlave(t, s) == TakeSlave(t, Reduce(s).m_seq)

\* Mutant: every telegram needs a response.
IsValidAnswered(t) == t.m_masterState = "OK" /\ t.m_slaveState = "OK"

IsValid(t) == t.m_masterState = "OK" /\ (t.m_type = "MS" => t.m_slaveState = "OK")

-----------------------------------------------------------------------------
(* parse(), one operator per part.  b is what is left of the reduced bytes, *)
(* t the telegram so far.                                                   *)

After(b, n) == SubSeq(b, n + 1, Len(b))

\* checkMasterSequence() and checkSlaveSequence(): a part without CRC is short.
MasterPartError(b) == First(HeaderError(b), IF Len(b) < 6 + b[5] THEN "SHORT" ELSE "OK")
SlavePartError(b)  == First(SlaveError(b), IF Len(b) < 2 + b[1] THEN "SHORT" ELSE "OK")

ParseMaster(t, b) ==
  IF MasterPartError(b) # "OK" THEN [t EXCEPT !.m_masterState = MasterPartError(b)]
  ELSE TakeMaster(t, SubSeq(b, 1, 6 + b[5]))

ParseSlave(t, b) ==
  IF SlavePartError(b) # "OK" THEN [t EXCEPT !.m_slaveState = SlavePartError(b)]
  ELSE TakeSlave(t, SubSeq(b, 1, 2 + b[1]))

ACKError(byte, before) == IF byte \in {seq_ack, seq_nak} THEN before ELSE "ACK"

\* The slave's acknowledge byte; its absence is an error of the slave.
ParseSlaveACK(t, b) ==
  LET i == t.m_masterNN + 7
  IN IF Len(b) < i THEN [t EXCEPT !.m_slaveState = "ACK_MISS"]
     ELSE [t EXCEPT !.m_slaveACK = b[i], !.m_slaveState = ACKError(b[i], @)]

\* Mutant: a missing acknowledge byte is not noticed.
MasterACKOptional(t, b) ==
  LET i == t.m_slaveNN + 3
  IN IF Len(b) < i THEN t
     ELSE [t EXCEPT !.m_masterACK = b[i], !.m_masterState = ACKError(b[i], @)]

\* The master's; its absence is an error of the master.
ParseMasterACK(t, b) ==
  LET i == t.m_slaveNN + 3
  IN IF Len(b) < i THEN [t EXCEPT !.m_masterState = "ACK_MISS"]
     ELSE [t EXCEPT !.m_masterACK = b[i], !.m_masterState = ACKError(b[i], @)]

\* The response was repeated and acknowledged.  (Its CRC has not stopped
\* parse(), the state it was given stays.)
ResponseAgain(t, b) ==
  IF t.m_masterState # "OK" THEN t
  ELSE IF Len(b) > t.m_slaveNN + 3 THEN [t EXCEPT !.m_slaveState = "LONG", !.m_slave = NoBytes]
  ELSE IF t.m_masterACK = seq_nak THEN [t EXCEPT !.m_slaveState = "INVALID"]
  ELSE t

ParseSlaveAgain(t, b) ==
  IF SlavePartError(b) # "OK" THEN [t EXCEPT !.m_slaveState = SlavePartError(b)]
  ELSE ResponseAgain(ParseMasterACK(ParseSlave(t, b), b), b)

\* After a refusal an acknowledge byte is skipped before the repetition.
Response(t, b) ==
  IF t.m_masterState # "OK" \/ t.m_masterACK = seq_ack THEN t
  ELSE IF Len(b) < t.m_slaveNN + 4 THEN [t EXCEPT !.m_slaveState = "SHORT"]
  ELSE ParseSlaveAgain([t EXCEPT !.m_slave = NoBytes], After(b, t.m_slaveNN + 4))

SlaveParsed(t, b) == IF t.m_slaveState # "OK" THEN t ELSE Response(ParseMasterACK(t, b), b)

ParseResponse(t, b) ==
  IF t.m_type # "MS" THEN t ELSE SlaveParsed(ParseSlave(t, b), b)

AnsweredAgain(t, b) ==
  IF t.m_slaveState # "EMPTY" THEN t
  ELSE IF t.m_slaveACK = seq_ack THEN ParseResponse(t, After(b, t.m_masterNN + 7))
  ELSE [t EXCEPT !.m_masterState = IF Len(b) > t.m_masterNN + 7 THEN "LONG" ELSE "INVALID"]

MasterParsedAgain(t, b) ==
  IF t.m_masterState # "OK" THEN t ELSE AnsweredAgain(ParseSlaveACK(t, b), b)

\* After a refusal the master part comes once more.
ParseMasterAgain(t, b) ==
  MasterParsedAgain(ParseMaster([t EXCEPT !.m_master = NoBytes], b), b)

Answered(t, b) ==
  IF t.m_slaveState # "EMPTY" THEN t
  ELSE IF t.m_slaveACK = seq_ack THEN ParseResponse(t, After(b, t.m_masterNN + 7))
  ELSE ParseMasterAgain(t, After(b, t.m_masterNN + 7))

MasterParsed(t, b) ==
  IF t.m_masterState # "OK" \/ t.m_type = "BC" THEN t ELSE Answered(ParseSlaveACK(t, b), b)

ParseBytes(b) == MasterParsed(ParseMaster(NoTelegram, b), b)

Parse(s) == ParseBytes(Reduce(s).m_seq)
=============================================================================
