------------------------------ MODULE Exchange ------------------------------
(***************************************************************************)
(* One telegram on the bus: the node that sends it (lockBus() to freeBus() *)
(* of src/src/Ebus.cpp), the node it is addressed to (receiveMessage() to  *)
(* sendResponse()) and a third one that only listens (monitorBus()).  All  *)
(* three run the same program; their Telegram objects and bytes are those  *)
(* of module Telegram.                                                     *)
(*                                                                         *)
(* A step puts one part of the telegram on the bus: a master part, a       *)
(* response or an acknowledge byte.  Noise changes a byte of a part, for   *)
(* everybody or for the reader it is meant for.  It does not turn one      *)
(* acknowledge into the other, all of whose bits differ, and it does not   *)
(* make two nodes write at the same time (Early).                          *)
(*                                                                         *)
(* The bus's generator writes a SYN whenever the bus is silent for some    *)
(* 40 ms.  The nodes wait 10 ms for an acknowledge byte, then read() fails *)
(* with a timeout; for all other bytes they wait a second, so that a       *)
(* reader that expects more bytes than are sent takes the SYN that follow  *)
(* for them.  What it does then it does late: no other node waits for it.  *)
(* The third node is followed up to the SYN that ends the telegram, and    *)
(* nobody sends a telegram of his own meanwhile.                           *)
(***************************************************************************)
EXTENDS Telegram, FiniteSets

CONSTANTS
  Address,     \* m_address of the sender
  Addressed,   \* m_address of the addressee
  Messages,    \* what the application passes to transmit()
  Responses,   \* what the addressee's process callback answers
  NoiseBytes,  \* what noise may turn a byte into
  MaxNoise     \* bound: how many parts are disturbed

ASSUME ExchangeAssumption ==
  /\ Address \in Byte /\ Addressed \in Byte
  /\ Messages \subseteq Seq(Byte) /\ Responses \subseteq Seq(Byte)
  /\ NoiseBytes \subseteq Byte
  /\ MaxNoise \in Nat

VARIABLES
  phase,      \* what is put on the bus next
  tel,        \* the sender's Telegram
  retry,      \* the loop variable of sendMessage(), then of receiveResponse()
  seq,        \* what receiveResponse() has read while it waits for more
  code,       \* the answer of transmit(), "none" before it is known
  m_sequence, \* of the addressee, what receiveMessage() has read while it waits
  ptel,       \* the addressee's Telegram
  pretry,     \* the loop variable of sendResponse()
  listener,   \* the third node: its m_sequence and what it has published
  noise,      \* parts that were disturbed
  exact,      \* everybody but the readers heard each part as it was sent
  deceived    \* history: who has taken the SYN behind the telegram for a byte of it

sender    == <<tel, retry, seq, code>>
addressee == <<m_sequence, ptel, pretry>>
bus       == <<listener, noise, exact, deceived>>
vars      == <<phase, sender, addressee, bus>>

Phases == {"lock", "master", "slaveACK", "response", "masterACK", "free", "silent", "late", "done"}
Codes  == {"none", "SEQ_OK", "EBUS_ERR_TRANSMIT", "EBUS_ERR_DEVICE"}

Received(bytes) == [m_seq |-> bytes, m_extended |-> TRUE]

-----------------------------------------------------------------------------
(* The bus.                                                                *)

Published(t) == [m_type |-> t.m_type, m_master |-> Reduce(t.m_master), m_slave |-> Reduce(t.m_slave)]

\* monitorBus() of a node no telegram is addressed to
MonitorByte(l, byte) ==
  IF byte # seq_syn THEN [l EXCEPT !.m_sequence = Append(@, byte)]
  ELSE LET t == Parse(Received(l.m_sequence))
       IN [m_sequence |-> <<>>,
           published |-> l.published \cup (IF l.m_sequence # <<>> /\ IsValid(t)
                                           THEN {Published(t)} ELSE {})]

heard[bytes \in Seq(Byte)] ==
  IF bytes = <<>> THEN listener ELSE MonitorByte(heard[Front(bytes)], Last(bytes))

Heard(bytes) == heard[bytes]

Disturbed(part) ==
  {d \in {[part EXCEPT ![i] = b] : i \in DOMAIN part, b \in NoiseBytes} :
     d # part /\ d \notin {<<seq_ack>>, <<seq_nak>>}}

\* What may become of a part: what everybody hears, and its reader.
Outcomes(part) ==
  {[all |-> part, reader |-> part]}
    \cup (IF noise = MaxNoise THEN {}
          ELSE UNION {{[all |-> d, reader |-> d], [all |-> part, reader |-> d]}
                        : d \in Disturbed(part)})

OnBus(part, o) ==
  /\ o \in Outcomes(part)
  /\ listener' = Heard(o.all)
  /\ noise' = IF o.reader = part THEN noise ELSE noise + 1
  /\ exact' = (exact /\ o.all = part)
  /\ UNCHANGED deceived

\* A reader that has read the size byte n reads n bytes and the CRC, and one
\* more for each expand byte.
size[bytes \in Seq(Byte)] ==
  IF bytes = <<>> THEN 0
  ELSE size[Front(bytes)] + (IF Last(bytes) = seq_exp THEN 0 ELSE 1)

\* Mutant: a loop reads one byte too many (i <= bytes).
CompleteOneMore(bytes, n) == size[bytes] = n + 2 /\ Last(bytes) # seq_exp

Complete(bytes, n) == size[bytes] = n + 1 /\ Last(bytes) # seq_exp

\* The reader has what it reads, and answers, while the part is being sent.
Early(bytes, n) == size[Front(bytes)] > n

-----------------------------------------------------------------------------
(* The sender.                                                             *)

\* Mutant: there is always another attempt.
AgainAlways == retry \in Int

\* The first of two attempts was refused.
Again == retry = 1

\* lockBus(), won: the address is on the bus.
Lock ==
  /\ phase = "lock"
  /\ \E m \in Messages :
       LET t == CreateMaster(NoTelegram, Plain(<<Address>> \o m))
       IN t.m_masterState = "OK" /\ tel' = t
  /\ phase' = "master"
  /\ m_sequence' = <<Address>>
  /\ listener' = Heard(<<Address>>)
  /\ UNCHANGED <<retry, seq, code, ptel, pretry, noise, exact, deceived>>

\* The first attempt goes on after the address of lockBus().
MasterPart ==
  LET part == Append(tel.m_master.m_seq, tel.m_masterCRC)
  IN IF Again THEN Tail(part) ELSE part

Ends(result) == phase' = "free" /\ code' = result

\* Broadcasts end with their CRC, other telegrams wait 10 ms for an acknowledge.
SendMessage(answering) ==
  IF tel.m_type = "BC" THEN Ends("SEQ_OK")
  ELSE IF answering THEN phase' = "slaveACK" /\ UNCHANGED code
  ELSE phase' = "silent" /\ code' = "EBUS_ERR_DEVICE"

Refused ==
  IF Again THEN phase' = "master" /\ retry' = retry - 1 /\ UNCHANGED code
  ELSE Ends("EBUS_ERR_TRANSMIT") /\ UNCHANGED retry

\* Mutant: an unknown acknowledge byte is taken for a refusal.
ReceiveACKRepeating(byte, responding) ==
  \/ byte # seq_ack /\ Refused
  \/ byte = seq_ack /\ tel.m_type = "MM" /\ Ends("SEQ_OK") /\ UNCHANGED retry
  \/ /\ byte = seq_ack /\ tel.m_type = "MS"
     /\ phase' = IF responding THEN "response" ELSE "silent"
     /\ retry' = 1
     /\ UNCHANGED code

\* The acknowledge byte: of another node's answer, if there is one.
ReceiveACK(byte, responding) ==
  \/ byte \notin {seq_ack, seq_nak} /\ Ends("EBUS_ERR_TRANSMIT") /\ UNCHANGED retry
  \/ byte = seq_nak /\ Refused
  \/ byte = seq_ack /\ tel.m_type = "MM" /\ Ends("SEQ_OK") /\ UNCHANGED retry
  \/ /\ byte = seq_ack /\ tel.m_type = "MS"
     /\ phase' = IF responding THEN "response" ELSE "silent"
     /\ retry' = 1
     /\ UNCHANGED code

ReadSyn(bytes) == IF bytes = <<>> THEN <<>> ELSE Append(bytes, seq_syn)

\* The node that still waits for a byte of a part.
Reader ==
  IF m_sequence # <<>> THEN "addressee" ELSE IF seq # <<>> THEN "sender" ELSE "nobody"

\* The SYN that ends the telegram, for everybody but such a reader.
Syn(end) ==
  /\ phase = end
  /\ phase' = IF Reader = "nobody" THEN "done" ELSE "late"
  /\ listener' = Heard(<<seq_syn>>)
  /\ m_sequence' = ReadSyn(m_sequence) /\ seq' = ReadSyn(seq)
  /\ deceived' = Reader
  /\ UNCHANGED <<tel, retry, ptel, pretry, noise, exact>>

FreeBus == Syn("free") /\ UNCHANGED code

\* The generator's SYN is the size byte of the response that is not there, and
\* too large, if receiveResponse() has read nothing of one.
GeneratorSyn ==
  /\ Syn("silent")
  /\ code' = IF code = "none" /\ seq = <<>> THEN "EBUS_ERR_TRANSMIT" ELSE code

-----------------------------------------------------------------------------
(* The addressee, and the sender that reads its answers.                   *)

AtMe(zz) == zz \in {seq_broad, Addressed, SlaveAddress(Addressed)}

\* The addressee takes no notice of the telegram, or has found its size byte
\* wrong.
MasterIgnored(s) == ~AtMe(s[2]) \/ s[5] > seq_max_bytes

MasterWaits(s) ==
  ~MasterIgnored(s) /\ ~Complete(After(s, 5), s[5]) /\ ~Early(After(s, 5), s[5])

MasterUnread(s) == MasterIgnored(s) \/ MasterWaits(s)

MasterRead(s) ==
  AtMe(s[2]) /\ s[5] <= seq_max_bytes /\ Complete(After(s, 5), s[5]) /\ ~Early(After(s, 5), s[5])

MasterMissed ==
  /\ phase = "master"
  /\ \E o \in Outcomes(MasterPart) :
       LET s == m_sequence \o o.reader
       IN /\ OnBus(MasterPart, o)
          /\ MasterUnread(s)
          /\ m_sequence' = IF MasterWaits(s) THEN s ELSE <<>>
  /\ SendMessage(FALSE)
  /\ UNCHANGED <<tel, retry, seq, ptel, pretry>>

\* receiveMessage(); a broadcast is not answered.  An answer to what the sender
\* means to be a broadcast would collide with its SYN.
MasterReceived ==
  /\ phase = "master"
  /\ \E o \in Outcomes(MasterPart) :
       LET s == m_sequence \o o.reader
       IN /\ OnBus(MasterPart, o)
          /\ MasterRead(s)
          /\ tel.m_type = "BC" => s[2] = seq_broad
          /\ ptel' = CreateMaster(NoTelegram, Received(s))
          /\ SendMessage(s[2] # seq_broad)
  /\ m_sequence' = <<>>
  /\ UNCHANGED <<tel, retry, seq, pretry>>

\* The acknowledge byte, and processMessage() when it is positive.
SlaveAnswers(responding) ==
  /\ phase = "slaveACK"
  /\ LET accepted == ptel.m_masterState = "OK"
         ack == IF accepted THEN seq_ack ELSE seq_nak
     IN \E o \in Outcomes(<<ack>>) :
          /\ OnBus(<<ack>>, o)
          /\ responding => accepted /\ ptel.m_type = "MS"
          /\ ReceiveACK(o.reader[1], responding)
          /\ tel' = [tel EXCEPT !.m_slaveACK = o.reader[1]]
  /\ IF responding THEN \E r \in Responses : ptel' = CreateSlave(ptel, Plain(r)) /\ ptel'.m_slaveState = "OK"
                   ELSE UNCHANGED ptel
  /\ UNCHANGED <<seq, m_sequence, pretry>>

ResponsePart == Append(ptel.m_slave.m_seq, ptel.m_slaveCRC)

\* receiveResponse() has found the size byte wrong, or waits for more bytes.
ResponseUnread ==
  /\ phase = "response"
  /\ \E o \in Outcomes(ResponsePart) :
       LET n == o.reader[1]
       IN /\ OnBus(ResponsePart, o)
          /\ IF n > seq_max_bytes THEN code' = "EBUS_ERR_TRANSMIT" /\ UNCHANGED seq
             ELSE /\ ~Complete(Tail(o.reader), n) /\ ~Early(Tail(o.reader), n)
                  /\ seq' = o.reader
                  /\ UNCHANGED code
  /\ phase' = "silent"
  /\ UNCHANGED <<tel, retry, addressee>>

ResponseReceived ==
  /\ phase = "response"
  /\ \E o \in Outcomes(ResponsePart) :
       LET n == o.reader[1]
       IN /\ OnBus(ResponsePart, o)
          /\ n <= seq_max_bytes /\ Complete(Tail(o.reader), n) /\ ~Early(Tail(o.reader), n)
          /\ tel' = CreateSlave(tel, Received(o.reader))
  /\ phase' = "masterACK"
  /\ UNCHANGED <<retry, seq, code, addressee>>

\* The sender's acknowledge, and whether sendResponse() repeats.
MasterAnswers ==
  /\ phase = "masterACK"
  /\ LET accepted == tel.m_slaveState = "OK"
         ack == IF accepted THEN seq_ack ELSE seq_nak
     IN \E o \in Outcomes(<<ack>>) :
          LET repeated == o.reader[1] = seq_nak /\ pretry = 1
          IN /\ OnBus(<<ack>>, o)
             /\ tel' = [tel EXCEPT !.m_masterACK = ack]
             /\ pretry' = IF repeated THEN 0 ELSE pretry
             /\ IF accepted THEN Ends("SEQ_OK") /\ UNCHANGED retry
                ELSE IF Again THEN /\ phase' = IF repeated THEN "response" ELSE "silent"
                                   /\ retry' = retry - 1
                                   /\ UNCHANGED code
                ELSE Ends("EBUS_ERR_TRANSMIT") /\ UNCHANGED retry
  /\ UNCHANGED <<seq, m_sequence, ptel>>

-----------------------------------------------------------------------------
(* The reader that has taken the SYN behind the telegram for a byte of it. *)

MasterFilled   == m_sequence # <<>> /\ Complete(After(m_sequence, 5), m_sequence[5])
ResponseFilled == seq # <<>> /\ Complete(Tail(seq), seq[1])

\* The generator goes on until the reader has what it waits for.
LateSyn ==
  /\ phase = "late" /\ ~MasterFilled /\ ~ResponseFilled
  /\ m_sequence' = ReadSyn(m_sequence) /\ seq' = ReadSyn(seq)
  /\ UNCHANGED <<phase, tel, retry, code, ptel, pretry, bus>>

\* The end of receiveMessage(), and what follows it; nobody reads the answers.
MasterLate(responding) ==
  /\ phase = "late" /\ MasterFilled
  /\ LET t == CreateMaster(NoTelegram, Received(m_sequence))
     IN IF responding
        THEN /\ t.m_masterState = "OK" /\ t.m_type = "MS"
             /\ \E r \in Responses : ptel' = CreateSlave(t, Plain(r)) /\ ptel'.m_slaveState = "OK"
        ELSE ptel' = t
  /\ m_sequence' = <<>>
  /\ phase' = "done"
  /\ UNCHANGED <<sender, pretry, bus>>

\* The end of receiveResponse(): another attempt would find a SYN as size byte.
ResponseLate ==
  /\ phase = "late" /\ ResponseFilled
  /\ LET t == CreateSlave(tel, Received(seq))
         accepted == t.m_slaveState = "OK"
     IN /\ tel' = [t EXCEPT !.m_masterACK = IF accepted THEN seq_ack ELSE seq_nak]
        /\ code' = IF accepted THEN "SEQ_OK" ELSE "EBUS_ERR_TRANSMIT"
        /\ retry' = IF ~accepted /\ Again THEN retry - 1 ELSE retry
  /\ seq' = <<>>
  /\ phase' = "done"
  /\ UNCHANGED <<addressee, bus>>

Over == phase = "done" /\ UNCHANGED vars

-----------------------------------------------------------------------------

Init ==
  /\ phase = "lock"
  /\ tel = NoTelegram /\ retry = 1 /\ seq = <<>> /\ code = "none"
  /\ m_sequence = <<>> /\ ptel = NoTelegram /\ pretry = 1
  /\ listener = [m_sequence |-> <<>>, published |-> {}]
  /\ noise = 0 /\ exact = TRUE /\ deceived = "nobody"

Next ==
  \/ Lock \/ MasterMissed \/ MasterReceived
  \/ \E responding \in BOOLEAN : SlaveAnswers(responding)
  \/ ResponseUnread \/ ResponseReceived \/ MasterAnswers
  \/ FreeBus \/ GeneratorSyn
  \/ LateSyn \/ ResponseLate
  \/ \E responding \in BOOLEAN : MasterLate(responding)
  \/ Over

Spec == Init /\ [][Next]_vars

-----------------------------------------------------------------------------
(* Properties.                                                             *)

PartStates == {"EMPTY", "OK", "SHORT", "LONG", "QQ", "ZZ", "NN", "CRC"}
SeqObjects == [m_seq : Seq(Byte), m_extended : BOOLEAN]

Telegrams ==
  [m_type : {"undefined", "BC", "MM", "MS"},
   m_master : SeqObjects, m_masterNN : 0..seq_max_bytes, m_masterCRC : Byte,
   m_masterACK : Byte, m_masterState : PartStates,
   m_slave : SeqObjects, m_slaveNN : 0..seq_max_bytes, m_slaveCRC : Byte,
   m_slaveACK : Byte, m_slaveState : PartStates]

\* The variables have their types; no loop makes a third attempt.
ExchangeTypeOK ==
  /\ phase \in Phases /\ code \in Codes
  /\ tel \in Telegrams /\ ptel \in Telegrams
  /\ {retry, pretry} \subseteq 0..1
  /\ m_sequence \in Seq(Byte) /\ seq \in Seq(Byte) /\ listener.m_sequence \in Seq(Byte \ {seq_syn})
  /\ noise \in 0..MaxNoise /\ exact \in BOOLEAN
  /\ deceived \in {"nobody", "sender", "addressee"}

\* A part is put on the bus as it is meant to be: no marker is sent raw, and
\* reduce() drops neither a byte of the header nor the CRC.
Clean(part, crc, header) ==
  LET bytes == Reduce(part).m_seq
  IN /\ part.m_seq = extended[bytes] /\ crc \notin Marker
     /\ \A i \in 1..header : bytes[i] \notin Marker

\* An expand byte that noise puts in the place of PB or SB is dropped, too, and
\* the rest is not a master part.
ShiftRefused(part) ==
  seq_exp \in NoiseBytes =>
    \A i \in {3, 4} :
      CreateMaster(NoTelegram, Received([part EXCEPT ![i] = seq_exp])).m_masterState # "OK"

CleanMessage(m) ==
  LET t == CreateMaster(NoTelegram, Plain(<<Address>> \o m))
  IN t.m_masterState = "OK" =>
       /\ Clean(t.m_master, t.m_masterCRC, 5)
       /\ ShiftRefused(Append(t.m_master.m_seq, t.m_masterCRC))

CleanResponse(r) ==
  LET t == CreateSlave(NoTelegram, Plain(r))
  IN t.m_slaveState = "OK" => Clean(t.m_slave, t.m_slaveCRC, 1)

SameMaster(t, u) == Reduce(t.m_master) = Reduce(u.m_master)
SameSlave(t, u)  == Reduce(t.m_slave) = Reduce(u.m_slave)

\* What the addressee accepts is what the application passed to transmit(), and
\* the response transmit() returns with SEQ_OK is what the callback answered:
\* escaping, sizes, CRC and the attempts of both loops let no noise through,
\* save to a reader that has taken the SYN behind the telegram for a byte of it.
AcceptedIsSent ==
  /\ ptel.m_masterState = "OK" /\ deceived # "addressee" => SameMaster(ptel, tel)
  /\ code = "SEQ_OK" /\ tel.m_type # "BC" => ptel.m_masterState = "OK"
  /\ code = "SEQ_OK" /\ tel.m_type # "BC" /\ deceived # "sender" => SameSlave(ptel, tel)

\* A listener publishes no telegram but the one that was sent, and one with a
\* response only if transmit() returned SEQ_OK and this response.  (A telegram
\* to a master is published whatever became of its acknowledge.)
PublishedIsTrue ==
  \A p \in listener.published :
    /\ p.m_type = tel.m_type
    /\ p.m_master = Reduce(tel.m_master)
    /\ p.m_type = "MS" => code = "SEQ_OK" /\ p.m_slave = Reduce(tel.m_slave)

OkHeard == phase = "done" /\ exact /\ code = "SEQ_OK" /\ deceived # "sender"

\* A listener that has heard every part as it was sent publishes a telegram
\* for which transmit() returned SEQ_OK, also one whose master part had to be
\* repeated, if its response was not, and was acknowledged before the SYN.
DeliveredIsPublished == OkHeard /\ pretry = 1 => listener.published # {}

\* On a bus without noise no reader waits for more than is sent, and a telegram
\* fails only if the addressee accepts it and its callback has no response.
FailsOnlyByNoise ==
  phase = "done" /\ noise = 0 =>
    /\ deceived = "nobody"
    /\ code = "SEQ_OK" \/ (ptel.m_masterState = "OK" /\ ptel.m_slaveState = "EMPTY")

\* The bytes that two nodes agree on, of an accepted part and of one that is sent.
MessageOf(m)  == Reduce(CreateMaster(NoTelegram, Plain(<<Address>> \o m)).m_master).m_seq
ResponseOf(r) == Reduce(CreateSlave(NoTelegram, Plain(r)).m_slave).m_seq

MessageParts  == {MessageOf(m) : m \in Messages}
ResponseParts == {ResponseOf(r) : r \in Responses}
OfType(type)  == {b \in MessageParts : TelegramType(b[2]) = type}

OnlyIf(condition, bytes) == IF condition THEN {bytes} ELSE {}

Promise == INSTANCE Delivery WITH
  Messages   <- MessageParts,
  Broadcasts <- OfType("BC"),
  Requests   <- OfType("MS"),
  Responses  <- ResponseParts,
  asked      <- OnlyIf(phase # "lock", Reduce(tel.m_master).m_seq),
  accepted   <- OnlyIf(ptel.m_masterState = "OK", Reduce(ptel.m_master).m_seq),
  answered   <- OnlyIf(ptel.m_slaveState = "OK", Reduce(ptel.m_slave).m_seq),
  deceived   <- deceived,
  answer     <- code,
  returned   <- OnlyIf(code = "SEQ_OK" /\ tel.m_type = "MS", Reduce(tel.m_slave).m_seq)

\* Whatever noise and the repetitions of both nodes do, a telegram is accepted
\* and answered at most once, and SEQ_OK comes once with a response, after both.
\* It is accepted as it was passed to transmit() and before transmit() returns,
\* and the response is the one that was given, unless the node that accepts it
\* has taken the SYN behind the telegram for the rest of it; that happens to one
\* of the two nodes at most, and not to one that has already accepted.
DeliversOnce == Promise!Spec
=============================================================================
