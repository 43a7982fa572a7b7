------------------------- MODULE ArbitrationProofs -------------------------
(***************************************************************************)
(* Theorems about Arbitration, for every set of masters, whatever their    *)
(* addresses, their lock counters and their messages.                      *)
(***************************************************************************)
EXTENDS Arbitration, TLAPS

-----------------------------------------------------------------------------
(* The wire: addresses and their minimum.                                  *)

LEMMA MinOfNibbles ==
  ASSUME NEW S, S \subseteq MasterNibbles, S # {}
  PROVE  Min(S) \in S /\ \A y \in S : Min(S) <= y
<1>1. \E x \in S : \A y \in S : x <= y
  <2>1. CASE 0 \in S
    BY <2>1 DEF MasterNibbles
  <2>2. CASE 0 \notin S /\ 1 \in S
    BY <2>2 DEF MasterNibbles
  <2>3. CASE 0 \notin S /\ 1 \notin S /\ 3 \in S
    BY <2>3 DEF MasterNibbles
  <2>4. CASE 0 \notin S /\ 1 \notin S /\ 3 \notin S /\ 7 \in S
    BY <2>4 DEF MasterNibbles
  <2>5. CASE 0 \notin S /\ 1 \notin S /\ 3 \notin S /\ 7 \notin S /\ 15 \in S
    BY <2>5 DEF MasterNibbles
  <2> QED
    BY <2>1, <2>2, <2>3, <2>4, <2>5 DEF MasterNibbles
<1> QED
  BY <1>1 DEF Min

MasterBytes == [class : MasterNibbles, sub : MasterNibbles]

LEMMA WireType ==
  ASSUME Contenders # {}
  PROVE  /\ Wire \in MasterBytes
         /\ \E n \in Contenders : Wire.class = Address[n].class
         /\ \E n \in Contenders : Wire.sub = Address[n].sub
<1> DEFINE C == {Address[n].class : n \in Contenders}
           S == {Address[n].sub : n \in Contenders}
<1>1. \A n \in Contenders : Address[n] \in MasterBytes
  BY ArbitrationAssumption DEF Contenders, MasterBytes
<1>2. C \subseteq MasterNibbles /\ C # {} /\ S \subseteq MasterNibbles /\ S # {}
  BY <1>1 DEF MasterBytes
<1>3. Min(C) \in C /\ Min(S) \in S
  BY <1>2, MinOfNibbles
<1>4. Wire = [class |-> Min(C), sub |-> Min(S)]
  BY DEF Wire
<1> HIDE DEF C, S
<1>5. Wire.class = Min(C) /\ Wire.sub = Min(S)
  BY <1>4
<1>6. Wire \in MasterBytes
  BY <1>2, <1>3, <1>4 DEF MasterBytes
<1> QED
  BY <1>3, <1>5, <1>6 DEF C, S

\* A node reads its own address where both nibbles are its own.
LEMMA SameNibbles ==
  ASSUME NEW n \in Nodes, Wire \in MasterBytes,
         Wire.class = Address[n].class, Wire.sub = Address[n].sub
  PROVE  Wins(n)
<1>1. Address[n] \in MasterBytes
  BY ArbitrationAssumption DEF MasterBytes
<1>2. \A a, b \in MasterBytes : a.class = b.class /\ a.sub = b.sub => a = b
  BY DEF MasterBytes
<1> QED
  BY <1>1, <1>2 DEF Wins

-----------------------------------------------------------------------------
(* Type correctness.                                                       *)

LEMMA ArbitrationTypeInit == Init => ArbitrationTypeOK
<1> SUFFICES ASSUME Init PROVE ArbitrationTypeOK
  OBVIOUS
<1>1. tied \in BOOLEAN
  BY DEF Init
<1>2. m_sequence \in [Nodes -> Seq(Bytes)]
  BY DEF Init
<1> QED
  BY <1>1, <1>2, ArbitrationAssumption DEF Init, ArbitrationTypeOK, NothingHeard

LEMMA AfterSynType ==
  ASSUME ArbitrationTypeOK, NEW n \in Nodes PROVE AfterSyn(n) \in Nat
  BY DEF ArbitrationTypeOK, AfterSyn, Counted

LEMMA ArbitrationTypeStep ==
  ASSUME ArbitrationTypeOK, [Next]_vars PROVE ArbitrationTypeOK'
<1> USE DEF ArbitrationTypeOK
<1>1. CASE Syn
  <2>1. m_lock_counter' \in [Nodes -> Nat]
    BY <1>1, AfterSynType DEF Syn
  <2>2. m_sequence' \in [Nodes -> Seq(Bytes)]
    BY <1>1 DEF Syn
  <2> QED
    BY <1>1, <2>1, <2>2 DEF Syn, historyVars
<1>2. CASE Arbitrate
  <2>1. Wire \in Bytes
    BY <1>2, WireType DEF Arbitrate, Bytes, MasterBytes
  <2>2. \A n \in Nodes : CounterOfLoser(n) \in Nat
    BY ArbitrationAssumption DEF CounterOfLoser
  <2>3. m_lock_counter' \in [Nodes -> Nat]
    BY <1>2, <2>2 DEF Arbitrate
  <2>4. m_sequence' \in [Nodes -> Seq(Bytes)]
    BY <1>2, <2>1 DEF Arbitrate
  <2>5. lost' \subseteq Nodes /\ tied' \in BOOLEAN
    BY <1>2 DEF Arbitrate, Contenders
  <2>6. heard' \in [meant : SUBSET Nodes, receivers : SUBSET Nodes]
    BY <1>2 DEF Arbitrate, NothingHeard
  <2>7. phase' \in {"syn", "address", "telegram"} /\ freed' \in Nodes \cup {Nobody}
        /\ message' = message
    BY <1>2 DEF Arbitrate
  <2>8. state' \in [Nodes -> {"MonitorBus", "LockBus", "SendMessage"}]
    BY <1>2 DEF Arbitrate
  <2> QED
    BY <2>3, <2>4, <2>5, <2>6, <2>7, <2>8
<1>3. CASE Silence
  BY <1>3 DEF Silence, historyVars
<1>4. ASSUME NEW zz \in Targets, NEW pb \in Targets, NEW w \in Nodes, Telegram(zz, pb, w)
      PROVE  ArbitrationTypeOK'
  <2> DEFINE receivers == {n \in Nodes : Addressed(n, <<zz, pb>>)}
  <2>1. heard' \in [meant : SUBSET Nodes, receivers : SUBSET Nodes]
    BY <1>4 DEF Telegram, Meant
  <2>2. m_sequence' \in [Nodes -> Seq(Bytes)]
    <3>1. <<zz, pb>> \in Seq(Bytes)
      BY DEF Bytes
    <3>2. \A n \in Nodes : m_sequence[n] \o <<zz, pb>> \in Seq(Bytes)
      BY <3>1
    <3> QED
      BY <1>4, <3>2 DEF Telegram
  <2>3. m_lock_counter' \in [Nodes -> Nat] /\ message' \in [Nodes -> {"none", "queued", "active"}]
    <3>1. PICK reset :
            /\ m_lock_counter' = [n \in Nodes |-> IF n \in reset THEN LockCounterMax[n]
                                                  ELSE m_lock_counter[n]]
            /\ message' = [n \in Nodes |-> IF n \in reset /\ message[n] = "active" THEN "none"
                                           ELSE message[n]]
      BY <1>4, Zenon DEF Telegram
    <3> QED
      BY <3>1, ArbitrationAssumption
  <2>4. state' \in [Nodes -> {"MonitorBus", "LockBus", "SendMessage"}]
        /\ phase' = "syn" /\ freed' \in Nodes \cup {Nobody} /\ UNCHANGED <<tied, lost>>
    BY <1>4 DEF Telegram
  <2> QED
    BY <2>1, <2>2, <2>3, <2>4
<1>5. ASSUME NEW n \in Nodes, Submit(n) PROVE ArbitrationTypeOK'
  BY <1>5 DEF Submit, historyVars
<1>6. CASE UNCHANGED vars
  BY <1>6 DEF vars, historyVars
<1> QED
  BY <1>1, <1>2, <1>3, <1>4, <1>5, <1>6 DEF Next, Bus, SendsTelegram

\* Every variable of the masters on the bus keeps its type.
THEOREM ArbitrationTyped == Spec => []ArbitrationTypeOK
  BY ArbitrationTypeInit, ArbitrationTypeStep, PTL DEF Spec
-----------------------------------------------------------------------------
(* Who writes when, and what the nodes that write nothing have stored.     *)

\* A node is in lockBus() between a SYN and the address after it, and in
\* sendMessage() during the telegram, one node at most; both have a message.
Turns ==
  /\ \A n \in Nodes : state[n] = "LockBus" => phase = "address"
  /\ \A n \in Nodes : state[n] = "SendMessage" => phase = "telegram" /\ n \notin lost
  /\ \A n \in Nodes : state[n] # "MonitorBus" => message[n] = "active"
  /\ \A m, n \in Nodes : state[m] = "SendMessage" /\ state[n] = "SendMessage" => m = n

\* At an address nothing is stored; before a SYN only the node that has freed
\* the bus is known to have nothing.  Those that have not taken part in the
\* arbitration have stored the winner's address when its telegram follows.
Stored ==
  /\ phase = "syn" /\ freed # Nobody => m_sequence[freed] = <<>>
  /\ phase = "address" => \A n \in Nodes : m_sequence[n] = <<>>
  /\ phase = "telegram" =>
       \A n \in Nodes \ lost : state[n] = "MonitorBus" => Len(m_sequence[n]) = 1

\* After an arbitration that nobody has won its losers are those of the winning
\* class, who go at the next SYN, and others, who have at least one more to
\* count; everybody else has stored one byte.
Losers(class) ==
  /\ \A n \in lost : /\ message[n] = "active" /\ m_sequence[n] = <<>>
                     /\ \/ Address[n].class = class /\ m_lock_counter[n] = 1
                        \/ Address[n].class # class /\ m_lock_counter[n] >= 2
  /\ \A n \in Nodes \ lost : Len(m_sequence[n]) = 1
  /\ \E n \in lost : Address[n].class = class

Round(class) ==
  /\ Contenders # {} /\ Contenders \subseteq lost
  /\ \A n \in Contenders : Address[n].class = class

Tie ==
  tied =>
    \/ phase = "syn" /\ freed = Nobody /\ \E class \in MasterNibbles : Losers(class)
    \/ phase = "address" /\ \E class \in MasterNibbles : Round(class)

ArbInv == ArbitrationTypeOK /\ Turns /\ Stored /\ Tie /\ TakenByAddressee

LEMMA ArbInvInit == Init => ArbInv
<1> SUFFICES ASSUME Init PROVE ArbInv
  OBVIOUS
<1>1. Turns /\ Stored /\ Tie
  BY ArbitrationAssumption DEF Init, Turns, Stored, Tie
<1>2. TakenByAddressee
  BY DEF Init, TakenByAddressee, NothingHeard
<1> QED
  BY <1>1, <1>2, ArbitrationTypeInit DEF ArbInv

LEMMA SynStep == ASSUME ArbInv, Syn PROVE ArbInv'
<1> USE DEF ArbInv
<1>1. /\ phase = "syn" /\ phase' = "address" /\ lost' = lost /\ tied' = tied /\ heard' = heard
      /\ freed' = freed
      /\ \A n \in Nodes : state'[n] = IF Goes(n) THEN "LockBus" ELSE state[n]
      /\ \A n \in Nodes : m_sequence'[n] = IF Hears(n) THEN <<>> ELSE m_sequence[n]
      /\ \A n \in Nodes : message'[n] = IF Hears(n) /\ message[n] = "queued" THEN "active"
                                        ELSE message[n]
  BY DEF Syn, historyVars
<1>2. \A n \in Nodes : state[n] = "MonitorBus"
  BY <1>1 DEF Turns, ArbitrationTypeOK
<1>3. Turns'
  BY <1>1, <1>2 DEF Turns, Goes, ArbitrationTypeOK
<1>4. Stored'
  BY <1>1, ArbitrationAssumption DEF Stored, Hears
<1>5. Tie'
  <2>1. CASE tied
    <3>1. freed = Nobody
      BY <1>1, <2>1 DEF Tie
    <3>2. PICK class \in MasterNibbles : Losers(class)
      BY <1>1, <2>1 DEF Tie
    <3>3. \A n \in Nodes : Hears(n)
      BY <3>1, ArbitrationAssumption DEF Hears
    <3>4. \A n \in Contenders' : n \in Nodes /\ Goes(n)
      BY <1>1, <1>2 DEF Contenders
    <3>5. \A n \in Nodes \ lost : AfterSyn(n) # 0
      BY <3>2 DEF Losers, AfterSyn, Counted, ArbitrationTypeOK
    <3>6. \A n \in lost : Address[n].class # class => AfterSyn(n) # 0
      BY <3>2 DEF Losers, AfterSyn, Counted, ArbitrationTypeOK
    <3>7. \A n \in lost : Address[n].class = class => Goes(n)
      <4>1. ASSUME NEW n \in lost, Address[n].class = class PROVE Goes(n)
        <5>1. n \in Nodes /\ message[n] = "active" /\ m_lock_counter[n] = 1 /\ m_sequence[n] = <<>>
          BY <3>2, <4>1 DEF Losers, ArbitrationTypeOK
        <5>2. AfterSyn(n) = 0
          BY <5>1 DEF AfterSyn, Counted
        <5> QED
          BY <3>3, <5>1, <5>2 DEF Goes
      <4> QED
        BY <4>1
    <3>8. Contenders' # {}
      BY <1>1, <3>2, <3>7 DEF Losers, Contenders, ArbitrationTypeOK
    <3>9. Round(class)'
      BY <1>1, <3>4, <3>5, <3>6, <3>8 DEF Round, Goes
    <3> QED
      BY <1>1, <3>9 DEF Tie
  <2>2. CASE ~tied
    BY <1>1, <2>2 DEF Tie
  <2> QED
    BY <2>1, <2>2
<1>6. TakenByAddressee'
  BY <1>1 DEF TakenByAddressee
<1> QED
  BY <1>3, <1>4, <1>5, <1>6, ArbitrationTypeStep DEF Next, Bus

LEMMA ArbitrateStep == ASSUME ArbInv, Arbitrate PROVE ArbInv'
<1> USE DEF ArbInv
<1>1. /\ phase = "address" /\ Contenders # {} /\ Contenders \subseteq Nodes
      /\ phase' = IF Won THEN "telegram" ELSE "syn"
      /\ freed' = Nobody /\ message' = message
      /\ tied' = ~Won /\ lost' = {n \in Contenders : ~Wins(n)} /\ heard' = NothingHeard
  BY DEF Arbitrate, Contenders
<1>2. \A n \in Nodes :
        /\ n \notin Contenders => state'[n] = state[n]
        /\ n \in Contenders => state'[n] = IF Wins(n) THEN "SendMessage" ELSE "MonitorBus"
        /\ n \in Contenders => m_sequence'[n] = <<>>
        /\ n \notin Contenders => Len(m_sequence'[n]) = 1
        /\ n \in Contenders /\ ~Wins(n) => m_lock_counter'[n] = CounterOfLoser(n)
  <2>1. \A n \in Nodes : m_sequence[n] = <<>>
    BY <1>1 DEF Stored
  <2>2. Len(Append(<<>>, Wire)) = 1
    OBVIOUS
  <2> QED
    BY <1>1, <2>1, <2>2 DEF Arbitrate
<1>3. \A n \in Nodes : /\ state[n] # "SendMessage"
                       /\ state[n] = "LockBus" <=> n \in Contenders
                       /\ n \in Contenders => message[n] = "active"
  BY <1>1 DEF Turns, Contenders
<1>4. \A m, n \in Nodes : Wins(m) /\ Wins(n) => m = n
  BY ArbitrationAssumption DEF Wins
<1>5. \A n \in Nodes : state'[n] \in {"MonitorBus", "SendMessage"}
  BY <1>2, <1>3 DEF ArbitrationTypeOK
<1>6. \A n \in Nodes : state'[n] = "SendMessage" <=> n \in Contenders /\ Wins(n)
  BY <1>1, <1>2, <1>3
<1>7. Turns'
  <2>1. (\E n \in Nodes : state'[n] = "SendMessage") => phase' = "telegram"
    BY <1>1, <1>6 DEF Won
  <2> QED
    BY <1>1, <1>3, <1>4, <1>5, <1>6, <2>1 DEF Turns
<1>8. Stored'
  BY <1>1, <1>2, <1>6 DEF Stored
<1>9. Tie'
  <2>1. CASE ~Won
    <3>1. lost' = Contenders
      BY <1>1, <2>1 DEF Won
    <3>2. PICK m \in Contenders : Wire.class = Address[m].class
      BY <1>1, WireType
    <3>3. Wire.class \in MasterNibbles
      BY <1>1, WireType DEF MasterBytes
    <3>4. \A n \in Contenders : CounterOfLoser(n) >= 2 \/ Address[n].class = Wire.class
      BY <1>1, ArbitrationAssumption DEF CounterOfLoser
    <3>5. \A n \in Contenders : Address[n].class = Wire.class => CounterOfLoser(n) = 1
      BY DEF CounterOfLoser
    <3> DEFINE class == Wire.class
    <3> HIDE DEF class
    <3>6. /\ \A n \in lost' : /\ message'[n] = "active" /\ m_sequence'[n] = <<>>
                              /\ \/ Address[n].class = class /\ m_lock_counter'[n] = 1
                                 \/ Address[n].class # class /\ m_lock_counter'[n] >= 2
          /\ \A n \in Nodes \ lost' : Len(m_sequence'[n]) = 1
          /\ \E n \in lost' : Address[n].class = class
      BY <1>1, <1>2, <1>3, <2>1, <3>1, <3>2, <3>4, <3>5 DEF Won, class
    <3>7. \E c \in MasterNibbles :
            /\ \A n \in lost' : /\ message'[n] = "active" /\ m_sequence'[n] = <<>>
                                /\ \/ Address[n].class = c /\ m_lock_counter'[n] = 1
                                   \/ Address[n].class # c /\ m_lock_counter'[n] >= 2
            /\ \A n \in Nodes \ lost' : Len(m_sequence'[n]) = 1
            /\ \E n \in lost' : Address[n].class = c
      BY <3>3, <3>6 DEF class
    <3> QED
      BY <1>1, <2>1, <3>7 DEF Tie, Losers
  <2>2. CASE Won
    BY <1>1, <2>2 DEF Tie
  <2> QED
    BY <2>1, <2>2
<1>10. TakenByAddressee'
  BY <1>1 DEF TakenByAddressee, NothingHeard
<1> QED
  BY <1>7, <1>8, <1>9, <1>10, ArbitrationTypeStep DEF Next, Bus

LEMMA SilenceStep == ASSUME ArbInv, Silence PROVE ArbInv'
<1> USE DEF ArbInv, Silence, historyVars
<1>1. Contenders' = Contenders
  BY DEF Contenders
<1>2. Turns'
  BY DEF Turns, Contenders
<1>3. Stored'
  BY DEF Stored
<1>4. ~tied
  BY DEF Tie, Round
<1>5. Tie' /\ TakenByAddressee'
  BY <1>4 DEF Tie, TakenByAddressee
<1> QED
  BY <1>2, <1>3, <1>5, ArbitrationTypeStep DEF Next, Bus

LEMMA TelegramStep ==
  ASSUME ArbInv, NEW zz \in Targets, NEW pb \in Targets, NEW w \in Nodes, Telegram(zz, pb, w)
  PROVE  ArbInv'
<1> USE DEF ArbInv
<1> DEFINE receivers == {n \in Nodes : Addressed(n, <<zz, pb>>)}
<1>1. /\ phase = "telegram" /\ phase' = "syn" /\ state[w] = "SendMessage" /\ zz # w
      /\ heard' = [meant |-> Meant(zz, w), receivers |-> receivers]
      /\ m_sequence'[w] = <<>>
      /\ state' = [state EXCEPT ![w] = "MonitorBus"]
      /\ freed' \in {w, Nobody}
      /\ UNCHANGED <<tied, lost>>
  BY DEF Telegram, ArbitrationTypeOK
<1>2. ~tied
  BY <1>1 DEF Tie
<1>3. w \notin lost /\ \A n \in Nodes : n # w => state[n] = "MonitorBus"
  BY <1>1 DEF Turns, ArbitrationTypeOK
<1>4. \A n \in Nodes : state'[n] = "MonitorBus"
  BY <1>1, <1>3 DEF ArbitrationTypeOK
<1>5. Turns'
  BY <1>4 DEF Turns
<1>6. Stored'
  BY <1>1 DEF Stored
<1>7. Tie'
  BY <1>1, <1>2 DEF Tie
<1>8. TakenByAddressee'
  <2>1. ASSUME NEW n \in Nodes \ lost, n # w
        PROVE  n \in receivers <=> zz \in {n, Broadcast}
    <3>1. state[n] = "MonitorBus" /\ m_sequence[n] \in Seq(Bytes) /\ Len(m_sequence[n]) = 1
      BY <1>1, <1>3, <2>1 DEF Stored, ArbitrationTypeOK
    <3>2. <<zz, pb>> \in Seq(Bytes) /\ Len(<<zz, pb>>) = 2 /\ <<zz, pb>>[1] = zz
      BY DEF Bytes
    <3>3. ASSUME NEW s \in Seq(Bytes), NEW t \in Seq(Bytes), Len(s) = 1, Len(t) = 2
          PROVE  (s \o t)[2] = t[1]
      <4>1. 2 \in 1..Len(s) + Len(t) /\ ~(2 <= Len(s)) /\ 2 - Len(s) = 1
        BY <3>3
      <4>2. \A i \in 1..Len(s) + Len(t) :
              (s \o t)[i] = IF i <= Len(s) THEN s[i] ELSE t[i - Len(s)]
        OBVIOUS
      <4> QED
        BY <4>1, <4>2
    <3>4. (m_sequence[n] \o <<zz, pb>>)[2] = zz
      BY <3>1, <3>2, <3>3
    <3> QED
      BY <3>1, <3>4 DEF Addressed
  <2>2. w \notin receivers
    BY <1>1 DEF Addressed
  <2>3. \A n \in Nodes : n \in Meant(zz, w) <=> n # w /\ zz \in {n, Broadcast}
    BY <1>1, ArbitrationAssumption DEF Meant
  <2>4. Meant(zz, w) \subseteq Nodes
    BY DEF Meant
  <2>5. receivers \ lost = Meant(zz, w) \ lost
    BY <2>1, <2>2, <2>3, <2>4
  <2>6. heard'.receivers = receivers /\ heard'.meant = Meant(zz, w)
    BY <1>1
  <2> QED
    BY <1>1, <2>5, <2>6 DEF TakenByAddressee
<1> QED
  BY <1>5, <1>6, <1>7, <1>8, ArbitrationTypeStep DEF Next, Bus, SendsTelegram

LEMMA SubmitStep == ASSUME ArbInv, NEW n \in Nodes, Submit(n) PROVE ArbInv'
<1> USE DEF ArbInv
<1>1. /\ message[n] = "none" /\ \A m \in Nodes : m # n => message'[m] = message[m]
      /\ UNCHANGED <<phase, freed, state, m_lock_counter, m_sequence, tied, lost, heard>>
  BY DEF Submit, historyVars
<1>2. Turns'
  BY <1>1 DEF Turns
<1>3. Stored' /\ TakenByAddressee'
  BY <1>1 DEF Stored, TakenByAddressee
<1>4. \A class \in MasterNibbles : Losers(class) => Losers(class)'
  BY <1>1 DEF Losers, ArbitrationTypeOK
<1>5. \A class \in MasterNibbles : Round(class) => Round(class)'
  BY <1>1 DEF Round, Contenders
<1>6. Tie'
  BY <1>1, <1>4, <1>5 DEF Tie
<1> QED
  BY <1>2, <1>3, <1>6, ArbitrationTypeStep DEF Next

LEMMA ArbInvAlways == Spec => []ArbInv
<1>1. ArbInv /\ [Next]_vars => ArbInv'
  <2> SUFFICES ASSUME ArbInv, [Next]_vars PROVE ArbInv'
    OBVIOUS
  <2>1. CASE UNCHANGED vars
    <3>1. UNCHANGED <<phase, freed, state, message, m_lock_counter, m_sequence, tied, lost, heard>>
      BY <2>1 DEF vars, historyVars
    <3>2. Turns' /\ Stored' /\ TakenByAddressee'
      BY <3>1 DEF ArbInv, Turns, Stored, TakenByAddressee
    <3>3. Tie'
      BY <3>1 DEF ArbInv, Tie, Losers, Round, Contenders
    <3> QED
      BY <2>1, <3>2, <3>3, ArbitrationTypeStep DEF ArbInv
  <2> QED
    BY <2>1, SynStep, ArbitrateStep, SilenceStep, TelegramStep, SubmitStep
    DEF Next, Bus, SendsTelegram
<1> QED
  BY ArbInvInit, <1>1, PTL DEF Spec

-----------------------------------------------------------------------------
(* What follows for the bus.                                               *)

\* No two nodes send at the same time.
THEOREM SendersAlone == Spec => []OneSender
<1>1. ArbInv => OneSender
  BY DEF ArbInv, Turns, OneSender
<1> QED
  BY <1>1, ArbInvAlways, PTL

\* An arbitration that nobody has won is decided in the next round, among
\* those that have lost it.
THEOREM TiesBroken == Spec => []TieIsBroken
<1>1. ArbInv => TieIsBroken
  <2> SUFFICES ASSUME ArbInv, tied, phase = "address"
               PROVE  Won /\ Contenders \subseteq lost
    BY DEF TieIsBroken
  <2>1. PICK class \in MasterNibbles : Round(class)
    BY DEF ArbInv, Tie
  <2>2. PICK n \in Contenders : Wire.sub = Address[n].sub
    BY <2>1, WireType DEF Round
  <2>3. Wire \in MasterBytes /\ \E m \in Contenders : Wire.class = Address[m].class
    BY <2>1, WireType DEF Round
  <2>4. n \in Nodes /\ Wire.class = Address[n].class
    BY <2>1, <2>3 DEF Round, Contenders
  <2>5. Wins(n)
    BY <2>2, <2>3, <2>4, SameNibbles
  <2> QED
    BY <2>1, <2>5 DEF Won, Round
<1> QED
  BY <1>1, ArbInvAlways, PTL

\* A telegram is taken by those it is meant for and nobody else, but for the
\* losers of the arbitration before it.
THEOREM TelegramsTaken == Spec => []TakenByAddressee
<1>1. ArbInv => TakenByAddressee
  BY DEF ArbInv
<1> QED
  BY <1>1, ArbInvAlways, PTL
=============================================================================
