----------------------------- MODULE Arbitration -----------------------------
(***************************************************************************)
(* Several masters that run the program of src/src/Ebus.cpp on one bus.    *)
(* Ebus is one of them, with its rivals left to the environment; here the  *)
(* rivals are the same code, and what is followed is who may write next:   *)
(* the lock counters, the arbitration of lockBus() and what the losers     *)
(* hear of the winner's telegram.                                          *)
(*                                                                         *)
(* The bus is in step: every node reads a SYN, those whose counter is zero *)
(* write their addresses together, the winner's telegram follows, and the  *)
(* next SYN ends it.  Bytes written together leave their conjunction on    *)
(* the wire.                                                               *)
(***************************************************************************)
EXTENDS Integers, Sequences, FiniteSetsExt

CONSTANTS
  Nodes,           \* the masters on the bus
  Address,         \* their addresses
  LockCounterMax,  \* their m_lock_counter_max
  Nobody,          \* no node, or a byte that is no node's address
  Broadcast        \* the broadcast address

\* The nibbles of master addresses: the bits of one are among those of the
\* next, so that the conjunction of several is the smallest.  The lower nibble
\* of an address is its priority class.
MasterNibbles == {0, 1, 3, 7, 15}

\* A counter of 1 would not outlast the second round of an arbitration.
ASSUME ArbitrationAssumption ==
  /\ Address \in [Nodes -> [class : MasterNibbles, sub : MasterNibbles]]
  /\ \A m, n \in Nodes : Address[m] = Address[n] => m = n
  /\ LockCounterMax \in [Nodes -> Nat] /\ \A n \in Nodes : LockCounterMax[n] >= 2
  /\ Nobody \notin Nodes /\ Broadcast \notin Nodes \cup {Nobody}

VARIABLES
  phase,           \* what is on the bus next
  freed,           \* the node that has written the last SYN itself, or Nobody
  state,           \* of each node's service, as far as it matters here
  message,         \* each node's first message: queued, or m_activeMessage
  m_lock_counter,
  m_sequence,      \* the bytes each node has stored; of the winner's no more
                   \* than its source, its target and its first command byte
  \* history, read by no action
  tied,            \* the last arbitration was won by nobody
  lost,            \* the nodes that lost it
  heard            \* the telegram after it: whom it was meant for, who took it

historyVars == <<tied, lost, heard>>
vars == <<phase, freed, state, message, m_lock_counter, m_sequence, historyVars>>

-----------------------------------------------------------------------------
(* monitorBus() at a SYN.                                                  *)

\* Mutant: the counter is decremented at zero too.
CountedBelow(n) == m_lock_counter[n] - 1

Counted(n) == IF m_lock_counter[n] # 0 THEN m_lock_counter[n] - 1 ELSE 0

\* Mutant: the single byte is ignored.
AfterSynPlain(n) == Counted(n)

\* A SYN after a single byte: an arbitration was lost by all, and those that
\* take part in its second round go first.
AfterSyn(n) == IF Len(m_sequence[n]) = 1 /\ Counted(n) < 2 THEN 2 ELSE Counted(n)

\* A node does not hear the SYN it writes in freeBus().
Hears(n) == n # freed

Goes(n) == Hears(n) /\ message[n] # "none" /\ AfterSyn(n) = 0

Syn ==
  /\ phase = "syn"
  /\ phase' = "address"
  /\ m_lock_counter' = [n \in Nodes |-> IF Hears(n) THEN AfterSyn(n) ELSE m_lock_counter[n]]
  /\ m_sequence' = [n \in Nodes |-> IF Hears(n) THEN <<>> ELSE m_sequence[n]]
  /\ message' = [n \in Nodes |-> IF Hears(n) /\ message[n] = "queued" THEN "active" ELSE message[n]]
  /\ state' = [n \in Nodes |-> IF Goes(n) THEN "LockBus" ELSE state[n]]
  /\ UNCHANGED <<freed, historyVars>>

-----------------------------------------------------------------------------
(* lockBus().                                                              *)

Contenders == {n \in Nodes : state[n] = "LockBus"}

\* The byte on the wire when all contenders have written their addresses.
Wire == [class |-> Min({Address[n].class : n \in Contenders}),
         sub   |-> Min({Address[n].sub : n \in Contenders})]

\* Mutant: only the priority class is compared.
WinsByClass(n) == Wire.class = Address[n].class

Wins(n) == Wire = Address[n]

NothingHeard == [meant |-> {}, receivers |-> {}]

Won == \E n \in Contenders : Wins(n)

\* Mutant: a node of the winning class waits like the others.
LosesLikeOthers(n) == LockCounterMax[n]

\* A node of the winning class tries again after the next SYN.
CounterOfLoser(n) == IF Wire.class = Address[n].class THEN 1 ELSE LockCounterMax[n]

Arbitrate ==
  /\ phase = "address" /\ Contenders # {}
  /\ state' = [n \in Nodes |-> IF n \notin Contenders THEN state[n]
                               ELSE IF Wins(n) THEN "SendMessage" ELSE "MonitorBus"]
  /\ m_lock_counter' = [n \in Nodes |-> IF n \in Contenders /\ ~Wins(n) THEN CounterOfLoser(n)
                                        ELSE m_lock_counter[n]]
  \* lockBus() stores nothing of what it reads.
  /\ m_sequence' = [n \in Nodes |-> IF n \in Contenders THEN m_sequence[n] ELSE Append(m_sequence[n], Wire)]
  /\ phase' = IF Won THEN "telegram" ELSE "syn"
  /\ freed' = Nobody
  /\ tied' = ~Won
  /\ lost' = {n \in Contenders : ~Wins(n)}
  /\ heard' = NothingHeard
  /\ UNCHANGED message

\* Nobody writes: the generator's SYN comes next.
Silence ==
  /\ phase = "address" /\ Contenders = {}
  /\ phase' = "syn" /\ freed' = Nobody
  /\ UNCHANGED <<state, message, m_lock_counter, m_sequence, historyVars>>

-----------------------------------------------------------------------------
(* The telegram, from the winner's second byte to its end.                 *)

\* Mutant: the source byte is compared, not the target.
AddressedAtSource(n, bytes) ==
  state[n] = "MonitorBus" /\ (m_sequence[n] \o bytes)[1] \in {n, Broadcast}

\* monitorBus() looks for an address of its own, or the broadcast one, in the
\* second byte it has stored.
Addressed(n, bytes) ==
  state[n] = "MonitorBus" /\ (m_sequence[n] \o bytes)[2] \in {n, Broadcast}

Meant(zz, w) == IF zz = Broadcast THEN Nodes \ {w} ELSE {zz} \cap Nodes

\* Of the nodes that take the telegram for theirs some end with reset(): they
\* send a response, or read a size byte that is too large.  The others clear
\* m_sequence.  All are done when the telegram ends; a misled one may really
\* read on over SYN bytes and answer then.
Telegram(zz, pb, w) ==
  /\ phase = "telegram" /\ state[w] = "SendMessage" /\ zz # w
  /\ LET receivers == {n \in Nodes : Addressed(n, <<zz, pb>>)}
     IN /\ heard' = [meant |-> Meant(zz, w), receivers |-> receivers]
        /\ m_sequence' = [n \in Nodes |-> IF n \in receivers \cup {w} THEN <<>>
                                          ELSE m_sequence[n] \o <<zz, pb>>]
        /\ \E reset \in {resets \cup {w} : resets \in SUBSET receivers} :
             /\ m_lock_counter' = [n \in Nodes |-> IF n \in reset THEN LockCounterMax[n]
                                                   ELSE m_lock_counter[n]]
             /\ message' = [n \in Nodes |-> IF n \in reset /\ message[n] = "active" THEN "none"
                                            ELSE message[n]]
  /\ state' = [state EXCEPT ![w] = "MonitorBus"]
  \* freeBus(), or a timeout and the generator's SYN
  /\ freed' \in {w, Nobody}
  /\ phase' = "syn"
  /\ UNCHANGED <<tied, lost>>

\* transmit(), at any time.
Submit(n) ==
  /\ message[n] = "none"
  /\ message' = [message EXCEPT ![n] = "queued"]
  /\ UNCHANGED <<phase, freed, state, m_lock_counter, m_sequence, historyVars>>

-----------------------------------------------------------------------------
Init ==
  /\ phase = "syn" /\ freed = Nobody
  /\ state = [n \in Nodes |-> "MonitorBus"]
  /\ message = [n \in Nodes |-> "none"]
  /\ m_lock_counter = LockCounterMax
  /\ m_sequence = [n \in Nodes |-> <<>>]
  /\ tied = FALSE /\ lost = {} /\ heard = NothingHeard

Targets == Nodes \cup {Nobody, Broadcast}

SendsTelegram == \E zz, pb \in Targets, w \in Nodes : Telegram(zz, pb, w)

Bus == Syn \/ Arbitrate \/ Silence \/ SendsTelegram

Next == Bus \/ \E n \in Nodes : Submit(n)

Spec == Init /\ [][Next]_vars

\* The SYN generator never stops and nodes that have won send.
FairSpec == Spec /\ WF_vars(Bus)

-----------------------------------------------------------------------------
(* Properties.                                                             *)

Bytes == Targets \cup [class : MasterNibbles, sub : MasterNibbles]

\* The variables have their types.
ArbitrationTypeOK ==
  /\ phase \in {"syn", "address", "telegram"} /\ freed \in Nodes \cup {Nobody}
  /\ state \in [Nodes -> {"MonitorBus", "LockBus", "SendMessage"}]
  /\ message \in [Nodes -> {"none", "queued", "active"}]
  /\ m_lock_counter \in [Nodes -> Nat] /\ m_sequence \in [Nodes -> Seq(Bytes)]
  /\ tied \in BOOLEAN /\ lost \in SUBSET Nodes
  /\ heard \in [meant : SUBSET Nodes, receivers : SUBSET Nodes]

\* No two nodes send at the same time: lockBus() lets one node through, though
\* each compares no more than the byte it reads with the byte it has written.
OneSender ==
  /\ \A m, n \in Nodes : state[m] = "SendMessage" /\ state[n] = "SendMessage" => m = n
  /\ \A n \in Nodes : state[n] = "SendMessage" => phase = "telegram" /\ message[n] = "active"

\* An arbitration whose wire was nobody's address is decided in the next round:
\* lockBus() gives the losers of the winning class a counter of 1, and
\* monitorBus() the others 2 after a single byte, so that no newcomer gets in.
TieIsBroken == tied /\ phase = "address" => Won /\ Contenders \subseteq lost

\* A telegram is taken by those it is meant for and by nobody else, but for
\* nodes that have lost the arbitration before it, whom monitorBus() misleads.
TakenByAddressee == heard.receivers \ lost = heard.meant \ lost

\* monitorBus() is to "handle broadcast and at me addressed messages"
\* (Ebus.cpp:680), also in a node that has just lost an arbitration.
AddresseeTakes == heard.meant \subseteq heard.receivers

\* A node with a message waits for no more than a telegram of somebody: the
\* nodes never yield the bus to each other for ever.
SomebodySends == (\E n \in Nodes : message[n] # "none") ~> (phase = "telegram")

\* lockBus() serves the node whose priority class is ahead of all others,
\* however many telegrams they have (nobody else is promised that): its message
\* is sent, or dropped by the reset() of a telegram it answers.
FirstClassServed ==
  \A n \in Nodes :
    (\A m \in Nodes \ {n} : Address[n].class < Address[m].class) =>
      ((message[n] # "none") ~> (message[n] = "none"))
=============================================================================
