--------------------------- MODULE EbusCallProofs ---------------------------
(***************************************************************************)
(* Theorems about the calls of transmit(), for every number of them, where *)
(* wait() returns only when notified.                                      *)
(***************************************************************************)
EXTENDS EbusProofs

-----------------------------------------------------------------------------
(* The queue as a sequence.                                                *)

LEMMA QueuedIndex ==
  ASSUME NEW q \in Seq(Calls), NEW c
  PROVE  c \in Range(q) <=> \E i \in 1..Len(q) : q[i] = c
  BY DEF Range

LEMMA RangeAppend ==
  ASSUME NEW q \in Seq(Calls), NEW c \in Calls
  PROVE  Range(Append(q, c)) = Range(q) \cup {c}
<1>1. \A i \in 1..Len(q) : Append(q, c)[i] = q[i]
  OBVIOUS
<1>2. Append(q, c)[Len(q) + 1] = c /\ Len(Append(q, c)) = Len(q) + 1
  OBVIOUS
<1>3. Append(q, c) \in Seq(Calls)
  OBVIOUS
<1>4. ASSUME NEW d PROVE d \in Range(Append(q, c)) <=> d \in Range(q) \cup {c}
  <2>1. d \in Range(Append(q, c)) <=> \E i \in 1..Len(q) + 1 : Append(q, c)[i] = d
    BY <1>2, <1>3, QueuedIndex
  <2>2. d \in Range(q) <=> \E i \in 1..Len(q) : q[i] = d
    BY QueuedIndex
  <2> QED
    BY <1>1, <1>2, <2>1, <2>2
<1> QED
  BY <1>4

LEMMA RangeHeadTail ==
  ASSUME NEW q \in Seq(Calls), q # <<>>
  PROVE  /\ Head(q) \in Calls /\ Tail(q) \in Seq(Calls)
         /\ Range(q) = Range(Tail(q)) \cup {Head(q)}
<1>1. /\ Head(q) \in Calls /\ Tail(q) \in Seq(Calls)
      /\ Len(q) \in Nat /\ Len(q) >= 1 /\ Len(Tail(q)) = Len(q) - 1 /\ Head(q) = q[1]
  OBVIOUS
<1>2. \A i \in 1..Len(q) - 1 : Tail(q)[i] = q[i + 1]
  OBVIOUS
<1>3. ASSUME NEW d PROVE d \in Range(q) <=> d \in Range(Tail(q)) \cup {Head(q)}
  <2>1. d \in Range(q) <=> \E i \in 1..Len(q) : q[i] = d
    BY QueuedIndex
  <2>2. d \in Range(Tail(q)) <=> \E i \in 1..Len(q) - 1 : q[i + 1] = d
    <3>1. d \in Range(Tail(q)) <=> \E i \in 1..Len(Tail(q)) : Tail(q)[i] = d
      BY <1>1, QueuedIndex
    <3> QED
      BY <1>1, <1>2, <3>1
  <2>3. ASSUME NEW i \in 1..Len(q), q[i] = d, d # q[1]
        PROVE  i - 1 \in 1..Len(q) - 1 /\ q[(i - 1) + 1] = d
    BY <1>1, <2>3
  <2>4. \A i \in 1..Len(q) - 1 : i + 1 \in 1..Len(q)
    BY <1>1
  <2>5. 1 \in 1..Len(q)
    BY <1>1
  <2> QED
    BY <1>1, <2>1, <2>2, <2>3, <2>4, <2>5
<1> QED
  BY <1>1, <1>3

-----------------------------------------------------------------------------
(* What each kind of step does to the calls.                               *)

LEMMA CallInit == Init => CallInv
<1> SUFFICES ASSUME Init PROVE CallInv
  OBVIOUS
<1>1. /\ m_messageQueue = <<>> /\ Len(m_messageQueue) = 0
      /\ Range(m_messageQueue) = {} /\ Pending = {}
  BY DEF Init, Range, Pending
<1>2. QueuedOnce
  BY <1>1 DEF QueuedOnce
<1>3. PendingWait
  BY <1>1 DEF Init, PendingWait, Unanswered
<1>4. Decided /\ Reported
  BY DEF Init, Decided, Reported, At
<1> QED
  BY <1>2, <1>3, <1>4 DEF CallInv

\* Nothing about the calls changes, and the turn of the active message does
\* not go back.
LEMMA CallsKept ==
  ASSUME TypeOK, CallInv,
         m_activeMessage' = m_activeMessage, m_messageQueue' = m_messageQueue,
         call' = call, result' = result, notified' = notified,
         m_state' = m_state, delivered' = delivered,
         dtor' # "gone" => dtor # "gone",
         Ending => Ending' \/ m_activeMessage = NoMessage,
         At("FreeBus")' => At("FreeBus")
  PROVE  CallInv'
<1>1. Pending' = Pending /\ Unanswered' = Unanswered
  BY DEF Pending, Unanswered
<1>2. QueuedOnce'
  BY DEF CallInv, QueuedOnce
<1>3. PendingWait'
  BY <1>1 DEF CallInv, PendingWait
<1>4. Decided'
  BY EbusAssumption DEF CallInv, Decided
<1>5. Reported'
  BY DEF CallInv, Reported
<1> QED
  BY <1>2, <1>3, <1>4, <1>5 DEF CallInv

\* reset() answers the active message, if there is one.
LEMMA CallsAnswered ==
  ASSUME TypeOK, CallInv, Reset,
         m_messageQueue' = m_messageQueue, call' = call, result' = result,
         delivered' = delivered, dtor' = dtor, ~At("FreeBus")',
         \A c \in Calls : c # m_activeMessage => m_state'[c] = m_state[c],
         m_activeMessage # NoMessage /\ delivered[m_activeMessage] =>
           m_state'[m_activeMessage] \in {"SEQ_OK", "EBUS_ERR_DEVICE"}
  PROVE  CallInv'
<1>1. m_activeMessage' = NoMessage
  BY DEF Reset
<1>2. \A c \in Calls : notified'[c] <=> (notified[c] \/ c = m_activeMessage)
  BY DEF Reset
<1>3. Pending' = Range(m_messageQueue)
  BY <1>1 DEF Pending
<1>4. \A i \in 1..Len(m_messageQueue) :
        m_messageQueue[i] \in Calls /\ m_messageQueue[i] # NoMessage
  BY EbusAssumption DEF TypeOK
<1>5. QueuedOnce'
  BY <1>1, <1>4 DEF CallInv, QueuedOnce
<1>6. m_activeMessage \notin Range(m_messageQueue) /\ Range(m_messageQueue) \subseteq Calls
  BY <1>4, QueuedIndex DEF CallInv, QueuedOnce, TypeOK
<1>7. PendingWait'
  <2>1. \A c \in Pending' : call'[c] = "waiting" /\ ~notified'[c]
    BY <1>2, <1>3, <1>6 DEF CallInv, PendingWait, Pending
  <2>2. ASSUME dtor' # "gone", NEW c \in Unanswered' PROVE c \in Pending'
    <3>1. c \in Unanswered /\ c # m_activeMessage
      BY <2>2, <1>2 DEF Unanswered
    <3>2. c \in Pending
      BY <2>2, <3>1 DEF CallInv, PendingWait
    <3> QED
      BY <1>3, <3>1, <3>2 DEF Pending
  <2>3. \A c \in Calls : call'[c] # "returned" => result'[c] = "none"
    BY DEF CallInv, PendingWait
  <2>4. \A c \in Calls : notified'[c] => call'[c] \in {"waiting", "returned"}
    BY <1>2, EbusAssumption DEF CallInv, PendingWait, Pending
  <2> QED
    BY <2>1, <2>2, <2>3, <2>4 DEF PendingWait
<1>8. Decided'
  BY <1>2 DEF CallInv, Decided, TypeOK
<1>9. Reported'
  BY EbusAssumption DEF CallInv, Reported, TypeOK
<1> QED
  BY <1>5, <1>7, <1>8, <1>9 DEF CallInv

\* monitorBus() takes the head of the queue when no message is active.
LEMMA CallsFetched ==
  ASSUME TypeOK, CallInv, MonitorSyn PROVE CallInv'
<1> USE DEF MonitorSyn, KeepShared, Return, appVars, callerVars
<1>1. CASE ~Fetch
  <2>1. m_activeMessage' = m_activeMessage /\ m_messageQueue' = m_messageQueue
    BY <1>1 DEF Fetched
  <2> QED
    BY <2>1, CallsKept DEF InHandler, Ending, At
<1>2. CASE Fetch
  <2> DEFINE q == m_messageQueue
  <2>1. /\ m_activeMessage = NoMessage /\ q \in Seq(Calls) /\ q # <<>>
        /\ m_activeMessage' = Head(q) /\ m_messageQueue' = Tail(q)
    BY <1>2 DEF Fetch, Fetched, TypeOK
  <2>2. /\ Len(q) \in Nat /\ Len(q) >= 1 /\ Len(Tail(q)) = Len(q) - 1
        /\ Head(q) = q[1] /\ \A i \in 1..Len(q) - 1 : Tail(q)[i] = q[i + 1]
    BY <2>1
  <2>3. Pending' = Pending /\ Unanswered' = Unanswered
    BY <2>1, RangeHeadTail, EbusAssumption DEF Pending, Unanswered
  <2>4. QueuedOnce'
    <3>1. \A i, j \in 1..Len(q) : q[i] = q[j] => i = j
      BY DEF CallInv, QueuedOnce
    <3>2. ASSUME NEW i \in 1..Len(q) - 1, NEW j \in 1..Len(q) - 1
          PROVE  /\ Tail(q)[i] = Tail(q)[j] => i = j
                 /\ Tail(q)[i] # Head(q)
      <4>1. i + 1 \in 1..Len(q) /\ j + 1 \in 1..Len(q) /\ 1 \in 1..Len(q)
            /\ i + 1 # 1 /\ (i + 1 = j + 1 => i = j)
        BY <2>2
      <4> QED
        BY <2>2, <3>1, <4>1
    <3> QED
      BY <2>1, <2>2, <3>2 DEF QueuedOnce
  <2>5. PendingWait'
    BY <2>3 DEF CallInv, PendingWait
  <2>6. Decided'
    BY <2>1, EbusAssumption DEF CallInv, Decided
  <2>7. Reported'
    BY DEF CallInv, Reported, At
  <2> QED
    BY <2>4, <2>5, <2>6, <2>7 DEF CallInv
<1> QED
  BY <1>1, <1>2

\* The telegram of the active message is delivered, and the bus to be freed.
LEMMA CallsDelivered ==
  ASSUME TypeOK, CallInv, Held, SendDone \/ ResponseValid PROVE CallInv'
<1> DEFINE a == m_activeMessage
<1> USE DEF SendDone, ResponseValid, Ends, Delivers, ActiveStep, InHandler, Return,
            KeepShared, KeepMessages, appVars, callerVars
<1>1. a \in Calls /\ ~Ending
  BY DEF Held, MessagesHeld, At, ActiveStates, TypeOK, Ending
<1>2. call[a] = "waiting" /\ ~notified[a] /\ result[a] = "none" /\ m_state[a] = "SEQ_OK"
  BY <1>1, EbusAssumption DEF CallInv, PendingWait, Pending, Decided
<1>3. /\ m_activeMessage' = a /\ m_messageQueue' = m_messageQueue /\ call' = call
      /\ result' = result /\ notified' = notified /\ m_state' = m_state /\ dtor' = dtor
      /\ Ending' /\ delivered'[a]
      /\ \A c \in Calls : c # a => delivered'[c] = delivered[c]
  BY <1>1 DEF Ending, TypeOK
<1>4. Pending' = Pending /\ Unanswered' = Unanswered
  BY <1>3 DEF Pending, Unanswered
<1>5. QueuedOnce' /\ PendingWait'
  BY <1>3, <1>4 DEF CallInv, QueuedOnce, PendingWait
<1>6. Decided'
  BY <1>1, <1>3 DEF CallInv, Decided
<1>7. Reported'
  BY <1>1, <1>2, <1>3 DEF CallInv, Reported
<1> QED
  BY <1>5, <1>6, <1>7 DEF CallInv

\* The telegram of the active message has failed, and the bus is to be freed.
LEMMA CallsGivenUp ==
  ASSUME TypeOK, CallInv, Held,
         (\E ack \in {"wrong", "nak"} : SendFails(ack)) \/ ResponseFails
  PROVE  CallInv'
<1> DEFINE a == m_activeMessage
<1> USE DEF SendFails, ResponseFails, Ends, GivesUp, ActiveStep, InHandler, Return,
            KeepShared, KeepMessages, SetActiveState, appVars, callerVars, historyVars
<1>1. a \in Calls /\ ~Ending
  BY DEF Held, MessagesHeld, At, ActiveStates, TypeOK, Ending
<1>2. ~notified[a] /\ ~delivered[a]
  BY <1>1, EbusAssumption DEF CallInv, PendingWait, Pending, Decided
<1>3. /\ m_activeMessage' = a /\ m_messageQueue' = m_messageQueue /\ call' = call
      /\ result' = result /\ notified' = notified /\ delivered' = delivered
      /\ dtor' = dtor /\ Ending' /\ m_state'[a] = "EBUS_ERR_TRANSMIT"
      /\ \A c \in Calls : c # a => m_state'[c] = m_state[c]
  BY <1>1 DEF Ending, TypeOK
<1>4. Pending' = Pending /\ Unanswered' = Unanswered
  BY <1>3 DEF Pending, Unanswered
<1>5. QueuedOnce' /\ PendingWait'
  BY <1>3, <1>4 DEF CallInv, QueuedOnce, PendingWait
<1>6. Decided'
  BY <1>1, <1>3 DEF CallInv, Decided
<1>7. Reported'
  BY <1>1, <1>2, <1>3 DEF CallInv, Reported
<1> QED
  BY <1>5, <1>6, <1>7 DEF CallInv

\* A call that has not come to wait() is unknown to the service.
LEMMA CallUnknown ==
  ASSUME TypeOK, CallInv, NEW c \in Calls, call[c] \in {"new", "checked"}
  PROVE  c \notin Pending /\ ~notified[c] /\ ~delivered[c]
<1>1. c \notin Pending /\ ~notified[c]
  BY DEF CallInv, PendingWait
<1> QED
  BY <1>1, EbusAssumption DEF CallInv, Decided, Pending

LEMMA CallsSubmitted ==
  ASSUME TypeOK, CallInv, NEW c \in Calls, Enqueue(c) PROVE CallInv'
<1> DEFINE q == m_messageQueue
<1> USE DEF Enqueue, CallStep, KeepThread, threadVars, busVars, historyVars, appVars
<1>1. /\ q \in Seq(Calls) /\ m_messageQueue' = Append(q, c)
      /\ call[c] = "checked" /\ call'[c] = "waiting"
      /\ \A d \in Calls : d # c => call'[d] = call[d]
      /\ m_activeMessage' = m_activeMessage /\ notified' = notified
      /\ m_state' = m_state /\ delivered' = delivered /\ result' = result
      /\ dtor' = dtor /\ state' = state /\ pc' = pc
  BY DEF TypeOK
<1>2. c \notin Pending /\ ~notified[c] /\ ~delivered[c] /\ result[c] = "none"
  BY <1>1, CallUnknown DEF CallInv, PendingWait
<1>3. Pending' = Pending \cup {c}
  BY <1>1, RangeAppend DEF Pending
<1>4. Unanswered' = Unanswered \cup {c}
  BY <1>1, <1>2 DEF Unanswered
<1>5. QueuedOnce'
  <2>1. /\ Len(q) \in Nat /\ Len(Append(q, c)) = Len(q) + 1
        /\ Append(q, c)[Len(q) + 1] = c
        /\ \A i \in 1..Len(q) : Append(q, c)[i] = q[i]
    BY <1>1
  <2>2. \A i \in 1..Len(q) : q[i] # c
    BY <1>1, <1>2, QueuedIndex DEF Pending
  <2>3. c # m_activeMessage
    BY <1>2, EbusAssumption DEF Pending
  <2>4. ASSUME NEW i \in 1..Len(q) + 1, NEW j \in 1..Len(q) + 1
        PROVE  /\ Append(q, c)[i] = Append(q, c)[j] => i = j
               /\ Append(q, c)[i] # m_activeMessage
    <3>1. \A k \in 1..Len(q) + 1 : k \in 1..Len(q) \/ k = Len(q) + 1
      BY <2>1
    <3> QED
      BY <2>1, <2>2, <2>3, <3>1 DEF CallInv, QueuedOnce
  <2> QED
    BY <1>1, <2>1, <2>4 DEF QueuedOnce
<1>6. PendingWait'
  <2>1. Pending \subseteq Calls
    BY <1>1, QueuedIndex DEF Pending, TypeOK
  <2> QED
    BY <1>1, <1>2, <1>3, <1>4, <2>1 DEF CallInv, PendingWait
<1>7. Decided' /\ Reported'
  BY <1>1 DEF CallInv, Decided, Reported, Ending, At
<1> QED
  BY <1>5, <1>6, <1>7 DEF CallInv

\* A call goes on, without the service: it is refused, it finds the device
\* online, or it returns with its answer.
LEMMA CallsReturned ==
  ASSUME TypeOK, CallInv, ~SpuriousWakeups, NEW c \in Calls,
         TransmitInvalid(c) \/ TransmitOffline(c) \/ TransmitOnline(c) \/ TransmitWake(c)
  PROVE  CallInv'
<1> USE DEF KeepThread, threadVars, busVars, historyVars, appVars
<1>1. /\ m_messageQueue' = m_messageQueue /\ m_activeMessage' = m_activeMessage
      /\ notified' = notified /\ m_state' = m_state /\ delivered' = delivered
      /\ dtor' = dtor /\ state' = state /\ pc' = pc
  BY DEF TransmitInvalid, TransmitOffline, TransmitOnline, TransmitWake, Returns, CallStep
<1>2. \A d \in Calls : d # c => call'[d] = call[d] /\ result'[d] = result[d]
  BY DEF TransmitInvalid, TransmitOffline, TransmitOnline, TransmitWake, Returns,
         CallStep, TypeOK
<1>3. \/ /\ call[c] = "new" /\ call'[c] = "checked" /\ result'[c] = result[c]
      \/ /\ call[c] = "new" /\ call'[c] = "returned"
      \/ /\ call[c] = "waiting" /\ notified[c] /\ call'[c] = "returned"
         /\ result'[c] = m_state[c]
  BY DEF TransmitInvalid, TransmitOffline, TransmitOnline, TransmitWake, Returns,
         CallStep, TypeOK
<1>4. c \notin Pending /\ c \notin Unanswered /\ c \notin Unanswered'
  BY <1>1, <1>3, CallUnknown DEF CallInv, PendingWait, Unanswered
<1>5. call[c] = "new" => ~notified[c] /\ ~delivered[c] /\ result[c] = "none"
  BY CallUnknown DEF CallInv, PendingWait
<1>6. Pending' = Pending
  BY <1>1 DEF Pending
<1>7. Unanswered' = Unanswered
  BY <1>1, <1>2, <1>4 DEF Unanswered
<1>8. Pending \subseteq Calls
  BY QueuedIndex DEF Pending, TypeOK
<1>9. QueuedOnce'
  BY <1>1 DEF CallInv, QueuedOnce
<1>10. PendingWait'
  <2>1. \A d \in Pending' : call'[d] = "waiting" /\ ~notified'[d]
    BY <1>1, <1>2, <1>4, <1>6, <1>8 DEF CallInv, PendingWait
  <2>2. dtor' # "gone" => \A d \in Unanswered' : d \in Pending'
    BY <1>1, <1>6, <1>7 DEF CallInv, PendingWait
  <2>3. \A d \in Calls : call'[d] # "returned" => result'[d] = "none"
    BY <1>2, <1>3, <1>5 DEF CallInv, PendingWait
  <2>4. \A d \in Calls : notified'[d] => call'[d] \in {"waiting", "returned"}
    BY <1>1, <1>2, <1>3, <1>5 DEF CallInv, PendingWait
  <2> QED
    BY <2>1, <2>2, <2>3, <2>4 DEF PendingWait
<1>11. Decided'
  BY <1>1 DEF CallInv, Decided, Ending
<1>12. Reported'
  BY <1>1, <1>2, <1>3, <1>5 DEF CallInv, Reported, At
<1> QED
  BY <1>9, <1>10, <1>11, <1>12 DEF CallInv

\* The destructor empties the queue.
LEMMA CallsDropped ==
  ASSUME TypeOK, CallInv, DtorJoin PROVE CallInv'
<1> USE DEF DtorJoin, AppStep, KeepThread, threadVars, busVars, historyVars, callerVars
<1>1. /\ m_messageQueue' = <<>> /\ Len(m_messageQueue') = 0 /\ Range(m_messageQueue') = {}
      /\ m_activeMessage' = m_activeMessage
  BY DEF Range
<1>2. Pending' \subseteq Pending
  BY <1>1 DEF Pending
<1>3. QueuedOnce'
  BY <1>1 DEF QueuedOnce
<1>4. PendingWait'
  BY <1>2 DEF CallInv, PendingWait
<1>5. Decided' /\ Reported'
  BY DEF CallInv, Decided, Reported, Ending, At
<1> QED
  BY <1>3, <1>4, <1>5 DEF CallInv

-----------------------------------------------------------------------------
(* Every step.                                                             *)

LEMMA CallsDeviceError ==
  ASSUME TypeOK, CallInv, NEW error \in BOOLEAN, HandleDeviceError(error)
  PROVE  CallInv'
<1> USE DEF HandleDeviceError, appVars, callerVars, historyVars
<1>1. ~At("FreeBus")'
  BY DEF Return, At
<1>2. \A c \in Calls :
        m_state'[c] = IF c = m_activeMessage THEN "EBUS_ERR_DEVICE" ELSE m_state[c]
  BY DEF SetActiveState
<1> QED
  BY <1>1, <1>2, CallsAnswered DEF TypeOK

LEMMA CallsLifecycle == TypeOK /\ CallInv /\ Held /\ Lifecycle => CallInv'
<1> SUFFICES ASSUME TypeOK, CallInv, Held, Lifecycle PROVE CallInv'
  OBVIOUS
<1> USE DEF threadVars, busVars, appVars, callerVars, historyVars, Return, KeepShared
<1>1. CASE Loop
  BY <1>1, CallsKept DEF Loop, Ending, At
<1>2. CASE IdleSystem
  BY <1>2, CallsAnswered DEF IdleSystem, IdleStep, At, CallInv, Reported, TypeOK
<1>3. CASE GoOffline \/ ClearClose \/ IdleBlock
  BY <1>3, CallsKept DEF GoOffline, ClearClose, IdleBlock, IdleStep, Ending, At
<1>4. CASE IdlePass \/ IdleWake
  BY <1>4, CallsKept
  DEF IdlePass, IdleWake, LeaveIdle, Held, MessagesHeld, IdlePcs, At
<1>5. CASE OpenDevice
  BY <1>5, CallsKept DEF OpenDevice, InHandler, Ending, At
<1>6. ASSUME NEW error \in BOOLEAN, HandleDeviceError(error) PROVE CallInv'
  BY <1>6, CallsDeviceError
<1>7. CASE FlushSyn
  BY <1>7, CallsAnswered DEF FlushSyn, At, CallInv, Reported, TypeOK
<1> QED
  BY <1>1, <1>2, <1>3, <1>4, <1>5, <1>6, <1>7 DEF Lifecycle, OpenFails, IOFails

LEMMA CallsMonitor == TypeOK /\ CallInv /\ Monitor => CallInv'
<1> SUFFICES ASSUME TypeOK, CallInv, Monitor PROVE CallInv'
  OBVIOUS
<1> USE DEF threadVars, busVars, appVars, callerVars, historyVars, Return, KeepShared
<1>1. CASE MonitorSyn
  BY <1>1, CallsFetched
<1>2. CASE ForeignByte \/ AddressedByte
  BY <1>2, CallsKept
  DEF ForeignByte, AddressedByte, MonitorByte, InHandler, Ending, At
<1> QED
  BY <1>1, <1>2 DEF Monitor

LEMMA CallsPassive == TypeOK /\ CallInv /\ Passive => CallInv'
<1> SUFFICES ASSUME TypeOK, CallInv, Passive PROVE CallInv'
  OBVIOUS
<1> USE DEF threadVars, busVars, appVars, callerVars, historyVars, Return, KeepShared,
            PassiveStep, PassiveEnds, InHandler
<1>1. CASE ReceiveTooLong
  <2>1. m_activeMessage \in Calls /\ ~delivered[m_activeMessage]
    BY <1>1, EbusAssumption
    DEF ReceiveTooLong, CallInv, Decided, PendingWait, Pending, Ending, TypeOK
  <2>2. \A c \in Calls : c # m_activeMessage => m_state'[c] = m_state[c]
    BY <1>1 DEF ReceiveTooLong, SetActiveState
  <2> QED
    BY <1>1, <2>1, <2>2, CallsAnswered DEF ReceiveTooLong, At
<1>2. CASE ReceiveTooLongCrash
  BY <1>2, CallsKept DEF ReceiveTooLongCrash, Ending, At
<1>3. CASE ReceiveInvalid \/ ProcessNoResponse
  BY <1>3, CallsKept DEF ReceiveInvalid, ProcessNoResponse, Ending, At
<1>4. CASE ReceiveValid \/ ProcessResponse
  BY <1>4, CallsKept DEF ReceiveValid, ProcessResponse, Ending, At
<1>5. CASE ResponseRefused
  BY <1>5, CallsKept DEF ResponseRefused, Retry, Ending, At
<1>6. ASSUME NEW ack \in {"ack", "wrong", "nak"}, ResponseSent(ack) PROVE CallInv'
  BY <1>6, CallsAnswered DEF ResponseSent, At, CallInv, Reported, TypeOK
<1> QED
  BY <1>1, <1>2, <1>3, <1>4, <1>5, <1>6 DEF Passive

LEMMA CallsActive == TypeOK /\ CallInv /\ Held /\ Active => CallInv'
<1> SUFFICES ASSUME TypeOK, CallInv, Held, Active PROVE CallInv'
  OBVIOUS
<1> USE DEF threadVars, busVars, appVars, callerVars, historyVars, Return, KeepShared,
            ActiveStep, KeepMessages, InHandler
<1>1. CASE LockWon
  BY <1>1, CallsKept DEF LockWon, Ending, At
<1>2. ASSUME NEW fit \in BOOLEAN, LockLost(fit) PROVE CallInv'
  BY <1>2, CallsKept DEF LockLost, Ending, At
<1>3. CASE SendAcked
  BY <1>3, CallsKept DEF SendAcked, Ending, At
<1>4. CASE SendRefused \/ ResponseInvalid
  BY <1>4, CallsKept DEF SendRefused, ResponseInvalid, Retry, Ending, At
<1>5. CASE ResponseTooLong
  <2>1. m_activeMessage \in Calls /\ ~delivered[m_activeMessage]
    BY <1>5, EbusAssumption
    DEF ResponseTooLong, Held, MessagesHeld, At, ActiveStates, CallInv, Decided,
        PendingWait, Pending, Ending, TypeOK
  <2>2. \A c \in Calls : c # m_activeMessage => m_state'[c] = m_state[c]
    BY <1>5 DEF ResponseTooLong, SetActiveState
  <2> QED
    BY <1>5, <2>1, <2>2, CallsAnswered DEF ResponseTooLong, At
<1>6. CASE FreeBus
  BY <1>6, CallsAnswered DEF FreeBus, At, CallInv, Reported, TypeOK
<1> QED
  BY <1>1, <1>2, <1>3, <1>4, <1>5, <1>6, CallsDelivered, CallsGivenUp DEF Active

LEMMA CallsApplication ==
  ASSUME TypeOK, CallInv, ~SpuriousWakeups,
         (\E c \in Calls : Transmit(c)) \/ Open \/ Close \/ DtorClose \/ Destructor
  PROVE  CallInv'
<1>1. ASSUME NEW c \in Calls, Transmit(c) PROVE CallInv'
  BY <1>1, CallsReturned, CallsSubmitted DEF Transmit
<1>2. CASE Open \/ Close \/ DtorClose \/ DtorOffline \/ DtorNotify
  BY <1>2, CallsKept
  DEF Open, Close, DtorClose, DtorOffline, DtorNotify, AppStep, KeepThread,
      threadVars, busVars, callerVars, historyVars, Ending, At
<1> QED
  BY <1>1, <1>2, CallsDropped DEF Destructor

\* The four invariants of EbusInv about the calls hold.
THEOREM CallsAlways ==
  ASSUME ~SpuriousWakeups PROVE Spec => []CallInv
<1>1. TypeOK /\ Held /\ CallInv /\ [Next]_vars => CallInv'
  <2> SUFFICES ASSUME TypeOK, Held, CallInv, [Next]_vars PROVE CallInv'
    OBVIOUS
  <2>1. CASE Run
    BY <2>1, CallsLifecycle, CallsMonitor, CallsPassive, CallsActive DEF Run
  <2>2. CASE (\E c \in Calls : Transmit(c)) \/ Open \/ Close \/ DtorClose \/ Destructor
    BY <2>2, CallsApplication
  <2>3. CASE UNCHANGED vars
    BY <2>3, CallsKept
    DEF vars, threadVars, busVars, appVars, callerVars, historyVars, Ending, At
  <2> QED
    BY <2>1, <2>2, <2>3 DEF Next
<1> QED
  BY CallInit, <1>1, TypeCorrect, HeldAlways, PTL DEF Spec

-----------------------------------------------------------------------------
(* What follows for the callers of transmit().                             *)

\* The invariant that is checked by TLC is the one that is proved.
THEOREM InvAlways ==
  ASSUME ~SpuriousWakeups PROVE Spec => []IInv
<1>1. TypeOK /\ Held /\ CallInv => IInv
  BY DEF IInv, Held
<1> QED
  BY <1>1, TypeCorrect, HeldAlways, CallsAlways, PTL

\* A call blocked in transmit() is queued or active, in one place and once,
\* and every message the service holds has its caller waiting.
THEOREM CallsAccounted ==
  ASSUME ~SpuriousWakeups PROVE Spec => []CallAccounting
<1>1. IInv => CallAccounting
  <2> SUFFICES ASSUME IInv, dtor # "gone"
               PROVE  /\ Pending = Unanswered
                      /\ IsInjective(m_messageQueue)
                      /\ m_activeMessage \notin Range(m_messageQueue)
    BY DEF CallAccounting
  <2>1. Pending \subseteq Calls
    BY QueuedIndex DEF IInv, Pending, TypeOK
  <2>2. Pending = Unanswered
    BY <2>1 DEF IInv, CallInv, PendingWait, Unanswered
  <2>3. IsInjective(m_messageQueue)
    BY DEF IInv, CallInv, QueuedOnce, IsInjective, TypeOK
  <2>4. m_activeMessage \notin Range(m_messageQueue)
    BY QueuedIndex DEF IInv, CallInv, QueuedOnce, TypeOK
  <2> QED
    BY <2>2, <2>3, <2>4
<1> QED
  BY <1>1, InvAlways, PTL

\* A telegram whose protocol is complete is not put on the bus again.
THEOREM NeverResent ==
  ASSUME ~SpuriousWakeups PROVE Spec => []NoResend
<1>1. IInv => NoResend
  BY EbusAssumption
  DEF IInv, CallInv, Decided, PendingWait, Pending, Ending, NoResend, TypeOK
<1> QED
  BY <1>1, InvAlways, PTL

\* A delivered telegram is never reported as failed in transmission.
THEOREM DeliveriesReported ==
  ASSUME ~SpuriousWakeups PROVE Spec => []DeliveryReported
<1>1. IInv => DeliveryReported
  BY DEF IInv, CallInv, Reported, DeliveryReported
<1> QED
  BY <1>1, InvAlways, PTL

\* The step of reset() in the handlers other than idleSystem() and
\* sendResponse() answers SEQ_OK only for a delivered telegram.
LEMMA AbandonStep ==
  ASSUME IInv, Next, NEW c \in Calls,
         ~notified[c], notified'[c], m_state'[c] = "SEQ_OK", ~delivered[c]
  PROVE  state \in {"IdleSystem", "SendResponse"}
<1> USE DEF threadVars, busVars, appVars, callerVars, historyVars
<1>1. Reset => c = m_activeMessage
  BY DEF Reset
<1>2. UNCHANGED notified => FALSE
  OBVIOUS
<1>3. CASE Loop \/ GoOffline \/ ClearClose \/ IdleBlock \/ IdlePass \/ IdleWake \/ OpenDevice
  BY <1>2, <1>3
  DEF Loop, GoOffline, ClearClose, IdleBlock, IdlePass, IdleWake, LeaveIdle, OpenDevice
<1>4. CASE IdleSystem
  BY <1>4 DEF IdleSystem
<1>5. ASSUME NEW error \in BOOLEAN, HandleDeviceError(error) PROVE FALSE
  BY <1>1, <1>5 DEF HandleDeviceError, SetActiveState
<1>6. CASE FlushSyn
  BY <1>1, <1>6, EbusAssumption DEF FlushSyn, IInv, MessagesHeld, IdlePcs
<1>7. CASE Monitor
  BY <1>2, <1>7 DEF Monitor, MonitorSyn, ForeignByte, AddressedByte, MonitorByte
<1>8. CASE ReceiveTooLong \/ ResponseTooLong
  BY <1>1, <1>8 DEF ReceiveTooLong, ResponseTooLong, SetActiveState
<1>9. ASSUME NEW ack \in {"ack", "wrong", "nak"}, ResponseSent(ack)
      PROVE  state = "SendResponse"
  BY <1>9 DEF ResponseSent, PassiveStep, InHandler
<1>10. CASE FreeBus
  BY <1>1, <1>10 DEF FreeBus, ActiveStep, InHandler, IInv, CallInv, Reported, At
<1>11. CASE ReceiveTooLongCrash \/ ReceiveInvalid \/ ReceiveValid
  BY <1>2, <1>11 DEF ReceiveTooLongCrash, ReceiveInvalid, ReceiveValid, PassiveEnds
<1>12. CASE ProcessNoResponse \/ ProcessResponse \/ ResponseRefused
  BY <1>2, <1>12 DEF ProcessNoResponse, ProcessResponse, ResponseRefused, PassiveEnds, Retry
<1>13. ASSUME NEW fit \in BOOLEAN, LockLost(fit) PROVE FALSE
  BY <1>2, <1>13 DEF LockLost
<1>14. CASE LockWon \/ SendDone \/ SendAcked \/ SendRefused
  BY <1>2, <1>14 DEF LockWon, SendDone, SendAcked, SendRefused, Ends, KeepMessages, Retry
<1>15. ASSUME NEW ack \in {"wrong", "nak"}, SendFails(ack) PROVE FALSE
  BY <1>2, <1>15 DEF SendFails, Ends, KeepMessages
<1>16. CASE ResponseValid \/ ResponseInvalid \/ ResponseFails
  BY <1>2, <1>16 DEF ResponseValid, ResponseInvalid, ResponseFails, Ends, KeepMessages, Retry
<1>17. CASE (\E d \in Calls : Transmit(d)) \/ Open \/ Close \/ DtorClose \/ Destructor
  BY <1>2, <1>17
  DEF Transmit, TransmitInvalid, TransmitOffline, TransmitOnline, Enqueue,
      TransmitWake, Returns, CallStep, Open, Close, DtorClose, Destructor,
      DtorOffline, DtorNotify, DtorJoin, AppStep, KeepThread
<1> QED
  BY <1>3, <1>4, <1>5, <1>6, <1>7, <1>8, <1>9, <1>10, <1>11, <1>12, <1>13, <1>14,
     <1>15, <1>16, <1>17
  DEF Next, Run, Lifecycle, Passive, Active, OpenFails, IOFails

\* Only idleSystem() and sendResponse() answer a call SEQ_OK without its
\* telegram being delivered.
THEOREM AbandonedOnly ==
  ASSUME ~SpuriousWakeups PROVE Spec => AbandonedOnlyBy
<1>1. IInv /\ [Next]_vars =>
        [\A c \in Calls :
           /\ ~notified[c] /\ notified'[c]
           /\ m_state'[c] = "SEQ_OK" /\ ~delivered[c]
           => state \in {"IdleSystem", "SendResponse"}]_vars
  BY AbandonStep
<1> QED
  BY <1>1, InvAlways, PTL DEF Spec, AbandonedOnlyBy
=============================================================================
