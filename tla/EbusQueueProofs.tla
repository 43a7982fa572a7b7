-------------------------- MODULE EbusQueueProofs --------------------------
(***************************************************************************)
(* Ebus implements TransmitQueue, for every number of calls, where wait()  *)
(* returns only when notified; and it keeps what transmit() promises as    *)
(* long as nobody closes the service or addresses a telegram to it.        *)
(***************************************************************************)
EXTENDS EbusCallProofs, EbusQueue

\* The destructor leaves neither a running thread nor a call on the way to the
\* queue; and a message is in no state but these three.
EndInv ==
  /\ dtor = "gone" => pc = "stopped"
  /\ dtor # "alive" => \A c \in Calls : call[c] # "checked"
  /\ \A c \in Calls : m_state[c] \in {"SEQ_OK", "EBUS_ERR_TRANSMIT", "EBUS_ERR_DEVICE"}

QInv == IInv /\ EndInv

-----------------------------------------------------------------------------
(* What the steps of the service thread do to the calls.                   *)

\* Nothing but the failure of the active message.
Keeps ==
  /\ UNCHANGED <<m_activeMessage, m_messageQueue, notified, delivered>>
  /\ \/ UNCHANGED m_state
     \/ m_activeMessage \in Calls /\ SetActiveState("EBUS_ERR_TRANSMIT")

Answers ==
  /\ Reset /\ UNCHANGED <<m_messageQueue, delivered>>
  /\ \/ UNCHANGED m_state
     \/ \E code \in {"EBUS_ERR_TRANSMIT", "EBUS_ERR_DEVICE"} : SetActiveState(code)

Fetches == MonitorSyn /\ Fetch

Completes == SendDone \/ ResponseValid

ThreadStep ==
  /\ pc \notin {"stopped", "crashed"}
  /\ UNCHANGED <<call, result, dtor>>
  /\ Keeps \/ Answers \/ Fetches \/ Completes

LEMMA RunIsThreadStep == ASSUME QInv, Run PROVE ThreadStep
<1> USE DEF ThreadStep, threadVars, busVars, appVars, callerVars, historyVars, Return,
            KeepShared, InHandler
<1>1. CASE Loop \/ GoOffline \/ ClearClose \/ IdleBlock \/ IdlePass \/ IdleWake \/ OpenDevice
  BY <1>1
  DEF Keeps, Loop, GoOffline, ClearClose, IdleBlock, IdlePass, IdleWake, IdleStep,
      LeaveIdle, OpenDevice
<1>2. CASE IdleSystem
  BY <1>2 DEF Answers, IdleSystem, IdleStep
<1>3. ASSUME NEW error \in BOOLEAN, HandleDeviceError(error),
             pc \notin {"stopped", "crashed"}
      PROVE  ThreadStep
  BY <1>3 DEF Answers, HandleDeviceError
<1>4. CASE FlushSyn
  BY <1>4 DEF Answers, FlushSyn
<1>5. CASE MonitorSyn
  BY <1>5 DEF Fetches, Keeps, MonitorSyn, Fetched
<1>6. CASE ForeignByte \/ AddressedByte
  BY <1>6 DEF Keeps, ForeignByte, AddressedByte, MonitorByte
<1>7. CASE ReceiveTooLong
  BY <1>7 DEF Answers, ReceiveTooLong, PassiveStep
<1>8. CASE ReceiveTooLongCrash \/ ReceiveInvalid \/ ReceiveValid \/ ProcessNoResponse
           \/ ProcessResponse \/ ResponseRefused
  BY <1>8
  DEF Keeps, ReceiveTooLongCrash, ReceiveInvalid, ReceiveValid, ProcessNoResponse,
      ProcessResponse, ResponseRefused, Retry, PassiveStep, PassiveEnds
<1>9. ASSUME NEW ack \in {"ack", "wrong", "nak"}, ResponseSent(ack) PROVE ThreadStep
  BY <1>9 DEF Answers, ResponseSent, PassiveStep
<1>10. ASSUME NEW fit \in BOOLEAN, LockLost(fit) PROVE ThreadStep
  BY <1>10 DEF Keeps, LockLost, ActiveStep
<1>11. CASE LockWon \/ SendAcked \/ SendRefused \/ ResponseInvalid
  BY <1>11
  DEF Keeps, LockWon, SendAcked, SendRefused, ResponseInvalid, Retry, ActiveStep,
      KeepMessages
<1>12. InHandler("SendMessage") \/ InHandler("ReceiveResponse") => m_activeMessage \in Calls
  BY EbusAssumption DEF QInv, IInv, MessagesHeld, At, ActiveStates, TypeOK
<1>13. ASSUME NEW ack \in {"wrong", "nak"}, SendFails(ack) PROVE ThreadStep
  BY <1>12, <1>13 DEF Keeps, SendFails, GivesUp, Ends, ActiveStep, KeepMessages
<1>14. CASE ResponseFails
  BY <1>12, <1>14 DEF Keeps, ResponseFails, GivesUp, Ends, ActiveStep, KeepMessages
<1>15. CASE ResponseTooLong
  BY <1>15 DEF Answers, ResponseTooLong, ActiveStep
<1>16. CASE FreeBus
  BY <1>16 DEF Answers, FreeBus, ActiveStep
<1>17. CASE SendDone \/ ResponseValid
  BY <1>17 DEF Completes, SendDone, ResponseValid, Ends, ActiveStep
<1> QED
  BY <1>1, <1>2, <1>3, <1>4, <1>5, <1>6, <1>7, <1>8, <1>9, <1>10, <1>11, <1>13,
     <1>14, <1>15, <1>16, <1>17
  DEF Run, Lifecycle, Monitor, Passive, Active, OpenFails, IOFails
LEMMA EndInvInit == Init => EndInv
  BY DEF Init, EndInv

LEMMA EndInvStep == ASSUME QInv, [Next]_vars PROVE EndInv'
<1> USE DEF EndInv
<1>1. CASE Run
  <2>1. ThreadStep
    BY <1>1, RunIsThreadStep
  <2>2. m_state' = m_state \/ \E code \in {"EBUS_ERR_TRANSMIT", "EBUS_ERR_DEVICE"} :
                                SetActiveState(code)
    BY <2>1
    DEF ThreadStep, Keeps, Answers, Fetches, MonitorSyn, Completes, SendDone,
        ResponseValid, Delivers
  <2>3. \A c \in Calls : m_state'[c] \in {"SEQ_OK", "EBUS_ERR_TRANSMIT", "EBUS_ERR_DEVICE"}
    BY <2>2 DEF QInv, SetActiveState
  <2> QED
    BY <2>1, <2>3 DEF ThreadStep, QInv
<1>2. ASSUME NEW c \in Calls, Transmit(c) PROVE EndInv'
  <2>1. UNCHANGED <<pc, dtor, m_state>>
    BY <1>2
    DEF Transmit, TransmitInvalid, TransmitOffline, TransmitOnline, Enqueue,
        TransmitWake, Returns, CallStep, KeepThread, threadVars, appVars
  <2>2. \A d \in Calls : call'[d] = "checked" => call[d] = "checked" \/ dtor = "alive"
    BY <1>2
    DEF Transmit, TransmitInvalid, TransmitOffline, TransmitOnline, Enqueue,
        TransmitWake, Returns, CallStep, QInv, IInv, TypeOK
  <2> QED
    BY <2>1, <2>2 DEF QInv
<1>3. CASE Open \/ Close \/ DtorClose \/ Destructor
  <2>1. UNCHANGED <<pc, m_state, call>>
    BY <1>3
    DEF Open, Close, DtorClose, Destructor, DtorOffline, DtorNotify, DtorJoin,
        AppStep, KeepThread, threadVars, callerVars
  <2> QED
    BY <1>3, <2>1
    DEF QInv, Open, Close, DtorClose, Destructor, DtorOffline, DtorNotify, DtorJoin
<1>4. CASE UNCHANGED vars
  BY <1>4 DEF QInv, vars, threadVars, appVars, callerVars
<1> QED
  BY <1>1, <1>2, <1>3, <1>4 DEF Next

LEMMA QInvAlways == ASSUME ~SpuriousWakeups PROVE Spec => []QInv
<1>1. IInv /\ EndInv /\ [Next]_vars => EndInv'
  BY EndInvStep DEF QInv
<1>2. IInv /\ EndInv => QInv
  BY DEF QInv
<1> QED
  BY <1>1, <1>2, EndInvInit, InvAlways, PTL DEF Spec

-----------------------------------------------------------------------------
(* The steps seen through TransmitQueue.                                   *)

\* The head of the pending calls is the active one, which has no answer yet.
LEMMA ActiveIsHead ==
  ASSUME QInv, dtor # "gone", m_activeMessage # NoMessage
  PROVE  /\ m_activeMessage \in Calls /\ PendingSeq # <<>>
         /\ Head(PendingSeq) = m_activeMessage /\ Tail(PendingSeq) = m_messageQueue
         /\ ~notified[m_activeMessage] /\ AnswerOf[m_activeMessage] = "none"
<1>1. m_activeMessage \in Calls /\ m_messageQueue \in Seq(Calls)
  BY DEF QInv, IInv, TypeOK
<1>2. PendingSeq = <<m_activeMessage>> \o m_messageQueue
  BY DEF PendingSeq, ActiveSeq
<1>3. \A q \in Seq(Calls), c \in Calls :
        <<c>> \o q # <<>> /\ Head(<<c>> \o q) = c /\ Tail(<<c>> \o q) = q
  OBVIOUS
<1>4. m_activeMessage \in Pending
  BY DEF Pending
<1>5. ~notified[m_activeMessage] /\ AnswerOf[m_activeMessage] = "none"
  BY <1>1, <1>4 DEF QInv, IInv, CallInv, PendingWait, AnswerOf
<1> QED
  BY <1>1, <1>2, <1>3, <1>5

Asked == {c \in Calls : call[c] \in {"waiting", "returned"}}
Sent  == {c \in Calls : delivered[c]}
\* A step that TransmitQueue does not see.
Unseen ==
  /\ Asked' = Asked /\ PendingSeq' = PendingSeq
  /\ Sent' = Sent /\ AnswerOf' = AnswerOf

LEMMA KeepsUnseen == ASSUME QInv, ThreadStep, Keeps PROVE Unseen
<1>1. PendingSeq' = PendingSeq /\ Asked' = Asked /\ Sent' = Sent
  BY DEF ThreadStep, Keeps, PendingSeq, ActiveSeq, Asked, Sent
<1>2. ASSUME NEW c \in Calls, notified[c] PROVE m_state'[c] = m_state[c]
  <2>1. m_activeMessage \in Calls => ~notified[m_activeMessage]
    BY EbusAssumption DEF QInv, IInv, CallInv, PendingWait, Pending
  <2> QED
    BY <1>2, <2>1 DEF Keeps, SetActiveState
<1>3. AnswerOf' = AnswerOf
  BY <1>2 DEF ThreadStep, Keeps, AnswerOf
<1> QED
  BY <1>1, <1>3 DEF Unseen

LEMMA FetchUnseen == ASSUME QInv, ThreadStep, Fetches PROVE Unseen
<1> DEFINE q == m_messageQueue
<1>1. /\ m_activeMessage = NoMessage /\ q # <<>> /\ q \in Seq(Calls)
      /\ m_activeMessage' = Head(q) /\ m_messageQueue' = Tail(q) /\ dtor' = dtor
      /\ call' = call /\ delivered' = delivered /\ result' = result
      /\ notified' = notified /\ m_state' = m_state
  BY DEF Fetches, MonitorSyn, Fetch, Fetched, ThreadStep, QInv, IInv, TypeOK
<1>2. Head(q) # NoMessage /\ <<Head(q)>> \o Tail(q) = q /\ <<>> \o q = q
  <2>1. \A s \in Seq(Calls) : s # <<>> => Head(s) \in Calls
    OBVIOUS
  <2>2. \A s \in Seq(Calls) : s # <<>> => <<Head(s)>> \o Tail(s) = s
    OBVIOUS
  <2>3. \A s \in Seq(Calls) : <<>> \o s = s
    OBVIOUS
  <2> QED
    BY <1>1, <2>1, <2>2, <2>3, EbusAssumption
<1>3. PendingSeq' = PendingSeq
  BY <1>1, <1>2 DEF PendingSeq, ActiveSeq
<1> QED
  BY <1>1, <1>3 DEF Unseen, Asked, Sent, AnswerOf

\* reset() with an active message answers the head of the pending calls.
LEMMA AnswersHead ==
  ASSUME QInv, CallInv', EndInv', ThreadStep, Answers
  PROVE  Unseen \/ Queue!Answer \/ Queue!Abandon
<1> DEFINE a == m_activeMessage
<1>1. dtor # "gone" /\ dtor' # "gone"
  BY DEF ThreadStep, QInv, EndInv
<1>2. /\ \A c \in Calls : notified'[c] = (notified[c] \/ c = a)
      /\ m_activeMessage' = NoMessage
      /\ m_messageQueue' = m_messageQueue
      /\ \A c \in Calls : c # a => m_state'[c] = m_state[c]
  BY DEF Answers, Reset, SetActiveState
<1>3. Asked' = Asked /\ Sent' = Sent
  BY DEF ThreadStep, Answers, Asked, Sent
<1>4. PendingSeq' = m_messageQueue
  <2>1. <<>> \o m_messageQueue = m_messageQueue
    BY DEF QInv, IInv, TypeOK
  <2> QED
    BY <1>1, <1>2, <2>1 DEF PendingSeq, ActiveSeq
<1>5. CASE a = NoMessage
  <2>1. PendingSeq' = PendingSeq
    BY <1>1, <1>2, <1>5 DEF PendingSeq, ActiveSeq
  <2>2. \A c \in Calls : (notified'[c] <=> notified[c]) /\ m_state'[c] = m_state[c]
    BY <1>2, <1>5, EbusAssumption
  <2>3. AnswerOf' = AnswerOf
    BY <2>2 DEF AnswerOf, ThreadStep
  <2> QED
    BY <1>3, <2>1, <2>3 DEF Unseen
<1>6. CASE a # NoMessage
  <2>1. /\ a \in Calls /\ PendingSeq # <<>> /\ Head(PendingSeq) = a
        /\ Tail(PendingSeq) = m_messageQueue /\ AnswerOf[a] = "none"
    BY <1>1, <1>6, ActiveIsHead
  <2>2. AnswerOf' = [AnswerOf EXCEPT ![a] = m_state'[a]]
    <3>1. \A c \in Calls : AnswerOf'[c] = IF c = a THEN m_state'[c] ELSE AnswerOf[c]
      BY <1>2 DEF AnswerOf, ThreadStep
    <3> QED
      BY <2>1, <3>1 DEF AnswerOf
  <2>3. Queue!AnswerHead(m_state'[a])
    BY <1>3, <1>4, <2>1, <2>2 DEF Queue!AnswerHead, Asked, Sent
  <2>4. /\ m_state'[a] \in {"SEQ_OK", "EBUS_ERR_TRANSMIT", "EBUS_ERR_DEVICE"}
        /\ a \in Sent => m_state'[a] # "EBUS_ERR_TRANSMIT"
    <3>1. delivered' = delivered
      BY DEF Answers
    <3> QED
      BY <2>1, <3>1 DEF EndInv, CallInv, Reported, Sent
  <2> QED
    BY <2>1, <2>3, <2>4 DEF Queue!Answer, Queue!Abandon, Sent
<1> QED
  BY <1>5, <1>6

LEMMA CompletesDelivers ==
  ASSUME QInv, ThreadStep, Completes PROVE Queue!Deliver
<1> DEFINE a == m_activeMessage
<1>1. a # NoMessage /\ ~Ending
  BY DEF QInv, IInv, MessagesHeld, At, ActiveStates, Ending, Completes, SendDone,
         ResponseValid, Ends, ActiveStep, InHandler
<1>2. dtor # "gone" /\ dtor' = dtor
  BY DEF ThreadStep, QInv, EndInv
<1>3. a \in Calls /\ PendingSeq # <<>> /\ Head(PendingSeq) = a /\ ~notified[a]
  BY <1>1, <1>2, ActiveIsHead
<1>4. a \notin Sent
  BY <1>1, <1>3 DEF QInv, IInv, CallInv, Decided, Sent
<1>5. /\ UNCHANGED <<m_activeMessage, m_messageQueue, notified, m_state>>
      /\ delivered' = [delivered EXCEPT ![a] = TRUE]
  BY DEF Completes, SendDone, ResponseValid, Delivers, Ends, ActiveStep, KeepMessages
<1>6. Asked' = Asked /\ PendingSeq' = PendingSeq /\ AnswerOf' = AnswerOf
  BY <1>2, <1>5 DEF ThreadStep, Asked, PendingSeq, ActiveSeq, AnswerOf
<1>7. Sent' = Sent \cup {a}
  BY <1>3, <1>5 DEF Sent, QInv, IInv, TypeOK
<1> QED
  BY <1>3, <1>4, <1>6, <1>7 DEF Queue!Deliver, Asked, Sent
LEMMA EnqueueSubmits ==
  ASSUME QInv, NEW c \in Calls, Enqueue(c) PROVE Queue!Submit(c)
<1>1. /\ call[c] = "checked" /\ call' = [call EXCEPT ![c] = "waiting"]
      /\ m_messageQueue' = Append(m_messageQueue, c)
      /\ UNCHANGED <<m_activeMessage, dtor, delivered, notified, m_state, result>>
  BY DEF Enqueue, CallStep, KeepThread, historyVars, appVars
<1>2. dtor # "gone"
  BY <1>1 DEF QInv, EndInv
<1>3. PendingSeq' = Append(PendingSeq, c)
  <2>1. \A q \in Seq(Calls), s \in Seq(Calls) : s \o Append(q, c) = Append(s \o q, c)
    OBVIOUS
  <2>2. ActiveSeq \in Seq(Calls) /\ m_messageQueue \in Seq(Calls) /\ ActiveSeq' = ActiveSeq
    BY <1>1 DEF ActiveSeq, QInv, IInv, TypeOK
  <2> QED
    BY <1>1, <1>2, <2>1, <2>2 DEF PendingSeq
<1>4. Asked' = Asked \cup {c} /\ c \notin Asked
  BY <1>1 DEF Asked, QInv, IInv, TypeOK
<1>5. Sent' = Sent /\ AnswerOf' = AnswerOf
  BY <1>1 DEF Sent, AnswerOf
<1> QED
  BY <1>3, <1>4, <1>5 DEF Queue!Submit, Asked, Sent

LEMMA TransmitRefuses ==
  ASSUME QInv, NEW c \in Calls, TransmitInvalid(c) \/ TransmitOffline(c)
  PROVE  Queue!Refuse(c)
<1>1. PICK code \in {"EBUS_ERR_SEQUENCE", "EBUS_ERR_OFFLINE"} : Returns(c, code)
  BY DEF TransmitInvalid, TransmitOffline
<1>2. call[c] = "new"
  BY DEF TransmitInvalid, TransmitOffline
<1>3. /\ call' = [call EXCEPT ![c] = "returned"] /\ result' = [result EXCEPT ![c] = code]
      /\ UNCHANGED <<m_activeMessage, m_messageQueue, dtor, delivered, notified, m_state>>
  BY <1>1 DEF Returns, KeepThread, historyVars, appVars
<1>4. ~notified[c]
  BY <1>2, CallUnknown DEF QInv, IInv
<1>5. PendingSeq' = PendingSeq /\ Sent' = Sent
  BY <1>3 DEF PendingSeq, ActiveSeq, Sent
<1>6. Asked' = Asked \cup {c} /\ c \notin Asked
  BY <1>2, <1>3 DEF Asked, QInv, IInv, TypeOK
<1>7. AnswerOf' = [AnswerOf EXCEPT ![c] = code]
  <2>1. result' \in [Calls -> Codes \cup {"none"}]
    BY <1>3 DEF QInv, IInv, TypeOK, Codes
  <2>2. \A d \in Calls : AnswerOf'[d] = IF d = c THEN code ELSE AnswerOf[d]
    BY <1>3, <1>4 DEF AnswerOf, QInv, IInv, TypeOK
  <2> QED
    BY <2>2 DEF AnswerOf
<1> QED
  BY <1>5, <1>6, <1>7 DEF Queue!Refuse, Asked, Sent

LEMMA OthersUnseen ==
  ASSUME QInv, ~SpuriousWakeups,
         \/ \E c \in Calls : TransmitOnline(c) \/ TransmitWake(c)
         \/ Open \/ Close \/ DtorClose \/ DtorOffline \/ DtorNotify
         \/ UNCHANGED vars
  PROVE  Unseen
<1> USE DEF KeepThread, threadVars, busVars, historyVars, appVars, callerVars
<1>1. /\ UNCHANGED <<m_activeMessage, m_messageQueue, delivered, notified, m_state>>
      /\ dtor = "gone" <=> dtor' = "gone"
  BY DEF TransmitOnline, TransmitWake, CallStep, Returns, Open, Close, DtorClose,
         DtorOffline, DtorNotify, AppStep, vars
<1>2. Asked' = Asked
  BY DEF TransmitOnline, TransmitWake, CallStep, Returns, Open, Close, DtorClose,
         DtorOffline, DtorNotify, AppStep, vars, Asked, QInv, IInv, TypeOK
<1>3. \A c \in Calls : ~notified[c] => result'[c] = result[c]
  BY DEF TransmitOnline, TransmitWake, CallStep, Returns, Open, Close, DtorClose,
         DtorOffline, DtorNotify, AppStep, vars, QInv, IInv, TypeOK
<1>4. AnswerOf' = AnswerOf
  BY <1>1, <1>3 DEF AnswerOf
<1> QED
  BY <1>1, <1>2, <1>4 DEF Unseen, PendingSeq, ActiveSeq, Sent

LEMMA JoinDrops == ASSUME DtorJoin PROVE Queue!Drop
  BY DEF DtorJoin, AppStep, KeepThread, historyVars, callerVars, Queue!Drop,
         PendingSeq, AnswerOf

\* Every step is one of TransmitQueue or none, and where it is one that does
\* not keep the promise it is a step of the handlers named or of DtorJoin.
LEMMA QueueStep ==
  ASSUME QInv, QInv', ~SpuriousWakeups, [Next]_vars
  PROVE  Unseen \/ Queue!Promised \/ (Queue!Abandon /\ Run) \/ (Queue!Drop /\ DtorJoin)
<1>1. CASE Run
  <2>1. ThreadStep
    BY <1>1, RunIsThreadStep
  <2>2. CASE Keeps \/ Fetches
    BY <2>1, <2>2, KeepsUnseen, FetchUnseen
  <2>3. CASE Answers
    BY <1>1, <2>1, <2>3, AnswersHead DEF QInv, IInv, Queue!Promised
  <2>4. CASE Completes
    BY <2>1, <2>4, CompletesDelivers DEF Queue!Promised
  <2> QED
    BY <2>1, <2>2, <2>3, <2>4 DEF ThreadStep
<1>2. ASSUME NEW c \in Calls, Transmit(c) PROVE Unseen \/ Queue!Promised
  <2>1. CASE TransmitInvalid(c) \/ TransmitOffline(c)
    BY <2>1, TransmitRefuses DEF Queue!Promised
  <2>2. CASE Enqueue(c)
    BY <2>2, EnqueueSubmits DEF Queue!Promised
  <2>3. CASE TransmitOnline(c) \/ TransmitWake(c)
    BY <2>3, OthersUnseen
  <2> QED
    BY <1>2, <2>1, <2>2, <2>3 DEF Transmit
<1>3. CASE Open \/ Close \/ DtorClose \/ DtorOffline \/ DtorNotify \/ UNCHANGED vars
  BY <1>3, OthersUnseen
<1>4. CASE DtorJoin
  BY <1>4, JoinDrops
<1> QED
  BY <1>1, <1>2, <1>3, <1>4 DEF Next, Destructor

LEMMA QueueInit == Init => Queue!Init
<1> SUFFICES ASSUME Init PROVE Queue!Init
  OBVIOUS
<1>1. AnswerOf = [c \in Calls |-> "none"]
  BY DEF Init, AnswerOf
<1>2. PendingSeq = <<>>
  BY DEF Init, PendingSeq, ActiveSeq
<1> QED
  BY <1>1, <1>2 DEF Init, Queue!Init

LEMMA UnseenStutters == Unseen => UNCHANGED Queue!vars
  BY DEF Unseen, Queue!vars, Asked, Sent

\* transmit() serves its calls in the order they were queued and answers each
\* once, whatever the application, the bus and the device do.
THEOREM QueueServed ==
  ASSUME ~SpuriousWakeups PROVE Spec => ServesInOrder
<1>1. QInv /\ QInv' /\ [Next]_vars =>
        [Queue!Promised \/ Queue!Abandon \/ Queue!Drop]_Queue!vars
  BY QueueStep, UnseenStutters
<1> QED
  BY <1>1, QueueInit, QInvAlways, PTL DEF Spec, ServesInOrder, Queue!Spec
-----------------------------------------------------------------------------
(* The promise, kept alone.                                                *)

\* Nobody closes or destroys the service, or addresses a telegram to it.
Alone ==
  /\ ~SpuriousWakeups
  /\ "close" \notin UserOps /\ "destroy" \notin UserOps /\ "addressed" \notin Traffic

\* The passive handlers and idleSystem() are never reached.
AloneInv ==
  /\ state \notin {"IdleSystem", "ReceiveMessage", "ProcessMessage", "SendResponse"}
  /\ pc \notin {"idling", "goOffline", "clearClose", "wait", "blocked"}
  /\ ~m_close /\ dtor = "alive"

LEMMA AloneStep == ASSUME Alone, AloneInv, [Next]_vars PROVE AloneInv'
<1> USE DEF AloneInv, threadVars, busVars, appVars, callerVars, historyVars, Return, KeepShared
<1>1. CASE Lifecycle
  <2>1. ~(IdleSystem \/ GoOffline \/ ClearClose \/ IdleBlock \/ IdlePass \/ IdleWake)
    BY DEF IdleSystem, GoOffline, ClearClose, IdleBlock, IdlePass, IdleWake, IdleStep
  <2>2. CASE Loop
    BY <2>2 DEF Loop
  <2>3. CASE OpenDevice
    BY <2>3 DEF OpenDevice, InHandler
  <2>4. CASE FlushSyn
    BY <2>4 DEF FlushSyn
  <2>5. ASSUME NEW error \in BOOLEAN, HandleDeviceError(error) PROVE AloneInv'
    BY <2>5 DEF HandleDeviceError
  <2> QED
    BY <1>1, <2>1, <2>2, <2>3, <2>4, <2>5 DEF Lifecycle, OpenFails, IOFails
<1>2. CASE Monitor
  BY <1>2 DEF Alone, Monitor, MonitorSyn, ForeignByte, AddressedByte, MonitorByte
<1>3. CASE Passive
  BY <1>3
  DEF Passive, ReceiveTooLong, ReceiveTooLongCrash, ReceiveInvalid, ReceiveValid,
      ProcessNoResponse, ProcessResponse, ResponseRefused, ResponseSent, PassiveStep,
      PassiveEnds, Retry, InHandler
<1>4. CASE Active
  BY <1>4
  DEF Active, LockWon, LockLost, SendDone, SendAcked, SendRefused, SendFails,
      ResponseTooLong, ResponseValid, ResponseInvalid, ResponseFails, FreeBus,
      ActiveStep, Ends, Retry, InHandler
<1>5. CASE (\E c \in Calls : Transmit(c)) \/ Open
  BY <1>5
  DEF Transmit, TransmitInvalid, TransmitOffline, TransmitOnline, Enqueue,
      TransmitWake, Returns, CallStep, Open, AppStep, KeepThread
<1>6. CASE Close \/ DtorClose \/ Destructor
  BY <1>6
  DEF Alone, Close, DtorClose, Destructor, DtorOffline, DtorNotify, DtorJoin
<1>7. CASE UNCHANGED vars
  BY <1>7 DEF vars
<1> QED
  BY <1>1, <1>2, <1>3, <1>4, <1>5, <1>6, <1>7 DEF Next, Run

LEMMA AloneAlways == ASSUME Alone PROVE Spec => [](QInv /\ AloneInv)
<1>1. Init => AloneInv
  BY DEF Init, AloneInv
<1>2. AloneInv /\ [Next]_vars => AloneInv'
  BY AloneStep
<1>3. ~SpuriousWakeups
  BY DEF Alone
<1> QED
  BY <1>1, <1>2, <1>3, QInvAlways, PTL DEF Spec

LEMMA PromiseStep ==
  ASSUME Alone, QInv, QInv', AloneInv, [Next]_vars PROVE Unseen \/ Queue!Promised
<1>1. ~DtorJoin /\ ~SpuriousWakeups
  BY DEF Alone, AloneInv, DtorJoin
<1>2. ASSUME Queue!Abandon, Run PROVE FALSE
  <2> DEFINE c == Head(PendingSeq)
  <2>1. AnswerOf[c] = "none" /\ AnswerOf' = [AnswerOf EXCEPT ![c] = "SEQ_OK"] /\ c \notin Sent
    BY <1>2 DEF Queue!Abandon, Queue!AnswerHead, Sent
  <2>2. c \in Calls
    <3>1. PendingSeq \in Seq(Calls) /\ PendingSeq # <<>>
      BY <1>2 DEF Queue!Abandon, Queue!AnswerHead, PendingSeq, ActiveSeq, QInv, IInv, TypeOK
    <3> QED
      BY <3>1
  <2>3. AnswerOf'[c] = "SEQ_OK"
    BY <2>1, <2>2 DEF AnswerOf
  <2>4. ~notified[c] /\ result[c] = "none"
    BY <2>1, <2>2 DEF AnswerOf, QInv, EndInv
  <2>5. result' = result
    BY <1>2, RunIsThreadStep DEF ThreadStep
  <2>6. notified'[c] /\ m_state'[c] = "SEQ_OK"
    BY <2>2, <2>3, <2>4, <2>5 DEF AnswerOf
  <2>7. state \in {"IdleSystem", "SendResponse"}
    BY <1>2, <2>1, <2>2, <2>4, <2>6, AbandonStep DEF QInv, Sent, Next
  <2> QED
    BY <2>7 DEF AloneInv
<1> QED
  BY <1>1, <1>2, QueueStep

\* Alone on its bus, transmit() keeps its promise to the letter.
THEOREM PromiseKept == ASSUME Alone PROVE Spec => KeepsPromise
<1>1. QInv /\ QInv' /\ AloneInv /\ [Next]_vars => [Queue!Promised]_Queue!vars
  BY PromiseStep, UnseenStutters
<1> QED
  BY <1>1, QueueInit, AloneAlways, PTL DEF Spec, KeepsPromise, Queue!PromisedSpec
\* Every answer SEQ_OK is that of a delivered telegram, also before the caller
\* has returned with it.
AnswerOk == \A c \in Calls : AnswerOf[c] = "SEQ_OK" => c \in Sent

LEMMA AnswerOkStep ==
  ASSUME AnswerOk, Unseen \/ Queue!Promised
  PROVE  AnswerOk' /\ Sent \subseteq Sent'
<1> USE DEF AnswerOk
<1>1. CASE Unseen
  BY <1>1 DEF Unseen
<1>2. ASSUME NEW c \in Calls, Queue!Refuse(c) \/ Queue!Submit(c)
      PROVE  AnswerOk' /\ Sent \subseteq Sent'
  <2>1. Sent' = Sent
    BY <1>2 DEF Queue!Refuse, Queue!Submit, Sent
  <2>2. \A d \in Calls : AnswerOf'[d] = "SEQ_OK" => AnswerOf[d] = "SEQ_OK"
    <3>1. AnswerOf = [d \in Calls |-> AnswerOf[d]]
      BY DEF AnswerOf
    <3> QED
      BY <1>2, <3>1 DEF Queue!Refuse, Queue!Submit
  <2> QED
    BY <2>1, <2>2
<1>3. CASE Queue!Deliver
  BY <1>3 DEF Queue!Deliver, Sent
<1>4. CASE Queue!Answer
  <2>1. Sent' = Sent
    BY <1>4 DEF Queue!Answer, Queue!AnswerHead, Sent
  <2>2. AnswerOf = [d \in Calls |-> AnswerOf[d]]
    BY DEF AnswerOf
  <2> QED
    BY <1>4, <2>1, <2>2 DEF Queue!Answer, Queue!AnswerHead, Sent
<1> QED
  BY <1>1, <1>2, <1>3, <1>4 DEF Queue!Promised

LEMMA ResultStep ==
  ASSUME QInv, ~SpuriousWakeups, [Next]_vars, NEW c \in Calls,
         result'[c] = "SEQ_OK", result[c] # "SEQ_OK"
  PROVE  AnswerOf[c] = "SEQ_OK"
<1>1. ~Run
  BY RunIsThreadStep DEF ThreadStep
<1>2. ~(Open \/ Close \/ DtorClose \/ Destructor \/ UNCHANGED vars)
  BY DEF Open, Close, DtorClose, Destructor, DtorOffline, DtorNotify, DtorJoin,
         AppStep, callerVars, vars
<1>3. PICK d \in Calls : Transmit(d)
  BY <1>1, <1>2 DEF Next
<1>4. /\ ~TransmitInvalid(d) /\ ~TransmitOffline(d)
      /\ ~TransmitOnline(d) /\ ~Enqueue(d)
  BY DEF TransmitInvalid, TransmitOffline, TransmitOnline, Enqueue, CallStep, Returns,
         QInv, IInv, TypeOK
<1>5. TransmitWake(d) /\ c = d
  BY <1>3, <1>4 DEF Transmit, TransmitWake, Returns, QInv, IInv, TypeOK
<1> QED
  BY <1>5 DEF TransmitWake, Returns, AnswerOf, QInv, IInv, TypeOK

\* transmit() returns SEQ_OK only for a telegram that was delivered.
THEOREM OkIsDelivered == ASSUME Alone PROVE Spec => []OkMeansDelivered
<1>1. Init => AnswerOk /\ OkMeansDelivered
  BY DEF Init, AnswerOk, AnswerOf, OkMeansDelivered
<1>2. QInv /\ QInv' /\ AloneInv /\ AnswerOk /\ OkMeansDelivered /\ [Next]_vars =>
        AnswerOk' /\ OkMeansDelivered'
  <2> SUFFICES ASSUME QInv, QInv', AloneInv, AnswerOk, OkMeansDelivered, [Next]_vars
               PROVE  AnswerOk' /\ OkMeansDelivered'
    OBVIOUS
  <2>1. AnswerOk' /\ Sent \subseteq Sent'
    BY PromiseStep, AnswerOkStep
  <2>2. ASSUME NEW c \in Calls, result'[c] = "SEQ_OK" PROVE delivered'[c]
    <3>1. c \in Sent
      BY <2>2, ResultStep DEF OkMeansDelivered, AnswerOk, Sent, Alone
    <3> QED
      BY <2>1, <3>1 DEF Sent
  <2> QED
    BY <2>1, <2>2 DEF OkMeansDelivered
<1> QED
  BY <1>1, <1>2, AloneAlways, PTL DEF Spec
=============================================================================
