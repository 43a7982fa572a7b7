----------------------------- MODULE EbusProofs -----------------------------
(***************************************************************************)
(* Theorems about Ebus, for every set of calls, every bound of the lock    *)
(* counter and whatever application, bus and device do.                    *)
(***************************************************************************)
EXTENDS EbusInv, TLAPS

-----------------------------------------------------------------------------
(* Type correctness.                                                       *)

LEMMA TypeInit == Init => TypeOK
<1> SUFFICES ASSUME Init PROVE TypeOK
  OBVIOUS
<1>1. /\ isOpen \in BOOLEAN /\ m_passiveMessage \in BOOLEAN
      /\ m_running \in BOOLEAN /\ m_online \in BOOLEAN /\ m_close \in BOOLEAN
      /\ m_notify \in BOOLEAN /\ wanted \in BOOLEAN
      /\ notified \in [Calls -> BOOLEAN] /\ delivered \in [Calls -> BOOLEAN]
  BY DEF Init
<1> QED
  BY <1>1, EbusAssumption DEF Init, TypeOK, States, Locations, Codes, SeqCap

LEMMA ResetType ==
  ASSUME TypeOK, Reset
  PROVE  /\ m_lock_counter' \in Nat /\ m_sequence' \in 0..SeqCap
         /\ notified' \in [Calls -> BOOLEAN]
         /\ m_activeMessage' \in Calls \cup {NoMessage}
         /\ m_passiveMessage' \in BOOLEAN
<1>1. m_passiveMessage' \in BOOLEAN
  BY DEF Reset
<1>2. notified' \in [Calls -> BOOLEAN]
  BY DEF Reset
<1> QED
  BY <1>1, <1>2, EbusAssumption DEF Reset, SeqCap

LEMMA SetActiveStateType ==
  ASSUME TypeOK, NEW code \in Codes, SetActiveState(code)
  PROVE  m_state' \in [Calls -> Codes]
  BY DEF TypeOK, SetActiveState

LEMMA DeliversType ==
  ASSUME TypeOK, Delivers PROVE delivered' \in [Calls -> BOOLEAN]
  BY DEF TypeOK, Delivers

LEMMA DeviceErrorType ==
  ASSUME TypeOK, NEW error \in BOOLEAN, HandleDeviceError(error) PROVE TypeOK'
<1>1. isOpen' \in BOOLEAN
  BY DEF HandleDeviceError
<1>2. m_state' \in [Calls -> Codes]
  BY SetActiveStateType DEF HandleDeviceError, Codes
<1>3. state' \in States /\ pc' \in Locations
  BY DEF HandleDeviceError, Return, States, Locations
<1> QED
  BY <1>1, <1>2, <1>3, ResetType
  DEF HandleDeviceError, Return, TypeOK, appVars, callerVars, historyVars

LEMMA TypeLifecycle == TypeOK /\ Lifecycle => TypeOK'
<1> SUFFICES ASSUME TypeOK, Lifecycle PROVE TypeOK'
  OBVIOUS
<1> USE EbusAssumption
    DEF TypeOK, States, Locations, Codes, SeqCap, threadVars, busVars, appVars,
        callerVars, historyVars, Return, KeepShared
<1>1. CASE Loop
  BY <1>1 DEF Loop
<1>2. CASE IdleSystem
  <2>1. isOpen' \in BOOLEAN
    BY <1>2 DEF IdleSystem
  <2> QED
    BY <1>2, <2>1, ResetType DEF IdleSystem, IdleStep
<1>3. CASE GoOffline
  <2>1. m_online' \in BOOLEAN
    BY <1>3 DEF GoOffline
  <2> QED
    BY <1>3, <2>1 DEF GoOffline, IdleStep
<1>4. CASE ClearClose
  <2>1. m_close' \in BOOLEAN
    BY <1>4 DEF ClearClose
  <2> QED
    BY <1>4, <2>1 DEF ClearClose, IdleStep
<1>5. CASE IdleBlock
  BY <1>5 DEF IdleBlock, IdleStep
<1>6. CASE IdlePass
  BY <1>6 DEF IdlePass, LeaveIdle
<1>7. CASE IdleWake
  BY <1>7 DEF IdleWake, LeaveIdle
<1>8. CASE OpenDevice
  BY <1>8 DEF OpenDevice
<1>9. CASE OpenFails
  BY <1>9, DeviceErrorType DEF OpenFails
<1>10. CASE FlushSyn
  <2>1. m_online' \in BOOLEAN
    BY <1>10 DEF FlushSyn
  <2> QED
    BY <1>10, <2>1, ResetType DEF FlushSyn
<1>11. ASSUME NEW error \in BOOLEAN, IOFails(error) PROVE TypeOK'
  BY <1>11, DeviceErrorType DEF IOFails
<1> QED
  BY <1>1, <1>2, <1>3, <1>4, <1>5, <1>6, <1>7, <1>8, <1>9, <1>10, <1>11
  DEF Lifecycle

LEMMA TypeMonitor == TypeOK /\ Monitor => TypeOK'
<1> SUFFICES ASSUME TypeOK, Monitor PROVE TypeOK'
  OBVIOUS
<1> USE EbusAssumption
    DEF TypeOK, States, Locations, Codes, SeqCap, threadVars, busVars, appVars,
        callerVars, historyVars, Return, KeepShared
<1>1. CASE MonitorSyn
  BY <1>1 DEF MonitorSyn, AfterSyn, Counted, Fetched, Fetch
<1>2. CASE ForeignByte
  BY <1>2 DEF ForeignByte, MonitorByte
<1>3. CASE AddressedByte
  BY <1>3 DEF AddressedByte, MonitorByte
<1> QED
  BY <1>1, <1>2, <1>3 DEF Monitor

LEMMA TypePassive == TypeOK /\ Passive => TypeOK'
<1> SUFFICES ASSUME TypeOK, Passive PROVE TypeOK'
  OBVIOUS
<1> USE EbusAssumption
    DEF TypeOK, States, Locations, Codes, SeqCap, threadVars, busVars, appVars,
        callerVars, historyVars, Return, KeepShared, PassiveStep, PassiveEnds
<1>1. CASE ReceiveTooLong
  BY <1>1, ResetType, SetActiveStateType DEF ReceiveTooLong
<1>2. CASE ReceiveTooLongCrash
  BY <1>2 DEF ReceiveTooLongCrash
<1>3. CASE ReceiveInvalid
  BY <1>3 DEF ReceiveInvalid
<1>4. CASE ReceiveValid
  BY <1>4 DEF ReceiveValid
<1>5. CASE ProcessNoResponse
  BY <1>5 DEF ProcessNoResponse
<1>6. CASE ProcessResponse
  BY <1>6 DEF ProcessResponse
<1>7. CASE ResponseRefused
  BY <1>7 DEF ResponseRefused, Retry
<1>8. ASSUME NEW ack \in {"ack", "wrong", "nak"}, ResponseSent(ack) PROVE TypeOK'
  BY <1>8, ResetType DEF ResponseSent
<1> QED
  BY <1>1, <1>2, <1>3, <1>4, <1>5, <1>6, <1>7, <1>8 DEF Passive

LEMMA TypeActive == TypeOK /\ Active => TypeOK'
<1> SUFFICES ASSUME TypeOK, Active PROVE TypeOK'
  OBVIOUS
<1> USE EbusAssumption
    DEF TypeOK, States, Locations, Codes, SeqCap, threadVars, busVars, appVars,
        callerVars, historyVars, Return, KeepShared, ActiveStep, KeepMessages, Ends
<1>1. CASE LockWon
  BY <1>1 DEF LockWon
<1>2. ASSUME NEW fit \in BOOLEAN, LockLost(fit) PROVE TypeOK'
  BY <1>2 DEF LockLost
<1>3. CASE SendDone
  BY <1>3, DeliversType DEF SendDone, Delivers
<1>4. CASE SendAcked
  BY <1>4 DEF SendAcked
<1>5. CASE SendRefused
  BY <1>5 DEF SendRefused, Retry
<1>6. ASSUME NEW ack \in {"wrong", "nak"}, SendFails(ack) PROVE TypeOK'
  BY <1>6, SetActiveStateType DEF SendFails, GivesUp
<1>7. CASE ResponseTooLong
  BY <1>7, ResetType, SetActiveStateType DEF ResponseTooLong
<1>8. CASE ResponseValid
  BY <1>8, DeliversType DEF ResponseValid, Delivers
<1>9. CASE ResponseInvalid
  BY <1>9 DEF ResponseInvalid, Retry
<1>10. CASE ResponseFails
  BY <1>10, SetActiveStateType DEF ResponseFails, GivesUp
<1>11. CASE FreeBus
  BY <1>11, ResetType DEF FreeBus
<1> QED
  BY <1>1, <1>2, <1>3, <1>4, <1>5, <1>6, <1>7, <1>8, <1>9, <1>10, <1>11
  DEF Active

LEMMA TypeTransmit ==
  ASSUME TypeOK, NEW c \in Calls, Transmit(c) PROVE TypeOK'
<1> USE EbusAssumption
    DEF TypeOK, States, Locations, Codes, SeqCap, threadVars, busVars, appVars,
        callerVars, historyVars, KeepThread
<1>1. CASE TransmitInvalid(c)
  BY <1>1 DEF TransmitInvalid, Returns
<1>2. CASE TransmitOffline(c)
  BY <1>2 DEF TransmitOffline, Returns
<1>3. CASE TransmitOnline(c)
  BY <1>3 DEF TransmitOnline, CallStep
<1>4. CASE Enqueue(c)
  BY <1>4 DEF Enqueue, CallStep
<1>5. CASE TransmitWake(c)
  BY <1>5 DEF TransmitWake, Returns
<1> QED
  BY <1>1, <1>2, <1>3, <1>4, <1>5 DEF Transmit

LEMMA TypeLifeCalls ==
  TypeOK /\ (Open \/ Close \/ DtorClose \/ Destructor) => TypeOK'
<1> SUFFICES ASSUME TypeOK, Open \/ Close \/ DtorClose \/ Destructor PROVE TypeOK'
  OBVIOUS
<1> USE EbusAssumption
    DEF TypeOK, States, Locations, Codes, SeqCap, threadVars, busVars, appVars,
        callerVars, historyVars, KeepThread, AppStep
<1>1. CASE Open
  BY <1>1 DEF Open
<1>2. CASE Close
  <2>1. wanted' \in BOOLEAN
    BY <1>2 DEF Close
  <2> QED
    BY <1>2, <2>1 DEF Close
<1>3. CASE DtorClose
  <2>1. wanted' \in BOOLEAN
    BY <1>3 DEF DtorClose
  <2> QED
    BY <1>3, <2>1 DEF DtorClose
<1>4. CASE DtorOffline
  <2>1. m_running' \in BOOLEAN
    BY <1>4 DEF DtorOffline
  <2> QED
    BY <1>4, <2>1 DEF DtorOffline
<1>5. CASE DtorNotify
  BY <1>5 DEF DtorNotify
<1>6. CASE DtorJoin
  BY <1>6 DEF DtorJoin
<1> QED
  BY <1>1, <1>2, <1>3, <1>4, <1>5, <1>6 DEF Destructor

\* Every variable keeps its type.
THEOREM TypeCorrect == Spec => []TypeOK
<1>1. TypeOK /\ [Next]_vars => TypeOK'
  <2> SUFFICES ASSUME TypeOK, [Next]_vars PROVE TypeOK'
    OBVIOUS
  <2>1. CASE Run
    BY <2>1, TypeLifecycle, TypeMonitor, TypePassive, TypeActive DEF Run
  <2>2. ASSUME NEW c \in Calls, Transmit(c) PROVE TypeOK'
    BY <2>2, TypeTransmit
  <2>3. CASE Open \/ Close \/ DtorClose \/ Destructor
    BY <2>3, TypeLifeCalls
  <2>4. CASE UNCHANGED vars
    BY <2>4 DEF TypeOK, vars, threadVars, busVars, appVars, callerVars, historyVars
  <2> QED
    BY <2>1, <2>2, <2>3, <2>4 DEF Next
<1> QED
  BY TypeInit, <1>1, PTL DEF Spec

-----------------------------------------------------------------------------
(* The service thread: the messages it holds and the lock counter.         *)

Held == MessagesHeld /\ LockCount

LEMMA HeldInit == Init => Held
  BY EbusAssumption
  DEF Init, Held, MessagesHeld, LockCount, At, IdlePcs, ActiveStates

\* A step that changes none of what Held reads but, perhaps, the state, and
\* goes to a state that asks for nothing new.
LEMMA HeldKept ==
  ASSUME TypeOK, Held,
         m_activeMessage' = m_activeMessage, m_passiveMessage' = m_passiveMessage,
         m_lock_counter' = m_lock_counter, quiet' = quiet,
         \/ state' = state /\ pc' = pc
         \/ /\ pc' \in {"loop", "handler"}
            /\ state' \in States \ {"OpenDevice", "LockBus"}
            /\ state' \in ActiveStates => m_activeMessage # NoMessage
            /\ state' = "SendResponse" => m_passiveMessage
         \/ /\ m_activeMessage = NoMessage
            /\ state' \in {"OpenDevice", "IdleSystem"}
  PROVE  Held'
  BY DEF Held, MessagesHeld, LockCount, At, IdlePcs, ActiveStates, States, TypeOK

\* A step that resets leaves no message, and the counter at its maximum.
LEMMA HeldReset ==
  ASSUME TypeOK, Reset, quiet' \in 0..LockCounterMax,
         state' \notin ActiveStates \cup {"SendResponse"}
  PROVE  Held'
<1>1. m_lock_counter' = LockCounterMax /\ m_activeMessage' = NoMessage
  BY DEF Reset
<1>2. LockCounterMax \in Nat /\ quiet' \in Nat
  BY EbusAssumption
<1>3. m_lock_counter' + quiet' >= LockCounterMax
  <2>1. \A x, y \in Nat : x + y >= x
    OBVIOUS
  <2> QED
    BY <1>1, <1>2, <2>1
<1>4. LockCount'
  BY <1>3 DEF LockCount, At, ActiveStates
<1>5. MessagesHeld'
  BY <1>1 DEF MessagesHeld, At, ActiveStates
<1> QED
  BY <1>4, <1>5 DEF Held

LEMMA HeldLifecycle == TypeOK /\ Held /\ Lifecycle => Held'
<1> SUFFICES ASSUME TypeOK, Held, Lifecycle PROVE Held'
  OBVIOUS
<1> USE DEF threadVars, busVars, appVars, callerVars, historyVars, Return, KeepShared
<1>1. CASE Loop
  BY <1>1 DEF Loop, TypeOK, Held, MessagesHeld, LockCount, At, IdlePcs, ActiveStates
<1>2. CASE IdleSystem
  BY <1>2, HeldReset DEF IdleSystem, IdleStep, ActiveStates, TypeOK
<1>3. CASE GoOffline \/ ClearClose \/ IdleBlock
  BY <1>3 DEF GoOffline, ClearClose, IdleBlock, IdleStep, Held, MessagesHeld,
              LockCount, At, IdlePcs
<1>4. CASE IdlePass \/ IdleWake
  BY <1>4, HeldKept DEF IdlePass, IdleWake, LeaveIdle, Held, MessagesHeld, IdlePcs
<1>5. CASE OpenDevice
  BY <1>5 DEF OpenDevice, InHandler, Held, MessagesHeld, LockCount, At, IdlePcs
<1>6. ASSUME NEW error \in BOOLEAN, HandleDeviceError(error) PROVE Held'
  BY <1>6, HeldReset DEF HandleDeviceError, TypeOK, ActiveStates
<1>7. CASE FlushSyn
  BY <1>7, HeldReset DEF FlushSyn, ActiveStates, TypeOK
<1> QED
  BY <1>1, <1>2, <1>3, <1>4, <1>5, <1>6, <1>7 DEF Lifecycle, OpenFails, IOFails

LEMMA HeldMonitor == TypeOK /\ Held /\ Monitor => Held'
<1> SUFFICES ASSUME TypeOK, Held, Monitor PROVE Held'
  OBVIOUS
<1> USE DEF threadVars, busVars, appVars, callerVars, historyVars, Return, KeepShared
<1>1. CASE MonitorSyn
  <2>1. m_lock_counter' \in Nat /\ m_lock_counter' + 1 >= m_lock_counter
    BY <1>1 DEF MonitorSyn, AfterSyn, Counted, TypeOK
  <2>2. LockCount'
    BY <1>1, <2>1, EbusAssumption
    DEF MonitorSyn, InHandler, LockCount, Held, At, TypeOK
  <2>3. MessagesHeld'
    BY <1>1 DEF MonitorSyn, Held, MessagesHeld, At, IdlePcs, ActiveStates
  <2> QED
    BY <2>2, <2>3 DEF Held
<1>2. CASE ForeignByte \/ AddressedByte
  BY <1>2, HeldKept
  DEF ForeignByte, AddressedByte, MonitorByte, States, ActiveStates
<1> QED
  BY <1>1, <1>2 DEF Monitor

LEMMA HeldPassive == TypeOK /\ Held /\ Passive => Held'
<1> SUFFICES ASSUME TypeOK, Held, Passive PROVE Held'
  OBVIOUS
<1> USE DEF threadVars, busVars, appVars, callerVars, historyVars, Return, KeepShared,
            PassiveStep, PassiveEnds, InHandler
<1>1. CASE ReceiveTooLong
  BY <1>1, HeldReset DEF ReceiveTooLong, ActiveStates, TypeOK
<1>2. CASE ReceiveTooLongCrash
  BY <1>2 DEF ReceiveTooLongCrash, Held, MessagesHeld, LockCount, At, IdlePcs
<1>3. CASE ReceiveInvalid \/ ProcessNoResponse
  BY <1>3, HeldKept DEF ReceiveInvalid, ProcessNoResponse, States, ActiveStates
<1>4. CASE ReceiveValid
  BY <1>4, HeldKept DEF ReceiveValid, States, ActiveStates
<1>5. CASE ProcessResponse
  BY <1>5 DEF ProcessResponse, Held, MessagesHeld, LockCount, At, IdlePcs, ActiveStates
<1>6. CASE ResponseRefused
  BY <1>6, HeldKept DEF ResponseRefused, Retry
<1>7. ASSUME NEW ack \in {"ack", "wrong", "nak"}, ResponseSent(ack) PROVE Held'
  BY <1>7, HeldReset DEF ResponseSent, ActiveStates, TypeOK
<1> QED
  BY <1>1, <1>2, <1>3, <1>4, <1>5, <1>6, <1>7 DEF Passive

LEMMA HeldActive == TypeOK /\ Held /\ Active => Held'
<1> SUFFICES ASSUME TypeOK, Held, Active PROVE Held'
  OBVIOUS
<1> USE DEF threadVars, busVars, appVars, callerVars, historyVars, Return, KeepShared,
            ActiveStep, KeepMessages, Ends, InHandler
<1>1. CASE LockWon
  BY <1>1, HeldKept DEF LockWon, Held, MessagesHeld, At, ActiveStates, States
<1>2. ASSUME NEW fit \in BOOLEAN, LockLost(fit) PROVE Held'
  BY <1>2, EbusAssumption
  DEF LockLost, TypeOK, Held, MessagesHeld, LockCount, At, IdlePcs, ActiveStates
<1>3. CASE SendDone \/ ResponseValid
  BY <1>3, HeldKept
  DEF SendDone, ResponseValid, Delivers, Held, MessagesHeld, At, ActiveStates, States
<1>4. CASE SendAcked
  BY <1>4, HeldKept DEF SendAcked, Held, MessagesHeld, At, ActiveStates, States
<1>5. CASE SendRefused \/ ResponseInvalid
  BY <1>5, HeldKept DEF SendRefused, ResponseInvalid, Retry
<1>6. ASSUME NEW ack \in {"wrong", "nak"}, SendFails(ack) PROVE Held'
  BY <1>6, HeldKept
  DEF SendFails, GivesUp, Held, MessagesHeld, At, ActiveStates, States
<1>7. CASE ResponseFails
  BY <1>7, HeldKept
  DEF ResponseFails, GivesUp, Held, MessagesHeld, At, ActiveStates, States
<1>8. CASE ResponseTooLong
  BY <1>8, HeldReset DEF ResponseTooLong, ActiveStates, TypeOK
<1>9. CASE FreeBus
  BY <1>9, HeldReset, EbusAssumption DEF FreeBus, ActiveStates
<1> QED
  BY <1>1, <1>2, <1>3, <1>4, <1>5, <1>6, <1>7, <1>8, <1>9 DEF Active

LEMMA HeldApplication ==
  ASSUME TypeOK, Held,
         (\E c \in Calls : Transmit(c)) \/ Open \/ Close \/ DtorClose \/ Destructor
  PROVE  Held'
<1>1. UNCHANGED <<threadVars, busVars, historyVars, m_activeMessage>>
  BY DEF Transmit, TransmitInvalid, TransmitOffline, TransmitOnline, Enqueue,
         TransmitWake, Returns, CallStep, Open, Close, DtorClose, Destructor,
         DtorOffline, DtorNotify, DtorJoin, AppStep, KeepThread
<1> QED
  BY <1>1, HeldKept DEF threadVars, busVars, historyVars

THEOREM HeldAlways == Spec => []Held
<1>1. TypeOK /\ Held /\ [Next]_vars => Held'
  <2> SUFFICES ASSUME TypeOK, Held, [Next]_vars PROVE Held'
    OBVIOUS
  <2>1. CASE Run
    BY <2>1, HeldLifecycle, HeldMonitor, HeldPassive, HeldActive DEF Run
  <2>2. CASE (\E c \in Calls : Transmit(c)) \/ Open \/ Close \/ DtorClose \/ Destructor
    BY <2>2, HeldApplication
  <2>3. CASE UNCHANGED vars
    BY <2>3, HeldKept DEF vars, threadVars, busVars, historyVars
  <2> QED
    BY <2>1, <2>2, <2>3 DEF Next
<1> QED
  BY HeldInit, <1>1, TypeCorrect, PTL DEF Spec

\* No handler dereferences an empty m_activeMessage or m_passiveMessage.
\* (receiveMessage(), which does, is the action ReceiveTooLongCrash.)
THEOREM NeverNull == Spec => []NoNullDereference
<1>1. Held => NoNullDereference
  BY DEF Held, MessagesHeld, NoNullDereference, At, ActiveStates
<1> QED
  BY <1>1, HeldAlways, PTL

\* The bus is arbitrated for only after LockCounterMax SYN bytes.
THEOREM LockDisciplined == Spec => []LockDiscipline
<1>1. Held => LockDiscipline
  BY DEF Held, LockCount, LockDiscipline, At, InHandler
<1> QED
  BY <1>1, HeldAlways, PTL

-----------------------------------------------------------------------------
(* The device and the online flag.                                         *)

\* The device is open from openDevice() on, between the handlers too, until
\* idleSystem() or a runtime_error.
OpenInv ==
  \/ pc = "flush"
  \/ pc \in {"handler", "loop"} /\ state \notin {"IdleSystem", "OpenDevice"}
  => isOpen

\* The bus begins to be worked on with m_online false in the flush only.
OfflineStep == WorksOffline' => WorksOffline \/ pc = "flush"

Sound == OpenInv' /\ OfflineStep

LEMMA OnlineDeviceError ==
  ASSUME NEW error \in BOOLEAN, HandleDeviceError(error), OpenInv,
         \/ pc = "flush"
         \/ pc = "handler" /\ state \notin {"IdleSystem", "OpenDevice"}
         \/ error
  PROVE  Sound
<1>1. /\ state' = IF error THEN "OpenDevice" ELSE "MonitorBus"
      /\ pc' = "loop" /\ m_online' = m_online
      /\ isOpen' = (isOpen /\ ~error)
  BY DEF HandleDeviceError, Return
<1>2. CASE error
  BY <1>1, <1>2 DEF Sound, OpenInv, OfflineStep, WorksOffline
<1>3. CASE ~error
  <2>1. isOpen
    BY <1>3 DEF OpenInv
  <2>2. isOpen'
    BY <1>1, <1>3, <2>1, Zenon
  <2> QED
    BY <1>1, <1>3, <2>2 DEF Sound, OpenInv, OfflineStep, WorksOffline
<1> QED
  BY <1>2, <1>3

LEMMA OnlineLifecycle ==
  ASSUME OpenInv, Lifecycle PROVE Sound
<1> USE DEF Sound, OpenInv, OfflineStep, WorksOffline, threadVars, busVars, appVars,
            callerVars, historyVars, Return, KeepShared
<1>1. CASE Loop
  BY <1>1 DEF Loop
<1>2. CASE IdleSystem \/ GoOffline \/ ClearClose \/ IdleBlock
  <2>1. pc' \in {"idling", "goOffline", "clearClose", "wait", "blocked"}
    BY <1>2 DEF IdleSystem, GoOffline, ClearClose, IdleBlock, IdleStep
  <2> QED
    BY <2>1
<1>3. CASE IdlePass \/ IdleWake
  BY <1>3 DEF IdlePass, IdleWake, LeaveIdle
<1>4. CASE OpenDevice
  BY <1>4 DEF OpenDevice
<1>5. CASE OpenFails
  BY <1>5, OnlineDeviceError DEF OpenFails
<1>6. CASE FlushSyn
  BY <1>6 DEF FlushSyn
<1>7. ASSUME NEW error \in BOOLEAN, IOFails(error) PROVE Sound
  BY <1>7, OnlineDeviceError DEF IOFails
<1> QED
  BY <1>1, <1>2, <1>3, <1>4, <1>5, <1>6, <1>7 DEF Lifecycle

\* A handler that works on the bus opens and closes nothing.
LEMMA OnlineWork ==
  ASSUME OpenInv, Monitor \/ Passive \/ Active PROVE Sound
<1>1. UNCHANGED <<isOpen, m_online>>
  BY DEF Monitor, MonitorSyn, ForeignByte, AddressedByte, MonitorByte, Passive,
         ReceiveTooLong, ReceiveTooLongCrash, ReceiveInvalid, ReceiveValid,
         ProcessNoResponse, ProcessResponse, ResponseRefused, ResponseSent,
         PassiveStep, PassiveEnds, Retry, Active, LockWon, LockLost, SendDone,
         SendAcked, SendRefused, SendFails, ResponseTooLong, ResponseValid,
         ResponseInvalid, ResponseFails, FreeBus, ActiveStep, Ends, KeepShared, busVars
<1>2. pc = "handler" /\ state \notin {"IdleSystem", "OpenDevice"}
  BY DEF Monitor, MonitorSyn, ForeignByte, AddressedByte, MonitorByte, Passive,
         ReceiveTooLong, ReceiveTooLongCrash, ReceiveInvalid, ReceiveValid,
         ProcessNoResponse, ProcessResponse, ResponseRefused, ResponseSent,
         PassiveStep, PassiveEnds, Retry, Active, LockWon, LockLost, SendDone,
         SendAcked, SendRefused, SendFails, ResponseTooLong, ResponseValid,
         ResponseInvalid, ResponseFails, FreeBus, ActiveStep, Ends, InHandler
<1> QED
  BY <1>1, <1>2 DEF Sound, OpenInv, OfflineStep, WorksOffline

LEMMA OnlineStep ==
  ASSUME OpenInv, [Next]_vars PROVE Sound
<1>1. CASE Run
  BY <1>1, OnlineLifecycle, OnlineWork DEF Run
<1>2. CASE (\E c \in Calls : Transmit(c)) \/ Open \/ Close \/ DtorClose \/ Destructor
  <2>1. UNCHANGED <<threadVars, busVars, m_online>>
    BY <1>2
    DEF Transmit, TransmitInvalid, TransmitOffline, TransmitOnline, Enqueue,
        TransmitWake, Returns, CallStep, Open, Close, DtorClose, Destructor,
        DtorOffline, DtorNotify, DtorJoin, AppStep, KeepThread
  <2> QED
    BY <2>1 DEF threadVars, busVars, Sound, OpenInv, OfflineStep, WorksOffline
<1>3. CASE UNCHANGED vars
  BY <1>3 DEF vars, threadVars, busVars, Sound, OpenInv, OfflineStep, WorksOffline
<1> QED
  BY <1>1, <1>2, <1>3 DEF Next

LEMMA OpenAlways == Spec => []OpenInv
<1>1. Init => OpenInv
  BY DEF Init, OpenInv
<1>2. OpenInv /\ [Next]_vars => OpenInv'
  BY OnlineStep DEF Sound
<1> QED
  BY <1>1, <1>2, PTL DEF Spec

\* The handlers of a telegram read and write an open device.
THEOREM IOOnOpen == Spec => []IOOnOpenDevice
<1>1. OpenInv => IOOnOpenDevice
  BY DEF OpenInv, IOOnOpenDevice
<1> QED
  BY <1>1, OpenAlways, PTL

\* The bus is worked on offline only after an error in the flush.
THEOREM OfflineByFlush == Spec => OfflineOnlyByFlush
<1>1. OpenInv /\ [Next]_vars => [WorksOffline' => WorksOffline \/ pc = "flush"]_vars
  BY OnlineStep DEF Sound, OfflineStep
<1> QED
  BY <1>1, OpenAlways, PTL DEF Spec, OfflineOnlyByFlush

-----------------------------------------------------------------------------
(* A closed service.                                                       *)

\* Why a sleeping service may have been notified, and where the flush is.
AsleepInv ==
  /\ pc = "blocked" /\ m_notify => wanted \/ ~m_running \/ m_close
  /\ pc = "flush" => state = "OpenDevice"
  /\ dtor \in {"stopping", "joining", "gone"} => ~m_running

LeavesIdle ==
  state = "IdleSystem" /\ state' = "OpenDevice" =>
    wanted \/ ~m_running \/ m_close \/ pc = "wait"

LEMMA AsleepLifecycle ==
  ASSUME AsleepInv, ~SpuriousWakeups, Lifecycle
  PROVE  AsleepInv' /\ LeavesIdle
<1> USE DEF AsleepInv, LeavesIdle
<1>1. dtor' = dtor /\ m_running' = m_running
  BY DEF Lifecycle, Loop, KeepShared, appVars, IdleSystem, GoOffline, ClearClose, IdleBlock, IdleStep,
         IdlePass, IdleWake, LeaveIdle, OpenDevice, OpenFails, FlushSyn, IOFails, HandleDeviceError
<1>2. CASE Loop
  BY <1>1, <1>2 DEF Loop
<1>3. CASE IdleSystem \/ GoOffline \/ ClearClose
  <2>1. pc' \in {"idling", "goOffline", "clearClose", "wait"} /\ state' = state
    BY <1>3 DEF IdleSystem, GoOffline, ClearClose, IdleStep
  <2> QED
    BY <1>1, <2>1
<1>4. CASE IdleBlock
  BY <1>1, <1>4 DEF IdleBlock, IdleStep
<1>5. CASE IdlePass
  BY <1>1, <1>5 DEF IdlePass, LeaveIdle, Return
<1>6. CASE IdleWake
  BY <1>1, <1>6 DEF IdleWake, LeaveIdle, Return
<1>7. CASE OpenDevice
  BY <1>1, <1>7 DEF OpenDevice, InHandler
<1>8. CASE FlushSyn
  BY <1>1, <1>8 DEF FlushSyn, Return
<1>9. CASE OpenFails \/ \E error \in BOOLEAN : IOFails(error)
  <2>1. pc' = "loop"
    BY <1>9 DEF OpenFails, IOFails, HandleDeviceError, Return
  <2>2. state # "IdleSystem"
    BY <1>9 DEF OpenFails, IOFails, InHandler
  <2> QED
    BY <1>1, <2>1, <2>2
<1> QED
  BY <1>2, <1>3, <1>4, <1>5, <1>6, <1>7, <1>8, <1>9 DEF Lifecycle

LEMMA AsleepWork ==
  ASSUME AsleepInv, Monitor \/ Passive \/ Active
  PROVE  AsleepInv' /\ LeavesIdle
<1>1. UNCHANGED <<dtor, m_running>>
  BY DEF Monitor, MonitorSyn, ForeignByte, AddressedByte, MonitorByte, Passive,
         ReceiveTooLong, ReceiveTooLongCrash, ReceiveInvalid, ReceiveValid,
         ProcessNoResponse, ProcessResponse, ResponseRefused, ResponseSent,
         PassiveStep, PassiveEnds, Retry, Active, LockWon, LockLost, SendDone,
         SendAcked, SendRefused, SendFails, ResponseTooLong, ResponseValid,
         ResponseInvalid, ResponseFails, FreeBus, ActiveStep, Ends, KeepShared, appVars
<1>2. state # "IdleSystem" /\ pc' \in {"handler", "loop", "crashed"}
  BY DEF Monitor, MonitorSyn, ForeignByte, AddressedByte, MonitorByte, Passive,
         ReceiveTooLong, ReceiveTooLongCrash, ReceiveInvalid, ReceiveValid,
         ProcessNoResponse, ProcessResponse, ResponseRefused, ResponseSent,
         PassiveStep, PassiveEnds, Retry, Active, LockWon, LockLost, SendDone,
         SendAcked, SendRefused, SendFails, ResponseTooLong, ResponseValid,
         ResponseInvalid, ResponseFails, FreeBus, ActiveStep, Ends, InHandler, Return
<1> QED
  BY <1>1, <1>2 DEF AsleepInv, LeavesIdle

LEMMA AsleepStep ==
  ASSUME AsleepInv, ~SpuriousWakeups, [Next]_vars
  PROVE  AsleepInv' /\ LeavesIdle
<1> USE DEF AsleepInv, LeavesIdle
<1>1. CASE Run
  BY <1>1, AsleepLifecycle, AsleepWork DEF Run
<1>2. CASE (\E c \in Calls : Transmit(c)) \/ Open \/ Close \/ DtorClose \/ Destructor
  <2>1. UNCHANGED <<state, pc>>
    BY <1>2
    DEF Transmit, TransmitInvalid, TransmitOffline, TransmitOnline, Enqueue,
        TransmitWake, Returns, CallStep, Open, Close, DtorClose, Destructor,
        DtorOffline, DtorNotify, DtorJoin, AppStep, KeepThread, threadVars
  <2>2. CASE \E c \in Calls : Transmit(c)
    BY <2>1, <2>2
    DEF Transmit, TransmitInvalid, TransmitOffline, TransmitOnline, Enqueue,
        TransmitWake, Returns, CallStep, appVars
  <2>3. CASE Open \/ Close
    BY <2>1, <2>3 DEF Open, Close
  <2>4. CASE DtorClose
    BY <2>1, <2>4 DEF DtorClose
  <2>5. CASE Destructor
    BY <2>1, <2>5 DEF Destructor, DtorOffline, DtorNotify, DtorJoin
  <2> QED
    BY <1>2, <2>2, <2>3, <2>4, <2>5
<1>3. CASE UNCHANGED vars
  BY <1>3 DEF vars, threadVars, appVars
<1> QED
  BY <1>1, <1>2, <1>3 DEF Next

\* After close() an idle service stays closed: nothing wakes it but an open()
\* that no close() has followed, the destructor, or a close() that sends it
\* back; if wait() never returns by itself.
THEOREM ClosedStays == ASSUME ~SpuriousWakeups PROVE Spec => StaysClosed
<1>1. Init => AsleepInv
  BY DEF Init, AsleepInv
<1>2. AsleepInv /\ [Next]_vars => AsleepInv'
  BY AsleepStep
<1>3. AsleepInv /\ [Next]_vars =>
        [state = "IdleSystem" /\ state' = "OpenDevice" =>
           wanted \/ ~m_running \/ m_close \/ pc = "wait"]_vars
  BY AsleepStep DEF LeavesIdle
<1> QED
  BY <1>1, <1>2, <1>3, PTL DEF Spec, StaysClosed
=============================================================================
