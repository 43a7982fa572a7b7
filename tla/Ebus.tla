-------------------------------- MODULE Ebus --------------------------------
(***************************************************************************)
(* The bus service of src/src/Ebus.cpp (class EbusImpl): the thread that   *)
(* run() executes, a finite state machine over one serial device; the      *)
(* application threads that block in transmit() until that thread answers  *)
(* them; and the application calls open(), close() and the destructor.     *)
(*                                                                         *)
(* A handler of the state machine touches state shared with other threads  *)
(* (the message queue, the Notify objects, m_online, m_close) only in the  *)
(* step that ends it, so one handler, or one attempt of a handler that     *)
(* retries, is one action.  idleSystem() touches it several times and is   *)
(* cut at each of them.  Bytes are abstracted to what the handlers branch  *)
(* on; the bus, the other participants and the serial device choose.       *)
(***************************************************************************)
EXTENDS Integers, Sequences, FiniteSets, Functions

CONSTANTS
  Calls,            \* invocations of transmit(), each made once
  TypeOf,           \* the telegram type of each call's message
  NoMessage,        \* nullptr in m_activeMessage
  LockCounterMax,   \* m_lock_counter_max
  UserOps,          \* the life cycle calls the application makes
  Traffic,          \* what other bus participants do
  OpenResults,      \* whether the device can be opened, may fail to open
  SpuriousWakeups   \* whether condition_variable::wait may return unnotified

Types     == {"BC", "MM", "MS"}
Codes     == {"SEQ_OK", "EBUS_ERR_SEQUENCE", "EBUS_ERR_TRANSMIT",
              "EBUS_ERR_DEVICE", "EBUS_ERR_OFFLINE"}
States    == {"IdleSystem", "OpenDevice", "MonitorBus", "ReceiveMessage",
              "ProcessMessage", "SendResponse", "LockBus", "SendMessage",
              "ReceiveResponse", "FreeBus"}

ASSUME EbusAssumption ==
  /\ TypeOf \in [Calls -> Types]
  /\ NoMessage \notin Calls
  /\ LockCounterMax \in Nat
  /\ UserOps \subseteq {"open", "close", "destroy"}
  /\ Traffic \subseteq {"byte", "addressed", "rival"}
  /\ OpenResults \subseteq BOOLEAN
  /\ SpuriousWakeups \in BOOLEAN

VARIABLES
  \* the thread of run()
  state,            \* the State run() dispatches on next
  pc,               \* where the thread is: see Locations
  retry,            \* the loop variable of a handler that retries
  isOpen,           \* m_device->isOpen()
  m_lock_counter,
  m_sequence,       \* m_sequence.size(), SeqCap standing for anything longer
  m_activeMessage,  \* the call being transmitted, or NoMessage
  m_passiveMessage, \* m_passiveMessage != nullptr
  \* shared with the application
  m_running, m_online, m_close,
  m_notify,         \* EbusImpl's own Notify::m_notify
  m_messageQueue,
  \* the calls of transmit() and their Message objects
  call,             \* how far each call has come
  m_state,          \* Message::m_state
  notified,         \* Notify::m_notify of each Message
  result,           \* what transmit() returned, "none" before it does
  dtor,             \* how far the destructor has come
  \* history, read by no action
  delivered,        \* the protocol of the call's telegram was completed
  quiet,            \* SYN bytes seen since this node last freed the bus
  wanted            \* the application's last life cycle call was open()

threadVars  == <<state, pc, retry>>
busVars     == <<isOpen, m_lock_counter, m_sequence, m_passiveMessage>>
appVars     == <<m_running, m_close, dtor, wanted>>
callerVars  == <<call, result>>
historyVars == <<delivered, quiet>>
vars == <<threadVars, busVars, appVars, callerVars, historyVars,
          m_activeMessage, m_online, m_notify, m_messageQueue, m_state, notified>>

SeqCap    == 3
\* "handler": about to run the handler of state; "loop": it has returned;
\* "flush": openDevice() reading up to a SYN; the next five: idleSystem().
Locations == {"handler", "loop", "flush", "idling", "goOffline", "clearClose",
              "wait", "blocked", "stopped", "crashed"}

-----------------------------------------------------------------------------
(* What the handlers share.                                                *)

InHandler(s) == pc = "handler" /\ state = s

Return(s) == state' = s /\ pc' = "loop" /\ UNCHANGED retry

\* Mutants of Reset: the wait before the next access is not restored ...
ResetUncounted ==
  /\ m_sequence' = 0
  /\ notified' = [c \in Calls |-> notified[c] \/ c = m_activeMessage]
  /\ m_activeMessage' = NoMessage
  /\ m_passiveMessage' = FALSE
  /\ UNCHANGED m_lock_counter

\* ... and the caller of the message is not notified.
ResetUnnotified ==
  /\ m_lock_counter' = LockCounterMax
  /\ m_sequence' = 0
  /\ m_activeMessage' = NoMessage
  /\ m_passiveMessage' = FALSE
  /\ UNCHANGED notified

\* reset(): the active message, whatever became of it, is published and its
\* caller notified.
Reset ==
  /\ m_lock_counter' = LockCounterMax
  /\ m_sequence' = 0
  /\ notified' = [c \in Calls |-> notified[c] \/ c = m_activeMessage]
  /\ m_activeMessage' = NoMessage
  /\ m_passiveMessage' = FALSE

\* m_activeMessage->m_state = code, where there is an active message
SetActiveState(code) ==
  m_state' = [c \in Calls |-> IF c = m_activeMessage THEN code ELSE m_state[c]]

\* Mutant: the error code of a failed transmission.
HandleDeviceErrorTransmit(error) ==
  /\ SetActiveState("EBUS_ERR_TRANSMIT")
  /\ Reset
  /\ isOpen' = (isOpen /\ ~error)
  /\ Return(IF error THEN "OpenDevice" ELSE "MonitorBus")
  /\ UNCHANGED <<appVars, callerVars, historyVars, m_online, m_notify, m_messageQueue>>

\* Mutants: the device is closed, and the bus monitored ...
HandleDeviceErrorStays(error) ==
  /\ SetActiveState("EBUS_ERR_DEVICE")
  /\ Reset
  /\ isOpen' = (isOpen /\ ~error)
  /\ Return("MonitorBus")
  /\ UNCHANGED <<appVars, callerVars, historyVars, m_online, m_notify, m_messageQueue>>

\* ... or m_online is cleared, whatever the error.
HandleDeviceErrorOffline(error) ==
  /\ SetActiveState("EBUS_ERR_DEVICE")
  /\ Reset
  /\ isOpen' = (isOpen /\ ~error)
  /\ m_online' = FALSE
  /\ Return(IF error THEN "OpenDevice" ELSE "MonitorBus")
  /\ UNCHANGED <<appVars, callerVars, historyVars, m_notify, m_messageQueue>>

HandleDeviceError(error) ==
  /\ SetActiveState("EBUS_ERR_DEVICE")
  /\ Reset
  /\ isOpen' = (isOpen /\ ~error)
  /\ Return(IF error THEN "OpenDevice" ELSE "MonitorBus")
  /\ UNCHANGED <<appVars, callerVars, historyVars, m_online, m_notify, m_messageQueue>>

KeepShared == UNCHANGED <<appVars, callerVars, m_online, m_notify, isOpen>>

-----------------------------------------------------------------------------
(* run(): after every handler m_close, then m_running.                     *)

\* Mutant: m_close is not looked at.
LoopUnclosed ==
  /\ pc = "loop"
  /\ pc' = IF m_running THEN "handler" ELSE "stopped"
  /\ retry' = 1
  /\ KeepShared
  /\ UNCHANGED <<historyVars, state, m_lock_counter, m_sequence, m_passiveMessage,
                 m_activeMessage, m_messageQueue, m_state, notified>>

Loop ==
  /\ pc = "loop"
  /\ state' = IF m_close THEN "IdleSystem" ELSE state
  /\ pc' = IF m_running THEN "handler" ELSE "stopped"
  /\ retry' = 1
  /\ KeepShared
  /\ UNCHANGED <<historyVars, m_lock_counter, m_sequence, m_passiveMessage,
                 m_activeMessage, m_messageQueue, m_state, notified>>

\* A read or write fails: a runtime_warning (timeout, end of file) leaves the
\* device open, a runtime_error closes it.
IOFails(error) ==
  /\ \/ pc = "flush"
     \/ pc = "handler" /\ state \notin {"IdleSystem", "OpenDevice", "ProcessMessage"}
  /\ HandleDeviceError(error)

-----------------------------------------------------------------------------
(* idleSystem() and openDevice().                                          *)

IdleStep(from, to) ==
  /\ pc = from /\ pc' = to
  /\ UNCHANGED <<state, retry, callerVars, historyVars, m_running, dtor, wanted,
                 m_messageQueue, m_state>>

IdleSystem ==
  /\ state = "IdleSystem"
  /\ IdleStep("handler", "idling")
  /\ isOpen' = FALSE
  /\ Reset
  /\ UNCHANGED <<m_close, m_online, m_notify>>

\* m_online = false and m_close = false: plain members without a call between
\* them, which the compiler may store in either order.
GoOffline ==
  /\ \/ IdleStep("idling", "clearClose")
     \/ IdleStep("goOffline", "wait")
  /\ m_online' = FALSE
  /\ UNCHANGED <<busVars, m_close, m_activeMessage, m_notify, notified>>

ClearClose ==
  /\ \/ IdleStep("idling", "goOffline")
     \/ IdleStep("clearClose", "wait")
  /\ m_close' = FALSE
  /\ UNCHANGED <<busVars, m_activeMessage, m_online, m_notify, notified>>

\* Notify::wait() clears m_notify only after it has blocked; a flag that was
\* already set is left set.
LeaveIdle ==
  /\ Return("OpenDevice")
  /\ UNCHANGED <<busVars, appVars, callerVars, historyVars, m_activeMessage,
                 m_online, m_messageQueue, m_state, notified>>

IdleBlock ==
  /\ ~m_notify
  /\ IdleStep("wait", "blocked")
  /\ UNCHANGED <<busVars, m_close, m_activeMessage, m_online, m_notify, notified>>

IdlePass == pc = "wait" /\ m_notify /\ LeaveIdle /\ UNCHANGED m_notify

\* Mutant: wait() gives up after some time.
IdleWakeUnasked ==
  /\ pc = "blocked"
  /\ LeaveIdle
  /\ m_notify' = FALSE

IdleWake ==
  /\ pc = "blocked" /\ (m_notify \/ SpuriousWakeups)
  /\ LeaveIdle
  /\ m_notify' = FALSE

\* Device::open() returns with the device open or throws a runtime_error.
OpenDevice ==
  /\ InHandler("OpenDevice") /\ (isOpen \/ TRUE \in OpenResults)
  /\ isOpen' = TRUE
  /\ pc' = "flush"
  /\ UNCHANGED <<state, retry, appVars, callerVars, historyVars, m_lock_counter,
                 m_sequence, m_passiveMessage, m_activeMessage, m_online,
                 m_notify, m_messageQueue, m_state, notified>>

OpenFails ==
  /\ InHandler("OpenDevice") /\ ~isOpen /\ FALSE \in OpenResults
  /\ HandleDeviceError(TRUE)

\* Other bytes are skipped.
FlushSyn ==
  /\ pc = "flush"
  /\ Reset
  /\ m_online' = TRUE
  /\ Return("MonitorBus")
  /\ UNCHANGED <<appVars, callerVars, historyVars, isOpen, m_notify,
                 m_messageQueue, m_state>>

-----------------------------------------------------------------------------
(* monitorBus().                                                           *)

\* Mutant: the counter is decremented at zero too.
CountedBelow == m_lock_counter - 1

Counted == IF m_lock_counter # 0 THEN m_lock_counter - 1 ELSE 0

\* A SYN after a single byte shows that another node lost an arbitration.
AfterSyn == IF m_sequence = 1 /\ Counted < 2 THEN 2 ELSE Counted

\* Mutant: the next message is fetched although one is active.
FetchAlways == m_messageQueue # <<>>

Fetch == m_activeMessage = NoMessage /\ m_messageQueue # <<>>

Fetched == IF Fetch THEN Head(m_messageQueue) ELSE m_activeMessage

MonitorSyn ==
  /\ InHandler("MonitorBus")
  /\ m_lock_counter' = AfterSyn
  /\ m_sequence' = 0
  /\ m_activeMessage' = Fetched
  /\ m_messageQueue' = IF Fetch THEN Tail(m_messageQueue) ELSE m_messageQueue
  /\ Return(IF Fetched # NoMessage /\ AfterSyn = 0 THEN "LockBus" ELSE "MonitorBus")
  /\ quiet' = IF quiet < LockCounterMax THEN quiet + 1 ELSE quiet
  /\ KeepShared
  /\ UNCHANGED <<m_passiveMessage, delivered, m_state, notified>>

MonitorByte(next) ==
  /\ InHandler("MonitorBus") /\ "byte" \in Traffic
  /\ m_sequence' = IF m_sequence < SeqCap THEN m_sequence + 1 ELSE SeqCap
  /\ Return(next)
  /\ KeepShared
  /\ UNCHANGED <<historyVars, m_lock_counter, m_passiveMessage, m_activeMessage,
                 m_messageQueue, m_state, notified>>

ForeignByte == MonitorByte("MonitorBus")

\* The second byte of a telegram is this node's address or the broadcast one.
AddressedByte ==
  /\ "addressed" \in Traffic /\ m_sequence = 1
  /\ MonitorByte("ReceiveMessage")

-----------------------------------------------------------------------------
(* receiveMessage(), processMessage(), sendResponse(): the passive side.   *)

PassiveStep(s, next) ==
  /\ InHandler(s)
  /\ Return(next)
  /\ KeepShared
  /\ UNCHANGED <<historyVars, m_messageQueue>>

PassiveEnds(s) ==
  /\ PassiveStep(s, "MonitorBus")
  /\ m_sequence' = 0
  /\ UNCHANGED <<m_lock_counter, m_passiveMessage, m_activeMessage, m_state, notified>>

ReceiveTooLong ==
  /\ PassiveStep("ReceiveMessage", "MonitorBus")
  /\ m_activeMessage # NoMessage
  /\ SetActiveState("EBUS_ERR_TRANSMIT")
  /\ Reset

\* m_activeMessage->m_state through a null pointer: the process dies.
ReceiveTooLongCrash ==
  /\ InHandler("ReceiveMessage") /\ m_activeMessage = NoMessage
  /\ pc' = "crashed"
  /\ UNCHANGED <<state, retry, busVars, appVars, callerVars, historyVars,
                 m_activeMessage, m_online, m_notify, m_messageQueue, m_state, notified>>

ReceiveInvalid == PassiveEnds("ReceiveMessage")

ReceiveValid ==
  /\ PassiveStep("ReceiveMessage", "ProcessMessage")
  /\ m_sequence' = SeqCap
  /\ UNCHANGED <<m_lock_counter, m_passiveMessage, m_activeMessage, m_state, notified>>

ProcessNoResponse == PassiveEnds("ProcessMessage")

ProcessResponse ==
  /\ PassiveStep("ProcessMessage", "SendResponse")
  /\ m_passiveMessage' = TRUE
  /\ UNCHANGED <<m_lock_counter, m_sequence, m_activeMessage, m_state, notified>>

\* A handler that retries: a first negative answer starts the second attempt.
Retry(s) ==
  /\ InHandler(s) /\ retry = 1
  /\ retry' = 0
  /\ UNCHANGED <<state, pc, busVars, appVars, callerVars, historyVars,
                 m_activeMessage, m_online, m_notify, m_messageQueue, m_state, notified>>

ResponseRefused == Retry("SendResponse")

\* Acknowledged, answered with a wrong byte, or refused a second time: reset()
\* follows in each case.
ResponseSent(ack) ==
  /\ PassiveStep("SendResponse", "MonitorBus")
  /\ ack = "nak" => retry = 0
  /\ Reset
  /\ UNCHANGED m_state

-----------------------------------------------------------------------------
(* lockBus(), sendMessage(), receiveResponse(), freeBus(): the active side. *)

ActiveStep(s, next) ==
  /\ InHandler(s)
  /\ Return(next)
  /\ KeepShared
  /\ UNCHANGED <<m_messageQueue>>

KeepMessages ==
  UNCHANGED <<m_lock_counter, m_sequence, m_passiveMessage, m_activeMessage, notified>>

LockWon ==
  /\ ActiveStep("LockBus", "SendMessage")
  /\ KeepMessages
  /\ UNCHANGED <<historyVars, m_state>>

\* fit: the winner has the priority class of this node.
LockLost(fit) ==
  /\ "rival" \in Traffic
  /\ ActiveStep("LockBus", "MonitorBus")
  /\ m_lock_counter' = IF fit THEN 1 ELSE LockCounterMax
  /\ UNCHANGED <<historyVars, m_sequence, m_passiveMessage, m_activeMessage,
                 m_state, notified>>

Delivers ==
  /\ delivered' = [delivered EXCEPT ![m_activeMessage] = TRUE]
  /\ UNCHANGED <<quiet, m_state>>

\* Mutant: the failure is logged and nothing else.
GivesUpSilently == UNCHANGED <<m_state, historyVars>>

GivesUp == SetActiveState("EBUS_ERR_TRANSMIT") /\ UNCHANGED historyVars

Ends(s) == ActiveStep(s, "FreeBus") /\ KeepMessages

\* Broadcasts are not acknowledged; a master's telegram is complete when
\* acknowledged, a slave's when its response has been.
SendDone ==
  /\ Ends("SendMessage")
  /\ TypeOf[m_activeMessage] \in {"BC", "MM"}
  /\ Delivers

SendAcked ==
  /\ ActiveStep("SendMessage", "ReceiveResponse")
  /\ TypeOf[m_activeMessage] = "MS"
  /\ KeepMessages
  /\ UNCHANGED <<historyVars, m_state>>

SendRefused == Retry("SendMessage") /\ TypeOf[m_activeMessage] # "BC"

SendFails(ack) ==
  /\ Ends("SendMessage")
  /\ TypeOf[m_activeMessage] # "BC"
  /\ ack = "nak" => retry = 0
  /\ GivesUp

\* Mutant: the bus is freed, as after the other failures, but after reset().
ResponseTooLongFrees ==
  /\ ActiveStep("ReceiveResponse", "FreeBus")
  /\ SetActiveState("EBUS_ERR_TRANSMIT")
  /\ Reset
  /\ UNCHANGED historyVars

ResponseTooLong ==
  /\ ActiveStep("ReceiveResponse", "MonitorBus")
  /\ SetActiveState("EBUS_ERR_TRANSMIT")
  /\ Reset
  /\ UNCHANGED historyVars

ResponseValid == Ends("ReceiveResponse") /\ Delivers

ResponseInvalid == Retry("ReceiveResponse")

ResponseFails == Ends("ReceiveResponse") /\ retry = 0 /\ GivesUp

\* Mutant: freeBus() without its reset().
FreeBusKeeps ==
  /\ ActiveStep("FreeBus", "MonitorBus")
  /\ KeepMessages
  /\ quiet' = 0
  /\ UNCHANGED <<delivered, m_state>>

FreeBus ==
  /\ ActiveStep("FreeBus", "MonitorBus")
  /\ Reset
  /\ quiet' = 0
  /\ UNCHANGED <<delivered, m_state>>

-----------------------------------------------------------------------------
(* The application: transmit(), open(), close() and the destructor.        *)

Alive == pc # "crashed"

KeepThread ==
  UNCHANGED <<threadVars, busVars, historyVars, m_activeMessage, m_online,
              m_state, notified>>

Returns(c, code) ==
  /\ call' = [call EXCEPT ![c] = "returned"]
  /\ result' = [result EXCEPT ![c] = code]
  /\ KeepThread
  /\ UNCHANGED <<appVars, m_notify, m_messageQueue>>

\* A message whose telegram is not SEQ_OK; since createMaster() checks the
\* source address, this is also what a node without master address gets.
TransmitInvalid(c) ==
  /\ Alive /\ dtor = "alive" /\ call[c] = "new"
  /\ Returns(c, "EBUS_ERR_SEQUENCE")

TransmitOffline(c) ==
  /\ Alive /\ dtor = "alive" /\ call[c] = "new"
  /\ ~m_online
  /\ Returns(c, "EBUS_ERR_OFFLINE")

CallStep(c, from, to) ==
  /\ Alive /\ call[c] = from
  /\ call' = [call EXCEPT ![c] = to]
  /\ KeepThread
  /\ UNCHANGED <<appVars, result, m_notify>>

TransmitOnline(c) ==
  /\ dtor = "alive" /\ m_online
  /\ CallStep(c, "new", "checked")
  /\ UNCHANGED m_messageQueue

\* Mutant: the newest call is served first.
EnqueueFirst(c) ==
  /\ CallStep(c, "checked", "waiting")
  /\ m_messageQueue' = <<c>> \o m_messageQueue

Enqueue(c) ==
  /\ CallStep(c, "checked", "waiting")
  /\ m_messageQueue' = Append(m_messageQueue, c)

\* message->wait() returns and transmit() with it.
TransmitWake(c) ==
  /\ Alive /\ call[c] = "waiting"
  /\ notified[c] \/ SpuriousWakeups
  /\ Returns(c, m_state[c])

AppStep == Alive /\ KeepThread /\ UNCHANGED callerVars

Open ==
  /\ AppStep /\ "open" \in UserOps /\ dtor = "alive"
  /\ m_notify' = TRUE
  /\ wanted' = TRUE
  /\ UNCHANGED <<m_running, m_close, dtor, m_messageQueue>>

Close ==
  /\ AppStep /\ "close" \in UserOps /\ dtor = "alive"
  /\ m_close' = TRUE
  /\ wanted' = FALSE
  /\ UNCHANGED <<m_running, dtor, m_notify, m_messageQueue>>

\* The destructor calls close().  A call that is inside transmit() and has yet
\* to use the object (it is "checked") forbids the application to destroy it.
DtorClose ==
  /\ AppStep /\ "destroy" \in UserOps /\ dtor = "alive"
  /\ \A c \in Calls : call[c] # "checked"
  /\ m_close' = TRUE
  /\ wanted' = FALSE
  /\ dtor' = "closing"
  /\ UNCHANGED <<m_running, m_notify, m_messageQueue>>

DtorOffline ==
  /\ AppStep /\ dtor = "closing" /\ ~m_online
  /\ m_running' = FALSE
  /\ dtor' = "stopping"
  /\ UNCHANGED <<m_close, wanted, m_notify, m_messageQueue>>

\* Mutant: the destructor joins a thread it has not woken.
DtorNotifyNever ==
  /\ AppStep /\ dtor = "stopping"
  /\ dtor' = "joining"
  /\ UNCHANGED <<m_running, m_close, wanted, m_notify, m_messageQueue>>

DtorNotify ==
  /\ AppStep /\ dtor = "stopping"
  /\ m_notify' = TRUE
  /\ dtor' = "joining"
  /\ UNCHANGED <<m_running, m_close, wanted, m_messageQueue>>

\* The queue is emptied; the messages in it are dropped, not notified.
DtorJoin ==
  /\ AppStep /\ dtor = "joining" /\ pc = "stopped"
  /\ m_messageQueue' = <<>>
  /\ dtor' = "gone"
  /\ UNCHANGED <<m_running, m_close, wanted, m_notify>>

-----------------------------------------------------------------------------
Init ==
  /\ state = "OpenDevice" /\ pc = "handler" /\ retry = 1
  /\ isOpen = FALSE /\ m_lock_counter = 0 /\ m_sequence = 0
  /\ m_activeMessage = NoMessage /\ m_passiveMessage = FALSE
  /\ m_running = TRUE /\ m_online = FALSE /\ m_close = FALSE /\ m_notify = FALSE
  /\ m_messageQueue = <<>>
  /\ call = [c \in Calls |-> "new"]
  /\ m_state = [c \in Calls |-> "SEQ_OK"]
  /\ notified = [c \in Calls |-> FALSE]
  /\ result = [c \in Calls |-> "none"]
  /\ dtor = "alive"
  /\ delivered = [c \in Calls |-> FALSE]
  /\ quiet = LockCounterMax
  /\ wanted = TRUE

Lifecycle ==
  \/ Loop \/ IdleSystem \/ GoOffline \/ ClearClose
  \/ IdleBlock \/ IdlePass \/ IdleWake
  \/ OpenDevice \/ OpenFails \/ FlushSyn
  \/ \E error \in BOOLEAN : IOFails(error)

Monitor == MonitorSyn \/ ForeignByte \/ AddressedByte

Passive ==
  \/ ReceiveTooLong \/ ReceiveTooLongCrash \/ ReceiveInvalid \/ ReceiveValid
  \/ ProcessNoResponse \/ ProcessResponse
  \/ ResponseRefused \/ \E ack \in {"ack", "wrong", "nak"} : ResponseSent(ack)

Active ==
  \/ LockWon \/ \E fit \in BOOLEAN : LockLost(fit)
  \/ SendDone \/ SendAcked \/ SendRefused
  \/ \E ack \in {"wrong", "nak"} : SendFails(ack)
  \/ ResponseTooLong \/ ResponseValid \/ ResponseInvalid \/ ResponseFails
  \/ FreeBus

Run == Lifecycle \/ Monitor \/ Passive \/ Active

Transmit(c) ==
  \/ TransmitInvalid(c) \/ TransmitOffline(c) \/ TransmitOnline(c)
  \/ Enqueue(c) \/ TransmitWake(c)

Destructor == DtorOffline \/ DtorNotify \/ DtorJoin

Next ==
  \/ Run
  \/ \E c \in Calls : Transmit(c)
  \/ Open \/ Close \/ DtorClose \/ Destructor

Spec == Init /\ [][Next]_vars
-----------------------------------------------------------------------------
(* Fairness.  The service thread keeps running, which for its reads of      *)
(* echoed bytes, made without a timeout, assumes that the adapter echoes.   *)
(* A thread that leaves wait() or is about to enqueue is scheduled, and so  *)
(* is the destructor.  A device that can be opened is opened in the end,    *)
(* and a bus that is listened to again and again carries a SYN in the end:  *)
(* its SYN generator never stops.  The application owes no call.            *)

Fairness ==
  /\ WF_vars(Run)
  /\ \A c \in Calls : WF_vars(Enqueue(c)) /\ WF_vars(TransmitWake(c))
  /\ WF_vars(Destructor)
  /\ SF_vars(OpenDevice) /\ SF_vars(FlushSyn) /\ SF_vars(MonitorSyn)

FairSpec == Spec /\ Fairness

-----------------------------------------------------------------------------
(* Safety.                                                                 *)

TypeOK ==
  /\ state \in States /\ pc \in Locations /\ retry \in {0, 1}
  /\ isOpen \in BOOLEAN /\ m_lock_counter \in Nat /\ m_sequence \in 0..SeqCap
  /\ m_activeMessage \in Calls \cup {NoMessage} /\ m_passiveMessage \in BOOLEAN
  /\ m_running \in BOOLEAN /\ m_online \in BOOLEAN /\ m_close \in BOOLEAN
  /\ m_notify \in BOOLEAN /\ m_messageQueue \in Seq(Calls)
  /\ call \in [Calls -> {"new", "checked", "waiting", "returned"}]
  /\ m_state \in [Calls -> Codes] /\ notified \in [Calls -> BOOLEAN]
  /\ result \in [Calls -> Codes \cup {"none"}]
  /\ dtor \in {"alive", "closing", "stopping", "joining", "gone"}
  /\ delivered \in [Calls -> BOOLEAN] /\ quiet \in 0..LockCounterMax
  /\ wanted \in BOOLEAN

ActiveStates == {"LockBus", "SendMessage", "ReceiveResponse", "FreeBus"}

\* lockBus(), sendMessage(), receiveResponse() and sendResponse() dereference
\* m_activeMessage or m_passiveMessage without a test; no interleaving of
\* close(), device errors and passive telegrams lets them find it empty.
NoNullDereference ==
  pc = "handler" =>
    /\ state \in ActiveStates => m_activeMessage # NoMessage
    /\ state = "SendResponse" => m_passiveMessage

Pending == Range(m_messageQueue) \cup ({m_activeMessage} \ {NoMessage})

Unanswered == {c \in Calls : call[c] = "waiting" /\ ~notified[c]}

\* A call blocked in transmit() is queued or active, in one place and once,
\* until reset() notifies it; and the service holds no message whose caller
\* has left, whose Telegram is gone with the caller's stack frame.
CallAccounting ==
  dtor # "gone" =>
    /\ Pending = Unanswered
    /\ IsInjective(m_messageQueue)
    /\ m_activeMessage \notin Range(m_messageQueue)

\* A telegram whose protocol is complete is not put on the bus again.
NoResend ==
  m_activeMessage # NoMessage /\ delivered[m_activeMessage] =>
    state \in {"FreeBus", "IdleSystem"}

\* The node arbitrates only after it has heard m_lock_counter_max SYN bytes
\* since its own last access, whatever was received, lost or closed meanwhile.
LockDiscipline == InHandler("LockBus") => quiet = LockCounterMax

\* transmit() reports a telegram as failed in transmission only if it was
\* not delivered: only a device error, in freeing the bus, can hide a delivery.
DeliveryReported ==
  \A c \in Calls : delivered[c] => result[c] \in {"none", "SEQ_OK", "EBUS_ERR_DEVICE"}

\* transmit() returns SEQ_OK only for a telegram that was delivered
\* (Ebus.h: "error number if an error occurred").
OkMeansDelivered ==
  \A c \in Calls : result[c] = "SEQ_OK" => delivered[c]

\* The handlers of a telegram have lost their device to no close(), error or
\* failed opening before them: they read and write an open one.
IOOnOpenDevice ==
  \/ pc = "flush"
  \/ pc = "handler" /\ state \notin {"IdleSystem", "OpenDevice"}
  => isOpen

\* A size byte above the maximum makes the telegram invalid and no more.
NoCrash == pc # "crashed"

-----------------------------------------------------------------------------
(* Action properties.                                                      *)

\* A call is answered SEQ_OK without its telegram being delivered in two
\* handlers only: idleSystem(), and sendResponse(), whose reset() is meant
\* for the passive message but takes the active one with it.
AbandonedOnlyBy ==
  [][\A c \in Calls :
       /\ ~notified[c] /\ notified'[c]
       /\ m_state'[c] = "SEQ_OK" /\ ~delivered[c]
       => state \in {"IdleSystem", "SendResponse"}]_vars

\* idleSystem(), once it has blocked, ends only for an open() that no close()
\* has followed, or to stop, or to come back at once: after close() the device
\* stays closed.  (A flag that open() has left set keeps wait() from blocking.)
StaysClosed ==
  [][state = "IdleSystem" /\ state' = "OpenDevice" =>
       wanted \/ ~m_running \/ m_close \/ pc = "wait"]_vars

WorksOffline ==
  pc \in {"loop", "handler"} /\ state \notin {"IdleSystem", "OpenDevice"} /\ ~m_online

\* The bus is worked on with online() false, every transmit() refused, only
\* after an error in the flush of openDevice(): never after one in another
\* handler, nor while the service comes from or goes to the idle state.
OfflineOnlyByFlush == [][WorksOffline' => WorksOffline \/ pc = "flush"]_vars

-----------------------------------------------------------------------------
(* Liveness, under FairSpec.                                               *)

QuietBus == <>[][~(ForeignByte \/ AddressedByte \/ \E fit \in BOOLEAN : LockLost(fit))]_vars

\* Every call that has been queued returns, once the other participants leave
\* the bus alone and unless the process dies.
CallsReturn ==
  QuietBus /\ []NoCrash =>
    \A c \in Calls : (call[c] = "waiting") ~> (call[c] = "returned")

\* close() closes the device, unless the process dies or the destructor ends
\* the service.
CloseTakesEffect == []NoCrash => (m_close ~> (~isOpen \/ ~m_running))

\* The destructor returns, unless an open() on an open device has left a
\* notification behind.
DestructorReturns ==
  []NoCrash => ((dtor = "closing" /\ ~m_notify) ~> (dtor = "gone"))
=============================================================================
