------------------------------- MODULE Handoff -------------------------------
(***************************************************************************)
(* How transmit() hands a message to the service thread and is answered,   *)
(* mutex by mutex: NQueue.h, Notify.h, the Message objects both sides hold *)
(* by shared_ptr, and the Telegram that lives on the caller's stack while  *)
(* the service uses it.  Ebus takes enqueue(), dequeue(), wait() and       *)
(* notify() as single steps on a queue and on flags; here each is the      *)
(* steps between which other threads run.                                  *)
(*                                                                         *)
(* A critical section is one step, taken when its mutex is free: nobody    *)
(* blocks in one, and what it touches is touched in no other way.  Only    *)
(* notify() gives its mutex back in a step of its own, since the woken     *)
(* waiter wants that mutex, and the object, at once.                       *)
(***************************************************************************)
EXTENDS Sequences, FiniteSets

CONSTANTS
  Calls,            \* the threads in transmit(), one call each
  Openers,          \* threads that call open() again and again
  Service,          \* the thread of run()
  Owner,            \* the thread that destroys the EbusImpl
  Ebus,             \* EbusImpl's own Notify
  NoMessage,        \* nullptr
  Nobody,           \* no thread
  SpuriousWakeups   \* whether condition_variable::wait may return unnotified

Threads == Calls \cup Openers \cup {Service, Owner}

\* The Notify objects; a Message is named after its call.
Notifies == Calls \cup {Ebus}

ASSUME HandoffAssumption ==
  /\ {Service, Owner} \cap (Calls \cup Openers) = {} /\ Service # Owner
  /\ Calls \cap Openers = {} /\ Nobody \notin Threads /\ NoMessage \notin Calls
  /\ Ebus \notin Calls
  /\ SpuriousWakeups \in BOOLEAN

VARIABLES
  pc,               \* where each thread is
  mutex,            \* the thread that is in notify() of each object, or Nobody
  m_notify,
  asleep,           \* the threads in m_condition.wait() that nobody has woken
  m_queue,
  m_activeMessage,
  refs,             \* who holds a shared_ptr to each Message
  m_state, result,  \* Message::m_state, and what transmit() has returned
  m_running,
  delivered         \* history: the calls whose telegrams were delivered

vars == <<pc, mutex, m_notify, asleep, m_queue, m_activeMessage, refs, m_state,
          result, m_running, delivered>>

messageVars == <<m_queue, m_activeMessage, refs, m_state, result, m_running, delivered>>

Goes(t, from, to) == pc[t] = from /\ pc' = [pc EXCEPT ![t] = to]

\* reset(): publish(), notify() and then the assignment of nullptr.
\* Mutant: the caller is notified before its telegram is published.
NotifyFirst ==
  [send |-> "notify", notify |-> "publish", publish |-> "forget", forget |-> "run"]

ResetOrder ==
  [send |-> "publish", publish |-> "notify", notify |-> "forget", forget |-> "run"]

-----------------------------------------------------------------------------
(* Notify: wait() and notify().                                            *)

\* Every object has one thread that ever waits on it.
WaitsOn(t) == IF t = Service THEN Ebus ELSE t
WaiterOf(o) == IF o = Ebus THEN Service ELSE o

NotifiedBy(t) == IF t = Service THEN m_activeMessage ELSE Ebus

AfterWait(t) == IF t = Service THEN "run" ELSE "read"

\* while (!m_notify): the flag is not cleared when it is found set.
WaitPass(t) ==
  /\ Goes(t, "wait", AfterWait(t))
  /\ mutex[WaitsOn(t)] = Nobody /\ m_notify[WaitsOn(t)]
  /\ UNCHANGED <<mutex, m_notify, asleep, messageVars>>

\* Mutant: the flag is not tested before blocking.
WaitBlockAlways(t) ==
  /\ Goes(t, "wait", "asleep")
  /\ mutex[WaitsOn(t)] = Nobody
  /\ asleep' = asleep \cup {t}
  /\ UNCHANGED <<mutex, m_notify, messageVars>>

WaitBlock(t) ==
  /\ Goes(t, "wait", "asleep")
  /\ mutex[WaitsOn(t)] = Nobody /\ ~m_notify[WaitsOn(t)]
  /\ asleep' = asleep \cup {t}
  /\ UNCHANGED <<mutex, m_notify, messageVars>>

\* m_condition.wait() returns with the mutex, and the loop is left.
WaitWake(t) ==
  /\ Goes(t, "asleep", AfterWait(t))
  /\ mutex[WaitsOn(t)] = Nobody /\ (t \notin asleep \/ SpuriousWakeups)
  /\ asleep' = asleep \ {t}
  /\ m_notify' = [m_notify EXCEPT ![WaitsOn(t)] = FALSE]
  /\ UNCHANGED <<mutex, messageVars>>

Wait(t) == WaitPass(t) \/ WaitBlock(t) \/ WaitWake(t)

\* Mutant: the flag is set and the waiter not woken.
NotifySilently(t) ==
  /\ Goes(t, "notify", "notified")
  /\ mutex[NotifiedBy(t)] = Nobody
  /\ mutex' = [mutex EXCEPT ![NotifiedBy(t)] = t]
  /\ m_notify' = [m_notify EXCEPT ![NotifiedBy(t)] = TRUE]
  /\ UNCHANGED <<asleep, messageVars>>

NotifySet(t) ==
  /\ Goes(t, "notify", "notified")
  /\ mutex[NotifiedBy(t)] = Nobody
  /\ mutex' = [mutex EXCEPT ![NotifiedBy(t)] = t]
  /\ m_notify' = [m_notify EXCEPT ![NotifiedBy(t)] = TRUE]
  /\ asleep' = asleep \ {WaiterOf(NotifiedBy(t))}
  /\ UNCHANGED messageVars

AfterNotify(t) == IF t = Service THEN ResetOrder["notify"] ELSE IF t = Owner THEN "join" ELSE "out"

\* Mutant: the mutex is not given back.
NotifyKeepsMutex(t) ==
  /\ Goes(t, "notified", AfterNotify(t))
  /\ UNCHANGED <<mutex, m_notify, asleep, messageVars>>

NotifyUnlock(t) ==
  /\ Goes(t, "notified", AfterNotify(t))
  /\ mutex' = [mutex EXCEPT ![NotifiedBy(t)] = Nobody]
  /\ UNCHANGED <<m_notify, asleep, messageVars>>

Notify(t) == NotifySet(t) \/ NotifyUnlock(t)

-----------------------------------------------------------------------------
(* NQueue: enqueue(), size() and dequeue().                                *)

KeepNotifies == UNCHANGED <<mutex, m_notify, asleep>>

\* Mutant: the newest message is put first.
EnqueueFirst(c) ==
  /\ Goes(c, "enqueue", "wait")
  /\ m_queue' = <<c>> \o m_queue
  /\ refs' = [refs EXCEPT ![c] = @ \cup {"queue"}]
  /\ KeepNotifies
  /\ UNCHANGED <<m_activeMessage, m_state, result, m_running, delivered>>

Enqueue(c) ==
  /\ Goes(c, "enqueue", "wait")
  /\ m_queue' = Append(m_queue, c)
  /\ refs' = [refs EXCEPT ![c] = @ \cup {"queue"}]
  /\ KeepNotifies
  /\ UNCHANGED <<m_activeMessage, m_state, result, m_running, delivered>>

\* Mutant: size() >= 0.
HasMessagesAlways == TRUE

HasMessages == m_queue # <<>>

Size(t) ==
  /\ Goes(t, "size", IF HasMessages THEN "dequeue" ELSE IF t = Service THEN "run" ELSE "gone")
  /\ KeepNotifies /\ UNCHANGED messageVars

\* Mutant: the service takes the message without a reference of its own.
TakenUnheld == refs[Head(m_queue)] \ {"queue"}

Taken == (refs[Head(m_queue)] \ {"queue"}) \cup {"service"}

\* monitorBus() keeps the message, the destructor resets the pointer.
Pop(t) ==
  /\ m_queue' = Tail(m_queue)
  /\ refs' = [refs EXCEPT ![Head(m_queue)] = IF t = Service THEN Taken ELSE @ \ {"queue"}]
  /\ m_activeMessage' = IF t = Service THEN Head(m_queue) ELSE m_activeMessage
  /\ UNCHANGED <<m_state, result, m_running, delivered>>

\* A thread that finds the queue empty waits for NQueue's own condition, which
\* nobody is there to notify: it is its only consumer.
Dequeue(t) ==
  /\ Goes(t, "dequeue", IF m_queue = <<>> THEN "starved"
                        ELSE IF t = Service THEN "send" ELSE "size")
  /\ IF m_queue = <<>> THEN UNCHANGED messageVars ELSE Pop(t)
  /\ KeepNotifies

Consumes(t) == Size(t) \/ Dequeue(t)

-----------------------------------------------------------------------------
(* transmit().                                                             *)

\* The application makes no call of an object it is destroying.
Transmit(c) ==
  /\ Goes(c, "new", "enqueue") /\ m_running
  /\ refs' = [refs EXCEPT ![c] = {"caller"}]
  /\ KeepNotifies
  /\ UNCHANGED <<m_queue, m_activeMessage, m_state, result, m_running, delivered>>

\* The caller takes the answer, drops its reference and returns: its Telegram
\* is gone.
Return(c) ==
  /\ Goes(c, "read", "returned")
  /\ result' = [result EXCEPT ![c] = m_state[c]]
  /\ refs' = [refs EXCEPT ![c] = @ \ {"caller"}]
  /\ KeepNotifies
  /\ UNCHANGED <<m_queue, m_activeMessage, m_state, m_running, delivered>>

Caller(c) == Enqueue(c) \/ Wait(c) \/ Return(c)

-----------------------------------------------------------------------------
(* The service: run() between two handlers, what the handlers do with an   *)
(* active message, and reset().                                            *)

\* monitorBus() looks for a message, idleSystem() waits, or the thread ends.
Run ==
  /\ \/ m_running /\ \E next \in {"size", "wait"} : Goes(Service, "run", next)
     \/ ~m_running /\ Goes(Service, "run", "stopped")
  /\ KeepNotifies /\ UNCHANGED messageVars

Answers(c) ==
  \/ /\ m_state' = m_state
     /\ delivered' \in {delivered, delivered \cup {c}}
  \/ /\ m_state' = [m_state EXCEPT ![c] = "EBUS_ERR_TRANSMIT"]
     /\ UNCHANGED delivered
  \/ /\ m_state' = [m_state EXCEPT ![c] = "EBUS_ERR_DEVICE"]
     /\ delivered' \in {delivered, delivered \cup {c}}

\* The handlers use the caller's Telegram.
Send ==
  /\ Goes(Service, "send", ResetOrder["send"])
  /\ Answers(m_activeMessage)
  /\ KeepNotifies
  /\ UNCHANGED <<m_queue, m_activeMessage, refs, result, m_running>>

Publish ==
  /\ Goes(Service, "publish", ResetOrder["publish"])
  /\ KeepNotifies /\ UNCHANGED messageVars

Forget ==
  /\ Goes(Service, "forget", ResetOrder["forget"])
  /\ refs' = [refs EXCEPT ![m_activeMessage] = @ \ {"service"}]
  /\ m_activeMessage' = NoMessage
  /\ KeepNotifies
  /\ UNCHANGED <<m_queue, m_state, result, m_running, delivered>>

Serves == Run \/ Wait(Service) \/ Consumes(Service) \/ Send \/ Publish \/ Notify(Service) \/ Forget

-----------------------------------------------------------------------------
(* open() and the destructor.                                              *)

Open(t) ==
  /\ Goes(t, "out", "notify") /\ m_running
  /\ KeepNotifies /\ UNCHANGED messageVars

\* m_running = false, when no other thread uses the object any more but for
\* those that wait for a Message.
Destroy ==
  /\ Goes(Owner, "alive", "notify")
  /\ \A t \in Calls : pc[t] # "enqueue"
  /\ \A t \in Openers : pc[t] = "out"
  /\ m_running' = FALSE
  /\ KeepNotifies
  /\ UNCHANGED <<m_queue, m_activeMessage, refs, m_state, result, delivered>>

Join ==
  /\ Goes(Owner, "join", "size") /\ pc[Service] = "stopped"
  /\ KeepNotifies /\ UNCHANGED messageVars

Destructor == Notify(Owner) \/ Join \/ Consumes(Owner)

-----------------------------------------------------------------------------
Init ==
  /\ pc = [t \in Threads |-> CASE t \in Calls -> "new" [] t \in Openers -> "out"
                               [] t = Service -> "run" [] t = Owner -> "alive"]
  /\ mutex = [o \in Notifies |-> Nobody]
  /\ m_notify = [o \in Notifies |-> FALSE]
  /\ asleep = {} /\ m_queue = <<>> /\ m_activeMessage = NoMessage
  /\ refs = [c \in Calls |-> {}]
  /\ m_state = [c \in Calls |-> "SEQ_OK"] /\ result = [c \in Calls |-> "none"]
  /\ m_running = TRUE /\ delivered = {}

Next ==
  \/ \E c \in Calls : Transmit(c) \/ Caller(c)
  \/ \E t \in Openers : Open(t) \/ Notify(t)
  \/ Serves \/ Destroy \/ Destructor

Spec == Init /\ [][Next]_vars

\* A thread that can go on does; the service, which shares the mutex of its
\* Notify with threads that call open() for ever, gets it in the end.
FairSpec ==
  /\ Spec
  /\ \A c \in Calls : WF_vars(Caller(c))
  /\ \A t \in Openers : WF_vars(Notify(t))
  /\ WF_vars(Destructor)
  /\ WF_vars(Serves) /\ SF_vars(Wait(Service))

-----------------------------------------------------------------------------
(* Properties.                                                             *)

Locations ==
  {"new", "enqueue", "wait", "asleep", "read", "returned", "out", "notify",
   "notified", "alive", "join", "run", "size", "dequeue", "starved", "send",
   "publish", "forget", "stopped", "gone"}

Types ==
  /\ pc \in [Threads -> Locations]
  /\ mutex \in [Notifies -> Threads \cup {Nobody}]
  /\ m_notify \in [Notifies -> BOOLEAN]
  /\ asleep \subseteq Threads /\ m_queue \in Seq(Calls)
  /\ m_activeMessage \in Calls \cup {NoMessage}
  /\ refs \in [Calls -> SUBSET {"caller", "queue", "service"}]
  /\ m_state \in [Calls -> {"SEQ_OK", "EBUS_ERR_TRANSMIT", "EBUS_ERR_DEVICE"}]
  /\ result \in [Calls -> {"none", "SEQ_OK", "EBUS_ERR_TRANSMIT", "EBUS_ERR_DEVICE"}]
  /\ m_running \in BOOLEAN /\ delivered \subseteq Calls

\* The variables have their types, and a mutex is held where its holder is.
HandoffTypeOK ==
  /\ Types
  /\ \A t \in Threads : pc[t] = "notified" <=> \E o \in Notifies : mutex[o] = t

\* dequeue() never finds the queue empty, between size() and dequeue() too:
\* a thread in its wait would stay there, and the service with it.
NeverStarves == \A t \in Threads : pc[t] # "starved"

\* A Message outlives every use of it: it is not freed while a thread holds its
\* mutex (unlocking in notify() included) or the service has it.
MessageAlive ==
  \A c \in Calls : mutex[c] # Nobody \/ m_activeMessage = c => refs[c] # {}

\* The service uses the Telegram of a call, and writes its Message, only while
\* the caller has yet to come back from wait(): no step of it races with the
\* caller's reading of the answer or follows the end of its stack frame.
TelegramAlive ==
  pc[Service] \in {"send", "publish"} /\ m_activeMessage # NoMessage =>
    pc[m_activeMessage] \in {"wait", "asleep"}

\* Whoever is notified returns from transmit(), whatever contends for the
\* mutexes: no notification is lost between the test of the flag and the sleep.
NotifiedReturns == \A c \in Calls : m_notify[c] ~> (pc[c] = "returned")

\* Each Notify object is the flag that Ebus takes it for, and wakes its waiter.
Flags == INSTANCE NotifyFlag WITH
  flag <- m_notify, blocked <- {o \in Notifies : pc[WaiterOf(o)] = "asleep"}

NotifyIsFlag == Flags!FairSpec

\* transmit() as TransmitQueue has it: a call is pending from the step in which
\* it is in the queue to the one in which its Message is notified.
Notified(c) == m_notify[c] \/ pc[c] \in {"read", "returned"}

Asked == {c \in Calls : pc[c] \notin {"new", "enqueue"}}

Pending ==
  IF pc[Owner] \in {"size", "dequeue", "gone"} THEN <<>>
  ELSE IF m_activeMessage # NoMessage /\ ~Notified(m_activeMessage)
       THEN <<m_activeMessage>> \o m_queue
       ELSE m_queue

AnswerOf == [c \in Calls |-> IF Notified(c) THEN m_state[c] ELSE "none"]

Transmits == INSTANCE TransmitQueue WITH
  asked <- Asked, pending <- Pending, sent <- delivered, answer <- AnswerOf

\* The threads together serve the calls in order, each once: what Ebus shows
\* with enqueue() and reset() as single steps holds with the mutexes in between.
HandoffServesInOrder == Transmits!Spec
=============================================================================
