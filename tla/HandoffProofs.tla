--------------------------- MODULE HandoffProofs ---------------------------
(***************************************************************************)
(* Theorems about Handoff, for any number of calls and of threads that     *)
(* call open().                                                            *)
(***************************************************************************)
EXTENDS Handoff, Integers, TLAPS

CallPlaces == {"new", "enqueue", "wait", "asleep", "read", "returned"}

Serving == {"send", "publish", "notify", "notified", "forget"}

Emptying == {"size", "dequeue", "gone"}

\* Where each thread can be; "starved" is no place of any.
Places ==
  /\ \A c \in Calls : pc[c] \in CallPlaces
  /\ \A t \in Openers : pc[t] \in {"out", "notify", "notified"}
  /\ pc[Service] \in {"run", "size", "dequeue", "wait", "asleep", "stopped"} \cup Serving
  /\ pc[Owner] \in {"alive", "notify", "notified", "join"} \cup Emptying

\* A mutex has the holder that is in its notify(), and the other way round.
MutexHeld ==
  /\ \A o \in Notifies : mutex[o] # Nobody =>
       pc[mutex[o]] = "notified" /\ o = NotifiedBy(mutex[o])
  /\ \A t \in Threads : pc[t] = "notified" => mutex[NotifiedBy(t)] = t

\* The queue has one consumer at a time, which has seen that it is not empty.
OneConsumer ==
  /\ pc[Owner] \in Emptying => pc[Service] = "stopped"
  /\ pc[Service] = "dequeue" \/ pc[Owner] = "dequeue" => m_queue # <<>>

Queued(c) == \E i \in 1..Len(m_queue) : m_queue[i] = c

\* The service has a message exactly while it serves it, and holds it; what it
\* has, and what is queued, has been submitted.
ActiveHeld ==
  /\ m_activeMessage # NoMessage <=> pc[Service] \in Serving
  /\ \A c \in Calls : m_activeMessage = c => "service" \in refs[c]
  /\ \A c \in Calls : Queued(c) \/ m_activeMessage = c => pc[c] \notin {"new", "enqueue"}

HInv == Types /\ Places /\ MutexHeld /\ OneConsumer /\ ActiveHeld

LEMMA HInvInit == Init => HInv
<1> SUFFICES ASSUME Init PROVE HInv
  OBVIOUS
<1> USE HandoffAssumption
<1>1. /\ \A c \in Calls : pc[c] = "new"
      /\ \A t \in Openers : pc[t] = "out"
      /\ pc[Service] = "run" /\ pc[Owner] = "alive"
  BY DEF Init, Threads
<1>2. pc \in [Threads -> Locations]
  BY DEF Init, Threads, Locations
<1>3. Types
  <2>1. /\ m_queue \in Seq(Calls) /\ m_activeMessage \in Calls \cup {NoMessage}
        /\ asleep \subseteq Threads /\ m_running \in BOOLEAN /\ delivered \subseteq Calls
    BY DEF Init
  <2>2. /\ mutex \in [Notifies -> Threads \cup {Nobody}]
        /\ m_notify \in [Notifies -> BOOLEAN]
        /\ refs \in [Calls -> SUBSET {"caller", "queue", "service"}]
    BY DEF Init
  <2>3. /\ m_state \in [Calls -> {"SEQ_OK", "EBUS_ERR_TRANSMIT", "EBUS_ERR_DEVICE"}]
        /\ result \in [Calls -> {"none", "SEQ_OK", "EBUS_ERR_TRANSMIT", "EBUS_ERR_DEVICE"}]
    BY DEF Init
  <2> QED
    BY <1>2, <2>1, <2>2, <2>3 DEF Types
<1>4. Places
  BY <1>1 DEF Places, CallPlaces, Serving, Emptying
<1>5. MutexHeld
  BY <1>1 DEF Init, MutexHeld, Threads
<1>6. OneConsumer /\ ActiveHeld
  <2>1. m_activeMessage = NoMessage /\ Len(m_queue) = 0
    BY DEF Init
  <2>2. \A c \in Calls : ~Queued(c)
    BY <2>1 DEF Queued
  <2> QED
    BY <1>1, <2>1, <2>2 DEF OneConsumer, ActiveHeld, Emptying, Serving
<1> QED
  BY <1>3, <1>4, <1>5, <1>6 DEF HInv

LEMMA Moves ==
  ASSUME Types, NEW t \in Threads, NEW from, NEW to, Goes(t, from, to)
  PROVE  /\ pc[t] = from /\ pc'[t] = to
         /\ \A u \in Threads : u # t => pc'[u] = pc[u]
         /\ to \in Locations => pc' \in [Threads -> Locations]
BY DEF Goes, Types

\* A step of a thread that neither takes nor gives back a mutex, and leaves the
\* queue and the messages alone.
LEMMA PlainStep ==
  ASSUME HInv, NEW t \in Threads, NEW from, NEW to, Goes(t, from, to),
         UNCHANGED <<mutex, m_queue, m_activeMessage, refs>>,
         Types', Places',
         from # "notified", to # "notified",
         t = Owner /\ to \in Emptying => pc[Service] = "stopped",
         t = Service => from # "stopped" /\ (from \in Serving <=> to \in Serving),
         to = "dequeue" => m_queue # <<>>,
         to \notin {"new", "enqueue"}
  PROVE  HInv'
<1> USE HandoffAssumption DEF HInv
<1>1. pc[t] = from /\ pc'[t] = to /\ \A u \in Threads : u # t => pc'[u] = pc[u]
  BY Moves
<1>2. \A u \in Threads : pc'[u] = "notified" <=> pc[u] = "notified"
  BY <1>1
<1>3. \A u \in Threads : NotifiedBy(u)' = NotifiedBy(u)
  BY DEF NotifiedBy
<1>4. MutexHeld'
  BY <1>2, <1>3 DEF MutexHeld, Types
<1>5. OneConsumer'
  BY <1>1 DEF OneConsumer, Threads, Emptying, Places
<1>6. \A c \in Calls : Queued(c)' <=> Queued(c)
  BY DEF Queued
<1>7. ActiveHeld'
  BY <1>1, <1>6 DEF ActiveHeld, Threads, Places
<1> QED
  BY <1>4, <1>5, <1>7

LEMMA WaitStep ==
  ASSUME HInv, NEW t \in Calls \cup {Service}, Wait(t) PROVE HInv'
<1> USE HandoffAssumption
<1>1. PICK from \in {"wait", "asleep"}, to \in {"run", "read", "asleep"} :
         /\ Goes(t, from, to)
         /\ to = "run" => t = Service
         /\ to = "read" => t # Service
  BY DEF Wait, WaitPass, WaitBlock, WaitWake, AfterWait
<1>2. UNCHANGED <<mutex, messageVars>>
  BY DEF Wait, WaitPass, WaitBlock, WaitWake
<1>3. t \in Threads /\ t # Owner /\ t \notin Openers
  BY DEF Threads
<1>4. /\ pc[t] = from /\ pc'[t] = to /\ \A u \in Threads : u # t => pc'[u] = pc[u]
      /\ pc' \in [Threads -> Locations]
  BY <1>1, <1>3, Moves DEF HInv, Locations
<1>5. m_notify' \in [Notifies -> BOOLEAN] /\ asleep' \subseteq Threads
  BY <1>3 DEF Wait, WaitPass, WaitBlock, WaitWake, HInv, Types
<1>6. Types'
  BY <1>2, <1>4, <1>5 DEF HInv, Types, messageVars
<1>7. Places'
  BY <1>1, <1>3, <1>4 DEF HInv, Places, Threads, CallPlaces
<1> QED
  BY <1>1, <1>2, <1>3, <1>6, <1>7, PlainStep DEF messageVars, Serving

Notifiers == Openers \cup {Service, Owner}

\* A thread in notify() has the object it notifies.
LEMMA NotifiesOne ==
  ASSUME HInv, NEW t \in Notifiers, pc[t] \in {"notify", "notified"}
  PROVE  t \in Threads /\ NotifiedBy(t) \in Notifies
BY HandoffAssumption
DEF HInv, ActiveHeld, Types, NotifiedBy, Notifies, Serving, Notifiers, Threads

LEMMA NotifySetStep ==
  ASSUME HInv, NEW t \in Notifiers, NotifySet(t) PROVE HInv'
<1> USE HandoffAssumption
<1> DEFINE o == NotifiedBy(t)
<1>1. /\ Goes(t, "notify", "notified") /\ mutex[o] = Nobody
      /\ mutex' = [mutex EXCEPT ![o] = t]
      /\ m_notify' = [m_notify EXCEPT ![o] = TRUE]
      /\ asleep' \subseteq asleep /\ UNCHANGED messageVars
  BY DEF NotifySet
<1>2. pc[t] = "notify"
  BY <1>1 DEF Goes
<1>3. t \in Threads /\ o \in Notifies
  BY <1>2, NotifiesOne
<1>4. /\ pc'[t] = "notified" /\ \A u \in Threads : u # t => pc'[u] = pc[u]
      /\ pc' \in [Threads -> Locations]
  BY <1>1, <1>3, Moves DEF HInv, Locations
<1>5. mutex' \in [Notifies -> Threads \cup {Nobody}] /\ m_notify' \in [Notifies -> BOOLEAN]
  BY <1>1, <1>3 DEF HInv, Types
<1>6. Types'
  BY <1>1, <1>4, <1>5 DEF HInv, Types, messageVars
<1>7. Places'
  BY <1>4 DEF HInv, Places, Threads, CallPlaces, Serving, Notifiers
<1>8. \A u : NotifiedBy(u)' = NotifiedBy(u)
  BY <1>1 DEF NotifiedBy, messageVars
<1>9. mutex'[o] = t /\ \A n \in Notifies : n # o => mutex'[n] = mutex[n]
  BY <1>1, <1>3 DEF HInv, Types
<1>10. t # Nobody
  BY <1>3
<1>11. MutexHeld'
  <2>1. ASSUME NEW n \in Notifies, mutex'[n] # Nobody
        PROVE  pc'[mutex'[n]] = "notified" /\ n = NotifiedBy(mutex'[n])
    <3>1. CASE n = o
      BY <1>4, <1>9, <3>1
    <3>2. CASE n # o
      <4>1. mutex[n] \in Threads /\ pc[mutex[n]] = "notified" /\ n = NotifiedBy(mutex[n])
        BY <1>9, <2>1, <3>2 DEF HInv, MutexHeld, Types
      <4> QED
        BY <1>2, <1>4, <1>9, <3>2, <4>1
    <3> QED
      BY <3>1, <3>2
  <2>2. ASSUME NEW u \in Threads, pc'[u] = "notified" PROVE mutex'[NotifiedBy(u)] = u
    <3>1. CASE u = t
      BY <1>9, <3>1
    <3>2. CASE u # t
      <4>1. pc[u] = "notified" /\ mutex[NotifiedBy(u)] = u
        BY <1>4, <2>2, <3>2 DEF HInv, MutexHeld
      <4>2. u \in Notifiers
        BY <4>1 DEF HInv, Places, Notifiers, Threads, CallPlaces
      <4>3. NotifiedBy(u) \in Notifies
        BY <4>1, <4>2, NotifiesOne
      <4>4. NotifiedBy(u) # o
        BY <1>1, <4>1
      <4> QED
        BY <1>9, <4>1, <4>3, <4>4
    <3> QED
      BY <3>1, <3>2
  <2> QED
    BY <1>8, <2>1, <2>2 DEF MutexHeld
<1>12. OneConsumer'
  BY <1>1, <1>2, <1>4 DEF HInv, OneConsumer, Emptying, Threads, messageVars
<1>13. \A c \in Calls : Queued(c)' <=> Queued(c)
  BY <1>1 DEF Queued, messageVars
<1>14. ActiveHeld'
  BY <1>1, <1>2, <1>4, <1>13 DEF HInv, ActiveHeld, Serving, Threads, messageVars
<1> QED
  BY <1>6, <1>7, <1>11, <1>12, <1>14 DEF HInv

LEMMA NotifyUnlockStep ==
  ASSUME HInv, NEW t \in Notifiers, NotifyUnlock(t) PROVE HInv'
<1> USE HandoffAssumption
<1> DEFINE o == NotifiedBy(t)
<1>1. /\ Goes(t, "notified", AfterNotify(t))
      /\ mutex' = [mutex EXCEPT ![o] = Nobody]
      /\ UNCHANGED <<m_notify, asleep, messageVars>>
  BY DEF NotifyUnlock
<1>2. pc[t] = "notified"
  BY <1>1 DEF Goes
<1>3. t \in Threads /\ o \in Notifies
  BY <1>2, NotifiesOne
<1>4. AfterNotify(t) \in {"forget", "join", "out"}
  BY DEF AfterNotify, ResetOrder
<1>5. /\ pc'[t] = AfterNotify(t) /\ \A u \in Threads : u # t => pc'[u] = pc[u]
      /\ pc' \in [Threads -> Locations]
  BY <1>1, <1>3, <1>4, Moves DEF HInv, Locations
<1>6. mutex' \in [Notifies -> Threads \cup {Nobody}]
  BY <1>1, <1>3 DEF HInv, Types
<1>7. Types'
  BY <1>1, <1>5, <1>6 DEF HInv, Types, messageVars
<1>8. /\ t = Service => pc'[t] = "forget"
      /\ t = Owner => pc'[t] = "join"
      /\ t \in Openers => pc'[t] = "out"
  BY <1>5 DEF AfterNotify, ResetOrder
<1>9. Places'
  BY <1>5, <1>8 DEF HInv, Places, Threads, CallPlaces, Serving, Notifiers
<1>10. \A u : NotifiedBy(u)' = NotifiedBy(u)
  BY <1>1 DEF NotifiedBy, messageVars
<1>11. mutex'[o] = Nobody /\ \A n \in Notifies : n # o => mutex'[n] = mutex[n]
  BY <1>1, <1>3 DEF HInv, Types
<1>12. mutex[o] = t
  BY <1>2, <1>3 DEF HInv, MutexHeld
<1>13. MutexHeld'
  <2>1. ASSUME NEW n \in Notifies, mutex'[n] # Nobody
        PROVE  pc'[mutex'[n]] = "notified" /\ n = NotifiedBy(mutex'[n])
    <3>1. n # o /\ mutex'[n] = mutex[n]
      BY <1>11, <2>1
    <3>2. mutex[n] \in Threads /\ pc[mutex[n]] = "notified" /\ n = NotifiedBy(mutex[n])
      BY <2>1, <3>1 DEF HInv, MutexHeld, Types
    <3> QED
      BY <1>5, <3>1, <3>2
  <2>2. ASSUME NEW u \in Threads, pc'[u] = "notified" PROVE mutex'[NotifiedBy(u)] = u
    <3>1. u # t /\ pc[u] = "notified"
      BY <1>4, <1>5, <2>2
    <3>2. mutex[NotifiedBy(u)] = u
      BY <3>1 DEF HInv, MutexHeld
    <3>3. u \in Notifiers
      BY <3>1 DEF HInv, Places, Notifiers, Threads, CallPlaces
    <3>4. NotifiedBy(u) \in Notifies /\ NotifiedBy(u) # o
      BY <1>12, <3>1, <3>2, <3>3, NotifiesOne
    <3> QED
      BY <1>11, <3>2, <3>4
  <2> QED
    BY <1>10, <2>1, <2>2 DEF MutexHeld
<1>14. OneConsumer'
  BY <1>1, <1>2, <1>4, <1>5 DEF HInv, OneConsumer, Emptying, Threads, messageVars
<1>15. \A c \in Calls : Queued(c)' <=> Queued(c)
  BY <1>1 DEF Queued, messageVars
<1>16. ActiveHeld'
  <2>1. pc'[Service] \in Serving <=> pc[Service] \in Serving
    BY <1>2, <1>5, <1>8 DEF Serving, Threads
  <2>2. \A c \in Calls : pc'[c] = pc[c]
    BY <1>5 DEF Threads, Notifiers
  <2> QED
    BY <1>1, <1>15, <2>1, <2>2 DEF HInv, ActiveHeld, messageVars
<1> QED
  BY <1>7, <1>9, <1>13, <1>14, <1>16 DEF HInv

\* The places that a thread may be in after a plain step.
LEMMA PlacesStep ==
  ASSUME Types, Places, NEW t \in Threads, NEW from, NEW to \in Locations, Goes(t, from, to),
         t \in Calls => to \in CallPlaces,
         t \in Openers => to \in {"out", "notify", "notified"},
         t = Service => to \in {"run", "size", "dequeue", "wait", "asleep", "stopped"} \cup Serving,
         t = Owner => to \in {"alive", "notify", "notified", "join"} \cup Emptying
  PROVE  Places'
<1>1. pc'[t] = to /\ \A u \in Threads : u # t => pc'[u] = pc[u]
  BY Moves
<1> QED
  BY <1>1 DEF Places, Threads

LEMMA SizeStep ==
  ASSUME HInv, NEW t \in {Service, Owner}, Size(t) PROVE HInv'
<1> USE HandoffAssumption
<1>1. PICK to \in {"dequeue", "run", "gone"} :
         /\ Goes(t, "size", to)
         /\ to = "dequeue" => m_queue # <<>>
         /\ to = "run" => t = Service
         /\ to = "gone" => t # Service
  BY DEF Size, HasMessages
<1>2. UNCHANGED <<mutex, m_notify, asleep, messageVars>> /\ t \in Threads
  BY DEF Size, KeepNotifies, Threads
<1>3. pc[t] = "size" /\ to \in Locations /\ t \notin Calls \cup Openers
  BY <1>1 DEF Goes, Locations
<1>4. pc' \in [Threads -> Locations]
  BY <1>1, <1>2, <1>3, Moves DEF HInv
<1>5. Types'
  BY <1>2, <1>4 DEF HInv, Types, messageVars
<1>6. Places'
  BY <1>1, <1>2, <1>3, PlacesStep DEF HInv, Emptying
<1>7. t = Owner => pc[Service] = "stopped"
  BY <1>3 DEF HInv, OneConsumer, Emptying
<1> QED
  BY <1>1, <1>2, <1>5, <1>6, <1>7, PlainStep DEF messageVars, Serving

LEMMA DequeueStep ==
  ASSUME HInv, NEW t \in {Service, Owner}, Dequeue(t) PROVE HInv'
<1> USE HandoffAssumption
<1> DEFINE to == IF t = Service THEN "send" ELSE "size"
<1> DEFINE h == Head(m_queue)
<1>1. pc[t] = "dequeue" /\ t \in Threads /\ t \notin Calls \cup Openers
  BY DEF Dequeue, Goes, Threads
<1>2. m_queue # <<>>
  BY <1>1 DEF HInv, OneConsumer
<1>3. /\ Goes(t, "dequeue", to) /\ Pop(t) /\ UNCHANGED <<mutex, m_notify, asleep>>
  BY <1>2 DEF Dequeue, KeepNotifies
<1>4. to \in Locations
  BY DEF Locations
<1>5. /\ pc'[t] = to /\ \A u \in Threads : u # t => pc'[u] = pc[u]
      /\ pc' \in [Threads -> Locations]
  BY <1>1, <1>3, <1>4, Moves DEF HInv
<1>6. h \in Calls /\ Queued(h) /\ m_queue' \in Seq(Calls)
  BY <1>2, <1>3 DEF HInv, Types, Pop, Queued
<1>7. \A c \in Calls : Queued(c)' => Queued(c)
  BY <1>2, <1>3 DEF HInv, Types, Pop, Queued
<1>8. /\ UNCHANGED <<m_state, result, m_running, delivered>>
      /\ refs' = [refs EXCEPT ![h] = IF t = Service THEN Taken ELSE @ \ {"queue"}]
      /\ m_activeMessage' = IF t = Service THEN h ELSE m_activeMessage
  BY <1>3 DEF Pop
<1>9. refs' \in [Calls -> SUBSET {"caller", "queue", "service"}]
  BY <1>6, <1>8 DEF HInv, Types, Taken
<1>10. Types'
  BY <1>3, <1>5, <1>6, <1>8, <1>9 DEF HInv, Types
<1>11. Places'
  BY <1>1, <1>3, <1>4, PlacesStep DEF HInv, Emptying, Serving
<1>12. pc[Service] # "notified" /\ pc'[Service] # "notified"
  BY <1>1, <1>5 DEF HInv, OneConsumer, Threads, Emptying
<1>13. MutexHeld'
  <2>1. \A u \in Threads : (pc'[u] = "notified" <=> pc[u] = "notified")
    BY <1>1, <1>5
  <2>2. \A u \in Threads : pc[u] = "notified" => NotifiedBy(u)' = NotifiedBy(u)
    BY <1>12 DEF NotifiedBy
  <2> QED
    BY <1>3, <2>1, <2>2 DEF HInv, MutexHeld, Types
<1>14. OneConsumer'
  BY <1>1, <1>5 DEF HInv, OneConsumer, Emptying, Threads
<1>15. ActiveHeld'
  <2>1. pc[Service] \notin Serving
    BY <1>1 DEF HInv, OneConsumer, Emptying, Serving
  <2>2. m_activeMessage = NoMessage
    BY <2>1 DEF HInv, ActiveHeld
  <2>3. m_activeMessage' # NoMessage <=> pc'[Service] \in Serving
    BY <1>1, <1>5, <1>6, <1>8, <2>1, <2>2 DEF Serving, Threads
  <2>4. ASSUME NEW c \in Calls, m_activeMessage' = c PROVE "service" \in refs'[c]
    BY <1>6, <1>8, <2>2, <2>4 DEF HInv, Types, Taken
  <2>5. ASSUME NEW c \in Calls, Queued(c)' \/ m_activeMessage' = c
        PROVE  pc'[c] \notin {"new", "enqueue"}
    <3>1. Queued(c)
      BY <1>6, <1>7, <1>8, <2>2, <2>5
    <3>2. pc[c] \notin {"new", "enqueue"}
      BY <3>1 DEF HInv, ActiveHeld
    <3> QED
      BY <1>1, <1>5, <3>2 DEF Threads
  <2> QED
    BY <2>3, <2>4, <2>5 DEF ActiveHeld
<1> QED
  BY <1>10, <1>11, <1>13, <1>14, <1>15 DEF HInv

LEMMA TransmitStep ==
  ASSUME HInv, NEW c \in Calls, Transmit(c) \/ Return(c) PROVE HInv'
<1> USE HandoffAssumption
<1>1. PICK from \in {"new", "read"}, to \in {"enqueue", "returned"} :
         /\ Goes(c, from, to)
         /\ to = "enqueue" => from = "new"
  BY DEF Transmit, Return
<1>2. /\ UNCHANGED <<mutex, m_notify, asleep, m_queue, m_activeMessage, m_state,
                     m_running, delivered>>
      /\ c \in Threads
  BY DEF Transmit, Return, KeepNotifies, Threads
<1>3. /\ pc[c] = from /\ pc'[c] = to /\ \A u \in Threads : u # c => pc'[u] = pc[u]
      /\ pc' \in [Threads -> Locations]
  BY <1>1, <1>2, Moves DEF HInv, Locations
<1>4. /\ result' \in [Calls -> {"none", "SEQ_OK", "EBUS_ERR_TRANSMIT", "EBUS_ERR_DEVICE"}]
      /\ refs' \in [Calls -> SUBSET {"caller", "queue", "service"}]
  <2>1. CASE Transmit(c)
    BY <2>1 DEF HInv, Types, Transmit
  <2>2. CASE Return(c)
    <3>1. m_state[c] \in {"none", "SEQ_OK", "EBUS_ERR_TRANSMIT", "EBUS_ERR_DEVICE"}
      BY DEF HInv, Types
    <3>2. refs[c] \ {"caller"} \in SUBSET {"caller", "queue", "service"}
      BY DEF HInv, Types
    <3>3. /\ result' = [result EXCEPT ![c] = m_state[c]]
          /\ refs' = [refs EXCEPT ![c] = refs[c] \ {"caller"}]
      BY <2>2 DEF Return
    <3> QED
      BY <3>1, <3>2, <3>3 DEF HInv, Types
  <2> QED
    BY <2>1, <2>2
<1>5. Types'
  BY <1>2, <1>3, <1>4 DEF HInv, Types
<1>6. Places'
  BY <1>3 DEF HInv, Places, Threads, CallPlaces
<1>7. \A u : NotifiedBy(u)' = NotifiedBy(u)
  BY <1>2 DEF NotifiedBy
<1>8. MutexHeld'
  BY <1>2, <1>3, <1>7 DEF HInv, MutexHeld, Types
<1>9. OneConsumer'
  BY <1>2, <1>3 DEF HInv, OneConsumer, Threads
<1>10. \A d \in Calls : Queued(d)' <=> Queued(d)
  BY <1>2 DEF Queued
<1>11. to = "enqueue" => ~Queued(c) /\ m_activeMessage # c
  BY <1>1, <1>3 DEF HInv, ActiveHeld
<1>12. ASSUME NEW d \in Calls, m_activeMessage = d PROVE "service" \in refs'[d]
  <2>1. "service" \in refs[d] /\ pc[d] # "new"
    BY <1>12 DEF HInv, ActiveHeld
  <2>2. refs'[d] = refs[d] \/ refs'[d] = refs[d] \ {"caller"}
    BY <2>1 DEF Transmit, Return, Goes, HInv, Types
  <2> QED
    BY <2>1, <2>2
<1>13. ActiveHeld'
  BY <1>2, <1>3, <1>10, <1>11, <1>12 DEF HInv, ActiveHeld, Threads
<1> QED
  BY <1>5, <1>6, <1>8, <1>9, <1>13 DEF HInv

LEMMA EnqueueStep ==
  ASSUME HInv, NEW c \in Calls, Enqueue(c) PROVE HInv'
<1> USE HandoffAssumption
<1>1. /\ Goes(c, "enqueue", "wait") /\ m_queue' = Append(m_queue, c)
      /\ refs' = [refs EXCEPT ![c] = @ \cup {"queue"}]
      /\ UNCHANGED <<mutex, m_notify, asleep, m_activeMessage, m_state, result,
                     m_running, delivered>>
      /\ c \in Threads
  BY DEF Enqueue, KeepNotifies, Threads
<1>2. /\ pc[c] = "enqueue" /\ pc'[c] = "wait" /\ \A u \in Threads : u # c => pc'[u] = pc[u]
      /\ pc' \in [Threads -> Locations]
  BY <1>1, Moves DEF HInv, Locations
<1>3. m_queue' \in Seq(Calls) /\ m_queue' # <<>>
  BY <1>1 DEF HInv, Types
<1>4. refs' \in [Calls -> SUBSET {"caller", "queue", "service"}]
  BY <1>1 DEF HInv, Types
<1>5. Types'
  BY <1>1, <1>2, <1>3, <1>4 DEF HInv, Types
<1>6. Places'
  BY <1>2 DEF HInv, Places, Threads, CallPlaces
<1>7. \A u : NotifiedBy(u)' = NotifiedBy(u)
  BY <1>1 DEF NotifiedBy
<1>8. MutexHeld'
  BY <1>1, <1>2, <1>7 DEF HInv, MutexHeld, Types
<1>9. OneConsumer'
  BY <1>2, <1>3 DEF HInv, OneConsumer, Threads
<1>10. \A d \in Calls : Queued(d)' => Queued(d) \/ d = c
  BY <1>1 DEF Queued, HInv, Types
<1>11. \A d \in Calls : refs[d] \subseteq refs'[d]
  BY <1>1 DEF HInv, Types
<1>12. ActiveHeld'
  BY <1>1, <1>2, <1>10, <1>11 DEF HInv, ActiveHeld, Threads
<1> QED
  BY <1>5, <1>6, <1>8, <1>9, <1>12 DEF HInv

LEMMA ServeStep ==
  ASSUME HInv, Run \/ Send \/ Publish PROVE HInv'
<1> USE HandoffAssumption
<1>1. PICK from \in {"run", "send", "publish"}, to \in {"size", "wait", "stopped", "publish", "notify"} :
         /\ Goes(Service, from, to)
         /\ from = "run" <=> to \in {"size", "wait", "stopped"}
  BY DEF Run, Send, Publish, ResetOrder
<1>2. UNCHANGED <<mutex, m_notify, asleep, m_queue, m_activeMessage, refs, result, m_running>>
  BY DEF Run, Send, Publish, KeepNotifies, messageVars
<1>3. Service \in Threads /\ to \in Locations
  BY DEF Threads, Locations
<1>4. pc[Service] = from /\ pc' \in [Threads -> Locations]
  BY <1>1, <1>3, Moves DEF HInv
<1>5. /\ m_state' \in [Calls -> {"SEQ_OK", "EBUS_ERR_TRANSMIT", "EBUS_ERR_DEVICE"}]
      /\ delivered' \subseteq Calls
  <2>1. CASE Run \/ Publish
    BY <2>1 DEF Run, Publish, HInv, Types, messageVars
  <2>2. CASE Send
    <3>1. m_activeMessage \in Calls
      BY <2>2 DEF HInv, Types, ActiveHeld, Serving, Send, Goes
    <3> QED
      BY <2>2, <3>1 DEF Send, Answers, HInv, Types
  <2> QED
    BY <2>1, <2>2
<1>6. Types'
  BY <1>2, <1>4, <1>5 DEF HInv, Types
<1>7. Places'
  BY <1>1, <1>3, PlacesStep DEF HInv, Serving
<1> QED
  BY <1>1, <1>2, <1>3, <1>6, <1>7, PlainStep DEF Serving

LEMMA ForgetStep ==
  ASSUME HInv, Forget PROVE HInv'
<1> USE HandoffAssumption
<1>1. /\ Goes(Service, "forget", "run") /\ m_activeMessage' = NoMessage
      /\ refs' = [refs EXCEPT ![m_activeMessage] = @ \ {"service"}]
      /\ UNCHANGED <<mutex, m_notify, asleep, m_queue, m_state, result, m_running, delivered>>
      /\ Service \in Threads
  BY DEF Forget, ResetOrder, KeepNotifies, Threads
<1>2. /\ pc[Service] = "forget" /\ pc'[Service] = "run"
      /\ \A u \in Threads : u # Service => pc'[u] = pc[u]
      /\ pc' \in [Threads -> Locations]
  BY <1>1, Moves DEF HInv, Locations
<1>3. refs' \in [Calls -> SUBSET {"caller", "queue", "service"}]
  BY <1>1 DEF HInv, Types
<1>4. Types'
  BY <1>1, <1>2, <1>3 DEF HInv, Types
<1>5. Places'
  BY <1>2 DEF HInv, Places, Threads
<1>6. \A u : u # Service => NotifiedBy(u)' = NotifiedBy(u)
  BY DEF NotifiedBy
<1>7. MutexHeld'
  BY <1>1, <1>2, <1>6 DEF HInv, MutexHeld, Types
<1>8. OneConsumer'
  BY <1>1, <1>2 DEF HInv, OneConsumer, Threads, Emptying
<1>9. \A d \in Calls : Queued(d)' <=> Queued(d)
  BY <1>1 DEF Queued
<1>10. ActiveHeld'
  BY <1>1, <1>2, <1>9 DEF HInv, ActiveHeld, Serving, Threads
<1> QED
  BY <1>4, <1>5, <1>7, <1>8, <1>10 DEF HInv

LEMMA OwnerStep ==
  ASSUME HInv, Destroy \/ Join \/ \E t \in Openers : Open(t) PROVE HInv'
<1> USE HandoffAssumption
<1>1. PICK t \in Openers \cup {Owner}, from \in {"out", "alive", "join"}, to \in {"notify", "size"} :
         /\ Goes(t, from, to)
         /\ to = "size" => t = Owner /\ pc[Service] = "stopped"
  BY DEF Destroy, Join, Open
<1>2. /\ UNCHANGED <<mutex, m_notify, asleep, m_queue, m_activeMessage, refs, m_state,
                     result, delivered>>
      /\ m_running' \in BOOLEAN
  BY DEF Destroy, Join, Open, KeepNotifies, messageVars, HInv, Types
<1>3. t \in Threads /\ t \notin Calls /\ t # Service /\ to \in Locations
  BY DEF Threads, Locations
<1>4. pc' \in [Threads -> Locations]
  BY <1>1, <1>3, Moves DEF HInv
<1>5. Types'
  BY <1>2, <1>4 DEF HInv, Types
<1>6. Places'
  BY <1>1, <1>3, PlacesStep DEF HInv, Emptying
<1> QED
  BY <1>1, <1>2, <1>3, <1>5, <1>6, PlainStep DEF Emptying

LEMMA HInvStep == ASSUME HInv, [Next]_vars PROVE HInv'
<1>1. ASSUME NEW c \in Calls, Transmit(c) \/ Caller(c) PROVE HInv'
  BY <1>1, TransmitStep, EnqueueStep, WaitStep DEF Caller
<1>2. ASSUME NEW t \in Openers, Open(t) \/ Notify(t) PROVE HInv'
  BY <1>2, OwnerStep, NotifySetStep, NotifyUnlockStep DEF Notify, Notifiers
<1>3. CASE Serves
  BY <1>3, ServeStep, ForgetStep, WaitStep, SizeStep, DequeueStep, NotifySetStep,
     NotifyUnlockStep
  DEF Serves, Consumes, Notify, Notifiers
<1>4. CASE Destroy \/ Destructor
  BY <1>4, OwnerStep, SizeStep, DequeueStep, NotifySetStep, NotifyUnlockStep
  DEF Destructor, Consumes, Notify, Notifiers
<1>5. CASE UNCHANGED vars
  BY <1>5 DEF vars, HInv, Types, Places, MutexHeld, OneConsumer, ActiveHeld, Queued, NotifiedBy
<1> QED
  BY <1>1, <1>2, <1>3, <1>4, <1>5 DEF Next

LEMMA HInvAlways == Spec => []HInv
  BY HInvInit, HInvStep, PTL DEF Spec

\* The variables keep their types, and each mutex has the holder that will give
\* it back, for any number of calls and of threads that notify the service.
THEOREM HandoffTyped == Spec => []HandoffTypeOK
<1>1. ASSUME HInv PROVE HandoffTypeOK
  <2>1. ASSUME NEW t \in Threads, pc[t] = "notified" PROVE \E o \in Notifies : mutex[o] = t
    <3>1. mutex[NotifiedBy(t)] = t
      BY <1>1, <2>1 DEF HInv, MutexHeld
    <3>2. t \in Notifiers
      BY <1>1, <2>1 DEF HInv, Places, Notifiers, Threads, CallPlaces
    <3> QED
      BY <1>1, <2>1, <3>1, <3>2, NotifiesOne
  <2>2. ASSUME NEW t \in Threads, NEW o \in Notifies, mutex[o] = t PROVE pc[t] = "notified"
    BY <1>1, <2>2, HandoffAssumption DEF HInv, MutexHeld
  <2> QED
    BY <1>1, <2>1, <2>2 DEF HInv, HandoffTypeOK
<1> QED
  BY <1>1, HInvAlways, PTL

\* No thread finds the queue empty between size() and dequeue(), whatever
\* enqueue()s and wakeups come in between.
THEOREM NothingStarves == Spec => []NeverStarves
<1>1. HInv => NeverStarves
  BY DEF HInv, Places, NeverStarves, Threads, CallPlaces, Serving, Emptying
<1> QED
  BY <1>1, HInvAlways, PTL

\* A Message is not freed while the service has it or is in its notify(), also
\* where a spurious wakeup has let the caller return before.
THEOREM MessagesAlive == Spec => []MessageAlive
<1>1. ASSUME HInv, NEW c \in Calls, mutex[c] # Nobody PROVE m_activeMessage = c
  <2>1. mutex[c] \in Threads /\ c = NotifiedBy(mutex[c]) /\ c # Ebus
    BY <1>1, HandoffAssumption DEF HInv, MutexHeld, Types, Notifies
  <2> QED
    BY <2>1 DEF NotifiedBy
<1>2. HInv => MessageAlive
  BY <1>1 DEF HInv, ActiveHeld, MessageAlive
<1> QED
  BY <1>2, HInvAlways, PTL

-----------------------------------------------------------------------------
(* Where wait() returns only when notified: Handoff implements             *)
(* TransmitQueue, and the service uses no Telegram whose caller is gone.   *)

\* A call whose message the service has yet to notify.
Untold(c) ==
  Queued(c) \/ (m_activeMessage = c /\ pc[Service] \in {"send", "publish", "notify"})

Unserved(c) ==
  \/ pc[c] \in {"new", "enqueue"} \/ Queued(c)
  \/ m_activeMessage = c /\ pc[Service] = "send"

\* Its caller is in wait() until then, and can only be woken by notify().
CallerWaits ==
  /\ \A c \in Calls : Untold(c) => pc[c] \in {"wait", "asleep"} /\ ~m_notify[c]
  /\ \A c \in Calls : pc[c] = "asleep" => c \in asleep \/ m_notify[c]
  /\ \A c \in Calls : pc[c] \in {"new", "enqueue"} => ~m_notify[c]
  /\ \A c \in Calls :
       m_activeMessage = c /\ pc[Service] \in {"notified", "forget"} => Notified(c)

\* Every message is in the queue once, and served once.
ServedOnce ==
  /\ \A i, j \in 1..Len(m_queue) : m_queue[i] = m_queue[j] => i = j
  /\ \A c \in Calls : m_activeMessage = c => ~Queued(c)
  /\ \A c \in Calls : Unserved(c) => c \notin delivered /\ m_state[c] = "SEQ_OK"
  /\ \A c \in Calls : m_state[c] = "EBUS_ERR_TRANSMIT" => c \notin delivered

\* Nobody submits a call to an object that is being destroyed.
NoneAtEnd ==
  pc[Owner] # "alive" => ~m_running /\ \A c \in Calls : pc[c] # "enqueue"

WInv == CallerWaits /\ ServedOnce /\ NoneAtEnd

LEMMA WInvInit == Init => WInv
<1> SUFFICES ASSUME Init PROVE WInv
  OBVIOUS
<1> USE HandoffAssumption
<1>1. (\A c \in Calls : pc[c] = "new") /\ pc[Service] = "run" /\ pc[Owner] = "alive"
  BY DEF Init, Threads
<1>2. m_activeMessage = NoMessage /\ Len(m_queue) = 0
  BY DEF Init
<1>3. \A c \in Calls : ~Queued(c) /\ m_activeMessage # c
  BY <1>2 DEF Queued
<1>4. \A c \in Calls : ~m_notify[c] /\ c \notin delivered /\ m_state[c] = "SEQ_OK"
  BY DEF Init, Notifies
<1>5. CallerWaits
  BY <1>1, <1>3, <1>4 DEF CallerWaits, Untold
<1>6. ServedOnce
  BY <1>2, <1>3, <1>4 DEF ServedOnce
<1> QED
  BY <1>1, <1>5, <1>6 DEF WInv, NoneAtEnd

\* A step that TransmitQueue does not see.
Unseen == Asked' = Asked /\ Pending' = Pending /\ delivered' = delivered /\ AnswerOf' = AnswerOf

Ended == pc[Owner] \in Emptying

Same == UNCHANGED <<m_queue, m_activeMessage, m_state, delivered>>

\* A step that leaves the flags and the messages alone, and in which the service
\* neither takes a message nor notifies one.
LEMMA QuietStep ==
  ASSUME HInv, WInv, Same, UNCHANGED <<m_notify, asleep>>,
         \A c \in Calls :
           \/ pc'[c] = pc[c]
           \/ pc[c] = "read" /\ pc'[c] = "returned"
           \/ pc[c] = "new" /\ pc'[c] = "enqueue" /\ pc'[Owner] = "alive",
         \/ pc'[Service] = pc[Service]
         \/ pc[Service] \in {"send", "publish"} /\ pc'[Service] \in {"publish", "notify"}
         \/ pc[Service] = "notified" /\ pc'[Service] = "forget"
         \/ pc[Service] \notin Serving /\ pc'[Service] \notin Serving,
         pc'[Owner] # "alive" => ~m_running' /\ \A c \in Calls : pc'[c] # "enqueue"
  PROVE  /\ WInv'
         /\ Ended' = Ended => Unseen
         /\ ~Ended /\ Ended' => Transmits!Drop
<1> USE DEF Same
<1>1. \A c \in Calls : Queued(c)' <=> Queued(c)
  BY DEF Queued
<1>2. \A c \in Calls : (Untold(c)' => Untold(c)) /\ (Unserved(c)' => Unserved(c))
  BY <1>1 DEF Untold, Unserved, Serving
<1>3. \A c \in Calls : Notified(c)' <=> Notified(c)
  BY DEF Notified
<1>4. CallerWaits'
  BY <1>2, <1>3 DEF WInv, CallerWaits, Serving
<1>5. ServedOnce'
  BY <1>1, <1>2 DEF WInv, ServedOnce
<1>6. Asked' = Asked /\ AnswerOf' = AnswerOf
  BY <1>3 DEF Asked, AnswerOf
<1>7. Ended' = Ended => Pending' = Pending
  BY <1>3 DEF Pending, Ended, Emptying, HInv, Types
<1>8. Ended' => Pending' = <<>>
  BY DEF Pending, Ended, Emptying
<1> QED
  BY <1>4, <1>5, <1>6, <1>7, <1>8 DEF WInv, NoneAtEnd, Unseen, Transmits!Drop

\* The steps that TransmitQueue does not see, and the destructor's join().
LEMMA QuietSteps ==
  ASSUME HInv, WInv,
         \/ \E c \in Calls : Transmit(c) \/ Return(c)
         \/ \E t \in Notifiers : NotifyUnlock(t)
         \/ Size(Service) \/ Size(Owner) \/ Run \/ Publish
         \/ (\E t \in Openers : Open(t)) \/ Destroy \/ Join
  PROVE  WInv' /\ (Unseen \/ Transmits!Drop)
<1> USE HandoffAssumption DEF KeepNotifies, messageVars, Same
<1>1. CASE \E c \in Calls : Transmit(c) \/ Return(c)
  <2>1. PICK c \in Calls : Transmit(c) \/ Return(c)
    BY <1>1
  <2>2. /\ Same /\ UNCHANGED <<m_notify, asleep, m_running>>
        /\ \/ Goes(c, "new", "enqueue") /\ m_running
           \/ Goes(c, "read", "returned")
    BY <2>1 DEF Transmit, Return
  <2>3. c \in Threads /\ c # Service /\ c # Owner
    BY DEF Threads
  <2>4. /\ \A u \in Threads : u # c => pc'[u] = pc[u]
        /\ \/ pc[c] = "new" /\ pc'[c] = "enqueue" /\ m_running
           \/ pc[c] = "read" /\ pc'[c] = "returned"
    BY <2>2, <2>3, Moves DEF HInv
  <2>5. pc'[Service] = pc[Service] /\ pc'[Owner] = pc[Owner]
    BY <2>3, <2>4 DEF Threads
  <2>6. \A d \in Calls :
           \/ pc'[d] = pc[d]
           \/ pc[d] = "read" /\ pc'[d] = "returned"
           \/ pc[d] = "new" /\ pc'[d] = "enqueue" /\ pc'[Owner] = "alive"
    BY <2>4, <2>5 DEF Threads, WInv, NoneAtEnd
  <2>7. pc'[Owner] # "alive" => ~m_running' /\ \A d \in Calls : pc'[d] # "enqueue"
    BY <2>2, <2>5, <2>6 DEF WInv, NoneAtEnd
  <2>8. Ended' = Ended
    BY <2>5 DEF Ended
  <2> QED
    BY <2>2, <2>5, <2>6, <2>7, <2>8, QuietStep
<1>2. CASE (\E t \in Notifiers : NotifyUnlock(t)) \/ (\E t \in Openers : Open(t)) \/ Destroy \/ Join
  <2>1. PICK t \in Notifiers :
           NotifyUnlock(t) \/ (t \in Openers /\ Open(t)) \/ (t = Owner /\ (Destroy \/ Join))
    BY <1>2 DEF Notifiers
  <2>2. PICK from \in {"notified", "out", "alive", "join"}, to \in {"forget", "join", "out", "notify", "size"} :
           /\ Goes(t, from, to)
           /\ from = "notified" => to = AfterNotify(t)
           /\ t = Service => from = "notified"
           /\ t = Owner => to # "alive" /\ (from # "alive" \/ (~m_running' /\ \A c \in Calls : pc[c] # "enqueue"))
           /\ UNCHANGED m_running \/ (t = Owner /\ ~m_running')
    BY <2>1 DEF NotifyUnlock, Open, Destroy, Join, AfterNotify, ResetOrder
  <2>3. Same /\ UNCHANGED <<m_notify, asleep>>
    BY <2>1 DEF NotifyUnlock, Open, Destroy, Join
  <2>4. t \in Threads /\ t \notin Calls
    BY DEF Threads, Notifiers
  <2>5. pc[t] = from /\ pc'[t] = to /\ \A u \in Threads : u # t => pc'[u] = pc[u]
    BY <2>2, <2>4, Moves DEF HInv
  <2>6. \A c \in Calls : pc'[c] = pc[c]
    BY <2>4, <2>5 DEF Threads
  <2>7. \/ pc'[Service] = pc[Service]
        \/ pc[Service] = "notified" /\ pc'[Service] = "forget"
    BY <2>2, <2>5 DEF Threads, AfterNotify, ResetOrder
  <2>8. pc'[Owner] # "alive" => ~m_running' /\ \A c \in Calls : pc'[c] # "enqueue"
    BY <2>2, <2>5, <2>6 DEF WInv, NoneAtEnd, Threads
  <2>9. Ended => Ended'
    BY <2>2, <2>5 DEF Ended, Emptying, Threads
  <2>10. Ended' = Ended \/ (~Ended /\ Ended')
    BY <2>9 DEF Ended
  <2> QED
    BY <2>3, <2>6, <2>7, <2>8, <2>10, QuietStep
<1>3. CASE Size(Service) \/ Size(Owner) \/ Run \/ Publish
  <2>1. PICK t \in {Service, Owner}, from \in {"size", "run", "publish"},
             to \in {"dequeue", "run", "gone", "size", "wait", "stopped", "notify"} :
           /\ Goes(t, from, to)
           /\ from = "publish" <=> to = "notify"
           /\ t = Owner => from = "size" /\ to \in {"dequeue", "gone"}
    BY <1>3 DEF Size, Run, Publish, ResetOrder
  <2>2. Same /\ UNCHANGED <<m_notify, asleep, m_running>>
    BY <1>3 DEF Size, Run, Publish
  <2>3. t \in Threads /\ t \notin Calls
    BY DEF Threads
  <2>4. pc[t] = from /\ pc'[t] = to /\ \A u \in Threads : u # t => pc'[u] = pc[u]
    BY <2>1, <2>3, Moves DEF HInv
  <2>5. \A c \in Calls : pc'[c] = pc[c]
    BY <2>3, <2>4 DEF Threads
  <2>6. \/ pc'[Service] = pc[Service]
        \/ pc[Service] = "publish" /\ pc'[Service] = "notify"
        \/ pc[Service] \notin Serving /\ pc'[Service] \notin Serving
    BY <2>1, <2>4 DEF Threads, Serving
  <2>7. /\ pc'[Owner] = pc[Owner] \/ (pc[Owner] = "size" /\ pc'[Owner] \in {"dequeue", "gone"})
    BY <2>1, <2>4 DEF Threads
  <2>8. pc'[Owner] # "alive" => ~m_running' /\ \A c \in Calls : pc'[c] # "enqueue"
    BY <2>2, <2>5, <2>7 DEF WInv, NoneAtEnd
  <2>9. Ended' = Ended
    BY <2>7 DEF Ended, Emptying
  <2> QED
    BY <2>2, <2>5, <2>6, <2>8, <2>9, QuietStep
<1> QED
  BY <1>1, <1>2, <1>3

\* Only a call that has been told leaves wait().
LEMMA WaitUnseen ==
  ASSUME HInv, WInv, ~SpuriousWakeups, NEW t \in Calls \cup {Service}, Wait(t)
  PROVE  WInv' /\ Unseen
<1> USE HandoffAssumption
<1> DEFINE o == WaitsOn(t)
<1>1. t \in Threads /\ t # Owner /\ (t \in Calls => t # Service /\ o = t) /\ o \in Notifies
  BY DEF Threads, WaitsOn, Notifies
<1>2. PICK from \in {"wait", "asleep"}, to \in {"asleep", AfterWait(t)} :
         /\ Goes(t, from, to)
         /\ \/ from = "wait" /\ to = AfterWait(t) /\ m_notify[o] /\ UNCHANGED <<m_notify, asleep>>
            \/ from = "wait" /\ to = "asleep" /\ ~m_notify[o] /\ m_notify' = m_notify /\ asleep' = asleep \cup {t}
            \/ /\ from = "asleep" /\ to = AfterWait(t) /\ t \notin asleep
               /\ asleep' = asleep \ {t} /\ m_notify' = [m_notify EXCEPT ![o] = FALSE]
  BY DEF Wait, WaitPass, WaitBlock, WaitWake
<1>3. UNCHANGED messageVars /\ Same
  BY DEF Wait, WaitPass, WaitBlock, WaitWake, messageVars, Same
<1>4. pc[t] = from /\ pc'[t] = to /\ \A u \in Threads : u # t => pc'[u] = pc[u]
  BY <1>1, <1>2, Moves DEF HInv
<1>5. \A c \in Calls : c # t => pc'[c] = pc[c] /\ m_notify'[c] = m_notify[c] /\ (c \in asleep' <=> c \in asleep)
  BY <1>1, <1>2, <1>4 DEF Threads, HInv, Types, WaitsOn, Notifies
<1>6. pc'[Owner] = pc[Owner]
  BY <1>1, <1>4 DEF Threads
<1>7. /\ pc'[Service] \notin Serving <=> pc[Service] \notin Serving
      /\ t \in Calls \/ pc[Service] \notin Serving => pc'[Service] = pc[Service] \/ pc'[Service] \notin Serving
      /\ t = Service => pc[Service] \notin Serving
  BY <1>1, <1>2, <1>4 DEF Threads, Serving, AfterWait
<1>8. \A c \in Calls : Queued(c)' <=> Queued(c)
  BY <1>3 DEF Queued, Same
<1>9. \A c \in Calls : (Untold(c)' <=> Untold(c)) /\ (m_activeMessage = c => pc'[Service] = pc[Service])
  BY <1>1, <1>3, <1>4, <1>7, <1>8 DEF Untold, HInv, ActiveHeld, Threads, Same, Serving
<1>10. t \in Calls => \/ to = "read" /\ m_notify[t]
                      \/ to = "asleep" /\ from = "wait" /\ ~m_notify[t] /\ ~m_notify'[t]
  BY <1>1, <1>2, <1>4 DEF AfterWait, WInv, CallerWaits
<1>11. t \in Calls => to \in {"asleep", "read"}
  BY <1>1, <1>2 DEF AfterWait
<1>12. \A c \in Calls : Notified(c)' <=> Notified(c)
  BY <1>4, <1>5, <1>10 DEF Notified
<1>13. CallerWaits'
  <2>1. ASSUME NEW c \in Calls, Untold(c)' PROVE pc'[c] \in {"wait", "asleep"} /\ ~m_notify'[c]
    <3>1. pc[c] \in {"wait", "asleep"} /\ ~m_notify[c]
      BY <1>9, <2>1 DEF WInv, CallerWaits
    <3> QED
      BY <1>4, <1>5, <1>10, <3>1
  <2>2. ASSUME NEW c \in Calls, pc'[c] = "asleep" PROVE c \in asleep' \/ m_notify'[c]
    BY <1>1, <1>2, <1>4, <1>5, <1>11, <2>2 DEF WInv, CallerWaits, AfterWait
  <2>3. ASSUME NEW c \in Calls, pc'[c] \in {"new", "enqueue"} PROVE ~m_notify'[c]
    BY <1>4, <1>5, <1>11, <2>3 DEF WInv, CallerWaits
  <2>4. ASSUME NEW c \in Calls, m_activeMessage' = c, pc'[Service] \in {"notified", "forget"}
        PROVE  Notified(c)'
    BY <1>3, <1>9, <1>12, <2>4 DEF WInv, CallerWaits, Same
  <2> QED
    BY <2>1, <2>2, <2>3, <2>4 DEF CallerWaits
<1>14. \A c \in Calls : pc'[c] \in {"new", "enqueue"} <=> pc[c] \in {"new", "enqueue"}
  BY <1>2, <1>4, <1>5, <1>11
<1>15. \A c \in Calls : Unserved(c)' => Unserved(c)
  BY <1>3, <1>8, <1>9, <1>14 DEF Unserved, Same
<1>16. ServedOnce'
  BY <1>3, <1>8, <1>15 DEF WInv, ServedOnce, Same
<1>17. NoneAtEnd'
  BY <1>3, <1>6, <1>14, <1>4, <1>2, <1>11, <1>5 DEF WInv, NoneAtEnd, messageVars
<1>18. Asked' = Asked /\ AnswerOf' = AnswerOf
  BY <1>3, <1>12, <1>14 DEF Asked, AnswerOf, Same
<1>19. Pending' = Pending
  BY <1>3, <1>6, <1>12 DEF Pending, HInv, Types, Same
<1> QED
  BY <1>3, <1>13, <1>16, <1>17, <1>18, <1>19 DEF WInv, Unseen, Same

LEMMA EnqueueSubmits ==
  ASSUME HInv, WInv, NEW c \in Calls, Enqueue(c)
  PROVE  WInv' /\ Transmits!Submit(c)
<1> USE HandoffAssumption
<1>1. /\ Goes(c, "enqueue", "wait") /\ m_queue' = Append(m_queue, c) /\ c \in Threads
      /\ UNCHANGED <<m_notify, asleep, m_activeMessage, m_state, m_running, delivered>>
  BY DEF Enqueue, KeepNotifies, Threads
<1>2. pc[c] = "enqueue" /\ pc'[c] = "wait" /\ \A u \in Threads : u # c => pc'[u] = pc[u]
  BY <1>1, Moves DEF HInv
<1>3. pc'[Service] = pc[Service] /\ pc'[Owner] = pc[Owner] /\ pc[Owner] = "alive"
  BY <1>2 DEF Threads, WInv, NoneAtEnd
<1>4. /\ Len(m_queue') = Len(m_queue) + 1 /\ m_queue'[Len(m_queue) + 1] = c
      /\ \A i \in 1..Len(m_queue) : m_queue'[i] = m_queue[i]
      /\ m_queue \in Seq(Calls) /\ Len(m_queue) \in Nat
  BY <1>1 DEF HInv, Types
<1>5. /\ ~Queued(c) /\ m_activeMessage # c /\ ~m_notify[c]
      /\ c \notin delivered /\ m_state[c] = "SEQ_OK"
  BY <1>2 DEF HInv, ActiveHeld, WInv, CallerWaits, ServedOnce, Unserved
<1>6. \A d \in Calls : Queued(d)' <=> Queued(d) \/ d = c
  BY <1>4 DEF Queued
<1>7. \A d \in Calls : Notified(d)' <=> Notified(d)
  BY <1>1, <1>2 DEF Notified, Threads
<1>8. CallerWaits'
  BY <1>1, <1>2, <1>3, <1>5, <1>6, <1>7 DEF WInv, CallerWaits, Untold, Threads
<1>9. ServedOnce'
  <2>1. \A i, j \in 1..Len(m_queue') : m_queue'[i] = m_queue'[j] => i = j
    BY <1>4, <1>5 DEF WInv, ServedOnce, Queued
  <2>2. \A d \in Calls : Unserved(d)' => Unserved(d)
    BY <1>1, <1>2, <1>3, <1>6 DEF Unserved, Threads
  <2> QED
    BY <1>1, <1>5, <1>6, <2>1, <2>2 DEF WInv, ServedOnce
<1>10. Asked' = Asked \cup {c} /\ c \notin Asked
  BY <1>2 DEF Asked, Threads
<1>11. AnswerOf' = AnswerOf
  BY <1>1, <1>7 DEF AnswerOf
<1>12. Pending' = Append(Pending, c)
  <2>1. ASSUME NEW a \in Calls PROVE <<a>> \o Append(m_queue, c) = Append(<<a>> \o m_queue, c)
    BY <1>4
  <2> QED
    BY <1>1, <1>3, <1>7, <2>1 DEF Pending, HInv, Types
<1> QED
  BY <1>1, <1>3, <1>8, <1>9, <1>10, <1>11, <1>12 DEF WInv, NoneAtEnd, Transmits!Submit

\* A message goes from the head of the queue to the service, which has none.
LEMMA DequeueUnseen ==
  ASSUME HInv, WInv, NEW t \in {Service, Owner}, Dequeue(t)
  PROVE  WInv' /\ Unseen
<1> USE HandoffAssumption
<1>1. pc[t] = "dequeue" /\ t \in Threads /\ t \notin Calls /\ m_queue # <<>>
  BY DEF Dequeue, Goes, Threads, HInv, OneConsumer
<1>2. PICK h \in Calls : h = Head(m_queue)
  BY <1>1 DEF HInv, Types
<1>3. /\ Goes(t, "dequeue", IF t = Service THEN "send" ELSE "size")
      /\ m_queue' = Tail(m_queue)
      /\ m_activeMessage' = IF t = Service THEN h ELSE m_activeMessage
      /\ UNCHANGED <<m_notify, asleep, m_state, m_running, delivered>>
  BY <1>1, <1>2 DEF Dequeue, Pop, KeepNotifies
<1>4. /\ pc'[t] = IF t = Service THEN "send" ELSE "size"
      /\ \A u \in Threads : u # t => pc'[u] = pc[u]
  BY <1>1, <1>3, Moves DEF HInv
<1>5. (\A c \in Calls : pc'[c] = pc[c]) /\ (pc'[Owner] = pc[Owner] \/ (t = Owner /\ pc'[Owner] = "size"))
  BY <1>1, <1>4 DEF Threads
<1>6. pc[Service] \notin Serving /\ m_activeMessage = NoMessage
  BY <1>1 DEF HInv, OneConsumer, ActiveHeld, Emptying, Serving
<1>7. /\ m_queue \in Seq(Calls) /\ h \in Calls /\ h = m_queue[1] /\ Len(m_queue) \in Nat \ {0}
      /\ Len(m_queue') = Len(m_queue) - 1
      /\ \A i \in 1..Len(m_queue') : m_queue'[i] = m_queue[i + 1]
  BY <1>1, <1>2, <1>3 DEF HInv, Types
<1>8. Queued(h) /\ ~Queued(h)' /\ \A c \in Calls : Queued(c)' => Queued(c)
  BY <1>7 DEF Queued, WInv, ServedOnce
<1>9. \A c \in Calls : (Untold(c)' => Untold(c)) /\ (Unserved(c)' => Unserved(c))
  <2>1. t = Service => pc'[Service] = "send"
    BY <1>4
  <2>2. t # Service => pc'[Service] = pc[Service]
    BY <1>4 DEF Threads
  <2> QED
    BY <1>3, <1>5, <1>6, <1>8, <2>1, <2>2 DEF Untold, Unserved, Serving
<1>10. \A c \in Calls : Notified(c)' <=> Notified(c)
  BY <1>3, <1>5 DEF Notified
<1>11. pc'[Service] \notin {"notified", "forget"}
  BY <1>1, <1>4, <1>6 DEF Serving, Threads
<1>12. CallerWaits'
  BY <1>3, <1>5, <1>9, <1>11 DEF WInv, CallerWaits
<1>13. ServedOnce'
  <2>1. \A i, j \in 1..Len(m_queue') : m_queue'[i] = m_queue'[j] => i = j
    BY <1>7 DEF WInv, ServedOnce
  <2>2. \A c \in Calls : m_activeMessage' = c => ~Queued(c)'
    BY <1>3, <1>6, <1>8
  <2> QED
    BY <1>3, <1>9, <2>1, <2>2 DEF WInv, ServedOnce
<1>14. NoneAtEnd'
  BY <1>1, <1>3, <1>5 DEF WInv, NoneAtEnd
<1>15. Asked' = Asked /\ AnswerOf' = AnswerOf
  BY <1>3, <1>5, <1>10 DEF Asked, AnswerOf
<1>16. Pending' = Pending
  <2>1. CASE t = Service
    <3>1. pc'[Owner] = pc[Owner] /\ pc[Owner] \notin Emptying
      BY <1>1, <1>5, <2>1 DEF HInv, OneConsumer
    <3>2. ~Notified(h)' /\ h # NoMessage
      BY <1>7, <1>8, <1>10 DEF WInv, CallerWaits, Untold, Notified
    <3>3. <<h>> \o Tail(m_queue) = m_queue
      BY <1>1, <1>2, <1>7
    <3>4. Pending = m_queue
      BY <1>6, <3>1 DEF Pending, Emptying
    <3>5. m_activeMessage' = h /\ m_queue' = Tail(m_queue)
      BY <1>3, <2>1
    <3>6. Pending' = <<h>> \o Tail(m_queue)
      BY <3>1, <3>2, <3>5 DEF Pending, Emptying, Notified
    <3> QED
      BY <3>3, <3>4, <3>6
  <2>2. CASE t = Owner
    BY <1>1, <1>4, <2>2 DEF Pending
  <2> QED
    BY <2>1, <2>2
<1> QED
  BY <1>3, <1>12, <1>13, <1>14, <1>15, <1>16 DEF WInv, Unseen

\* While the service serves a call that it has not told, the call is the head of
\* what is pending.
LEMMA ActiveIsHead ==
  ASSUME HInv, WInv, pc[Service] \in {"send", "publish", "notify"},
         NEW a \in Calls, a = m_activeMessage
  PROVE  /\ Untold(a) /\ ~Notified(a)
         /\ Pending = <<a>> \o m_queue /\ Pending # <<>>
         /\ Head(Pending) = a /\ Tail(Pending) = m_queue
         /\ pc[Owner] \notin Emptying
<1>1. Untold(a) /\ ~Notified(a)
  BY DEF Untold, Notified, WInv, CallerWaits
<1>2. pc[Owner] \notin Emptying /\ a # NoMessage
  BY HandoffAssumption DEF HInv, OneConsumer
<1>3. Pending = <<a>> \o m_queue
  BY <1>1, <1>2 DEF Pending, Emptying
<1>4. \A q \in Seq(Calls) : <<a>> \o q # <<>> /\ Head(<<a>> \o q) = a /\ Tail(<<a>> \o q) = q
  OBVIOUS
<1> QED
  BY <1>1, <1>2, <1>3, <1>4 DEF HInv, Types

LEMMA SendDelivers ==
  ASSUME HInv, WInv, Send PROVE WInv' /\ (Unseen \/ Transmits!Deliver)
<1> USE HandoffAssumption
<1>1. pc[Service] = "send" /\ Service \in Threads
  BY DEF Send, Goes, Threads
<1>2. PICK a \in Calls : a = m_activeMessage
  BY <1>1 DEF HInv, ActiveHeld, Serving, Types
<1>3. /\ Goes(Service, "send", "publish") /\ Answers(a)
      /\ UNCHANGED <<m_notify, asleep, m_queue, m_activeMessage, m_running>>
  BY <1>2 DEF Send, ResetOrder, KeepNotifies
<1>4. pc'[Service] = "publish" /\ \A u \in Threads : u # Service => pc'[u] = pc[u]
  BY <1>1, <1>3, Moves DEF HInv
<1>5. (\A c \in Calls : pc'[c] = pc[c]) /\ pc'[Owner] = pc[Owner]
  BY <1>4 DEF Threads
<1>6. /\ delivered' = delivered \/ delivered' = delivered \cup {a}
      /\ \A c \in Calls : c # a => m_state'[c] = m_state[c]
      /\ m_state'[a] = "EBUS_ERR_TRANSMIT" => delivered' = delivered
  <2>1. m_state \in [Calls -> {"SEQ_OK", "EBUS_ERR_TRANSMIT", "EBUS_ERR_DEVICE"}]
    BY DEF HInv, Types
  <2>2. m_state[a] = "SEQ_OK"
    BY <1>1, <1>2 DEF WInv, ServedOnce, Unserved
  <2> QED
    BY <1>3, <2>1, <2>2 DEF Answers
<1>7. /\ Pending # <<>> /\ Head(Pending) = a /\ Untold(a) /\ ~Notified(a)
      /\ a \notin delivered /\ ~Queued(a)
  BY <1>1, <1>2, ActiveIsHead DEF WInv, ServedOnce, Unserved
<1>8. \A c \in Calls : Queued(c)' <=> Queued(c)
  BY <1>3 DEF Queued
<1>9. \A c \in Calls : (Untold(c)' <=> Untold(c)) /\ (Unserved(c)' => Unserved(c) /\ c # a)
  BY <1>1, <1>2, <1>3, <1>4, <1>5, <1>7, <1>8 DEF Untold, Unserved, HInv, ActiveHeld
<1>10. \A c \in Calls : Notified(c)' <=> Notified(c)
  BY <1>3, <1>5 DEF Notified
<1>11. CallerWaits'
  BY <1>3, <1>4, <1>5, <1>9 DEF WInv, CallerWaits
<1>12. ServedOnce'
  BY <1>3, <1>6, <1>7, <1>8, <1>9 DEF WInv, ServedOnce
<1>13. NoneAtEnd'
  BY <1>3, <1>5 DEF WInv, NoneAtEnd
<1>14. Asked' = Asked
  BY <1>5 DEF Asked
<1>15. AnswerOf' = AnswerOf
  BY <1>6, <1>7, <1>10 DEF AnswerOf
<1>16. Pending' = Pending
  BY <1>2, <1>3, <1>5, <1>10 DEF Pending
<1> QED
  BY <1>6, <1>7, <1>11, <1>12, <1>13, <1>14, <1>15, <1>16
  DEF WInv, Unseen, Transmits!Deliver

\* notify() of a Message is the answer; notify() of the service is unseen.
LEMMA NotifyAnswers ==
  ASSUME HInv, WInv, NEW t \in Notifiers, NotifySet(t)
  PROVE  WInv' /\ (Unseen \/ Transmits!Answer \/ Transmits!Abandon)
<1> USE HandoffAssumption
<1>1. pc[t] = "notify" /\ t \in Threads /\ t \notin Calls
  BY DEF NotifySet, Goes, Notifiers, Threads
<1>2. PICK o \in Notifies : o = NotifiedBy(t)
  BY <1>1, NotifiesOne
<1>3. /\ Goes(t, "notify", "notified") /\ m_notify' = [m_notify EXCEPT ![o] = TRUE]
      /\ asleep' = asleep \ {WaiterOf(o)}
      /\ UNCHANGED <<m_queue, m_activeMessage, m_state, m_running, delivered>>
  BY <1>2 DEF NotifySet, messageVars
<1>4. pc'[t] = "notified" /\ \A u \in Threads : u # t => pc'[u] = pc[u]
  BY <1>1, <1>3, Moves DEF HInv
<1>5. \A c \in Calls : pc'[c] = pc[c]
  BY <1>1, <1>4 DEF Threads
<1>6. \A c \in Calls : c # o => m_notify'[c] = m_notify[c] /\ (c \in asleep' <=> c \in asleep)
  BY <1>3 DEF HInv, Types, WaiterOf, Notifies
<1>7. \A c \in Calls : Queued(c)' <=> Queued(c)
  BY <1>3 DEF Queued
<1>8. pc'[Owner] = "alive" <=> pc[Owner] = "alive"
  BY <1>1, <1>4 DEF Threads
<1>9. pc'[Owner] \in Emptying <=> pc[Owner] \in Emptying
  BY <1>1, <1>4 DEF Threads, Emptying
<1>10. NoneAtEnd'
  BY <1>3, <1>5, <1>8 DEF WInv, NoneAtEnd
<1>11. Asked' = Asked
  BY <1>5 DEF Asked
<1>12. CASE t # Service
  <2>1. o \notin Calls /\ pc'[Service] = pc[Service]
    BY <1>2, <1>4, <1>12 DEF NotifiedBy, Threads
  <2>2. \A c \in Calls : m_notify'[c] = m_notify[c] /\ (c \in asleep' <=> c \in asleep)
    BY <1>6, <2>1
  <2>3. \A c \in Calls : (Untold(c)' <=> Untold(c)) /\ (Unserved(c)' <=> Unserved(c))
    BY <1>3, <1>5, <1>7, <2>1 DEF Untold, Unserved
  <2>4. \A c \in Calls : Notified(c)' <=> Notified(c)
    BY <1>5, <2>2 DEF Notified
  <2>5. CallerWaits'
    BY <1>3, <1>5, <2>1, <2>2, <2>3, <2>4 DEF WInv, CallerWaits
  <2>6. ServedOnce'
    BY <1>3, <1>7, <2>3 DEF WInv, ServedOnce
  <2>7. AnswerOf' = AnswerOf
    BY <1>3, <2>4 DEF AnswerOf
  <2>8. Pending' = Pending
    BY <1>3, <1>9, <2>4 DEF Pending, Emptying, HInv, Types
  <2> QED
    BY <1>3, <1>10, <1>11, <2>5, <2>6, <2>7, <2>8 DEF WInv, Unseen
<1>13. CASE t = Service
  <2>1. o = m_activeMessage
    BY <1>2, <1>13 DEF NotifiedBy
  <2>2. o \in Calls
    BY <1>1, <1>13, <2>1 DEF HInv, ActiveHeld, Serving, Types
  <2>3. /\ Untold(o) /\ ~Notified(o) /\ Pending # <<>>
        /\ Head(Pending) = o /\ Tail(Pending) = m_queue /\ pc[Owner] \notin Emptying
    BY <1>1, <1>13, <2>1, <2>2, ActiveIsHead
  <2>4. m_notify'[o] /\ pc[o] \in {"wait", "asleep"} /\ ~Queued(o)
    BY <1>3, <2>1, <2>2, <2>3 DEF HInv, Types, WInv, CallerWaits, ServedOnce
  <2>5. \A c \in Calls : (Untold(c)' => Untold(c) /\ c # o) /\ (Unserved(c)' => Unserved(c))
    BY <1>1, <1>3, <1>4, <1>5, <1>7, <1>13, <2>1, <2>4 DEF Untold, Unserved
  <2>6. \A c \in Calls : Notified(c)' <=> Notified(c) \/ c = o
    BY <1>5, <1>6, <2>4 DEF Notified
  <2>7. CallerWaits'
    BY <1>3, <1>5, <1>6, <2>1, <2>4, <2>5, <2>6 DEF WInv, CallerWaits
  <2>8. ServedOnce'
    BY <1>3, <1>7, <2>5 DEF WInv, ServedOnce
  <2>9. Pending' = m_queue
    BY <1>3, <1>9, <2>1, <2>2, <2>3, <2>6 DEF Pending, Emptying
  <2>10. AnswerOf[o] = "none" /\ AnswerOf' = [AnswerOf EXCEPT ![o] = m_state[o]]
    BY <1>3, <2>2, <2>3, <2>6 DEF AnswerOf
  <2>11. Transmits!AnswerHead(m_state[o])
    BY <1>3, <1>11, <2>3, <2>9, <2>10 DEF Transmits!AnswerHead
  <2>12. /\ m_state[o] \in {"SEQ_OK", "EBUS_ERR_TRANSMIT", "EBUS_ERR_DEVICE"}
         /\ m_state[o] = "EBUS_ERR_TRANSMIT" => o \notin delivered
    BY <2>2 DEF HInv, Types, WInv, ServedOnce
  <2>13. Transmits!Answer \/ Transmits!Abandon
    BY <2>3, <2>11, <2>12 DEF Transmits!Answer, Transmits!Abandon
  <2> QED
    BY <1>10, <2>7, <2>8, <2>13 DEF WInv
<1> QED
  BY <1>12, <1>13

\* reset() forgets a message that has been answered.
LEMMA ForgetUnseen ==
  ASSUME HInv, WInv, Forget PROVE WInv' /\ Unseen
<1> USE HandoffAssumption
<1>1. /\ Goes(Service, "forget", "run") /\ m_activeMessage' = NoMessage /\ Service \in Threads
      /\ UNCHANGED <<m_notify, asleep, m_queue, m_state, m_running, delivered>>
  BY DEF Forget, ResetOrder, KeepNotifies, Threads
<1>2. /\ pc[Service] = "forget" /\ pc'[Service] = "run"
      /\ \A u \in Threads : u # Service => pc'[u] = pc[u]
  BY <1>1, Moves DEF HInv
<1>3. (\A c \in Calls : pc'[c] = pc[c]) /\ pc'[Owner] = pc[Owner]
  BY <1>2 DEF Threads
<1>4. Notified(m_activeMessage)
  BY <1>2 DEF HInv, ActiveHeld, Serving, Types, WInv, CallerWaits
<1>5. \A c \in Calls : (Queued(c)' <=> Queued(c)) /\ (Notified(c)' <=> Notified(c))
  BY <1>1, <1>3 DEF Queued, Notified
<1>6. \A c \in Calls : (Untold(c)' => Untold(c)) /\ (Unserved(c)' => Unserved(c))
  BY <1>1, <1>3, <1>5 DEF Untold, Unserved
<1>7. CallerWaits' /\ ServedOnce' /\ NoneAtEnd'
  BY <1>1, <1>2, <1>3, <1>5, <1>6 DEF WInv, CallerWaits, ServedOnce, NoneAtEnd
<1>8. Asked' = Asked /\ AnswerOf' = AnswerOf
  BY <1>1, <1>3, <1>5 DEF Asked, AnswerOf
<1>9. Pending' = Pending
  BY <1>1, <1>3, <1>4 DEF Pending
<1> QED
  BY <1>1, <1>7, <1>8, <1>9 DEF WInv, Unseen

LEMMA StepImplements ==
  ASSUME HInv, WInv, ~SpuriousWakeups, [Next]_vars
  PROVE  WInv' /\ [Transmits!Promised \/ Transmits!Abandon \/ Transmits!Drop]_(Transmits!vars)
<1> DEFINE Step == Transmits!Promised \/ Transmits!Abandon \/ Transmits!Drop
<1>1. SUFFICES WInv' /\ (Unseen \/ Step)
  BY DEF Unseen, Transmits!vars
<1>2. ASSUME NEW c \in Calls, Transmit(c) \/ Caller(c) PROVE WInv' /\ (Unseen \/ Step)
  <2>1. CASE Enqueue(c)
    BY <2>1, EnqueueSubmits DEF Transmits!Promised
  <2>2. CASE Transmit(c) \/ Return(c)
    BY <2>2, QuietSteps
  <2>3. CASE Wait(c)
    BY <2>3, WaitUnseen
  <2> QED
    BY <1>2, <2>1, <2>2, <2>3 DEF Caller
<1>3. ASSUME NEW t \in Notifiers, Notify(t) PROVE WInv' /\ (Unseen \/ Step)
  <2>1. CASE NotifySet(t)
    BY <2>1, NotifyAnswers DEF Transmits!Promised
  <2>2. CASE NotifyUnlock(t)
    BY <2>2, QuietSteps
  <2> QED
    BY <1>3, <2>1, <2>2 DEF Notify
<1>4. CASE \E t \in Openers : Open(t) \/ Notify(t)
  BY <1>3, <1>4, QuietSteps DEF Notifiers
<1>5. CASE Serves
  <2>1. CASE Run \/ Publish \/ Size(Service)
    BY <2>1, QuietSteps
  <2>2. CASE Wait(Service)
    BY <2>2, WaitUnseen
  <2>3. CASE Dequeue(Service)
    BY <2>3, DequeueUnseen
  <2>4. CASE Send
    BY <2>4, SendDelivers DEF Transmits!Promised
  <2>5. CASE Notify(Service)
    BY <1>3, <2>5 DEF Notifiers
  <2>6. CASE Forget
    BY <2>6, ForgetUnseen
  <2> QED
    BY <1>5, <2>1, <2>2, <2>3, <2>4, <2>5, <2>6 DEF Serves, Consumes
<1>6. CASE Destroy \/ Destructor
  <2>1. CASE Destroy \/ Join \/ Size(Owner)
    BY <2>1, QuietSteps
  <2>2. CASE Dequeue(Owner)
    BY <2>2, DequeueUnseen
  <2>3. CASE Notify(Owner)
    BY <1>3, <2>3 DEF Notifiers
  <2> QED
    BY <1>6, <2>1, <2>2, <2>3 DEF Destructor, Consumes
<1>7. CASE UNCHANGED vars
  BY <1>7
  DEF vars, WInv, CallerWaits, ServedOnce, NoneAtEnd, Untold, Unserved, Queued, Notified,
      Unseen, Asked, Pending, AnswerOf
<1> QED
  BY <1>2, <1>4, <1>5, <1>6, <1>7 DEF Next

LEMMA WInvAlways == ASSUME ~SpuriousWakeups PROVE Spec => []WInv
<1>1. HInv /\ WInv /\ [Next]_vars => WInv'
  BY StepImplements
<1> QED
  BY <1>1, WInvInit, HInvAlways, PTL DEF Spec

\* The service uses the Telegram of a call, which is a variable of its caller,
\* only while the caller is in wait(), for any number of calls and whoever else
\* contends for the mutexes; this needs that wait() never returns by itself.
THEOREM TelegramsAlive == ASSUME ~SpuriousWakeups PROVE Spec => []TelegramAlive
<1>1. ASSUME HInv, WInv, pc[Service] \in {"send", "publish"}
      PROVE  m_activeMessage \in Calls /\ pc[m_activeMessage] \in {"wait", "asleep"}
  <2>1. m_activeMessage \in Calls
    BY <1>1 DEF HInv, ActiveHeld, Serving, Types
  <2> QED
    BY <1>1, <2>1 DEF WInv, CallerWaits, Untold
<1>2. HInv /\ WInv => TelegramAlive
  BY <1>1 DEF TelegramAlive
<1> QED
  BY <1>2, HInvAlways, WInvAlways, PTL

\* enqueue(), dequeue(), wait() and notify(), with their mutexes and with what
\* other threads do in between, serve the calls as TransmitQueue has it: in
\* their order, one at a time, each answered once and not before its end.
THEOREM HandoffImplements == ASSUME ~SpuriousWakeups PROVE Spec => HandoffServesInOrder
<1>1. Init => Transmits!Init
  <2>1. ASSUME Init PROVE Transmits!Init
    <3>1. /\ \A c \in Calls : pc[c] = "new" /\ ~m_notify[c]
          /\ pc[Owner] = "alive" /\ m_activeMessage = NoMessage
          /\ m_queue = <<>> /\ delivered = {}
      BY <2>1, HandoffAssumption DEF Init, Threads, Notifies
    <3>2. \A c \in Calls : ~Notified(c)
      BY <3>1 DEF Notified
    <3> QED
      BY <3>1, <3>2 DEF Transmits!Init, Asked, Pending, AnswerOf
  <2> QED
    BY <2>1
<1>2. HInv /\ WInv /\ [Next]_vars
      => [Transmits!Promised \/ Transmits!Abandon \/ Transmits!Drop]_(Transmits!vars)
  BY StepImplements
<1> QED
  BY <1>1, <1>2, HInvAlways, WInvAlways, PTL DEF Spec, HandoffServesInOrder, Transmits!Spec

-----------------------------------------------------------------------------
(* A Notify object is a flag.                                              *)

\* The objects whose waiter is inside m_condition.wait().
Sleeping == {o \in Notifies : pc[WaiterOf(o)] = "asleep"}

\* Who has been woken has been notified.
FlagInv == \A o \in Sleeping : WaiterOf(o) \notin asleep => m_notify[o]

Flagged == FlagInv' /\ [Flags!Next]_(Flags!vars)

\* A step of a thread outside wait() and notify().
LEMMA FlagKept ==
  ASSUME HInv, FlagInv, NEW t \in Threads, NEW from, NEW to, Goes(t, from, to),
         from # "asleep", to # "asleep", UNCHANGED <<m_notify, asleep>>
  PROVE  Flagged
<1>1. pc[t] = from /\ pc'[t] = to /\ \A u \in Threads : u # t => pc'[u] = pc[u]
  BY Moves DEF HInv
<1>2. \A o \in Notifies : WaiterOf(o) \in Threads
  BY DEF WaiterOf, Notifies, Threads
<1>3. Sleeping' = Sleeping
  BY <1>1, <1>2 DEF Sleeping
<1>4. FlagInv'
  BY <1>3 DEF FlagInv
<1>5. Flags!vars' = Flags!vars
  BY <1>3 DEF Flags!vars, Sleeping
<1> QED
  BY <1>4, <1>5 DEF Flagged

LEMMA FlagWaits ==
  ASSUME HInv, FlagInv, ~SpuriousWakeups, NEW t \in Calls \cup {Service}, Wait(t)
  PROVE  Flagged
<1> USE HandoffAssumption
<1> DEFINE o == WaitsOn(t)
<1>1. t \in Threads /\ o \in Notifies /\ WaiterOf(o) = t
  BY DEF Threads, WaitsOn, Notifies, WaiterOf
<1>2. \A n \in Notifies : n # o => WaiterOf(n) \in Threads /\ WaiterOf(n) # t
  BY DEF WaitsOn, WaiterOf, Notifies, Threads
<1>3. AfterWait(t) # "asleep"
  BY DEF AfterWait
<1>4. m_notify \in [Notifies -> BOOLEAN]
  BY DEF HInv, Types
<1> HIDE DEF o
<1>5. ASSUME NEW from, NEW to, Goes(t, from, to)
      PROVE  /\ pc[t] = from /\ pc'[t] = to
             /\ \A n \in Notifies : n # o => (n \in Sleeping' <=> n \in Sleeping)
  <2>1. pc[t] = from /\ pc'[t] = to /\ \A u \in Threads : u # t => pc'[u] = pc[u]
    BY <1>1, <1>5, Moves DEF HInv
  <2> QED
    BY <1>2, <2>1 DEF Sleeping
<1>6. CASE WaitPass(t)
  BY <1>1, <1>3, <1>6, FlagKept DEF WaitPass
<1>7. CASE WaitBlock(t)
  <2>1. Goes(t, "wait", "asleep") /\ ~m_notify[o] /\ asleep' = asleep \cup {t} /\ m_notify' = m_notify
    BY <1>7 DEF WaitBlock, o
  <2>2. pc[t] = "wait" /\ pc'[t] = "asleep" /\ \A n \in Notifies : n # o => (n \in Sleeping' <=> n \in Sleeping)
    BY <1>5, <2>1
  <2>3. o \notin Sleeping /\ Sleeping' = Sleeping \cup {o}
    BY <1>1, <2>2 DEF Sleeping
  <2>4. FlagInv'
    BY <1>1, <1>2, <2>1, <2>3 DEF FlagInv, Sleeping
  <2>5. Flags!Block(o)
    BY <2>1, <2>3 DEF Flags!Block, Sleeping
  <2> QED
    BY <1>1, <2>4, <2>5 DEF Flagged, Flags!Next
<1>8. CASE WaitWake(t)
  <2>1. /\ Goes(t, "asleep", AfterWait(t)) /\ t \notin asleep /\ asleep' = asleep \ {t}
        /\ m_notify' = [m_notify EXCEPT ![o] = FALSE]
    BY <1>8 DEF WaitWake, o
  <2>2. pc[t] = "asleep" /\ pc'[t] = AfterWait(t) /\ \A n \in Notifies : n # o => (n \in Sleeping' <=> n \in Sleeping)
    BY <1>5, <2>1
  <2>3. o \in Sleeping /\ Sleeping' = Sleeping \ {o}
    BY <1>1, <1>3, <2>2 DEF Sleeping
  <2>4. m_notify[o]
    BY <1>1, <2>1, <2>3 DEF FlagInv
  <2>5. FlagInv'
    <3>1. ASSUME NEW n \in Sleeping', WaiterOf(n)' \notin asleep' PROVE m_notify'[n]
      <4>1. n \in Notifies /\ n # o /\ n \in Sleeping
        BY <2>3, <3>1 DEF Sleeping
      <4>2. WaiterOf(n) \notin asleep
        BY <1>2, <2>1, <3>1, <4>1 DEF WaiterOf
      <4>3. m_notify[n]
        BY <4>1, <4>2 DEF FlagInv
      <4> QED
        BY <1>1, <1>4, <2>1, <4>1, <4>3
    <3> QED
      BY <3>1 DEF FlagInv
  <2>6. Flags!Wake(o)
    BY <2>1, <2>3, <2>4 DEF Flags!Wake, Sleeping
  <2> QED
    BY <1>1, <2>5, <2>6 DEF Flagged, Flags!Next
<1> QED
  BY <1>6, <1>7, <1>8 DEF Wait

LEMMA FlagNotifies ==
  ASSUME HInv, FlagInv, NEW t \in Notifiers, Notify(t)
  PROVE  Flagged
<1> DEFINE o == NotifiedBy(t)
<1>1. t \in Threads
  BY DEF Notifiers, Threads
<1>2. CASE NotifyUnlock(t)
  <2>1. AfterNotify(t) # "asleep"
    BY DEF AfterNotify, ResetOrder
  <2> QED
    BY <1>1, <1>2, <2>1, FlagKept DEF NotifyUnlock
<1>3. CASE NotifySet(t)
  <2>1. /\ Goes(t, "notify", "notified") /\ m_notify' = [m_notify EXCEPT ![o] = TRUE]
        /\ asleep' = asleep \ {WaiterOf(o)}
    BY <1>3 DEF NotifySet
  <2>2. pc[t] = "notify" /\ pc'[t] = "notified" /\ \A u \in Threads : u # t => pc'[u] = pc[u]
    BY <1>1, <2>1, Moves DEF HInv
  <2>3. o \in Notifies
    BY <2>2, NotifiesOne
  <2>4. m_notify \in [Notifies -> BOOLEAN]
    BY DEF HInv, Types
  <2> HIDE DEF o
  <2>5. \A n \in Notifies : WaiterOf(n) \in Threads
    BY DEF WaiterOf, Notifies, Threads
  <2>6. Sleeping' = Sleeping
    BY <2>2, <2>5 DEF Sleeping
  <2>7. \A m, n \in Notifies : WaiterOf(m) = WaiterOf(n) => m = n
    BY HandoffAssumption DEF WaiterOf, Notifies
  <2>8. FlagInv'
    <3>1. ASSUME NEW n \in Sleeping, WaiterOf(n) \notin asleep' PROVE m_notify'[n]
      <4>1. n \in Notifies
        BY DEF Sleeping
      <4>2. CASE n = o
        BY <2>1, <2>3, <2>4, <4>2
      <4>3. CASE n # o
        BY <2>1, <2>3, <2>4, <2>7, <3>1, <4>1, <4>3 DEF FlagInv
      <4> QED
        BY <4>2, <4>3
    <3> QED
      BY <2>6, <3>1 DEF FlagInv, WaiterOf
  <2>9. Flags!Notify(o)
    BY <2>1, <2>6 DEF Flags!Notify, Sleeping
  <2> QED
    BY <2>3, <2>8, <2>9 DEF Flagged, Flags!Next
<1> QED
  BY <1>2, <1>3 DEF Notify

LEMMA FlagStep ==
  ASSUME HInv, FlagInv, ~SpuriousWakeups, [Next]_vars PROVE Flagged
<1> USE DEF KeepNotifies
<1>1. Service \in Threads /\ Owner \in Threads /\ Calls \subseteq Threads /\ Openers \subseteq Threads
      /\ \A s \in DOMAIN ResetOrder : ResetOrder[s] # "asleep"
  BY DEF Threads, ResetOrder
<1>2. ASSUME NEW c \in Calls, Transmit(c) \/ Enqueue(c) \/ Return(c) PROVE Flagged
  BY <1>1, <1>2, FlagKept DEF Transmit, Enqueue, Return
<1>3. ASSUME NEW t \in {Service, Owner}, Consumes(t) PROVE Flagged
  BY <1>1, <1>3, FlagKept DEF Consumes, Size, Dequeue
<1>4. CASE Run
  BY <1>1, <1>4, FlagKept DEF Run
<1>5. CASE Send \/ Publish \/ Forget
  BY <1>1, <1>5, FlagKept DEF Send, Publish, Forget, ResetOrder
<1>6. ASSUME NEW t \in Openers, Open(t) PROVE Flagged
  BY <1>1, <1>6, FlagKept DEF Open
<1>7. CASE Destroy \/ Join
  BY <1>1, <1>7, FlagKept DEF Destroy, Join
<1>8. CASE UNCHANGED vars
  BY <1>8 DEF vars, Flagged, FlagInv, Sleeping, WaiterOf, Flags!vars
<1> QED
  BY <1>2, <1>3, <1>4, <1>5, <1>6, <1>7, <1>8, FlagWaits, FlagNotifies
  DEF Next, Caller, Serves, Destructor, Notifiers

\* wait() and notify(), with their mutex and the sleep between, are on every
\* object the flag that Ebus has in their place: what is set stays set until the
\* waiter that has blocked takes it, and nobody else takes it.
THEOREM NotifyFlagged == ASSUME ~SpuriousWakeups PROVE Spec => Flags!Spec
<1>1. Init => Flags!Init /\ FlagInv
  <2> SUFFICES ASSUME Init PROVE Flags!Init /\ FlagInv
    OBVIOUS
  <2>1. \A o \in Notifies : pc[WaiterOf(o)] # "asleep"
    BY HandoffAssumption DEF Init, Notifies, Threads, WaiterOf
  <2> QED
    BY <2>1 DEF Init, Flags!Init, FlagInv, Sleeping
<1>2. HInv /\ FlagInv /\ [Next]_vars => FlagInv' /\ [Flags!Next]_(Flags!vars)
  BY FlagStep DEF Flagged
<1> QED
  BY <1>1, <1>2, HInvAlways, PTL DEF Spec, Flags!Spec
=============================================================================
