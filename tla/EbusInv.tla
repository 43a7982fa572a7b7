------------------------------ MODULE EbusInv ------------------------------
(***************************************************************************)
(* The inductive invariants behind the safety properties of Ebus.          *)
(***************************************************************************)
EXTENDS Ebus

At(s) == pc \in {"handler", "loop"} /\ state = s

IdlePcs == {"flush", "idling", "goOffline", "clearClose", "wait", "blocked"}

\* Where the thread needs a message it has one, and where it gives the bus or
\* the device up it has none.
MessagesHeld ==
  /\ \A s \in ActiveStates : At(s) => m_activeMessage # NoMessage
  /\ At("SendResponse") => m_passiveMessage
  /\ state = "OpenDevice" \/ pc \in IdlePcs => m_activeMessage = NoMessage

\* What m_lock_counter still counts and what has been heard since this node
\* freed the bus make up the wait the protocol asks for.
LockCount ==
  /\ m_lock_counter + quiet >= LockCounterMax
  /\ At("LockBus") => quiet = LockCounterMax

\* The next four are about the calls, when wait() returns only if notified.
QueuedOnce ==
  \A i, j \in 1..Len(m_messageQueue) :
    /\ m_messageQueue[i] = m_messageQueue[j] => i = j
    /\ m_messageQueue[i] # m_activeMessage

PendingWait ==
  /\ \A c \in Pending : call[c] = "waiting" /\ ~notified[c]
  /\ dtor # "gone" => \A c \in Unanswered : c \in Pending
  /\ \A c \in Calls : call[c] # "returned" => result[c] = "none"
  /\ \A c \in Calls : notified[c] => call[c] \in {"waiting", "returned"}

Ending == state \in {"FreeBus", "IdleSystem"}

\* A failure or a delivery concerns the active message at the end of its turn,
\* or one that has been answered.
Decided ==
  \A c \in Calls :
    m_state[c] # "SEQ_OK" \/ delivered[c] =>
      \/ notified[c]
      \/ c = m_activeMessage /\ Ending

\* A delivered telegram is not reported as failed in transmission; a telegram
\* that frees the bus was delivered or failed.
Reported ==
  /\ \A c \in Calls : delivered[c] =>
       /\ m_state[c] \in {"SEQ_OK", "EBUS_ERR_DEVICE"}
       /\ result[c] \in {"none", "SEQ_OK", "EBUS_ERR_DEVICE"}
  /\ At("FreeBus") => \/ delivered[m_activeMessage]
                      \/ m_state[m_activeMessage] # "SEQ_OK"

CallInv == QueuedOnce /\ PendingWait /\ Decided /\ Reported

\* The invariant the proofs use, with wait() returning only if notified.
IInv == TypeOK /\ MessagesHeld /\ LockCount /\ CallInv
=============================================================================
