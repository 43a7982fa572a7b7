----------------------------- MODULE EbusQueue -----------------------------
(***************************************************************************)
(* Ebus seen through TransmitQueue: the active message is the head of what *)
(* is pending, m_messageQueue the rest; a call is answered when reset()    *)
(* notifies it, before its thread returns from transmit().                 *)
(***************************************************************************)
EXTENDS Ebus

ActiveSeq == IF m_activeMessage = NoMessage THEN <<>> ELSE <<m_activeMessage>>

PendingSeq == IF dtor = "gone" THEN <<>> ELSE ActiveSeq \o m_messageQueue

AnswerOf == [c \in Calls |-> IF notified[c] THEN m_state[c] ELSE result[c]]

Queue == INSTANCE TransmitQueue WITH
  asked   <- {c \in Calls : call[c] \in {"waiting", "returned"}},
  pending <- PendingSeq,
  sent    <- {c \in Calls : delivered[c]},
  answer  <- AnswerOf

\* transmit() serves its calls in the order they were queued and answers each
\* once, whatever the application, the bus and the device do (reset() may
\* abandon an active message, the destructor the queued ones).
ServesInOrder == Queue!Spec

\* ... and keeps its promise to the letter as long as nobody calls close() and
\* no telegram is addressed to this node.
KeepsPromise == Queue!PromisedSpec
=============================================================================
