--------------------------- MODULE TransmitQueue ---------------------------
(***************************************************************************)
(* What transmit() promises its callers (include/ebus/Ebus.h), without the *)
(* bus: a call is refused at once, or it is queued; the queue is served    *)
(* from its head, one telegram at a time and each at most once; and the    *)
(* head leaves the queue with its answer, which is SEQ_OK exactly if its   *)
(* telegram was delivered, unless the device failed.                       *)
(***************************************************************************)
EXTENDS Sequences, FiniteSets

CONSTANTS Calls

VARIABLES
  asked,    \* the calls that have been refused or queued
  pending,  \* the calls waiting for an answer, in the order they are served
  sent,     \* the calls whose telegram was delivered
  answer    \* the answer of each call, "none" before it has one

vars == <<asked, pending, sent, answer>>

Init ==
  /\ asked = {} /\ pending = <<>> /\ sent = {}
  /\ answer = [c \in Calls |-> "none"]

Refuse(c) ==
  /\ c \in Calls \ asked
  /\ asked' = asked \cup {c}
  /\ \E code \in {"EBUS_ERR_SEQUENCE", "EBUS_ERR_OFFLINE"} :
       answer' = [answer EXCEPT ![c] = code]
  /\ UNCHANGED <<pending, sent>>

Submit(c) ==
  /\ c \in Calls \ asked
  /\ asked' = asked \cup {c}
  /\ pending' = Append(pending, c)
  /\ UNCHANGED <<sent, answer>>

Deliver ==
  /\ pending # <<>> /\ Head(pending) \notin sent
  /\ sent' = sent \cup {Head(pending)}
  /\ UNCHANGED <<asked, pending, answer>>

AnswerHead(code) ==
  /\ pending # <<>> /\ answer[Head(pending)] = "none"
  /\ answer' = [answer EXCEPT ![Head(pending)] = code]
  /\ pending' = Tail(pending)
  /\ UNCHANGED <<asked, sent>>

Answer ==
  \/ AnswerHead("SEQ_OK") /\ Head(pending) \in sent
  \/ AnswerHead("EBUS_ERR_TRANSMIT") /\ Head(pending) \notin sent
  \/ AnswerHead("EBUS_ERR_DEVICE")

Promised == (\E c \in Calls : Refuse(c) \/ Submit(c)) \/ Deliver \/ Answer

\* What the implementation does beside: it answers SEQ_OK without having
\* delivered anything, and forgets the calls that are pending at its end.
Abandon == AnswerHead("SEQ_OK") /\ Head(pending) \notin sent

Drop == pending' = <<>> /\ UNCHANGED <<asked, sent, answer>>

Spec         == Init /\ [][Promised \/ Abandon \/ Drop]_vars
PromisedSpec == Init /\ [][Promised]_vars
=============================================================================
