------------------------------ MODULE Delivery ------------------------------
(***************************************************************************)
(* What one transmit() amounts to between two nodes, without the bytes on  *)
(* the bus: the addressee accepts what the sender was asked to send, and   *)
(* answers it, each at most once and not after the sender has its result;  *)
(* and the result is SEQ_OK only if all that was done, with the answer in  *)
(* it that was given.  A broadcast needs nobody.  One of the two nodes may *)
(* be deceived, though: by then it has not accepted what it reads, and it  *)
(* may accept anything.  All variables but answer and deceived are sets of *)
(* at most one part.                                                       *)
(***************************************************************************)
CONSTANTS
  Messages,    \* the master parts that may be sent
  Broadcasts,  \* those to everybody
  Requests,    \* those to a slave, which responds
  Responses    \* what a slave may respond

VARIABLES
  asked,     \* what the sender was asked to send
  accepted,  \* what the addressee has accepted
  answered,  \* what the addressee has responded
  deceived,  \* the node that takes a SYN for the rest of a part, or "nobody"
  answer,    \* what transmit() returns, "none" before it is known
  returned   \* the response that comes with it

sender    == <<asked, answer, returned>>
addressee == <<accepted, answered>>
vars      == <<sender, addressee, deceived>>

Init ==
  /\ asked = {} /\ answer = "none" /\ returned = {}
  /\ accepted = {} /\ answered = {}
  /\ deceived = "nobody"

\* A set of one part, whichever.
IsPart(set) == set # {} /\ \A m, n \in set : m = n

Ask ==
  /\ asked = {}
  /\ \E m \in Messages : asked' = {m}
  /\ UNCHANGED <<answer, returned>>

Underway == asked # {} /\ answer = "none"

Fail ==
  /\ Underway
  /\ answer' \in {"EBUS_ERR_TRANSMIT", "EBUS_ERR_DEVICE"}
  /\ UNCHANGED <<asked, returned>>

\* The response that is given is the one that is returned.
Succeed ==
  /\ Underway /\ deceived # "sender"
  /\ asked \subseteq Broadcasts \/ accepted = asked
  /\ asked \subseteq Requests => answered # {}
  /\ answer' = "SEQ_OK"
  /\ returned' = answered
  /\ UNCHANGED asked

SucceedDeceived ==
  /\ Underway /\ deceived = "sender"
  /\ answer' = "SEQ_OK"
  /\ IsPart(returned')
  /\ UNCHANGED asked

\* The part that is sent is the one that is accepted.
Accept ==
  /\ Underway /\ accepted = {}
  /\ accepted' = asked
  /\ UNCHANGED answered

Respond ==
  /\ Underway /\ accepted # {} /\ accepted \subseteq Requests /\ answered = {}
  /\ \E r \in Responses : answered' = {r}
  /\ UNCHANGED accepted

AcceptDeceived ==
  /\ deceived = "addressee" /\ accepted = {}
  /\ IsPart(accepted')
  /\ UNCHANGED answered \/ \E r \in Responses : answered' = {r}

DeceiveAddressee ==
  /\ answer # "none" /\ accepted = {}
  /\ deceived' = "addressee"

DeceiveSender ==
  /\ Underway /\ accepted = asked /\ answered # {}
  /\ deceived' = "sender"

\* A step of either node, or of both.
Next ==
  /\ Ask \/ Fail \/ Succeed \/ SucceedDeceived \/ UNCHANGED sender
  /\ Accept \/ Respond \/ AcceptDeceived \/ UNCHANGED addressee
  /\ \/ deceived = "nobody" /\ (DeceiveAddressee \/ DeceiveSender)
     \/ UNCHANGED deceived

Spec == Init /\ [][Next]_vars
=============================================================================
