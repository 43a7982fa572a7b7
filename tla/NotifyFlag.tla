----------------------------- MODULE NotifyFlag -----------------------------
(***************************************************************************)
(* What the class Notify amounts to where one thread waits on an object    *)
(* and any number of threads notify it: a flag.  Ebus models its Notify    *)
(* objects this way.  A waiter that finds the flag set goes on and leaves  *)
(* it set; one that has blocked clears it.                                 *)
(***************************************************************************)
CONSTANTS Notifies   \* the objects

VARIABLES
  flag,     \* m_notify of each
  blocked   \* those whose waiter is inside m_condition.wait()

vars == <<flag, blocked>>

Init == flag = [o \in Notifies |-> FALSE] /\ blocked = {}

Notify(o) == flag' = [flag EXCEPT ![o] = TRUE] /\ UNCHANGED blocked

Block(o) ==
  /\ ~flag[o] /\ o \notin blocked
  /\ blocked' = blocked \cup {o}
  /\ UNCHANGED flag

Wake(o) ==
  /\ flag[o] /\ o \in blocked
  /\ blocked' = blocked \ {o}
  /\ flag' = [flag EXCEPT ![o] = FALSE]

Next == \E o \in Notifies : Notify(o) \/ Block(o) \/ Wake(o)

Spec == Init /\ [][Next]_vars

\* A waiter that has been notified wakes up in the end.
FairSpec == Spec /\ \A o \in Notifies : WF_vars(Wake(o))
=============================================================================
