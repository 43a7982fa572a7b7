--------------------------- MODULE MCArbitration ---------------------------
(***************************************************************************)
(* Small instances of Arbitration for TLC: 0x10 and 0x01, whose addresses  *)
(* together are nobody's, and 0x11, of the class of the second.            *)
(***************************************************************************)
EXTENDS Arbitration, TLC

CONSTANTS n1, n2, n3

ThreeNodes == {n1, n2, n3}

Addresses3 == (n1 :> [sub |-> 1, class |-> 0]) @@ (n2 :> [sub |-> 0, class |-> 1])
                @@ (n3 :> [sub |-> 1, class |-> 1])

Max3 == [n \in Nodes |-> 3]
=============================================================================
