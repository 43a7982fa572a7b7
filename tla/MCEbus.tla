------------------------------- MODULE MCEbus -------------------------------
(***************************************************************************)
(* Small instances of Ebus for TLC: one call of transmit() for a telegram  *)
(* of each type, of which a configuration takes as many as it needs.       *)
(***************************************************************************)
EXTENDS EbusQueue, EbusInv, TLC

CONSTANTS c1, c2, c3

OneCall    == {c1}
TwoCalls   == {c1, c2}
ThreeCalls == {c1, c2, c3}

OneType    == c1 :> "MS"
TwoTypes   == (c1 :> "MS") @@ (c2 :> "MM")
ThreeTypes == (c1 :> "MS") @@ (c2 :> "MM") @@ (c3 :> "BC")
=============================================================================
