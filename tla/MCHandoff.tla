------------------------------ MODULE MCHandoff ------------------------------
(***************************************************************************)
(* A small instance of Handoff for TLC.                                    *)
(***************************************************************************)
EXTENDS Handoff

CONSTANTS c1, c2, o1

TwoCalls  == {c1, c2}
OneOpener == {o1}
=============================================================================
