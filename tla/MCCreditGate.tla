----------------------------- MODULE MCCreditGate -----------------------------
(***************************************************************************)
(* Instances of CreditGate for TLC.                                        *)
(***************************************************************************)
EXTENDS CreditGate, TLC

CONSTANTS b1, b2, b3, b4

FourSubmissions == {b1, b2, b3, b4}
ThreeGated == {b1, b2, b3}
Costs == (b1 :> 3) @@ (b2 :> 2) @@ (b3 :> 2) @@ (b4 :> 1)
===============================================================================
