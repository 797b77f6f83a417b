---------------------------- MODULE MCUecCredit ----------------------------
(* Instances of UecCredit for TLC. *)
EXTENDS UecCredit, TLC

CONSTANTS flowA, flowB

Lengths == (flowA :> 2) @@ (flowB :> 1)
=============================================================================
