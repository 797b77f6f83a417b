------------------------------ MODULE MCUecNIC ------------------------------
(* Instances of UecNIC for TLC: two senders share a NIC. *)
EXTENDS UecNIC

CONSTANTS srcA, srcB, east, west
=============================================================================
