---------------------------- MODULE MCUecIncNIC ----------------------------
(* A host with a flow of the all-reduce and a normal one. *)
EXTENDS UecIncNIC

CONSTANTS reduce, normal, port
=============================================================================
