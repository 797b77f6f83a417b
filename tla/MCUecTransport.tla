--------------------------- MODULE MCUecTransport ---------------------------
(* An instance of UecTransport for TLC: acks reopen the window to two full *)
(* packets, a timeout shrinks it to one.                                   *)
EXTENDS UecTransport

Window == {4}

=============================================================================
