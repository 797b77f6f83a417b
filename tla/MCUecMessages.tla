---------------------------- MODULE MCUecMessages ----------------------------
(* Instances of UecMessages for TLC: three messages, the second triggered  *)
(* by the first (when it is received, or sent), the third enqueued later.  *)
EXTENDS UecMessages

Window == {4}
Sizes == <<2, 1, 1>>
Small == <<1, 1, 1>>
Batches == <<1, 1, 2>>
Slots == <<1, 1, 2>>
OnSent == [m \in {2} |-> [msg |-> 1, status |-> "sentLast"]]
OnReceived == [m \in {2} |-> [msg |-> 1, status |-> "recvdLast"]]
=============================================================================
