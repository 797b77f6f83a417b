--------------------------- MODULE MCUecRecovery ----------------------------
(* Instances of UecRecovery for TLC: flows long and short start at time 0   *)
(* and lead to a barrier that starts after.                                *)
EXTENDS UecRecovery

CONSTANTS long, short, after, open

Sizes == (long :> 5) @@ (short :> 1) @@ (after :> 1)
Starts == (long :> 0) @@ (short :> 0) @@ (after :> TriggerStart)
Ends == (long :> open) @@ (short :> open) @@ (after :> NoTrigger)
Barrier == open :> [kind |-> "barrier", targets |-> <<after>>, needed |-> 2]

AllModes == {[end |-> 0, sleek |-> FALSE], [end |-> 0, sleek |-> TRUE], [end |-> 10, sleek |-> FALSE]}
=============================================================================
