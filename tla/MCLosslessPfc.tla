--------------------------- MODULE MCLosslessPfc ---------------------------
(* Two links into one output; one link into two outputs that are paused   *)
(* from downstream; packets of two sizes into one such output.            *)
EXTENDS LosslessPfc

CONSTANTS u1, u2, o1, o2

MCUps == {u1, u2}
MCOuts == {o1, o2}

MCScenes ==
    {[traffic |-> {<<u1, o1, 1>>, <<u2, o1, 1>>}, paused |-> {}],
     [traffic |-> {<<u1, o1, 1>>, <<u1, o2, 1>>}, paused |-> {o1, o2}],
     [traffic |-> {<<u1, o1, 1>>, <<u1, o1, 2>>}, paused |-> {o1}]}
=============================================================================
