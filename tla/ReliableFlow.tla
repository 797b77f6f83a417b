---------------------------- MODULE ReliableFlow ----------------------------
(***************************************************************************)
(* What a transport promises its user, with no window, timer or packet: a  *)
(* flow hands sequence numbers to the network one after the other, each    *)
(* reaches the receiver at most once as far as the receiver's accounts go, *)
(* and completion is declared once, after everything handed over and       *)
(* everything the user asked for has arrived.                              *)
(***************************************************************************)
EXTENDS Integers, FiniteSets

CONSTANT Total      \* data packets the user asks for, a positive number

VARIABLES
    offered,    \* sequence numbers handed to the network so far
    control,    \* those of them that carry no data
    delivered,  \* the set of those the receiver has
    completed   \* the sender has declared the flow finished

vars == <<offered, control, delivered, completed>>

Init ==
    /\ offered = 0
    /\ control = {}
    /\ delivered = {}
    /\ completed = FALSE

\* One or more new sequence numbers, data or control; data never beyond Total.
Offer ==
    /\ ~completed
    /\ offered' \in Nat /\ offered' > offered
    /\ control \subseteq control'
    /\ control' \ control \subseteq offered .. (offered' - 1)
    /\ offered' - Cardinality(control') <= Total
    /\ UNCHANGED <<delivered, completed>>

\* The receiver gets a sequence number it did not have.
Receive ==
    \E q \in (0 .. (offered - 1)) \ delivered :
        /\ delivered' = delivered \cup {q}
        /\ UNCHANGED <<offered, control, completed>>

Complete ==
    /\ ~completed
    /\ delivered = 0 .. (offered - 1)
    /\ offered - Cardinality(control) = Total
    /\ completed' = TRUE
    /\ UNCHANGED <<offered, control, delivered>>

Next == Offer \/ Receive \/ Complete

Spec == Init /\ [][Next]_vars

=============================================================================
