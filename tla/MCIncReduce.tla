---------------------------- MODULE MCIncReduce ----------------------------
(* A two-tier network: two hosts below one ToR, one below the other, two spines. *)
EXTENDS IncReduce

CONSTANTS hostA, hostB, hostC, torA, torB, spineA, spineB

TwoTier == [n \in Hosts \cup Switches |->
    CASE n \in {hostA, hostB} -> {torA} [] n = hostC -> {torB}
      [] n \in {torA, torB} -> {spineA, spineB} [] OTHER -> {}]

Participants == [s \in Switches |->
    CASE s = torA -> {hostA, hostB} [] s = torB -> {hostC} [] OTHER -> Hosts]
=============================================================================
