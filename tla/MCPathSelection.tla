-------------------------- MODULE MCPathSelection ---------------------------
(* The instance of PathSelection for TLC: four paths, every implementation. *)
EXTENDS PathSelection

AllAlgorithms == {"oblivious", "bitmap", "reps", "reps_legacy", "mixed", "ecmp"}
=============================================================================
