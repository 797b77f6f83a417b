----------------------------- MODULE MCSpraying -----------------------------
(* Five packets over two paths; the pipes' rings and the bitmap start small   *)
(* enough to grow and to wrap.                                               *)
EXTENDS Spraying, TLC

CONSTANTS p1, p2, none

MCPaths == {p1, p2}
MCBudgets == {[again |-> 1, cross |-> 0], [again |-> 0, cross |-> 1]}
MCSymmetry == Permutations(MCPaths)
=============================================================================
