--------------------------- MODULE MCThreadStatus ---------------------------
(* Instances of ThreadStatus for TLC: two nodes that share one slot, so     *)
(* that each waits for the other in both rounds, and two nodes with a slot  *)
(* each for the idle display.                                               *)
EXTENDS ThreadStatus

CONSTANTS n1, n2

TwoNodes == {n1, n2}
=============================================================================
