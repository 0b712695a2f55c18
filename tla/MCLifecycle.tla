---------------------------- MODULE MCLifecycle ----------------------------
(* An instance of Lifecycle for TLC: two writers, so that one can be        *)
(* abandoned, or write on after an interrupt, while the other is waited     *)
(* for; one SSH transfer; one task of each kind.                            *)
EXTENDS Lifecycle

CONSTANTS w1, w2

TwoWriters == {w1, w2}
=============================================================================
