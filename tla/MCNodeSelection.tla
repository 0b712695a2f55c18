--------------------------- MODULE MCNodeSelection ---------------------------
(* Pods, hosts and flags for TLC: one pod has a container that identifies   *)
(* Dremio and that no search accepts.                                       *)
EXTENDS NodeSelection

Choosable(n, container) == [name |-> n, container |-> container]
Master == Choosable("m0", "dremio-master-coordinator")
Executor(n) == Choosable(n, "dremio-executor")
SomePods == {{Master, Executor("e0"), Choosable("x", "dremio")},
             {Master, Executor("e0"), Executor("e1")}, {}}
SomeHosts == {ByRole({"m0", "e0"}, {"e0", "e1"})}
SomeFlags == {[include |-> i, exclude |-> e] : i \in {{}, {"m0", "e1"}}, e \in {{}, {"e0"}}}
=============================================================================
