------------------------- MODULE MCStreamingCollect -------------------------
(* Instances of StreamingCollect for TLC: two nodes, each of them           *)
(* coordinator, executor or out of the topology.  With two threads all      *)
(* their steps interleave; with one, a node waits for the other in both     *)
(* rounds.                                                                  *)
EXTENDS StreamingCollect, TLC

CONSTANTS n1, n2

TwoNodes == {n1, n2}
NodeSymmetry == Permutations(TwoNodes)

(* Standard mode, and the extras of diagnosis mode together and apart.      *)
Standard == [diagnosis |-> FALSE, jvmTools |-> FALSE, heapDump |-> FALSE,
             profiles |-> FALSE]
ToolsOnly == [Standard EXCEPT !.diagnosis = TRUE, !.jvmTools = TRUE]
HeapAndProfiles == [Standard EXCEPT !.diagnosis = TRUE, !.heapDump = TRUE,
                                    !.profiles = TRUE]
Everything == [HeapAndProfiles EXCEPT !.jvmTools = TRUE]

ExtrasApart == {ToolsOnly, HeapAndProfiles}
NoneOrAll == {Standard, Everything}
JustStandard == {Standard}
=============================================================================
