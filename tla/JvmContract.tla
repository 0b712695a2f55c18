---------------------------- MODULE JvmContract -----------------------------
(***************************************************************************)
(* What ExecuteStreamingCollect relies on of runJVMCollection: the tools   *)
(* of all nodes are one phase and the heap dumps another, each of which    *)
(* ends once, counts one task, and only adds files.  StreamingCollect      *)
(* takes each phase as a single step, as this module does.                 *)
(***************************************************************************)
EXTENDS Naturals

VARIABLES nodes, tools, heapDump,  \* what is asked for
          phase, transfers,
          gathered                 \* the nodes with files, of the phases ended

request == <<nodes, tools, heapDump>>
vars == <<request, phase, transfers, gathered>>

Init ==
  /\ phase = IF nodes = {} THEN "ok" ELSE "tools"
  /\ transfers = 0
  /\ gathered = {}

RunTools ==
  /\ phase = "tools"
  /\ gathered' \in SUBSET (IF tools = {} THEN {} ELSE nodes)
  /\ transfers' = IF tools = {} THEN transfers ELSE transfers + 1
  /\ phase' = IF heapDump THEN "heap" ELSE "ok"
  /\ UNCHANGED request

RunHeapDumps ==
  /\ phase = "heap"
  /\ gathered' \in SUBSET nodes
  /\ gathered \subseteq gathered'
  /\ transfers' = transfers + 1
  /\ phase' = "ok"
  /\ UNCHANGED request

Next == RunTools \/ RunHeapDumps
Spec == Init /\ [][Next]_vars
=============================================================================
