------------------------------ MODULE Console ------------------------------
(***************************************************************************)
(* The collection status that pkg/consoleprint keeps behind its mutex and  *)
(* that the ticker renders: each operator is one locked update, from the   *)
(* status before it to the status after it.  Texts are abstracted to the   *)
(* stage they announce; a node's failure text is the flag failed, which    *)
(* PrintState recovers by looking for "FAILURE" in the text.               *)
(***************************************************************************)
EXTENDS Naturals, FiniteSets

(* A node as NodeCaptureStats holds it; listed is FALSE when the map has    *)
(* no entry for it, ended tells whether endTime is set.  The protocol, the  *)
(* job progress, the countdown and the tool errors are left out.            *)
Unlisted == [listed |-> FALSE, status |-> "", failed |-> FALSE, ended |-> FALSE]

NodeStatus(Stages) ==
  [listed : BOOLEAN, status : Stages \cup {""}, failed : BOOLEAN, ended : BOOLEAN]

(* A NodeState message: the fields a caller leaves out are zero.            *)
Status(stage) == [status |-> stage, failure |-> FALSE, endProcess |-> FALSE]
Failure(stage) == [Status(stage) EXCEPT !.failure = TRUE]
Ended(stage) == [Status(stage) EXCEPT !.endProcess = TRUE]

Blank(Nodes) == [complete |-> 0, total |-> 0, result |-> "", tarball |-> FALSE,
                 nodes |-> [n \in Nodes |-> Unlisted]]

UpdateRuntime(c, coordinators, executors, extraTasks) ==
  [c EXCEPT !.complete = 0,
            !.total = coordinators + executors + 1 + extraTasks]

IncrementTransfersComplete(c) == [c EXCEPT !.complete = @ + 1]

UpdateResult(c, result) == [c EXCEPT !.result = result]

UpdateTarballDir(c) == [c EXCEPT !.tarball = TRUE]

(* The entry of a listed node: an update without a text keeps the status.  *)
Updated(old, u) ==
  LET writes == u.status # "" \/ u.failure
  IN [old EXCEPT !.status = IF writes THEN u.status ELSE @,
                 !.failed = IF writes THEN u.failure ELSE @,
                 !.ended = @ \/ u.endProcess]

(* The entry of a node seen for the first time: neither the failure suffix  *)
(* nor EndProcess is looked at.                                             *)
Added(u) == [Unlisted EXCEPT !.listed = TRUE, !.status = u.status]

CountsTransfer(old, u) ==
  old.listed /\ u.endProcess /\ ~old.ended /\ ~u.failure

UpdateNodeState(c, n, u) ==
  LET old == c.nodes[n]
  IN [c EXCEPT
        !.nodes[n] = IF old.listed THEN Updated(old, u) ELSE Added(u),
        !.complete = IF CountsTransfer(old, u) THEN @ + 1 ELSE @]

(* One such update, without EndProcess, for every node of a set.            *)
UpdateNodeStates(c, S, u) ==
  [c EXCEPT !.nodes = [n \in DOMAIN @ |->
                         IF n \notin S THEN @[n]
                         ELSE IF @[n].listed THEN Updated(@[n], u) ELSE Added(u)]]
=============================================================================
