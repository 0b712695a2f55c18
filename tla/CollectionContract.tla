------------------------- MODULE CollectionContract -------------------------
(***************************************************************************)
(* What ExecuteStreamingCollect promises its caller, with no goroutines,   *)
(* slots or console: it settles on a set of nodes, gives each of them one  *)
(* verdict that is never revised, and only when none is pending either     *)
(* delivers an archive with a report of those verdicts, which takes at     *)
(* least one node that gave files, or gives up.                            *)
(***************************************************************************)
EXTENDS Naturals, FiniteSets

CONSTANT Nodes

VARIABLES attempted,   \* the nodes of the topology, after the filters
          verdict,     \* what became of each
          outcome,     \* "running", "delivered" or "gaveUp"
          contacted    \* NumberNodesContacted of the delivered summary

vars == <<attempted, verdict, outcome, contacted>>

Pending == {n \in attempted : verdict[n] = "pending"}
With(v) == {n \in attempted : verdict[n] = v}

Init ==
  /\ attempted = {}
  /\ verdict = [n \in Nodes |-> "pending"]
  /\ outcome = "running"
  /\ contacted = 0

Begin ==
  /\ attempted = {}
  /\ outcome = "running"
  /\ attempted' \in (SUBSET Nodes) \ {{}}
  /\ UNCHANGED <<verdict, outcome, contacted>>

Settle(n) ==
  /\ outcome = "running"
  /\ n \in Pending
  /\ \E v \in {"gathered", "empty", "failed"} :
       verdict' = [verdict EXCEPT ![n] = v]
  /\ UNCHANGED <<attempted, outcome, contacted>>

Deliver ==
  /\ outcome = "running"
  /\ Pending = {}
  /\ With("gathered") # {}
  /\ outcome' = "delivered"
  /\ contacted' = Cardinality(attempted \ With("failed"))
  /\ UNCHANGED <<attempted, verdict>>

GiveUp ==
  /\ outcome = "running"
  /\ Pending = {}
  /\ outcome' = "gaveUp"
  /\ UNCHANGED <<attempted, verdict, contacted>>

Next ==
  \/ Begin
  \/ \E n \in Nodes : Settle(n)
  \/ Deliver
  \/ GiveUp

Spec == Init /\ [][Next]_vars
=============================================================================
