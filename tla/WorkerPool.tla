----------------------------- MODULE WorkerPool -----------------------------
(***************************************************************************)
(* What the semaphore of ExecuteStreamingCollect promises, without the     *)
(* counters, the display and the order of the goroutine's own steps: in    *)
(* one round each participating node is worked on once, never more than    *)
(* Capacity nodes at a time, and the next round starts only after every    *)
(* participant of the current one has finished.                            *)
(***************************************************************************)
EXTENDS Naturals, FiniteSets

CONSTANTS Workers,   \* the node goroutines
          Capacity   \* collectionThreads, the capacity of the channel sem

VARIABLES waiting,   \* launched, no slot yet
          running,   \* between the send to sem and the receive from it
          finished   \* gave its slot back, or takes no part in this round

vars == <<waiting, running, finished>>

Init ==
  /\ waiting = Workers
  /\ running = {}
  /\ finished = {}

Start(w) ==
  /\ w \in waiting
  /\ Cardinality(running) < Capacity
  /\ waiting' = waiting \ {w}
  /\ running' = running \cup {w}
  /\ UNCHANGED finished

Finish(w) ==
  /\ w \in running
  /\ running' = running \ {w}
  /\ finished' = finished \cup {w}
  /\ UNCHANGED waiting

NextRound ==
  /\ waiting = {}
  /\ running = {}
  /\ waiting' \in SUBSET Workers
  /\ finished' = Workers \ waiting'
  /\ UNCHANGED running

Next ==
  \/ \E w \in Workers : Start(w) \/ Finish(w)
  \/ NextRound

Spec == Init /\ [][Next]_vars
=============================================================================
