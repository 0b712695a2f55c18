---------------------------- MODULE ThreadStatus ----------------------------
(***************************************************************************)
(* The bounded parallelism of ExecuteStreamingCollect and the thread       *)
(* counters it shows: the channel sem, the two atomic counters             *)
(* activeThreads and queuedCount, and the calls to                         *)
(* consoleprint.UpdateThreadStatus, each of which reads the two counters   *)
(* one after the other and stores them later, under the console's mutex.   *)
(* Every atomic operation of the code is a step of its own.                *)
(*                                                                         *)
(* A node goroutine runs twice: once in the discovery round and, if the    *)
(* discovery of its node succeeded, once in the streaming round.  Between  *)
(* the rounds the main goroutine waits on wg and, in diagnosis mode, runs  *)
(* the JVM phases, which show N/A (-1) in place of the counters.           *)
(***************************************************************************)
EXTENDS Integers, FiniteSets

CONSTANTS Workers,   \* the node goroutines, one per host
          Capacity   \* collectionThreads

ASSUME WorkersFinite == IsFiniteSet(Workers)
ASSUME CapacityPositive == Capacity \in Nat \ {0}

VARIABLES
  phase,        \* where the main goroutine is
  mode,         \* collectionArgs.CollectionMode
  pc,           \* where each node goroutine is
  call,         \* progress of its current UpdateThreadStatus call
  readActive,   \* what activeThreads.Load() returned to that call
  readQueued,   \* what queuedCount.Load() returned to it
  sem,          \* the number of tokens in the channel sem
  activeThreads,
  queuedCount,
  found,        \* nodeInfoByHost: nodes whose discovery succeeded
  display       \* activeThreads and queuedNodes of the console

main == <<phase, mode>>
reads == <<readActive, readQueued>>
counters == <<sem, activeThreads, queuedCount>>
vars == <<main, pc, call, reads, counters, found, display>>

Phases == {"discover", "jvm", "launch", "stream", "rest"}
Locations == {"start", "waiting", "admitted", "dequeued", "working",
              "released", "deactivated", "done"}
Calls == {"none", "loadActive", "loadQueued", "show"}
NotApplicable == [active |-> -1, queued |-> 0]
Zero == [active |-> 0, queued |-> 0]

At(locs) == {w \in Workers : pc[w] \in locs}
Holding == {"admitted", "dequeued", "working"}
AllDone == \A w \in Workers : pc[w] = "done"

Init ==
  /\ phase = "discover"
  /\ mode \in {"standard", "diagnosis"}
  /\ pc = [w \in Workers |-> "start"]
  /\ call = [w \in Workers |-> "none"]
  /\ readActive = [w \in Workers |-> 0]
  /\ readQueued = [w \in Workers |-> 0]
  /\ sem = 0
  /\ activeThreads = 0
  /\ queuedCount = 0
  /\ found = {}
  /\ display = IF mode = "diagnosis" THEN NotApplicable ELSE Zero

-----------------------------------------------------------------------------
(***************************************************************************)
(* UpdateThreadStatus(activeThreads.Load(), max, queuedCount.Load()): the  *)
(* two loads in argument order, then the store under c.mu.                 *)
(***************************************************************************)
\* Mutant: queuedCount is loaded before activeThreads.
LoadCountersSwapped(w) ==
  /\ \/ /\ call[w] = "loadActive"
        /\ readQueued' = [readQueued EXCEPT ![w] = queuedCount]
        /\ call' = [call EXCEPT ![w] = "loadQueued"]
        /\ UNCHANGED readActive
     \/ /\ call[w] = "loadQueued"
        /\ readActive' = [readActive EXCEPT ![w] = activeThreads]
        /\ call' = [call EXCEPT ![w] = "show"]
        /\ UNCHANGED readQueued
  /\ UNCHANGED <<main, pc, counters, found, display>>

LoadCounters(w) ==
  /\ \/ /\ call[w] = "loadActive"
        /\ readActive' = [readActive EXCEPT ![w] = activeThreads]
        /\ call' = [call EXCEPT ![w] = "loadQueued"]
        /\ UNCHANGED readQueued
     \/ /\ call[w] = "loadQueued"
        /\ readQueued' = [readQueued EXCEPT ![w] = queuedCount]
        /\ call' = [call EXCEPT ![w] = "show"]
        /\ UNCHANGED readActive
  /\ UNCHANGED <<main, pc, counters, found, display>>

Show(w) ==
  /\ call[w] = "show"
  /\ display' = [active |-> readActive[w], queued |-> readQueued[w]]
  /\ call' = [call EXCEPT ![w] = "none"]
  /\ UNCHANGED <<main, pc, reads, counters, found>>

-----------------------------------------------------------------------------
(***************************************************************************)
(* The steps of discoverNode and of streamNodeLogs around the semaphore.   *)
(* A step that publishes ends by starting an UpdateThreadStatus call.      *)
(***************************************************************************)
Goto(w, from, to) ==
  /\ pc[w] = from
  /\ call[w] = "none"
  /\ pc' = [pc EXCEPT ![w] = to]

Publish(w) == call' = [call EXCEPT ![w] = "loadActive"]

Enqueue(w) ==
  /\ Goto(w, "start", "waiting")
  /\ queuedCount' = queuedCount + 1
  /\ Publish(w)
  /\ UNCHANGED <<main, reads, sem, activeThreads, found, display>>

\* Mutant: the slot is taken without waiting for room in the channel.
AcquireUnbounded(w) ==
  /\ Goto(w, "waiting", "admitted")
  /\ sem' = sem + 1
  /\ UNCHANGED <<main, call, reads, activeThreads, queuedCount, found, display>>

Acquire(w) ==
  /\ Goto(w, "waiting", "admitted")
  /\ sem < Capacity
  /\ sem' = sem + 1
  /\ UNCHANGED <<main, call, reads, activeThreads, queuedCount, found, display>>

Dequeue(w) ==
  /\ Goto(w, "admitted", "dequeued")
  /\ queuedCount' = queuedCount - 1
  /\ UNCHANGED <<main, call, reads, sem, activeThreads, found, display>>

Activate(w) ==
  /\ Goto(w, "dequeued", "working")
  /\ activeThreads' = activeThreads + 1
  /\ Publish(w)
  /\ UNCHANGED <<main, reads, sem, queuedCount, found, display>>

\* Mutant: the discovery-failure return leaves the slot in the channel.
ReleaseUnlessFailed(w) ==
  /\ Goto(w, "working", "released")
  /\ found' \in (IF phase = "discover" THEN {found, found \cup {w}} ELSE {found})
  /\ sem' = IF w \in found' THEN sem - 1 ELSE sem
  /\ UNCHANGED <<main, call, reads, activeThreads, queuedCount, display>>

\* The work of the round, which ends in the deferred receive from sem.  In
\* the discovery round it records the node's info, or fails and records none.
Release(w) ==
  /\ Goto(w, "working", "released")
  /\ found' \in (IF phase = "discover" THEN {found, found \cup {w}} ELSE {found})
  /\ sem' = sem - 1
  /\ UNCHANGED <<main, call, reads, activeThreads, queuedCount, display>>

\* Mutant: the deferred function does not count the goroutine out.
DeactivateUncounted(w) ==
  /\ Goto(w, "released", "deactivated")
  /\ Publish(w)
  /\ UNCHANGED <<main, reads, counters, found, display>>

Deactivate(w) ==
  /\ Goto(w, "released", "deactivated")
  /\ activeThreads' = activeThreads - 1
  /\ Publish(w)
  /\ UNCHANGED <<main, reads, sem, queuedCount, found, display>>

WgDone(w) ==
  /\ Goto(w, "deactivated", "done")
  /\ UNCHANGED <<main, call, reads, counters, found, display>>

-----------------------------------------------------------------------------
(***************************************************************************)
(* The main goroutine: wg.Wait after discovery, the JVM phases, the launch *)
(* of the streaming round, and wg.Wait after it.                           *)
(***************************************************************************)
\* Mutant: the JVM phases start without waiting for the discovery round.
StartJvmEarly ==
  /\ phase = "discover"
  /\ mode = "diagnosis"
  /\ phase' = "jvm"
  /\ display' = NotApplicable
  /\ UNCHANGED <<mode, pc, call, reads, counters, found>>

\* runJVMCollection with at least one node whose PID is known.
StartJvm ==
  /\ phase = "discover"
  /\ AllDone
  /\ mode = "diagnosis"
  /\ found # {}
  /\ phase' = "jvm"
  /\ display' = NotApplicable
  /\ UNCHANGED <<mode, pc, call, reads, counters, found>>

EndJvm ==
  /\ phase = "jvm"
  /\ phase' = "launch"
  /\ display' = Zero
  /\ UNCHANGED <<mode, pc, call, reads, counters, found>>

\* Standard mode, or no node with a PID: the display is left alone.
SkipJvm ==
  /\ phase = "discover"
  /\ AllDone
  /\ phase' = "launch"
  /\ UNCHANGED <<mode, pc, call, reads, counters, found, display>>

Launch ==
  /\ phase = "launch"
  /\ phase' = "stream"
  /\ pc' = [w \in Workers |-> IF w \in found THEN "start" ELSE "done"]
  /\ UNCHANGED <<mode, call, reads, counters, found, display>>

Finish ==
  /\ phase = "stream"
  /\ AllDone
  /\ phase' = "rest"
  /\ UNCHANGED <<mode, pc, call, reads, counters, found, display>>

-----------------------------------------------------------------------------
WorkerStep(w) ==
  \/ LoadCounters(w)
  \/ Show(w)
  \/ Enqueue(w)
  \/ Acquire(w)
  \/ Dequeue(w)
  \/ Activate(w)
  \/ Release(w)
  \/ Deactivate(w)
  \/ WgDone(w)

MainStep == StartJvm \/ EndJvm \/ SkipJvm \/ Launch \/ Finish

\* The process goes on to the profiles, the summary and the archive.
AtRest ==
  /\ phase = "rest"
  /\ UNCHANGED vars

Next ==
  \/ \E w \in Workers : WorkerStep(w)
  \/ MainStep
  \/ AtRest

\* The Go scheduler runs every goroutine that can run.  Weak fairness is
\* enough for the send to sem: each goroutine sends once per round, so the
\* channel has room for good once the others have had their turn.  The work
\* of a node is assumed to end.
Fairness ==
  /\ \A w \in Workers : WF_vars(WorkerStep(w))
  /\ WF_vars(MainStep)

Spec == Init /\ [][Next]_vars
FairSpec == Spec /\ Fairness

-----------------------------------------------------------------------------
(* Type invariant of the counters and of what the console holds.           *)
TypeOK ==
  /\ phase \in Phases
  /\ mode \in {"standard", "diagnosis"}
  /\ pc \in [Workers -> Locations]
  /\ call \in [Workers -> Calls]
  /\ readActive \in [Workers -> Nat]
  /\ readQueued \in [Workers -> Nat]
  /\ sem \in 0 .. Capacity
  /\ activeThreads \in Nat
  /\ queuedCount \in Nat
  /\ found \in SUBSET Workers
  /\ display \in [active : Nat \cup {-1}, queued : Nat]

(* At most collectionThreads nodes are worked on at a time: the goroutines  *)
(* between the send to sem and the receive from it are as many as the       *)
(* tokens in the channel, so no path gives a token back twice or keeps it.  *)
BoundedParallelism ==
  /\ Cardinality(At(Holding)) = sem
  /\ sem <= Capacity

(* The counters lag the semaphore by a bounded amount: activeThreads counts *)
(* exactly the goroutines past Add(1) and before Add(-1), so it exceeds the *)
(* holders of a slot by no more than those in the deferred function.        *)
CountersTrackGoroutines ==
  /\ activeThreads = Cardinality(At({"working", "released"}))
  /\ queuedCount = Cardinality(At({"waiting", "admitted"}))

(* The two numbers on the screen never count one goroutine twice, although  *)
(* they are read at two moments and stored at a third, when any number of   *)
(* other goroutines may have moved: together they are at most the nodes.    *)
DisplayWithinNodes ==
  display.active + display.queued <= Cardinality(Workers)

(* No late update of the discovery round replaces the N/A of the JVM phases *)
NothingShownDuringJvm ==
  phase = "jvm" => display = NotApplicable /\ \A w \in Workers : call[w] = "none"

(* Every node gets its slot in both rounds, and the collection goes on      *)
(* to the profiles and the archive.                                         *)
ReachesRest == <>(phase = "rest")

(* consoleprint.go:244 "active is the number of goroutines currently        *)
(* holding a semaphore slot": once every goroutine has ended, and nothing   *)
(* will update the display again, it says that no slot is held.             *)
IdleDisplayIsZero ==
  phase = "rest" => display = Zero

-----------------------------------------------------------------------------
(* The goroutines implement the abstract pool: a slot is held from the      *)
(* send to sem to the receive from it.                                      *)
Pool == INSTANCE WorkerPool WITH
          waiting  <- At({"start", "waiting"}),
          running  <- At(Holding),
          finished <- At({"released", "deactivated", "done"})

(* Each node is worked on once per round, within the capacity, and no       *)
(* round starts before the previous one has ended.                          *)
ImplementsPool == Pool!Spec
=============================================================================
