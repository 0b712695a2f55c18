---------------------- MODULE StreamingCollect_proofs ----------------------
(***************************************************************************)
(* Proofs about StreamingCollect for every finite set of nodes, every      *)
(* number of threads and every set of requests: the types, one verdict per *)
(* node, and a summary that stays true.  The inductive invariant relates   *)
(* the results under mu to the place where each node's goroutine is.       *)
(***************************************************************************)
EXTENDS StreamingCollect, FiniteSetTheorems, TLAPS

(* Before the streaming round a goroutine has ended only if the discovery   *)
(* of its node failed.                                                      *)
FirstRound == {"topology", "discover", "jvm", "heap", "launch"}
FirstRoundInv(n) ==
  /\ phase = "topology" => pc[n] = "absent"
  /\ phase \in FirstRound =>
       /\ pc[n] \in {"absent", "queued", "discovering", "discovered", "ended"}
       /\ pc[n] = "ended" => ~info[n].known

(* nodeInfoByHost has the nodes whose discovery is over and succeeded.      *)
InfoInv(n) ==
  /\ n \in Attempted <=> pc[n] # "absent"
  /\ pc[n] \in {"absent", "queued", "discovering"} => ~info[n].known
  /\ pc[n] \in {"discovered", "awaiting", "nodeInfo", "files", "record", "finish"}
       => info[n].known

(* A node has failed in its discovery or in its stream, and has files only  *)
(* if it has not failed.                                                    *)
Streamed(n) == info[n].known /\ pc[n] \in {"finish", "ended"}
ResultInv(n) ==
  /\ n \in ToSet(failed) =>
       \/ pc[n] = "ended" /\ ~info[n].known
       \/ Streamed(n) /\ n \notin collected
  /\ n \in collected => Streamed(n)

NodeInv == \A n \in Nodes : FirstRoundInv(n) /\ InfoInv(n) /\ ResultInv(n)

(* When the rounds are over, as they are when the summary is there, none of *)
(* their goroutines is left.                                                *)
Settled == orchestrator = {} /\ \A n \in Nodes : pc[n] \in {"absent", "ended"}
SummaryInv ==
  /\ phase \in FirstRound => orchestrator = {}
  /\ phase \in {"profiles", "report", "archive", "ok", "error"} => Settled
  /\ summary # Unbuilt => Settled /\ phase \in {"archive", "ok", "error"}

IInv ==
  /\ TypeOK
  /\ IsInjective(failed)
  /\ NodeInv
  /\ SummaryInv

-----------------------------------------------------------------------------
(* What appending a new element does to a sequence without repetition.      *)
LEMMA AppendNew ==
  ASSUME NEW S, NEW s \in Seq(S), NEW x \in S, IsInjective(s), x \notin ToSet(s)
  PROVE  /\ Append(s, x) \in Seq(S)
         /\ IsInjective(Append(s, x))
         /\ ToSet(Append(s, x)) = ToSet(s) \cup {x}
<1>1. /\ Append(s, x) \in Seq(S)
      /\ DOMAIN Append(s, x) = 1 .. Len(s) + 1
      /\ \A i \in 1 .. Len(s) : Append(s, x)[i] = s[i]
      /\ Append(s, x)[Len(s) + 1] = x
      /\ DOMAIN s = 1 .. Len(s) /\ Len(s) \in Nat
  OBVIOUS
<1>2. IsInjective(Append(s, x))
  BY <1>1 DEF IsInjective, ToSet
<1>3. ToSet(Append(s, x)) = ToSet(s) \cup {x}
  <2>1. ASSUME NEW y \in ToSet(Append(s, x)) PROVE y \in ToSet(s) \cup {x}
    BY <1>1, <2>1 DEF ToSet
  <2>2. ASSUME NEW y \in ToSet(s) PROVE y \in ToSet(Append(s, x))
    <3>1. PICK i \in 1 .. Len(s) : y = s[i]  BY <1>1, <2>2 DEF ToSet
    <3>2. y = Append(s, x)[i] /\ i \in DOMAIN Append(s, x)  BY <1>1, <3>1
    <3>3. QED  BY <3>2 DEF ToSet
  <2>3. x \in ToSet(Append(s, x))
    <3>1. Len(s) + 1 \in DOMAIN Append(s, x)  BY <1>1
    <3>2. QED  BY <1>1, <3>1 DEF ToSet
  <2>4. QED  BY <2>1, <2>2, <2>3
<1>4. QED  BY <1>1, <1>2, <1>3

(* A sequence without repetition is no longer than the set it lists.        *)
LEMMA InjectiveLength ==
  ASSUME NEW S, IsFiniteSet(S), NEW s \in Seq(S), IsInjective(s), ToSet(s) \subseteq S
  PROVE  Len(s) <= Cardinality(S)
<1>1. s \in Injection(1 .. Len(s), S)
  BY DEF Injection
<1>2. Len(s) \in Nat  OBVIOUS
<1>3. Cardinality(1 .. Len(s)) = Len(s)
  <2>1. Cardinality(1 .. Len(s)) = IF 1 > Len(s) THEN 0 ELSE Len(s) - 1 + 1
    BY <1>2, FS_Interval
  <2>2. QED  BY <1>2, <2>1
<1>4. Cardinality(1 .. Len(s)) <= Cardinality(S)
  BY <1>1, FS_Injection
<1>5. QED  BY <1>3, <1>4

-----------------------------------------------------------------------------
(* The types of the console and of the updates it is given.                 *)
ConsoleType ==
  [complete : Nat, total : Nat, tarball : BOOLEAN,
   result : {"", "Creating final archive"}, nodes : [Nodes -> NodeStatus(Stages)]]
UpdateType == [status : Stages, failure : BOOLEAN, endProcess : BOOLEAN]

(* An entry of the node table keeps its type in an update, and so does one  *)
(* that is added.                                                           *)
LEMMA EntryType ==
  ASSUME NEW e \in NodeStatus(Stages), NEW u \in UpdateType
  PROVE  Updated(e, u) \in NodeStatus(Stages) /\ Added(u) \in NodeStatus(Stages)
<1>1. Updated(e, u) \in NodeStatus(Stages)
  BY DEF Updated, NodeStatus, UpdateType
<1>2. Added(u) \in NodeStatus(Stages)
  BY DEF Added, Unlisted, NodeStatus, UpdateType
<1>3. QED  BY <1>1, <1>2

(* The fields of the console the updates read.                              *)
LEMMA ConsoleFields ==
  ASSUME NEW c \in ConsoleType
  PROVE  c.complete \in Nat /\ c.nodes \in [Nodes -> NodeStatus(Stages)]
BY DEF ConsoleType

(* A field of the console that gets a value of its type.                    *)
LEMMA FieldType ==
  ASSUME NEW c \in ConsoleType, NEW i \in Nat, NEW e \in [Nodes -> NodeStatus(Stages)]
  PROVE  /\ [c EXCEPT !.complete = i] \in ConsoleType
         /\ [c EXCEPT !.total = i] \in ConsoleType
         /\ [c EXCEPT !.tarball = TRUE] \in ConsoleType
         /\ [c EXCEPT !.result = "Creating final archive"] \in ConsoleType
         /\ [c EXCEPT !.nodes = e] \in ConsoleType
BY DEF ConsoleType

(* The console keeps its type under every operator of Console that the      *)
(* collection uses.                                                         *)
LEMMA NodeUpdateType ==
  ASSUME NEW c \in ConsoleType, NEW n \in Nodes, NEW u \in UpdateType
  PROVE  UpdateNodeState(c, n, u) \in ConsoleType
<1> DEFINE e == IF c.nodes[n].listed THEN Updated(c.nodes[n], u) ELSE Added(u)
<1>1. c.nodes[n] \in NodeStatus(Stages)  BY DEF ConsoleType
<1>2. e \in NodeStatus(Stages)  BY <1>1, EntryType
<1> DEFINE f == [c.nodes EXCEPT ![n] = e]
           d == [c EXCEPT !.nodes = f]
           k == IF CountsTransfer(c.nodes[n], u) THEN c.complete + 1 ELSE c.complete
<1>3. f \in [Nodes -> NodeStatus(Stages)]  BY <1>2, ConsoleFields
<1>4. UpdateNodeState(c, n, u) = [d EXCEPT !.complete = k]
  <2>1. d.complete = c.complete  BY DEF ConsoleType
  <2>2. QED  BY <2>1 DEF UpdateNodeState
<1> HIDE DEF e, f
<1>5. d \in ConsoleType  BY <1>3, FieldType
<1>6. k \in Nat  BY ConsoleFields
<1> HIDE DEF d, k
<1>7. [d EXCEPT !.complete = k] \in ConsoleType
  BY <1>3, <1>5, <1>6, FieldType
<1>8. QED  BY <1>4, <1>7

(* The same for the update of several nodes at once.                        *)
LEMMA NodeUpdatesType ==
  ASSUME NEW c \in ConsoleType, NEW S \in SUBSET Nodes, NEW u \in UpdateType
  PROVE  UpdateNodeStates(c, S, u) \in ConsoleType
<1> DEFINE e(n) == IF n \notin S THEN c.nodes[n]
                   ELSE IF c.nodes[n].listed THEN Updated(c.nodes[n], u) ELSE Added(u)
<1>1. ASSUME NEW n \in Nodes PROVE e(n) \in NodeStatus(Stages)
  <2>1. c.nodes[n] \in NodeStatus(Stages)  BY DEF ConsoleType
  <2>2. QED  BY <2>1, EntryType
<1>2. DOMAIN c.nodes = Nodes  BY DEF ConsoleType
<1>3. UpdateNodeStates(c, S, u) = [c EXCEPT !.nodes = [n \in Nodes |-> e(n)]]
  BY <1>2 DEF UpdateNodeStates
<1>4. [n \in Nodes |-> e(n)] \in [Nodes -> NodeStatus(Stages)]
  BY <1>1
<1> HIDE DEF e
<1>5. QED  BY <1>3, <1>4 DEF ConsoleType

(* The same for the operators that touch no node.                           *)
LEMMA PlainUpdateType ==
  ASSUME NEW c \in ConsoleType
  PROVE  /\ IncrementTransfersComplete(c) \in ConsoleType
         /\ UpdateTarballDir(c) \in ConsoleType
         /\ UpdateResult(c, "Creating final archive") \in ConsoleType
         /\ \A i, j, k \in Nat : UpdateRuntime(c, i, j, k) \in ConsoleType
<1>1. c.complete + 1 \in Nat /\ c.nodes \in [Nodes -> NodeStatus(Stages)]
  BY ConsoleFields
<1>2. IncrementTransfersComplete(c) \in ConsoleType
  BY <1>1, FieldType DEF IncrementTransfersComplete
<1>3. UpdateTarballDir(c) \in ConsoleType
  BY <1>1, FieldType DEF UpdateTarballDir
<1>4. UpdateResult(c, "Creating final archive") \in ConsoleType
  BY <1>1, FieldType DEF UpdateResult
<1>5. ASSUME NEW i \in Nat, NEW j \in Nat, NEW k \in Nat
      PROVE  UpdateRuntime(c, i, j, k) \in ConsoleType
  <2> DEFINE d == [c EXCEPT !.complete = 0]
             t == i + j + 1 + k
  <2>1. d \in ConsoleType  BY <1>1, FieldType
  <2>2. t \in Nat  OBVIOUS
  <2> HIDE DEF d, t
  <2>3. [d EXCEPT !.total = t] \in ConsoleType  BY <1>1, <2>1, <2>2, FieldType
  <2>4. QED  BY <2>3 DEF UpdateRuntime, d, t
<1>6. QED  BY <1>2, <1>3, <1>4, <1>5

(* The messages the collection sends.                                       *)
LEMMA MessageType ==
  ASSUME NEW t \in Stages
  PROVE  /\ Status(t) \in UpdateType /\ ~Status(t).endProcess
         /\ Failure(t) \in UpdateType /\ ~Failure(t).endProcess
         /\ Ended(t) \in UpdateType
BY DEF Status, Failure, Ended, UpdateType

(* An update that does not end a node's process counts no task.             *)
LEMMA UncountedUpdate ==
  ASSUME NEW c \in ConsoleType, NEW n \in Nodes, NEW u \in UpdateType, ~u.endProcess
  PROVE  UpdateNodeState(c, n, u).complete = c.complete
BY DEF UpdateNodeState, CountsTransfer, ConsoleType

-----------------------------------------------------------------------------
(* The console keeps its type in every step.                                *)
LEMMA ConsoleStep ==
  ASSUME TypeOK, Next
  PROVE  con' \in ConsoleType
<1>1. con \in ConsoleType /\ Nodes \in SUBSET Nodes
  BY DEF TypeOK, ConsoleType
<1>2. \A n \in Nodes : \A t \in Stages :
        /\ UpdateNodeState(con, n, Status(t)) \in ConsoleType
        /\ UpdateNodeState(con, n, Failure(t)) \in ConsoleType
        /\ UpdateNodeState(con, n, Ended(t)) \in ConsoleType
  BY <1>1, NodeUpdateType, MessageType
<1>3. \A S \in SUBSET Nodes : \A t \in Stages :
        UpdateNodeStates(con, S, Status(t)) \in ConsoleType
  BY <1>1, NodeUpdatesType, MessageType
<1>4. ASSUME NEW n \in Nodes, NodeStep(n) \/ NodeInfoGoroutine(n)
      PROVE  con' \in ConsoleType
  BY <1>1, <1>2, <1>4
  DEF NodeStep, NodeInfoGoroutine, StartDiscovery, DiscoveryFails,
      DiscoverySucceeds, StartStreaming, AwaitNodeInfo, NodeInfoTimesOut,
      StreamFiles, Record, Finish, FinalStatus, NodeInfoStep, NodeInfoCloses, Stages
<1>5. CASE OrchestratorStep
  BY <1>1, <1>5, PlainUpdateType DEF OrchestratorStep, OrchestratorTask, OrchestratorEnds
<1>6. CASE ResolveTopology
  <2>1. PICK cs \in SUBSET Nodes, es \in SUBSET Nodes :
          con' = UpdateNodeStates(
                   UpdateRuntime(con, Cardinality(cs), Cardinality(es), ExtraTasks),
                   cs \cup es, Status("Queued"))
    BY <1>6 DEF ResolveTopology
  <2> DEFINE c == UpdateRuntime(con, Cardinality(cs), Cardinality(es), ExtraTasks)
  <2>2. Cardinality(cs) \in Nat /\ Cardinality(es) \in Nat
    BY NodesFinite, FS_Subset, FS_CardinalityType
  <2>3. ExtraTasks \in Nat  BY DEF ExtraTasks
  <2>4. c \in ConsoleType  BY <1>1, <2>2, <2>3, PlainUpdateType
  <2> HIDE DEF c
  <2>5. cs \cup es \in SUBSET Nodes /\ "Queued" \in Stages  BY DEF Stages
  <2>6. Status("Queued") \in UpdateType  BY <2>5, MessageType
  <2>7. UpdateNodeStates(c, cs \cup es, Status("Queued")) \in ConsoleType
    BY <2>4, <2>5, <2>6, NodeUpdatesType
  <2>8. QED  BY <2>1, <2>7 DEF c
<1>7. JvmNodes \in SUBSET Nodes  BY DEF JvmNodes, Attempted, TypeOK
<1>8. CASE RunJvmTools
  <2>1. UpdateNodeStates(con, JvmNodes, Status("JVM tools completed")) \in ConsoleType
    BY <1>3, <1>7 DEF Stages
  <2>2. QED  BY <1>8, <2>1, PlainUpdateType DEF RunJvmTools
<1>9. CASE RunHeapDumps
  <2>1. UpdateNodeStates(con, JvmNodes, Status("Heap dump complete")) \in ConsoleType
    BY <1>3, <1>7 DEF Stages
  <2>2. QED  BY <1>9, <2>1, PlainUpdateType DEF RunHeapDumps
<1>10. CASE CollectProfiles \/ BuildSummary \/ Archive
  BY <1>1, <1>10, PlainUpdateType DEF CollectProfiles, BuildSummary, Archive
<1>11. CASE NoHosts \/ EndDiscovery \/ Launch \/ EndStream \/ NothingCollected
            \/ ArchiveFails \/ Returned
  BY <1>1, <1>11
  DEF NoHosts, EndDiscovery, Launch, EndStream, NothingCollected, ArchiveFails,
      Returned, vars
<1>12. QED
  BY <1>4, <1>5, <1>6, <1>8, <1>9, <1>10, <1>11 DEF Next, MainStep

(* No step lets more goroutines hold a slot than there are threads.         *)
LEMMA SlotsStep ==
  ASSUME TypeOK, Next
  PROVE  slots' \in SUBSET Nodes /\ Cardinality(slots') <= Threads
<1>1. slots \in SUBSET Nodes /\ Cardinality(slots) <= Threads /\ IsFiniteSet(slots)
  BY NodesFinite, FS_Subset DEF TypeOK
<1>2. ASSUME NEW n \in Nodes, slots' = slots \ {n}
      PROVE  slots' \in SUBSET Nodes /\ Cardinality(slots') <= Threads
  <2>1. slots \ {n} \in SUBSET slots  OBVIOUS
  <2>2. Cardinality(slots \ {n}) <= Cardinality(slots)  BY <1>1, <2>1, FS_Subset
  <2>3. Cardinality(slots) \in Nat /\ Cardinality(slots \ {n}) \in Nat
    BY <1>1, <2>1, FS_Subset, FS_CardinalityType
  <2>4. QED  BY <1>1, <1>2, <2>2, <2>3, ThreadsPositive
<1>3. ASSUME NEW n \in Nodes, HasRoom, slots' = slots \cup {n}
      PROVE  slots' \in SUBSET Nodes /\ Cardinality(slots') <= Threads
  <2>1. Cardinality(slots \cup {n}) \in {Cardinality(slots), Cardinality(slots) + 1}
    BY <1>1, FS_AddElement
  <2>2. Cardinality(slots) \in Nat  BY <1>1, FS_CardinalityType
  <2>3. QED  BY <1>1, <1>3, <2>1, <2>2, ThreadsPositive DEF HasRoom
<1>4. ASSUME NEW n \in Nodes, NodeStep(n) \/ NodeInfoGoroutine(n)
      PROVE  slots' \in SUBSET Nodes /\ Cardinality(slots') <= Threads
  <2>1. CASE StartDiscovery(n) \/ StartStreaming(n)
    BY <1>3, <2>1 DEF StartDiscovery, StartStreaming, TakeSlot
  <2>2. CASE DiscoveryFails(n) \/ DiscoverySucceeds(n) \/ Finish(n)
    BY <1>2, <2>2 DEF DiscoveryFails, DiscoverySucceeds, Finish
  <2>3. CASE AwaitNodeInfo(n) \/ NodeInfoTimesOut(n) \/ StreamFiles(n) \/ Record(n)
             \/ NodeInfoStep(n) \/ NodeInfoCloses(n)
    BY <1>1, <2>3
    DEF AwaitNodeInfo, NodeInfoTimesOut, StreamFiles, Record, NodeInfoStep, NodeInfoCloses
  <2>4. QED  BY <1>4, <2>1, <2>2, <2>3 DEF NodeStep, NodeInfoGoroutine
<1>5. CASE OrchestratorStep \/ MainStep \/ Returned
  BY <1>1, <1>5
  DEF OrchestratorStep, OrchestratorTask, OrchestratorEnds, MainStep, ResolveTopology,
      NoHosts, EndDiscovery, RunJvmTools, RunHeapDumps, Launch, EndStream,
      CollectProfiles, BuildSummary, NothingCollected, Archive, ArchiveFails,
      Returned, vars
<1>6. QED  BY <1>4, <1>5 DEF Next

-----------------------------------------------------------------------------
(* The initial states.                                                      *)
LEMMA InitIInv == Init => IInv
<1> SUFFICES ASSUME Init PROVE IInv  OBVIOUS
<1>1. Cardinality(Nodes) \in Nat /\ Cardinality({}) = 0 /\ {} \in SUBSET Nodes
  BY NodesFinite, FS_CardinalityType, FS_EmptySet
<1>2. Unlisted \in NodeStatus(Stages)  BY DEF Unlisted, NodeStatus
<1>3. con \in ConsoleType
  BY <1>2 DEF Init, Blank, ConsoleType
<1>4. TypeOK
  <2>1. Unbuilt \in 0 .. Unbuilt  BY <1>1 DEF Unbuilt
  <2>2. Cardinality(slots) <= Threads  BY <1>1, ThreadsPositive DEF Init
  <2>3. failed \in Seq(Nodes)  BY DEF Init
  <2>4. QED
    BY <1>1, <1>3, <2>1, <2>2, <2>3
    DEF Init, TypeOK, ConsoleType, Phases, Locations, Infos, InfoSteps
<1>5. IsInjective(failed) /\ ToSet(failed) = {}
  BY DEF Init, IsInjective, ToSet
<1>6. NodeInv
  BY <1>5 DEF Init, NodeInv, FirstRoundInv, InfoInv, ResultInv, FirstRound, Attempted, NoInfo
<1>7. SummaryInv  BY DEF Init, SummaryInv, FirstRound
<1>8. QED  BY <1>4, <1>5, <1>6, <1>7 DEF IInv

(* The failed nodes are nodes of the topology, so the difference that the   *)
(* summary reports is a number of nodes.                                    *)
LEMMA SummaryInRange ==
  ASSUME TypeOK, IsInjective(failed), NodeInv
  PROVE  /\ ToSet(failed) \subseteq Attempted
         /\ Cardinality(Attempted) - Len(failed) \in 0 .. Cardinality(Nodes)
<1>1. failed \in Seq(Nodes) /\ Attempted \in SUBSET Nodes
  BY DEF TypeOK, Attempted
<1>2. ToSet(failed) \subseteq Nodes  BY <1>1 DEF ToSet
<1>3. ToSet(failed) \subseteq Attempted
  <2>1. ASSUME NEW n \in ToSet(failed) PROVE n \in Attempted
    BY <1>2, <2>1 DEF NodeInv, ResultInv, InfoInv, Streamed
  <2>2. QED  BY <2>1
<1>4. IsFiniteSet(Attempted) /\ Cardinality(Attempted) <= Cardinality(Nodes)
  BY <1>1, NodesFinite, FS_Subset
<1>5. failed \in Seq(Attempted)
  <2>1. \A i \in 1 .. Len(failed) : failed[i] \in Attempted
    BY <1>1, <1>3 DEF ToSet
  <2>2. Len(failed) \in Nat /\ failed = [i \in 1 .. Len(failed) |-> failed[i]]
    BY <1>1
  <2>3. QED  BY <2>1, <2>2
<1>6. Len(failed) <= Cardinality(Attempted)
  BY <1>3, <1>4, <1>5, InjectiveLength
<1>7. Len(failed) \in Nat /\ Cardinality(Attempted) \in Nat /\ Cardinality(Nodes) \in Nat
  BY <1>1, <1>4, NodesFinite, FS_CardinalityType
<1>8. QED  BY <1>3, <1>4, <1>6, <1>7

(* The types of everything but the slots and the console.                   *)
PlainTypes ==
  /\ args \in Requests
  /\ phase \in Phases
  /\ coordinators \in SUBSET Nodes
  /\ executors \in SUBSET Nodes
  /\ pc \in [Nodes -> Locations]
  /\ info \in [Nodes -> Infos]
  /\ nodeInfo \in [Nodes -> InfoSteps]
  /\ got \in [Nodes -> BOOLEAN]
  /\ jvmFiles \in SUBSET Nodes
  /\ failed \in Seq(Nodes)
  /\ collected \in SUBSET Nodes
  /\ orchestrator \in SUBSET {"kubernetes", "api", "wait"}
  /\ summary \in 0 .. Unbuilt

LEMMA PlainStep ==
  ASSUME PlainTypes, IsInjective(failed), NodeInv, TypeOK, Next
  PROVE  PlainTypes'
<1>1. Unbuilt' = Unbuilt /\ Requests' = Requests  BY DEF Unbuilt
<1>2. ASSUME NEW n \in Nodes, NodeStep(n) \/ NodeInfoGoroutine(n) PROVE PlainTypes'
  <2>1. CASE DiscoveryFails(n) \/ Record(n)
    <3>1. Append(failed, n) \in Seq(Nodes)  BY DEF PlainTypes
    <3>2. QED
      BY <2>1, <3>1, <1>1 DEF DiscoveryFails, Record, PlainTypes, config, results, Locations
  <2>2. CASE StartDiscovery(n) \/ StartStreaming(n)
    BY <2>2, <1>1
    DEF StartDiscovery, StartStreaming, TakeSlot, PlainTypes, config, results,
        Locations, InfoSteps
  <2>3. CASE DiscoverySucceeds(n)
    <3>1. PICK i \in Infos : info' = [info EXCEPT ![n] = i]
      BY <2>3 DEF DiscoverySucceeds
    <3>2. info' \in [Nodes -> Infos]  BY <3>1 DEF PlainTypes
    <3>3. QED
      BY <2>3, <1>1, <3>2
      DEF DiscoverySucceeds, PlainTypes, config, results, Locations
  <2>4. CASE StreamFiles(n) \/ Finish(n)
    BY <2>4, <1>1 DEF StreamFiles, Finish, PlainTypes, config, results, Locations
  <2>5. CASE AwaitNodeInfo(n) \/ NodeInfoTimesOut(n) \/ NodeInfoStep(n)
             \/ NodeInfoCloses(n)
    BY <2>5, <1>1
    DEF AwaitNodeInfo, NodeInfoTimesOut, NodeInfoStep, NodeInfoCloses, PlainTypes,
        config, results, Locations, InfoSteps
  <2>6. QED  BY <1>2, <2>1, <2>2, <2>3, <2>4, <2>5 DEF NodeStep, NodeInfoGoroutine
<1>3. CASE BuildSummary
  <2>1. summary' \in 0 .. Cardinality(Nodes)
    BY <1>3, SummaryInRange DEF BuildSummary
  <2>2. Cardinality(Nodes) \in Nat  BY NodesFinite, FS_CardinalityType
  <2>3. summary' \in 0 .. Unbuilt'  BY <1>1, <2>1, <2>2 DEF Unbuilt
  <2>4. QED  BY <1>3, <1>1, <2>3 DEF BuildSummary, PlainTypes, config, results, Phases
<1>4. CASE RunJvmTools \/ RunHeapDumps
  <2>1. JvmNodes \in SUBSET Nodes  BY DEF JvmNodes, Attempted, PlainTypes
  <2>2. jvmFiles' \in SUBSET Nodes
    <3>1. CASE RunJvmTools
      <4>1. PICK S \in SUBSET (IF args.jvmTools THEN JvmNodes ELSE {}) : jvmFiles' = S
        BY <3>1 DEF RunJvmTools
      <4>2. QED  BY <2>1, <4>1
    <3>2. CASE RunHeapDumps
      <4>1. PICK S \in SUBSET JvmNodes : jvmFiles' = jvmFiles \cup S
        BY <3>2 DEF RunHeapDumps
      <4>2. QED  BY <2>1, <4>1 DEF PlainTypes
    <3>3. QED  BY <1>4, <3>1, <3>2
  <2>3. QED
    BY <1>4, <1>1, <2>2 DEF RunJvmTools, RunHeapDumps, PlainTypes, config, results, Phases
<1>5. CASE ResolveTopology \/ Launch
  BY <1>5, <1>1 DEF ResolveTopology, Launch, PlainTypes, config, results, Phases, Locations
<1>6. CASE OrchestratorStep \/ NoHosts \/ EndDiscovery \/ EndStream
           \/ CollectProfiles \/ NothingCollected \/ Archive \/ ArchiveFails
           \/ Returned
  BY <1>6, <1>1
  DEF OrchestratorStep, OrchestratorTask, OrchestratorEnds, NoHosts, EndDiscovery,
      EndStream, CollectProfiles, NothingCollected, Archive, ArchiveFails, Returned,
      vars, PlainTypes, config, results, Phases
<1>7. QED  BY <1>2, <1>3, <1>4, <1>5, <1>6 DEF Next, MainStep

(* Every step keeps the types.                                              *)
LEMMA TypeStep ==
  ASSUME IInv, [Next]_vars
  PROVE  TypeOK'
<1>1. TypeOK /\ PlainTypes  BY DEF IInv, TypeOK, PlainTypes
<1>2. CASE UNCHANGED vars
  BY <1>1, <1>2 DEF vars, config, results, TypeOK, Unbuilt
<1>3. CASE Next
  <2>1. con' \in ConsoleType  BY <1>1, <1>3, ConsoleStep
  <2>2. slots' \in SUBSET Nodes /\ Cardinality(slots') <= Threads
    BY <1>1, <1>3, SlotsStep
  <2>3. PlainTypes'  BY <1>1, <1>3, PlainStep DEF IInv
  <2>4. QED  BY <2>1, <2>2, <2>3 DEF TypeOK, PlainTypes, ConsoleType
<1>4. QED  BY <1>2, <1>3

-----------------------------------------------------------------------------
(* A step of a node's goroutine keeps the verdicts: it adds its own node to *)
(* totalFailedNodes only when the node is not there yet.                    *)
LEMMA NodeStepVerdict ==
  ASSUME TypeOK, IsInjective(failed), NodeInv, NEW m \in Nodes, NodeStep(m)
  PROVE  NodeInv' /\ IsInjective(failed')
<1>1. /\ pc \in [Nodes -> Locations] /\ info \in [Nodes -> Infos]
      /\ failed \in Seq(Nodes)
  BY DEF TypeOK
<1>2. \A n \in Nodes : FirstRoundInv(n) /\ InfoInv(n) /\ ResultInv(n)
  BY DEF NodeInv
<1>3. CASE DiscoveryFails(m)
  <2>1. m \notin ToSet(failed)
    BY <1>2, <1>3 DEF DiscoveryFails, ResultInv, Streamed
  <2>2. IsInjective(failed') /\ ToSet(failed') = ToSet(failed) \cup {m}
    <3>1. failed' = Append(failed, m)  BY <1>3 DEF DiscoveryFails
    <3>2. QED  BY <1>1, <2>1, <3>1, AppendNew
  <2>3. NodeInv'
    BY <1>1, <1>2, <1>3, <2>2
    DEF DiscoveryFails, NodeInv, FirstRoundInv, InfoInv, ResultInv, Streamed,
        Attempted, config, FirstRound
  <2>4. QED  BY <2>2, <2>3
<1>4. CASE Record(m)
  <2>1. m \notin ToSet(failed) /\ m \notin collected
    BY <1>2, <1>4 DEF Record, ResultInv, Streamed
  <2>2. /\ IsInjective(failed')
        /\ ToSet(failed') = IF StreamFailed(m) THEN ToSet(failed) \cup {m}
                                               ELSE ToSet(failed)
    BY <1>1, <1>4, <2>1, AppendNew DEF Record
  <2>3. StreamFailed(m) => ~Gathered(m)  BY DEF StreamFailed
  <2>4. NodeInv'
    BY <1>1, <1>2, <1>4, <2>1, <2>2, <2>3
    DEF Record, NodeInv, FirstRoundInv, InfoInv, ResultInv, Streamed,
        Attempted, config, FirstRound
  <2>5. QED  BY <2>2, <2>4
<1>5. CASE DiscoverySucceeds(m)
  <2>1. PICK i \in Infos \ {NoInfo} : info' = [info EXCEPT ![m] = i]
    BY <1>5 DEF DiscoverySucceeds
  <2>2. info'[m].known /\ \A n \in Nodes \ {m} : info'[n] = info[n]
    BY <1>1, <2>1 DEF Infos, NoInfo
  <2>3. QED
    BY <1>1, <1>2, <1>5, <2>2
    DEF DiscoverySucceeds, NodeInv, FirstRoundInv, InfoInv, ResultInv, Streamed,
        Attempted, config, results, FirstRound
<1>6. CASE StartDiscovery(m) \/ StartStreaming(m)
  BY <1>1, <1>2, <1>6
  DEF StartDiscovery, StartStreaming, TakeSlot, NodeInv, FirstRoundInv, InfoInv,
      ResultInv, Streamed, Attempted, config, results, FirstRound
<1>7. CASE AwaitNodeInfo(m) \/ NodeInfoTimesOut(m)
  BY <1>1, <1>2, <1>7
  DEF AwaitNodeInfo, NodeInfoTimesOut, NodeInv, FirstRoundInv, InfoInv,
      ResultInv, Streamed, Attempted, config, results, FirstRound
<1>8. CASE StreamFiles(m) \/ Finish(m)
  BY <1>1, <1>2, <1>8
  DEF StreamFiles, Finish, NodeInv, FirstRoundInv, InfoInv,
      ResultInv, Streamed, Attempted, config, results, FirstRound
<1>9. QED  BY <1>3, <1>4, <1>5, <1>6, <1>7, <1>8 DEF NodeStep

(* The main goroutine moves the nodes only when no goroutine of theirs is   *)
(* running, the others do not move them at all.                             *)
LEMMA OtherStepVerdict ==
  ASSUME TypeOK, IsInjective(failed), NodeInv, Next, \A n \in Nodes : ~NodeStep(n)
  PROVE  NodeInv' /\ IsInjective(failed')
<1>1. /\ pc \in [Nodes -> Locations] /\ info \in [Nodes -> Infos]
      /\ coordinators \in SUBSET Nodes /\ executors \in SUBSET Nodes
  BY DEF TypeOK
<1>2. \A n \in Nodes : FirstRoundInv(n) /\ InfoInv(n) /\ ResultInv(n)
  BY DEF NodeInv
<1>3. CASE ResolveTopology
  BY <1>1, <1>2, <1>3
  DEF ResolveTopology, NodeInv, FirstRoundInv, InfoInv, ResultInv, Streamed,
      Attempted, results, FirstRound
<1>4. CASE Launch
  BY <1>1, <1>2, <1>4
  DEF Launch, NodeInv, FirstRoundInv, InfoInv, ResultInv, Streamed, Launched,
      Attempted, config, results, FirstRound
<1>5. CASE /\ UNCHANGED <<config, pc, info, results>>
           /\ phase' = "topology" => phase = "topology"
           /\ phase' \in FirstRound => phase \in FirstRound
  BY <1>2, <1>5
  DEF NodeInv, FirstRoundInv, InfoInv, ResultInv, Streamed, Attempted, config,
      results, FirstRound
<1>6. CASE OrchestratorStep \/ Returned \/ \E n \in Nodes : NodeInfoGoroutine(n)
  <2>1. UNCHANGED <<config, pc, info, results, phase>>
    BY <1>6
    DEF OrchestratorStep, OrchestratorTask, OrchestratorEnds, Returned, vars,
        NodeInfoGoroutine, NodeInfoStep, NodeInfoCloses
  <2>2. QED  BY <1>5, <2>1
<1>7. CASE NoHosts \/ EndDiscovery \/ RunJvmTools \/ RunHeapDumps \/ EndStream
           \/ CollectProfiles \/ BuildSummary \/ NothingCollected \/ Archive
           \/ ArchiveFails
  BY <1>5, <1>7
  DEF NoHosts, EndDiscovery, RunJvmTools, RunHeapDumps, EndStream, CollectProfiles,
      BuildSummary, NothingCollected, Archive, ArchiveFails, FirstRound
<1>8. QED  BY <1>3, <1>4, <1>6, <1>7 DEF Next, MainStep

(* Every step keeps the relation between the results, the goroutines and    *)
(* what was discovered.                                                     *)
LEMMA VerdictStep ==
  ASSUME IInv, [Next]_vars
  PROVE  NodeInv' /\ IsInjective(failed')
<1>1. TypeOK /\ IsInjective(failed) /\ NodeInv  BY DEF IInv
<1>2. CASE UNCHANGED vars
  BY <1>1, <1>2
  DEF vars, config, results, NodeInv, FirstRoundInv, InfoInv, ResultInv, Streamed,
      Attempted
<1>3. CASE \E n \in Nodes : NodeStep(n)
  BY <1>1, <1>3, NodeStepVerdict
<1>4. CASE Next /\ ~\E n \in Nodes : NodeStep(n)
  BY <1>1, <1>4, OtherStepVerdict
<1>5. QED  BY <1>2, <1>3, <1>4

-----------------------------------------------------------------------------
(* When every goroutine has ended, no step of a node is enabled.            *)
LEMMA SettledStops ==
  Settled => ~OrchestratorStep /\ \A n \in Nodes : ~NodeStep(n)
BY DEF Settled, NodeStep, StartDiscovery, DiscoveryFails, DiscoverySucceeds,
   StartStreaming, TakeSlot, AwaitNodeInfo, NodeInfoTimesOut, StreamFiles, Record,
   Finish, OrchestratorStep, OrchestratorTask, OrchestratorEnds

(* Every step keeps the relation between the summary and the goroutines.    *)
LEMMA SummaryStep ==
  ASSUME IInv, [Next]_vars
  PROVE  SummaryInv'
<1>1. SummaryInv /\ NodeInv /\ TypeOK  BY DEF IInv
<1>2. Unbuilt' = Unbuilt  BY DEF Unbuilt
<1>3. CASE UNCHANGED vars
  BY <1>1, <1>2, <1>3 DEF vars, SummaryInv, Settled
<1>4. CASE OrchestratorStep \/ \E n \in Nodes : NodeStep(n)
  <2>1. ~Settled  BY <1>4, SettledStops
  <2>2. phase' = phase /\ summary' = summary /\ orchestrator' \subseteq orchestrator
    BY <1>4
    DEF NodeStep, StartDiscovery, DiscoveryFails, DiscoverySucceeds, StartStreaming,
        TakeSlot, AwaitNodeInfo, NodeInfoTimesOut, StreamFiles, Record, Finish,
        OrchestratorStep, OrchestratorTask, OrchestratorEnds
  <2>3. QED  BY <1>1, <1>2, <2>1, <2>2 DEF SummaryInv
<1>5. CASE Returned \/ \E n \in Nodes : NodeInfoGoroutine(n)
  BY <1>1, <1>2, <1>5
  DEF Returned, vars, NodeInfoGoroutine, NodeInfoStep, NodeInfoCloses, SummaryInv, Settled
<1>6. CASE EndStream \/ NoHosts
  <2>1. \A n \in Nodes : pc[n] \in {"absent", "ended"}
    BY <1>1, <1>6 DEF EndStream, NoHosts, AllDone, NodeInv, InfoInv, FirstRoundInv
  <2>2. QED
    BY <1>1, <1>2, <1>6, <2>1
    DEF EndStream, NoHosts, AllDone, SummaryInv, Settled, FirstRound
<1>7. CASE ResolveTopology \/ EndDiscovery \/ RunJvmTools \/ RunHeapDumps \/ Launch
  <2>1. /\ summary' = Unbuilt'
        /\ phase' \notin {"profiles", "report", "archive", "ok", "error"}
        /\ phase' \in FirstRound => orchestrator' = {}
    BY <1>1, <1>2, <1>7
    DEF ResolveTopology, EndDiscovery, RunJvmTools, RunHeapDumps, Launch, SummaryInv,
        FirstRound
  <2>2. QED  BY <2>1 DEF SummaryInv
<1>8. CASE CollectProfiles \/ BuildSummary \/ NothingCollected \/ Archive \/ ArchiveFails
  BY <1>1, <1>2, <1>8
  DEF CollectProfiles, BuildSummary, NothingCollected, Archive, ArchiveFails,
      SummaryInv, Settled, FirstRound
<1>9. QED
  BY <1>3, <1>4, <1>5, <1>6, <1>7, <1>8 DEF Next, MainStep

-----------------------------------------------------------------------------
(* IInv is inductive.                                                       *)
LEMMA NextIInv == IInv /\ [Next]_vars => IInv'
BY TypeStep, VerdictStep, SummaryStep DEF IInv

(* IInv holds in every reachable state.                                     *)
THEOREM SpecIInv == Spec => []IInv
BY InitIInv, NextIInv, PTL DEF Spec

(* Type correctness: in particular no more goroutines hold a slot than      *)
(* collectionThreads, and NumberNodesContacted is never negative.           *)
THEOREM TypeCorrect == Spec => []TypeOK
<1>1. IInv => TypeOK  BY DEF IInv
<1>2. QED  BY <1>1, SpecIInv, PTL

(* For every cluster, a node is in totalFailedNodes at most once over both  *)
(* rounds, and never when a file of it was collected.                       *)
THEOREM VerdictsUnique == Spec => []OneVerdictPerNode
<1>1. IInv => OneVerdictPerNode
  <2> SUFFICES ASSUME IInv PROVE OneVerdictPerNode  OBVIOUS
  <2>1. ToSet(failed) \subseteq Attempted  BY SummaryInRange DEF IInv
  <2>2. Attempted \subseteq Nodes  BY DEF IInv, TypeOK, Attempted
  <2>3. ToSet(failed) \cap collected = {}
    BY <2>1, <2>2 DEF IInv, NodeInv, ResultInv, Streamed
  <2>4. QED  BY <2>1, <2>3 DEF IInv, OneVerdictPerNode
<1>2. QED  BY <1>1, SpecIInv, PTL

(* Once the summary is built, the goroutines that are left, those that      *)
(* collect node info beyond their two minutes, change nothing it tells.     *)
THEOREM SummaryFinal == Spec => SummaryIsFinal
<1> DEFINE Kept == summary # Unbuilt =>
                     UNCHANGED <<failed, collected, got, slots, con.complete>>
<1>1. ASSUME IInv, Next PROVE Kept
  <2> SUFFICES ASSUME summary # Unbuilt
               PROVE  UNCHANGED <<failed, collected, got, slots, con.complete>>
    OBVIOUS
  <2>1. Settled /\ phase \in {"archive", "ok", "error"}  BY <1>1 DEF IInv, SummaryInv
  <2>2. con \in ConsoleType  BY <1>1 DEF IInv, TypeOK, ConsoleType
  <2>3. CASE \E n \in Nodes : NodeInfoGoroutine(n)
    <3>1. PICK n \in Nodes : NodeInfoGoroutine(n)  BY <2>3
    <3>2. Status("Collecting node info") \in UpdateType
          /\ ~Status("Collecting node info").endProcess
      BY MessageType DEF Stages
    <3>3. con' = con \/ con' = UpdateNodeState(con, n, Status("Collecting node info"))
      BY <3>1 DEF NodeInfoGoroutine, NodeInfoStep, NodeInfoCloses
    <3>4. con'.complete = con.complete
      <4> DEFINE u == Status("Collecting node info")
      <4> HIDE DEF u
      <4>1. UpdateNodeState(con, n, u).complete = con.complete
        BY <2>2, <3>2, UncountedUpdate DEF u
      <4>2. QED  BY <3>3, <4>1 DEF u
    <3>5. QED
      BY <3>1, <3>4 DEF NodeInfoGoroutine, NodeInfoStep, NodeInfoCloses, results
  <2>4. CASE Archive
    <3>1. con'.complete = con.complete
      BY <2>2, <2>4 DEF Archive, UpdateTarballDir, ConsoleType
    <3>2. QED  BY <2>4, <3>1 DEF Archive, results
  <2>5. CASE ArchiveFails \/ Returned
    BY <2>5 DEF ArchiveFails, Returned, vars, results
  <2>6. ~OrchestratorStep /\ \A n \in Nodes : ~NodeStep(n)
    BY <2>1, SettledStops
  <2>7. MainStep => Archive \/ ArchiveFails
    BY <2>1
    DEF MainStep, ResolveTopology, NoHosts, EndDiscovery, RunJvmTools, RunHeapDumps,
        Launch, EndStream, CollectProfiles, BuildSummary, NothingCollected
  <2>8. QED  BY <1>1, <2>3, <2>4, <2>5, <2>6, <2>7 DEF Next
<1>2. IInv /\ [Next]_vars => [Kept]_vars  BY <1>1
<1>3. QED  BY <1>2, SpecIInv, PTL DEF Spec, SummaryIsFinal

-----------------------------------------------------------------------------
(***************************************************************************)
(* StreamingCollect implements CollectionContract, for every finite set of *)
(* nodes, every number of threads and every set of requests: each step of  *)
(* the goroutines settles the verdict of one node, delivers, gives up, or  *)
(* is not visible to the caller.                                           *)
(***************************************************************************)

(* An archive is made only from some file, with the summary of the nodes.   *)
DeliveryInv ==
  phase \in {"archive", "ok"} =>
    /\ collected # {}
    /\ summary = Cardinality(Attempted) - Len(failed)

-----------------------------------------------------------------------------
(* The number of different elements of a sequence without repetition.       *)
LEMMA InjectiveCardinality ==
  ASSUME NEW S, NEW s \in Seq(S), IsInjective(s)
  PROVE  IsFiniteSet(ToSet(s)) /\ Cardinality(ToSet(s)) = Len(s)
<1>1. Len(s) \in Nat /\ DOMAIN s = 1 .. Len(s) /\ s \in [1 .. Len(s) -> ToSet(s)]
  BY DEF ToSet
<1>2. s \in Injection(1 .. Len(s), ToSet(s))
  BY <1>1 DEF Injection
<1>3. s \in Surjection(1 .. Len(s), ToSet(s))
  BY <1>1 DEF Surjection, ToSet
<1>4. ExistsBijection(1 .. Len(s), ToSet(s))
  BY <1>2, <1>3 DEF ExistsBijection, Bijection
<1>5. IsFiniteSet(1 .. Len(s)) /\ Cardinality(1 .. Len(s)) = Len(s)
  <2>1. /\ IsFiniteSet(1 .. Len(s))
        /\ Cardinality(1 .. Len(s)) = IF 1 > Len(s) THEN 0 ELSE Len(s) - 1 + 1
    BY <1>1, FS_Interval
  <2>2. QED  BY <1>1, <2>1
<1>6. QED  BY <1>4, <1>5, FS_Bijection

(* The summary counts the nodes that have not failed.                       *)
LEMMA SummaryCounts ==
  ASSUME IInv
  PROVE  Cardinality(Attempted) - Len(failed) = Cardinality(Attempted \ ToSet(failed))
<1>1. /\ TypeOK /\ IsInjective(failed) /\ NodeInv
      /\ failed \in Seq(Nodes) /\ Attempted \in SUBSET Nodes
  BY DEF IInv, TypeOK, Attempted
<1>2. IsFiniteSet(Attempted)  BY <1>1, NodesFinite, FS_Subset
<1>3. Attempted \cap ToSet(failed) = ToSet(failed)
  <2>1. ToSet(failed) \subseteq Attempted  BY <1>1, SummaryInRange
  <2>2. QED  BY <2>1
<1>4. Cardinality(Attempted \ ToSet(failed))
        = Cardinality(Attempted) - Cardinality(Attempted \cap ToSet(failed))
  BY <1>2, FS_Difference
<1>5. Cardinality(ToSet(failed)) = Len(failed)
  BY <1>1, InjectiveCardinality
<1>6. QED  BY <1>3, <1>4, <1>5

(* Every step keeps DeliveryInv.                                            *)
LEMMA DeliveryStep ==
  ASSUME IInv, DeliveryInv, [Next]_vars
  PROVE  DeliveryInv'
<1>1. CASE phase \in {"archive", "ok"}
  <2>1. Settled  BY <1>1 DEF IInv, SummaryInv
  <2>2. ~OrchestratorStep /\ \A n \in Nodes : ~NodeStep(n)  BY <2>1, SettledStops
  <2>3. MainStep => Archive \/ ArchiveFails
    BY <1>1
    DEF MainStep, ResolveTopology, NoHosts, EndDiscovery, RunJvmTools, RunHeapDumps,
        Launch, EndStream, CollectProfiles, BuildSummary, NothingCollected
  <2>4. UNCHANGED <<config, results, summary>>
    BY <2>2, <2>3
    DEF Next, Archive, ArchiveFails, Returned, vars, NodeInfoGoroutine, NodeInfoStep,
        NodeInfoCloses
  <2>5. QED  BY <1>1, <2>4 DEF DeliveryInv, config, results, Attempted
<1>2. CASE phase \notin {"archive", "ok"} /\ phase' \in {"archive", "ok"}
  <2>1. ~UNCHANGED vars  BY <1>2 DEF vars
  <2>2. ~OrchestratorStep /\ ~Returned
    BY <1>2 DEF OrchestratorStep, OrchestratorTask, OrchestratorEnds, Returned, vars
  <2>3. ASSUME NEW n \in Nodes PROVE ~NodeStep(n) /\ ~NodeInfoGoroutine(n)
    BY <1>2
    DEF NodeStep, StartDiscovery, DiscoveryFails, DiscoverySucceeds, StartStreaming,
        TakeSlot, AwaitNodeInfo, NodeInfoTimesOut, StreamFiles, Record, Finish,
        NodeInfoGoroutine, NodeInfoStep, NodeInfoCloses
  <2>4. MainStep => BuildSummary
    BY <1>2
    DEF MainStep, ResolveTopology, NoHosts, EndDiscovery, RunJvmTools, RunHeapDumps,
        Launch, EndStream, CollectProfiles, NothingCollected, Archive, ArchiveFails
  <2>5. BuildSummary  BY <2>1, <2>2, <2>3, <2>4 DEF Next
  <2>6. QED
    BY <2>5 DEF BuildSummary, SomethingCollected, DeliveryInv, config, results, Attempted
<1>3. QED  BY <1>1, <1>2 DEF DeliveryInv

(* Both invariants hold in every reachable state.                           *)
THEOREM SpecDelivery == Spec => [](IInv /\ DeliveryInv)
<1>1. Init => DeliveryInv  BY DEF Init, DeliveryInv
<1>2. IInv /\ DeliveryInv /\ [Next]_vars => DeliveryInv'  BY DeliveryStep
<1>3. QED  BY <1>1, <1>2, SpecIInv, PTL DEF Spec

-----------------------------------------------------------------------------
(* What the caller sees of a state.                                         *)
Verdicts == [n \in Nodes |-> Verdict(n)]
Outcome == CASE phase = "ok" -> "delivered"
             [] phase = "error" -> "gaveUp"
             [] OTHER -> "running"
Contacted == IF phase = "ok" THEN summary ELSE 0
View == <<Attempted, Verdicts, Outcome, Contacted>>

(* The verdicts depend only on the results and on which goroutines are past *)
(* the recording of theirs.                                                 *)
Recorded(n) == pc[n] \in {"finish", "ended"}

LEMMA VerdictsKept ==
  ASSUME ToSet(failed') = ToSet(failed), collected' = collected,
         \A n \in Nodes : Recorded(n)' <=> Recorded(n)
  PROVE  Verdicts' = Verdicts
<1>1. ASSUME NEW n \in Nodes PROVE Verdict(n)' = Verdict(n)
  BY DEF Verdict, Recorded
<1>2. QED  BY <1>1 DEF Verdicts

(* The contract's state is the view, and its stutters those of the view.    *)
LEMMA ViewStutters ==
  ASSUME UNCHANGED View
  PROVE  UNCHANGED Contract!vars
BY DEF View, Verdicts, Outcome, Contacted, Contract!vars

(* After the rounds no verdict is pending.                                  *)
LEMMA ContractPending ==
  ASSUME IInv, Settled
  PROVE  Contract!Pending = {}
<1>1. \A n \in Attempted : n \in Nodes /\ pc[n] = "ended"
  BY DEF IInv, TypeOK, NodeInv, InfoInv, Attempted, Settled
<1>2. \A n \in Attempted : Verdict(n) # "pending"
  BY <1>1 DEF Verdict
<1>3. QED  BY <1>1, <1>2 DEF Contract!Pending

(* The initial state maps to the contract's.                                *)
LEMMA ContractInit == Init => Contract!Init
<1> SUFFICES ASSUME Init PROVE Contract!Init  OBVIOUS
<1>1. \A n \in Nodes : Verdict(n) = "pending"
  BY DEF Init, Verdict, ToSet
<1>2. QED  BY <1>1 DEF Init, Contract!Init, Attempted

(* The recording of a verdict is the contract's Settle.                     *)
LEMMA ContractSettle ==
  ASSUME NEW m \in Attempted, Attempted \in SUBSET Nodes,
         phase \notin {"ok", "error"}, phase' = phase, Attempted' = Attempted,
         Verdict(m) = "pending", Verdict(m)' \in {"gathered", "empty", "failed"},
         \A n \in Nodes \ {m} : Verdict(n)' = Verdict(n)
  PROVE  Contract!Settle(m)
<1>1. Verdicts' = [Verdicts EXCEPT ![m] = Verdict(m)']
  BY DEF Verdicts
<1>2. m \in Contract!Pending  BY DEF Contract!Pending
<1>3. QED  BY <1>1, <1>2 DEF Contract!Settle, Verdicts

(* A step of a node's goroutine settles its verdict or is a stutter.        *)
LEMMA ContractNodeStep ==
  ASSUME IInv, NEW m \in Nodes, NodeStep(m)
  PROVE  [Contract!Next]_Contract!vars
<1>1. /\ pc \in [Nodes -> Locations] /\ failed \in Seq(Nodes)
      /\ IsInjective(failed) /\ Attempted \in SUBSET Nodes
      /\ \A n \in Nodes : FirstRoundInv(n) /\ InfoInv(n) /\ ResultInv(n)
  BY DEF IInv, TypeOK, NodeInv, Attempted
<1>2. phase \notin {"ok", "error"}
  <2>1. ~Settled  BY SettledStops
  <2>2. QED  BY <2>1 DEF IInv, SummaryInv
<1>3. phase' = phase /\ Attempted' = Attempted
  BY DEF NodeStep, StartDiscovery, DiscoveryFails, DiscoverySucceeds, StartStreaming,
     TakeSlot, AwaitNodeInfo, NodeInfoTimesOut, StreamFiles, Record, Finish,
     config, Attempted
<1>4. CASE DiscoveryFails(m) \/ Record(m)
  <2>1. m \in Attempted /\ m \notin ToSet(failed) /\ m \notin collected /\ ~Recorded(m)
    BY <1>1, <1>4 DEF DiscoveryFails, Record, InfoInv, ResultInv, Streamed, Recorded
  <2>2. Recorded(m)' /\ \A n \in Nodes \ {m} : Recorded(n)' <=> Recorded(n)
    BY <1>1, <1>4 DEF DiscoveryFails, Record, Recorded
  <2>3. \A n \in Nodes \ {m} : /\ n \in ToSet(failed') <=> n \in ToSet(failed)
                               /\ n \in collected' <=> n \in collected
    <3>1. failed' \in {failed, Append(failed, m)}
      BY <1>4 DEF DiscoveryFails, Record
    <3>2. ToSet(Append(failed, m)) = ToSet(failed) \cup {m}
      BY <1>1, <2>1, AppendNew
    <3>3. collected' \in {collected, collected \cup {m}}
      BY <1>4 DEF DiscoveryFails, Record
    <3>4. QED  BY <3>1, <3>2, <3>3
  <2>4. Verdict(m) = "pending" /\ Verdict(m)' \in {"gathered", "empty", "failed"}
    BY <2>1, <2>2 DEF Verdict, Recorded
  <2>5. \A n \in Nodes \ {m} : Verdict(n)' = Verdict(n)
    BY <2>2, <2>3 DEF Verdict, Recorded
  <2>6. Contract!Settle(m)
    BY <1>1, <1>2, <1>3, <2>1, <2>4, <2>5, ContractSettle
  <2>7. QED  BY <2>6 DEF Contract!Next
<1>5. CASE \/ StartDiscovery(m) \/ DiscoverySucceeds(m) \/ StartStreaming(m)
           \/ AwaitNodeInfo(m) \/ NodeInfoTimesOut(m) \/ StreamFiles(m) \/ Finish(m)
  <2>1. /\ failed' = failed /\ collected' = collected
        /\ \A n \in Nodes : Recorded(n)' <=> Recorded(n)
    BY <1>1, <1>5
    DEF StartDiscovery, DiscoverySucceeds, StartStreaming, TakeSlot, AwaitNodeInfo,
        NodeInfoTimesOut, StreamFiles, Finish, Recorded, results
  <2>2. Verdicts' = Verdicts  BY <2>1, VerdictsKept
  <2>3. UNCHANGED View
    BY <1>2, <1>3, <2>2 DEF View, Outcome, Contacted
  <2>4. QED  BY <2>3, ViewStutters
<1>6. QED  BY <1>4, <1>5 DEF NodeStep

(* The end of the collection delivers or gives up.                          *)
LEMMA ContractEnd ==
  ASSUME IInv, DeliveryInv, Archive \/ ArchiveFails \/ NothingCollected \/ NoHosts
  PROVE  Contract!Next
<1>1. Attempted' = Attempted /\ phase \notin {"ok", "error"}
  BY DEF Archive, ArchiveFails, NothingCollected, NoHosts, config, Attempted
<1>2. Verdicts' = Verdicts
  <2>1. /\ failed' = failed /\ collected' = collected
        /\ \A n \in Nodes : Recorded(n)' <=> Recorded(n)
    BY DEF Archive, ArchiveFails, NothingCollected, NoHosts, results, Recorded
  <2>2. QED  BY <2>1, VerdictsKept
<1>3. Contract!Pending = {}
  <2>1. CASE NoHosts
    <3>1. Attempted = {}
      BY <2>1 DEF NoHosts, IInv, TypeOK, NodeInv, FirstRoundInv, InfoInv, Attempted
    <3>2. QED  BY <3>1 DEF Contract!Pending
  <2>2. CASE Archive \/ ArchiveFails \/ NothingCollected
    <3>1. Settled
      BY <2>2 DEF Archive, ArchiveFails, NothingCollected, IInv, SummaryInv
    <3>2. QED  BY <3>1, ContractPending
  <2>3. QED  BY <2>1, <2>2
<1>4. CASE Archive
  <2>1. /\ phase = "archive" /\ phase' = "ok" /\ summary' = summary
        /\ collected # {} /\ summary = Cardinality(Attempted) - Len(failed)
    BY <1>4 DEF Archive, DeliveryInv
  <2>2. ASSUME NEW n \in Nodes
        PROVE  /\ Verdict(n) = "failed" <=> n \in ToSet(failed)
               /\ n \in collected => Verdict(n) = "gathered" /\ n \in Attempted
    BY DEF Verdict, IInv, NodeInv, InfoInv, ResultInv, Streamed
  <2>3. collected \in SUBSET Nodes /\ Attempted \in SUBSET Nodes
    BY DEF IInv, TypeOK, Attempted
  <2>4. Contract!With("gathered") # {}
    BY <2>1, <2>2, <2>3 DEF Contract!With
  <2>5. Attempted \ Contract!With("failed") = Attempted \ ToSet(failed)
    BY <2>2, <2>3 DEF Contract!With
  <2>6. summary = Cardinality(Attempted \ ToSet(failed))
    BY <2>1, SummaryCounts
  <2>7. Contract!Cardinality(Attempted \ ToSet(failed))
          = Cardinality(Attempted \ ToSet(failed))
    BY DEF Contract!Cardinality, Cardinality
  <2>8. Contract!Deliver
    BY <1>1, <1>2, <1>3, <2>1, <2>4, <2>5, <2>6, <2>7
    DEF Contract!Deliver, Verdicts
  <2>9. QED  BY <2>8 DEF Contract!Next
<1>5. CASE ArchiveFails \/ NothingCollected \/ NoHosts
  <2>1. phase' = "error"  BY <1>5 DEF ArchiveFails, NothingCollected, NoHosts
  <2>2. Contract!GiveUp
    BY <1>1, <1>2, <1>3, <2>1 DEF Contract!GiveUp, Verdicts
  <2>3. QED  BY <2>2 DEF Contract!Next
<1>6. QED  BY <1>4, <1>5

(* The other steps begin the collection or are stutters.                    *)
LEMMA ContractOtherStep ==
  ASSUME IInv, Next, \A n \in Nodes : ~NodeStep(n),
         ~Archive, ~ArchiveFails, ~NothingCollected, ~NoHosts
  PROVE  [Contract!Next]_Contract!vars
<1>1. /\ pc \in [Nodes -> Locations]
      /\ \A n \in Nodes : FirstRoundInv(n) /\ InfoInv(n) /\ ResultInv(n)
      /\ Attempted \in SUBSET Nodes
  BY DEF IInv, TypeOK, NodeInv, Attempted
<1>2. CASE ResolveTopology
  <2>1. \A n \in Nodes : ~Recorded(n) /\ ~Recorded(n)'
    BY <1>1, <1>2 DEF ResolveTopology, FirstRoundInv, Recorded
  <2>2. Verdicts' = Verdicts
    BY <1>2, <2>1, VerdictsKept DEF ResolveTopology, results
  <2>3. Attempted = {}
    BY <1>1, <1>2 DEF ResolveTopology, FirstRoundInv, InfoInv
  <2>4. Attempted' \in (SUBSET Nodes) \ {{}}
    <3>1. PICK cs \in SUBSET Nodes, es \in SUBSET Nodes :
            cs \cup es # {} /\ coordinators' = cs /\ executors' = es
      BY <1>2 DEF ResolveTopology
    <3>2. Attempted' = cs \cup es  BY <3>1 DEF Attempted
    <3>3. QED  BY <3>1, <3>2
  <2>5. phase = "topology" /\ phase' = "discover"  BY <1>2 DEF ResolveTopology
  <2>6. Contract!Begin
    BY <2>2, <2>3, <2>4, <2>5 DEF Contract!Begin, Verdicts
  <2>7. QED  BY <2>6 DEF Contract!Next
<1>3. CASE Launch
  <2>1. \A n \in Nodes : Recorded(n)' <=> Recorded(n)
    BY <1>1, <1>3 DEF Launch, Launched, FirstRoundInv, FirstRound, Recorded
  <2>2. Verdicts' = Verdicts
    BY <1>3, <2>1, VerdictsKept DEF Launch, results
  <2>3. UNCHANGED View
    BY <1>3, <2>2 DEF Launch, config, View, Outcome, Contacted, Attempted
  <2>4. QED  BY <2>3, ViewStutters
<1>4. CASE \/ EndDiscovery \/ RunJvmTools \/ RunHeapDumps \/ EndStream \/ CollectProfiles
           \/ BuildSummary \/ OrchestratorStep \/ Returned
           \/ \E n \in Nodes : NodeInfoGoroutine(n)
  <2>1. /\ UNCHANGED <<config, pc, results>>
        /\ \/ phase' = phase /\ summary' = summary
           \/ phase \notin {"ok", "error"} /\ phase' \notin {"ok", "error"}
    <3>1. CASE OrchestratorStep \/ Returned \/ \E n \in Nodes : NodeInfoGoroutine(n)
      BY <3>1
      DEF OrchestratorStep, OrchestratorTask, OrchestratorEnds, Returned, vars,
          NodeInfoGoroutine, NodeInfoStep, NodeInfoCloses
    <3>2. CASE EndDiscovery \/ RunJvmTools \/ RunHeapDumps \/ EndStream
               \/ CollectProfiles \/ BuildSummary
      BY <3>2
      DEF EndDiscovery, RunJvmTools, RunHeapDumps, EndStream, CollectProfiles, BuildSummary
    <3>3. QED  BY <1>4, <3>1, <3>2
  <2>2. Verdicts' = Verdicts
    BY <2>1, VerdictsKept DEF results, Recorded
  <2>3. UNCHANGED View
    BY <2>1, <2>2 DEF config, View, Outcome, Contacted, Attempted
  <2>4. QED  BY <2>3, ViewStutters
<1>5. QED  BY <1>2, <1>3, <1>4 DEF Next, MainStep

(* The collection implements its contract: every node of the topology gets  *)
(* one verdict that no later step of any goroutine revises, and the caller  *)
(* gets an archive only when none is pending and some node gave files, with *)
(* a summary that counts exactly the nodes that did not fail.               *)
THEOREM ContractRefinement == Spec => ImplementsContract
<1>1. IInv /\ DeliveryInv /\ [Next]_vars => [Contract!Next]_Contract!vars
  <2> SUFFICES ASSUME IInv, DeliveryInv, [Next]_vars
               PROVE  [Contract!Next]_Contract!vars
    OBVIOUS
  <2>1. CASE UNCHANGED vars
    <3>1. UNCHANGED View
      BY <2>1 DEF vars, config, results, View, Verdicts, Verdict, Outcome, Contacted, Attempted
    <3>2. QED  BY <3>1, ViewStutters
  <2>2. CASE \E n \in Nodes : NodeStep(n)
    BY <2>2, ContractNodeStep
  <2>3. CASE Archive \/ ArchiveFails \/ NothingCollected \/ NoHosts
    BY <2>3, ContractEnd
  <2>4. CASE /\ Next
             /\ \A n \in Nodes : ~NodeStep(n)
             /\ ~(Archive \/ ArchiveFails \/ NothingCollected \/ NoHosts)
    BY <2>4, ContractOtherStep
  <2>5. QED  BY <2>1, <2>2, <2>3, <2>4
<1>2. QED
  BY <1>1, ContractInit, SpecDelivery, PTL DEF Spec, ImplementsContract, Contract!Spec

-----------------------------------------------------------------------------
(***************************************************************************)
(* Proofs about what the collection shows while it runs, for every finite  *)
(* set of nodes: the progress bar never passes its total and misses, at    *)
(* the end, exactly the tasks nobody did; the rows that read as failed are *)
(* those of the nodes whose discovery failed.  The invariant counts the    *)
(* tasks that are done: nodes, JVM tasks, and the task of the cluster.     *)
(***************************************************************************)

(* The nodes whose goroutine has counted its task.                          *)
Finished == {n \in Nodes : pc[n] = "ended" /\ info[n].known}

BeforeJvm == {"topology", "discover", "jvm"}
One(b) == IF b THEN 1 ELSE 0
JvmTasksDone ==
  IF phase \in BeforeJvm \/ JvmNodes = {} THEN 0
  ELSE IF phase = "heap" THEN One(args.jvmTools)
  ELSE ExtraTasks

(* The task that the orchestrator counts, or, in its place, the profiles.   *)
ClusterTaskDone ==
  IF phase \in FirstRound THEN 0
  ELSE IF args.profiles
       THEN One(phase \notin {"stream", "profiles"} /\ coordinators # {})
       ELSE One(orchestrator = {})

(* The topology is there when the phase says so, and the JVM phases have    *)
(* something to do.                                                         *)
PhaseInv ==
  /\ phase \notin {"topology", "error"} => Attempted # {}
  /\ coordinators \cap executors = {}
  /\ phase \in {"jvm", "heap"} => JvmNodes # {}
  /\ phase = "heap" => args.heapDump
  /\ orchestrator # {} => "wait" \in orchestrator

(* What the row of a node says about its goroutine; a node-info goroutine   *)
(* runs only for a node that was discovered.                                *)
RowInv(n) ==
  /\ con.nodes[n].listed <=> n \in Attempted
  /\ con.nodes[n].ended <=> n \in Finished
  /\ con.nodes[n].failed <=> pc[n] = "ended" /\ ~info[n].known
  /\ nodeInfo[n] # "off" => info[n].known
  /\ phase \notin {"topology", "discover"} => pc[n] \notin {"queued", "discovering"}

CountInv ==
  /\ con.total = IF Attempted = {} THEN 0 ELSE Cardinality(Attempted) + 1 + ExtraTasks
  /\ con.complete = IF Attempted = {} THEN 0
                    ELSE Cardinality(Finished) + JvmTasksDone + ClusterTaskDone

ProgressInv ==
  /\ PhaseInv
  /\ \A n \in Nodes : RowInv(n)
  /\ CountInv

-----------------------------------------------------------------------------
(* What an update does to the row of a listed node, and to the progress.    *)
LEMMA RowUpdate ==
  ASSUME NEW c \in ConsoleType, NEW n \in Nodes, NEW u \in UpdateType,
         c.nodes[n].listed
  PROVE  LET d == UpdateNodeState(c, n, u)
         IN /\ d.total = c.total
            /\ d.complete = IF u.endProcess /\ ~c.nodes[n].ended /\ ~u.failure
                            THEN c.complete + 1 ELSE c.complete
            /\ \A m \in Nodes \ {n} : d.nodes[m] = c.nodes[m]
            /\ d.nodes[n].listed
            /\ d.nodes[n].ended <=> c.nodes[n].ended \/ u.endProcess
            /\ d.nodes[n].failed <=> u.failure
<1> DEFINE d == UpdateNodeState(c, n, u)
<1>1. c.nodes[n] \in NodeStatus(Stages) /\ DOMAIN c.nodes = Nodes
  BY DEF ConsoleType
<1>2. u.status # ""  BY DEF UpdateType, Stages
<1>3. /\ d.total = c.total
      /\ d.complete = IF CountsTransfer(c.nodes[n], u) THEN c.complete + 1 ELSE c.complete
      /\ d.nodes = [c.nodes EXCEPT ![n] = Updated(c.nodes[n], u)]
  BY DEF UpdateNodeState, ConsoleType
<1>4. d.nodes[n] = Updated(c.nodes[n], u) /\ \A m \in Nodes \ {n} : d.nodes[m] = c.nodes[m]
  BY <1>1, <1>3
<1>5. /\ Updated(c.nodes[n], u).listed
      /\ Updated(c.nodes[n], u).ended <=> c.nodes[n].ended \/ u.endProcess
      /\ Updated(c.nodes[n], u).failed <=> u.failure
  BY <1>1, <1>2 DEF Updated, NodeStatus
<1>6. QED  BY <1>3, <1>4, <1>5 DEF CountsTransfer

(* Updates of several rows count no task.                                   *)
LEMMA RowsCount ==
  ASSUME NEW c \in ConsoleType, NEW S, NEW u
  PROVE  /\ UpdateNodeStates(c, S, u).total = c.total
         /\ UpdateNodeStates(c, S, u).complete = c.complete
BY DEF UpdateNodeStates, ConsoleType

(* The same for the announcement of a stage, on the rows of a set of nodes. *)
LEMMA RowsUpdate ==
  ASSUME NEW c \in ConsoleType, NEW S \in SUBSET Nodes, NEW t \in Stages
  PROVE  /\ \A m \in Nodes \ S :
              UpdateNodeStates(c, S, Status(t)).nodes[m] = c.nodes[m]
         /\ \A m \in S :
              /\ UpdateNodeStates(c, S, Status(t)).nodes[m].listed
              /\ UpdateNodeStates(c, S, Status(t)).nodes[m].ended
                   <=> c.nodes[m].listed /\ c.nodes[m].ended
              /\ ~UpdateNodeStates(c, S, Status(t)).nodes[m].failed
<1> DEFINE u == Status(t)
           d == UpdateNodeStates(c, S, u)
<1>1. DOMAIN c.nodes = Nodes /\ \A m \in Nodes : c.nodes[m] \in NodeStatus(Stages)
  BY DEF ConsoleType
<1>2. u.status # "" /\ ~u.failure /\ ~u.endProcess  BY DEF Status, Stages
<1>3. d.nodes = [m \in Nodes |-> IF m \notin S THEN c.nodes[m]
                   ELSE IF c.nodes[m].listed THEN Updated(c.nodes[m], u) ELSE Added(u)]
  BY <1>1 DEF UpdateNodeStates, ConsoleType
<1>4. ASSUME NEW m \in Nodes
      PROVE  /\ Updated(c.nodes[m], u).listed <=> c.nodes[m].listed
             /\ Updated(c.nodes[m], u).ended <=> c.nodes[m].ended
             /\ ~Updated(c.nodes[m], u).failed
  <2>1. c.nodes[m] \in NodeStatus(Stages)  BY <1>1
  <2> HIDE DEF u
  <2>2. QED  BY <1>2, <2>1 DEF Updated, NodeStatus
<1>5. Added(u).listed /\ ~Added(u).ended /\ ~Added(u).failed
  BY DEF Added, Unlisted
<1> HIDE DEF u, d
<1>6. ASSUME NEW m \in S
      PROVE  /\ d.nodes[m].listed
             /\ d.nodes[m].ended <=> c.nodes[m].listed /\ c.nodes[m].ended
             /\ ~d.nodes[m].failed
  <2>1. m \in Nodes  OBVIOUS
  <2>2. d.nodes[m] = IF c.nodes[m].listed THEN Updated(c.nodes[m], u) ELSE Added(u)
    BY <1>3, <2>1
  <2>3. QED  BY <1>4, <1>5, <2>1, <2>2
<1>7. QED  BY <1>3, <1>6 DEF d, u

(* The counting operators leave the rows alone.                             *)
LEMMA CountUpdate ==
  ASSUME NEW c \in ConsoleType
  PROVE  /\ IncrementTransfersComplete(c).complete = c.complete + 1
         /\ IncrementTransfersComplete(c).total = c.total
         /\ IncrementTransfersComplete(c).nodes = c.nodes
BY DEF IncrementTransfersComplete, ConsoleType

-----------------------------------------------------------------------------
(* The steps of a node that announce a stage, or nothing.                   *)
Announces(m) ==
  \/ StartDiscovery(m) \/ DiscoverySucceeds(m) \/ StartStreaming(m)
  \/ AwaitNodeInfo(m) \/ NodeInfoTimesOut(m) \/ StreamFiles(m) \/ Record(m)
  \/ NodeInfoStep(m) \/ NodeInfoCloses(m)

LEMMA AnnounceEffect ==
  ASSUME IInv, ProgressInv, NEW m \in Nodes, Announces(m)
  PROVE  /\ con'.total = con.total /\ con'.complete = con.complete
         /\ \A n \in Nodes \ {m} : con'.nodes[n] = con.nodes[n]
         /\ con'.nodes[m].listed <=> con.nodes[m].listed
         /\ con'.nodes[m].ended <=> con.nodes[m].ended
         /\ con'.nodes[m].failed => con.nodes[m].failed
         /\ con.nodes[m].failed => con' = con
<1>1. con \in ConsoleType /\ RowInv(m) /\ InfoInv(m)
  BY DEF IInv, TypeOK, ConsoleType, ProgressInv, NodeInv
<1>2. pc[m] # "absent" /\ (pc[m] = "ended" => info[m].known)
  BY <1>1
  DEF Announces, StartDiscovery, DiscoverySucceeds, StartStreaming, TakeSlot,
      AwaitNodeInfo, NodeInfoTimesOut, StreamFiles, Record, NodeInfoStep,
      NodeInfoCloses, RowInv, InfoInv
<1>3. con.nodes[m].listed /\ ~con.nodes[m].failed  BY <1>1, <1>2 DEF RowInv, InfoInv
<1>4. con' = con \/ \E t \in Stages : con' = UpdateNodeState(con, m, Status(t))
  BY DEF Announces, StartDiscovery, DiscoverySucceeds, StartStreaming,
      AwaitNodeInfo, NodeInfoTimesOut, StreamFiles, Record, NodeInfoStep,
      NodeInfoCloses, Stages
<1>5. CASE con' = con  BY <1>5
<1>6. ASSUME NEW t \in Stages, con' = UpdateNodeState(con, m, Status(t))
      PROVE  /\ con'.total = con.total /\ con'.complete = con.complete
             /\ \A n \in Nodes \ {m} : con'.nodes[n] = con.nodes[n]
             /\ con'.nodes[m].listed
             /\ con'.nodes[m].ended <=> con.nodes[m].ended
             /\ ~con'.nodes[m].failed
  <2>1. Status(t) \in UpdateType /\ ~Status(t).endProcess /\ ~Status(t).failure
    BY DEF Status, UpdateType
  <2> DEFINE u == Status(t)
  <2> HIDE DEF u
  <2>2. u \in UpdateType /\ ~u.endProcess /\ ~u.failure /\ con' = UpdateNodeState(con, m, u)
    BY <1>6, <2>1 DEF u
  <2>3. QED  BY <1>1, <1>3, <2>2, RowUpdate
<1>7. QED  BY <1>3, <1>4, <1>5, <1>6

(* The end of a node's goroutine, in either round, on the console.          *)
LEMMA FinishEffect ==
  ASSUME IInv, ProgressInv, NEW m \in Nodes, Finish(m)
  PROVE  /\ con'.total = con.total /\ con'.complete = con.complete + 1
         /\ \A n \in Nodes \ {m} : con'.nodes[n] = con.nodes[n]
         /\ con'.nodes[m].listed /\ con'.nodes[m].ended /\ ~con'.nodes[m].failed
<1>1. con \in ConsoleType /\ RowInv(m) /\ InfoInv(m) /\ pc[m] = "finish"
  BY DEF IInv, TypeOK, ConsoleType, ProgressInv, NodeInv, Finish
<1>2. con.nodes[m].listed /\ ~con.nodes[m].ended
  BY <1>1 DEF RowInv, InfoInv, Finished
<1> DEFINE u == Ended("Done")
<1>3. u \in UpdateType /\ u.endProcess /\ ~u.failure
  BY DEF Ended, Status, UpdateType, Stages
<1>4. con' = UpdateNodeState(con, m, u)  BY DEF Finish, FinalStatus
<1> HIDE DEF u
<1>5. QED  BY <1>1, <1>2, <1>3, <1>4, RowUpdate

LEMMA DiscoveryFailsEffect ==
  ASSUME IInv, ProgressInv, NEW m \in Nodes, DiscoveryFails(m)
  PROVE  /\ con'.total = con.total /\ con'.complete = con.complete
         /\ \A n \in Nodes \ {m} : con'.nodes[n] = con.nodes[n]
         /\ con'.nodes[m].listed /\ ~con'.nodes[m].ended /\ con'.nodes[m].failed
<1>1. con \in ConsoleType /\ RowInv(m) /\ InfoInv(m) /\ pc[m] = "discovering"
  BY DEF IInv, TypeOK, ConsoleType, ProgressInv, NodeInv, DiscoveryFails
<1>2. con.nodes[m].listed /\ ~con.nodes[m].ended
  BY <1>1 DEF RowInv, InfoInv, Finished
<1> DEFINE u == Failure("Discovery failed")
<1>3. u \in UpdateType /\ ~u.endProcess /\ u.failure
  BY DEF Failure, Status, UpdateType, Stages
<1>4. con' = UpdateNodeState(con, m, u)  BY DEF DiscoveryFails
<1> HIDE DEF u
<1>5. QED  BY <1>1, <1>2, <1>3, <1>4, RowUpdate

-----------------------------------------------------------------------------
(* The steps of a node's goroutines keep the rows.                          *)
LEMMA NodeRows ==
  ASSUME IInv, ProgressInv, NEW m \in Nodes, NodeStep(m) \/ NodeInfoGoroutine(m)
  PROVE  \A n \in Nodes : RowInv(n)'
<1>1. /\ pc \in [Nodes -> Locations] /\ info \in [Nodes -> Infos]
      /\ nodeInfo \in [Nodes -> InfoSteps]
      /\ \A n \in Nodes : RowInv(n) /\ InfoInv(n)
  BY DEF IInv, TypeOK, ProgressInv, NodeInv
<1>2. phase' = phase /\ Attempted' = Attempted
  BY DEF NodeStep, NodeInfoGoroutine, StartDiscovery, DiscoveryFails,
     DiscoverySucceeds, StartStreaming, AwaitNodeInfo, NodeInfoTimesOut, StreamFiles,
     Record, Finish, NodeInfoStep, NodeInfoCloses, Attempted, config
<1>3. \A n \in Nodes \ {m} : /\ pc'[n] = pc[n] /\ info'[n] = info[n]
                             /\ nodeInfo'[n] = nodeInfo[n]
  BY <1>1
  DEF NodeStep, NodeInfoGoroutine, StartDiscovery, DiscoveryFails,
     DiscoverySucceeds, StartStreaming, TakeSlot, AwaitNodeInfo, NodeInfoTimesOut,
     StreamFiles, Record, Finish, NodeInfoStep, NodeInfoCloses
<1>4. \A n \in Nodes \ {m} : con'.nodes[n] = con.nodes[n]
  BY AnnounceEffect, FinishEffect, DiscoveryFailsEffect
  DEF NodeStep, NodeInfoGoroutine, Announces
<1>5. \A n \in Nodes \ {m} : RowInv(n)'
  BY <1>1, <1>2, <1>3, <1>4 DEF RowInv, Finished
<1>6. RowInv(m)'
  <2>1. CASE Finish(m)
    <3>1. pc'[m] = "ended" /\ UNCHANGED <<info, nodeInfo>> /\ info[m].known /\ m \in Attempted
      BY <1>1, <2>1 DEF Finish, InfoInv
    <3>2. QED  BY <1>1, <1>2, <2>1, <3>1, FinishEffect DEF RowInv, Finished
  <2>2. CASE DiscoveryFails(m)
    <3>1. pc'[m] = "ended" /\ UNCHANGED <<info, nodeInfo>> /\ ~info[m].known /\ m \in Attempted
      BY <1>1, <2>2 DEF DiscoveryFails, InfoInv
    <3>2. QED  BY <1>1, <1>2, <2>2, <3>1, DiscoveryFailsEffect DEF RowInv, Finished
  <2>3. CASE DiscoverySucceeds(m)
    <3>1. PICK i \in Infos \ {NoInfo} : info' = [info EXCEPT ![m] = i]
      BY <2>3 DEF DiscoverySucceeds
    <3>2. info'[m].known /\ pc'[m] = "discovered" /\ pc[m] = "discovering"
      BY <1>1, <2>3, <3>1 DEF DiscoverySucceeds, Infos, NoInfo
    <3>3. QED
      BY <1>1, <1>2, <2>3, <3>2, AnnounceEffect DEF RowInv, Finished, Announces
  <2>4. CASE StartStreaming(m)
    <3>1. pc[m] = "awaiting" /\ pc'[m] = "nodeInfo" /\ info' = info /\ info[m].known
      BY <1>1, <2>4 DEF StartStreaming, TakeSlot, InfoInv
    <3>2. QED
      BY <1>1, <1>2, <2>4, <3>1, AnnounceEffect DEF RowInv, Finished, Announces
  <2>5. CASE StartDiscovery(m) \/ AwaitNodeInfo(m) \/ NodeInfoTimesOut(m)
             \/ StreamFiles(m) \/ Record(m)
    <3>1. /\ pc[m] # "ended" /\ pc'[m] # "ended" /\ UNCHANGED <<info, nodeInfo>>
          /\ pc'[m] \in {"queued", "discovering"} => pc[m] \in {"queued", "discovering"}
      BY <1>1, <2>5
      DEF StartDiscovery, TakeSlot, AwaitNodeInfo, NodeInfoTimesOut, StreamFiles, Record
    <3>2. QED
      BY <1>1, <1>2, <2>5, <3>1, AnnounceEffect DEF RowInv, Finished, Announces
  <2>6. CASE NodeInfoGoroutine(m)
    <3>1. UNCHANGED <<pc, info>> /\ nodeInfo[m] = "running"
      BY <2>6 DEF NodeInfoGoroutine, NodeInfoStep, NodeInfoCloses
    <3>2. info[m].known  BY <1>1, <3>1 DEF RowInv
    <3>3. QED
      BY <1>1, <1>2, <2>6, <3>1, <3>2, AnnounceEffect
      DEF RowInv, Finished, Announces, NodeInfoGoroutine
  <2>7. QED  BY <2>1, <2>2, <2>3, <2>4, <2>5, <2>6 DEF NodeStep
<1>7. QED  BY <1>5, <1>6


(* The other steps write the rows of nodes that were discovered, and that   *)
(* no goroutine is working on.                                              *)
LEMMA MainRows ==
  ASSUME IInv, ProgressInv, MainStep \/ OrchestratorStep \/ Returned
  PROVE  \A n \in Nodes : RowInv(n)'
<1>1. /\ con \in ConsoleType /\ pc \in [Nodes -> Locations] /\ info \in [Nodes -> Infos]
      /\ coordinators \in SUBSET Nodes /\ executors \in SUBSET Nodes
      /\ \A n \in Nodes : RowInv(n) /\ InfoInv(n) /\ FirstRoundInv(n)
  BY DEF IInv, TypeOK, ConsoleType, ProgressInv, NodeInv
<1>2. JvmNodes \in SUBSET Nodes /\ \A n \in JvmNodes : info[n].known /\ n \in Attempted
  BY <1>1 DEF JvmNodes, Attempted
<1>3. CASE /\ UNCHANGED <<config, pc, info, nodeInfo>> /\ con'.nodes = con.nodes
           /\ phase' \notin {"topology", "discover"}
           /\ phase \in {"topology", "discover"} =>
                \A n \in Nodes : pc[n] \notin {"queued", "discovering"}
  BY <1>1, <1>3 DEF RowInv, Finished, Attempted, config
<1>4. CASE ResolveTopology
  <2>1. PICK cs \in SUBSET Nodes, es \in SUBSET Nodes :
          /\ coordinators' = cs /\ executors' = es
          /\ con' = UpdateNodeStates(
                      UpdateRuntime(con, Cardinality(cs), Cardinality(es), ExtraTasks),
                      cs \cup es, Status("Queued"))
          /\ pc' = [n \in Nodes |-> IF n \in cs \cup es THEN "queued" ELSE "absent"]
    BY <1>4 DEF ResolveTopology
  <2> DEFINE c == UpdateRuntime(con, Cardinality(cs), Cardinality(es), ExtraTasks)
             S == cs \cup es
  <2>2. Cardinality(cs) \in Nat /\ Cardinality(es) \in Nat /\ ExtraTasks \in Nat
    BY NodesFinite, FS_Subset, FS_CardinalityType DEF ExtraTasks
  <2>3. c \in ConsoleType  BY <1>1, <2>2, PlainUpdateType
  <2>4. c.nodes = con.nodes  BY <1>1 DEF UpdateRuntime, ConsoleType
  <2>5. \A n \in Nodes : /\ pc[n] = "absent" /\ ~info[n].known /\ nodeInfo[n] = "off"
                         /\ ~con.nodes[n].listed /\ ~con.nodes[n].ended
                         /\ ~con.nodes[n].failed
    BY <1>1, <1>4 DEF ResolveTopology, FirstRoundInv, InfoInv, RowInv, Finished
  <2>6. S \in SUBSET Nodes /\ "Queued" \in Stages  BY DEF Stages
  <2> HIDE DEF c, S
  <2>7. /\ \A m \in Nodes \ S : con'.nodes[m] = con.nodes[m]
        /\ \A m \in S : con'.nodes[m].listed /\ ~con'.nodes[m].ended /\ ~con'.nodes[m].failed
    <3> DEFINE d == UpdateNodeStates(c, S, Status("Queued"))
    <3>1. con' = d  BY <2>1 DEF c, S
    <3>2. /\ \A m \in Nodes \ S : d.nodes[m] = c.nodes[m]
          /\ \A m \in S : /\ d.nodes[m].listed /\ ~d.nodes[m].failed
                          /\ d.nodes[m].ended <=> c.nodes[m].listed /\ c.nodes[m].ended
      BY <2>3, <2>6, RowsUpdate
    <3> HIDE DEF d
    <3>3. \A m \in Nodes \ S : con'.nodes[m] = con.nodes[m]
      BY <2>4, <3>1, <3>2
    <3>4. ASSUME NEW m \in S
          PROVE  con'.nodes[m].listed /\ ~con'.nodes[m].ended /\ ~con'.nodes[m].failed
      <4>1. ~c.nodes[m].listed  BY <2>4, <2>5, <2>6
      <4>2. QED  BY <3>1, <3>2, <4>1
    <3>5. QED  BY <3>3, <3>4
  <2>8. Attempted' = S /\ UNCHANGED <<info, nodeInfo>> /\ phase' = "discover"
    BY <1>4, <2>1 DEF Attempted, S, ResolveTopology
  <2>9. \A n \in Nodes : pc'[n] # "ended"  BY <2>1
  <2>10. QED  BY <2>5, <2>6, <2>7, <2>8, <2>9 DEF RowInv, Finished
<1>5. CASE RunJvmTools \/ RunHeapDumps
  <2>1. PICK t \in Stages :
          con' \in {UpdateNodeStates(con, JvmNodes, Status(t)),
                    IncrementTransfersComplete(UpdateNodeStates(con, JvmNodes, Status(t)))}
    BY <1>5 DEF RunJvmTools, RunHeapDumps, Stages
  <2> DEFINE d == UpdateNodeStates(con, JvmNodes, Status(t))
  <2>2. d \in ConsoleType
    <3>1. Status(t) \in UpdateType  BY MessageType
    <3>2. QED  BY <1>1, <1>2, <3>1, NodeUpdatesType
  <2>3. con'.nodes = d.nodes  BY <2>1, <2>2, CountUpdate
  <2>4. /\ \A m \in Nodes \ JvmNodes : d.nodes[m] = con.nodes[m]
        /\ \A m \in JvmNodes : /\ d.nodes[m].listed /\ ~d.nodes[m].failed
                               /\ d.nodes[m].ended <=> con.nodes[m].listed /\ con.nodes[m].ended
    BY <1>1, <1>2, RowsUpdate
  <2> HIDE DEF d
  <2>5. UNCHANGED <<config, pc, info, nodeInfo>>
        /\ phase \notin {"topology", "discover"} /\ phase' \notin {"topology", "discover"}
    BY <1>5 DEF RunJvmTools, RunHeapDumps
  <2>6. \A n \in Nodes : RowInv(n)
    BY <1>1
  <2>7. QED  BY <1>2, <2>3, <2>4, <2>5, <2>6 DEF RowInv, Finished, Attempted, config
<1>6. CASE Launch
  <2>1. /\ UNCHANGED <<config, info, nodeInfo, con>> /\ phase = "launch" /\ phase' = "stream"
        /\ \A n \in Nodes : pc'[n] = IF n \in Launched THEN "awaiting" ELSE pc[n]
    BY <1>6 DEF Launch
  <2>2. \A n \in Nodes : n \in Launched => pc[n] # "ended" /\ info[n].known
    BY <1>1, <2>1 DEF Launched, FirstRoundInv, FirstRound
  <2>3. QED  BY <1>1, <2>1, <2>2 DEF RowInv, Finished, Attempted, config
<1>7. CASE NoHosts \/ EndDiscovery
  <2>1. \A n \in Nodes : pc[n] \notin {"queued", "discovering"}
    BY <1>1, <1>7 DEF NoHosts, EndDiscovery, FirstRoundInv, InfoInv
  <2>2. QED  BY <1>3, <1>7, <2>1 DEF NoHosts, EndDiscovery
<1>8. CASE EndStream \/ NothingCollected \/ ArchiveFails
  BY <1>3, <1>8 DEF EndStream, NothingCollected, ArchiveFails
<1>9. CASE CollectProfiles \/ BuildSummary \/ Archive
  <2>1. con'.nodes = con.nodes
    BY <1>1, <1>9, CountUpdate
    DEF CollectProfiles, BuildSummary, Archive, UpdateResult, UpdateTarballDir, ConsoleType
  <2>2. QED  BY <1>3, <1>9, <2>1 DEF CollectProfiles, BuildSummary, Archive
<1>10. CASE OrchestratorStep \/ Returned
  <2>1. con'.nodes = con.nodes /\ UNCHANGED <<config, phase, pc, info, nodeInfo>>
    BY <1>1, <1>10, CountUpdate
    DEF OrchestratorStep, OrchestratorTask, OrchestratorEnds, Returned, vars
  <2>2. QED  BY <1>1, <2>1 DEF RowInv, Finished, Attempted, config
<1>11. QED  BY <1>4, <1>5, <1>6, <1>7, <1>8, <1>9, <1>10 DEF MainStep

LEMMA PhaseStep ==
  ASSUME IInv, ProgressInv, [Next]_vars
  PROVE  PhaseInv'
<1>1. PhaseInv /\ phase \in Phases /\ NodeInv /\ SummaryInv
      /\ \A n \in Nodes : RowInv(n)
  BY DEF ProgressInv, IInv, TypeOK
<1>2. CASE ResolveTopology \/ NoHosts
  BY <1>1, <1>2 DEF ResolveTopology, NoHosts, PhaseInv, Attempted, config
<1>3. CASE EndDiscovery \/ RunJvmTools \/ RunHeapDumps \/ Launch
  BY <1>1, <1>3
  DEF EndDiscovery, RunJvmTools, RunHeapDumps, Launch, PhaseInv, Attempted, JvmNodes, config
<1>4. CASE EndStream \/ CollectProfiles \/ BuildSummary \/ NothingCollected \/ Archive
           \/ ArchiveFails
  BY <1>1, <1>4
  DEF EndStream, CollectProfiles, BuildSummary, NothingCollected, Archive, ArchiveFails,
      PhaseInv, Attempted, config
<1>5. CASE OrchestratorStep \/ Returned \/ UNCHANGED vars
  BY <1>1, <1>5
  DEF OrchestratorStep, OrchestratorTask, OrchestratorEnds, Returned, vars, PhaseInv,
      Attempted, JvmNodes, config
<1>6. ASSUME NEW m \in Nodes, NodeStep(m) \/ NodeInfoGoroutine(m)
      PROVE  PhaseInv'
  <2>1. UNCHANGED <<config, phase, orchestrator>>
    BY <1>6
    DEF NodeStep, NodeInfoGoroutine, StartDiscovery, DiscoveryFails,
     DiscoverySucceeds, StartStreaming, AwaitNodeInfo, NodeInfoTimesOut, StreamFiles,
     Record, Finish, NodeInfoStep, NodeInfoCloses, config
  <2>2. phase \in {"jvm", "heap"} => info' = info
    BY <1>1, <1>6
    DEF NodeStep, NodeInfoGoroutine, StartDiscovery, DiscoveryFails,
     DiscoverySucceeds, StartStreaming, AwaitNodeInfo, NodeInfoTimesOut, StreamFiles,
     Record, Finish, NodeInfoStep, NodeInfoCloses, RowInv
  <2>3. QED  BY <1>1, <2>1, <2>2 DEF PhaseInv, Attempted, JvmNodes, config
<1>7. QED  BY <1>2, <1>3, <1>4, <1>5, <1>6 DEF Next, MainStep


-----------------------------------------------------------------------------
LEMMA Finite ==
  ASSUME IInv
  PROVE  /\ IsFiniteSet(Finished) /\ Cardinality(Finished) \in Nat
         /\ IsFiniteSet(Attempted) /\ Cardinality(Attempted) \in Nat
         /\ Attempted \in SUBSET Nodes /\ Finished \in SUBSET Attempted
         /\ ExtraTasks \in Nat
         /\ con.complete \in Nat /\ con.total \in Nat
<1>1. Attempted \in SUBSET Nodes /\ Finished \in SUBSET Nodes
  BY DEF IInv, TypeOK, Attempted, Finished
<1>2. Finished \in SUBSET Attempted  BY DEF IInv, NodeInv, InfoInv, Finished
<1>3. con.complete \in Nat /\ con.total \in Nat  BY DEF IInv, TypeOK
<1>4. ExtraTasks \in Nat  BY DEF ExtraTasks
<1>5. QED
  BY <1>1, <1>2, <1>3, <1>4, NodesFinite, FS_Subset, FS_CardinalityType

(* The steps of a node's goroutines count exactly the nodes that finish.    *)
LEMMA NodeCount ==
  ASSUME IInv, ProgressInv, NEW m \in Nodes, NodeStep(m) \/ NodeInfoGoroutine(m)
  PROVE  CountInv'
<1>1. /\ pc \in [Nodes -> Locations] /\ info \in [Nodes -> Infos]
      /\ \A n \in Nodes : RowInv(n) /\ InfoInv(n)
      /\ CountInv
  BY DEF IInv, TypeOK, ProgressInv, NodeInv
<1>2. UNCHANGED <<config, phase, orchestrator>>
  BY DEF NodeStep, NodeInfoGoroutine, StartDiscovery, DiscoveryFails,
     DiscoverySucceeds, StartStreaming, AwaitNodeInfo, NodeInfoTimesOut, StreamFiles,
     Record, Finish, NodeInfoStep, NodeInfoCloses, config
<1>3. phase \in BeforeJvm \/ info' = info
  BY <1>1
  DEF NodeStep, NodeInfoGoroutine, StartDiscovery, DiscoveryFails,
      DiscoverySucceeds, StartStreaming, AwaitNodeInfo, NodeInfoTimesOut, StreamFiles,
      Record, Finish, NodeInfoStep, NodeInfoCloses, RowInv, BeforeJvm
<1>4. /\ Attempted' = Attempted /\ ExtraTasks' = ExtraTasks
      /\ ClusterTaskDone' = ClusterTaskDone /\ JvmTasksDone' = JvmTasksDone
  BY <1>2, <1>3
  DEF Attempted, ExtraTasks, ClusterTaskDone, JvmTasksDone, JvmNodes, config
<1>5. CASE Finish(m)
  <2>1. Finished' = Finished \cup {m} /\ m \notin Finished
    BY <1>1, <1>5 DEF Finish, Finished, InfoInv
  <2>2. Cardinality(Finished') = Cardinality(Finished) + 1
    BY <2>1, Finite, FS_AddElement
  <2>3. m \in Attempted  BY <1>1, <1>5 DEF Finish, InfoInv
  <2>4. con'.total = con.total /\ con'.complete = con.complete + 1
    BY <1>5, FinishEffect
  <2>5. JvmTasksDone \in Nat /\ ClusterTaskDone \in Nat
    BY DEF JvmTasksDone, ClusterTaskDone, ExtraTasks, One
  <2>6. QED  BY <1>1, <1>4, <2>2, <2>3, <2>4, <2>5, Finite DEF CountInv
<1>6. CASE ~Finish(m)
  <2>1. Finished' = Finished
    <3>1. CASE DiscoverySucceeds(m)
      <4>1. /\ pc[m] = "discovering" /\ pc'[m] = "discovered"
            /\ \A n \in Nodes \ {m} : pc'[n] = pc[n] /\ info'[n] = info[n]
        BY <1>1, <3>1 DEF DiscoverySucceeds
      <4>2. QED  BY <4>1 DEF Finished
    <3>2. CASE DiscoveryFails(m)
      <4>1. /\ ~info[m].known /\ info' = info
            /\ \A n \in Nodes \ {m} : pc'[n] = pc[n]
        BY <1>1, <3>2 DEF DiscoveryFails, InfoInv
      <4>2. QED  BY <4>1 DEF Finished
    <3>3. CASE ~DiscoverySucceeds(m) /\ ~DiscoveryFails(m)
      <4>1. /\ info' = info /\ \A n \in Nodes \ {m} : pc'[n] = pc[n]
            /\ pc'[m] = "ended" <=> pc[m] = "ended"
        BY <1>1, <1>6, <3>3
        DEF NodeStep, NodeInfoGoroutine, StartDiscovery, StartStreaming, TakeSlot,
            AwaitNodeInfo, NodeInfoTimesOut, StreamFiles, Record, NodeInfoStep,
            NodeInfoCloses
      <4>2. QED  BY <4>1 DEF Finished
    <3>4. QED  BY <3>1, <3>2, <3>3
  <2>2. con'.total = con.total /\ con'.complete = con.complete
    BY <1>6, AnnounceEffect, DiscoveryFailsEffect
    DEF NodeStep, NodeInfoGoroutine, Announces
  <2>3. QED  BY <1>1, <1>4, <2>1, <2>2 DEF CountInv
<1>7. QED  BY <1>5, <1>6

LEMMA DoneTypes ==
  /\ JvmTasksDone \in Nat /\ ClusterTaskDone \in Nat
  /\ JvmTasksDone' \in Nat /\ ClusterTaskDone' \in Nat
  /\ \A b : One(b) \in Nat
BY DEF JvmTasksDone, ClusterTaskDone, ExtraTasks, One

(* A phase that does k more tasks and adds k to the progress.               *)
LEMMA Counted ==
  ASSUME IInv, CountInv, UNCHANGED <<config, pc, info>>,
         NEW j \in Nat, NEW k \in Nat, j + k = 0 \/ Attempted # {},
         con'.total = con.total, con'.complete = con.complete + (j + k),
         JvmTasksDone' = JvmTasksDone + j, ClusterTaskDone' = ClusterTaskDone + k
  PROVE  CountInv'
<1>1. Finished' = Finished /\ Attempted' = Attempted /\ ExtraTasks' = ExtraTasks
  BY DEF Finished, Attempted, ExtraTasks, config
<1>2. CASE Attempted = {}
  BY <1>1, <1>2 DEF CountInv
<1>3. CASE Attempted # {}
  <2> DEFINE f == Cardinality(Finished)
  <2>1. f \in Nat  BY Finite
  <2>2. con.complete = f + JvmTasksDone + ClusterTaskDone  BY <1>3 DEF CountInv
  <2>3. f + (JvmTasksDone + j) + (ClusterTaskDone + k)
          = f + JvmTasksDone + ClusterTaskDone + (j + k)
    BY <2>1, DoneTypes
  <2>4. con'.complete = f + JvmTasksDone' + ClusterTaskDone'  BY <2>2, <2>3
  <2>5. con'.total = Cardinality(Attempted) + 1 + ExtraTasks  BY <1>3 DEF CountInv
  <2>6. QED  BY <1>1, <1>3, <2>4, <2>5 DEF CountInv
<1>4. QED  BY <1>2, <1>3

(* The phases count their own tasks.                                        *)
LEMMA MainCount ==
  ASSUME IInv, ProgressInv, MainStep \/ OrchestratorStep \/ Returned
  PROVE  CountInv'
<1>1. /\ con \in ConsoleType /\ phase \in Phases /\ args \in Requests
      /\ CountInv /\ PhaseInv /\ SummaryInv
      /\ \A n \in Nodes : FirstRoundInv(n) /\ InfoInv(n)
  BY DEF IInv, TypeOK, ConsoleType, ProgressInv, NodeInv
<1>2. /\ Cardinality(Finished) \in Nat /\ Cardinality(Attempted) \in Nat
      /\ con.complete \in Nat /\ con.total \in Nat
  BY Finite
<1>3. CASE /\ UNCHANGED <<config, pc, info>>
           /\ con'.total = con.total /\ con'.complete = con.complete
           /\ JvmTasksDone' = JvmTasksDone /\ ClusterTaskDone' = ClusterTaskDone
  <2>1. /\ con'.complete = con.complete + (0 + 0)
        /\ JvmTasksDone' = JvmTasksDone + 0 /\ ClusterTaskDone' = ClusterTaskDone + 0
    BY <1>2, <1>3, DoneTypes
  <2>2. QED  BY <1>1, <1>3, <2>1, Counted
<1>4. CASE ResolveTopology
  <2>1. PICK cs \in SUBSET Nodes, es \in SUBSET Nodes :
          /\ cs \cap es = {} /\ cs \cup es # {}
          /\ coordinators' = cs /\ executors' = es
          /\ con' = UpdateNodeStates(
                      UpdateRuntime(con, Cardinality(cs), Cardinality(es), ExtraTasks),
                      cs \cup es, Status("Queued"))
          /\ pc' = [n \in Nodes |-> IF n \in cs \cup es THEN "queued" ELSE "absent"]
    BY <1>4 DEF ResolveTopology
  <2> DEFINE c == UpdateRuntime(con, Cardinality(cs), Cardinality(es), ExtraTasks)
             S == cs \cup es
  <2>2. /\ IsFiniteSet(cs) /\ IsFiniteSet(es)
        /\ Cardinality(cs) \in Nat /\ Cardinality(es) \in Nat /\ ExtraTasks \in Nat
    BY NodesFinite, FS_Subset, FS_CardinalityType DEF ExtraTasks
  <2>3. c \in ConsoleType  BY <1>1, <2>2, PlainUpdateType
  <2>4. c.complete = 0 /\ c.total = Cardinality(cs) + Cardinality(es) + 1 + ExtraTasks
    BY <1>1 DEF UpdateRuntime, ConsoleType
  <2>5. Cardinality(S) = Cardinality(cs) + Cardinality(es)
    BY <2>1, <2>2, FS_Union, FS_EmptySet
  <2>6. S \in SUBSET Nodes /\ "Queued" \in Stages  BY DEF Stages
  <2> DEFINE d == UpdateNodeStates(c, S, Status("Queued"))
  <2>7. con' = d  BY <2>1
  <2> HIDE DEF c
  <2>8. d.total = c.total /\ d.complete = c.complete
    BY <2>3, RowsCount
  <2>9. Finished' = {}  BY <2>1 DEF Finished
  <2>10. Attempted' = S /\ S # {} /\ ExtraTasks' = ExtraTasks
         /\ JvmTasksDone' = 0 /\ ClusterTaskDone' = 0
    BY <1>4, <2>1
    DEF ResolveTopology, Attempted, ExtraTasks, JvmTasksDone, ClusterTaskDone,
        BeforeJvm, FirstRound
  <2> HIDE DEF S
  <2>11. QED
    BY <2>2, <2>4, <2>5, <2>7, <2>8, <2>9, <2>10, FS_EmptySet DEF CountInv
<1>5. CASE NoHosts
  <2>1. Attempted = {}
    BY <1>1, <1>5 DEF NoHosts, FirstRoundInv, InfoInv, Attempted, IInv, TypeOK
  <2>2. Attempted' = Attempted /\ con' = con  BY <1>5 DEF NoHosts, Attempted, config
  <2>3. QED  BY <1>1, <2>1, <2>2 DEF CountInv
<1>6. CASE EndDiscovery
  <2>1. JvmTasksDone = 0 /\ ClusterTaskDone = 0 /\ ClusterTaskDone' = 0
    BY <1>6 DEF EndDiscovery, JvmTasksDone, ClusterTaskDone, BeforeJvm, FirstRound
  <2>2. ~args.diagnosis => ExtraTasks = 0
    BY <1>1, RequestsLegal DEF ArgSets, ExtraTasks
  <2>3. JvmTasksDone' = 0
    BY <1>6, <2>2
    DEF EndDiscovery, JvmTasksDone, BeforeJvm, JvmNodes, Attempted, ExtraTasks, config
  <2>4. QED  BY <1>3, <1>6, <2>1, <2>3 DEF EndDiscovery
<1>7. CASE RunJvmTools
  <2> DEFINE d == UpdateNodeStates(con, JvmNodes, Status("JVM tools completed"))
  <2>1. JvmNodes \in SUBSET Nodes  BY DEF JvmNodes, Attempted, IInv, TypeOK
  <2>2. "JVM tools completed" \in Stages  BY DEF Stages
  <2>3. d \in ConsoleType /\ d.total = con.total /\ d.complete = con.complete
    <3>1. Status("JVM tools completed") \in UpdateType  BY <2>2, MessageType
    <3>2. d \in ConsoleType  BY <1>1, <2>1, <3>1, NodeUpdatesType
    <3>3. QED  BY <1>1, <3>2, RowsCount
  <2>4. con' = IF args.jvmTools THEN IncrementTransfersComplete(d) ELSE d
    BY <1>7 DEF RunJvmTools
  <2> HIDE DEF d
  <2>5. /\ con'.total = con.total
        /\ con'.complete = con.complete + One(args.jvmTools)
    BY <1>2, <2>3, <2>4, CountUpdate DEF One
  <2>6. JvmNodes # {} /\ JvmNodes' # {} /\ Attempted # {}
        /\ UNCHANGED <<config, pc, info>>
    BY <1>1, <1>7 DEF RunJvmTools, PhaseInv, JvmNodes, Attempted, config
  <2>7. JvmTasksDone = 0 /\ JvmTasksDone' = One(args.jvmTools)
    <3>1. args' = args /\ phase = "jvm" /\ phase' = IF args.heapDump THEN "heap" ELSE "launch"
      BY <1>7 DEF RunJvmTools, config
    <3>2. ~args.heapDump => ExtraTasks = One(args.jvmTools)  BY DEF ExtraTasks, One
    <3>3. ExtraTasks' = ExtraTasks /\ One(args.jvmTools)' = One(args.jvmTools)
      BY <3>1 DEF ExtraTasks, One
    <3>4. JvmTasksDone = 0  BY <3>1 DEF JvmTasksDone, BeforeJvm
    <3>5. JvmTasksDone' = IF phase' = "heap" THEN One(args.jvmTools) ELSE ExtraTasks
      BY <2>6, <3>1, <3>3 DEF JvmTasksDone, BeforeJvm
    <3>6. QED  BY <3>1, <3>2, <3>4, <3>5
  <2>8. ClusterTaskDone = 0 /\ ClusterTaskDone' = 0
    BY <1>7 DEF RunJvmTools, ClusterTaskDone, FirstRound
  <2>9. QED  BY <1>1, <2>5, <2>6, <2>7, <2>8, DoneTypes, Counted
<1>8. CASE RunHeapDumps
  <2> DEFINE d == UpdateNodeStates(con, JvmNodes, Status("Heap dump complete"))
  <2>1. JvmNodes \in SUBSET Nodes  BY DEF JvmNodes, Attempted, IInv, TypeOK
  <2>2. "Heap dump complete" \in Stages  BY DEF Stages
  <2>3. d \in ConsoleType /\ d.total = con.total /\ d.complete = con.complete
    <3>1. Status("Heap dump complete") \in UpdateType  BY <2>2, MessageType
    <3>2. d \in ConsoleType  BY <1>1, <2>1, <3>1, NodeUpdatesType
    <3>3. QED  BY <1>1, <3>2, RowsCount
  <2>4. con' = IncrementTransfersComplete(d)  BY <1>8 DEF RunHeapDumps
  <2> HIDE DEF d
  <2>5. con'.total = con.total /\ con'.complete = con.complete + 1
    BY <2>3, <2>4, CountUpdate
  <2>6. JvmNodes # {} /\ JvmNodes' = JvmNodes /\ Attempted # {} /\ args.heapDump
        /\ UNCHANGED <<config, pc, info>>
    BY <1>1, <1>8 DEF RunHeapDumps, PhaseInv, JvmNodes, Attempted, config
  <2>7. JvmTasksDone = One(args.jvmTools) /\ JvmTasksDone' = One(args.jvmTools) + 1
    BY <1>8, <2>6
    DEF RunHeapDumps, JvmTasksDone, BeforeJvm, ExtraTasks, One, config
  <2>8. ClusterTaskDone = 0 /\ ClusterTaskDone' = 0
    BY <1>8 DEF RunHeapDumps, ClusterTaskDone, FirstRound
  <2>9. QED
    <3>1. JvmTasksDone' = JvmTasksDone + 1 /\ ClusterTaskDone' = ClusterTaskDone + 0
          /\ con'.complete = con.complete + (1 + 0)
      BY <2>5, <2>7, <2>8
    <3>2. QED  BY <1>1, <2>5, <2>6, <3>1, Counted
<1>9. CASE Launch
  <2>1. Finished' = Finished
    <3>1. \A n \in Nodes : pc[n] = "ended" => ~info[n].known /\ n \notin Launched
      BY <1>1, <1>9 DEF Launch, FirstRoundInv, FirstRound, Launched
    <3>2. QED  BY <1>9, <3>1 DEF Launch, Finished
  <2>2. /\ Attempted' = Attempted /\ ExtraTasks' = ExtraTasks /\ con' = con
        /\ JvmTasksDone' = JvmTasksDone
        /\ ClusterTaskDone = 0 /\ ClusterTaskDone' = 0
    BY <1>9
    DEF Launch, Attempted, ExtraTasks, JvmTasksDone, ClusterTaskDone, JvmNodes,
        BeforeJvm, FirstRound, One, config
  <2>3. QED  BY <1>1, <2>1, <2>2 DEF CountInv
<1>10. CASE OrchestratorStep
  <2>1. phase = "stream"
    BY <1>1, <1>10
    DEF OrchestratorStep, OrchestratorTask, OrchestratorEnds, SummaryInv, Settled,
        FirstRound, Phases
  <2>2. UNCHANGED <<config, pc, info, phase>> /\ JvmTasksDone' = JvmTasksDone
        /\ Attempted # {}
    BY <1>1, <1>10, <2>1
    DEF OrchestratorStep, OrchestratorTask, OrchestratorEnds, JvmTasksDone, JvmNodes,
        Attempted, ExtraTasks, PhaseInv, config
  <2>3. CASE OrchestratorEnds
    <3>1. /\ con'.total = con.total
          /\ con'.complete = con.complete + One(~args.profiles)
      BY <1>1, <1>2, <2>3, CountUpdate DEF OrchestratorEnds, OrchestratorCounts, One
    <3>2. ClusterTaskDone = 0 /\ ClusterTaskDone' = One(~args.profiles)
      BY <2>1, <2>2, <2>3
      DEF OrchestratorEnds, ClusterTaskDone, FirstRound, One, config
    <3> DEFINE k == One(~args.profiles)
    <3> HIDE DEF k
    <3>3. k \in Nat  BY DoneTypes DEF k
    <3>4. con'.complete = con.complete + (0 + k) /\ ClusterTaskDone' = ClusterTaskDone + k
          /\ JvmTasksDone' = JvmTasksDone + 0
      BY <2>2, <3>1, <3>2, <3>3, DoneTypes DEF k
    <3>5. QED  BY <1>1, <2>2, <3>1, <3>3, <3>4, Counted
  <2>4. CASE \E t \in {"kubernetes", "api"} : OrchestratorTask(t)
    <3>1. con' = con /\ orchestrator # {} /\ orchestrator' # {}
      BY <1>1, <2>4 DEF OrchestratorTask, PhaseInv
    <3>2. ClusterTaskDone' = ClusterTaskDone
      BY <2>1, <2>2, <3>1 DEF ClusterTaskDone, FirstRound, One, config
    <3>3. QED  BY <1>3, <2>2, <3>1, <3>2
  <2>5. QED  BY <1>10, <2>3, <2>4 DEF OrchestratorStep
<1>11. CASE CollectProfiles
  <2>1. Settled /\ Attempted # {}
    BY <1>1, <1>11 DEF CollectProfiles, SummaryInv, PhaseInv
  <2>2. UNCHANGED <<config, pc, info, orchestrator>> /\ JvmTasksDone' = JvmTasksDone
    BY <1>11
    DEF CollectProfiles, JvmTasksDone, JvmNodes, Attempted, ExtraTasks, BeforeJvm, config
  <2>3. /\ con'.total = con.total
        /\ con'.complete = con.complete + One(args.profiles /\ coordinators # {})
    BY <1>1, <1>2, <1>11, CountUpdate DEF CollectProfiles, One
  <2>4. ClusterTaskDone' = ClusterTaskDone + One(args.profiles /\ coordinators # {})
    BY <1>11, <2>2 DEF CollectProfiles, ClusterTaskDone, FirstRound, One, config
  <2> DEFINE k == One(args.profiles /\ coordinators # {})
  <2>5. k \in Nat  BY DoneTypes
  <2>6. con'.complete = con.complete + (0 + k) /\ ClusterTaskDone' = ClusterTaskDone + k
        /\ JvmTasksDone' = JvmTasksDone + 0
    <3> HIDE DEF k
    <3>1. con'.complete = con.complete + k /\ ClusterTaskDone' = ClusterTaskDone + k
      BY <2>3, <2>4 DEF k
    <3>2. QED  BY <2>2, <2>5, <3>1, DoneTypes
  <2> HIDE DEF k
  <2>7. QED  BY <1>1, <2>1, <2>2, <2>3, <2>5, <2>6, Counted
<1>12. CASE EndStream \/ BuildSummary \/ NothingCollected \/ Archive \/ ArchiveFails
            \/ Returned
  <2>1. con'.total = con.total /\ con'.complete = con.complete
    BY <1>1, <1>12
    DEF EndStream, BuildSummary, NothingCollected, Archive, ArchiveFails, Returned,
        vars, UpdateResult, UpdateTarballDir, ConsoleType
  <2>2. /\ UNCHANGED <<config, pc, info, orchestrator>>
        /\ phase' # phase => phase \in {"stream", "report", "archive"}
        /\ phase = "stream" => phase' \in {"stream", "profiles"}
        /\ phase \in {"report", "archive"} =>
             phase' \in {"report", "archive", "ok", "error"}
    BY <1>12
    DEF EndStream, BuildSummary, NothingCollected, Archive, ArchiveFails, Returned, vars
  <2>3. JvmTasksDone' = JvmTasksDone
    BY <2>2 DEF JvmTasksDone, JvmNodes, Attempted, ExtraTasks, BeforeJvm, config
  <2>4. ClusterTaskDone' = ClusterTaskDone
    BY <2>2 DEF ClusterTaskDone, FirstRound, One, config
  <2>5. QED  BY <1>3, <2>1, <2>2, <2>3, <2>4
<1>13. QED
  BY <1>4, <1>5, <1>6, <1>7, <1>8, <1>9, <1>10, <1>11, <1>12 DEF MainStep


-----------------------------------------------------------------------------
LEMMA InitProgress == Init => ProgressInv
<1> SUFFICES ASSUME Init PROVE ProgressInv  OBVIOUS
<1>1. /\ phase = "topology" /\ orchestrator = {} /\ coordinators = {} /\ executors = {}
      /\ \A n \in Nodes : pc[n] = "absent" /\ ~info[n].known /\ nodeInfo[n] = "off"
      /\ con.total = 0 /\ con.complete = 0
      /\ \A n \in Nodes : con.nodes[n] = Unlisted
  BY DEF Init, NoInfo, Blank
<1>2. PhaseInv  BY <1>1 DEF PhaseInv
<1>3. ~Unlisted.listed /\ ~Unlisted.ended /\ ~Unlisted.failed  BY DEF Unlisted
<1>4. \A n \in Nodes : RowInv(n)
  <2>1. Attempted = {}  BY <1>1 DEF Attempted
  <2>2. Finished = {}  BY <1>1 DEF Finished
  <2>3. QED  BY <1>1, <1>3, <2>1, <2>2 DEF RowInv
<1>5. CountInv  BY <1>1 DEF CountInv, Attempted
<1>6. QED  BY <1>2, <1>4, <1>5 DEF ProgressInv

LEMMA NextProgress == IInv /\ ProgressInv /\ [Next]_vars => ProgressInv'
<1> SUFFICES ASSUME IInv, ProgressInv, [Next]_vars PROVE ProgressInv'
  OBVIOUS
<1>1. PhaseInv'  BY PhaseStep
<1>2. CASE UNCHANGED vars
  BY <1>1, <1>2
  DEF vars, config, ProgressInv, RowInv, CountInv, Finished, Attempted, ExtraTasks,
      JvmTasksDone, JvmNodes, ClusterTaskDone, One
<1>3. CASE \E n \in Nodes : NodeStep(n) \/ NodeInfoGoroutine(n)
  BY <1>1, <1>3, NodeRows, NodeCount DEF ProgressInv
<1>4. CASE MainStep \/ OrchestratorStep \/ Returned
  BY <1>1, <1>4, MainRows, MainCount DEF ProgressInv
<1>5. QED  BY <1>2, <1>3, <1>4 DEF Next

(* The rows and the tasks counted agree with the goroutines in every        *)
(* reachable state.                                                         *)
THEOREM SpecProgress == Spec => []ProgressInv
<1>1. Init => IInv /\ ProgressInv  BY InitIInv, InitProgress
<1>2. IInv /\ ProgressInv /\ [Next]_vars => (IInv /\ ProgressInv)'
  BY NextIInv, NextProgress
<1>3. QED  BY <1>1, <1>2, PTL DEF Spec

(* For every cluster and every request the progress bar stays within its    *)
(* total: no task is counted twice, by whichever goroutine.                 *)
THEOREM NeverPastTotal == Spec => []ProgressWithinTotal
<1>1. ASSUME IInv, ProgressInv PROVE ProgressWithinTotal
  <2>1. CountInv /\ con.total \in Nat /\ con.complete \in Nat
    BY <1>1, Finite DEF ProgressInv
  <2>2. CASE Attempted = {}
    BY <2>1, <2>2 DEF CountInv, ProgressWithinTotal
  <2>3. CASE Attempted # {}
    <3> DEFINE f == Cardinality(Finished)
               a == Cardinality(Attempted)
    <3>1. f \in Nat /\ a \in Nat /\ f <= a  BY <1>1, Finite, FS_Subset
    <3>2. JvmTasksDone \in Nat /\ ExtraTasks \in Nat /\ JvmTasksDone <= ExtraTasks
      BY DEF JvmTasksDone, ExtraTasks, One
    <3>3. ClusterTaskDone \in Nat /\ ClusterTaskDone <= 1
      BY DEF ClusterTaskDone, One
    <3>4. con.total = a + 1 + ExtraTasks /\ con.complete = f + JvmTasksDone + ClusterTaskDone
      BY <2>1, <2>3 DEF CountInv
    <3> HIDE DEF f, a
    <3>5. QED  BY <3>1, <3>2, <3>3, <3>4 DEF ProgressWithinTotal
  <2>4. QED  BY <2>2, <2>3
<1>2. QED  BY <1>1, SpecIInv, SpecProgress, PTL

(* What the bar misses when the archive is made is what nobody did.         *)
THEOREM MissingTasksExplained == Spec => []ProgressAccounted
<1>1. ASSUME IInv, ProgressInv PROVE ProgressAccounted
  <2> SUFFICES ASSUME phase = "ok"
               PROVE  con.total = con.complete + MissingNodes + MissingExtras + MissingProfiles
    BY DEF ProgressAccounted
  <2> DEFINE f == Cardinality(Finished)
             a == Cardinality(Attempted)
  <2>1. CountInv /\ Settled /\ Attempted # {} /\ NodeInv
    BY <1>1 DEF ProgressInv, PhaseInv, IInv, SummaryInv
  <2>2. MissingNodes = a - f /\ f \in Nat /\ a \in Nat
    <3>1. {n \in Attempted : ~info[n].known} = Attempted \ Finished
      BY <1>1, <2>1, Finite DEF Settled, NodeInv, InfoInv, Finished
    <3>2. Attempted \cap Finished = Finished  BY <1>1, Finite
    <3>3. QED  BY <1>1, <3>1, <3>2, Finite, FS_Difference DEF MissingNodes
  <2>3. ExtraTasks = JvmTasksDone + MissingExtras
    BY DEF JvmTasksDone, MissingExtras, BeforeJvm, ExtraTasks
  <2>4. 1 = ClusterTaskDone + MissingProfiles
    BY <2>1 DEF ClusterTaskDone, MissingProfiles, FirstRound, Settled, One
  <2>5. con.total = a + 1 + ExtraTasks /\ con.complete = f + JvmTasksDone + ClusterTaskDone
    BY <2>1 DEF CountInv
  <2>6. /\ JvmTasksDone \in Nat /\ MissingExtras \in Nat /\ ClusterTaskDone \in Nat
        /\ MissingProfiles \in Nat
    BY DEF JvmTasksDone, MissingExtras, ClusterTaskDone, MissingProfiles, ExtraTasks, One
  <2> HIDE DEF f, a
  <2>7. QED  BY <2>2, <2>3, <2>4, <2>5, <2>6
<1>2. QED  BY <1>1, SpecIInv, SpecProgress, PTL

(* The nodes PrintState shows as failed are those whose discovery failed,   *)
(* whichever goroutine wrote their rows last.                               *)
THEOREM FailedRowsTrue == Spec => []DiscoveryFailuresShown
<1>1. ProgressInv => DiscoveryFailuresShown
  BY DEF ProgressInv, RowInv, DiscoveryFailuresShown
<1>2. QED  BY <1>1, SpecProgress, PTL
=============================================================================
