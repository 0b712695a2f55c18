-------------------------- MODULE StreamingCollect --------------------------
(***************************************************************************)
(* ExecuteStreamingCollect: the topology, the discovery round, the JVM     *)
(* phases of diagnosis mode, the streaming round with its node-info        *)
(* goroutines, the orchestrator that collects cluster data beside it, the  *)
(* problematic profiles, the summary and the archive.                      *)
(*                                                                         *)
(* Goroutines interleave at their accesses to shared state: the semaphore, *)
(* the variables under mu and the console.  The counters shown for the     *)
(* semaphore are the subject of ThreadStatus; what happens inside the      *)
(* JVM tools and inside the transfer of one file is here an outcome.       *)
(***************************************************************************)
EXTENDS Console, Sequences, SequencesExt

CONSTANTS Nodes,     \* the hosts a cluster may have
          Threads,   \* collectionThreads
          Requests   \* the collection.Args considered

(* Only diagnosis mode enables JVM tools, heap dumps and profiles.          *)
ArgSets ==
  {a \in [diagnosis : BOOLEAN, jvmTools : BOOLEAN, heapDump : BOOLEAN,
          profiles : BOOLEAN] :
     a.jvmTools \/ a.heapDump \/ a.profiles => a.diagnosis}

ASSUME RequestsLegal == Requests \subseteq ArgSets
ASSUME NodesFinite == IsFiniteSet(Nodes)
ASSUME ThreadsPositive == Threads \in Nat \ {0}

VARIABLES
  args,          \* what collection.Args asks for
  phase,         \* where the main goroutine is
  coordinators,
  executors,
  pc,            \* where each node's goroutine is
  slots,         \* the nodes whose goroutine holds a token of sem
  info,          \* nodeInfoByHost
  nodeInfo,      \* where each node's node-info goroutine is
  got,           \* whether the node's nodeCollected has a file
  jvmFiles,      \* the nodes jvmFilesByHost has files for
  failed,        \* totalFailedNodes
  collected,     \* the nodes with a file in collectedFiles
  orchestrator,  \* what the orchestrator goroutine still waits for
  summary,       \* NumberNodesContacted of the summary, once it is built
  con            \* the console

config == <<args, coordinators, executors>>
results == <<got, failed, collected>>
vars == <<config, phase, pc, slots, info, nodeInfo, results, jvmFiles,
          orchestrator, summary, con>>

Phases == {"topology", "discover", "jvm", "heap", "launch", "stream",
           "profiles", "report", "archive", "ok", "error"}
Locations == {"absent", "queued", "discovering", "discovered", "awaiting",
              "nodeInfo", "files", "record", "finish", "ended"}
InfoSteps == {"off", "running", "closed"}
NoInfo == [known |-> FALSE, files |-> FALSE, pid |-> FALSE]
Infos == {NoInfo} \cup [known : {TRUE}, files : BOOLEAN, pid : BOOLEAN]
Stages == {"Queued", "Discovering files", "Discovery failed",
           "Discovery complete", "JVM tools completed",
           "Heap dump complete", "Collecting node info", "Streaming", "Done"}
Unbuilt == Cardinality(Nodes) + 1   \* no summary yet

Attempted == coordinators \cup executors

\* Mutant: runJVMCollection takes every node, with or without a PID.
JvmAllNodes == Attempted
JvmNodes == {n \in Attempted : info[n].known /\ info[n].pid}

ExtraTasks == (IF args.jvmTools THEN 1 ELSE 0) + (IF args.heapDump THEN 1 ELSE 0)

Init ==
  /\ args \in Requests
  /\ phase = "topology"
  /\ coordinators = {}
  /\ executors = {}
  /\ pc = [n \in Nodes |-> "absent"]
  /\ slots = {}
  /\ info = [n \in Nodes |-> NoInfo]
  /\ nodeInfo = [n \in Nodes |-> "off"]
  /\ got = [n \in Nodes |-> FALSE]
  /\ jvmFiles = {}
  /\ failed = <<>>
  /\ collected = {}
  /\ orchestrator = {}
  /\ summary = Unbuilt
  /\ con = Blank(Nodes)

-----------------------------------------------------------------------------
(***************************************************************************)
(* Topology: the nodes, the console's totals and rows, the discovery       *)
(* goroutines.  GetCoordinators or GetExecutors may fail, and the filters  *)
(* may leave no node.                                                      *)
(***************************************************************************)
ResolveTopology ==
  /\ phase = "topology"
  /\ phase' = "discover"
  /\ \E cs, es \in SUBSET Nodes :
       /\ cs \cap es = {}
       /\ cs \cup es # {}
       /\ coordinators' = cs
       /\ executors' = es
       /\ con' = UpdateNodeStates(
                   UpdateRuntime(con, Cardinality(cs), Cardinality(es), ExtraTasks),
                   cs \cup es, Status("Queued"))
       /\ pc' = [n \in Nodes |-> IF n \in cs \cup es THEN "queued" ELSE "absent"]
  /\ UNCHANGED <<args, slots, info, nodeInfo, results, jvmFiles, orchestrator, summary>>

NoHosts ==
  /\ phase = "topology"
  /\ phase' = "error"
  /\ UNCHANGED <<config, pc, slots, info, nodeInfo, results, jvmFiles,
                 orchestrator, summary, con>>

-----------------------------------------------------------------------------
(***************************************************************************)
(* discoverNode: take a slot, run DiscoverFiles, give the slot back.       *)
(***************************************************************************)
\* Mutant: a goroutine does not wait for room in sem.
NoLimit == TRUE
HasRoom == Cardinality(slots) < Threads

TakeSlot(n, from, to) ==
  /\ pc[n] = from
  /\ HasRoom
  /\ slots' = slots \cup {n}
  /\ pc' = [pc EXCEPT ![n] = to]

StartDiscovery(n) ==
  /\ TakeSlot(n, "queued", "discovering")
  /\ con' = UpdateNodeState(con, n, Status("Discovering files"))
  /\ UNCHANGED <<config, phase, info, nodeInfo, results, jvmFiles,
                 orchestrator, summary>>

DiscoveryFails(n) ==
  /\ pc[n] = "discovering"
  /\ failed' = Append(failed, n)
  /\ con' = UpdateNodeState(con, n, Failure("Discovery failed"))
  /\ pc' = [pc EXCEPT ![n] = "ended"]
  /\ slots' = slots \ {n}
  /\ UNCHANGED <<config, phase, info, nodeInfo, got, collected, jvmFiles,
                 orchestrator, summary>>

DiscoverySucceeds(n) ==
  /\ pc[n] = "discovering"
  /\ \E i \in Infos \ {NoInfo} : info' = [info EXCEPT ![n] = i]
  /\ con' = UpdateNodeState(con, n, Status("Discovery complete"))
  /\ pc' = [pc EXCEPT ![n] = "discovered"]
  /\ slots' = slots \ {n}
  /\ UNCHANGED <<config, phase, nodeInfo, results, jvmFiles, orchestrator, summary>>

-----------------------------------------------------------------------------
(***************************************************************************)
(* Between the rounds: wg.Wait, then the JVM phases of diagnosis mode      *)
(* (runJVMCollection; its own goroutines have all ended when it returns).  *)
(***************************************************************************)
EndDiscovery ==
  /\ phase = "discover"
  /\ \A n \in Attempted : pc[n] \in {"discovered", "ended"}
  /\ phase' = IF args.diagnosis /\ JvmNodes # {} THEN "jvm" ELSE "launch"
  /\ UNCHANGED <<config, pc, slots, info, nodeInfo, results, jvmFiles,
                 orchestrator, summary, con>>

RunJvmTools ==
  /\ phase = "jvm"
  /\ \E S \in SUBSET (IF args.jvmTools THEN JvmNodes ELSE {}) : jvmFiles' = S
  /\ LET c == UpdateNodeStates(con, JvmNodes, Status("JVM tools completed"))
     IN con' = IF args.jvmTools THEN IncrementTransfersComplete(c) ELSE c
  /\ phase' = IF args.heapDump THEN "heap" ELSE "launch"
  /\ UNCHANGED <<config, pc, slots, info, nodeInfo, results, orchestrator, summary>>

RunHeapDumps ==
  /\ phase = "heap"
  /\ \E S \in SUBSET JvmNodes : jvmFiles' = jvmFiles \cup S
  /\ con' = IncrementTransfersComplete(
              UpdateNodeStates(con, JvmNodes, Status("Heap dump complete")))
  /\ phase' = "launch"
  /\ UNCHANGED <<config, pc, slots, info, nodeInfo, results, orchestrator, summary>>

-----------------------------------------------------------------------------
(***************************************************************************)
(* The streaming round: one goroutine per node whose discovery succeeded,  *)
(* and the orchestrator beside them.                                       *)
(***************************************************************************)
Launched == {n \in Attempted : info[n].known}

Launch ==
  /\ phase = "launch"
  /\ phase' = "stream"
  /\ pc' = [n \in Nodes |-> IF n \in Launched THEN "awaiting" ELSE pc[n]]
  /\ orchestrator' = {"kubernetes", "api", "wait"}
  /\ UNCHANGED <<config, slots, info, nodeInfo, results, jvmFiles, summary, con>>

StartStreaming(n) ==
  /\ TakeSlot(n, "awaiting", "nodeInfo")
  /\ nodeInfo' = [nodeInfo EXCEPT ![n] = "running"]
  /\ UNCHANGED <<config, phase, info, results, jvmFiles, orchestrator, summary, con>>

(* The node-info goroutine posts a status before each of its two to four    *)
(* remote commands, any of which may never return.  It may outlive the      *)
(* goroutine that started it.                                               *)
NodeInfoStep(n) ==
  /\ nodeInfo[n] = "running"
  /\ con' = UpdateNodeState(con, n, Status("Collecting node info"))
  /\ UNCHANGED <<config, phase, pc, slots, info, nodeInfo, results, jvmFiles,
                 orchestrator, summary>>

\* The last command has returned, or CreatePath failed at once.
NodeInfoCloses(n) ==
  /\ nodeInfo[n] = "running"
  /\ nodeInfo' = [nodeInfo EXCEPT ![n] = "closed"]
  /\ UNCHANGED <<config, phase, pc, slots, info, results, jvmFiles,
                 orchestrator, summary, con>>

AwaitNodeInfo(n) ==
  /\ pc[n] = "nodeInfo"
  /\ nodeInfo[n] = "closed"
  /\ pc' = [pc EXCEPT ![n] = "files"]
  /\ UNCHANGED <<config, phase, slots, info, nodeInfo, results, jvmFiles,
                 orchestrator, summary, con>>

\* Mutant: the select has no timeout.
NodeInfoNeverTimesOut(n) ==
  /\ FALSE
  /\ UNCHANGED vars

NodeInfoTimesOut(n) ==
  /\ pc[n] = "nodeInfo"
  /\ nodeInfo[n] # "closed"
  /\ pc' = [pc EXCEPT ![n] = "files"]
  /\ UNCHANGED <<config, phase, slots, info, nodeInfo, results, jvmFiles,
                 orchestrator, summary, con>>

\* streamNodeFiles, which shows its progress and collects any number of the
\* discovered files, then, on a coordinator, RunRocksDBCollection, whose
\* files count only if it succeeds.
StreamFiles(n) ==
  /\ pc[n] = "files"
  /\ \E some \in IF info[n].files \/ n \in coordinators THEN BOOLEAN ELSE {FALSE} :
       got' = [got EXCEPT ![n] = some]
  /\ con' \in {con} \cup
       (IF info[n].files THEN {UpdateNodeState(con, n, Status("Streaming"))} ELSE {})
  /\ pc' = [pc EXCEPT ![n] = "record"]
  /\ UNCHANGED <<config, phase, slots, info, nodeInfo, failed, collected,
                 jvmFiles, orchestrator, summary>>

Gathered(n) == got[n] \/ n \in jvmFiles

\* Mutant: the log files alone decide whether the node failed.
FailedByLogs(n) == ~got[n] /\ info[n].files
StreamFailed(n) == ~Gathered(n) /\ info[n].files

Record(n) ==
  /\ pc[n] = "record"
  /\ collected' = IF Gathered(n) THEN collected \cup {n} ELSE collected
  /\ failed' = IF StreamFailed(n) THEN Append(failed, n) ELSE failed
  /\ pc' = [pc EXCEPT ![n] = "finish"]
  /\ UNCHANGED <<config, phase, slots, info, nodeInfo, got, jvmFiles,
                 orchestrator, summary, con>>

\* Mutant: the final status does not end the node's process.
FinalUnended == Status("Done")
FinalStatus == Ended("Done")

Finish(n) ==
  /\ pc[n] = "finish"
  /\ con' = UpdateNodeState(con, n, FinalStatus)
  /\ slots' = slots \ {n}
  /\ pc' = [pc EXCEPT ![n] = "ended"]
  /\ got' = [got EXCEPT ![n] = FALSE]
  /\ UNCHANGED <<config, phase, info, nodeInfo, failed, collected, jvmFiles,
                 orchestrator, summary>>

OrchestratorTask(t) ==
  /\ t \in orchestrator \ {"wait"}
  /\ orchestrator' = orchestrator \ {t}
  /\ UNCHANGED <<config, phase, pc, slots, info, nodeInfo, results, jvmFiles,
                 summary, con>>

\* Mutant: the orchestrator counts its task even if the profiles will.
CountAlways == TRUE
OrchestratorCounts == ~args.profiles

OrchestratorEnds ==
  /\ orchestrator = {"wait"}
  /\ orchestrator' = {}
  /\ con' = IF OrchestratorCounts THEN IncrementTransfersComplete(con) ELSE con
  /\ UNCHANGED <<config, phase, pc, slots, info, nodeInfo, results, jvmFiles, summary>>

-----------------------------------------------------------------------------
(***************************************************************************)
(* After the streaming round: profiles, summary, archive.                  *)
(***************************************************************************)
\* Mutant: wg.Wait covers the orchestrator only.
OrchestratorDone == orchestrator = {}
AllDone == orchestrator = {} /\ \A n \in Attempted : pc[n] = "ended"

EndStream ==
  /\ phase = "stream"
  /\ AllDone
  /\ phase' = "profiles"
  /\ UNCHANGED <<config, pc, slots, info, nodeInfo, results, jvmFiles,
                 orchestrator, summary, con>>

CollectProfiles ==
  /\ phase = "profiles"
  /\ phase' = "report"
  /\ con' = IF args.profiles /\ coordinators # {}
            THEN IncrementTransfersComplete(con) ELSE con
  /\ UNCHANGED <<config, pc, slots, info, nodeInfo, results, jvmFiles,
                 orchestrator, summary>>

\* Mutant: an archive is made even if no file was collected.
ReportAlways == TRUE
SomethingCollected == collected # {}

BuildSummary ==
  /\ phase = "report"
  /\ SomethingCollected
  /\ summary' = Cardinality(Attempted) - Len(failed)
  /\ con' = UpdateResult(con, "Creating final archive")
  /\ phase' = "archive"
  /\ UNCHANGED <<config, pc, slots, info, nodeInfo, results, jvmFiles, orchestrator>>

NothingCollected ==
  /\ phase = "report"
  /\ ~SomethingCollected
  /\ phase' = "error"
  /\ UNCHANGED <<config, pc, slots, info, nodeInfo, results, jvmFiles,
                 orchestrator, summary, con>>

Archive ==
  /\ phase = "archive"
  /\ con' = UpdateTarballDir(con)
  /\ phase' = "ok"
  /\ UNCHANGED <<config, pc, slots, info, nodeInfo, results, jvmFiles,
                 orchestrator, summary>>

ArchiveFails ==
  /\ phase = "archive"
  /\ phase' = "error"
  /\ UNCHANGED <<config, pc, slots, info, nodeInfo, results, jvmFiles,
                 orchestrator, summary, con>>

-----------------------------------------------------------------------------
NodeStep(n) ==
  \/ StartDiscovery(n)
  \/ DiscoveryFails(n)
  \/ DiscoverySucceeds(n)
  \/ StartStreaming(n)
  \/ AwaitNodeInfo(n)
  \/ NodeInfoTimesOut(n)
  \/ StreamFiles(n)
  \/ Record(n)
  \/ Finish(n)

MainStep ==
  \/ ResolveTopology
  \/ NoHosts
  \/ EndDiscovery
  \/ RunJvmTools
  \/ RunHeapDumps
  \/ Launch
  \/ EndStream
  \/ CollectProfiles
  \/ BuildSummary
  \/ NothingCollected
  \/ Archive
  \/ ArchiveFails

OrchestratorStep ==
  \/ \E t \in {"kubernetes", "api"} : OrchestratorTask(t)
  \/ OrchestratorEnds

NodeInfoGoroutine(n) == NodeInfoStep(n) \/ NodeInfoCloses(n)

\* ExecuteStreamingCollect has returned.
Returned ==
  /\ phase \in {"ok", "error"}
  /\ UNCHANGED vars

Next ==
  \/ \E n \in Nodes : NodeStep(n) \/ NodeInfoGoroutine(n)
  \/ OrchestratorStep
  \/ MainStep
  \/ Returned

(* Every goroutine that can run runs, and the remote commands of the        *)
(* discovery, of the transfers and of the orchestrator return.  Nothing is  *)
(* assumed of the node-info commands: the code gives them two minutes.      *)
Fairness ==
  /\ \A n \in Nodes : WF_vars(NodeStep(n))
  /\ WF_vars(OrchestratorStep)
  /\ WF_vars(MainStep)

Spec == Init /\ [][Next]_vars
FairSpec == Spec /\ Fairness

-----------------------------------------------------------------------------
(* Type invariant; no more goroutines hold a slot than there are threads.   *)
TypeOK ==
  /\ args \in Requests
  /\ phase \in Phases
  /\ coordinators \in SUBSET Nodes
  /\ executors \in SUBSET Nodes
  /\ pc \in [Nodes -> Locations]
  /\ slots \in SUBSET Nodes
  /\ Cardinality(slots) <= Threads
  /\ info \in [Nodes -> Infos]
  /\ nodeInfo \in [Nodes -> InfoSteps]
  /\ got \in [Nodes -> BOOLEAN]
  /\ jvmFiles \in SUBSET Nodes
  /\ failed \in Seq(Nodes)
  /\ collected \in SUBSET Nodes
  /\ orchestrator \in SUBSET {"kubernetes", "api", "wait"}
  /\ summary \in 0 .. Unbuilt
  /\ con \in [complete : Nat, total : Nat, tarball : BOOLEAN,
              result : {"", "Creating final archive"},
              nodes : [Nodes -> NodeStatus(Stages)]]

(* The progress bar never shows more tasks done than there are, although    *)
(* nodes, JVM phases, orchestrator and profiles count on their own.         *)
ProgressWithinTotal == con.complete <= con.total

(* When the archive is made, the tasks the progress bar still misses are    *)
(* exactly the nodes whose discovery failed, the JVM tasks when no node has *)
(* a PID, and the cluster task when profiles are asked for but no           *)
(* coordinator is left to fetch them from.                                  *)
MissingNodes == Cardinality({n \in Attempted : ~info[n].known})
MissingExtras == IF JvmNodes = {} THEN ExtraTasks ELSE 0
MissingProfiles == IF args.profiles /\ coordinators = {} THEN 1 ELSE 0
ProgressAccounted ==
  phase = "ok" =>
    con.total = con.complete + MissingNodes + MissingExtras + MissingProfiles

(* A node is in totalFailedNodes at most once, over both rounds, and never  *)
(* when the summary lists a file of it; so NumberNodesContacted, computed   *)
(* as a difference of lengths, counts nodes.                                *)
OneVerdictPerNode ==
  /\ IsInjective(failed)
  /\ ToSet(failed) \subseteq Attempted
  /\ ToSet(failed) \cap collected = {}

(* Nothing the summary was built from changes after it was built: no        *)
(* goroutine of the round is left that could append to it.                  *)
SummaryIsFinal ==
  [][summary # Unbuilt => UNCHANGED <<failed, collected, got, slots, con.complete>>]_vars

(* PrintState finds the failed nodes by their status text: these are always *)
(* the nodes whose discovery failed, whatever was written to the other rows *)
(* since, and no later phase hides one.                                     *)
DiscoveryFailuresShown ==
  \A n \in Nodes :
    con.nodes[n].failed <=> pc[n] = "ended" /\ ~info[n].known

(* The collection returns, even if no node-info command ever does.          *)
Returns == <>(phase \in {"ok", "error"})

(* consoleprint.go:398-400: an update must not overwrite "a previously set  *)
(* status (e.g. the final "Done:" from streaming)".                         *)
FinalStatusKept ==
  [][\A n \in Nodes :
       con.nodes[n].ended => con'.nodes[n].status = con.nodes[n].status]_vars

-----------------------------------------------------------------------------
(* The abstract view: what became of each node, and whether the caller got  *)
(* an archive.                                                              *)
Verdict(n) ==
  IF n \in ToSet(failed) THEN "failed"
  ELSE IF n \in collected THEN "gathered"
  ELSE IF pc[n] \in {"finish", "ended"} THEN "empty"
  ELSE "pending"

Contract == INSTANCE CollectionContract WITH
  attempted <- Attempted,
  verdict   <- [n \in Nodes |-> Verdict(n)],
  outcome   <- CASE phase = "ok" -> "delivered"
                 [] phase = "error" -> "gaveUp"
                 [] OTHER -> "running",
  contacted <- IF phase = "ok" THEN summary ELSE 0

(* One final verdict per node, and an archive only when every node has one  *)
(* and some node gave files.                                                *)
ImplementsContract == Contract!Spec
=============================================================================
