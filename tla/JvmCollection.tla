--------------------------- MODULE JvmCollection ----------------------------
(***************************************************************************)
(* runJVMCollection: async-profiler is brought to every node, then the     *)
(* tools of all nodes run together, then the heap dumps of all nodes.      *)
(* Each phase has a goroutine per node, each node a goroutine per tool,    *)
(* and every goroutine posts what it sees to the console.                  *)
(***************************************************************************)
EXTENDS Naturals, FiniteSets

CONSTANTS Hosts,  \* the hosts that may have a PID
          Plans   \* the arguments of the calls considered

HeapDump == "heap-dump"
Tools == {"JFR", "jstack", "top", "async-profiler"}
Works == Tools \cup {HeapDump}

ASSUME PlansLegal ==
  Plans \subseteq [nodes : SUBSET Hosts, tools : SUBSET Tools, heapDump : BOOLEAN]

VARIABLES
  nodes, tools, heapDump,  \* the hosts with a PID, the Collect... flags
  phase,      \* of the main goroutine: dist, tools, heap, ok
  host,       \* where the goroutine of each host is, within the phase
  asprof,     \* asprofDirByHost, or "none"
  remote,     \* what was made on the host and is still there
  tool,         \* where the goroutine of each tool is
  active,     \* activeTools
  view,       \* the names updateToolStatus has read
  shown,      \* the StatusUX of the host: names of tools, none if completed
  outcome,    \* how each tool went
  reported,   \* the tools the ToolErrors of the host name
  tracked,    \* the tools jvmFilesByHost has files of
  transfers,
  excused     \* what is still on the host although the code tried, or
              \* because it returned early; for the properties

request == <<nodes, tools, heapDump>>
node == <<host, asprof>>
results == <<outcome, reported, tracked>>
vars == <<request, phase, node, remote, tool, active, view, shown, results,
          transfers, excused>>

Init ==
  /\ \E r \in Plans : nodes = r.nodes /\ tools = r.tools /\ heapDump = r.heapDump
  /\ phase = IF nodes = {} THEN "ok"
             ELSE IF "async-profiler" \in tools THEN "dist" ELSE "start"
  /\ host = [h \in Hosts |-> IF h \in nodes THEN "on" ELSE "over"]
  /\ asprof = [h \in Hosts |-> "none"]
  /\ remote = [h \in Hosts |-> {}]
  /\ tool = [h \in Hosts |-> [t \in Works |-> "off"]]
  /\ active = [h \in Hosts |-> {}]
  /\ view = [h \in Hosts |-> [t \in Tools |-> {}]]
  /\ shown = [h \in Hosts |-> {"queued"}]
  /\ outcome = [h \in Hosts |-> [t \in Works |-> "none"]]
  /\ reported = [h \in Hosts |-> {}]
  /\ tracked = [h \in Hosts |-> {}]
  /\ transfers = 0
  /\ excused = [h \in Hosts |-> {}]

AllOver == \A h \in nodes : host[h] = "over"
Restarted == [h \in Hosts |-> IF h \in nodes THEN "on" ELSE "over"]

-----------------------------------------------------------------------------
(***************************************************************************)
(* Distribution.  The flat files are uploaded to /tmp and moved into the   *)
(* directory the profiler needs; if that command fails, the same is tried  *)
(* in the data directory, and nothing of the first try is removed.         *)
(***************************************************************************)
TmpLeft == {{"tmp-flat"}, {"tmp-base"}, {"tmp-flat", "tmp-base"}}
DataFiles == {"data-flat", "data-base"}

\* The files of both tries.
WithTmp(more) == {s \cup d : s \in TmpLeft, d \in SUBSET more}
Ways(dir, lefts, error) == [dir : {dir}, left : lefts, error : {error}]

Distribution ==
       Ways("none", {{}}, FALSE)   \* disk space, uname, local files
  \cup Ways("none", SUBSET {"tmp-flat"}, TRUE)
  \cup Ways("tmp-base", {{"tmp-base"}}, FALSE)
  \cup Ways("none", WithTmp({"data-flat"}), FALSE)
  \cup Ways("none", WithTmp(DataFiles), TRUE)
  \cup Ways("data-base", {s \cup {"data-base"} : s \in TmpLeft}, FALSE)

Distribute(h) ==
  /\ phase = "dist" /\ host[h] = "on"
  /\ \E w \in Distribution :
       /\ asprof' = [asprof EXCEPT ![h] = w.dir]
       /\ remote' = [remote EXCEPT ![h] = w.left]
       /\ excused' = [excused EXCEPT ![h] = w.left \ {w.dir}]
       /\ reported' = [reported EXCEPT ![h] = IF w.error THEN {"async-profiler"} ELSE {}]
       /\ shown' = [shown EXCEPT ![h] = IF w.dir = "none" THEN {"uploading"} ELSE {"ready"}]
  /\ host' = [host EXCEPT ![h] = "over"]
  /\ UNCHANGED <<request, phase, tool, active, view, outcome, tracked, transfers>>

\* distWg.Wait
EndDistribution ==
  /\ phase = "dist" /\ AllOver
  /\ phase' = "start"
  /\ UNCHANGED <<request, node, remote, tool, active, view, shown, results,
                 transfers, excused>>

\* The goroutines wait behind startBarrier until it is closed.
EnabledTools(h) == {t \in tools : t = "async-profiler" => asprof[h] # "none"}

StartTools ==
  /\ phase = "start"
  /\ phase' = "tools"
  /\ host' = Restarted
  /\ tool' = [h \in Hosts |-> [t \in Works |->
             IF h \in nodes /\ t \in EnabledTools(h) THEN "waiting" ELSE "off"]]
  /\ UNCHANGED <<request, asprof, remote, active, view, shown, results,
                 transfers, excused>>

-----------------------------------------------------------------------------
(***************************************************************************)
(* startTool: after its stagger, a tool enters activeTools; it reads the   *)
(* names under the lock and posts them without it; it runs; it leaves, and *)
(* reads and posts again.                                                  *)
(***************************************************************************)
GoTo(h, t, there) == tool' = [tool EXCEPT ![h][t] = there]

Enter(h, t) ==
  /\ tool[h][t] = "waiting" /\ t \in Tools
  /\ GoTo(h, t, "entered")
  /\ active' = [active EXCEPT ![h] = @ \cup {t}]
  /\ UNCHANGED <<request, phase, node, remote, view, shown, results,
                 transfers, excused>>

Look(h, t) ==
  /\ tool[h][t] \in {"entered", "left"}
  /\ GoTo(h, t, IF tool[h][t] = "entered" THEN "looked" ELSE "looked back")
  /\ view' = [view EXCEPT ![h][t] = active[h]]
  /\ UNCHANGED <<request, phase, node, remote, active, shown, results,
                 transfers, excused>>

Post(h, t) ==
  /\ tool[h][t] \in {"looked", "looked back"}
  /\ GoTo(h, t, IF tool[h][t] = "looked" THEN "running" ELSE "ended")
  /\ shown' = [shown EXCEPT ![h] = view[h][t]]
  /\ view' = [view EXCEPT ![h][t] = {}]
  /\ UNCHANGED <<request, phase, node, remote, active, results, transfers, excused>>

Leave(h, t) ==
  /\ tool[h][t] = "leaving"
  /\ GoTo(h, t, "left")
  /\ active' = [active EXCEPT ![h] = @ \ {t}]
  /\ UNCHANGED <<request, phase, node, remote, view, shown, results,
                 transfers, excused>>

-----------------------------------------------------------------------------
(***************************************************************************)
(* The work of a tool.  JFR, async-profiler and the heap dump make a file  *)
(* on the host, stream it back and remove it; jstack and top have only     *)
(* the output of a command.                                                *)
(***************************************************************************)
MakesFile == {"JFR", "async-profiler", HeapDump}
Artefact(h, t) == CASE t = "JFR" -> "jfr"
                    [] t = HeapDump -> "hprof"
                    [] t = "async-profiler" -> asprof[h]
                    [] OTHER -> "none"

Conclude(h, t, how) ==
  /\ outcome' = [outcome EXCEPT ![h][t] = how]
  /\ GoTo(h, t, "leaving")

\* No local path, or a command that fails: the profiler is removed after a
\* failed command but not without a path, a broken heap dump never.
WorkFails(h, t) ==
  /\ tool[h][t] = "running"
  /\ Conclude(h, t, "failed")
  /\ \E left \in SUBSET {Artefact(h, t)} :
       /\ left # {} => t \in {"async-profiler", HeapDump}
       /\ remote' = [remote EXCEPT ![h] = (@ \ {Artefact(h, t)}) \cup left]
       /\ excused' = [excused EXCEPT ![h] = @ \cup left]
  /\ UNCHANGED <<request, phase, node, active, view, shown, reported,
                 tracked, transfers>>

CommandWorks(h, t) ==
  /\ tool[h][t] = "running" /\ t \notin MakesFile
  /\ \E how \in {"done", "unseen"} :
       /\ Conclude(h, t, how)
       /\ tracked' = [tracked EXCEPT ![h] = IF how = "done" THEN @ \cup {t} ELSE @]
  /\ UNCHANGED <<request, phase, node, remote, active, view, shown,
                 reported, transfers, excused>>

Record(h, t) ==
  /\ tool[h][t] = "running" /\ t \in MakesFile
  /\ GoTo(h, t, "recorded")
  /\ remote' = [remote EXCEPT ![h] = @ \cup {Artefact(h, t)}]
  /\ UNCHANGED <<request, phase, node, active, view, shown, results,
                 transfers, excused>>

\* streamRemoteFile, and the stat of the local file for trackJVMFile.
Stream(h, t) ==
  /\ tool[h][t] = "recorded"
  /\ \E how \in {"done", "unseen", "lost"} :
       /\ outcome' = [outcome EXCEPT ![h][t] = how]
       /\ tracked' = [tracked EXCEPT ![h] = IF how = "done" THEN @ \cup {t} ELSE @]
  /\ GoTo(h, t, "streamed")
  /\ UNCHANGED <<request, phase, node, remote, active, view, shown,
                 reported, transfers, excused>>

\* Mutant: a failed stream returns before the removal.
RemoveIfStreamed(h, t) ==
  /\ tool[h][t] = "streamed"
  /\ GoTo(h, t, "leaving")
  /\ remote' = [remote EXCEPT ![h] =
                  IF outcome[h][t] = "lost" THEN @ ELSE @ \ {Artefact(h, t)}]
  /\ outcome' = [outcome EXCEPT ![h][t] = IF @ = "lost" THEN "failed" ELSE @]
  /\ UNCHANGED <<request, phase, node, active, view, shown, reported,
                 tracked, transfers, excused>>
\* The removal is tried whatever the stream did, and a failure of it is
\* logged.  A lost stream is an error of every tool but async-profiler.
Remove(h, t) ==
  /\ tool[h][t] = "streamed"
  /\ \E left \in SUBSET {Artefact(h, t)} :
       /\ remote' = [remote EXCEPT ![h] = (@ \ {Artefact(h, t)}) \cup left]
       /\ excused' = [excused EXCEPT ![h] = @ \cup left]
  /\ outcome' = [outcome EXCEPT ![h][t] =
                   IF @ = "lost" /\ t # "async-profiler" THEN "failed" ELSE @]
  /\ GoTo(h, t, "leaving")
  /\ UNCHANGED <<request, phase, node, active, view, shown, reported,
                 tracked, transfers>>

-----------------------------------------------------------------------------
(***************************************************************************)
(* The end of a host's goroutine, of the phase, and of the collection.     *)
(***************************************************************************)
\* Mutant: the goroutine does not wait for its tools.
NoWait(h) == TRUE
ToolsOver(h) == \A t \in Tools : tool[h][t] \in {"off", "ended"}

\* Mutant: the last text is the one of the last tool.
KeepText(h) == shown
LastText(h) == [shown EXCEPT ![h] = {}]

\* toolWg.Wait, and the text that ends the tools.
Settle(h) ==
  /\ phase = "tools" /\ host[h] = "on"
  /\ ToolsOver(h)
  /\ host' = [host EXCEPT ![h] = "settled"]
  /\ shown' = LastText(h)
  /\ UNCHANGED <<request, phase, asprof, remote, tool, active, view, results,
                 transfers, excused>>

Failed(h) == {t \in Tools : outcome[h][t] = "failed"}

ReportErrors(h) ==
  /\ host[h] = "settled"
  /\ host' = [host EXCEPT ![h] = "over"]
  /\ reported' = [reported EXCEPT ![h] = @ \cup Failed(h)]
  /\ UNCHANGED <<request, phase, asprof, remote, tool, active, view, shown,
                 outcome, tracked, transfers, excused>>

\* Mutant: the phase ends with the first host that is over.
AnyOver == \E h \in nodes : host[h] = "over"
PhaseOver == AllOver

\* jvmWg.Wait; the heap dumps wait behind heapBarrier until it is closed.
EndTools ==
  /\ phase = "tools" /\ PhaseOver
  /\ transfers' = IF tools = {} THEN transfers ELSE transfers + 1
  /\ phase' = IF heapDump THEN "heap" ELSE "ok"
  /\ host' = IF heapDump THEN Restarted ELSE host
  /\ tool' = [h \in Hosts |-> [tool[h] EXCEPT ![HeapDump] =
             IF heapDump /\ h \in nodes THEN "waiting" ELSE "off"]]
  /\ UNCHANGED <<request, asprof, remote, active, view, shown, results, excused>>

\* Mutant: the goroutine of a skipped heap dump ends without heapWg.Done.
SkipWithoutDone(h) ==
  /\ tool[h][HeapDump] = "waiting"
  /\ \E there \in {"running", "ended"} : GoTo(h, HeapDump, there)
  /\ shown' = [shown EXCEPT ![h] = {HeapDump}]
  /\ UNCHANGED <<request, phase, node, remote, active, view, results,
                 transfers, excused>>
\* VM.flags and df: a heap that would not fit is not dumped, and a missing
\* answer means that it is.  Without a local path it is not dumped either.
StartHeapDump(h) ==
  /\ tool[h][HeapDump] = "waiting"
  /\ \E there \in {"running", "leaving"} : GoTo(h, HeapDump, there)
  /\ shown' = [shown EXCEPT ![h] = {HeapDump}]
  /\ UNCHANGED <<request, phase, node, remote, active, view, results,
                 transfers, excused>>

EndHeapDump(h) ==
  /\ tool[h][HeapDump] = "leaving"
  /\ GoTo(h, HeapDump, "ended")
  /\ reported' = [reported EXCEPT ![h] =
                    IF outcome[h][HeapDump] = "failed" THEN @ \cup {HeapDump} ELSE @]
  /\ shown' = [shown EXCEPT ![h] = {}]
  /\ host' = [host EXCEPT ![h] = "over"]
  /\ UNCHANGED <<request, phase, asprof, remote, active, view, outcome,
                 tracked, transfers, excused>>

EndHeapDumps ==
  /\ phase = "heap" /\ AllOver
  /\ transfers' = transfers + 1
  /\ phase' = "ok"
  /\ UNCHANGED <<request, node, remote, tool, active, view, shown, results, excused>>

Done == phase = "ok"

ToolStep(h, t) == \/ Enter(h, t) \/ Look(h, t) \/ Post(h, t) \/ CommandWorks(h, t)
                  \/ (t # HeapDump /\ Leave(h, t))
Work(h, t) == WorkFails(h, t) \/ Record(h, t) \/ Stream(h, t) \/ Remove(h, t)
HostStep(h) == Distribute(h) \/ Settle(h) \/ ReportErrors(h)
               \/ StartHeapDump(h) \/ EndHeapDump(h)
Main == EndDistribution \/ StartTools \/ EndTools \/ EndHeapDumps

Next == \/ Main
        \/ \E h \in nodes : HostStep(h)
        \/ \E h \in nodes : \E t \in Works : ToolStep(h, t) \/ Work(h, t)

(* The remote commands return, and a goroutine that can run does.           *)
Fairness ==
  /\ WF_vars(Main)
  /\ \A h \in Hosts :
       /\ WF_vars(h \in nodes /\ HostStep(h))
       /\ \A t \in Works : WF_vars(h \in nodes /\ (ToolStep(h, t) \/ Work(h, t)))

Spec == Init /\ [][Next]_vars /\ Fairness

-----------------------------------------------------------------------------
(***************************************************************************)
(* Properties.                                                             *)
(***************************************************************************)
(* Names of tools that were read before others ended can be posted after   *)
(* them, but when a node is through with its tools, it does not show any.  *)
TextSettles ==
  \A h \in nodes :
    phase = "tools" /\ host[h] # "on" => shown[h] = {}

(* When a phase is over, every tool that ran has its files tracked, or the *)
(* node shows its error; what is known to be lost in silence is a profile  *)
(* that could not be streamed and a file that could not be read again.     *)
ToolsAccounted ==
  \A h \in nodes : \A t \in Tools :
    host[h] = "over" /\ tool[h][t] # "off" =>
      \/ t \in tracked[h] \cup reported[h]
      \/ outcome[h][t] = "unseen"
      \/ outcome[h][t] = "lost" /\ t = "async-profiler"

(* Nothing that was made on a node outlives its use there, unless its      *)
(* removal was tried and failed or the code gave up before it.             *)
RemoteCleaned ==
  Done => \A h \in nodes : remote[h] \subseteq excused[h]

(* The phases end.                                                         *)
JvmEnds == <>Done

Gathered ==
  CASE phase \in {"dist", "start", "tools"} -> {}
    [] phase = "heap" -> {h \in nodes : tracked[h] \ {HeapDump} # {}}
    [] OTHER -> {h \in nodes : tracked[h] # {}}

Contract ==
  INSTANCE JvmContract WITH
    phase <- IF phase \in {"dist", "start"} THEN "tools" ELSE phase,
    gathered <- Gathered

(* The two phases look to their caller like two steps, in this order: no   *)
(* tool that disturbs a JVM adds files while heap dumps are taken of       *)
(* others, and none does after the phases.                                 *)
ImplementsContract == Contract!Spec
=============================================================================
