# Verification of the Dremio diagnostic collector (DDC)

This directory holds TLA+ models of DDC, the TLC configurations that check
them on small instances, and proofs for every size that TLAPS checks. The
sources are those of the repository; a path below is relative to its root, and
`streaming_collect.go`, where it stands alone, is
`cmd/root/collection/streaming_collect.go`.

## The system

DDC is one Go process. It finds the nodes of a Dremio cluster over SSH, the
Kubernetes API, kubectl or on the local host, streams log and configuration
files of all of them into a temporary directory, may run JVM tools on them,
and leaves one archive.

| Component | State | Operations | Works with |
|---|---|---|---|
| Orchestration (`streaming_collect.go`, `collector.go`, `nodeinfocollect.go`) | semaphore `sem`, `activeThreads`, `queuedCount`, `nodeInfoByHost`, `collectedFiles`, `totalFailedNodes` | `ExecuteStreamingCollect`: two rounds of node goroutines, the JVM phases between them, the orchestrator goroutine beside the second, profiles, summary, archive | all the others |
| Console (`pkg/consoleprint`) | one status record behind a mutex | `UpdateRuntime`, `UpdateNodeState`, `UpdateThreadStatus`, `IncrementTransfersComplete`, `UpdateResult`, rendered by the ticker five times a second | called by every goroutine |
| Shutdown hook (`pkg/shutdown`) | three lists of tasks, a context, the recorded error, all behind one mutex | `Add*`, `SetError`, `Interrupt`, `Cleanup` | the signal goroutine, the main goroutine, whoever registers a task |
| Process (`cmd/root.go`, `main.go`) | pid file, ticker, exit | `Execute`, `RemoteCollect` | hook, console, orchestration |
| Copy strategy and archive (`cmd/root/helpers`, `pkg/archive`) | the temporary directory, the archive | `CreatePath`, `ArchiveDiag`, `Close` | node goroutines, hook |
| File transfer (`streamFile`, `streamNodeFiles`) | local files, counters of failures | retry, gzip, checksum, masking, filters | a transport |
| Choice of nodes (`collector.go`, `configui`, `kubectl.go`, `kubernetes.go`) | the offer, the flags, the cache of containers | `DiscoverPods`, `SearchPods`, the filters | a transport, orchestration |
| JVM collection (`jvmcollect.go`, `runJVMCollection`) | per-tool status of each node, remote files | barrier-started tools, heap dumps | a transport, console |
| RocksDB collection (`rockscollect.go`) | remote viewer binary, files by date | run the viewer, split its output | a transport |
| Discovery (`discovery.go`) | none | probe directories, find the PID | a transport |
| Transports (`ssh`, `kubernetes`, `kubectl`, `local`, `cli`) | connection settings | run a command, copy, stream | hook's context |
| Cluster data (`cluster.go`, `apicollect.go`) | none | requests, one file each | orchestration |
| Problematic profiles (`profiles.go`, `pkg/logparser`) | matches and exclusions | scan the collected logs, choose jobs, download them | collected files, the server |
| Throttling and progress (`circuitbreaker.go`, `adaptive.go`, `progress.go`) | counters, a condition variable | `Acquire`, `Release`, ... | nothing calls them |
| Forms and settings (`configui`, `cmd/root.go`, `conf`) | flag variables shared by commands, the answers of the form | defaults, forms, `BuildConfData`, the printed command | process |
| Masking, logging, version check | none | text, I/O | process |

What is hard in it: goroutines per node that share a semaphore, atomic
counters, slices under a mutex and the console; counters that are loaded and
shown in separate steps; a node-info goroutine that may outlive the goroutine
that waited for it; four places that count tasks for one progress bar; a
signal handler that runs the same lists of clean-up tasks as the normal return,
while the work it cancels goes on; tasks that hang. What makes each component
correct:

* orchestration: no more nodes at work than threads; one verdict per node; a
  summary nobody changes any more; the collection returns;
* console: the numbers fit together, final and failed states are not
  overwritten;
* hook: each task once, removals before the cancellation they need, final
  steps last; a signal ends the process;
* process, copy strategy: nothing is left behind, `COMPLETED` means an archive;
* transfer, JVM and RocksDB collection: a file that is reported as collected is
  whole; secrets do not reach the disk; artefacts on the remote host are removed;
  the phases that disturb a JVM do not overlap;
* discovery, transports: the logs are those of the server; no line of a child
  process is lost, split or out of order while its pipes can be read at all, nor
  one of a command in a Kubernetes container that writes to one stream and is not
  cancelled: with two streams, or a cancellation, the code can mix and lose lines;
* cluster data, profiles: a restart leaves its log; an excluded job is not
  downloaded;
* settings, choice of nodes: what is not given has the default of its mode; the
  nodes are those that were chosen, and a node that the form offers is found; the
  printed command collects the same.

## Modules

| Module | Models |
|---|---|
| `WorkerPool` | abstract: nodes wait, at most `Capacity` run, a round ends when all have finished |
| `ThreadStatus` | the semaphore, the two atomic counters and the display of them |
| `ThreadStatus_proofs` | proofs about `ThreadStatus` for any number of nodes and threads |
| `Console` | the updates of `pkg/consoleprint` as operators on its status record |
| `CollectionContract` | abstract: one final verdict per node, then an archive or an error |
| `StreamingCollect` | `ExecuteStreamingCollect` from the topology to the archive |
| `StreamingCollect_proofs` | proofs about `StreamingCollect` for any set of nodes and any number of threads, and that it implements `CollectionContract` |
| `Lifecycle` | one run of the process: hook, signal, pid file, temporary directory, archive, exit |
| `Lifecycle_proofs` | proofs about `Lifecycle` for any set of writers |
| `StreamFile` | `streamNodeFiles` and `streamFileOnce`: filters, attempts, the compressed pipe, masking |
| `JvmCollection`, `JvmContract` | `runJVMCollection` with its goroutines; abstract: two steps for its caller |
| `StreamFile_proofs`, `JvmCollection_proofs`, `RocksCollect_proofs` | proofs about these three for all inputs |
| `RocksCollect` | the life of the viewer on the coordinator, and the writer that splits its output by day |
| `CliExec` | `ExecuteAndStreamOutput`: a child process, its two pipes and the goroutines that read them |
| `KubeTransport` | the Kubernetes API transport: pods, containers, commands, copies |
| `ClusterData` | resources of the namespace and logs of its containers |
| `ProfileCollection` | scan of the collected logs, choice of jobs, downloads |
| `Discovery` | `RunDiscovery` on one node |
| `Settings` | flags, forms and defaults up to `Args`, and the command the form prints |
| `NodeSelection` | the offer of the form, the flags, `SearchPods` of kubectl, the filters |
| `NodeSelection_proofs` | the proof about `NodeSelection` for all pods, hosts and flags |
| `Edge_proofs` | proofs about `Settings`, `CliExec`, `ClusterData`, `ProfileCollection`, `Discovery` and `KubeTransport`, one after another |
| `MC*` | instances of these for TLC |

`JvmCollection` is the detail of the steps `RunJvmTools` and `RunHeapDumps` of
`StreamingCollect`, `StreamFile` of its `StreamFiles`, `ClusterData` and
`ProfileCollection` of `OrchestratorTask` and `CollectProfiles`, `Discovery` of
what `DiscoverySucceeds` finds, `NodeSelection` of `ResolveTopology`. For the
JVM phases the refinement of `JvmContract` is checked; the others are outcomes
of those steps.

### ThreadStatus

Each atomic operation around the semaphore is one action: `Enqueue`
(`queuedCount.Add(1)`), `Acquire` (the send to `sem`), `Dequeue`, `Activate`,
`Release` (the work and the deferred receive), `Deactivate`, `WgDone`. Three
of them end in a call of `UpdateThreadStatus`, which is three more steps:
`LoadCounters` twice and `Show`. `discoverNode` and `streamNodeLogs` have the
same steps around different work, so one set of actions serves both rounds;
`found` says whose discovery succeeded. The main goroutine waits for a round
(`AllDone`), passes through the JVM phases in diagnosis mode, which replace the
numbers by N/A, and starts the second round.

### StreamingCollect and Console

`StreamingCollect` takes the counters away and keeps the rest: who holds a
slot, what each node is found to have (files, PID), the results under `mu`, the
console, the orchestrator and the main goroutine. The node-info goroutine of a
node is a process of its own: `NodeInfoStep` posts a status before each remote
command, `NodeInfoCloses` closes `nodeInfoDone`, and `NodeInfoTimesOut` lets
the node go on without it. `RunJvmTools`, `RunHeapDumps` and `StreamFiles` are
one step each whose outcome is any that the code can produce; the time between
is unobservable to the other processes at this level, except through statuses
that no property reads. What `Args` asks for is one of `Requests`. A console
update is the operator of `Console` with the same name; the stage of a status
text stands for the text, and the flag `failed` for the suffix that
`PrintState` searches for. `UpdateResult` calls are modelled in this module only
where the main goroutine makes them last, since no property of it reads the
result; `Lifecycle` has those that end on the screen.

The refinement mapping to `CollectionContract` reads the verdict of a node off
`failed`, `collected` and the location of its goroutine; `NumberNodesContacted`
is computed in the code as a difference of lengths and in the contract as the
number of nodes without a failure.

### Lifecycle

The main goroutine goes through `main`, the signal goroutine through `signal`.
`holder` is `hook.mu`; `tasks` are the three lists. A pass of `Interrupt` or
`Cleanup` goes through `left`, the lists in its `Order`: `StartTask` starts the
goroutine of the next task, `TaskOver` is the end of `runWithTimeout` (because
the task ended, or `taskTimeout` passed), `EndStage` blanks the list. A task
that timed out stays in `alive` and may end, with its effect, at any later time
(`TaskEnds`). The tasks are one of each kind the program registers: the cancel
function, the removal of the pid file, `cs.Close`, and the removal of an SSH
transfer. The goroutines of the collection are `Writers`, which make the
temporary directory again whenever they write; they can be abandoned like the
node-info goroutine. `CopyToHost` under a sudo user is followed step by step.
The forms and the checks before the collection are one step that may fail
(`Checks`), and so is the setting up of the transport (`TransportFails`). A
command that only removes a file is taken to succeed if its context is live and
it does not hang. `run` is a history variable.

### The work on the nodes

`StreamFile` goes through the list of one node's files with the main goroutine
of the transfer (`step`) and the streaming goroutine of the attempt (`wire`,
`fed`): `RemoteEnds` gives the way the remote command ends, `ClosePipe` is what
both sides do with the pipe, `CopyEnds` and `CopyEndsBadly` decide by
`EndIsError` which of the two errors counts. `disk` maps a base name to the
entry of the list it came from and to its content, so that two remote files with
one name share an entry. A name is a family, a date and a kind; the size and
the bytes are `whole`, `cut` or `masked`. The variable `excuse` records, for the
properties, the failures the code itself only logs.

`JvmCollection` has one goroutine per node and one per tool. `Look` and `Post`
are the two halves of `updateToolStatus`, which reads the active tools under a
lock and posts the text outside it. `remote` is what is left on the node. The
distribution of the profiler, its fallback to another directory and the
streaming of each file may fail. The countdown is left out.

`RocksCollect` follows `dateSplitWriter` line by line: `buffer` is its
`bufio.Writer`, `file` what reached the disk, `CreateFile` truncates.

### The edge

`CliExec` counts blocks of text: `output` has the places where the lines of a
pipe end, `written` and `taken` how far the child and the scanner are, and
`handled` the ends of the texts that reached the handler. A pipe holds
`PipeSize` blocks and a scanner gives up on a line of more than `MaxToken`.

`KubeTransport` has a goroutine per stream of a command, the steps of
`K8SWriter.Write` on the shared buffer, and a cancellation that returns without
waiting for them. A text is a length and the places of its newlines, a character
its stream and its place in it; how the text is cut into chunks is left open
(`Receive`), so one text stands for every way it may arrive.

In `ClusterData` every request may fail or exceed its time; `ListPodsOfStage`
begins the previous or the current logs, `NextPod` asks for those of one pod,
`CopyContainerLog` writes one, and `ListedAs` is which objects end up under
which name. `ProfileCollection` works on what a line reports and excludes, not
on its text; `MostRecent` is any order of the chosen jobs that the sort by time
can give. `Discovery` is the chain of commands with which tools a host has,
whose commands may fail although the tool is there; `ExtractEnvValue` takes the
last of several settings. `Settings` separates the defaults of a flag, what the
command line gave, what the form asked and applied (`StandardApplied`,
`DiagnosisApplied`) and what `Args` contains, and gives the printed command
back to the same definitions: `CommandIsEquivalent` compares the two effects.

`NodeSelection` has the goroutines of `SearchPods`: `Resolve` is
`getContainerName` with its retries and its cache, `AddPod` the append under the
lock. Pods may be replaced while the form is shown (`PodsChange`). A pod is a
name and the container that is chosen in it; the choice itself is
`FindDremioContainer` of `KubeTransport`, which `resolveContainerName` repeats.

## Runs

| Run | Question | Bounds |
|---|---|---|
| `thread_status` | safety of the semaphore, the counters and the display, refinement of `WorkerPool`; does every node get its slot | 2 nodes, 1 slot |
| `thread_status_idle` | does the display end at zero: no | 2 nodes, 2 slots |
| `collection` | verdicts, summary, progress; refinement of `CollectionContract` | 2 nodes, 2 threads, two kinds of diagnosis, symmetric |
| `collection_returns` | types, and return although node-info commands hang | 2 nodes, 1 thread, standard or everything |
| `collection_final_status` | is a final status final: no | 2 nodes, standard mode |
| `lifecycle` | hook, clean-up, result, end after a signal | 2 writers, 1 transfer, 1 task of each kind |
| `lifecycle_cancel` | do the final steps come after the work: not after a signal | the same |
| `lifecycle_error` | is every error of `RemoteCollect` shown as FAILED: no | the same |
| `node_work` | transfers, JVM phases, RocksDB: what is on disk, what is left on the nodes, do they end; refinement of `JvmContract` | 5 lists of 2 to 4 files and 3 settings; 6 plans for up to 2 nodes; 4 streams of records |
| `edge` | commands, Kubernetes streams, container logs, profiles, discovery, settings, choice of nodes | per module, below |
| `selection_offer` | does the search find what the form offers: no | the choice of nodes alone |
| `settings_command` | does the printed command collect the same: no | every mode and transport, 1 answer that differs from the default |

Why the bounds are enough to be of use: with two nodes and one slot each node
waits for the other in both rounds, and because the slot is given back before
`activeThreads` is decremented both may be counted as active or one as active
and one as queued, which is what an update that mixes two moments needs. In the collection the interactions are
between a node and the main goroutine, the orchestrator or its own node-info
goroutine, and between two nodes through the semaphore and the shared slices; a
third node adds another of the same. Each node is coordinator, executor or not
in the topology, with and without files and PID. In `Lifecycle` two writers let
one be abandoned while the other is waited for, and one task per kind is enough
because a pass treats the tasks of a list alike. Every safety property of a
passing run is also proved, for all values of the constants that their named
assumptions admit; for these the bounds only decide what TLC sees.

`MCNodeWork` and `MCEdge` extend modules that do not interact: a
behaviour runs one of them while the others are at their end, so each module is
explored as if alone. Their instances are lists of cases, each chosen for what
it has: in the transfers a file whose name comes twice, one that is empty, one
of each family that a filter treats differently, keystores in both directories,
with and without gzip; in the JVM phases both file-making tools and the profiler
with its fallback, two nodes for the barriers, no node at all; for the writer a
day that ends, a day that returns and a line without a day. At the edge, pipes
of two lines so that one fills up while the other is read, a line beyond the
limit, texts of several lines in chunks of every length, pods that do not run or
have a container of another name, restarts of an init container only, a log that
excludes what an earlier one reported, more jobs than the limit, hosts without
jcmd or without stat, with a server that has PID 1 or whose environment names
another directory than its command line; `MaxChoices` = 1 answer of the
form that differs from the default. For the choice of nodes, a pod that the form
offers and the search does not accept, a pod that is replaced, a host listed in both roles, and `--nodes` and
`--exclude-nodes` alone and together.

The deadlock check is on in every run; the end of a collection and of the
process are explicit stuttering steps (`AtRest`, `Returned`, `Over`, `Ended`).

### Fairness

`ThreadStatus` and `StreamingCollect` assume weak fairness of every goroutine:
the Go scheduler runs what can run, and a send to `sem` cannot be overtaken for
ever because each goroutine sends once per round. The commands of discovery,
transfers and orchestrator are assumed to return; most have no timeout in the
code. Nothing is assumed of node-info commands, for which the code has one.
`Lifecycle` assumes fairness of the returning main goroutine, of the signal
goroutine and of the cancel function, and nothing of the forms, the remote
commands, the writers and the other tasks: `SignalEndsProcess` holds although
all of them may hang. `StreamFile` and `JvmCollection` assume that the remote
commands end and that goroutines which can take a step do; `CliExec` that the
child goes on when its pipes let it and that the scanners read. A signal kills
the child, but nothing depends on one coming. The other modules of `edge` are
checked for safety only.

### What the runs found

* `consoleprint.go:244` calls the first number of the display "the number of
  goroutines currently holding a semaphore slot". After the last goroutine has
  ended it may still be positive, because the last store can carry older loads.
* `consoleprint.go:398-400` protects a final status from updates without a
  text; the texts of a node-info goroutine that timed out replace it.
* `shutdown.go:125` has the final steps "run last after everything has
  stopped"; after a signal nothing waits for the collection, and the removed
  temporary directory is made again.
* `shutdown.go:91` has errors shown as FAILED; those that `RemoteCollect`
  returns before the collection starts end in COMPLETED.
* `kubernetes.go:602` has `DiscoverPods` use "the same container-name matching
  logic as `SearchPods`". It takes every pod without `coordinator` or `master` in
  its container for an executor, also one whose container is `executor` or
  `dremio`, which the transport knows as Dremio containers (419-428), while the
  searches accept `dremio-executor` only: such a pod, offered and kept, is left
  out of the collection.
* `README.md:335-337` calls the command of the final screen the exact
  equivalent of all choices. It leaves out the sudo user that the form asks for
  over SSH; with other choices, a deselected `queries.json` of the diagnosis
  form is in the command but not in the collection of the form
  (`root.go:1685-1724`), and container logs differ for the local Kubernetes
  transport (`root.go:401-403`).

What the models show without a run of its own, because no statement of the
repository is contradicted: lines of more than 64 KB end the reading of a pipe
and may block the child; without gzip a transfer that was cut looks complete; a
day of query records that returns truncates its file, though the comment at
`rockscollect.go:37` has the viewer guarantee that none does; pods whose lookup
fails are not collected; `daemonset.json` has stateful sets; on the nodes a heap
dump that fails half-way is left, a profiler that was distributed a second time,
and the viewer if its `chmod` fails; the lines of two streams of a Kubernetes
command can be mixed. The properties name these cases as exceptions
(`RemoteCleaned`, `ViewerRemoved`, `DaysComplete`, `LinesWhole` and the others),
so they show that nothing else goes wrong, and would not notice if these became
worse.

## Proofs

Every invariant and action property of a passing run, and each of the three
refinements, is a theorem for all values of the constants that satisfy the
named assumptions below. A theorem of safety has the same shape everywhere: an
invariant (`IInv`, or a name of its own in `Edge_proofs`) that holds initially,
that every step keeps, and that implies the property. Beyond the types, none of the
properties is inductive alone; what follows is what has to be added to each, and why it holds.

| Module | Assumptions | What they stand for |
|---|---|---|
| `ThreadStatus` | `WorkersFinite`, `CapacityPositive` | |
| `StreamingCollect` | `NodesFinite`, `ThreadsPositive`, `RequestsLegal` | the requests are values of `Args` |
| `Lifecycle` | none | the set of writers is any set |
| `StreamFile` | `ListsLegal` | the records of a list are those of `Discovery` |
| `JvmCollection` | `PlansLegal` | |
| `RocksCollect` | `StreamsLegal` | the day of a line is a date or `unknown`, never the empty one the writer starts with |
| `NodeSelection` | `PodsKeepContainers` | a pod that comes back under its name has its container |
| `CliExec` | `OutputsLegal`, `LimitsPositive` | the ends of lines increase, from 1 |
| `ClusterData` | `ResourcesLegal`, `NamespacesLegal` | a restart count per container |
| `ProfileCollection` | `LogsLegal`, `LimitPositive` | a line reports finitely many jobs |
| `Discovery` | `MachinesLegal`, `CandidatesLegal` | a PID is not 0, and a server is a process of Dremio; nothing is assumed of where its options are given |
| `KubeTransport` | `SpeechesLegal` | the places of the newlines increase, within the text |

All of them are evaluated by TLC in the passing runs.

### The collection

`ThreadStatus_proofs` proves, for every finite set of nodes and every positive
capacity, all the safety invariants of `ThreadStatus` and that it implements
`WorkerPool`. `IInv` adds: a call to `UpdateThreadStatus` is in progress only
where the code makes one (`CallsWhereMade`); between rounds all goroutines have
ended (`QuietBetweenRounds`); and, the heart of it, what a half-finished call
has read fits the nodes (`ReadsFit`): a goroutine counted as active is past the
queue for the rest of the round, so it cannot be counted as queued by the load
that follows. That the loads happen in this order is therefore essential, which
the mutant `LoadCountersSwapped` confirms. The counting lemmas (`CountAfterMove`,
`CountDisjoint`) reduce each step to the change of one cardinality.

`StreamingCollect_proofs` proves the types, `OneVerdictPerNode` and
`SummaryIsFinal`. `OneVerdictPerNode` speaks of two rounds that append to the
same slice; it is not inductive, because it says nothing of the goroutines still
to append. `IInv` relates the
results to where each goroutine is: in the first round a goroutine that has
ended is one whose discovery failed (`FirstRoundInv`); `nodeInfoByHost` has
exactly the nodes whose discovery is over and succeeded (`InfoInv`), so `Launch`
starts no goroutine for a failed one; and a node in `failed` has either failed
in the first round or passed `Record` in the second (`ResultInv`). `AppendNew`
says what an append of a new element does to a sequence without repetition,
`InjectiveLength` that such a sequence is no longer than the set it lists, which
keeps `NumberNodesContacted` from being negative. For the summary, `Settled`
says that no goroutine of the rounds is left when the main goroutine is past
`wg.Wait`: only node-info goroutines that outlived their two minutes can run,
and `UncountedUpdate` shows that their console updates count no task.

Its second part proves that `StreamingCollect` implements `CollectionContract`.
One fact is added (`DeliveryInv`): an archive is made from some file, with the
summary computed from the final `failed`. A failing discovery and `Record` map
to the contract's `Settle`, `ResolveTopology` to `Begin`, `Archive` to
`Deliver`, the error ends to `GiveUp`, every other step to a stutter; that
`Deliver` reports the right number rests on `InjectiveCardinality`: the length
of `failed` is the number of nodes in it.

Its third part is about what is shown: `ProgressWithinTotal`,
`ProgressAccounted` and `DiscoveryFailuresShown`. Four places of the code add
to the one counter, and none of them looks at the others. `CountInv` says what
the counter is at every moment: the nodes whose goroutine has ended after a
successful discovery, the JVM tasks that are over, and the one task of the
cluster, which the orchestrator counts, or the profiles in its place. `RowInv`
ties the row of a node to its goroutine: it has ended exactly when the goroutine
counted, so that a second final status is not counted again, and it reads as
failed exactly when the discovery failed, which needs that a node-info goroutine
runs only for a node that was discovered. `RowUpdate` says what an update does
to one row and the counter, and each action is an instance of it.

### The process

`Lifecycle_proofs` proves the types, `RunOnce`, `NothingLeftBehind`,
`CompletedMeansArchive` and the action property `TransferRemoved`, for any set
of writers. `RunOnce` is about two passes over the same lists by two goroutines;
`RunInv` says that a task somebody has run is still listed only while that
goroutine holds the mutex and is in the middle of this very list, so whoever
gets the mutex next finds it gone. It needs that a task is in one list at most
(`ListInv`) and new when it is registered (`FreshInv`). `PassInv` says which
lists a pass has behind it, and that these are blank. `NothingLeftBehind` and
`CompletedMeansArchive` need in addition where the writers can be (`WorkInv`),
that after an interrupt has run `Close` nothing is left for `Cleanup` to do
(`CloseInv`), and that a collection which failed has recorded its error before
it returns (`ArchiveInv`). `TransferRemoved` follows from `CancelInv`: the
context is cancelled by the cancel task alone, and a pass reaches that only
after the cancel-only list.

### The nodes

`StreamFile_proofs` proves `CollectedIsWhole`, `NoUnexplainedFile` and
`SecretsStayAway`. Two entries of a list may have the same base name, and share
a file on disk. `PastInv` speaks of the entries behind `at`: what they left on
disk is collected or excused, and is replaced only by a later entry of that name
(`DiskInv`, `ExplainedInv`). `HandInv` speaks of the one in hand at each step of
an attempt: before it is opened the disk has nothing of it but what a failing
flush left, and past the transfer its stream has ended as the checks before it
demand.

`JvmCollection_proofs` proves `TextSettles`, `ToolsAccounted`, `RemoteCleaned`
and the refinement of `JvmContract`. The invariant is one of each host
(`RowInv`), since hosts share only the barriers: `PlaceInv` says where the tools
of a host may be in each phase, `AccountInv` that a tool which is through has
files, an error or one of the two known silences, `CleanInv` that whatever is
on a node without an excuse is the artefact of a tool that still owes its
removal (`Owing`). The refinement maps the ends of the two phases to the two
steps of the contract, and everything within a phase to a stutter.

`RocksCollect_proofs` proves `DaysComplete` and `ViewerRemoved`. No property
speaks of the records on their way, so `IInv` says where each one is: in the file
of its day or in the buffer of the current one (`KeptInv`, `PlaceInv`). `DayInv`
ties the day of the writer to the last record, so that in a sorted stream
`os.Create` empties no file that has records.

### The edge

`Edge_proofs` has one part per module; the parts share no state.

* `UnsetAsTheMode` (`UnsetFlagsFollowTheMode`): until the settings are decided
  from them, the flag variables of a run without the form are the values that
  `init()` registered last, changed by the given flags only (`GlobalInv`).
  `StandardUnset` and `DiagnosisUnset` compute the rest of each mode.
* `LinesOrdered` (`LinesInOrder`): a scanner has handed on the first lines of its
  pipe and holds less than the next (`FirstLines`, `NextLine`); a last text that
  is no line needs a killed child or a line over the limit (`CutLine`). That
  success means all lines rests on the order of the two waits: the scanners
  end before the child is waited for.
* `RestartsShown` (`RestartEvidence`): while the previous logs are collected, the
  evidence of each restart is on disk, was refused, is asked for, or its pod is
  still to come (`Pending`). At the end of the stage nothing is pending, and no
  later step takes a file or a refusal away.
* `ExclusionsKept` (`ExcludedNotDownloaded`): the merged result is that of the
  logs scanned so far, exclusions with it (`MergedInv`). That below the limit
  all candidates are chosen is an argument about cardinalities: as many
  distinct jobs as there are candidates, of which there are finitely many,
  are all of them.
* `ServerLogsFound` (`LogsOfServer`): along the chain of fallbacks, what the next
  tool shows is the server (`ServerKnown`), and the directory its last option
  names comes first among those to probe (`LogDirKnown`); `LastOfBoth` says which
  setting is the last of two texts one after the other. The directory is the last
  one of the environment or, if it names none, of the command line: if the two
  differ, the environment wins whatever the server does.
* `LinesWholeAlways` (`LinesWhole`): between two chunks the buffer holds the text
  since the last newline that `Write` has gone through, and one line was handed
  on for each newline before it (`Passed`, `StreamInv`). `NextNewline` says what
  the search for a newline finds, `TextJoined` that what is gathered piece by
  piece is the text of the whole, `AtEnd` that what `Flush` has left to emit is
  the last line, if there is one.

`NodeSelection_proofs` proves `NodesAsChosen` for all sets of pods, hosts and
flags: a pod whose container the search accepts is missing only if its lookup
failed. Of pods with other containers it says only that none is collected in a
role the form did not show; that the form may have offered them is the subject of
`selection_offer`. The property speaks only of the moment
when the collection begins; `IInv` carries to it that `nodesFlag` is either the
user's flag or a proper part of the offer (`FlagInv`), that the cache is true
because pods change only before it is filled (`CacheInv`), and that a search
which is over has every pod of its role among those found or those without an
answer (`FoundInv`, from `GoroutineInv` for a search in progress). That nobody is
collected in two roles rests on `FilterExecutors` for hosts, and that nobody is
lost by it on the two roles having no container name in common.

### What the proofs changed, and what they cannot reach

Some definitions had to be corrected before anything could be proved. In
`JvmCollection` the tools that make no file had the directory of the profiler as
their artefact, which no instance showed; they have none now. A set written as
`UNION {...} \ x` is read in two ways by the tools, and has parentheses now. The
texts of `CliExec` and `KubeTransport`, once fixed sequences of chunks, are
places in a text; what that leaves open is more than the runs had before.

Out of the prover's reach, and left to TLC: liveness under fairness and
`ENABLED`; what a recursive definition computes for every input, or a fold over
a sequence; RECURSIVE operators, of which these modules have none.

Only model-checked, therefore: `ReachesRest`, `Returns`, `SignalEndsProcess`,
`TransfersEnd`, `JvmEnds` and `CommandReturns`. The six runs that expect a
violation have counterexamples and no proofs.

## Plan

Done, in this order: `ThreadStatus`, `StreamingCollect` with `Console` and
`Lifecycle`; `StreamFile`, `JvmCollection`, `RocksCollect`; the transports, the
data of the cluster, profiles, discovery, settings and the choice of nodes; the
proofs of the safety properties of all of them. What would come next:

1. Proofs for the choices the properties do not speak of, for instance that
   `FindDremioContainer` prefers a known name, and the implications between the
   modules: that what `StreamFile` and `ClusterData` end with is an outcome of
   the step of `StreamingCollect` they detail.
2. The hook and the JVM phases together: what a signal leaves on the nodes.
3. `CircuitBreaker` with its condition variable, if the program comes to use it.

## Not modelled, and why

* Connection throttling (`circuitbreaker.go`, `adaptive.go`) and the progress
  tracker: only their tests call them.
* Masking, the parser of configuration files, the search for garbage collector
  options: rewriting of text, character by character. Where they can fail
  (`Mask`, `DetectRocksDBDir`) the failure is an outcome.
* The local transport, and of ssh and kubectl what is one command with
  arguments; `CleanupRemote`, which nothing calls.
* Rendering of the console, wording, the version check, the program's own log:
  output without effect on the collection.
* The layout of the archive and the disk space checks.
