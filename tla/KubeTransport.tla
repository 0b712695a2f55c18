--------------------------- MODULE KubeTransport ----------------------------
(***************************************************************************)
(* KubeCtlAPIActions: which pods are collected from, which container of a  *)
(* pod a command runs in, and the three ways to run one: its output line   *)
(* by line to a handler, a file copied to the pod, a file streamed back.   *)
(* client-go copies the two outputs of a command in two goroutines, and    *)
(* HostExecuteAndStream gives both of them the same K8SWriter.             *)
(***************************************************************************)
EXTENDS Naturals, Sequences, FiniteSetsExt

CONSTANTS
  Clusters,   \* sets of pods: name, running, containers in their order
  Speeches    \* per stream, how long its text is and where its newlines are

Streams == {"out", "err"}

ASSUME SpeechesLegal ==
  \A said \in Speeches : \A s \in Streams :
    /\ said[s].length \in Nat
    /\ said[s].newlines \in Seq(1..said[s].length)
    /\ \A i, j \in DOMAIN said[s].newlines :
         i < j => said[s].newlines[i] < said[s].newlines[j]

VARIABLES
  kubePods, speech, op,   \* op is execute, copy or read
  exec,       \* search, idle, lookup, stream, flush, flushed, ok, error
  kubeFound,  \* the pods of the collection, by role
  minutes,    \* timeoutMinutes
  target,     \* the pod of the operation
  cache,      \* containerCache
  heard,      \* how much of each stream has arrived
  used,       \* how much of that Write has gone through
  at,         \* where the goroutine of each stream is: between, gather, emit, clear
  partial, emitted,
  status,     \* what StreamWithContext returns
  archiver    \* off, writing, ended: the goroutine that feeds the pipe

kubeRequest == <<kubePods, speech, op>>
kubeNodes == <<kubeFound, minutes, target, cache>>
writer == <<heard, used, at, partial, emitted>>
ktVars == <<kubeRequest, exec, kubeNodes, writer, status, archiver>>

-----------------------------------------------------------------------------
KnownContainers == <<"dremio-coordinator", "dremio-master-coordinator",
                     "dremio-executor", "coordinator", "executor", "dremio">>
ContainsDremio == {KnownContainers[i] : i \in {1, 2, 3, 6}} \cup {"my-dremio"}

FindDremioContainer(containers) ==
  LET present == {containers[i] : i \in DOMAIN containers}
      known == {i \in DOMAIN KnownContainers : KnownContainers[i] \in present}
      alike == {i \in DOMAIN containers : containers[i] \in ContainsDremio}
  IN  IF known # {} THEN KnownContainers[Min(known)]
      ELSE IF alike # {} THEN containers[Min(alike)] ELSE containers[1]

\* The containers the compare functions of the two roles accept.
CoordinatorContainers == {"dremio-coordinator", "dremio-master-coordinator", "coordinator"}
ExecutorContainers == {"dremio-executor"}

Running == {p \in kubePods : p.running}
SearchPods(accepted) ==
  {p.name : p \in {q \in Running : FindDremioContainer(q.containers) \in accepted}}

KTInit ==
  /\ kubePods \in Clusters /\ speech \in Speeches
  /\ op \in {"execute", "copy", "read"}
  /\ exec = "search"
  /\ kubeFound = [coordinators |-> {}, executors |-> {}]
  /\ minutes = 30
  /\ target = "none"
  /\ cache = <<>>
  /\ heard = [s \in Streams |-> 0]
  /\ used = [s \in Streams |-> 0]
  /\ at = [s \in Streams |-> "between"]
  /\ partial = <<>>
  /\ emitted = <<>>
  /\ status = "none"
  /\ archiver = "off"

\* GetCoordinators and GetExecutors; the API can refuse either list.
Search ==
  /\ exec = "search"
  /\ \/ /\ exec' = "idle"
        /\ kubeFound' = [coordinators |-> SearchPods(CoordinatorContainers),
                         executors |-> SearchPods(ExecutorContainers)]
        /\ minutes' = Cardinality(Running) \div 3 + 30
     \/ exec' = "error" /\ UNCHANGED <<kubeFound, minutes>>
  /\ UNCHANGED <<kubeRequest, target, cache, writer, status, archiver>>

Begin ==
  /\ exec = "idle"
  /\ IF kubeFound.coordinators \cup kubeFound.executors = {}
     THEN exec' = "error" /\ UNCHANGED target
     ELSE exec' = "lookup" /\ target' \in kubeFound.coordinators \cup kubeFound.executors
  /\ archiver' = IF exec' = "lookup" /\ op = "copy" THEN "writing" ELSE "off"
  /\ UNCHANGED <<kubeRequest, kubeFound, minutes, cache, writer, status>>

\* getPrimaryContainer, and the executor made for it.  An error of a copy
\* returns with its archiver blocked in the pipe.
Lookup ==
  /\ exec = "lookup"
  /\ \/ /\ exec' = "stream"
        /\ \E p \in kubePods : p.name = target /\ cache' =
             [n \in DOMAIN cache \cup {target} |->
                IF n \in DOMAIN cache THEN cache[n] ELSE FindDremioContainer(p.containers)]
     \/ exec' = "error" /\ UNCHANGED cache
  /\ UNCHANGED <<kubeRequest, kubeFound, minutes, target, writer, status, archiver>>

-----------------------------------------------------------------------------
(***************************************************************************)
(* K8SWriter.Write, in the goroutine of a stream; the buffer of the        *)
(* partial line has no lock.  A character is its stream and its place in   *)
(* it; a chunk is as long as the connection makes it.                      *)
(***************************************************************************)
Text(s, from, to) == [i \in 1..(to - from) |-> <<s, from + i>>]

NewlinesIn(s) ==
  {n \in (used[s] + 1)..heard[s] :
     \E i \in DOMAIN speech[s].newlines : n = speech[s].newlines[i]}

Receive(s) ==
  /\ exec = "stream" /\ op = "execute"
  /\ at[s] = "between"
  /\ \E upTo \in (heard[s] + 1)..speech[s].length : heard' = [heard EXCEPT ![s] = upTo]
  /\ at' = [at EXCEPT ![s] = "gather"]
  /\ UNCHANGED <<kubeRequest, exec, kubeNodes, used, partial, emitted, status, archiver>>

Gather(s) ==
  /\ at[s] = "gather"
  /\ \/ /\ NewlinesIn(s) # {}
        /\ used' = [used EXCEPT ![s] = Min(NewlinesIn(s)) - 1]
        /\ at' = [at EXCEPT ![s] = "emit"]
     \/ /\ NewlinesIn(s) = {}
        /\ used' = [used EXCEPT ![s] = heard[s]]
        /\ at' = [at EXCEPT ![s] = "between"]
  /\ partial' = partial \o Text(s, used[s], used'[s])
  /\ UNCHANGED <<kubeRequest, exec, kubeNodes, heard, emitted, status, archiver>>

Emit(s) ==
  /\ at[s] = "emit"
  /\ emitted' = Append(emitted, partial)
  /\ at' = [at EXCEPT ![s] = "clear"]
  /\ UNCHANGED <<kubeRequest, exec, kubeNodes, heard, used, partial, status, archiver>>

Clear(s) ==
  /\ at[s] = "clear"
  /\ partial' = <<>>
  /\ used' = [used EXCEPT ![s] = @ + 1]
  /\ at' = [at EXCEPT ![s] = "gather"]
  /\ UNCHANGED <<kubeRequest, exec, kubeNodes, heard, emitted, status, archiver>>

-----------------------------------------------------------------------------
AllHeard == \A s \in Streams : heard[s] = speech[s].length /\ at[s] = "between"

\* The command is over and both goroutines with it, or the hook cancels and
\* StreamWithContext does not wait for them.
StreamReturns ==
  /\ exec = "stream" /\ op = "execute"
  /\ \/ AllHeard /\ status' \in {"ok", "error"}
     \/ status' = "cancelled"
  /\ exec' = "flush"
  /\ UNCHANGED <<kubeRequest, kubeNodes, writer, archiver>>

Answer == IF status = "ok" THEN "ok" ELSE "error"

\* Mutant: what is left in the buffer is dropped.
DropRest ==
  /\ exec = "flush"
  /\ exec' = Answer
  /\ UNCHANGED <<kubeRequest, kubeNodes, writer, status, archiver>>

Flush ==
  /\ exec = "flush"
  /\ \/ /\ partial = <<>>
        /\ exec' = Answer
        /\ UNCHANGED emitted
     \/ /\ partial # <<>>
        /\ exec' = "flushed"
        /\ emitted' = Append(emitted, partial)
  /\ UNCHANGED <<kubeRequest, kubeNodes, heard, used, at, partial, status, archiver>>

Reset ==
  /\ exec = "flushed"
  /\ exec' = Answer
  /\ partial' = <<>>
  /\ UNCHANGED <<kubeRequest, kubeNodes, heard, used, at, emitted, status, archiver>>

-----------------------------------------------------------------------------
(***************************************************************************)
(* CopyToHost, with four minutes, and StreamFromHost, with timeoutMinutes. *)
(* The remote tar reads its input to the end before it succeeds.           *)
(***************************************************************************)
ArchiverEnds ==
  /\ archiver = "writing" /\ exec = "stream"
  /\ archiver' = "ended"
  /\ UNCHANGED <<kubeRequest, exec, kubeNodes, writer, status>>

TransferReturns ==
  /\ exec = "stream" /\ op \in {"copy", "read"}
  /\ \/ archiver # "writing" /\ exec' = "ok"
     \/ exec' = "error"
  /\ status' = exec'
  /\ UNCHANGED <<kubeRequest, kubeNodes, writer, archiver>>

KTReturned == exec \in {"ok", "error"} /\ \A s \in Streams : at[s] = "between"

KTNext == \/ Search \/ Begin \/ Lookup \/ StreamReturns \/ Flush \/ Reset
          \/ ArchiverEnds \/ TransferReturns
          \/ \E s \in Streams : Receive(s) \/ Gather(s) \/ Emit(s) \/ Clear(s)

KTSpec == KTInit /\ [][KTNext]_ktVars

-----------------------------------------------------------------------------
(***************************************************************************)
(* Properties.                                                             *)
(***************************************************************************)
\* The lines of a stream, the last one with or without its newline.
LineStart(s, k) == IF k = 1 THEN 0 ELSE speech[s].newlines[k - 1]
LineEnd(s, k) == IF k \in DOMAIN speech[s].newlines THEN speech[s].newlines[k] - 1
                 ELSE speech[s].length
LineOf(s, k) == Text(s, LineStart(s, k), LineEnd(s, k))
LineCount(s) ==
  LET terminated == Len(speech[s].newlines) IN
  IF LineStart(s, terminated + 1) < speech[s].length THEN terminated + 1 ELSE terminated

(* K8SWriter: a command that writes to one stream has its lines handed to  *)
(* the handler whole, in order and however the text is cut into chunks,    *)
(* the last one even without its newline.                                  *)
LinesWhole ==
  \A s \in Streams :
    /\ op = "execute" /\ status # "cancelled"
    /\ \A o \in Streams \ {s} : speech[o].length = 0
    => /\ Len(emitted) <= LineCount(s)
       /\ \A k \in DOMAIN emitted : emitted[k] = LineOf(s, k)
       /\ exec = "ok" => Len(emitted) = LineCount(s)
=============================================================================
