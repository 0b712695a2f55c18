---------------------------- MODULE ClusterData -----------------------------
(***************************************************************************)
(* clusterCollect: the resources of the namespace, then the previous logs  *)
(* of the pods that have restarted, then, when asked for, all logs.  A     *)
(* request to the API may fail or exceed its time; none ends the rest.     *)
(***************************************************************************)
EXTENDS Naturals, Sequences, Functions

CONSTANTS
  Namespaces,   \* sequences of pods: name, containers, inits, restarts, labelled
  Resources     \* the kinds of resource that are listed

ASSUME ResourcesLegal == Resources \in Seq(STRING)
ASSUME NamespacesLegal ==
  \A ns \in Namespaces : ns \in Seq(Range(ns)) /\ \A pod \in Range(ns) :
    /\ pod.containers \in Seq(STRING) /\ pod.inits \in Seq(STRING)
    /\ pod.labelled \in BOOLEAN
    /\ DOMAIN pod.restarts = Range(pod.containers) \cup Range(pod.inits)
    /\ \A c \in DOMAIN pod.restarts : pod.restarts[c] \in Nat

VARIABLES
  podList, selector, containerLogs,
  clusterStage, \* resources, previous, logs, over
  resources,    \* the ones to go
  objects,      \* per file of a kind, the kind of the objects in it
  listed,       \* the stages that had a list of the pods
  podsToGo,     \* the pods of this stage to go
  wanted,       \* the logs to go of the pod before them
  logs,         \* what is on disk: whole or partial
  unserved      \* the requests that left no file

clusterArgs == <<podList, selector, containerLogs>>
cdVars == <<clusterArgs, clusterStage, resources, objects, listed, podsToGo, wanted,
            logs, unserved>>

CDInit ==
  /\ podList \in Namespaces
  /\ selector \in BOOLEAN /\ containerLogs \in BOOLEAN
  /\ clusterStage = "resources"
  /\ resources = Resources
  /\ objects = <<>>
  /\ listed = {}
  /\ podsToGo = <<>>
  /\ wanted = <<>>
  /\ logs = <<>>
  /\ unserved = {}

StageAfter == IF clusterStage = "resources" THEN "previous"
              ELSE IF clusterStage = "previous" /\ containerLogs THEN "logs" ELSE "over"

-----------------------------------------------------------------------------
\* clusterExecuteBytes: two kinds list the objects of another one.
ListedAs(kind) == CASE kind = "daemonset" -> "statefulset"
                    [] kind = "resourcequota" -> "limitrange"
                    [] OTHER -> kind

(* ClusterK8sExecute: the list, the masking or the write of a kind fails    *)
(* and the next one follows, or kubernetes/<kind>.json is written.          *)
CollectResource ==
  /\ clusterStage = "resources" /\ resources # <<>>
  /\ resources' = Tail(resources)
  /\ LET kind == Head(resources) IN
     objects' \in {objects, [k \in DOMAIN objects \cup {kind} |-> ListedAs(k)]}
  /\ UNCHANGED <<clusterArgs, clusterStage, listed, podsToGo, wanted, logs, unserved>>

\* The stage has done its work, or has no directory or no list of pods.
EndStage ==
  /\ \/ clusterStage = "resources" /\ resources \in {Resources, <<>>}
     \/ /\ clusterStage \in {"previous", "logs"}
        /\ clusterStage \in listed => podsToGo = <<>> /\ wanted = <<>>
  /\ clusterStage' = StageAfter
  /\ resources' = <<>>
  /\ UNCHANGED <<clusterArgs, objects, listed, podsToGo, wanted, logs, unserved>>

-----------------------------------------------------------------------------
Containers(pod) == pod.containers \o pod.inits
Selected(pod) == selector => pod.labelled

\* Mutant: the init containers of a pod are not looked at.
ServersRestarted(pod) == \E c \in Range(pod.containers) : pod.restarts[c] > 0
PodHasRestarts(pod) == \E c \in Range(Containers(pod)) : pod.restarts[c] > 0

Log(pod, c, previous) == [pod |-> pod.name, container |-> c, previous |-> previous]

PreviousLogs(pod) == [i \in 1..Len(Containers(pod)) |-> Log(pod, Containers(pod)[i], TRUE)]
\* The previous log of each container, and then its current one.
AllLogs(pod) == [i \in 1..(2 * Len(Containers(pod))) |->
                   Log(pod, Containers(pod)[(i + 1) \div 2], i % 2 = 1)]

\* GetPreviousLogsForRestartedPods and GetClusterLogs: the pods of the selector.
ListPodsOfStage ==
  /\ clusterStage \in {"previous", "logs"} /\ clusterStage \notin listed
  /\ listed' = listed \cup {clusterStage}
  /\ podsToGo' = podList
  /\ UNCHANGED <<clusterArgs, clusterStage, resources, objects, wanted, logs, unserved>>

\* A pod the selector leaves out is not in the answer of the API.
NextPod ==
  /\ podsToGo # <<>> /\ wanted = <<>>
  /\ podsToGo' = Tail(podsToGo)
  /\ LET pod == Head(podsToGo) IN
     wanted' = IF ~Selected(pod) THEN <<>>
               ELSE IF clusterStage = "logs" THEN AllLogs(pod)
               ELSE IF PodHasRestarts(pod) THEN PreviousLogs(pod) ELSE <<>>
  /\ UNCHANGED <<clusterArgs, clusterStage, resources, objects, listed, logs, unserved>>

(* copyContainerLog: without a stream, or with one that breaks, there is no *)
(* file; with one that exceeds its time, what had come is written.  A file  *)
(* of the stage before is replaced either way.                              *)
CopyContainerLog ==
  /\ wanted # <<>>
  /\ wanted' = Tail(wanted)
  /\ LET log == Head(wanted) IN
     \/ /\ \E how \in {"whole", "partial"} :
             logs' = [l \in DOMAIN logs \cup {log} |-> IF l = log THEN how ELSE logs[l]]
        /\ UNCHANGED unserved
     \/ unserved' = unserved \cup {log} /\ UNCHANGED logs
  /\ UNCHANGED <<clusterArgs, clusterStage, resources, objects, listed, podsToGo>>

Over == clusterStage = "over"

CDNext == CollectResource \/ EndStage \/ ListPodsOfStage \/ NextPod \/ CopyContainerLog

CDSpec == CDInit /\ [][CDNext]_cdVars

-----------------------------------------------------------------------------
(***************************************************************************)
(* Properties.                                                             *)
(***************************************************************************)
(* What the comment of GetPreviousLogsForRestartedPods says: restart       *)
(* evidence is always captured, container logs asked for or not.  Each     *)
(* container that restarted has its previous log on disk, unless the API   *)
(* did not list the pods or did not serve the log.                         *)
RestartEvidence ==
  Over /\ "previous" \in listed =>
    \A pod \in Range(podList) : Selected(pod) =>
      \A c \in DOMAIN pod.restarts :
        pod.restarts[c] > 0 => Log(pod, c, TRUE) \in DOMAIN logs \cup unserved
=============================================================================
