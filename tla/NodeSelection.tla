--------------------------- MODULE NodeSelection ---------------------------
(***************************************************************************)
(* Which nodes are collected from: the pods or hosts that the diagnosis    *)
(* form offers, what its user keeps of them, the flags --nodes and         *)
(* --exclude-nodes, the search of the transport and the filters that       *)
(* ExecuteStreamingCollect applies to it.  The transport is ssh, or        *)
(* kubectl, whose SearchPods asks for the container of every pod in a      *)
(* goroutine of its own and goes on without the pods it has no answer for. *)
(* A pod is its name and the container FindDremioContainer chooses in it.  *)
(***************************************************************************)
EXTENDS FiniteSets, Naturals

CONSTANTS
  PodSets,    \* the running pods, a set of name and container
  HostLists,  \* what --coordinator and --executors list, for ssh
  NodeFlags   \* what --nodes and --exclude-nodes list: include, exclude

(* A pod that comes back under its name has the container it had.          *)
ASSUME PodsKeepContainers ==
  \A p, q \in UNION PodSets : p.name = q.name => p = q

Roles == {"coordinators", "executors"}

VARIABLES
  transport, form, flags,
  pods, hosts,
  offered,         \* the nodes the form shows, by role
  kept,            \* those of them its user leaves selected
  nodesFlag,
  stage,           \* discover, form, validate, a role, select, collect, error
  goroutine,       \* of a pod in SearchPods: asking, named, over
  containerNames,  \* the cache of the transport
  unanswered,      \* the pods SearchPods logs and leaves out, by role
  found,           \* the nodes of the search, by role
  selected         \* the nodes to collect from, by role

request == <<transport, form, flags, hosts>>
choice == <<offered, kept, nodesFlag>>
search == <<goroutine, containerNames, unanswered, found>>
vars == <<request, pods, choice, stage, search, selected>>

-----------------------------------------------------------------------------
Names == {p.name : p \in pods}
Container(n) == (CHOOSE p \in pods : p.name = n).container
ByRole(c, e) == [r \in Roles |-> IF r = "coordinators" THEN c ELSE e]
Both(byRole) == byRole["coordinators"] \cup byRole["executors"]
Nobody == ByRole({}, {})

SaysCoordinator == {"dremio-coordinator", "dremio-master-coordinator", "coordinator"}
SaysMaster == {"dremio-master", "dremio-master-coordinator"}

IsCoordinator(c) == c \in SaysCoordinator
IsExecutor(c) == c = "dremio-executor"
HasRole(r, c) == IF r = "coordinators" THEN IsCoordinator(c) ELSE IsExecutor(c)

\* The form takes every other pod for an executor.
DiscoverPods ==
  LET coordinators == {n \in Names : Container(n) \in SaysCoordinator \cup SaysMaster}
  IN  ByRole(coordinators, Names \ coordinators)

Init ==
  /\ transport \in {"ssh", "kubectl"} /\ form \in BOOLEAN
  /\ hosts \in HostLists
  /\ flags \in IF transport = "ssh" THEN {[include |-> {}, exclude |-> {}]} ELSE NodeFlags
  /\ pods \in PodSets
  /\ offered = Nobody
  /\ kept = {}
  /\ nodesFlag = flags.include
  /\ stage = IF form THEN "discover" ELSE "validate"
  /\ goroutine = <<>>
  /\ containerNames = <<>>
  /\ unanswered = Nobody
  /\ found = Nobody
  /\ selected = Nobody

\* Without an answer the form goes on and offers no pods.
Discover ==
  /\ stage = "discover"
  /\ offered' \in IF transport = "ssh" THEN {hosts} ELSE {DiscoverPods, Nobody}
  /\ stage' = "form"
  /\ UNCHANGED <<request, pods, kept, nodesFlag, search, selected>>

\* What the user selects, intersected with what was offered.
Selections == SUBSET Both(offered)

\* The page with the nodes is shown for pods only.
Submit ==
  /\ stage = "form"
  /\ IF transport = "ssh" \/ Both(offered) = {}
     THEN stage' = "validate" /\ UNCHANGED <<kept, nodesFlag>>
     ELSE /\ kept' \in Selections
          /\ stage' = IF kept' = {} THEN "error" ELSE "validate"
          /\ nodesFlag' = IF kept' \in {{}, Both(offered)} THEN nodesFlag ELSE kept'
  /\ UNCHANGED <<request, pods, offered, search, selected>>

\* Pods may be replaced while the form is shown.
PodsChange ==
  /\ stage = "form"
  /\ pods' \in PodSets \ {pods}
  /\ UNCHANGED <<request, choice, stage, search, selected>>

Validate ==
  /\ stage = "validate"
  /\ stage' = IF nodesFlag # {} /\ flags.exclude # {} THEN "error" ELSE "coordinators"
  /\ UNCHANGED <<request, pods, choice, search, selected>>

-----------------------------------------------------------------------------
NextStage == IF stage = "coordinators" THEN "executors" ELSE "select"

FindHosts ==
  /\ stage \in Roles /\ transport = "ssh"
  /\ found' = [found EXCEPT ![stage] = hosts[stage]]
  /\ stage' = NextStage
  /\ UNCHANGED <<request, pods, choice, goroutine, containerNames, unanswered, selected>>

ListPods ==
  /\ stage \in Roles /\ transport = "kubectl" /\ goroutine = <<>>
  /\ \/ /\ pods # {}
        /\ goroutine' = [n \in Names |->
                           IF n \in DOMAIN containerNames THEN "named" ELSE "asking"]
        /\ UNCHANGED stage
     \/ pods = {} /\ stage' = NextStage /\ UNCHANGED goroutine
     \/ stage' = "error" /\ UNCHANGED goroutine
  /\ UNCHANGED <<request, pods, choice, containerNames, unanswered, found, selected>>

\* getContainerName with its retries; SearchPods only logs its error.
Resolve(n) ==
  /\ n \in DOMAIN goroutine /\ goroutine[n] = "asking"
  /\ \/ /\ goroutine' = [goroutine EXCEPT ![n] = "named"]
        /\ containerNames' = [m \in DOMAIN containerNames \cup {n} |->
                                IF m = n THEN Container(n) ELSE containerNames[m]]
        /\ UNCHANGED unanswered
     \/ /\ goroutine' = [goroutine EXCEPT ![n] = "over"]
        /\ unanswered' = [unanswered EXCEPT ![stage] = @ \cup {n}]
        /\ UNCHANGED containerNames
  /\ UNCHANGED <<request, pods, choice, stage, found, selected>>

AddPod(n) ==
  /\ n \in DOMAIN goroutine /\ goroutine[n] = "named"
  /\ goroutine' = [goroutine EXCEPT ![n] = "over"]
  /\ found' = IF HasRole(stage, containerNames[n])
              THEN [found EXCEPT ![stage] = @ \cup {n}] ELSE found
  /\ UNCHANGED <<request, pods, choice, stage, containerNames, unanswered, selected>>

EndSearch ==
  /\ stage \in Roles /\ goroutine # <<>>
  /\ \A n \in DOMAIN goroutine : goroutine[n] = "over"
  /\ goroutine' = <<>>
  /\ stage' = NextStage
  /\ UNCHANGED <<request, pods, choice, containerNames, unanswered, found, selected>>

-----------------------------------------------------------------------------
\* Mutant: a host listed in both roles is collected from twice.
KeepDuplicates(executors, coordinators) == executors

FilterExecutors(executors, coordinators) == executors \ coordinators

FilterByNodeSelection(ns) ==
  IF nodesFlag # {} THEN ns \cap nodesFlag ELSE ns \ flags.exclude

Select ==
  /\ stage = "select"
  /\ selected' = ByRole(
       FilterByNodeSelection(found["coordinators"]),
       FilterByNodeSelection(FilterExecutors(found["executors"], found["coordinators"])))
  /\ stage' = IF Both(selected') = {} THEN "error" ELSE "collect"
  /\ UNCHANGED <<request, pods, choice, search>>

Next == \/ Discover \/ Submit \/ PodsChange \/ Validate
        \/ FindHosts \/ ListPods \/ EndSearch \/ Select
        \/ \E n \in DOMAIN goroutine : Resolve(n) \/ AddPod(n)

Spec == Init /\ [][Next]_vars

Chosen == stage \in {"collect", "error"}

-----------------------------------------------------------------------------
(***************************************************************************)
(* Properties.                                                             *)
(***************************************************************************)
CollectedOnce == selected["coordinators"] \cap selected["executors"] = {}

AsOffered ==
  \A r \in Roles : selected[r] \cap Both(offered) \subseteq offered[r]

NoneRefused ==
  /\ Both(selected) \cap flags.exclude = {}
  /\ kept # {} => Both(selected) \cap Both(offered) \subseteq kept
  /\ ~form /\ flags.include # {} => Both(selected) \subseteq flags.include

\* What the search accepts for a role is collected in it.
AcceptedCollected ==
  \A r \in Roles : \A n \in Names :
    HasRole(r, Container(n)) =>
      \/ n \in selected[r] \cup unanswered[r] \cup flags.exclude
      \/ flags.include # {} /\ n \notin flags.include
      \/ kept # {} /\ n \notin kept

(* The collection runs on the nodes that were chosen, as far as the search  *)
(* accepts their containers: each once and in the role the form showed,     *)
(* none that its user or a flag left out, and a pod with a container that   *)
(* GetCoordinators or GetExecutors accepts is missing only if its lookup    *)
(* failed.  A pod with another container is never found, also one that the  *)
(* form offered and its user kept: OfferIsFound is about those.             *)
NodesAsChosen ==
  stage = "collect" =>
    /\ CollectedOnce /\ NoneRefused
    /\ transport = "kubectl" => AsOffered /\ AcceptedCollected

(* What kubernetes.go:602 says of DiscoverPods, that it uses the same       *)
(* container-name matching logic as SearchPods: a pod that the form offers  *)
(* in a role, that its user keeps and that runs when the collection begins  *)
(* has been found in this role, unless its lookup failed.                   *)
OfferIsFound ==
  stage = "collect" /\ transport = "kubectl" =>
    \A r \in Roles :
      offered[r] \cap kept \cap Names \subseteq found[r] \cup unanswered[r]
=============================================================================
