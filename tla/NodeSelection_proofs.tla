------------------------ MODULE NodeSelection_proofs -------------------------
(***************************************************************************)
(* Proof that the nodes of a collection are those that were chosen, for    *)
(* all pods, hosts and flags, given PodsKeepContainers.                    *)
(***************************************************************************)
EXTENDS NodeSelection, TLAPS

Searching == stage \in Roles
BeforeSearch == stage \in {"discover", "form", "validate"}
Searched == {r \in Roles : \/ stage = "executors" /\ r = "coordinators"
                           \/ stage \in {"select", "collect"}}

\* What is known of the variables that are not needed in full.
ShapeInv ==
  /\ transport \in {"ssh", "kubectl"}
  /\ form \in BOOLEAN
  /\ pods \in PodSets
  /\ stage \in {"discover", "form", "validate", "select", "collect", "error"} \cup Roles
  /\ found = [r \in Roles |-> found[r]]
  /\ unanswered = [r \in Roles |-> unanswered[r]]

\* The flag is the user's, or what is selected of the offer.
FlagInv ==
  /\ kept \subseteq Both(offered)
  /\ nodesFlag = IF kept \in {{}, Both(offered)} THEN flags.include ELSE kept
  /\ ~form => kept = {} /\ stage \notin {"discover", "form"}
  /\ stage \in {"discover", "form"} => kept = {}
  /\ transport = "ssh" => kept = {} /\ flags = [include |-> {}, exclude |-> {}]
  /\ stage \in Roles \cup {"select", "collect"} => nodesFlag = {} \/ flags.exclude = {}

\* Every pod under an offered name has a container of the role it is offered in.
OfferInv ==
  transport = "kubectl" =>
    \A p \in UNION PodSets :
      /\ p.name \in offered["coordinators"] => p.container \in SaysCoordinator \cup SaysMaster
      /\ p.name \in offered["executors"] => p.container \notin SaysCoordinator \cup SaysMaster

\* The cache tells the truth, and the pods do not change once it is filled.
CacheInv ==
  /\ BeforeSearch => containerNames = <<>> /\ found = Nobody
  /\ \A n \in DOMAIN containerNames : containerNames[n] = Container(n)

\* The goroutines of one search are those of the pods.
GoroutineInv ==
  /\ goroutine # <<>> => Searching /\ transport = "kubectl" /\ DOMAIN goroutine = Names
  /\ \A n \in DOMAIN goroutine :
       /\ goroutine[n] = "named" => n \in DOMAIN containerNames
       /\ goroutine[n] = "over" /\ HasRole(stage, Container(n)) =>
            n \in found[stage] \cup unanswered[stage]

\* A search finds pods of its role, and when it is over all that answered.
FoundInv ==
  transport = "kubectl" =>
    /\ \A r \in Roles : \A n \in found[r] : n \in Names /\ HasRole(r, Container(n))
    /\ \A r \in Searched : \A n \in Names :
         HasRole(r, Container(n)) => n \in found[r] \cup unanswered[r]

SelectedInv ==
  stage = "collect" =>
    selected = ByRole(
      FilterByNodeSelection(found["coordinators"]),
      FilterByNodeSelection(FilterExecutors(found["executors"], found["coordinators"])))

IInv == /\ ShapeInv /\ FlagInv /\ OfferInv /\ CacheInv
        /\ GoroutineInv /\ FoundInv /\ SelectedInv

-----------------------------------------------------------------------------
LEMMA EmptyDomain == DOMAIN <<>> = {}
OBVIOUS

LEMMA RolesDiffer == "coordinators" \in Roles /\ "executors" \in Roles /\ "coordinators" # "executors"
BY DEF Roles

\* The container of a pod that runs is the one it has in every set of pods.
LEMMA ContainerOf ==
  ASSUME pods \in PodSets,
         NEW p \in UNION PodSets, p.name \in Names
  PROVE  Container(p.name) = p.container
<1>1. PICK q \in pods : q.name = p.name
  BY DEF Names
<1> DEFINE c == CHOOSE x \in pods : x.name = p.name
<1>2. c \in pods /\ c.name = p.name
  BY <1>1
<1>3. c = p
  BY <1>2, PodsKeepContainers
<1> QED
  BY <1>3 DEF Container

LEMMA InitIInv == Init => IInv
<1> SUFFICES ASSUME Init PROVE IInv
  OBVIOUS
<1> USE RolesDiffer, EmptyDomain
<1>1. ShapeInv
  BY DEF Init, ShapeInv, Nobody, ByRole
<1>2. FlagInv
  BY DEF Init, FlagInv, Roles
<1>3. OfferInv
  BY DEF Init, OfferInv, Nobody, ByRole
<1>4. CacheInv
  BY DEF Init, CacheInv
<1>5. GoroutineInv
  BY DEF Init, GoroutineInv
<1>6. FoundInv
  BY DEF Init, FoundInv, Nobody, ByRole, Searched, Roles
<1>7. SelectedInv
  BY DEF Init, SelectedInv
<1> QED
  BY <1>1, <1>2, <1>3, <1>4, <1>5, <1>6, <1>7 DEF IInv

-----------------------------------------------------------------------------
(***************************************************************************)
(* The steps before the search leave its variables alone.                  *)
(***************************************************************************)
LEMMA DiscoverStep ==
  ASSUME IInv, Discover
  PROVE  IInv'
<1> USE RolesDiffer, EmptyDomain DEF IInv
<1>1. ShapeInv'
  BY DEF Discover, ShapeInv, request, search
<1>2. FlagInv'
  <2>1. kept = {} /\ kept' = {} /\ stage' = "form" /\ form' = form /\ form
    BY DEF Discover, FlagInv, ShapeInv, request
  <2> QED
    BY <2>1, RolesDiffer DEF Discover, FlagInv, request, Roles
<1>3. OfferInv'
  <2> SUFFICES ASSUME transport = "kubectl",
                      NEW p \in UNION PodSets
               PROVE  /\ p.name \in offered'["coordinators"] =>
                           p.container \in SaysCoordinator \cup SaysMaster
                      /\ p.name \in offered'["executors"] =>
                           p.container \notin SaysCoordinator \cup SaysMaster
    BY DEF OfferInv, Discover, request
  <2>1. CASE offered' = Nobody
    BY <2>1 DEF Nobody, ByRole
  <2>2. CASE offered' = DiscoverPods
    <3>1. p.name \in Names => Container(p.name) = p.container
      BY ContainerOf DEF ShapeInv
    <3> QED
      BY <2>2, <3>1 DEF DiscoverPods, ByRole
  <2> QED
    BY <2>1, <2>2 DEF Discover
<1>4. CacheInv'
  BY DEF Discover, CacheInv, search, BeforeSearch, Container
<1>5. GoroutineInv'
  BY DEF Discover, GoroutineInv, search, Searching, Roles
<1>6. FoundInv'
  BY DEF Discover, FoundInv, CacheInv, BeforeSearch, search, request, Searched, Nobody, ByRole, Roles
<1>7. SelectedInv'
  BY DEF Discover, SelectedInv
<1> QED
  BY <1>1, <1>2, <1>3, <1>4, <1>5, <1>6, <1>7 DEF IInv

LEMMA SubmitStep ==
  ASSUME IInv, Submit
  PROVE  IInv'
<1> USE RolesDiffer, EmptyDomain DEF IInv
<1>0. stage' \in {"validate", "error"}
  BY DEF Submit
<1>1. ShapeInv'
  BY <1>0 DEF Submit, ShapeInv, request, search
<1>2. FlagInv'
  <2>1. form' = form /\ flags' = flags /\ transport' = transport /\ offered' = offered
    BY DEF Submit, request
  <2>2. kept = {} /\ form /\ nodesFlag = flags.include
    BY DEF Submit, FlagInv, ShapeInv
  <2>3. CASE transport = "ssh" \/ Both(offered) = {}
    BY <1>0, <2>1, <2>2, <2>3 DEF Submit, FlagInv, Both, Roles
  <2>4. CASE ~(transport = "ssh" \/ Both(offered) = {})
    <3>1. kept' \in SUBSET Both(offered)
      BY <2>4 DEF Submit, Selections
    <3>2. nodesFlag' = IF kept' \in {{}, Both(offered)} THEN nodesFlag ELSE kept'
      BY <2>4 DEF Submit
    <3>3. Both(offered)' = Both(offered)
      BY <2>1 DEF Both
    <3>4. stage' \notin Roles \cup {"select", "collect", "discover", "form"}
      BY <1>0 DEF Roles
    <3> QED
      BY <2>1, <2>2, <2>4, <3>1, <3>2, <3>3, <3>4 DEF FlagInv
  <2> QED
    BY <2>3, <2>4
<1>3. OfferInv'
  BY DEF Submit, OfferInv, request
<1>4. CacheInv'
  BY DEF Submit, CacheInv, search, BeforeSearch, Container
<1>5. GoroutineInv'
  BY <1>0 DEF Submit, GoroutineInv, search, Searching, Roles
<1>6. FoundInv'
  BY <1>0 DEF Submit, FoundInv, CacheInv, BeforeSearch, search, request, Searched, Nobody, ByRole, Roles
<1>7. SelectedInv'
  BY <1>0 DEF SelectedInv
<1> QED
  BY <1>1, <1>2, <1>3, <1>4, <1>5, <1>6, <1>7 DEF IInv

LEMMA PodsChangeStep ==
  ASSUME IInv, PodsChange
  PROVE  IInv'
<1> USE RolesDiffer, EmptyDomain DEF IInv
<1>0. stage = "form" /\ stage' = "form" /\ containerNames = <<>> /\ found = Nobody /\ goroutine = <<>>
  BY DEF PodsChange, CacheInv, BeforeSearch, GoroutineInv, Searching, Roles
<1>1. ShapeInv'
  BY DEF PodsChange, ShapeInv, request, search
<1>2. FlagInv'
  BY DEF PodsChange, FlagInv, request, choice, Both
<1>3. OfferInv'
  BY DEF PodsChange, OfferInv, request, choice
<1>4. CacheInv'
  BY <1>0 DEF PodsChange, CacheInv, search
<1>5. GoroutineInv'
  BY <1>0 DEF PodsChange, GoroutineInv, search
<1>6. FoundInv'
  BY <1>0 DEF PodsChange, FoundInv, search, Searched, Nobody, ByRole, Roles
<1>7. SelectedInv'
  BY <1>0 DEF SelectedInv
<1> QED
  BY <1>1, <1>2, <1>3, <1>4, <1>5, <1>6, <1>7 DEF IInv

LEMMA ValidateStep ==
  ASSUME IInv, Validate
  PROVE  IInv'
<1> USE RolesDiffer, EmptyDomain DEF IInv
<1>0. stage = "validate" /\ stage' \in {"error", "coordinators"} /\ containerNames = <<>>
      /\ found = Nobody /\ goroutine = <<>>
  BY DEF Validate, CacheInv, BeforeSearch, GoroutineInv, Searching, Roles
<1>1. ShapeInv'
  BY <1>0 DEF Validate, ShapeInv, request, search, Roles
<1>2. FlagInv'
  <2>1. UNCHANGED <<transport, form, flags, kept, offered, nodesFlag>> /\ Both(offered)' = Both(offered)
    BY DEF Validate, request, choice, Both
  <2>2. stage' \in {"discover", "form"} => FALSE
    BY <1>0
  <2>3. stage' \in Roles \cup {"select", "collect"} => nodesFlag = {} \/ flags.exclude = {}
    BY <1>0 DEF Validate, Roles
  <2> QED
    BY <2>1, <2>2, <2>3 DEF FlagInv
<1>3. OfferInv'
  BY DEF Validate, OfferInv, request, choice
<1>4. CacheInv'
  BY <1>0 DEF Validate, CacheInv, search, BeforeSearch
<1>5. GoroutineInv'
  BY <1>0 DEF Validate, GoroutineInv, search
<1>6. FoundInv'
  BY <1>0 DEF Validate, FoundInv, search, Searched, Nobody, ByRole, Roles
<1>7. SelectedInv'
  BY <1>0 DEF SelectedInv
<1> QED
  BY <1>1, <1>2, <1>3, <1>4, <1>5, <1>6, <1>7 DEF IInv

-----------------------------------------------------------------------------
(***************************************************************************)
(* The search.                                                             *)
(***************************************************************************)
\* What a step of the search leaves alone, for the parts that do not speak of it.
LEMMA ChoiceKept ==
  ASSUME IInv, UNCHANGED <<transport, form, flags, offered, kept, nodesFlag>>,
         stage \in Roles \cup {"select"},
         stage' \in Roles \cup {"select", "collect", "error"}
  PROVE  FlagInv' /\ OfferInv'
<1>1. Both(offered)' = Both(offered)
  BY DEF Both
<1>2. stage' \notin {"discover", "form"}
  BY DEF Roles
<1>3. FlagInv'
  BY <1>1, <1>2 DEF IInv, FlagInv
<1>4. OfferInv'
  BY DEF IInv, OfferInv
<1> QED
  BY <1>3, <1>4

LEMMA FindHostsStep ==
  ASSUME IInv, FindHosts
  PROVE  IInv'
<1> USE RolesDiffer, EmptyDomain
<1>0. stage \in Roles /\ stage' \in {"executors", "select"} /\ transport = "ssh" /\ transport' = "ssh"
      /\ goroutine = <<>> /\ goroutine' = <<>>
  BY DEF FindHosts, NextStage, IInv, GoroutineInv, request
<1>1. ShapeInv'
  BY <1>0 DEF FindHosts, IInv, ShapeInv, request, Roles
<1>2. FlagInv' /\ OfferInv'
  BY <1>0, ChoiceKept DEF FindHosts, request, choice, Roles
<1>3. CacheInv'
  BY <1>0 DEF FindHosts, IInv, CacheInv, BeforeSearch, Container
<1>4. GoroutineInv'
  BY <1>0 DEF GoroutineInv
<1>5. FoundInv'
  BY <1>0 DEF FoundInv
<1>6. SelectedInv'
  BY <1>0 DEF SelectedInv
<1> QED
  BY <1>1, <1>2, <1>3, <1>4, <1>5, <1>6 DEF IInv

\* A search that is over has gone through the pods of its role.
LEMMA SearchOver ==
  ASSUME IInv, transport = "kubectl", stage \in Roles, stage' = NextStage,
         UNCHANGED <<transport, pods, found, unanswered>>,
         \A n \in Names : HasRole(stage, Container(n)) => n \in found[stage] \cup unanswered[stage]
  PROVE  FoundInv'
<1>1. Searched' \subseteq Searched \cup {stage}
  BY DEF Searched, NextStage, Roles
<1>2. Names' = Names /\ \A n : Container(n)' = Container(n)
  BY DEF Names, Container
<1>3. \A r : \A n : HasRole(r, Container(n))' = HasRole(r, Container(n))
  BY <1>2 DEF HasRole, IsCoordinator, IsExecutor
<1>4. \A r \in Roles : \A n \in found[r] : n \in Names /\ HasRole(r, Container(n))
  BY DEF IInv, FoundInv
<1>5. \A r \in Searched : \A n \in Names :
        HasRole(r, Container(n)) => n \in found[r] \cup unanswered[r]
  BY DEF IInv, FoundInv
<1> QED
  BY <1>1, <1>2, <1>3, <1>4, <1>5 DEF FoundInv

LEMMA ListPodsStep ==
  ASSUME IInv, ListPods
  PROVE  IInv'
<1> USE RolesDiffer, EmptyDomain
<1>0. stage \in Roles /\ transport = "kubectl" /\ goroutine = <<>>
  BY DEF ListPods
<1>1. UNCHANGED <<transport, form, flags, hosts, pods, offered, kept, nodesFlag,
                  containerNames, unanswered, found, selected>>
  BY DEF ListPods, request, choice
<1>2. Names' = Names /\ \A n : Container(n)' = Container(n)
  BY <1>1 DEF Names, Container
<1>3. CASE pods # {} /\ stage' = stage
           /\ goroutine' = [n \in Names |->
                              IF n \in DOMAIN containerNames THEN "named" ELSE "asking"]
  <2>1. ShapeInv'
    BY <1>1, <1>3 DEF IInv, ShapeInv
  <2>2. FlagInv' /\ OfferInv'
    BY <1>0, <1>1, <1>3, ChoiceKept
  <2>3. CacheInv'
    BY <1>0, <1>1, <1>2, <1>3 DEF IInv, CacheInv, BeforeSearch, Roles
  <2>4. GoroutineInv'
    <3>1. DOMAIN goroutine' = Names
      BY <1>3
    <3>2. \A n \in Names : goroutine'[n] # "over" /\ (goroutine'[n] = "named" => n \in DOMAIN containerNames)
      BY <1>3
    <3> QED
      BY <1>0, <1>1, <1>2, <1>3, <3>1, <3>2 DEF GoroutineInv, Searching
  <2>5. FoundInv'
    <3>1. Searched' = Searched
      BY <1>3 DEF Searched
    <3>2. \A r : \A n : HasRole(r, Container(n))' = HasRole(r, Container(n))
      BY <1>2 DEF HasRole, IsCoordinator, IsExecutor
    <3> QED
      BY <1>1, <1>2, <3>1, <3>2 DEF IInv, FoundInv
  <2>6. SelectedInv'
    BY <1>0, <1>3 DEF SelectedInv, Roles
  <2> QED
    BY <2>1, <2>2, <2>3, <2>4, <2>5, <2>6 DEF IInv
<1>4. CASE goroutine' = goroutine /\ ((pods = {} /\ stage' = NextStage) \/ stage' = "error")
  <2>0. stage' \in {"executors", "select", "error"} /\ goroutine' = <<>>
    BY <1>0, <1>4 DEF NextStage
  <2>1. ShapeInv'
    BY <1>1, <2>0 DEF IInv, ShapeInv, Roles
  <2>2. FlagInv' /\ OfferInv'
    BY <1>0, <1>1, <2>0, ChoiceKept DEF Roles
  <2>3. CacheInv'
    BY <1>1, <1>2, <2>0 DEF IInv, CacheInv, BeforeSearch
  <2>4. GoroutineInv'
    BY <2>0 DEF GoroutineInv
  <2>5. FoundInv'
    <3>1. CASE stage' = NextStage /\ pods = {}
      BY <1>0, <1>1, <3>1, SearchOver DEF Names
    <3>2. CASE stage' = "error"
      <4>1. Searched' = {}
        BY <3>2 DEF Searched
      <4>2. \A r : \A n : HasRole(r, Container(n))' = HasRole(r, Container(n))
        BY <1>2 DEF HasRole, IsCoordinator, IsExecutor
      <4> QED
        BY <1>1, <1>2, <4>1, <4>2 DEF IInv, FoundInv
    <3> QED
      BY <1>4, <3>1, <3>2
  <2>6. SelectedInv'
    BY <2>0 DEF SelectedInv
  <2> QED
    BY <2>1, <2>2, <2>3, <2>4, <2>5, <2>6 DEF IInv
<1> QED
  BY <1>3, <1>4 DEF ListPods

LEMMA ResolveStep ==
  ASSUME IInv, NEW n \in DOMAIN goroutine, Resolve(n)
  PROVE  IInv'
<1> USE RolesDiffer, EmptyDomain
<1>0. goroutine # <<>> /\ stage \in Roles /\ transport = "kubectl" /\ DOMAIN goroutine = Names
  BY DEF IInv, GoroutineInv, Searching
<1>1. UNCHANGED <<transport, form, flags, hosts, pods, offered, kept, nodesFlag,
                  stage, found, selected>>
  BY DEF Resolve, request, choice
<1>2. Names' = Names /\ (\A m : Container(m)' = Container(m)) /\ Searched' = Searched
  BY <1>1 DEF Names, Container, Searched
<1>3. \A r : \A m : HasRole(r, Container(m))' = HasRole(r, Container(m))
  BY <1>2 DEF HasRole, IsCoordinator, IsExecutor
<1>4. DOMAIN goroutine' = Names
  BY <1>0 DEF Resolve
<1>5. \A m \in Names \ {n} : goroutine'[m] = goroutine[m]
  BY <1>0 DEF Resolve
<1>6. /\ unanswered' = [r \in Roles |-> unanswered'[r]]
      /\ \A r \in Roles : unanswered[r] \subseteq unanswered'[r]
  BY <1>0 DEF Resolve, IInv, ShapeInv
<1>7. DOMAIN containerNames \subseteq DOMAIN containerNames'
      /\ \A m \in DOMAIN containerNames' : containerNames'[m] = Container(m)
  BY DEF Resolve, IInv, CacheInv
<1>8. \/ goroutine'[n] = "named" /\ n \in DOMAIN containerNames'
      \/ goroutine'[n] = "over" /\ n \in unanswered'[stage]
  BY <1>0 DEF Resolve, IInv, ShapeInv
<1>9. ShapeInv'
  BY <1>1, <1>6 DEF IInv, ShapeInv
<1>10. FlagInv' /\ OfferInv'
  BY <1>0, <1>1, ChoiceKept
<1>11. CacheInv'
  BY <1>0, <1>1, <1>2, <1>7 DEF CacheInv, BeforeSearch, Roles
<1>12. GoroutineInv'
  <2>1. \A m \in Names :
          /\ goroutine'[m] = "named" => m \in DOMAIN containerNames'
          /\ goroutine'[m] = "over" /\ HasRole(stage, Container(m)) =>
               m \in found[stage] \cup unanswered'[stage]
    BY <1>0, <1>5, <1>6, <1>7, <1>8 DEF IInv, GoroutineInv
  <2> QED
    BY <1>0, <1>1, <1>2, <1>3, <1>4, <2>1 DEF GoroutineInv, Searching
<1>13. FoundInv'
  <2>1. \A r \in Searched : \A m \in Names :
          HasRole(r, Container(m)) => m \in found[r] \cup unanswered'[r]
    BY <1>0, <1>6 DEF IInv, FoundInv, Searched
  <2> QED
    BY <1>0, <1>1, <1>2, <1>3, <2>1 DEF IInv, FoundInv
<1>14. SelectedInv'
  BY <1>0, <1>1 DEF SelectedInv, Roles
<1> QED
  BY <1>9, <1>10, <1>11, <1>12, <1>13, <1>14 DEF IInv

LEMMA AddPodStep ==
  ASSUME IInv, NEW n \in DOMAIN goroutine, AddPod(n)
  PROVE  IInv'
<1> USE RolesDiffer, EmptyDomain
<1>0. goroutine # <<>> /\ stage \in Roles /\ transport = "kubectl" /\ DOMAIN goroutine = Names
  BY DEF IInv, GoroutineInv, Searching
<1>1. UNCHANGED <<transport, form, flags, hosts, pods, offered, kept, nodesFlag,
                  stage, containerNames, unanswered, selected>>
  BY DEF AddPod, request, choice
<1>2. Names' = Names /\ (\A m : Container(m)' = Container(m)) /\ Searched' = Searched
  BY <1>1 DEF Names, Container, Searched
<1>3. \A r : \A m : HasRole(r, Container(m))' = HasRole(r, Container(m))
  BY <1>2 DEF HasRole, IsCoordinator, IsExecutor
<1>4. DOMAIN goroutine' = Names /\ goroutine'[n] = "over"
  BY <1>0 DEF AddPod
<1>5. \A m \in Names \ {n} : goroutine'[m] = goroutine[m]
  BY <1>0 DEF AddPod
<1>6. containerNames[n] = Container(n)
  BY DEF AddPod, IInv, GoroutineInv, CacheInv
<1>7. /\ found' = [r \in Roles |-> found'[r]]
      /\ \A r \in Roles : found[r] \subseteq found'[r]
      /\ HasRole(stage, Container(n)) => n \in found'[stage]
      /\ \A r \in Roles : \A m \in found'[r] :
           m \in found[r] \/ (r = stage /\ m = n /\ HasRole(r, Container(n)))
  <2>1. CASE HasRole(stage, Container(n))
    <3>1. found' = [found EXCEPT ![stage] = @ \cup {n}]
      BY <1>6, <2>1 DEF AddPod
    <3> QED
      BY <1>0, <2>1, <3>1 DEF IInv, ShapeInv
  <2>2. CASE ~HasRole(stage, Container(n))
    <3>1. found' = found
      BY <1>6, <2>2 DEF AddPod
    <3> QED
      BY <2>2, <3>1 DEF IInv, ShapeInv
  <2> QED
    BY <2>1, <2>2
<1>9. ShapeInv'
  BY <1>1, <1>7 DEF IInv, ShapeInv
<1>10. FlagInv' /\ OfferInv'
  BY <1>0, <1>1, ChoiceKept
<1>11. CacheInv'
  BY <1>0, <1>1, <1>2 DEF IInv, CacheInv, BeforeSearch, Roles
<1>12. GoroutineInv'
  <2>1. \A m \in Names :
          /\ goroutine'[m] = "named" => m \in DOMAIN containerNames
          /\ goroutine'[m] = "over" /\ HasRole(stage, Container(m)) =>
               m \in found'[stage] \cup unanswered[stage]
    BY <1>0, <1>4, <1>5, <1>7 DEF IInv, GoroutineInv
  <2> QED
    BY <1>0, <1>1, <1>2, <1>3, <1>4, <2>1 DEF GoroutineInv, Searching
<1>13. FoundInv'
  <2>1. \A r \in Roles : \A m \in found'[r] : m \in Names /\ HasRole(r, Container(m))
    BY <1>0, <1>7 DEF IInv, FoundInv
  <2>2. \A r \in Searched : \A m \in Names :
          HasRole(r, Container(m)) => m \in found'[r] \cup unanswered[r]
    BY <1>0, <1>7 DEF IInv, FoundInv, Searched
  <2> QED
    BY <1>0, <1>1, <1>2, <1>3, <2>1, <2>2 DEF FoundInv
<1>14. SelectedInv'
  BY <1>0, <1>1 DEF SelectedInv, Roles
<1> QED
  BY <1>9, <1>10, <1>11, <1>12, <1>13, <1>14 DEF IInv

LEMMA EndSearchStep ==
  ASSUME IInv, EndSearch
  PROVE  IInv'
<1> USE RolesDiffer, EmptyDomain
<1>0. stage \in Roles /\ transport = "kubectl" /\ DOMAIN goroutine = Names
  BY DEF EndSearch, IInv, GoroutineInv
<1>1. UNCHANGED <<transport, form, flags, hosts, pods, offered, kept, nodesFlag,
                  containerNames, unanswered, found, selected>>
      /\ stage' = NextStage /\ goroutine' = <<>>
  BY DEF EndSearch, request, choice
<1>2. stage' \in {"executors", "select"} /\ \A m : Container(m)' = Container(m)
  BY <1>1 DEF NextStage, Container
<1>3. ShapeInv'
  BY <1>1, <1>2 DEF IInv, ShapeInv, Roles
<1>4. FlagInv' /\ OfferInv'
  BY <1>0, <1>1, <1>2, ChoiceKept DEF Roles
<1>5. CacheInv'
  BY <1>1, <1>2 DEF IInv, CacheInv, BeforeSearch
<1>6. GoroutineInv'
  BY <1>1 DEF GoroutineInv
<1>7. FoundInv'
  <2>1. \A m \in Names : HasRole(stage, Container(m)) => m \in found[stage] \cup unanswered[stage]
    BY <1>0 DEF EndSearch, IInv, GoroutineInv
  <2> QED
    BY <1>0, <1>1, <2>1, SearchOver
<1>8. SelectedInv'
  BY <1>2 DEF SelectedInv
<1> QED
  BY <1>3, <1>4, <1>5, <1>6, <1>7, <1>8 DEF IInv

LEMMA SelectStep ==
  ASSUME IInv, Select
  PROVE  IInv'
<1> USE RolesDiffer, EmptyDomain
<1>0. stage = "select" /\ stage' \in {"collect", "error"} /\ goroutine = <<>>
  BY DEF Select, IInv, GoroutineInv, Searching, Roles
<1>1. UNCHANGED <<transport, form, flags, hosts, pods, offered, kept, nodesFlag,
                  goroutine, containerNames, unanswered, found>>
  BY DEF Select, request, choice, search
<1>2. Names' = Names /\ (\A m : Container(m)' = Container(m)) /\ Searched' \subseteq Searched
  BY <1>0, <1>1 DEF Names, Container, Searched
<1>3. \A r : \A m : HasRole(r, Container(m))' = HasRole(r, Container(m))
  BY <1>2 DEF HasRole, IsCoordinator, IsExecutor
<1>4. ShapeInv'
  BY <1>0, <1>1 DEF IInv, ShapeInv
<1>5. FlagInv' /\ OfferInv'
  BY <1>0, <1>1, ChoiceKept
<1>6. CacheInv'
  BY <1>0, <1>1, <1>2 DEF IInv, CacheInv, BeforeSearch
<1>7. GoroutineInv'
  BY <1>0, <1>1 DEF GoroutineInv
<1>8. FoundInv'
  BY <1>1, <1>2, <1>3 DEF IInv, FoundInv
<1>9. SelectedInv'
  BY <1>1 DEF Select, SelectedInv, ByRole, FilterByNodeSelection, FilterExecutors
<1> QED
  BY <1>4, <1>5, <1>6, <1>7, <1>8, <1>9 DEF IInv

LEMMA StutterStep ==
  ASSUME IInv, UNCHANGED vars
  PROVE  IInv'
<1> USE DEF vars, request, choice, search
<1>1. ShapeInv' /\ FlagInv' /\ OfferInv'
  BY DEF IInv, ShapeInv, FlagInv, OfferInv, Both
<1>2. CacheInv' /\ GoroutineInv'
  BY DEF IInv, CacheInv, GoroutineInv, BeforeSearch, Searching, Container, Names, HasRole,
         IsCoordinator, IsExecutor
<1>3. FoundInv'
  BY DEF IInv, FoundInv, Container, Names, HasRole, IsCoordinator, IsExecutor, Searched
<1>4. SelectedInv'
  BY DEF IInv, SelectedInv, ByRole, FilterByNodeSelection, FilterExecutors
<1> QED
  BY <1>1, <1>2, <1>3, <1>4 DEF IInv

LEMMA Inductive ==
  ASSUME IInv, [Next]_vars
  PROVE  IInv'
<1>1. CASE Discover \/ Submit \/ PodsChange \/ Validate
  BY <1>1, DiscoverStep, SubmitStep, PodsChangeStep, ValidateStep
<1>2. CASE FindHosts \/ ListPods \/ EndSearch \/ Select
  BY <1>2, FindHostsStep, ListPodsStep, EndSearchStep, SelectStep
<1>3. CASE \E n \in DOMAIN goroutine : Resolve(n) \/ AddPod(n)
  BY <1>3, ResolveStep, AddPodStep
<1>4. CASE UNCHANGED vars
  BY <1>4, StutterStep
<1> QED
  BY <1>1, <1>2, <1>3, <1>4 DEF Next

-----------------------------------------------------------------------------
(***************************************************************************)
(* What the invariant says of a collection that begins.                    *)
(***************************************************************************)
LEMMA ChosenNodes ==
  ASSUME IInv
  PROVE  NodesAsChosen
<1> SUFFICES ASSUME stage = "collect" PROVE NodesAsChosen
  BY DEF NodesAsChosen
<1> USE RolesDiffer
<1> DEFINE coordinators == found["coordinators"]
           executors == found["executors"]
           Wanted(ns) == FilterByNodeSelection(ns)
<1>1. /\ selected["coordinators"] = Wanted(coordinators)
      /\ selected["executors"] = Wanted(executors \ coordinators)
  BY DEF IInv, SelectedInv, ByRole, FilterExecutors
<1>2. /\ selected["coordinators"] \subseteq coordinators
      /\ selected["executors"] \subseteq executors \ coordinators
  BY <1>1 DEF FilterByNodeSelection
<1>3. CollectedOnce
  BY <1>2 DEF CollectedOnce
<1>4. \A n : n \in Both(selected) => n \notin flags.exclude /\ (nodesFlag # {} => n \in nodesFlag)
  BY <1>1 DEF FilterByNodeSelection, Both, IInv, FlagInv
<1>5. NoneRefused
  <2>1. Both(selected) \cap flags.exclude = {}
    BY <1>4
  <2>2. ASSUME kept # {} PROVE Both(selected) \cap Both(offered) \subseteq kept
    BY <1>4, <2>2 DEF IInv, FlagInv
  <2>3. ASSUME ~form, flags.include # {} PROVE Both(selected) \subseteq flags.include
    BY <1>4, <2>3 DEF IInv, FlagInv
  <2> QED
    BY <2>1, <2>2, <2>3 DEF NoneRefused
<1>6. ASSUME transport = "kubectl" PROVE AsOffered /\ AcceptedCollected
  <2>1. \A r \in Roles : \A n \in found[r] : n \in Names /\ HasRole(r, Container(n))
    BY <1>6 DEF IInv, FoundInv
  <2>2. \A r \in Roles : \A n \in Names :
          HasRole(r, Container(n)) => n \in found[r] \cup unanswered[r]
    BY <1>6 DEF IInv, FoundInv, Searched
  <2>3. \A n \in Names : \E p \in UNION PodSets : p.name = n /\ p.container = Container(n)
    <3> TAKE n \in Names
    <3>1. PICK p \in pods : p.name = n
      BY DEF Names
    <3>2. p \in UNION PodSets /\ pods \in PodSets
      BY <3>1 DEF IInv, ShapeInv
    <3> QED
      BY <3>1, <3>2, ContainerOf
  <2>4. \A n \in Names :
          /\ n \in offered["coordinators"] => Container(n) \in SaysCoordinator \cup SaysMaster
          /\ n \in offered["executors"] => Container(n) \notin SaysCoordinator \cup SaysMaster
    BY <1>6, <2>3 DEF IInv, OfferInv
  <2>5. \A c : /\ HasRole("coordinators", c) => c \in SaysCoordinator
               /\ HasRole("executors", c) => c \notin SaysCoordinator \cup SaysMaster
    BY DEF HasRole, IsCoordinator, IsExecutor, SaysCoordinator, SaysMaster
  <2>6. AsOffered
    <3>1. selected["coordinators"] \cap Both(offered) \subseteq offered["coordinators"]
      BY <1>2, <2>1, <2>4, <2>5 DEF Both
    <3>2. selected["executors"] \cap Both(offered) \subseteq offered["executors"]
      BY <1>2, <2>1, <2>4, <2>5 DEF Both
    <3> QED
      BY <3>1, <3>2 DEF AsOffered, Roles
  <2>7. AcceptedCollected
    <3> SUFFICES ASSUME NEW r \in Roles, NEW n \in Names, HasRole(r, Container(n)),
                        n \notin selected[r] \cup unanswered[r] \cup flags.exclude
                 PROVE  \/ flags.include # {} /\ n \notin flags.include
                        \/ kept # {} /\ n \notin kept
      BY DEF AcceptedCollected
    <3>1. n \in found[r]
      BY <2>2
    <3>2. r = "executors" => n \notin coordinators
      BY <2>1, <2>5
    <3>3. r = "coordinators" \/ r = "executors"
      BY DEF Roles
    <3>4. nodesFlag # {} /\ n \notin nodesFlag
      BY <1>1, <3>1, <3>2, <3>3 DEF FilterByNodeSelection
    <3> QED
      BY <3>4 DEF IInv, FlagInv
  <2> QED
    BY <2>6, <2>7
<1> QED
  BY <1>3, <1>5, <1>6 DEF NodesAsChosen

(* The collection runs on the nodes that were chosen, as far as the search  *)
(* accepts their containers: each once and in the role the form showed,     *)
(* none that its user or a flag left out, and a pod with a container that   *)
(* GetCoordinators or GetExecutors accepts is missing only if its lookup    *)
(* failed; for all pods that keep their containers, all hosts and flags.    *)
THEOREM SelectionCorrect == Spec => []NodesAsChosen
<1>1. Init => IInv
  BY InitIInv
<1>2. IInv /\ [Next]_vars => IInv'
  BY Inductive
<1>3. IInv => NodesAsChosen
  BY ChosenNodes
<1> QED
  BY <1>1, <1>2, <1>3, PTL DEF Spec
=============================================================================
