------------------------ MODULE ThreadStatus_proofs ------------------------
(***************************************************************************)
(* Proofs about ThreadStatus for every finite set of nodes and every       *)
(* capacity.  The inductive invariant IInv adds to the invariants the      *)
(* model checker sees: where a call to UpdateThreadStatus can be in        *)
(* progress, that nothing runs while the main goroutine is between         *)
(* rounds, and what a half-finished call may have read.                    *)
(***************************************************************************)
EXTENDS ThreadStatus, FiniteSetTheorems, TLAPS

(* A goroutine only executes UpdateThreadStatus where its code calls it.   *)
CallsWhereMade ==
  \A w \in Workers :
    pc[w] \in {"start", "admitted", "dequeued", "released", "done"}
      => call[w] = "none"

(* Between the rounds every goroutine of the previous one has ended.       *)
QuietBetweenRounds == phase \in {"jvm", "launch", "rest"} => AllDone

(* What a call has read so far still fits the nodes: the active ones it    *)
(* counted are past the queue for the rest of the round, so they are not   *)
(* among the queued ones it counts next.                                   *)
Past == {"working", "released", "deactivated", "done"}
ReadsFit ==
  \A w \in Workers :
    /\ call[w] = "loadQueued" => readActive[w] <= Cardinality(At(Past))
    /\ call[w] = "show"
         => readActive[w] + readQueued[w] <= Cardinality(Workers)

JvmShowsNA == phase = "jvm" => display = NotApplicable

IInv ==
  /\ TypeOK
  /\ BoundedParallelism
  /\ CountersTrackGoroutines
  /\ CallsWhereMade
  /\ QuietBetweenRounds
  /\ ReadsFit
  /\ DisplayWithinNodes
  /\ JvmShowsNA

-----------------------------------------------------------------------------
CountIn(f, S) == Cardinality({w \in Workers : f[w] \in S})

(* The goroutines at a set of locations are finitely many.                 *)
LEMMA CountType ==
  ASSUME NEW f, NEW S
  PROVE  /\ IsFiniteSet({w \in Workers : f[w] \in S})
         /\ CountIn(f, S) \in Nat
         /\ CountIn(f, S) <= Cardinality(Workers)
<1>1. {w \in Workers : f[w] \in S} \in SUBSET Workers  OBVIOUS
<1>2. QED
  BY <1>1, WorkersFinite, FS_Subset, FS_CardinalityType DEF CountIn

(* Disjoint sets of locations hold together at most all the goroutines.    *)
LEMMA CountDisjoint ==
  ASSUME NEW f, NEW S, NEW T, S \cap T = {}
  PROVE  CountIn(f, S) + CountIn(f, T) <= Cardinality(Workers)
<1> DEFINE A == {w \in Workers : f[w] \in S}
           B == {w \in Workers : f[w] \in T}
<1>1. IsFiniteSet(A) /\ IsFiniteSet(B)  BY CountType
<1>2. A \cap B = {}  OBVIOUS
<1>3. Cardinality(A \cup B) = Cardinality(A) + Cardinality(B)
  <2>1. Cardinality(A \cap B) = 0  BY <1>2, FS_EmptySet
  <2>2. Cardinality(A) \in Nat /\ Cardinality(B) \in Nat
    BY <1>1, FS_CardinalityType
  <2>3. Cardinality(A \cup B)
          = Cardinality(A) + Cardinality(B) - Cardinality(A \cap B)
    BY <1>1, FS_Union
  <2>4. QED  BY <2>1, <2>2, <2>3
<1>4. A \cup B \in SUBSET Workers  OBVIOUS
<1>5. Cardinality(A \cup B) <= Cardinality(Workers)
  BY <1>4, WorkersFinite, FS_Subset
<1>6. QED  BY <1>3, <1>5 DEF CountIn

(* Moving one goroutine changes the count of a set of locations by one     *)
(* when it enters or leaves the set.                                       *)
LEMMA CountAfterMove ==
  ASSUME NEW f \in [Workers -> Locations], NEW w \in Workers, NEW to \in Locations,
         NEW S
  PROVE  CountIn([f EXCEPT ![w] = to], S)
           = CountIn(f, S) + (IF to \in S THEN 1 ELSE 0)
                           - (IF f[w] \in S THEN 1 ELSE 0)
<1> DEFINE A == {v \in Workers : f[v] \in S}
           g == [f EXCEPT ![w] = to]
           B == {v \in Workers : g[v] \in S}
<1>1. IsFiniteSet(A) /\ Cardinality(A) \in Nat
  BY CountType, FS_CardinalityType
<1>2. B = IF to \in S THEN A \cup {w} ELSE A \ {w}  OBVIOUS
<1>3. w \in A <=> f[w] \in S  OBVIOUS
<1>. HIDE DEF A, B
<1>4. CASE to \in S
  <2>1. Cardinality(B) = IF w \in A THEN Cardinality(A) ELSE Cardinality(A) + 1
    BY <1>1, <1>2, <1>4, FS_AddElement
  <2>2. Cardinality(B)
          = Cardinality(A) + 1 - (IF f[w] \in S THEN 1 ELSE 0)
    BY <1>1, <1>3, <2>1
  <2>3. QED  BY <1>4, <2>2 DEF CountIn, A, B
<1>5. CASE to \notin S
  <2>1. Cardinality(B) = IF w \in A THEN Cardinality(A) - 1 ELSE Cardinality(A)
    BY <1>1, <1>2, <1>5, FS_RemoveElement
  <2>2. Cardinality(B)
          = Cardinality(A) + 0 - (IF f[w] \in S THEN 1 ELSE 0)
    BY <1>1, <1>3, <2>1
  <2>3. QED  BY <1>5, <2>2 DEF CountIn, A, B
<1>6. QED  BY <1>4, <1>5


-----------------------------------------------------------------------------
H == Cardinality(At(Holding))
A == Cardinality(At({"working", "released"}))
Q == Cardinality(At({"waiting", "admitted"}))
P == Cardinality(At(Past))

(* The four counts of goroutines used below are natural numbers.           *)
LEMMA CountsType ==
  /\ H \in Nat /\ A \in Nat /\ Q \in Nat /\ P \in Nat
  /\ A <= P
  /\ P + Q <= Cardinality(Workers)
  /\ Cardinality(Workers) \in Nat
<1>1. H \in Nat /\ A \in Nat /\ Q \in Nat /\ P \in Nat
  BY CountType DEF H, A, Q, P, At, CountIn
<1>2. A <= P
  <2>1. At({"working", "released"}) \in SUBSET At(Past)  BY DEF At, Past
  <2>2. IsFiniteSet(At(Past))  BY CountType DEF At
  <2>3. QED  BY <2>1, <2>2, FS_Subset DEF A, P
<1>3. P + Q <= Cardinality(Workers)
  <2>1. Past \cap {"waiting", "admitted"} = {}  BY DEF Past
  <2>2. CountIn(pc, Past) + CountIn(pc, {"waiting", "admitted"})
          <= Cardinality(Workers)
    BY <2>1, CountDisjoint
  <2>3. QED  BY <2>2 DEF P, Q, At, CountIn
<1>4. QED  BY <1>1, <1>2, <1>3, WorkersFinite, FS_CardinalityType

(* How a goroutine's move changes the four counts the invariant speaks of. *)
LEMMA CountsAfterGoto ==
  ASSUME TypeOK, NEW w \in Workers, NEW from \in Locations, NEW to \in Locations,
         Goto(w, from, to)
  PROVE  /\ H' = H + (IF to \in Holding THEN 1 ELSE 0)
                   - (IF from \in Holding THEN 1 ELSE 0)
         /\ A' = A + (IF to \in {"working", "released"} THEN 1 ELSE 0)
                   - (IF from \in {"working", "released"} THEN 1 ELSE 0)
         /\ Q' = Q + (IF to \in {"waiting", "admitted"} THEN 1 ELSE 0)
                   - (IF from \in {"waiting", "admitted"} THEN 1 ELSE 0)
         /\ P' = P + (IF to \in Past THEN 1 ELSE 0)
                   - (IF from \in Past THEN 1 ELSE 0)
<1>1. pc \in [Workers -> Locations] /\ pc[w] = from /\ pc' = [pc EXCEPT ![w] = to]
  BY DEF TypeOK, Goto
<1>2. \A S : CountIn(pc', S)
               = CountIn(pc, S) + (IF to \in S THEN 1 ELSE 0)
                                - (IF from \in S THEN 1 ELSE 0)
  BY <1>1, CountAfterMove
<1>3. QED  BY <1>2 DEF H, A, Q, P, At, CountIn

(* Steps that move no goroutine leave the counts alone.                     *)
LEMMA CountsUnchanged ==
  ASSUME UNCHANGED pc
  PROVE  H' = H /\ A' = A /\ Q' = Q /\ P' = P
BY DEF H, A, Q, P, At

(* When every goroutine has ended no slot is held and nothing is counted.   *)
LEMMA CountsAtRest ==
  ASSUME NEW f \in [Workers -> {"start", "done"}]
  PROVE  /\ CountIn(f, Holding) = 0
         /\ CountIn(f, {"working", "released"}) = 0
         /\ CountIn(f, {"waiting", "admitted"}) = 0
<1>1. /\ {w \in Workers : f[w] \in Holding} = {}
      /\ {w \in Workers : f[w] \in {"working", "released"}} = {}
      /\ {w \in Workers : f[w] \in {"waiting", "admitted"}} = {}
  BY DEF Holding
<1>2. QED  BY <1>1, FS_EmptySet DEF CountIn

-----------------------------------------------------------------------------
(* The invariant in terms of the counts.                                    *)
LEMMA IInvCounts ==
  IInv <=> /\ TypeOK
           /\ H = sem /\ sem <= Capacity
           /\ activeThreads = A /\ queuedCount = Q
           /\ CallsWhereMade
           /\ QuietBetweenRounds
           /\ \A w \in Workers :
                /\ call[w] = "loadQueued" => readActive[w] <= P
                /\ call[w] = "show"
                     => readActive[w] + readQueued[w] <= Cardinality(Workers)
           /\ DisplayWithinNodes
           /\ JvmShowsNA
BY DEF IInv, BoundedParallelism, CountersTrackGoroutines, ReadsFit, H, A, Q, P

(* The strengthened invariant holds when the collection starts.            *)
THEOREM InitIInv == Init => IInv
<1> SUFFICES ASSUME Init PROVE IInv  OBVIOUS
<1>1. TypeOK
  BY CapacityPositive
  DEF Init, TypeOK, Phases, Locations, Calls, NotApplicable, Zero
<1>2. H = 0 /\ A = 0 /\ Q = 0
  <2>1. pc \in [Workers -> {"start", "done"}]  BY DEF Init
  <2>2. QED  BY <2>1, CountsAtRest DEF H, A, Q, At, CountIn
<1>3. CallsWhereMade /\ QuietBetweenRounds /\ JvmShowsNA
  BY DEF Init, CallsWhereMade, QuietBetweenRounds, JvmShowsNA
<1>4. DisplayWithinNodes
  BY CountsType DEF Init, DisplayWithinNodes, NotApplicable, Zero
<1>5. QED
  BY <1>1, <1>2, <1>3, <1>4, CapacityPositive, IInvCounts DEF Init

-----------------------------------------------------------------------------
(* One lemma for the steps of UpdateThreadStatus, one for the moves of a    *)
(* goroutine, one for the main goroutine.                                   *)
LEMMA CallStep ==
  ASSUME IInv, NEW w \in Workers, LoadCounters(w) \/ Show(w)
  PROVE  IInv'
<1>1. H' = H /\ A' = A /\ Q' = Q /\ P' = P
  BY CountsUnchanged DEF LoadCounters, Show
<1>2. /\ H \in Nat /\ A \in Nat /\ Q \in Nat /\ P \in Nat /\ A <= P
      /\ P + Q <= Cardinality(Workers) /\ Cardinality(Workers) \in Nat
  BY CountsType
<1>. USE IInvCounts DEF TypeOK, Calls
<1>3. call[w] # "none" /\ pc[w] \in {"waiting", "working", "deactivated"}
  BY DEF LoadCounters, Show, CallsWhereMade, Locations
<1>4. phase \notin {"jvm", "launch", "rest"}
  BY <1>3 DEF QuietBetweenRounds, AllDone
<1>5. TypeOK'
  BY DEF LoadCounters, Show, main, reads, counters
<1>6. CallsWhereMade' /\ QuietBetweenRounds' /\ JvmShowsNA'
  BY <1>3, <1>4
  DEF LoadCounters, Show, main, CallsWhereMade, QuietBetweenRounds, AllDone,
      JvmShowsNA
<1>7. \A v \in Workers :
        /\ call'[v] = "loadQueued" => readActive'[v] <= P
        /\ call'[v] = "show"
             => readActive'[v] + readQueued'[v] <= Cardinality(Workers)
  <2>1. CASE call[w] = "loadActive" /\ LoadCounters(w)
    BY <1>2, <2>1 DEF LoadCounters
  <2>2. CASE call[w] = "loadQueued" /\ LoadCounters(w)
    BY <1>2, <2>2 DEF LoadCounters
  <2>3. CASE Show(w)
    BY <2>3 DEF Show, reads
  <2>4. QED  BY <2>1, <2>2, <2>3 DEF LoadCounters
<1>8. DisplayWithinNodes'
  BY DEF LoadCounters, Show, DisplayWithinNodes
<1>9. sem' = sem /\ activeThreads' = activeThreads /\ queuedCount' = queuedCount
  BY DEF LoadCounters, Show, counters
<1>10. BoundedParallelism' /\ CountersTrackGoroutines' /\ ReadsFit'
  BY <1>1, <1>7, <1>9
  DEF BoundedParallelism, CountersTrackGoroutines, ReadsFit, H, A, Q, P
<1>11. QED
  BY <1>5, <1>6, <1>8, <1>10 DEF IInv

(* What every move of a goroutine preserves, whatever it does to the counts *)
LEMMA MoveStep ==
  ASSUME IInv, NEW w \in Workers, NEW from \in Locations, NEW to \in Locations,
         Goto(w, from, to), from # "done", from \in Past => to \in Past,
         UNCHANGED <<main, reads, display>>,
         \/ call' = call /\ to # "waiting"
         \/ Publish(w) /\ to \in {"waiting", "working", "deactivated"}
  PROVE  /\ CallsWhereMade' /\ QuietBetweenRounds'
         /\ DisplayWithinNodes' /\ JvmShowsNA'
         /\ \A v \in Workers :
              /\ call'[v] = "loadQueued" => readActive'[v] <= P'
              /\ call'[v] = "show"
                   => readActive'[v] + readQueued'[v] <= Cardinality(Workers)
         /\ call' \in [Workers -> Calls] /\ pc' \in [Workers -> Locations]
<1>. USE IInvCounts DEF TypeOK, Goto, Publish
<1>1. pc[w] # "done" /\ call[w] = "none"  OBVIOUS
<1>2. phase \notin {"jvm", "launch", "rest"}
  BY <1>1 DEF QuietBetweenRounds, AllDone
<1>3. P <= P' /\ P \in Nat /\ P' \in Nat
  <2>1. P' = P + (IF to \in Past THEN 1 ELSE 0) - (IF from \in Past THEN 1 ELSE 0)
    BY CountsAfterGoto
  <2>2. QED  BY <2>1, CountsType
<1>4. CallsWhereMade'
  BY DEF CallsWhereMade
<1>5. QuietBetweenRounds' /\ JvmShowsNA'
  BY <1>2 DEF main, QuietBetweenRounds, JvmShowsNA
<1>6. DisplayWithinNodes'
  BY DEF DisplayWithinNodes
<1>7. \A v \in Workers :
        /\ call'[v] = "loadQueued" => readActive'[v] <= P'
        /\ call'[v] = "show"
             => readActive'[v] + readQueued'[v] <= Cardinality(Workers)
  BY <1>1, <1>3 DEF reads
<1>8. call' \in [Workers -> Calls] /\ pc' \in [Workers -> Locations]
  BY DEF Calls
<1>9. QED  BY <1>4, <1>5, <1>6, <1>7, <1>8

(* A move that also keeps the slots and the two counters in step with the   *)
(* counts of goroutines preserves the invariant.                            *)
LEMMA MoveKeepsIInv ==
  ASSUME IInv, NEW w \in Workers, NEW from \in Locations, NEW to \in Locations,
         Goto(w, from, to), from # "done", from \in Past => to \in Past,
         UNCHANGED <<main, reads, display>>,
         \/ call' = call /\ to # "waiting"
         \/ Publish(w) /\ to \in {"waiting", "working", "deactivated"},
         found' \in SUBSET Workers,
         sem' = sem + (IF to \in Holding THEN 1 ELSE 0)
                    - (IF from \in Holding THEN 1 ELSE 0),
         sem' <= Capacity,
         activeThreads' = activeThreads
           + (IF to \in {"working", "released"} THEN 1 ELSE 0)
           - (IF from \in {"working", "released"} THEN 1 ELSE 0),
         queuedCount' = queuedCount
           + (IF to \in {"waiting", "admitted"} THEN 1 ELSE 0)
           - (IF from \in {"waiting", "admitted"} THEN 1 ELSE 0)
  PROVE  IInv'
<1>1. TypeOK  BY DEF IInv
<1>2. H' = sem' /\ A' = activeThreads' /\ Q' = queuedCount'
  BY <1>1, IInvCounts, CountsAfterGoto
<1>3. H' \in Nat /\ A' \in Nat /\ Q' \in Nat
  <2>1. pc' \in [Workers -> Locations]  BY <1>1 DEF TypeOK, Goto
  <2>2. QED  BY CountType DEF H, A, Q, At, CountIn
<1>4. /\ CallsWhereMade' /\ QuietBetweenRounds'
      /\ DisplayWithinNodes' /\ JvmShowsNA'
      /\ \A v \in Workers :
           /\ call'[v] = "loadQueued" => readActive'[v] <= P'
           /\ call'[v] = "show"
                => readActive'[v] + readQueued'[v] <= Cardinality(Workers)
      /\ call' \in [Workers -> Calls] /\ pc' \in [Workers -> Locations]
  BY MoveStep
<1>5. BoundedParallelism' /\ CountersTrackGoroutines' /\ ReadsFit'
  BY <1>2, <1>4
  DEF BoundedParallelism, CountersTrackGoroutines, ReadsFit, H, A, Q, P
<1>6. TypeOK'
  BY <1>1, <1>2, <1>3, <1>4, CapacityPositive DEF TypeOK, main, reads
<1>7. QED  BY <1>4, <1>5, <1>6 DEF IInv

(* A step of the main goroutine: all goroutines are at rest before and      *)
(* after it, so nothing is held, counted or being read.                     *)
LEMMA RestStep ==
  ASSUME IInv, AllDone, pc' \in [Workers -> {"start", "done"}],
         UNCHANGED <<mode, call, reads, counters, found>>,
         phase' \in Phases, display' \in {NotApplicable, Zero, display},
         phase' \in {"jvm", "launch", "rest"} => pc' = pc,
         phase' = "jvm" => display' = NotApplicable
  PROVE  IInv'
<1>1. H = 0 /\ A = 0 /\ Q = 0
  <2>1. pc \in [Workers -> {"start", "done"}]
    BY DEF IInv, TypeOK, AllDone
  <2>2. QED  BY <2>1, CountsAtRest DEF H, A, Q, At, CountIn
<1>2. H' = 0 /\ A' = 0 /\ Q' = 0
  BY CountsAtRest DEF H, A, Q, At, CountIn
<1>3. \A v \in Workers : call[v] = "none"
  BY DEF IInv, AllDone, CallsWhereMade
<1>4. CallsWhereMade' /\ ReadsFit'
  BY <1>3 DEF CallsWhereMade, ReadsFit
<1>5. QuietBetweenRounds' /\ JvmShowsNA'
  BY DEF AllDone, QuietBetweenRounds, JvmShowsNA
<1>6. BoundedParallelism' /\ CountersTrackGoroutines'
  BY <1>1, <1>2
  DEF IInv, BoundedParallelism, CountersTrackGoroutines, counters, H, A, Q
<1>7. DisplayWithinNodes'
  BY CountsType DEF IInv, DisplayWithinNodes, NotApplicable, Zero
<1>8. TypeOK'
  BY DEF IInv, TypeOK, reads, counters, Locations, NotApplicable, Zero
<1>9. QED  BY <1>4, <1>5, <1>6, <1>7, <1>8 DEF IInv

-----------------------------------------------------------------------------

(* Every step of a node goroutine or of the main goroutine preserves it.   *)
THEOREM NextIInv == IInv /\ [Next]_vars => IInv'
<1> SUFFICES ASSUME IInv, [Next]_vars PROVE IInv'  OBVIOUS
<1>t. TypeOK  BY DEF IInv
<1>1. ASSUME NEW w \in Workers, LoadCounters(w) \/ Show(w) PROVE IInv'
  BY <1>1, CallStep
<1>2. ASSUME NEW w \in Workers, Enqueue(w) PROVE IInv'
  BY <1>2, <1>t, MoveKeepsIInv
  DEF Enqueue, main, reads, Locations, Past, Holding, TypeOK
<1>3. ASSUME NEW w \in Workers, Acquire(w) PROVE IInv'
  BY <1>3, <1>t, MoveKeepsIInv, CapacityPositive
  DEF Acquire, main, reads, Locations, Past, Holding, TypeOK
<1>4. ASSUME NEW w \in Workers, Dequeue(w) PROVE IInv'
  BY <1>4, <1>t, MoveKeepsIInv
  DEF Dequeue, main, reads, Locations, Past, Holding, TypeOK
<1>5. ASSUME NEW w \in Workers, Activate(w) PROVE IInv'
  BY <1>5, <1>t, MoveKeepsIInv
  DEF Activate, main, reads, Locations, Past, Holding, TypeOK
<1>6. ASSUME NEW w \in Workers, Release(w) PROVE IInv'
  <2>1. found' \in SUBSET Workers  BY <1>6, <1>t DEF Release, TypeOK
  <2>2. QED
    BY <1>6, <1>t, <2>1, MoveKeepsIInv, CapacityPositive
    DEF Release, main, reads, Locations, Past, Holding, TypeOK
<1>7. ASSUME NEW w \in Workers, Deactivate(w) PROVE IInv'
  BY <1>7, <1>t, MoveKeepsIInv
  DEF Deactivate, main, reads, Locations, Past, Holding, TypeOK
<1>8. ASSUME NEW w \in Workers, WgDone(w) PROVE IInv'
  BY <1>8, <1>t, MoveKeepsIInv
  DEF WgDone, main, reads, counters, Locations, Past, Holding, TypeOK
<1>9. CASE MainStep
  <2>1. AllDone
    BY <1>9
    DEF MainStep, StartJvm, EndJvm, SkipJvm, Launch, Finish, IInv,
        QuietBetweenRounds
  <2>2. pc \in [Workers -> {"start", "done"}]
    BY <2>1, <1>t DEF AllDone, TypeOK
  <2>3. CASE StartJvm \/ EndJvm \/ SkipJvm \/ Finish
    BY <2>1, <2>2, <2>3, RestStep
    DEF StartJvm, EndJvm, SkipJvm, Finish, Phases
  <2>4. CASE Launch
    BY <2>1, <2>2, <2>4, RestStep DEF Launch, Phases
  <2>5. QED  BY <1>9, <2>3, <2>4 DEF MainStep
<1>10. CASE AtRest \/ UNCHANGED vars
  BY <1>10
  DEF AtRest, vars, main, reads, counters, IInv, TypeOK, BoundedParallelism,
      CountersTrackGoroutines, CallsWhereMade, QuietBetweenRounds, AllDone,
      ReadsFit, DisplayWithinNodes, JvmShowsNA, At
<1>11. QED
  BY <1>1, <1>2, <1>3, <1>4, <1>5, <1>6, <1>7, <1>8, <1>9, <1>10
  DEF Next, WorkerStep

(* IInv holds in every reachable state.                                     *)
THEOREM SpecIInv == Spec => []IInv
BY InitIInv, NextIInv, PTL DEF Spec

(* Type correctness: in particular neither counter is ever negative and the *)
(* channel never holds more than collectionThreads tokens.                  *)
THEOREM TypeCorrect == Spec => []TypeOK
<1>1. IInv => TypeOK  BY DEF IInv
<1>2. QED  BY <1>1, SpecIInv, PTL

(* For every number of nodes and threads, the goroutines that hold a slot   *)
(* are as many as the tokens in sem, and at most collectionThreads.         *)
THEOREM ParallelismBounded == Spec => []BoundedParallelism
<1>1. IInv => BoundedParallelism  BY DEF IInv
<1>2. QED  BY <1>1, SpecIInv, PTL

(* activeThreads and queuedCount count exactly the goroutines between their *)
(* increments and their decrements.                                         *)
THEOREM CountersExact == Spec => []CountersTrackGoroutines
<1>1. IInv => CountersTrackGoroutines  BY DEF IInv
<1>2. QED  BY <1>1, SpecIInv, PTL

(* However the unsynchronised reads and stores of UpdateThreadStatus        *)
(* interleave, the two numbers shown are together at most the nodes.        *)
THEOREM DisplayBounded == Spec => []DisplayWithinNodes
<1>1. IInv => DisplayWithinNodes  BY DEF IInv
<1>2. QED  BY <1>1, SpecIInv, PTL

(* While the JVM phases run no goroutine of the discovery round is left     *)
(* that could put its counters in place of the N/A.                         *)
THEOREM JvmDisplayUndisturbed == Spec => []NothingShownDuringJvm
<1>1. IInv => NothingShownDuringJvm
  BY DEF IInv, JvmShowsNA, QuietBetweenRounds, AllDone, CallsWhereMade,
         NothingShownDuringJvm
<1>2. QED  BY <1>1, SpecIInv, PTL

-----------------------------------------------------------------------------
(* The initial state maps to the pool's.                                    *)
LEMMA PoolInit == Init => Pool!Init
BY DEF Init, Pool!Init, At, Holding

(* A move maps to the pool's Start, to its Finish, or to a stutter.         *)
LEMMA PoolMove ==
  ASSUME IInv, NEW w \in Workers, WorkerStep(w)
  PROVE  [Pool!Next]_Pool!vars
<1>1. pc \in [Workers -> Locations]  BY DEF IInv, TypeOK
<1>2. CASE Acquire(w)
  <2>1. w \in At({"start", "waiting"})  BY <1>2 DEF Acquire, Goto, At
  <2>2. Cardinality(At(Holding)) < Capacity
    BY <1>2 DEF Acquire, IInv, BoundedParallelism
  <2>3. /\ At({"start", "waiting"})' = At({"start", "waiting"}) \ {w}
        /\ At(Holding)' = At(Holding) \cup {w}
        /\ At({"released", "deactivated", "done"})'
             = At({"released", "deactivated", "done"})
    BY <1>1, <1>2 DEF Acquire, Goto, At, Holding
  <2>4. Pool!Cardinality(At(Holding)) = Cardinality(At(Holding))
    BY DEF Pool!Cardinality, Cardinality
  <2>5. Pool!Start(w)  BY <2>1, <2>2, <2>3, <2>4 DEF Pool!Start
  <2>6. QED  BY <2>5 DEF Pool!Next
<1>3. CASE Release(w)
  <2>1. w \in At(Holding)  BY <1>3 DEF Release, Goto, At, Holding
  <2>2. /\ At({"start", "waiting"})' = At({"start", "waiting"})
        /\ At(Holding)' = At(Holding) \ {w}
        /\ At({"released", "deactivated", "done"})'
             = At({"released", "deactivated", "done"}) \cup {w}
    BY <1>1, <1>3 DEF Release, Goto, At, Holding
  <2>3. Pool!Finish(w)  BY <2>1, <2>2 DEF Pool!Finish
  <2>4. QED  BY <2>3 DEF Pool!Next
<1>4. CASE \/ LoadCounters(w) \/ Show(w) \/ Enqueue(w) \/ Dequeue(w)
           \/ Activate(w) \/ Deactivate(w) \/ WgDone(w)
  <2>1. /\ At({"start", "waiting"})' = At({"start", "waiting"})
        /\ At(Holding)' = At(Holding)
        /\ At({"released", "deactivated", "done"})'
             = At({"released", "deactivated", "done"})
    BY <1>1, <1>4
    DEF LoadCounters, Show, Enqueue, Dequeue, Activate, Deactivate, WgDone,
        Goto, At, Holding
  <2>2. QED  BY <2>1 DEF Pool!vars
<1>5. QED  BY <1>2, <1>3, <1>4 DEF WorkerStep

(* Launch maps to the next round of the pool, the rest to a stutter.        *)
LEMMA PoolMain ==
  ASSUME IInv, MainStep
  PROVE  [Pool!Next]_Pool!vars
<1>1. pc \in [Workers -> Locations]  BY DEF IInv, TypeOK
<1>2. CASE Launch
  <2>1. \A w \in Workers : pc[w] = "done"
    BY <1>2 DEF Launch, IInv, QuietBetweenRounds, AllDone
  <2>2. /\ At({"start", "waiting"}) = {} /\ At(Holding) = {}
        /\ At(Holding)' = {}
    BY <1>2, <2>1 DEF Launch, At, Holding
  <2>3. /\ At({"start", "waiting"})' \in SUBSET Workers
        /\ At({"released", "deactivated", "done"})'
             = Workers \ At({"start", "waiting"})'
    BY <1>2 DEF Launch, At
  <2>4. Pool!NextRound  BY <2>2, <2>3 DEF Pool!NextRound
  <2>5. QED  BY <2>4 DEF Pool!Next
<1>3. CASE StartJvm \/ EndJvm \/ SkipJvm \/ Finish
  BY <1>3 DEF StartJvm, EndJvm, SkipJvm, Finish, Pool!vars, At
<1>4. QED  BY <1>2, <1>3 DEF MainStep

(* The goroutines around the semaphore implement the bounded pool: no node  *)
(* is worked on twice in a round, never more than collectionThreads at a    *)
(* time, and streaming starts only after every discovery has ended.         *)
THEOREM PoolRefinement == Spec => ImplementsPool
<1>1. IInv /\ [Next]_vars => [Pool!Next]_Pool!vars
  <2> SUFFICES ASSUME IInv, [Next]_vars PROVE [Pool!Next]_Pool!vars  OBVIOUS
  <2>1. CASE AtRest \/ UNCHANGED vars
    BY <2>1 DEF AtRest, vars, Pool!vars, At
  <2>2. QED  BY <2>1, PoolMove, PoolMain DEF Next
<1>2. QED
  BY <1>1, PoolInit, SpecIInv, PTL DEF Spec, ImplementsPool, Pool!Spec
=============================================================================
