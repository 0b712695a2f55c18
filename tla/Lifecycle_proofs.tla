-------------------------- MODULE Lifecycle_proofs --------------------------
(***************************************************************************)
(* Proofs about Lifecycle for every set of writers: the types and the      *)
(* mutex, no task run by both passes of the hook, the rm of a transfer     *)
(* never started in vain, nothing left on disk by a run that ends by       *)
(* itself, and COMPLETED only with a complete archive.                     *)
(***************************************************************************)
EXTENDS Lifecycle, TLAPS

(* Each list has only the tasks the code registers there.                   *)
Home == [cancelOnly |-> {"rmTransfer"}, cleanups |-> {"cancel"},
         finalSteps |-> {"rmPid", "close"}]
Listed(t) == \E l \in Lists : \E i \in DOMAIN tasks[l] : tasks[l][i] = t
ListInv == \A l \in Lists : \A i \in DOMAIN tasks[l] : tasks[l][i] \in Home[l]

(* Before it is registered a task is in no list and nobody has run it.      *)
Fresh(t) == ~Listed(t) /\ \A g \in Goroutines : <<g, t>> \notin run
BeforeAddPid == {"pid", "addPid"}
BeforeAddClose == BeforeAddPid \cup {"checks", "ticker", "addUI", "addClose"}
FreshInv ==
  /\ main \in BeforeAddPid => Fresh("rmPid")
  /\ main \in BeforeAddClose => Fresh("close")
  /\ copy \in {"off", "idle", "copied", "readable"} => Fresh("rmTransfer")

(* A goroutine has run tasks only in its pass or after it, and while a task *)
(* it has run is still listed, it is in the middle of this list.            *)
RunInv ==
  /\ \A t \in Tasks : <<"main", t>> \in run => main \in {"cleanup", "exit"}
  /\ \A t \in Tasks : <<"signal", t>> \in run => signal \in {"interrupt", "exit"}
  /\ \A g \in Goroutines : \A l \in Lists : \A i \in DOMAIN tasks[l] :
       <<g, tasks[l][i]>> \in run => holder = g /\ left # <<>> /\ l = Head(left)

(* A pass has a rest of its order before it, and blank lists behind it.     *)
PassInv ==
  /\ at > 0
  /\ holder # "none" =>
       /\ left \in {<<"cancelOnly", "cleanups", "finalSteps">>,
                    <<"cleanups", "finalSteps">>, <<"finalSteps">>, <<>>}
       /\ left \in {<<"finalSteps">>, <<>>} => tasks["cleanups"] = <<>>
       /\ left = <<>> => tasks["finalSteps"] = <<>>

(* The context is cancelled by the cancel task alone, and a pass that has   *)
(* the cancel-only tasks before it has not run that.                        *)
CancelInv ==
  /\ cancelled \/ "cancel" \in alive => \E g \in Goroutines : <<g, "cancel">> \in run
  /\ holder = "signal" /\ left = <<"cancelOnly", "cleanups", "finalSteps">>
       => <<"signal", "cancel">> \notin run

(* Outside the collection no transfer is under way, and the only writers    *)
(* are those it gave up on; a registered transfer that is over has removed  *)
(* its file, unless an interrupt had cancelled its commands.                *)
WorkInv ==
  /\ main # "collect" => copy \in {"off", "idle", "ended"} /\ writing \subseteq abandoned
  /\ main \in BeforeAddClose \cup {"transport"} => copy = "off"
  /\ copy = "ended" /\ remote /\ Listed("rmTransfer") => <<"signal", "cancel">> \in run

(* When an interrupt has run Close, nothing is left for Cleanup to do.      *)
CloseInv ==
  <<"signal", "close">> \in run =>
    /\ tasks["cleanups"] = <<>>
    /\ tasks["finalSteps"] = <<>> \/ holder = "signal"

(* A collection that failed has recorded its error by the time it returns.  *)
ArchiveInv ==
  /\ copy # "off" /\ ~failure =>
       /\ main # "showError"
       /\ main = "return" => archive = "complete" \/ <<"signal", "close">> \in run
       /\ main = "cleanup" => archive = "complete"
  /\ result = "COMPLETED" => main = "exit"

IInv ==
  /\ TypeOK
  /\ ListInv
  /\ FreshInv
  /\ RunInv
  /\ PassInv
  /\ CancelInv
  /\ WorkInv
  /\ CloseInv
  /\ ArchiveInv
  /\ RunOnce
  /\ NothingLeftBehind
  /\ CompletedMeansArchive
-----------------------------------------------------------------------------
(* What the registration of a task changes.                                 *)
LEMMA RegisterEffect ==
  ASSUME TypeOK, NEW l \in Lists, NEW t \in Tasks, Register(l, t)
  PROVE  /\ tasks' \in [Lists -> Seq(Tasks)]
         /\ \A k \in Lists \ {l} : tasks'[k] = tasks[k]
         /\ \A i \in DOMAIN tasks'[l] :
              tasks'[l][i] = t \/ (i \in DOMAIN tasks[l] /\ tasks'[l][i] = tasks[l][i])
         /\ \A u : Listed(u)' => Listed(u) \/ u = t
<1>1. tasks \in [Lists -> Seq(Tasks)] /\ tasks[l] \in Seq(Tasks)  BY DEF TypeOK
<1>2. tasks' = [tasks EXCEPT ![l] = Append(tasks[l], t)]  BY DEF Register
<1>3. Append(tasks[l], t) \in Seq(Tasks)  BY <1>1
<1>4. \A i \in DOMAIN Append(tasks[l], t) :
        Append(tasks[l], t)[i] = t
        \/ (i \in DOMAIN tasks[l] /\ Append(tasks[l], t)[i] = tasks[l][i])
  BY <1>1
<1>5. tasks'[l] = Append(tasks[l], t) /\ \A k \in Lists \ {l} : tasks'[k] = tasks[k]
  BY <1>1, <1>2
<1>6. tasks' \in [Lists -> Seq(Tasks)]  BY <1>1, <1>2, <1>3
<1>7. \A u : Listed(u)' => Listed(u) \/ u = t
  BY <1>4, <1>5 DEF Listed
<1>8. QED  BY <1>4, <1>5, <1>6, <1>7

(* What the end of a list in a pass changes.                                *)
LEMMA EndStageEffect ==
  ASSUME TypeOK, NEW g \in Goroutines, EndStage(g)
  PROVE  /\ tasks' \in [Lists -> Seq(Tasks)]
         /\ left' \in Seq(Lists) /\ left' = Tail(left)
         /\ Head(left) \in Lists
         /\ tasks'[Head(left)] = <<>>
         /\ \A k \in Lists \ {Head(left)} : tasks'[k] = tasks[k]
         /\ \A u : Listed(u)' => Listed(u)
<1>1. tasks \in [Lists -> Seq(Tasks)] /\ left \in Seq(Lists) /\ left # <<>>
  BY DEF TypeOK, EndStage
<1>2. Head(left) \in Lists /\ Tail(left) \in Seq(Lists)  BY <1>1
<1>3. <<>> \in Seq(Tasks) /\ DOMAIN <<>> = {}  OBVIOUS
<1>4. tasks' = [tasks EXCEPT ![Head(left)] = <<>>] /\ left' = Tail(left)
  BY DEF EndStage, BlankList
<1>5. /\ tasks'[Head(left)] = <<>>
      /\ \A k \in Lists \ {Head(left)} : tasks'[k] = tasks[k]
  BY <1>1, <1>2, <1>4
<1>6. tasks' \in [Lists -> Seq(Tasks)]  BY <1>1, <1>2, <1>3, <1>4
<1>7. \A u : Listed(u)' => Listed(u)  BY <1>3, <1>5 DEF Listed
<1>8. QED  BY <1>2, <1>4, <1>5, <1>6, <1>7

(* The task a pass starts is in the list it is at.                          *)
LEMMA StartTaskEffect ==
  ASSUME TypeOK, PassInv, ListInv, NEW g \in Goroutines, StartTask(g)
  PROVE  /\ Head(left) \in Lists
         /\ at \in DOMAIN tasks[Head(left)]
         /\ awaited' = tasks[Head(left)][at]
         /\ awaited' \in Tasks /\ awaited' \in Home[Head(left)]
         /\ Listed(awaited')
<1>1. tasks \in [Lists -> Seq(Tasks)] /\ left \in Seq(Lists) /\ left # <<>>
      /\ at \in Nat /\ at > 0
  BY DEF TypeOK, StartTask, PassInv
<1>2. Head(left) \in Lists  BY <1>1
<1>3. tasks[Head(left)] \in Seq(Tasks)  BY <1>1, <1>2
<1>4. at \in DOMAIN tasks[Head(left)] /\ tasks[Head(left)][at] \in Tasks
  <2>1. at <= Len(tasks[Head(left)])  BY DEF StartTask
  <2> DEFINE s == tasks[Head(left)]
  <2>2. s \in Seq(Tasks) /\ at <= Len(s)  BY <1>3, <2>1
  <2> HIDE DEF s
  <2>3. at \in DOMAIN s /\ s[at] \in Tasks  BY <1>1, <2>2
  <2>4. QED  BY <2>3 DEF s
<1>5. awaited' = tasks[Head(left)][at]  BY DEF StartTask
<1>6. tasks[Head(left)][at] \in Home[Head(left)]  BY <1>2, <1>4 DEF ListInv
<1>7. Listed(tasks[Head(left)][at])  BY <1>2, <1>4 DEF Listed
<1>8. QED  BY <1>2, <1>4, <1>5, <1>6, <1>7

(* The first list of what is left of a pass.                                *)
LEMMA Rests ==
  /\ Head(<<"cancelOnly", "cleanups", "finalSteps">>) = "cancelOnly"
  /\ Tail(<<"cancelOnly", "cleanups", "finalSteps">>) = <<"cleanups", "finalSteps">>
  /\ Head(<<"cleanups", "finalSteps">>) = "cleanups"
  /\ Tail(<<"cleanups", "finalSteps">>) = <<"finalSteps">>
  /\ Head(<<"finalSteps">>) = "finalSteps"
  /\ Tail(<<"finalSteps">>) = <<>>
  /\ <<"cancelOnly", "cleanups", "finalSteps">> # <<>>
  /\ <<"cleanups", "finalSteps">> # <<>>
  /\ <<"finalSteps">> # <<>>
  /\ <<"cancelOnly", "cleanups", "finalSteps">> # <<"cleanups", "finalSteps">>
  /\ <<"cancelOnly", "cleanups", "finalSteps">> # <<"finalSteps">>
  /\ <<"cleanups", "finalSteps">> # <<"finalSteps">>
OBVIOUS

-----------------------------------------------------------------------------
(* The steps in which the hook does not change hands and keeps its lists.   *)
Plain ==
  \/ PidFile \/ Checks \/ StartTicker \/ AddUIStop \/ TransportFails
  \/ StartCollection \/ EndCollection \/ BeginArchive \/ EndArchive
  \/ SetError \/ ShowError \/ SkipCleanup \/ Signal \/ SkipInterrupt
  \/ (\E g \in Goroutines : Exit(g)) \/ (\E t \in Tasks : TaskEnds(t))
  \/ (\E w \in Writers : Write(w) \/ WriterEnds(w) \/ Abandon(w))
  \/ Scp \/ Chmod \/ Cp \/ Rm
Adds == AddPid \/ AddClose \/ AddTransfer
Begins == BeginCleanup \/ BeginInterrupt
Ends == EndCleanup \/ EndInterrupt

(* Every step is one of these, or one of the loop of a pass.                *)
LEMMA Steps ==
  ASSUME [Next]_vars
  PROVE  \/ UNCHANGED vars
         \/ Plain \/ Adds \/ Begins \/ Ends
         \/ \E g \in Goroutines : StartTask(g) \/ TaskOver(g) \/ EndStage(g)
BY DEF Next, MainReturns, MainWorks, SignalStep, WorkStep, HookStep, Over, Plain,
   Adds, Begins, Ends, Goroutines

LEMMA PlainKeeps == Plain => UNCHANGED hookVars
BY DEF Plain, PidFile, Checks, StartTicker, AddUIStop, TransportFails,
   StartCollection, EndCollection, BeginArchive, EndArchive, SetError, ShowError,
   SkipCleanup, Signal, SkipInterrupt, Exit, TaskEnds, Write, WriterEnds, Abandon,
   Scp, Chmod, Cp, Rm

(* A registration gives one list one task of its own.                       *)
LEMMA AddsRegister ==
  Adds => /\ \/ Register("cancelOnly", "rmTransfer")
             \/ Register("finalSteps", "rmPid")
             \/ Register("finalSteps", "close")
          /\ UNCHANGED <<effects, writing, abandoned, archive, result, failure, signal>>
BY DEF Adds, AddPid, AddClose, AddTransfer, work, CopyIdle, effects

-----------------------------------------------------------------------------
(* The types of what is not the hook's.                                     *)
PlainTypes ==
  /\ main \in MainLocations
  /\ signal \in SignalLocations
  /\ alive \in SUBSET Tasks
  /\ {cancelled, failure, pidFile, tmp, got, remote} \subseteq BOOLEAN
  /\ ui \in {"none", "started", "registered", "stopped"}
  /\ result \in {"", "error", "CANCELLING", "CLEANUP TASKS", "USER CANCELLED",
                 "COMPLETED", "FAILED", "Creating final archive"}
  /\ writing \in SUBSET Writers
  /\ abandoned \in SUBSET Writers
  /\ archive \in {"none", "partial", "complete"}
  /\ copy \in CopyLocations
  /\ exited \in Goroutines \cup {"no"}
HookTypes ==
  /\ holder \in Goroutines \cup {"none"}
  /\ holder = "main" <=> main = "cleanup"
  /\ holder = "signal" <=> signal = "interrupt"
  /\ tasks \in [Lists -> Seq(Tasks)]
  /\ left \in Seq(Lists)
  /\ holder = "none" => left = <<>>
  /\ at \in Nat
  /\ awaited \in Tasks \cup {"none"}
  /\ run \in SUBSET (Goroutines \X Tasks)

LEMMA PlainTypesStep ==
  ASSUME IInv, [Next]_vars
  PROVE  PlainTypes'
<1>1. PlainTypes  BY DEF IInv, TypeOK, PlainTypes
<1>2. CASE UNCHANGED vars
  BY <1>1, <1>2 DEF vars, hookVars, effects, work, PlainTypes
<1>3. CASE Plain
  <2>1. CASE PidFile \/ Checks \/ StartTicker \/ AddUIStop \/ TransportFails
             \/ StartCollection \/ EndCollection \/ BeginArchive \/ EndArchive
    BY <1>1, <2>1
    DEF PlainTypes, PidFile, Checks, StartTicker, AddUIStop, TransportFails,
        StartCollection, EndCollection, BeginArchive, EndArchive, Goto,
        MainLocations, CopyLocations, effects, work
  <2>2. CASE SetError \/ ShowError \/ SkipCleanup \/ Signal \/ SkipInterrupt
             \/ \E g \in Goroutines : Exit(g)
    BY <1>1, <2>2
    DEF PlainTypes, SetError, ShowError, SkipCleanup, Signal, SkipInterrupt, Exit,
        ErrorRecorded, Goto, MainLocations, SignalLocations, Goroutines, effects, work
  <2>3. CASE \E t \in Tasks : TaskEnds(t)
    BY <1>1, <2>3 DEF PlainTypes, TaskEnds, work
  <2>4. CASE \E w \in Writers : Write(w) \/ WriterEnds(w) \/ Abandon(w)
    BY <1>1, <2>4 DEF PlainTypes, Write, WriterEnds, Abandon, effects
  <2>5. CASE Scp \/ Chmod \/ Cp \/ Rm
    BY <1>1, <2>5 DEF PlainTypes, Scp, Chmod, Cp, Rm, CopyIdle, CopyLocations
  <2>6. QED  BY <1>3, <2>1, <2>2, <2>3, <2>4, <2>5 DEF Plain
<1>4. CASE Adds
  BY <1>1, <1>4
  DEF PlainTypes, Adds, AddPid, AddClose, AddTransfer, Goto, MainLocations,
      CopyLocations, CopyIdle, effects, work
<1>5. CASE Begins \/ Ends
  BY <1>1, <1>5
  DEF PlainTypes, Begins, Ends, BeginCleanup, BeginInterrupt, EndCleanup, EndInterrupt,
      BeginPass, EndPass, Goto, MainLocations, SignalLocations, effects, work
<1>6. ASSUME NEW g \in Goroutines, StartTask(g) \/ TaskOver(g) \/ EndStage(g)
      PROVE  PlainTypes'
  <2>1. CASE StartTask(g)
    <3>1. awaited' \in Tasks  BY <2>1, StartTaskEffect DEF IInv
    <3>2. QED  BY <1>1, <2>1, <3>1 DEF PlainTypes, StartTask, work
  <2>2. CASE TaskOver(g) \/ EndStage(g)
    BY <1>1, <2>2 DEF PlainTypes, TaskOver, EndStage, effects, work
  <2>3. QED  BY <1>6, <2>1, <2>2
<1>7. QED  BY <1>2, <1>3, <1>4, <1>5, <1>6, Steps

LEMMA HookTypesStep ==
  ASSUME IInv, [Next]_vars
  PROVE  HookTypes' /\ ListInv'
<1>1. HookTypes /\ ListInv /\ TypeOK  BY DEF IInv, TypeOK, HookTypes
<1>2. CASE UNCHANGED vars
  BY <1>1, <1>2 DEF vars, hookVars, HookTypes, ListInv
<1>3. CASE Plain
  <2>1. UNCHANGED hookVars  BY <1>3, PlainKeeps
  <2>2. (main' = "cleanup") = (main = "cleanup")
    BY <1>3
    DEF Plain, PidFile, Checks, StartTicker, AddUIStop, TransportFails,
        StartCollection, EndCollection, BeginArchive, EndArchive, SetError, ShowError,
        SkipCleanup, Signal, SkipInterrupt, Exit, TaskEnds, Write, WriterEnds, Abandon,
        Scp, Chmod, Cp, Rm, Goto, CopyIdle
  <2>3. (signal' = "interrupt") = (signal = "interrupt")
    BY <1>3
    DEF Plain, PidFile, Checks, StartTicker, AddUIStop, TransportFails,
        StartCollection, EndCollection, BeginArchive, EndArchive, SetError, ShowError,
        SkipCleanup, Signal, SkipInterrupt, Exit, TaskEnds, Write, WriterEnds, Abandon,
        Scp, Chmod, Cp, Rm, Goto, CopyIdle
  <2>4. QED  BY <1>1, <2>1, <2>2, <2>3 DEF HookTypes, ListInv, hookVars
<1>4. CASE Adds
  <2>1. PICK l \in Lists, t \in Tasks : t \in Home[l] /\ Register(l, t)
    BY <1>4, AddsRegister DEF Lists, Home, Tasks
  <2>2. /\ tasks' \in [Lists -> Seq(Tasks)]
        /\ \A k \in Lists \ {l} : tasks'[k] = tasks[k]
        /\ \A i \in DOMAIN tasks'[l] :
             tasks'[l][i] = t \/ (i \in DOMAIN tasks[l] /\ tasks'[l][i] = tasks[l][i])
    BY <1>1, <2>1, RegisterEffect
  <2>3. ListInv'  BY <1>1, <2>1, <2>2 DEF ListInv
  <2>4. UNCHANGED <<holder, left, at, awaited, run>>  BY <2>1 DEF Register
  <2>5. /\ (main' = "cleanup") = (main = "cleanup")
        /\ (signal' = "interrupt") = (signal = "interrupt")
    BY <1>4 DEF Adds, AddPid, AddClose, AddTransfer, Goto, CopyIdle
  <2>6. QED  BY <1>1, <2>2, <2>3, <2>4, <2>5 DEF HookTypes
<1>5. CASE Begins
  <2>1. \A g \in Goroutines : Order(g) \in Seq(Lists)
    <3>1. /\ <<"cleanups", "finalSteps">> \in Seq(Lists)
          /\ <<"cancelOnly", "cleanups", "finalSteps">> \in Seq(Lists)
      BY DEF Lists
    <3>2. QED  BY <3>1 DEF Order
  <2>2. \E g \in Goroutines :
          /\ holder = "none" /\ holder' = g /\ left' = Order(g) /\ at' = 1
          /\ main' = IF g = "main" THEN "cleanup" ELSE main
          /\ signal' = IF g = "signal" THEN "interrupt" ELSE signal
          /\ UNCHANGED <<tasks, awaited, run>>
    BY <1>5 DEF Begins, BeginCleanup, BeginInterrupt, BeginPass, Goto, Goroutines
  <2>3. ListInv'  BY <1>1, <2>2 DEF ListInv
  <2>4. QED  BY <1>1, <2>1, <2>2, <2>3 DEF HookTypes, Goroutines
<1>6. CASE Ends
  BY <1>1, <1>6
  DEF HookTypes, ListInv, Ends, EndCleanup, EndInterrupt, EndPass, FreeMutex, Goto
<1>7. ASSUME NEW g \in Goroutines, StartTask(g)
      PROVE  HookTypes' /\ ListInv'
  <2>1. awaited' \in Tasks  BY <1>7, StartTaskEffect DEF IInv
  <2>2. run' \in SUBSET (Goroutines \X Tasks)
    <3>1. run' = run \cup {<<g, awaited'>>}  BY <1>7 DEF StartTask
    <3>2. <<g, awaited'>> \in Goroutines \X Tasks  BY <2>1
    <3>3. run \subseteq Goroutines \X Tasks  BY <1>1 DEF HookTypes
    <3>4. QED  BY <3>1, <3>2, <3>3
  <2>3. QED  BY <1>1, <1>7, <2>1, <2>2 DEF HookTypes, ListInv, StartTask
<1>8. ASSUME NEW g \in Goroutines, TaskOver(g)
      PROVE  HookTypes' /\ ListInv'
  BY <1>1, <1>8 DEF HookTypes, ListInv, TaskOver
<1>9. ASSUME NEW g \in Goroutines, EndStage(g)
      PROVE  HookTypes' /\ ListInv'
  <2>1. /\ tasks' \in [Lists -> Seq(Tasks)]
        /\ left' \in Seq(Lists)
        /\ Head(left) \in Lists
        /\ tasks'[Head(left)] = <<>>
        /\ \A k \in Lists \ {Head(left)} : tasks'[k] = tasks[k]
    BY <1>1, <1>9, EndStageEffect
  <2>2. DOMAIN <<>> = {}  OBVIOUS
  <2>3. ListInv'  BY <1>1, <2>1, <2>2 DEF ListInv
  <2>4. UNCHANGED <<main, signal, holder, awaited, run>> /\ at' = 1 /\ holder = g
    BY <1>9 DEF EndStage
  <2>5. QED  BY <1>1, <2>1, <2>3, <2>4 DEF HookTypes, Goroutines
<1>10. QED  BY <1>2, <1>3, <1>4, <1>5, <1>6, <1>7, <1>8, <1>9, Steps

(* Every step keeps the types, the mutex and the lists.                     *)
LEMMA TypeStep ==
  ASSUME IInv, [Next]_vars
  PROVE  TypeOK' /\ ListInv'
BY PlainTypesStep, HookTypesStep DEF TypeOK, PlainTypes, HookTypes

-----------------------------------------------------------------------------
(* Who moves the main goroutine and the transfer, where it matters.         *)
LEMMA PlainMoves ==
  ASSUME Plain, WorkInv
  PROVE  /\ main' \in BeforeAddPid => main \in BeforeAddPid
         /\ main' \in BeforeAddClose => main \in BeforeAddClose
         /\ main \in {"cleanup", "exit"} => main' = main
         /\ signal \in {"interrupt", "exit"} => signal' = signal
         /\ copy' \in {"off", "idle", "copied", "readable"}
              => copy \in {"off", "idle", "copied", "readable"}
BY DEF Plain, PidFile, Checks, StartTicker, AddUIStop, TransportFails,
       StartCollection, EndCollection, BeginArchive, EndArchive, SetError, ShowError,
       SkipCleanup, Signal, SkipInterrupt, Exit, TaskEnds, Write, WriterEnds, Abandon,
       Scp, Chmod, Cp, Rm, Goto, CopyIdle, work, BeforeAddPid, BeforeAddClose, WorkInv

LEMMA FreshStep ==
  ASSUME IInv, [Next]_vars
  PROVE  FreshInv'
<1>1. FreshInv /\ TypeOK /\ WorkInv  BY DEF IInv
<1>2. CASE UNCHANGED vars
  BY <1>1, <1>2 DEF vars, hookVars, work, FreshInv, Fresh, Listed
<1>3. CASE Plain
  BY <1>1, <1>3, PlainKeeps, PlainMoves DEF FreshInv, Fresh, Listed, hookVars
<1>4. CASE AddPid
  <2>1. \A u : Listed(u)' => Listed(u) \/ u = "rmPid"
    BY <1>1, <1>4, RegisterEffect DEF AddPid, Lists, Tasks
  <2>2. UNCHANGED <<run, copy>> /\ main = "addPid" /\ main' = "checks"
    BY <1>4 DEF AddPid, Goto, Register, work
  <2>3. QED  BY <1>1, <2>1, <2>2 DEF FreshInv, Fresh, BeforeAddPid, BeforeAddClose
<1>5. CASE AddClose
  <2>1. \A u : Listed(u)' => Listed(u) \/ u = "close"
    BY <1>1, <1>5, RegisterEffect DEF AddClose, Lists, Tasks
  <2>2. UNCHANGED <<run, copy>> /\ main' = "transport"
    BY <1>5 DEF AddClose, Goto, Register, work
  <2>3. QED  BY <1>1, <2>1, <2>2 DEF FreshInv, Fresh, BeforeAddPid, BeforeAddClose
<1>6. CASE AddTransfer
  <2>1. \A u : Listed(u)' => Listed(u) \/ u = "rmTransfer"
    BY <1>1, <1>6, RegisterEffect DEF AddTransfer, Lists, Tasks
  <2>2. UNCHANGED <<run, main>> /\ copy' = "registered"
    BY <1>6 DEF AddTransfer, CopyIdle, Register
  <2>3. QED  BY <1>1, <2>1, <2>2 DEF FreshInv, Fresh
<1>7. CASE Begins \/ Ends
  <2>1. UNCHANGED <<tasks, run, copy>>
    BY <1>7
    DEF Begins, Ends, BeginCleanup, BeginInterrupt, EndCleanup, EndInterrupt,
        BeginPass, EndPass, work
  <2>2. main' = main \/ main' \in {"cleanup", "exit"}
    BY <1>7
    DEF Begins, Ends, BeginCleanup, BeginInterrupt, EndCleanup, EndInterrupt, Goto
  <2>3. QED
    BY <1>1, <2>1, <2>2 DEF FreshInv, Fresh, Listed, BeforeAddPid, BeforeAddClose
<1>8. ASSUME NEW g \in Goroutines, StartTask(g)
      PROVE  FreshInv'
  <2>1. Listed(awaited')  BY <1>8, StartTaskEffect DEF IInv
  <2>2. run' = run \cup {<<g, awaited'>>} /\ UNCHANGED <<tasks, main, copy>>
    BY <1>8 DEF StartTask, work
  <2>3. \A u : Fresh(u) => Fresh(u)'
    BY <2>1, <2>2 DEF Fresh, Listed
  <2>4. QED  BY <1>1, <2>2, <2>3 DEF FreshInv
<1>9. ASSUME NEW g \in Goroutines, TaskOver(g) \/ EndStage(g)
      PROVE  FreshInv'
  <2>1. \A u : Listed(u)' => Listed(u)
    BY <1>1, <1>9, EndStageEffect DEF TaskOver, Listed
  <2>2. UNCHANGED <<run, main, copy>>  BY <1>9 DEF TaskOver, EndStage, work
  <2>3. QED  BY <1>1, <2>1, <2>2 DEF FreshInv, Fresh
<1>10. QED  BY <1>2, <1>3, <1>4, <1>5, <1>6, <1>7, <1>8, <1>9, Steps DEF Adds

-----------------------------------------------------------------------------
(* A goroutine in a pass is the one that holds the mutex.                   *)
LEMMA HolderInPass ==
  ASSUME TypeOK, NEW g \in Goroutines, holder = g
  PROVE  IF g = "main" THEN main = "cleanup" ELSE signal = "interrupt"
BY DEF TypeOK, Goroutines

(* The task that a pass is about to start has not been run by the other.    *)
LEMMA NotRunByOther ==
  ASSUME IInv, NEW g \in Goroutines, StartTask(g), NEW h \in Goroutines \ {g}
  PROVE  <<h, awaited'>> \notin run
<1>1. Head(left) \in Lists /\ at \in DOMAIN tasks[Head(left)]
      /\ awaited' = tasks[Head(left)][at]
  BY StartTaskEffect DEF IInv
<1>2. holder = g  BY DEF StartTask
<1>3. QED  BY <1>1, <1>2 DEF IInv, RunInv

LEMMA RunStep ==
  ASSUME IInv, [Next]_vars
  PROVE  RunInv'
<1> DEFINE InPass(t) ==
      /\ <<"main", t>> \in run => main \in {"cleanup", "exit"}
      /\ <<"signal", t>> \in run => signal \in {"interrupt", "exit"}
    Recorded(g, l, i) ==
      <<g, tasks[l][i]>> \in run => holder = g /\ left # <<>> /\ l = Head(left)
<1>1. RunInv /\ TypeOK /\ ListInv /\ FreshInv /\ PassInv /\ WorkInv  BY DEF IInv
<1>2. CASE UNCHANGED vars
  BY <1>1, <1>2 DEF vars, hookVars, RunInv
<1>3. CASE Plain
  BY <1>1, <1>3, PlainKeeps, PlainMoves DEF RunInv, hookVars
<1>4. ASSUME NEW l \in Lists, NEW t \in Tasks, Register(l, t), Fresh(t),
             UNCHANGED signal, main' = main \/ main \in BeforeAddClose
      PROVE  RunInv'
  <2>1. /\ \A k \in Lists \ {l} : tasks'[k] = tasks[k]
        /\ \A i \in DOMAIN tasks'[l] :
             tasks'[l][i] = t \/ (i \in DOMAIN tasks[l] /\ tasks'[l][i] = tasks[l][i])
    BY <1>1, <1>4, RegisterEffect
  <2>2. UNCHANGED <<holder, left, run>>  BY <1>4 DEF Register
  <2>3. \A u \in Tasks : InPass(u)'
    BY <1>1, <1>4, <2>2 DEF RunInv, BeforeAddClose, BeforeAddPid
  <2>4. \A g \in Goroutines : \A k \in Lists : \A i \in DOMAIN tasks'[k] : Recorded(g, k, i)'
    BY <1>1, <1>4, <2>1, <2>2 DEF RunInv, Fresh
  <2>5. QED  BY <2>3, <2>4 DEF RunInv
<1>5. CASE Adds
  <2>1. CASE AddPid
    BY <1>1, <1>4, <2>1
    DEF AddPid, Goto, FreshInv, BeforeAddPid, BeforeAddClose, Lists, Tasks
  <2>2. CASE AddClose
    BY <1>1, <1>4, <2>2
    DEF AddClose, Goto, FreshInv, BeforeAddPid, BeforeAddClose, Lists, Tasks
  <2>3. CASE AddTransfer
    BY <1>1, <1>4, <2>3 DEF AddTransfer, CopyIdle, FreshInv, Lists, Tasks
  <2>4. QED  BY <1>5, <2>1, <2>2, <2>3 DEF Adds
<1>6. CASE Begins
  <2>1. UNCHANGED <<tasks, run>> /\ holder = "none"
    BY <1>6 DEF Begins, BeginCleanup, BeginInterrupt, BeginPass
  <2>2. /\ main' = main \/ main = "return"
        /\ signal' = signal \/ signal = "received"
    BY <1>6 DEF Begins, BeginCleanup, BeginInterrupt, Goto
  <2>3. \A u \in Tasks : InPass(u)'  BY <1>1, <2>1, <2>2 DEF RunInv
  <2>4. \A g \in Goroutines : \A k \in Lists : \A i \in DOMAIN tasks[k] :
          <<g, tasks[k][i]>> \notin run
    BY <1>1, <2>1 DEF RunInv, Goroutines
  <2>5. QED  BY <2>1, <2>3, <2>4 DEF RunInv
<1>7. CASE Ends
  <2>1. UNCHANGED <<tasks, run>> /\ left = <<>>
    BY <1>7 DEF Ends, EndCleanup, EndInterrupt, EndPass
  <2>2. /\ main' = main \/ main' = "exit"
        /\ signal' = signal \/ signal' = "exit"
    BY <1>7 DEF Ends, EndCleanup, EndInterrupt, Goto
  <2>3. \A u \in Tasks : InPass(u)'  BY <1>1, <2>1, <2>2 DEF RunInv
  <2>4. \A g \in Goroutines : \A k \in Lists : \A i \in DOMAIN tasks[k] :
          <<g, tasks[k][i]>> \notin run
    BY <1>1, <2>1 DEF RunInv
  <2>5. QED  BY <2>1, <2>3, <2>4 DEF RunInv
<1>8. ASSUME NEW g \in Goroutines, StartTask(g)
      PROVE  RunInv'
  <2>1. /\ Head(left) \in Lists /\ awaited' \in Home[Head(left)]
        /\ holder = g /\ left # <<>>
        /\ run' = run \cup {<<g, awaited'>>}
        /\ UNCHANGED <<tasks, holder, left, main, signal>>
    BY <1>1, <1>8, StartTaskEffect DEF StartTask
  <2>2. \A u \in Tasks : InPass(u)'
    BY <1>1, <2>1, HolderInPass DEF RunInv, Goroutines
  <2>3. \A k \in Lists : \A i \in DOMAIN tasks[k] :
          tasks[k][i] = awaited' => k = Head(left)
    BY <1>1, <2>1 DEF ListInv, Home, Lists
  <2>4. \A h \in Goroutines : \A k \in Lists : \A i \in DOMAIN tasks[k] : Recorded(h, k, i)'
    BY <1>1, <2>1, <2>3 DEF RunInv
  <2>5. QED  BY <2>1, <2>2, <2>4 DEF RunInv
<1>9. ASSUME NEW g \in Goroutines, TaskOver(g)
      PROVE  RunInv'
  BY <1>1, <1>9 DEF RunInv, TaskOver
<1>10. ASSUME NEW g \in Goroutines, EndStage(g)
      PROVE  RunInv'
  <2>1. /\ Head(left) \in Lists /\ tasks'[Head(left)] = <<>>
        /\ \A k \in Lists \ {Head(left)} : tasks'[k] = tasks[k]
    BY <1>1, <1>10, EndStageEffect
  <2>2. UNCHANGED <<run, main, signal>>  BY <1>10 DEF EndStage
  <2>3. \A u \in Tasks : InPass(u)'  BY <1>1, <2>2 DEF RunInv
  <2>4. DOMAIN <<>> = {}  OBVIOUS
  <2>5. \A h \in Goroutines : \A k \in Lists : \A i \in DOMAIN tasks'[k] :
          <<h, tasks'[k][i]>> \notin run
    BY <1>1, <2>1, <2>4 DEF RunInv
  <2>6. QED  BY <2>2, <2>3, <2>5 DEF RunInv
<1>11. QED  BY <1>2, <1>3, <1>5, <1>6, <1>7, <1>8, <1>9, <1>10, Steps

LEMMA RunOnceStep ==
  ASSUME IInv, [Next]_vars
  PROVE  RunOnce'
<1>1. RunOnce  BY DEF IInv
<1>2. CASE UNCHANGED run
  BY <1>1, <1>2 DEF RunOnce
<1>3. ASSUME NEW g \in Goroutines, StartTask(g)
      PROVE  RunOnce'
  <2>1. \A h \in Goroutines \ {g} : <<h, awaited'>> \notin run
    BY <1>3, NotRunByOther
  <2>2. run' = run \cup {<<g, awaited'>>}  BY <1>3 DEF StartTask
  <2>3. \E h \in Goroutines : h # g  BY DEF Goroutines
  <2>4. QED  BY <1>1, <2>1, <2>2, <2>3 DEF RunOnce
<1>4. CASE Adds \/ Begins \/ Ends \/ \E g \in Goroutines : TaskOver(g) \/ EndStage(g)
  BY <1>2, <1>4
  DEF Adds, AddPid, AddClose, AddTransfer, Register, Begins, BeginCleanup,
      BeginInterrupt, BeginPass, Ends, EndCleanup, EndInterrupt, EndPass, TaskOver,
      EndStage
<1>5. CASE UNCHANGED vars \/ Plain
  BY <1>2, <1>5, PlainKeeps DEF vars, hookVars
<1>6. QED  BY <1>3, <1>4, <1>5, Steps

-----------------------------------------------------------------------------
LEMMA PassStep ==
  ASSUME IInv, [Next]_vars
  PROVE  PassInv'
<1>1. PassInv /\ TypeOK  BY DEF IInv
<1>2. CASE UNCHANGED vars \/ Plain
  BY <1>1, <1>2, PlainKeeps DEF vars, hookVars, PassInv
<1>3. CASE Adds
  BY <1>1, <1>3, AddsRegister DEF Register, PassInv
<1>4. CASE Begins
  <2>1. at' = 1 /\ left' \in {<<"cancelOnly", "cleanups", "finalSteps">>,
                              <<"cleanups", "finalSteps">>}
    BY <1>4 DEF Begins, BeginCleanup, BeginInterrupt, BeginPass, Order
  <2>2. QED  BY <2>1, Rests DEF PassInv
<1>5. CASE Ends
  BY <1>1, <1>5 DEF Ends, EndCleanup, EndInterrupt, EndPass, FreeMutex, PassInv
<1>6. ASSUME NEW g \in Goroutines, StartTask(g) \/ TaskOver(g)
      PROVE  PassInv'
  <2>1. UNCHANGED <<holder, tasks, left>> /\ at' \in {at, at + 1}
    BY <1>6 DEF StartTask, TaskOver
  <2>2. at' > 0
    <3>1. at \in Nat /\ at > 0  BY <1>1 DEF PassInv, TypeOK
    <3>2. QED  BY <2>1, <3>1
  <2>3. QED  BY <1>1, <2>1, <2>2 DEF PassInv
<1>7. ASSUME NEW g \in Goroutines, EndStage(g)
      PROVE  PassInv'
  <2>1. /\ left' = Tail(left) /\ tasks'[Head(left)] = <<>>
        /\ \A k \in Lists \ {Head(left)} : tasks'[k] = tasks[k]
        /\ at' = 1 /\ left # <<>> /\ holder = g
    BY <1>1, <1>7, EndStageEffect DEF EndStage
  <2>2. holder # "none"  BY <2>1 DEF Goroutines
  <2>3. CASE left = <<"cancelOnly", "cleanups", "finalSteps">>
    BY <2>1, <2>3, Rests DEF PassInv
  <2>4. CASE left = <<"cleanups", "finalSteps">>
    BY <2>1, <2>4, Rests DEF PassInv
  <2>5. CASE left = <<"finalSteps">>
    <3>1. tasks'["cleanups"] = <<>>
      BY <1>1, <2>1, <2>2, <2>5, Rests DEF PassInv, Lists
    <3>2. QED  BY <2>1, <2>5, <3>1, Rests DEF PassInv
  <2>6. QED  BY <1>1, <2>1, <2>2, <2>3, <2>4, <2>5 DEF PassInv
<1>8. QED  BY <1>2, <1>3, <1>4, <1>5, <1>6, <1>7, Steps

-----------------------------------------------------------------------------
LEMMA CancelStep ==
  ASSUME IInv, [Next]_vars
  PROVE  CancelInv'
<1>1. CancelInv /\ RunInv /\ TypeOK /\ PassInv /\ ListInv  BY DEF IInv
<1>2. CASE UNCHANGED vars
  BY <1>1, <1>2 DEF vars, hookVars, effects, CancelInv
<1>3. CASE UNCHANGED <<run, holder, left>>
           /\ (cancelled' \/ "cancel" \in alive' => cancelled \/ "cancel" \in alive)
  BY <1>1, <1>3 DEF CancelInv
<1>4. CASE Plain \/ Adds
  <2>1. UNCHANGED <<run, holder, left>>
    BY <1>4, PlainKeeps, AddsRegister DEF hookVars, Register
  <2>2. cancelled' \/ "cancel" \in alive' => cancelled \/ "cancel" \in alive
    BY <1>4
    DEF Plain, PidFile, Checks, StartTicker, AddUIStop, TransportFails,
        StartCollection, EndCollection, BeginArchive, EndArchive, SetError, ShowError,
        SkipCleanup, Signal, SkipInterrupt, Exit, TaskEnds, Write, WriterEnds, Abandon,
        Scp, Chmod, Cp, Rm, Goto, CopyIdle, effects, Adds, AddPid, AddClose, AddTransfer
  <2>3. QED  BY <1>3, <2>1, <2>2
<1>5. CASE Begins
  <2>1. UNCHANGED <<run, cancelled, alive>>
    BY <1>5 DEF Begins, BeginCleanup, BeginInterrupt, BeginPass, effects
  <2>2. holder' = "signal" => signal = "received"
    BY <1>5 DEF Begins, BeginCleanup, BeginInterrupt, BeginPass
  <2>3. QED  BY <1>1, <2>1, <2>2 DEF CancelInv, RunInv, Tasks
<1>6. CASE Ends
  <2>1. UNCHANGED <<run, cancelled, alive>> /\ holder' = "none"
    BY <1>6 DEF Ends, EndCleanup, EndInterrupt, EndPass, FreeMutex, effects
  <2>2. QED  BY <1>1, <2>1 DEF CancelInv
<1>7. ASSUME NEW g \in Goroutines, StartTask(g)
      PROVE  CancelInv'
  <2>1. /\ awaited' \in Home[Head(left)]
        /\ run' = run \cup {<<g, awaited'>>} /\ alive' = alive \cup {awaited'}
        /\ UNCHANGED <<cancelled, holder, left>>
    BY <1>1, <1>7, StartTaskEffect DEF StartTask
  <2>2. left = <<"cancelOnly", "cleanups", "finalSteps">> => awaited' # "cancel"
    BY <2>1, Rests DEF Home
  <2>3. QED  BY <1>1, <2>1, <2>2 DEF CancelInv
<1>8. ASSUME NEW g \in Goroutines, TaskOver(g)
      PROVE  CancelInv'
  BY <1>1, <1>8 DEF TaskOver, effects, CancelInv
<1>9. ASSUME NEW g \in Goroutines, EndStage(g)
      PROVE  CancelInv'
  <2>1. /\ left' = Tail(left) /\ holder # "none" /\ left # <<>>
        /\ UNCHANGED <<run, cancelled, alive>>
    BY <1>1, <1>9, EndStageEffect DEF EndStage, effects, Goroutines
  <2>2. left' # <<"cancelOnly", "cleanups", "finalSteps">>
    BY <1>1, <2>1, Rests DEF PassInv
  <2>3. QED  BY <1>1, <2>1, <2>2 DEF CancelInv
<1>10. QED  BY <1>2, <1>4, <1>5, <1>6, <1>7, <1>8, <1>9, Steps

-----------------------------------------------------------------------------
(* Nothing of the work changes in the steps of the hook.                    *)
LEMMA WorkStays ==
  ASSUME Begins \/ Ends \/ \E g \in Goroutines : StartTask(g) \/ TaskOver(g) \/ EndStage(g)
  PROVE  /\ UNCHANGED <<work, remote, failure, cancelled, tmp>>
         /\ main' = main \/ main' \in {"cleanup", "exit"}
         /\ main = "collect" => main' = main
         /\ run \subseteq run'
BY DEF Begins, BeginCleanup, BeginInterrupt, Ends, EndCleanup, EndInterrupt, BeginPass,
   EndPass, StartTask, TaskOver, EndStage, Goto, effects

LEMMA TransferStep ==
  ASSUME IInv, [Next]_vars
  PROVE  (copy = "ended" /\ remote /\ Listed("rmTransfer")
            => <<"signal", "cancel">> \in run)'
<1>1. WorkInv /\ TypeOK /\ FreshInv /\ CancelInv /\ RunInv  BY DEF IInv
<1> SUFFICES ASSUME copy' = "ended", remote', Listed("rmTransfer")'
             PROVE  <<"signal", "cancel">> \in run'
  OBVIOUS
<1>2. CASE UNCHANGED vars
  BY <1>1, <1>2 DEF vars, hookVars, effects, work, WorkInv, Listed
<1>3. CASE Scp \/ Chmod
  <2>1. Fresh("rmTransfer")  BY <1>1, <1>3 DEF Scp, Chmod, FreshInv
  <2>2. tasks' = tasks  BY <1>3 DEF Scp, Chmod, hookVars
  <2>3. QED  BY <2>1, <2>2 DEF Fresh, Listed
<1>4. CASE Rm
  <2>1. copy = "moved" /\ cancelled /\ run' = run  BY <1>4 DEF Rm, hookVars
  <2>2. main = "collect"  BY <1>1, <2>1 DEF WorkInv
  <2>3. PICK g \in Goroutines : <<g, "cancel">> \in run  BY <1>1, <2>1 DEF CancelInv
  <2>4. g # "main"  BY <1>1, <2>2, <2>3 DEF RunInv, Tasks
  <2>5. QED  BY <2>1, <2>3, <2>4 DEF Goroutines
<1>5. CASE Plain /\ ~Scp /\ ~Chmod /\ ~Rm
  <2>1. UNCHANGED <<tasks, run>>  BY <1>5, PlainKeeps DEF hookVars
  <2>2. copy = "ended" /\ remote
    BY <1>5
    DEF Plain, PidFile, Checks, StartTicker, AddUIStop, TransportFails,
        StartCollection, EndCollection, BeginArchive, EndArchive, SetError, ShowError,
        SkipCleanup, Signal, SkipInterrupt, Exit, TaskEnds, Write, WriterEnds, Abandon,
        Cp, Goto, CopyIdle, effects, work
  <2>3. QED  BY <1>1, <2>1, <2>2 DEF WorkInv, Listed
<1>6. CASE Adds
  <2>1. ~AddTransfer  BY DEF AddTransfer
  <2>2. UNCHANGED <<copy, remote, run>>
    BY <1>6, <2>1 DEF Adds, AddPid, AddClose, Register, effects, work
  <2>3. \A u : Listed(u)' => Listed(u) \/ u \in {"rmPid", "close"}
    BY <1>1, <1>6, <2>1, RegisterEffect DEF Adds, AddPid, AddClose, Lists, Tasks
  <2>4. QED  BY <1>1, <2>2, <2>3 DEF WorkInv
<1>7. CASE Begins \/ Ends \/ \E g \in Goroutines : StartTask(g) \/ TaskOver(g) \/ EndStage(g)
  <2>1. copy = "ended" /\ remote /\ run \subseteq run'  BY <1>7, WorkStays DEF work
  <2>2. \A u : Listed(u)' => Listed(u)
    <3>1. CASE \E g \in Goroutines : EndStage(g)
      BY <1>1, <3>1, EndStageEffect
    <3>2. CASE Begins \/ Ends \/ \E g \in Goroutines : StartTask(g) \/ TaskOver(g)
      BY <3>2
      DEF Listed, Begins, BeginCleanup, BeginInterrupt, Ends, EndCleanup,
          EndInterrupt, BeginPass, EndPass, StartTask, TaskOver
    <3>3. QED  BY <1>7, <3>1, <3>2
  <2>3. QED  BY <1>1, <2>1, <2>2 DEF WorkInv
<1>8. QED  BY <1>2, <1>3, <1>4, <1>5, <1>6, <1>7, Steps

LEMMA WorkInvStep ==
  ASSUME IInv, [Next]_vars
  PROVE  WorkInv'
<1>1. WorkInv /\ TypeOK  BY DEF IInv
<1> DEFINE Rest ==
      /\ main # "collect" => copy \in {"off", "idle", "ended"} /\ writing \subseteq abandoned
      /\ main \in BeforeAddClose \cup {"transport"} => copy = "off"
<1> SUFFICES Rest'
  BY TransferStep DEF WorkInv
<1>2. CASE UNCHANGED <<main, work>>
  BY <1>1, <1>2 DEF work, WorkInv
<1>3. CASE PidFile \/ Checks \/ StartTicker \/ AddUIStop \/ TransportFails \/ AddPid
           \/ AddClose
  BY <1>1, <1>3
  DEF PidFile, Checks, StartTicker, AddUIStop, TransportFails, AddPid, AddClose, Goto,
      work, WorkInv, BeforeAddClose, BeforeAddPid
<1>4. CASE StartCollection
  BY <1>1, <1>4
  DEF StartCollection, Goto, work, WorkInv, BeforeAddClose, BeforeAddPid
<1>5. CASE EndCollection \/ BeginArchive \/ EndArchive \/ SetError \/ ShowError
           \/ SkipCleanup
  BY <1>1, <1>5
  DEF EndCollection, WorkDone, BeginArchive, EndArchive, SetError, ShowError,
      SkipCleanup, Goto, work, WorkInv, BeforeAddClose, BeforeAddPid
<1>6. CASE \E w \in Writers : Write(w) \/ WriterEnds(w) \/ Abandon(w)
  BY <1>1, <1>6 DEF Write, WriterEnds, Abandon, work, WorkInv
<1>7. CASE Scp \/ Chmod \/ AddTransfer \/ Cp \/ Rm
  BY <1>1, <1>7
  DEF Scp, Chmod, AddTransfer, Cp, Rm, CopyIdle, WorkInv, BeforeAddClose, BeforeAddPid
<1>8. CASE Signal \/ SkipInterrupt \/ (\E g \in Goroutines : Exit(g))
           \/ (\E t \in Tasks : TaskEnds(t)) \/ UNCHANGED vars
  BY <1>2, <1>8 DEF Signal, SkipInterrupt, Exit, TaskEnds, vars
<1>9. CASE Begins \/ Ends \/ \E g \in Goroutines : StartTask(g) \/ TaskOver(g) \/ EndStage(g)
  BY <1>1, <1>9, WorkStays DEF work, WorkInv, BeforeAddClose, BeforeAddPid
<1>10. QED
  BY <1>3, <1>4, <1>5, <1>6, <1>7, <1>8, <1>9, Steps DEF Plain, Adds

-----------------------------------------------------------------------------
(* When an interrupt has run Close, Cleanup finds nothing to do.            *)
LEMMA NoCleanupAfterClose ==
  CloseInv /\ BeginCleanup => <<"signal", "close">> \notin run
<1> SUFFICES ASSUME CloseInv, BeginCleanup, <<"signal", "close">> \in run
             PROVE  FALSE
  OBVIOUS
<1>1. holder = "none" /\ SomethingToDo("main")  BY DEF BeginCleanup, BeginPass
<1>2. tasks["cleanups"] = <<>> /\ tasks["finalSteps"] = <<>>  BY <1>1 DEF CloseInv
<1>3. Order("main") = <<"cleanups", "finalSteps">>  BY DEF Order
<1>4. PICK i \in DOMAIN <<"cleanups", "finalSteps">> :
        tasks[<<"cleanups", "finalSteps">>[i]] # <<>>
  BY <1>1, <1>3 DEF SomethingToDo
<1>5. <<"cleanups", "finalSteps">>[i] \in {"cleanups", "finalSteps"}  BY <1>4
<1>6. QED  BY <1>2, <1>4, <1>5

LEMMA CloseStep ==
  ASSUME IInv, [Next]_vars
  PROVE  CloseInv'
<1>1. CloseInv /\ TypeOK /\ RunInv /\ PassInv /\ FreshInv /\ ListInv  BY DEF IInv
<1>2. CASE UNCHANGED vars \/ Plain
  BY <1>1, <1>2, PlainKeeps DEF vars, hookVars, CloseInv
<1>3. CASE AddPid \/ AddClose
  <2>1. Fresh("close") /\ run' = run
    BY <1>1, <1>3
    DEF AddPid, AddClose, Goto, Register, FreshInv, BeforeAddPid, BeforeAddClose
  <2>2. QED  BY <2>1 DEF CloseInv, Fresh, Goroutines
<1>4. CASE AddTransfer
  <2>1. Register("cancelOnly", "rmTransfer")  BY <1>4 DEF AddTransfer
  <2>2. \A k \in Lists \ {"cancelOnly"} : tasks'[k] = tasks[k]
    BY <1>1, <2>1, RegisterEffect DEF Lists, Tasks
  <2>3. UNCHANGED <<run, holder>>  BY <2>1 DEF Register
  <2>4. QED  BY <1>1, <2>2, <2>3 DEF CloseInv, Lists
<1>5. CASE Begins
  <2>1. <<"signal", "close">> \notin run
    BY <1>1, <1>5, NoCleanupAfterClose DEF Begins, BeginInterrupt, RunInv, Tasks
  <2>2. run' = run  BY <1>5 DEF Begins, BeginCleanup, BeginInterrupt, BeginPass
  <2>3. QED  BY <2>1, <2>2 DEF CloseInv
<1>6. CASE Ends
  <2>1. UNCHANGED <<run, tasks>> /\ left = <<>> /\ holder # "none"
    BY <1>6 DEF Ends, EndCleanup, EndInterrupt, EndPass
  <2>2. tasks["finalSteps"] = <<>>  BY <1>1, <2>1 DEF PassInv
  <2>3. QED  BY <1>1, <2>1, <2>2 DEF CloseInv
<1>7. ASSUME NEW g \in Goroutines, StartTask(g)
      PROVE  CloseInv'
  <2>1. /\ Head(left) \in Lists /\ awaited' \in Home[Head(left)]
        /\ run' = run \cup {<<g, awaited'>>}
        /\ holder = g /\ left # <<>>
        /\ UNCHANGED <<tasks, holder>>
    BY <1>1, <1>7, StartTaskEffect DEF StartTask
  <2>2. CASE <<"signal", "close">> \in run
    BY <1>1, <2>1, <2>2 DEF CloseInv
  <2>3. CASE g = "signal" /\ awaited' = "close"
    <3>1. Head(left) = "finalSteps"  BY <2>1, <2>3 DEF Home, Lists
    <3>2. left = <<"finalSteps">>  BY <1>1, <2>1, <3>1, Rests DEF PassInv, Goroutines
    <3>3. tasks["cleanups"] = <<>>  BY <1>1, <2>1, <3>2 DEF PassInv, Goroutines
    <3>4. QED  BY <2>1, <2>3, <3>3 DEF CloseInv
  <2>4. QED  BY <2>1, <2>2, <2>3 DEF CloseInv
<1>8. ASSUME NEW g \in Goroutines, TaskOver(g)
      PROVE  CloseInv'
  BY <1>1, <1>8 DEF TaskOver, CloseInv
<1>9. ASSUME NEW g \in Goroutines, EndStage(g)
      PROVE  CloseInv'
  <2>1. /\ Head(left) \in Lists /\ tasks'[Head(left)] = <<>>
        /\ \A k \in Lists \ {Head(left)} : tasks'[k] = tasks[k]
        /\ UNCHANGED <<run, holder>>
    BY <1>1, <1>9, EndStageEffect DEF EndStage
  <2>2. QED  BY <1>1, <2>1 DEF CloseInv, Lists
<1>10. QED  BY <1>2, <1>3, <1>4, <1>5, <1>6, <1>7, <1>8, <1>9, Steps DEF Adds

LEMMA ArchiveStep ==
  ASSUME IInv, [Next]_vars
  PROVE  ArchiveInv' /\ CompletedMeansArchive'
<1>1. ArchiveInv /\ CompletedMeansArchive /\ WorkInv /\ CloseInv /\ RunInv /\ TypeOK
  BY DEF IInv
<1>2. CASE UNCHANGED <<main, copy, failure, archive, result>> /\ run \subseteq run'
  BY <1>1, <1>2 DEF ArchiveInv, CompletedMeansArchive
<1>3. CASE PidFile \/ AddPid \/ Checks \/ StartTicker \/ AddUIStop \/ AddClose
           \/ TransportFails
  <2>1. copy = "off" /\ copy' = "off" /\ UNCHANGED result /\ main # "exit"
    BY <1>1, <1>3
    DEF PidFile, AddPid, Checks, StartTicker, AddUIStop, AddClose, TransportFails, Goto,
        work, WorkInv, BeforeAddClose, BeforeAddPid
  <2>2. QED  BY <1>1, <2>1 DEF ArchiveInv, CompletedMeansArchive
<1>4. CASE StartCollection \/ EndCollection \/ BeginArchive
  <2>1. /\ main' \notin {"showError", "return", "cleanup", "exit"} /\ main # "exit"
        /\ result' # "COMPLETED" \/ result' = result
    BY <1>4 DEF StartCollection, EndCollection, BeginArchive, Goto
  <2>2. QED  BY <1>1, <2>1 DEF ArchiveInv, CompletedMeansArchive
<1>5. CASE EndArchive
  <2>1. main = "walk"  BY <1>5 DEF EndArchive
  <2>2. UNCHANGED <<run, result>>  BY <1>5 DEF EndArchive, hookVars
  <2>3. CloseStarted => <<"signal", "close">> \in run
    BY <1>1, <2>1 DEF CloseStarted, Goroutines, RunInv, Tasks
  <2>4. result # "COMPLETED"  BY <1>1, <2>1 DEF ArchiveInv
  <2>5. CASE main' = "setError"
    BY <2>2, <2>4, <2>5 DEF ArchiveInv, CompletedMeansArchive
  <2>6. CASE main' = "return"
    <3>1. archive' = IF CloseStarted THEN "partial" ELSE "complete"
      BY <1>5, <2>6 DEF EndArchive
    <3>2. archive' = "complete" \/ <<"signal", "close">> \in run'
      BY <2>2, <2>3, <3>1
    <3>3. QED  BY <2>2, <2>4, <2>6, <3>2 DEF ArchiveInv, CompletedMeansArchive
  <2>7. main' \in {"return", "setError"}  BY <1>5 DEF EndArchive
  <2>8. QED  BY <2>5, <2>6, <2>7
<1>6. CASE SetError
  BY <1>1, <1>6
  DEF SetError, Goto, ErrorRecorded, ArchiveInv, CompletedMeansArchive
<1>7. CASE ShowError
  BY <1>1, <1>7
  DEF ShowError, Goto, work, ArchiveInv, CompletedMeansArchive
<1>8. CASE SkipCleanup
  BY <1>1, <1>8 DEF SkipCleanup, Goto, work, ArchiveInv, CompletedMeansArchive
<1>9. CASE BeginCleanup
  <2>1. <<"signal", "close">> \notin run  BY <1>1, <1>9, NoCleanupAfterClose
  <2>2. main = "return" /\ main' = "cleanup" /\ result' = "CLEANUP TASKS"
        /\ UNCHANGED <<copy, failure, archive>>
    BY <1>9 DEF BeginCleanup, Goto, BeginPass, work
  <2>3. QED  BY <1>1, <2>1, <2>2 DEF ArchiveInv, CompletedMeansArchive
<1>10. CASE EndCleanup
  <2>1. main = "cleanup" /\ main' = "exit" /\ UNCHANGED <<copy, failure, archive>>
        /\ result' = IF failure THEN "FAILED" ELSE "COMPLETED"
    BY <1>10 DEF EndCleanup, Goto, EndPass, work
  <2>2. QED  BY <1>1, <2>1 DEF ArchiveInv, CompletedMeansArchive
<1>11. CASE Signal \/ BeginInterrupt \/ EndInterrupt
  <2>1. UNCHANGED <<main, copy, failure, archive, run>>
        /\ result' \in {"CANCELLING", "CLEANUP TASKS", "USER CANCELLED"}
    BY <1>11 DEF Signal, BeginInterrupt, EndInterrupt, BeginPass, EndPass, hookVars, work
  <2>2. QED  BY <1>1, <2>1 DEF ArchiveInv, CompletedMeansArchive
<1>12. ASSUME NEW g \in Goroutines, StartTask(g)
       PROVE  ArchiveInv' /\ CompletedMeansArchive'
  <2>1. UNCHANGED <<main, copy, failure, archive>> /\ run \subseteq run'
        /\ result' = "CLEANUP TASKS"
    BY <1>12 DEF StartTask, work
  <2>2. QED  BY <1>1, <2>1 DEF ArchiveInv, CompletedMeansArchive
<1>13. CASE \/ UNCHANGED vars \/ SkipInterrupt \/ AddTransfer
            \/ (\E g \in Goroutines : Exit(g) \/ TaskOver(g) \/ EndStage(g))
            \/ (\E t \in Tasks : TaskEnds(t))
            \/ (\E w \in Writers : Write(w) \/ WriterEnds(w) \/ Abandon(w))
            \/ Scp \/ Chmod \/ Cp \/ Rm
  <2>1. /\ UNCHANGED <<main, failure, archive, result>> /\ run \subseteq run'
        /\ copy' = copy \/ main = "collect"
    BY <1>1, <1>13
    DEF vars, SkipInterrupt, AddTransfer, Exit, TaskOver, EndStage, TaskEnds, Write,
        WriterEnds, Abandon, Scp, Chmod, Cp, Rm, CopyIdle, hookVars, work, Register, WorkInv
  <2>2. QED  BY <1>1, <2>1 DEF ArchiveInv, CompletedMeansArchive
<1>14. QED
  BY <1>3, <1>4, <1>5, <1>6, <1>7, <1>8, <1>9, <1>10, <1>11, <1>12, <1>13, Steps
  DEF Plain, Adds, Begins, Ends

-----------------------------------------------------------------------------
(* After Cleanup has closed the copy strategy nobody is left to make the    *)
(* temporary directory again, unless a writer was given up on.              *)
LEMMA LeftBehindStep ==
  ASSUME IInv, [Next]_vars
  PROVE  NothingLeftBehind'
<1>1. NothingLeftBehind /\ RunInv /\ WorkInv /\ ListInv /\ PassInv /\ TypeOK  BY DEF IInv
<1> SUFFICES ASSUME <<"main", "close">> \in run', "close" \notin alive', abandoned' = {}
             PROVE  ~tmp'
  BY DEF NothingLeftBehind
<1>2. abandoned = {}
  <2>1. CASE \E w \in Writers : Abandon(w)  BY <2>1 DEF Abandon
  <2>2. CASE UNCHANGED vars \/ (Plain /\ ~\E w \in Writers : Abandon(w)) \/ Adds
    BY <2>2, AddsRegister
    DEF vars, Plain, PidFile, Checks, StartTicker, AddUIStop, TransportFails,
        StartCollection, EndCollection, BeginArchive, EndArchive, SetError, ShowError,
        SkipCleanup, Signal, SkipInterrupt, Exit, TaskEnds, Write, WriterEnds,
        Scp, Chmod, Cp, Rm, CopyIdle, work
  <2>3. QED  BY <2>1, <2>2, WorkStays, Steps DEF work
<1>3. <<"main", "close">> \in run
  <2>1. ASSUME NEW g \in Goroutines, StartTask(g)
        PROVE  <<"main", "close">> \in run
    <3>1. run' = run \cup {<<g, awaited'>>} /\ awaited' \in alive'
      BY <2>1 DEF StartTask
    <3>2. <<"main", "close">> # <<g, awaited'>>  BY <3>1
    <3>3. QED  BY <3>1, <3>2
  <2>3. CASE Begins \/ Ends \/ \E g \in Goroutines : TaskOver(g) \/ EndStage(g)
    BY <2>3
    DEF Begins, BeginCleanup, BeginInterrupt, Ends, EndCleanup, EndInterrupt, BeginPass,
        EndPass, TaskOver, EndStage
  <2>4. CASE UNCHANGED vars \/ Plain \/ Adds
    BY <2>4, PlainKeeps, AddsRegister DEF vars, hookVars, Register
  <2>5. QED  BY <2>1, <2>3, <2>4, Steps
<1>4. main \in {"cleanup", "exit"}  BY <1>1, <1>3 DEF RunInv, Tasks
<1>5. writing = {}  BY <1>1, <1>2, <1>4 DEF WorkInv
<1>6. CASE \E t \in Tasks : TaskEnds(t)
  BY <1>1, <1>2, <1>3, <1>6 DEF TaskEnds, NothingLeftBehind
<1>7. CASE \E g \in Goroutines : StartTask(g)
  <2>1. tmp' = tmp /\ alive \subseteq alive'  BY <1>7 DEF StartTask
  <2>2. "close" \notin alive  BY <2>1
  <2>3. QED  BY <1>1, <1>2, <1>3, <2>1, <2>2 DEF NothingLeftBehind
<1>8. CASE UNCHANGED <<tmp, alive>>
  BY <1>1, <1>2, <1>3, <1>8 DEF NothingLeftBehind
<1>9. CASE UNCHANGED vars \/ Adds \/ Begins \/ Ends
           \/ \E g \in Goroutines : TaskOver(g) \/ EndStage(g)
  <2>1. UNCHANGED effects
    BY <1>9, AddsRegister
    DEF vars, Begins, BeginCleanup, BeginInterrupt, Ends, EndCleanup, EndInterrupt,
        TaskOver, EndStage
  <2>2. QED  BY <1>8, <2>1 DEF effects
<1>10. CASE Plain /\ ~\E t \in Tasks : TaskEnds(t)
  BY <1>4, <1>5, <1>8, <1>10
  DEF Plain, PidFile, Checks, StartTicker, AddUIStop, TransportFails,
      StartCollection, EndCollection, BeginArchive, EndArchive, SetError, ShowError,
      SkipCleanup, Signal, SkipInterrupt, Exit, Write, WriterEnds, Abandon,
      Scp, Chmod, Cp, Rm, CopyIdle, effects, Goto
<1>11. QED  BY <1>6, <1>7, <1>9, <1>10, Steps

-----------------------------------------------------------------------------
LEMMA InitIInv == Init => IInv
<1> SUFFICES ASSUME Init PROVE IInv  OBVIOUS
<1>1. /\ tasks \in [Lists -> Seq(Tasks)]
      /\ tasks["cleanups"] = <<"cancel">>
      /\ \A l \in Lists \ {"cleanups"} : tasks[l] = <<>>
  <2>1. <<>> \in Seq(Tasks) /\ <<"cancel">> \in Seq(Tasks)  BY DEF Tasks
  <2>2. QED  BY <2>1 DEF Init, Lists
<1>2. DOMAIN <<>> = {} /\ \A i \in DOMAIN <<"cancel">> : <<"cancel">>[i] = "cancel"
  OBVIOUS
<1>3. TypeOK
  <2>1. PlainTypes
    <3>1. {cancelled, failure, pidFile, tmp, got, remote} \subseteq BOOLEAN
      BY DEF Init
    <3>2. alive = {} /\ writing = {} /\ abandoned = {}  BY DEF Init
    <3>3. main \in MainLocations /\ signal \in SignalLocations /\ copy \in CopyLocations
      BY DEF Init, MainLocations, SignalLocations, CopyLocations
    <3>4. ui = "none" /\ result = "" /\ archive = "none" /\ exited = "no"
      BY DEF Init
    <3>5. QED  BY <3>1, <3>2, <3>3, <3>4 DEF PlainTypes
  <2>2. /\ left = <<>> /\ at = 1 /\ awaited = "none" /\ run = {}
        /\ holder = "none" /\ main = "pid" /\ signal = "idle"
    BY DEF Init
  <2>3. HookTypes
    <3>1. left \in Seq(Lists)  BY <2>2
    <3>2. QED  BY <1>1, <2>2, <3>1 DEF HookTypes, Goroutines
  <2>4. QED  BY <2>1, <2>3 DEF TypeOK, PlainTypes, HookTypes
<1>4. ListInv  BY <1>1, <1>2 DEF ListInv, Lists, Home
<1>5. \A t : Listed(t) => t = "cancel"  BY <1>1, <1>2 DEF Listed, Lists
<1>6. FreshInv
  <2>1. run = {}  BY DEF Init
  <2>2. Fresh("rmPid") /\ Fresh("close") /\ Fresh("rmTransfer")
    BY <1>5, <2>1 DEF Fresh
  <2>3. QED  BY <2>2 DEF FreshInv
<1>7. RunInv /\ PassInv /\ CancelInv /\ WorkInv /\ CloseInv /\ ArchiveInv
  <2>1. run = {} /\ holder = "none" /\ at = 1 /\ alive = {} /\ cancelled = FALSE
        /\ copy = "off" /\ writing = {} /\ result = "" /\ main = "pid"
    BY DEF Init
  <2>2. RunInv /\ CloseInv  BY <2>1 DEF RunInv, CloseInv
  <2>3. PassInv
    <3>1. at = 1 /\ holder = "none"  BY <2>1
    <3>2. at > 0  BY <3>1
    <3>3. QED  BY <3>1, <3>2, Zenon DEF PassInv
  <2>4. CancelInv /\ WorkInv /\ ArchiveInv
    BY <2>1 DEF CancelInv, WorkInv, ArchiveInv
  <2>5. QED  BY <2>2, <2>3, <2>4
<1>8. RunOnce /\ NothingLeftBehind /\ CompletedMeansArchive
  BY DEF Init, RunOnce, NothingLeftBehind, CompletedMeansArchive, Goroutines
<1>9. QED  BY <1>3, <1>4, <1>6, <1>7, <1>8 DEF IInv

(* IInv is inductive.                                                       *)
LEMMA NextIInv == IInv /\ [Next]_vars => IInv'
BY TypeStep, FreshStep, RunStep, RunOnceStep, PassStep, CancelStep, WorkInvStep,
   CloseStep, ArchiveStep, LeftBehindStep DEF IInv

(* IInv holds in every reachable state.                                     *)
THEOREM SpecIInv == Spec => []IInv
BY InitIInv, NextIInv, PTL DEF Spec

(* Type correctness; with it, that the goroutine in a pass of the hook is   *)
(* the one that holds the mutex.                                            *)
THEOREM TypeCorrect == Spec => []TypeOK
<1>1. IInv => TypeOK  BY DEF IInv
<1>2. QED  BY <1>1, SpecIInv, PTL

(* However the signal and the return from the collection interleave, no     *)
(* task of the hook is run by Interrupt and by Cleanup.                     *)
THEOREM TasksRunOnce == Spec => []RunOnce
<1>1. IInv => RunOnce  BY DEF IInv
<1>2. QED  BY <1>1, SpecIInv, PTL

(* With any number of writers, a run that ends by itself leaves no          *)
(* temporary directory unless the collection gave up on one of them.        *)
THEOREM CleanEnd == Spec => []NothingLeftBehind
<1>1. IInv => NothingLeftBehind  BY DEF IInv
<1>2. QED  BY <1>1, SpecIInv, PTL

(* COMPLETED after a collection was started stands for a complete archive.  *)
THEOREM CompletedIsComplete == Spec => []CompletedMeansArchive
<1>1. IInv => CompletedMeansArchive  BY DEF IInv
<1>2. QED  BY <1>1, SpecIInv, PTL

(* Interrupt does not start the rm of a transfer after it has cancelled the *)
(* context the rm would run in, and when Cleanup has, no file is left.      *)
THEOREM RemovalInTime == Spec => TransferRemoved
<1> DEFINE InTime ==
      <<"signal", "rmTransfer">> \in (run' \ run) => (~cancelled \/ ~remote)
<1>1. ASSUME IInv, Next PROVE InTime
  <2> SUFFICES ASSUME <<"signal", "rmTransfer">> \in run' \ run, cancelled, remote
               PROVE  FALSE
    OBVIOUS
  <2>1. PICK g \in Goroutines : StartTask(g)
    <3>1. CASE UNCHANGED vars \/ Plain \/ Adds
      BY <3>1, PlainKeeps, AddsRegister DEF vars, hookVars, Register
    <3>2. CASE Begins \/ Ends \/ \E g \in Goroutines : TaskOver(g) \/ EndStage(g)
      BY <3>2
      DEF Begins, BeginCleanup, BeginInterrupt, Ends, EndCleanup, EndInterrupt, BeginPass,
          EndPass, TaskOver, EndStage
    <3>3. QED  BY <1>1, <3>1, <3>2, Steps
  <2>2. g = "signal" /\ awaited' = "rmTransfer" /\ holder = g /\ left # <<>>
    BY <2>1 DEF StartTask
  <2>3. Listed("rmTransfer") /\ "rmTransfer" \in Home[Head(left)] /\ Head(left) \in Lists
    BY <1>1, <2>1, <2>2, StartTaskEffect DEF IInv
  <2>4. Head(left) = "cancelOnly"  BY <2>3 DEF Home, Lists
  <2>5. left = <<"cancelOnly", "cleanups", "finalSteps">>
    BY <1>1, <2>2, <2>4, Rests DEF IInv, PassInv
  <2>6. <<"signal", "cancel">> \notin run  BY <1>1, <2>2, <2>5 DEF IInv, CancelInv
  <2>7. <<"main", "cancel">> \in run  BY <1>1, <2>6 DEF IInv, CancelInv, Goroutines
  <2>8. main \in {"cleanup", "exit"}  BY <1>1, <2>7 DEF IInv, RunInv, Tasks
  <2>9. copy \in {"off", "idle", "ended"}  BY <1>1, <2>8 DEF IInv, WorkInv
  <2>10. copy = "ended"  BY <1>1, <2>3, <2>9 DEF IInv, FreshInv, Fresh
  <2>11. QED  BY <1>1, <2>3, <2>6, <2>10 DEF IInv, WorkInv
<1>2. IInv /\ [Next]_vars => [InTime]_vars  BY <1>1
<1>3. QED  BY <1>2, SpecIInv, PTL DEF Spec, TransferRemoved
=============================================================================
