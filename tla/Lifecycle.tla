----------------------------- MODULE Lifecycle -----------------------------
(***************************************************************************)
(* One run of the process, from the pid file to the exit: the main         *)
(* goroutine (Execute and RemoteCollect of cmd/root.go), the goroutine     *)
(* that waits for SIGINT or SIGTERM, the shutdown hook whose mutex and     *)
(* lists of tasks they share, the goroutines of the collection that write  *)
(* into the temporary directory, one CopyToHost of the SSH transport, and  *)
(* the archive.                                                            *)
(*                                                                         *)
(* The hook runs a task in a goroutine of its own and waits for it at most *)
(* taskTimeout; a task that takes longer is left running.                  *)
(***************************************************************************)
EXTENDS Naturals, Sequences

CONSTANT Writers   \* the goroutines that write into the temporary directory

VARIABLES
  main,        \* where the main goroutine is
  signal,      \* where the signal goroutine is
  holder,      \* who holds hook.mu: "none", "main" or "signal"
  tasks,       \* hook.cancelOnly, hook.cleanups and hook.finalSteps
  left,        \* the lists that the holder of hook.mu has still to go through
  at,          \* its position in the first of them
  awaited,     \* the task that runWithTimeout waits for
  alive,       \* the tasks whose goroutine has not ended
  run,         \* history: who has started which task
  cancelled,   \* whether hook.ctx is cancelled
  failure,     \* whether hook.collectionErr is set
  ui,          \* the ticker, the status screen and hook.stopUIThread
  result,      \* c.result of the console
  pidFile,     \* whether our pid file is on disk
  tmp,         \* whether the temporary directory is on disk
  writing,     \* the writers that run
  abandoned,   \* those the collection no longer waits for
  got,         \* whether a file was collected
  archive,     \* the file at OutputLoc
  copy,        \* where CopyToHost is, once the collection is started
  remote,      \* whether its /tmp file is on the remote host
  exited       \* who ended the process: "no", "main" or "signal"

hookVars == <<holder, tasks, left, at, awaited, run>>
effects == <<alive, cancelled, pidFile, tmp, remote>>
work == <<writing, abandoned, got, archive, copy>>
vars == <<main, signal, hookVars, effects, failure, ui, result, work, exited>>

Lists == {"cancelOnly", "cleanups", "finalSteps"}
Tasks == {"rmTransfer", "cancel", "rmPid", "close"}
Goroutines == {"main", "signal"}
MainLocations == {"pid", "addPid", "checks", "ticker", "addUI", "addClose",
  "transport", "collect", "archive", "walk", "setError", "showError",
  "return", "cleanup", "exit"}
SignalLocations == {"idle", "received", "interrupt", "exit"}
CopyLocations == {"off", "idle", "copied", "readable", "registered", "moved", "ended"}

Init ==
  /\ main = "pid"
  /\ signal = "idle"
  /\ holder = "none"
  /\ tasks = [l \in Lists |-> IF l = "cleanups" THEN <<"cancel">> ELSE <<>>]
  /\ left = <<>>
  /\ at = 1
  /\ awaited = "none"
  /\ alive = {}
  /\ run = {}
  /\ cancelled = FALSE
  /\ failure = FALSE
  /\ ui = "none"
  /\ result = ""
  /\ pidFile = FALSE
  /\ tmp = FALSE
  /\ writing = {}
  /\ abandoned = {}
  /\ got = FALSE
  /\ archive = "none"
  /\ copy = "off"
  /\ remote = FALSE
  /\ exited = "no"

Running == exited = "no"

-----------------------------------------------------------------------------
(***************************************************************************)
(* The hook: registration, and the passes of Interrupt and of Cleanup.     *)
(***************************************************************************)
Register(l, t) ==
  /\ holder = "none"
  /\ tasks' = [tasks EXCEPT ![l] = Append(@, t)]
  /\ UNCHANGED <<holder, left, at, awaited, run>>

\* Mutant: Interrupt goes through the cancel-only tasks last.
CancelOnlyLast(g) ==
  IF g = "signal" THEN <<"cleanups", "finalSteps", "cancelOnly">>
  ELSE <<"cleanups", "finalSteps">>
\* Cleanup does not count, and does not run, the cancel-only tasks.
Order(g) ==
  IF g = "signal" THEN <<"cancelOnly", "cleanups", "finalSteps">>
  ELSE <<"cleanups", "finalSteps">>

SomethingToDo(g) == \E i \in DOMAIN Order(g) : tasks[Order(g)[i]] # <<>>

\* Interrupt or Cleanup takes the mutex and finds something to do.
BeginPass(g) ==
  /\ holder = "none"
  /\ SomethingToDo(g)
  /\ holder' = g
  /\ left' = Order(g)
  /\ at' = 1
  /\ result' = "CLEANUP TASKS"
  /\ UNCHANGED <<tasks, awaited, run>>

\* It takes the mutex, finds nothing, and gives it back.
NothingToDo(g) == holder = "none" /\ ~SomethingToDo(g)

StartTask(g) ==
  /\ holder = g
  /\ left # <<>>
  /\ awaited = "none"
  /\ at <= Len(tasks[Head(left)])
  /\ awaited' = tasks[Head(left)][at]
  /\ alive' = alive \cup {awaited'}
  /\ run' = run \cup {<<g, awaited'>>}
  /\ result' = "CLEANUP TASKS"
  /\ UNCHANGED <<main, signal, holder, tasks, left, at, cancelled, failure, ui,
                 pidFile, tmp, work, remote, exited>>

\* Mutant: runWithTimeout waits for the task however long it takes.
NoTimeout == FALSE
\* Any task but the cancel function may take more than taskTimeout.
MayTimeOut == awaited # "cancel"

TaskOver(g) ==
  /\ holder = g
  /\ awaited # "none"
  /\ awaited \in alive => MayTimeOut
  /\ awaited' = "none"
  /\ at' = at + 1
  /\ UNCHANGED <<main, signal, holder, tasks, left, run, effects, failure, ui,
                 result, work, exited>>

\* Mutant: the list is not blanked when its tasks have been run.
KeptList(l) == tasks[l]
BlankList(l) == <<>>

EndStage(g) ==
  /\ holder = g
  /\ left # <<>>
  /\ awaited = "none"
  /\ at > Len(tasks[Head(left)])
  /\ tasks' = [tasks EXCEPT ![Head(left)] = BlankList(Head(left))]
  /\ left' = Tail(left)
  /\ at' = 1
  /\ UNCHANGED <<main, signal, holder, awaited, run, effects, failure, ui,
                 result, work, exited>>

\* Mutant: the pass returns without unlocking hook.mu.
KeepMutex == holder
FreeMutex == "none"

\* The final result, stopUIThread, and the deferred Unlock.
EndPass(g, text) ==
  /\ holder = g
  /\ left = <<>>
  /\ result' = text
  /\ ui' = IF ui = "registered" THEN "stopped" ELSE ui
  /\ holder' = FreeMutex
  /\ UNCHANGED <<tasks, left, at, awaited, run>>

(* A task ends: what its function has done by then.  The rm of a transfer   *)
(* is a command under hook.ctx, and does nothing once that is cancelled.    *)
TaskEnds(t) ==
  /\ t \in alive
  /\ alive' = alive \ {t}
  /\ cancelled' = (cancelled \/ t = "cancel")
  /\ pidFile' = (pidFile /\ t # "rmPid")
  /\ tmp' = (tmp /\ t # "close")
  /\ remote' = (remote /\ (t # "rmTransfer" \/ cancelled))
  /\ UNCHANGED <<main, signal, hookVars, failure, ui, result, work, exited>>

-----------------------------------------------------------------------------
(***************************************************************************)
(* The main goroutine before the collection.                               *)
(***************************************************************************)
Goto(from, to) == main = from /\ main' = to

\* No --pid, or the file cannot be written or is there already, or it is ours.
PidFile ==
  /\ \/ main' \in {"checks", "return"} /\ UNCHANGED pidFile
     \/ main' = "addPid" /\ pidFile' = TRUE
  /\ main = "pid"
  /\ UNCHANGED <<signal, hookVars, alive, cancelled, tmp, remote, failure, ui,
                 result, work, exited>>

AddPid ==
  /\ Goto("addPid", "checks")
  /\ Register("finalSteps", "rmPid")
  /\ UNCHANGED <<signal, effects, failure, ui, result, work, exited>>

\* The forms, the free space, the PAT: any of them may return an error.
Checks ==
  /\ main = "checks"
  /\ main' \in {"ticker", "return"}
  /\ UNCHANGED <<signal, hookVars, effects, failure, ui, result, work, exited>>

StartTicker ==
  /\ Goto("ticker", "addUI")
  /\ ui' = "started"
  /\ UNCHANGED <<signal, hookVars, effects, failure, result, work, exited>>

AddUIStop ==
  /\ Goto("addUI", "addClose")
  /\ holder = "none"
  /\ ui' = "registered"
  /\ UNCHANGED <<signal, hookVars, effects, failure, result, work, exited>>

AddClose ==
  /\ Goto("addClose", "transport")
  /\ Register("finalSteps", "close")
  /\ UNCHANGED <<signal, effects, failure, ui, result, work, exited>>

\* The transport cannot be set up, and no error is given to the hook.
TransportFails ==
  /\ Goto("transport", "showError")
  /\ UNCHANGED <<signal, hookVars, effects, failure, ui, result, work, exited>>

StartCollection ==
  /\ Goto("transport", "collect")
  /\ writing' = Writers
  /\ copy' = "idle"
  /\ UNCHANGED <<signal, hookVars, effects, failure, ui, result, abandoned, got,
                 archive, exited>>

-----------------------------------------------------------------------------
(***************************************************************************)
(* The collection.  Remote commands fail once hook.ctx is cancelled; the   *)
(* directory for their output is made before they are run.                 *)
(***************************************************************************)
Write(w) ==
  /\ w \in writing
  /\ tmp' = TRUE
  /\ got' \in {got, got \/ ~cancelled}
  /\ UNCHANGED <<main, signal, hookVars, alive, cancelled, pidFile, remote,
                 failure, ui, result, writing, abandoned, archive, copy, exited>>

WriterEnds(w) ==
  /\ w \in writing
  /\ writing' = writing \ {w}
  /\ UNCHANGED <<main, signal, hookVars, effects, failure, ui, result,
                 abandoned, got, archive, copy, exited>>

\* A node-info goroutine that is not done after two minutes.
Abandon(w) ==
  /\ main = "collect"
  /\ w \in writing \ abandoned
  /\ abandoned' = abandoned \cup {w}
  /\ UNCHANGED <<main, signal, hookVars, effects, failure, ui, result, writing,
                 got, archive, copy, exited>>

\* CopyToHost under --sudo-user: scp, chmod, registration, cp, rm.
CopyIdle == <<main, signal, alive, cancelled, pidFile, tmp, failure, ui,
              result, writing, abandoned, got, archive, exited>>

Scp ==
  /\ main = "collect"
  /\ copy = "idle"
  /\ ~cancelled
  /\ \/ copy' = "copied" /\ remote' = TRUE
     \/ copy' = "ended" /\ UNCHANGED remote
  /\ UNCHANGED <<CopyIdle, hookVars>>

Chmod ==
  /\ copy = "copied"
  /\ copy' \in {"readable", "ended"}
  /\ cancelled => copy' = "ended"
  /\ UNCHANGED <<CopyIdle, hookVars, remote>>

AddTransfer ==
  /\ copy = "readable"
  /\ Register("cancelOnly", "rmTransfer")
  /\ copy' = "registered"
  /\ UNCHANGED <<CopyIdle, remote>>

\* cp, which may fail.
Cp ==
  /\ copy = "registered"
  /\ copy' = "moved"
  /\ UNCHANGED <<CopyIdle, hookVars, remote>>

Rm ==
  /\ copy = "moved"
  /\ copy' = "ended"
  /\ remote' = (remote /\ cancelled)
  /\ UNCHANGED <<CopyIdle, hookVars>>

\* Mutant: the main goroutine does not wait for the writers.
NotWaited == copy \in {"idle", "ended"}
WorkDone == writing \subseteq abandoned /\ copy \in {"idle", "ended"}

EndCollection ==
  /\ main = "collect"
  /\ WorkDone
  /\ main' = IF got THEN "archive" ELSE "setError"
  /\ UNCHANGED <<signal, hookVars, effects, failure, ui, result, work, exited>>

-----------------------------------------------------------------------------
(***************************************************************************)
(* The archive and the return from RemoteCollect and Execute.              *)
(***************************************************************************)
CloseStarted == \E g \in Goroutines : <<g, "close">> \in run

\* ArchiveDiag makes the summary and the "completed" file, then the archive.
BeginArchive ==
  /\ main = "archive"
  /\ result' = "Creating final archive"
  /\ tmp' = TRUE
  /\ \/ main' = "walk" /\ archive' = "partial"
     \/ main' = "setError" /\ UNCHANGED archive
  /\ UNCHANGED <<signal, hookVars, alive, cancelled, pidFile, remote, failure,
                 ui, writing, abandoned, got, copy, exited>>

\* The walk finds everything that was collected unless Close has begun; that
\* a file is gone may go unnoticed.
EndArchive ==
  /\ main = "walk"
  /\ \/ main' = "return"
        /\ archive' = IF CloseStarted THEN "partial" ELSE "complete"
     \/ main' = "setError" /\ UNCHANGED archive
  /\ UNCHANGED <<signal, hookVars, effects, failure, ui, result, writing,
                 abandoned, got, copy, exited>>

\* Mutant: the error of Execute is returned without being recorded.
ErrorDropped == failure
ErrorRecorded == TRUE

SetError ==
  /\ Goto("setError", "showError")
  /\ holder = "none"
  /\ failure' = ErrorRecorded
  /\ UNCHANGED <<signal, hookVars, effects, ui, result, work, exited>>

ShowError ==
  /\ Goto("showError", "return")
  /\ result' = "error"
  /\ UNCHANGED <<signal, hookVars, effects, failure, ui, work, exited>>

\* The deferred hook.Cleanup.
BeginCleanup ==
  /\ Goto("return", "cleanup")
  /\ BeginPass("main")
  /\ UNCHANGED <<signal, effects, failure, ui, work, exited>>

SkipCleanup ==
  /\ Goto("return", "exit")
  /\ NothingToDo("main")
  /\ UNCHANGED <<signal, hookVars, effects, failure, ui, result, work, exited>>

EndCleanup ==
  /\ Goto("cleanup", "exit")
  /\ EndPass("main", IF failure THEN "FAILED" ELSE "COMPLETED")
  /\ UNCHANGED <<signal, effects, failure, work, exited>>

-----------------------------------------------------------------------------
(***************************************************************************)
(* The signal goroutine, and the end of the process.                       *)
(***************************************************************************)
Signal ==
  /\ signal = "idle"
  /\ signal' = "received"
  /\ result' = "CANCELLING"
  /\ UNCHANGED <<main, hookVars, effects, failure, ui, work, exited>>

BeginInterrupt ==
  /\ signal = "received"
  /\ signal' = "interrupt"
  /\ BeginPass("signal")
  /\ UNCHANGED <<main, effects, failure, ui, work, exited>>

SkipInterrupt ==
  /\ signal = "received"
  /\ signal' = "exit"
  /\ NothingToDo("signal")
  /\ UNCHANGED <<main, hookVars, effects, failure, ui, result, work, exited>>

EndInterrupt ==
  /\ signal = "interrupt"
  /\ signal' = "exit"
  /\ EndPass("signal", "USER CANCELLED")
  /\ UNCHANGED <<main, effects, failure, work, exited>>

Exit(g) ==
  /\ IF g = "main" THEN main = "exit" ELSE signal = "exit"
  /\ exited' = g
  /\ UNCHANGED <<main, signal, hookVars, effects, failure, ui, result, work>>

-----------------------------------------------------------------------------
HookStep(g) == StartTask(g) \/ TaskOver(g) \/ EndStage(g)

MainReturns ==
  \/ SetError
  \/ ShowError
  \/ BeginCleanup
  \/ SkipCleanup
  \/ HookStep("main")
  \/ EndCleanup
  \/ Exit("main")

MainWorks ==
  \/ PidFile
  \/ AddPid
  \/ Checks
  \/ StartTicker
  \/ AddUIStop
  \/ AddClose
  \/ TransportFails
  \/ StartCollection
  \/ EndCollection
  \/ BeginArchive
  \/ EndArchive

SignalStep ==
  \/ BeginInterrupt
  \/ SkipInterrupt
  \/ HookStep("signal")
  \/ EndInterrupt
  \/ Exit("signal")

WorkStep ==
  \/ \E w \in Writers : Write(w) \/ WriterEnds(w) \/ Abandon(w)
  \/ Scp
  \/ Chmod
  \/ AddTransfer
  \/ Cp
  \/ Rm

\* The process has ended, and all its goroutines with it.
Over ==
  /\ ~Running
  /\ UNCHANGED vars

Next ==
  \/ /\ Running
     /\ \/ MainReturns
        \/ MainWorks
        \/ Signal
        \/ SignalStep
        \/ \E t \in Tasks : TaskEnds(t)
        \/ WorkStep
  \/ Over

(* Nothing is assumed of the forms, the remote commands and the tasks: each *)
(* may hang, except the cancel function.  The two goroutines run what they  *)
(* can run themselves.                                                      *)
Fairness ==
  /\ WF_vars(Running /\ MainReturns)
  /\ WF_vars(Running /\ SignalStep)
  /\ WF_vars(Running /\ TaskEnds("cancel"))

Spec == Init /\ [][Next]_vars /\ Fairness

-----------------------------------------------------------------------------
(* Type invariant, with what ties the mutex to the goroutine that is in a   *)
(* pass of the hook.                                                        *)
TypeOK ==
  /\ main \in MainLocations
  /\ signal \in SignalLocations
  /\ holder \in Goroutines \cup {"none"}
  /\ holder = "main" <=> main = "cleanup"
  /\ holder = "signal" <=> signal = "interrupt"
  /\ tasks \in [Lists -> Seq(Tasks)]
  /\ left \in Seq(Lists)
  /\ holder = "none" => left = <<>>
  /\ at \in Nat
  /\ awaited \in Tasks \cup {"none"}
  /\ alive \in SUBSET Tasks
  /\ run \in SUBSET (Goroutines \X Tasks)
  /\ {cancelled, failure, pidFile, tmp, got, remote} \subseteq BOOLEAN
  /\ ui \in {"none", "started", "registered", "stopped"}
  /\ result \in {"", "error", "CANCELLING", "CLEANUP TASKS", "USER CANCELLED",
                 "COMPLETED", "FAILED", "Creating final archive"}
  /\ writing \in SUBSET Writers
  /\ abandoned \in SUBSET Writers
  /\ archive \in {"none", "partial", "complete"}
  /\ copy \in CopyLocations
  /\ exited \in Goroutines \cup {"no"}

(* An Interrupt and a Cleanup never both run a task, however the signal and *)
(* the return from the collection interleave.                               *)
RunOnce ==
  \A t \in Tasks : ~ \A g \in Goroutines : <<g, t>> \in run

(* AddCancelOnlyTasks: the rm of a registered transfer is never started     *)
(* under a cancelled context, in which it could do nothing, unless          *)
(* CopyToHost itself has removed the file before.                           *)
TransferRemoved ==
  [][(<<"signal", "rmTransfer">> \in (run' \ run)) => (~cancelled \/ ~remote)]_vars

(* A run that ends by itself leaves nothing on disk: once Cleanup has       *)
(* closed the copy strategy, and unless a node-info goroutine was given up  *)
(* on, no writer brings the temporary directory back.                       *)
NothingLeftBehind ==
  <<"main", "close">> \in run /\ "close" \notin alive /\ abandoned = {}
    => ~tmp

(* "COMPLETED" after a collection was started means that there is a         *)
(* complete archive, whatever a signal did in between.                      *)
CompletedMeansArchive ==
  result = "COMPLETED" /\ copy # "off" => archive = "complete"

(* After the first Ctrl-C or SIGTERM the process ends, whatever hangs.      *)
SignalEndsProcess == signal = "received" ~> ~Running

(* shutdown.go:125 "AddFinalSteps run last after everything has stopped":   *)
(* a directory that a final step removed is not made again.                 *)
FinalStepsAfterTheWork ==
  CloseStarted /\ "close" \notin alive => ~tmp

(* shutdown.go:91 "SetError records a collection error so that Cleanup      *)
(* displays FAILED instead of COMPLETE": once RemoteCollect was called,     *)
(* COMPLETED stands for a collection that made its archive.                 *)
ErrorsShown ==
  result = "COMPLETED" /\ <<"main", "close">> \in run => archive = "complete"
=============================================================================
