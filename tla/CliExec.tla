------------------------------ MODULE CliExec -------------------------------
(***************************************************************************)
(* ExecuteAndStreamOutput of the cli: a child process writes to two pipes, *)
(* a goroutine per pipe scans it for lines and hands each to the handler   *)
(* under a mutex, and the caller waits for both goroutines and then for    *)
(* the child.  A stream is the sequence of the positions, in blocks, where *)
(* its lines end; a pipe holds PipeSize blocks, a bufio.Scanner MaxToken.  *)
(***************************************************************************)
EXTENDS Integers, Sequences

CONSTANTS Outputs, PipeSize, MaxToken

Pipes == {"stdout", "stderr"}

ASSUME OutputsLegal ==
  /\ Outputs \subseteq [Pipes -> Seq(Nat \ {0})]
  /\ \A o \in Outputs : \A p \in Pipes :
       \A i, j \in 1..Len(o[p]) : i < j => o[p][i] < o[p][j]
ASSUME LimitsPositive == PipeSize \in Nat \ {0} /\ MaxToken \in Nat \ {0}

VARIABLES
  output,     \* where the lines end that the child has for each pipe
  child,      \* unstarted, running, exited, failed, killed
  written,    \* the blocks it has written
  taken,      \* the blocks the scanner has read
  scanner,    \* scanning, done
  handled,    \* where the texts end that the handler has had of each pipe
  call        \* start, scan, wait, ok, error

ceVars == <<output, child, written, taken, scanner, handled, call>>

EndOf(ends, i) == IF i = 0 THEN 0 ELSE ends[i]
Size(p) == EndOf(output[p], Len(output[p]))
\* The blocks of the token the scanner is gathering.
Held(p) == taken[p] - EndOf(handled[p], Len(handled[p]))

CEInit ==
  /\ output \in Outputs
  /\ child = "unstarted"
  /\ written = [p \in Pipes |-> 0]
  /\ taken = [p \in Pipes |-> 0]
  /\ scanner = [p \in Pipes |-> "scanning"]
  /\ handled = [p \in Pipes |-> <<>>]
  /\ call = "start"

-----------------------------------------------------------------------------
Start ==
  /\ call = "start"
  /\ \/ call' = "scan" /\ child' = "running"
     \/ call' = "error" /\ UNCHANGED child
  /\ UNCHANGED <<output, written, taken, scanner, handled>>

(* The child blocks on a full pipe.                                         *)
Write(p) ==
  /\ child = "running" /\ written[p] < Size(p)
  /\ written[p] - taken[p] < PipeSize
  /\ written' = [written EXCEPT ![p] = @ + 1]
  /\ UNCHANGED <<output, child, taken, scanner, handled, call>>

Exit ==
  /\ child = "running" /\ \A p \in Pipes : written[p] = Size(p)
  /\ child' \in {"exited", "failed"}
  /\ UNCHANGED <<output, written, taken, scanner, handled, call>>

(* CommandContext kills the child when the hook cancels the context.        *)
Kill ==
  /\ child = "running"
  /\ child' = "killed"
  /\ UNCHANGED <<output, written, taken, scanner, handled, call>>

-----------------------------------------------------------------------------
(***************************************************************************)
(* One goroutine of a pipe.                                                *)
(***************************************************************************)
\* Mutant: standard error is read when standard output has ended.
ScanInTurn(p) ==
  call = "scan" /\ scanner[p] = "scanning" /\ (p = "stderr" => scanner["stdout"] = "done")
Scanning(p) == call = "scan" /\ scanner[p] = "scanning"

HandOver(p) == handled' = [handled EXCEPT ![p] = Append(@, taken'[p])]

\* A block that ends a line hands the line to the handler.
Scan(p) ==
  /\ Scanning(p) /\ taken[p] < written[p] /\ Held(p) < MaxToken
  /\ taken' = [taken EXCEPT ![p] = @ + 1]
  /\ IF \E i \in DOMAIN output[p] : output[p][i] = taken'[p]
     THEN HandOver(p) ELSE UNCHANGED handled
  /\ UNCHANGED <<output, child, written, scanner, call>>

\* ErrTooLong: the goroutine ends, and nothing looks at scanner.Err().
GiveUpScanning(p) ==
  /\ Scanning(p) /\ Held(p) = MaxToken
  /\ scanner' = [scanner EXCEPT ![p] = "done"]
  /\ UNCHANGED <<output, child, written, taken, handled, call>>

\* The pipe is at its end: a last line without its newline is a line too.
EndScan(p) ==
  /\ Scanning(p) /\ child \notin {"unstarted", "running"} /\ taken[p] = written[p]
  /\ Held(p) < MaxToken
  /\ scanner' = [scanner EXCEPT ![p] = "done"]
  /\ UNCHANGED <<output, child, written, taken, call>>
  /\ IF Held(p) = 0 THEN UNCHANGED handled ELSE HandOver(p)

-----------------------------------------------------------------------------
\* Mutant: the first goroutine that ends lets the caller go on.
AnyScannerDone == \E p \in Pipes : scanner[p] = "done"
ScannersDone == \A p \in Pipes : scanner[p] = "done"

\* waitGroup.Wait
WaitForScanners ==
  /\ call = "scan" /\ ScannersDone
  /\ call' = "wait"
  /\ UNCHANGED <<output, child, written, taken, scanner, handled>>

\* cmd.Wait, which closes the pipes.
WaitForChild ==
  /\ call = "wait" /\ child \notin {"unstarted", "running"}
  /\ call' = IF child = "exited" THEN "ok" ELSE "error"
  /\ UNCHANGED <<output, child, written, taken, scanner, handled>>

CEReturned == call \in {"ok", "error"}

CENext == \/ Start \/ Exit \/ Kill \/ WaitForScanners \/ WaitForChild
          \/ \E p \in Pipes : Write(p) \/ Scan(p) \/ GiveUpScanning(p) \/ EndScan(p)

CESpec == CEInit /\ [][CENext]_ceVars

(* The child goes on as long as a pipe takes what it writes, and each       *)
(* goroutine as long as it can; nobody need cancel.                         *)
CEFairness ==
  /\ WF_ceVars(Start) /\ WF_ceVars(Exit) /\ WF_ceVars(WaitForScanners) /\ WF_ceVars(WaitForChild)
  /\ \A p \in Pipes : /\ WF_ceVars(Write(p))
                      /\ WF_ceVars(Scan(p) \/ GiveUpScanning(p) \/ EndScan(p))

-----------------------------------------------------------------------------
(***************************************************************************)
(* Properties.                                                             *)
(***************************************************************************)
TooLong(p) ==
  \E i \in DOMAIN output[p] : output[p][i] - EndOf(output[p], i - 1) > MaxToken

(* The lines of a pipe reach the handler whole and in their order, except  *)
(* that the last text of a child that was killed may be a part of a line;  *)
(* when the call succeeds, all of them do, unless one was too long for the *)
(* scanner.                                                                *)
LinesInOrder ==
  \A p \in Pipes :
    /\ Len(handled[p]) <= Len(output[p])
    /\ \A i \in DOMAIN handled[p] :
         \/ handled[p][i] = output[p][i]
         \/ /\ child = "killed" /\ i = Len(handled[p])
            /\ EndOf(output[p], i - 1) < handled[p][i] /\ handled[p][i] < output[p][i]
    /\ call = "ok" /\ ~TooLong(p) => handled[p] = output[p]

(* Without a line that is too long, the two pipes never hold up the child, *)
(* and the call returns.                                                   *)
CommandReturns == (\A p \in Pipes : ~TooLong(p)) => <>CEReturned
=============================================================================
