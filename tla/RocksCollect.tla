---------------------------- MODULE RocksCollect ----------------------------
(***************************************************************************)
(* RunRocksDBCollection: rocksdb-viewer is brought to the master           *)
(* coordinator, asked for one kind of data after the other, and removed.   *)
(* The last kind, queries-perf, is a stream of lines that a writer splits  *)
(* into a file per day.                                                    *)
(***************************************************************************)
EXTENDS Integers, Sequences, FiniteSets, Functions

CONSTANTS RecordStreams,  \* the lines queries-perf may send, each one its date
          RocksItems      \* cluster_stats, the system tables, the wlm types

NoDate == "none"

(* Each line has a day; without a time in it, that day is "unknown".        *)
ASSUME StreamsLegal ==
  /\ RecordStreams \subseteq Seq(STRING)
  /\ \A s \in RecordStreams : \A i \in 1..Len(s) : s[i] # NoDate

VARIABLES
  stage,     \* where RunRocksDBCollection is
  viewer,    \* whether the binary is on the host
  todo,      \* the items still to be asked for
  lines,     \* what queries-perf sends
  sent,      \* the number of lines the handler has had
  curDate, dates, buffer,  \* of dateSplitWriter; records are line numbers
  file,      \* the records in the file of each date
  writeErr,
  items,     \* the items reported
  perDay,    \* the files of queries-perf reported, with their sizes
  lost       \* a flush that failed unseen, a viewer that could not be removed

writer == <<curDate, dates, buffer, file, writeErr>>
reports == <<items, perDay>>
rcVars == <<stage, viewer, todo, lines, sent, writer, reports, lost>>

Dates == {lines[i] : i \in 1..Len(lines)}

RCInit ==
  /\ lines \in RecordStreams
  /\ stage = "catalog"
  /\ viewer = FALSE
  /\ todo \in {{}, RocksItems}
  /\ sent = 0
  /\ curDate = NoDate
  /\ dates = <<>>
  /\ buffer = {}
  /\ file = [d \in Dates |-> {}]
  /\ writeErr = FALSE
  /\ items = {}
  /\ perDay = {}
  /\ lost = {}

-----------------------------------------------------------------------------
\* No catalog here, no architecture, no binary or no local directory.
CannotRun ==
  /\ stage = "catalog"
  /\ stage' = "done"
  /\ UNCHANGED <<viewer, todo, lines, sent, writer, reports, lost>>

\* CopyToHost and chmod; what returns before the removal is registered may
\* leave the binary.
Upload ==
  /\ stage = "catalog"
  /\ viewer' \in BOOLEAN
  /\ \/ viewer' /\ stage' = "items" /\ UNCHANGED lost
     \/ stage' = "done" /\ lost' = lost \cup {"viewer"}
  /\ UNCHANGED <<todo, lines, sent, writer, reports>>

\* collectRocksType: an error is logged, an empty answer makes no file.
Item ==
  /\ stage = "items"
  /\ \E i \in todo :
       /\ todo' = todo \ {i}
       /\ items' \in {items, items \cup {i}}
  /\ UNCHANGED <<stage, viewer, lines, sent, writer, perDay, lost>>

\* queries-perf is asked for or not; the count of its lines is for show, and
\* without a local path it is given up.
StartStream ==
  /\ stage = "items" /\ todo = {}
  /\ stage' \in {"stream", "cleanup"}
  /\ UNCHANGED <<viewer, todo, lines, sent, writer, reports, lost>>

-----------------------------------------------------------------------------
(***************************************************************************)
(* dateSplitWriter.  Errors of Flush are dropped by switchFile and Close.  *)
(***************************************************************************)
Flushed == IF curDate = NoDate THEN file
           ELSE [file EXCEPT ![curDate] = @ \cup buffer]

\* Mutant: switchFile closes the file without a flush.
NoFlush == file' = file /\ UNCHANGED lost
Flush == \/ file' = Flushed /\ UNCHANGED lost
         \/ file' = file /\ buffer # {} /\ lost' = lost \cup {"flush"}

NextDate == lines[sent + 1]
Handling == stage = "stream" /\ sent < Len(lines)

WriteLine ==
  /\ Handling /\ ~writeErr
  /\ NextDate = curDate
  /\ sent' = sent + 1
  /\ \/ buffer' = buffer \cup {sent + 1} /\ UNCHANGED file
     \/ buffer' = {} /\ file' = [Flushed EXCEPT ![curDate] = @ \cup {sent + 1}]
  /\ UNCHANGED <<stage, viewer, todo, lines, curDate, dates, writeErr,
                 reports, lost>>

\* switchFile, part one: the old file is flushed and closed.
CloseFile ==
  /\ Handling /\ ~writeErr
  /\ NextDate # curDate
  /\ Flush
  /\ buffer' = {}
  /\ curDate' = NextDate
  /\ dates' = Append(dates, NextDate)
  /\ stage' = "create"
  /\ UNCHANGED <<viewer, todo, lines, sent, writeErr, reports>>

\* switchFile, part two: os.Create empties a file that is there already.
CreateFile ==
  /\ stage = "create"
  /\ stage' = "stream"
  /\ sent' = sent + 1
  /\ \/ /\ file' = [file EXCEPT ![curDate] = {}]
        /\ buffer' = {sent + 1}
        /\ UNCHANGED writeErr
     \/ writeErr' = TRUE /\ UNCHANGED <<file, buffer>>
  /\ UNCHANGED <<viewer, todo, lines, curDate, dates, reports, lost>>

\* After an error the handler takes the rest of the lines and drops them; a
\* write of a full buffer can fail as well.
DropLine ==
  /\ Handling
  /\ writeErr' = TRUE
  /\ sent' = sent + 1
  /\ UNCHANGED <<stage, viewer, todo, lines, curDate, dates, buffer, file,
                 reports, lost>>

StreamFails ==
  /\ stage = "stream"
  /\ stage' = "close"
  /\ UNCHANGED <<viewer, todo, lines, sent, writer, reports, lost>>

\* The files are looked at before the writer is closed.
StreamEnds ==
  /\ stage = "stream" /\ sent = Len(lines)
  /\ stage' = "close"
  /\ perDay' = IF writeErr THEN {} ELSE {<<d, Cardinality(file[d])>> : d \in Range(dates)}
  /\ UNCHANGED <<viewer, todo, lines, sent, writer, items, lost>>

Close ==
  /\ stage = "close"
  /\ Flush
  /\ buffer' = {}
  /\ stage' = "cleanup"
  /\ UNCHANGED <<viewer, todo, lines, sent, curDate, dates, writeErr, reports>>

-----------------------------------------------------------------------------
\* Mutant: the removal is skipped when the stream has failed.
CleanupIfWritten ==
  /\ stage = "cleanup"
  /\ stage' = "done"
  /\ viewer' = writeErr
  /\ UNCHANGED <<todo, lines, sent, writer, reports, lost>>
Cleanup ==
  /\ stage = "cleanup"
  /\ stage' = "done"
  /\ viewer' \in BOOLEAN
  /\ lost' = IF viewer' THEN lost \cup {"viewer"} ELSE lost
  /\ UNCHANGED <<todo, lines, sent, writer, reports>>

RCDone == stage = "done"

RCNext == \/ CannotRun \/ Upload \/ Item \/ StartStream
          \/ WriteLine \/ CloseFile \/ CreateFile \/ DropLine
          \/ StreamFails \/ StreamEnds \/ Close \/ Cleanup

RCSpec == RCInit /\ [][RCNext]_rcVars

-----------------------------------------------------------------------------
(***************************************************************************)
(* Properties.                                                             *)
(***************************************************************************)
Sorted == \A i, j, k \in 1..Len(lines) :
            i < j /\ j < k /\ lines[i] = lines[k] => lines[i] = lines[j]
Reported == {p[1] : p \in perDay}

(* No record is in the file of another day.  When the lines come sorted    *)
(* and no flush fails unseen, a day that is reported is complete once the  *)
(* writer is closed: nothing is left in a buffer, and no file is begun a   *)
(* second time.                                                            *)
DaysComplete ==
  /\ \A d \in Dates : \A r \in file[d] : lines[r] = d
  /\ RCDone /\ Sorted /\ "flush" \notin lost =>
       \A d \in Reported : \A r \in 1..Len(lines) : lines[r] = d => r \in file[d]

(* The viewer does not stay on the coordinator, whatever failed after it   *)
(* could be run; except if its removal fails as well.                      *)
ViewerRemoved == RCDone /\ viewer => "viewer" \in lost
=============================================================================
