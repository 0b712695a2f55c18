------------------------- MODULE RocksCollect_proofs -------------------------
(***************************************************************************)
(* Proofs about RocksCollect, for every stream of dated records, however   *)
(* the writer's buffer is flushed in between.  No invariant speaks of the  *)
(* records on their way, so IInv says where each of them is: in the file   *)
(* of its day or in the buffer of the current one.  That os.Create empties *)
(* no file that has records rests on the order of the stream.              *)
(***************************************************************************)
EXTENDS RocksCollect, TLAPS

Records == 1 .. Len(lines)

TypeInv ==
  /\ lines \in RecordStreams
  /\ sent \in 0 .. Len(lines)
  /\ file \in [Dates -> SUBSET Records]
  /\ buffer \subseteq Records
  /\ curDate \in Dates \cup {NoDate}
  /\ writeErr \in BOOLEAN

(* What is written or to be written to a file is of its day.                *)
PlaceInv ==
  /\ \A d \in Dates : \A r \in file[d] : lines[r] = d
  /\ \A r \in buffer : lines[r] = curDate

(* The day of the writer is that of the last record, or of the next one     *)
(* while its file is being created: then the last was of another day.       *)
DayInv ==
  /\ stage = "create" =>
       /\ ~writeErr /\ buffer = {}
       /\ sent < Len(lines) /\ curDate = lines[sent + 1]
       /\ sent > 0 => lines[sent] # curDate
  /\ stage # "create" /\ ~writeErr =>
       curDate = IF sent = 0 THEN NoDate ELSE lines[sent]

(* No record the handler has had is lost.                                   *)
KeptInv ==
  Sorted /\ ~writeErr /\ "flush" \notin lost =>
    \A r \in 1 .. sent : r \in buffer \cup file[lines[r]]

(* Files are reported only when the stream has ended without an error, and  *)
(* the buffer is used only in between.                                      *)
StageInv ==
  /\ perDay # {} => /\ stage \in {"close", "cleanup", "done"}
                    /\ ~writeErr /\ sent = Len(lines)
  /\ stage \notin {"stream", "create", "close"} => buffer = {}

ViewerInv ==
  /\ stage = "catalog" => ~viewer
  /\ ViewerRemoved

IInv == TypeInv /\ PlaceInv /\ DayInv /\ KeptInv /\ StageInv /\ ViewerInv

-----------------------------------------------------------------------------
(* The lines, their days and the records.                                   *)
LEMMA LinesLegal ==
  ASSUME TypeInv
  PROVE  /\ Len(lines) \in Nat
         /\ NoDate \notin Dates
         /\ \A r \in Records : lines[r] \in Dates
         /\ sent < Len(lines) => sent + 1 \in Records
<1>1. lines \in Seq(STRING) /\ \A i \in 1 .. Len(lines) : lines[i] # NoDate
  BY StreamsLegal DEF TypeInv
<1>2. QED  BY <1>1 DEF TypeInv, Dates, Records

(* A flush of the buffer, by switchFile, by Close or because it is full.    *)
LEMMA FlushedKeeps ==
  ASSUME IInv
  PROVE  /\ Flushed \in [Dates -> SUBSET Records]
         /\ \A d \in Dates : \A r \in Flushed[d] : lines[r] = d
         /\ \A d \in Dates : file[d] \subseteq Flushed[d]
         /\ \A r \in buffer : r \in Flushed[lines[r]]
<1>1. TypeInv /\ PlaceInv  BY DEF IInv
<1>2. CASE curDate = NoDate
  <2>1. buffer = {}
    BY <1>1, <1>2, LinesLegal DEF TypeInv, PlaceInv
  <2>2. QED  BY <1>1, <1>2, <2>1 DEF Flushed, TypeInv, PlaceInv
<1>3. CASE curDate # NoDate
  <2>1. curDate \in Dates /\ Flushed = [file EXCEPT ![curDate] = @ \cup buffer]
    BY <1>1, <1>3 DEF TypeInv, Flushed
  <2>2. Flushed = [d \in Dates |-> IF d = curDate THEN file[d] \cup buffer ELSE file[d]]
    BY <1>1, <2>1 DEF TypeInv
  <2>3. QED  BY <1>1, <2>1, <2>2 DEF TypeInv, PlaceInv
<1>4. QED  BY <1>2, <1>3

(* What a flush leaves in the files, if it works or not.                    *)
LEMMA FlushStep ==
  ASSUME IInv, Flush
  PROVE  /\ file' \in [Dates -> SUBSET Records]
         /\ \A d \in Dates : \A r \in file'[d] : lines[r] = d
         /\ KeptInv /\ Sorted /\ ~writeErr /\ "flush" \notin lost' =>
              \A r \in 1 .. sent : r \in file'[lines[r]]
<1>1. TypeInv /\ PlaceInv /\ KeptInv  BY DEF IInv
<1>2. CASE file' = Flushed /\ UNCHANGED lost
  <2>1. 1 .. sent \subseteq Records /\ \A r \in Records : lines[r] \in Dates
    BY <1>1, LinesLegal DEF TypeInv, Records
  <2>2. QED  BY <1>1, <1>2, <2>1, FlushedKeeps DEF KeptInv
<1>3. CASE file' = file /\ buffer # {} /\ lost' = lost \cup {"flush"}
  BY <1>1, <1>3 DEF TypeInv, PlaceInv
<1>4. QED  BY <1>2, <1>3 DEF Flush

-----------------------------------------------------------------------------
(* At the start there is no record, no file and no viewer.                  *)
THEOREM InitIInv == RCInit => IInv
<1> SUFFICES ASSUME RCInit PROVE IInv  OBVIOUS
<1>1. lines \in Seq(STRING)  BY StreamsLegal DEF RCInit
<1>2. TypeInv
  <2>1. file \in [Dates -> SUBSET Records]  BY DEF RCInit
  <2>2. sent \in 0 .. Len(lines)  BY <1>1 DEF RCInit
  <2>3. QED  BY <2>1, <2>2 DEF RCInit, TypeInv
<1>3. PlaceInv /\ DayInv /\ KeptInv /\ StageInv /\ ViewerInv
  BY DEF RCInit, PlaceInv, DayInv, KeptInv, StageInv, ViewerInv, ViewerRemoved, RCDone
<1>4. QED  BY <1>2, <1>3 DEF IInv

-----------------------------------------------------------------------------
(* The steps of RunRocksDBCollection around the stream.                     *)
LEMMA AroundStep ==
  ASSUME IInv, CannotRun \/ Upload \/ Item \/ StartStream \/ Cleanup
  PROVE  IInv'
<1>1. UNCHANGED <<lines, sent, writer, perDay>> /\ Dates' = Dates
  BY DEF CannotRun, Upload, Item, StartStream, Cleanup, reports, Dates
<1>2. /\ stage # "create" /\ stage' # "create" /\ buffer = {}
      /\ perDay = {} \/ stage = "cleanup"
  BY DEF IInv, StageInv, CannotRun, Upload, Item, StartStream, Cleanup
<1>3. "flush" \notin lost' => "flush" \notin lost
  BY DEF CannotRun, Upload, Item, StartStream, Cleanup
<1>4. TypeInv' /\ PlaceInv'
  BY <1>1 DEF IInv, TypeInv, PlaceInv, writer, Records
<1>5. DayInv' /\ StageInv'
  BY <1>1, <1>2 DEF IInv, DayInv, StageInv, writer, CannotRun, Upload, Item, StartStream, Cleanup
<1>6. KeptInv'
  BY <1>1, <1>3 DEF IInv, KeptInv, writer, Sorted
<1>7. ViewerInv'
  BY DEF IInv, ViewerInv, ViewerRemoved, RCDone, CannotRun, Upload, Item, StartStream, Cleanup
<1>8. QED  BY <1>4, <1>5, <1>6, <1>7 DEF IInv

(* A record of the same day goes to the buffer, which may be full.          *)
LEMMA WriteStep ==
  ASSUME IInv, WriteLine PROVE IInv'
<1>1. /\ TypeInv /\ PlaceInv /\ DayInv /\ KeptInv
      /\ stage = "stream" /\ sent < Len(lines) /\ ~writeErr /\ lines[sent + 1] = curDate
      /\ sent' = sent + 1
      /\ UNCHANGED <<stage, viewer, lines, curDate, writeErr, perDay, lost>>
  BY DEF IInv, WriteLine, Handling, NextDate, reports
<1>2. /\ Len(lines) \in Nat /\ sent \in Nat /\ sent + 1 \in Records
      /\ 1 .. sent \subseteq Records /\ \A r \in Records : lines[r] \in Dates
      /\ 1 .. sent' = (1 .. sent) \cup {sent + 1}
      /\ sent' \in 0 .. Len(lines) /\ sent' # 0 /\ lines[sent'] = curDate
  BY <1>1, LinesLegal DEF TypeInv, Records
<1>3. curDate \in Dates /\ Dates' = Dates /\ Records' = Records /\ Sorted' = Sorted
  BY <1>1, <1>2 DEF Dates, Records, Sorted
<1>4. DayInv' /\ StageInv' /\ ViewerInv'
  BY <1>1, <1>2 DEF IInv, DayInv, StageInv, ViewerInv, ViewerRemoved, RCDone
<1>5. CASE buffer' = buffer \cup {sent + 1} /\ file' = file
  <2>1. TypeInv' /\ PlaceInv'
    BY <1>1, <1>2, <1>3, <1>5 DEF TypeInv, PlaceInv
  <2>2. KeptInv'
    BY <1>1, <1>2, <1>3, <1>5 DEF KeptInv
  <2>3. QED  BY <1>4, <2>1, <2>2 DEF IInv
<1>6. CASE buffer' = {} /\ file' = [Flushed EXCEPT ![curDate] = @ \cup {sent + 1}]
  <2>1. file' = [d \in Dates |-> IF d = curDate THEN Flushed[d] \cup {sent + 1} ELSE Flushed[d]]
    BY <1>3, <1>6, FlushedKeeps
  <2>2. TypeInv' /\ PlaceInv'
    BY <1>1, <1>2, <1>3, <1>6, <2>1, FlushedKeeps DEF TypeInv, PlaceInv
  <2>3. KeptInv'
    <3> SUFFICES ASSUME Sorted, "flush" \notin lost, NEW r \in 1 .. sent' PROVE r \in file'[lines[r]]
      BY <1>1, <1>3 DEF KeptInv
    <3>1. CASE r = sent + 1
      BY <1>1, <1>3, <2>1, <3>1
    <3>2. CASE r \in 1 .. sent
      <4>1. lines[r] \in Dates /\ r \in Flushed[lines[r]]
        BY <1>1, <1>2, <3>2, FlushedKeeps DEF KeptInv
      <4>2. QED  BY <2>1, <4>1
    <3>3. QED  BY <1>2, <3>1, <3>2
  <2>4. QED  BY <1>4, <2>2, <2>3 DEF IInv
<1>7. QED  BY <1>5, <1>6 DEF WriteLine

(* The file of the day before is flushed and closed.                        *)
LEMMA CloseFileStep ==
  ASSUME IInv, CloseFile PROVE IInv'
<1>1. /\ TypeInv /\ DayInv /\ KeptInv
      /\ stage = "stream" /\ sent < Len(lines) /\ ~writeErr
      /\ lines[sent + 1] # curDate /\ curDate' = lines[sent + 1]
      /\ stage' = "create" /\ buffer' = {} /\ Flush
      /\ UNCHANGED <<viewer, lines, sent, writeErr, perDay>>
      /\ Dates' = Dates /\ Records' = Records /\ Sorted' = Sorted
  BY DEF IInv, CloseFile, Handling, NextDate, reports, Dates, Records, Sorted
<1>2. sent \in Nat /\ lines[sent + 1] \in Dates
  BY <1>1, LinesLegal DEF TypeInv, Records
<1>3. TypeInv' /\ PlaceInv'
  BY <1>1, <1>2, FlushStep DEF TypeInv, PlaceInv
<1>4. DayInv'
  BY <1>1, <1>2 DEF DayInv
<1>5. KeptInv'
  BY <1>1, FlushStep DEF KeptInv
<1>6. StageInv' /\ ViewerInv'
  BY <1>1 DEF IInv, StageInv, ViewerInv, ViewerRemoved, RCDone
<1>7. QED  BY <1>3, <1>4, <1>5, <1>6 DEF IInv

(* The file that os.Create empties has no record of a stream in order: the  *)
(* record before is of another day, and so are all before it.               *)
LEMMA CreateFileStep ==
  ASSUME IInv, CreateFile PROVE IInv'
<1>1. /\ TypeInv /\ PlaceInv /\ DayInv /\ KeptInv
      /\ stage = "create" /\ stage' = "stream" /\ sent' = sent + 1
      /\ ~writeErr /\ buffer = {} /\ sent < Len(lines) /\ curDate = lines[sent + 1]
      /\ sent > 0 => lines[sent] # curDate
      /\ UNCHANGED <<viewer, lines, curDate, perDay, lost>>
      /\ Dates' = Dates /\ Records' = Records /\ Sorted' = Sorted
  BY DEF IInv, DayInv, CreateFile, reports, Dates, Records, Sorted
<1>2. /\ Len(lines) \in Nat /\ sent \in Nat /\ sent + 1 \in Records
      /\ curDate \in Dates /\ \A r \in Records : lines[r] \in Dates
      /\ 1 .. sent' = (1 .. sent) \cup {sent + 1}
      /\ sent' \in 0 .. Len(lines) /\ sent' # 0 /\ lines[sent'] = curDate
  BY <1>1, LinesLegal DEF TypeInv, Records
<1>3. DayInv' /\ StageInv' /\ ViewerInv'
  BY <1>1, <1>2 DEF IInv, DayInv, StageInv, ViewerInv, ViewerRemoved, RCDone
<1>4. CASE file' = [file EXCEPT ![curDate] = {}] /\ buffer' = {sent + 1} /\ writeErr' = writeErr
  <2>1. TypeInv' /\ PlaceInv'
    BY <1>1, <1>2, <1>4 DEF TypeInv, PlaceInv
  <2>2. KeptInv'
    <3> SUFFICES ASSUME Sorted, "flush" \notin lost, NEW r \in 1 .. sent
                 PROVE  r \in file'[lines[r]]
      BY <1>1, <1>2, <1>4 DEF KeptInv
    <3>1. r \in Records /\ sent \in Records /\ lines[sent] # lines[sent + 1]
      BY <1>1, <1>2 DEF Records
    <3>2. lines[r] # curDate
      <4>1. CASE r = sent
        BY <1>1, <3>1, <4>1
      <4>2. CASE r < sent
        BY <1>1, <1>2, <3>1, <4>2 DEF Sorted, Records
      <4>3. QED  BY <1>2, <4>1, <4>2
    <3>3. r \in file[lines[r]] /\ lines[r] \in Dates
      BY <1>1, <1>2, <3>1 DEF KeptInv
    <3>4. QED  BY <1>1, <1>4, <3>2, <3>3 DEF TypeInv
  <2>3. QED  BY <1>3, <2>1, <2>2 DEF IInv
<1>5. CASE writeErr' = TRUE /\ UNCHANGED <<file, buffer>>
  <2>1. TypeInv' /\ PlaceInv' /\ KeptInv'
    BY <1>1, <1>2, <1>5 DEF TypeInv, PlaceInv, KeptInv
  <2>2. QED  BY <1>3, <2>1 DEF IInv
<1>6. QED  BY <1>4, <1>5 DEF CreateFile

(* After an error nothing is promised of the records any more.              *)
LEMMA DropStep ==
  ASSUME IInv, DropLine PROVE IInv'
<1>1. /\ TypeInv /\ stage = "stream" /\ sent < Len(lines)
      /\ writeErr' = TRUE /\ sent' = sent + 1
      /\ UNCHANGED <<stage, viewer, lines, curDate, buffer, file, perDay, lost>>
      /\ Dates' = Dates /\ Records' = Records
  BY DEF IInv, DropLine, Handling, reports, Dates, Records
<1>2. TypeInv' /\ PlaceInv' /\ KeptInv'
  BY <1>1, LinesLegal DEF IInv, TypeInv, PlaceInv, KeptInv
<1>3. DayInv' /\ StageInv' /\ ViewerInv'
  BY <1>1 DEF IInv, DayInv, StageInv, ViewerInv, ViewerRemoved, RCDone
<1>4. QED  BY <1>2, <1>3 DEF IInv

(* The end of the stream, good or bad; its files are reported at a good one. *)
LEMMA EndStep ==
  ASSUME IInv, StreamFails \/ StreamEnds PROVE IInv'
<1>1. /\ stage = "stream" /\ stage' = "close"
      /\ UNCHANGED <<viewer, lines, sent, writer, lost>>
      /\ Dates' = Dates /\ Records' = Records /\ Sorted' = Sorted
      /\ perDay' # {} => perDay' = perDay \/ (~writeErr /\ sent = Len(lines))
  BY DEF StreamFails, StreamEnds, reports, Dates, Records, Sorted
<1>2. TypeInv' /\ PlaceInv' /\ KeptInv'
  BY <1>1 DEF IInv, TypeInv, PlaceInv, KeptInv, writer
<1>3. DayInv' /\ StageInv' /\ ViewerInv'
  BY <1>1 DEF IInv, DayInv, StageInv, ViewerInv, ViewerRemoved, RCDone, writer
<1>4. QED  BY <1>2, <1>3 DEF IInv

(* Close writes what is left.                                               *)
LEMMA CloseStep ==
  ASSUME IInv, Close PROVE IInv'
<1>1. /\ TypeInv /\ KeptInv /\ Flush
      /\ stage = "close" /\ stage' = "cleanup" /\ buffer' = {}
      /\ UNCHANGED <<viewer, lines, sent, curDate, writeErr, perDay>>
      /\ Dates' = Dates /\ Records' = Records /\ Sorted' = Sorted
  BY DEF IInv, Close, reports, Dates, Records, Sorted
<1>2. TypeInv' /\ PlaceInv' /\ KeptInv'
  BY <1>1, FlushStep DEF TypeInv, PlaceInv, KeptInv
<1>3. DayInv' /\ StageInv' /\ ViewerInv'
  BY <1>1 DEF IInv, DayInv, StageInv, ViewerInv, ViewerRemoved, RCDone
<1>4. QED  BY <1>2, <1>3 DEF IInv

-----------------------------------------------------------------------------
(* Every step keeps the invariant.                                          *)
THEOREM NextIInv == IInv /\ [RCNext]_rcVars => IInv'
<1> SUFFICES ASSUME IInv, [RCNext]_rcVars PROVE IInv'  OBVIOUS
<1>1. CASE CannotRun \/ Upload \/ Item \/ StartStream \/ Cleanup
  BY <1>1, AroundStep
<1>2. CASE WriteLine \/ CloseFile \/ CreateFile \/ DropLine
  BY <1>2, WriteStep, CloseFileStep, CreateFileStep, DropStep
<1>3. CASE StreamFails \/ StreamEnds \/ Close
  BY <1>3, EndStep, CloseStep
<1>4. CASE UNCHANGED rcVars
  BY <1>4 DEF rcVars, writer, reports, IInv, TypeInv, PlaceInv, DayInv, KeptInv, StageInv,
              ViewerInv, ViewerRemoved, RCDone, Dates, Records, Sorted
<1>5. QED  BY <1>1, <1>2, <1>3, <1>4 DEF RCNext

(* So every record is where IInv says, at all times.                        *)
THEOREM SpecIInv == RCSpec => []IInv
BY InitIInv, NextIInv, PTL DEF RCSpec

(* For every stream, a record is only ever in the file of its day; and when *)
(* the stream comes in order and no flush fails unseen, the files that are  *)
(* reported have all the records of their days.                             *)
THEOREM DaysWhole == RCSpec => []DaysComplete
<1>1. ASSUME IInv PROVE DaysComplete
  <2>1. TypeInv /\ PlaceInv /\ KeptInv /\ StageInv  BY <1>1 DEF IInv
  <2>2. ASSUME RCDone, Sorted, "flush" \notin lost,
               NEW d \in Reported, NEW r \in 1 .. Len(lines), lines[r] = d
        PROVE  r \in file[d]
    <3>1. perDay # {}  BY <2>2 DEF Reported
    <3>2. ~writeErr /\ sent = Len(lines) /\ buffer = {}
      BY <2>1, <2>2, <3>1 DEF StageInv, RCDone
    <3>3. QED  BY <2>1, <2>2, <3>2 DEF KeptInv
  <2>3. QED  BY <2>1, <2>2 DEF DaysComplete, PlaceInv
<1>2. QED  BY <1>1, SpecIInv, PTL

(* Whatever fails in between, the viewer is removed from the coordinator or *)
(* its removal has failed as well.                                          *)
THEOREM ViewerGone == RCSpec => []ViewerRemoved
<1>1. IInv => ViewerRemoved  BY DEF IInv, ViewerInv
<1>2. QED  BY <1>1, SpecIInv, PTL

=============================================================================
