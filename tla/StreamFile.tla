----------------------------- MODULE StreamFile -----------------------------
(***************************************************************************)
(* streamNodeFiles: one node's discovered files are selected, streamed one *)
(* after the other with retries, checked, and masked.  With gzip a         *)
(* goroutine feeds StreamFromHost into a pipe that the transfer reads; an  *)
(* attempt that gives up must let go of both.                              *)
(*                                                                         *)
(* A file is a record [dir, base, family, kind, secret, empty, date, mod]: *)
(* its path is dir and base, its local path is the base alone.  Days are   *)
(* numbers, 0 standing for an unknown one; Today is the day of the run.    *)
(***************************************************************************)
EXTENDS Integers, Sequences, FiniteSets

CONSTANTS FileLists, \* the lists of files a discovery may have found
          Arguments, \* the collection.Args considered
          Today

FileRecords == [dir : STRING, base : STRING, family : STRING, kind : STRING,
                secret : BOOLEAN, empty : BOOLEAN, date : Nat, mod : Nat]

ASSUME ListsLegal == FileLists \subseteq Seq(FileRecords)

MaxRetries == 3

VARIABLES
  args,      \* collection.Args, and whether the node has gzip
  files,     \* info.Files
  at,        \* index of the file in hand
  step,      \* where streamNodeFiles is with it
  attempt,   \* of streamFile
  wire,      \* what the reader of the pipe, or of the direct stream, finds
  fed,       \* streaming goroutines whose pipe is open
  cut,       \* streaming goroutines whose pipe the reader has closed
  disk,      \* the local files, by base name
  skipped,
  collected, \* the indexes of the files reported as collected
  excuse     \* what went wrong with each file, for the properties

pipes == <<fed, cut>>
sfVars == <<args, files, at, step, attempt, wire, pipes, disk, skipped,
            collected, excuse>>

Indexes == 1..Len(files)
File == files[at]
Bases == {files[i].base : i \in Indexes}
Missing == [of |-> 0, content |-> "none"]
Holds(i, c) == [of |-> i, content |-> c]

SFInit ==
  /\ args \in Arguments
  /\ files \in FileLists
  /\ at = 1
  /\ step = "select"
  /\ attempt = 0
  /\ wire = "none"
  /\ fed = 0
  /\ cut = 0
  /\ disk = [b \in Bases |-> Missing]
  /\ skipped = {}
  /\ collected = {}
  /\ excuse = [i \in Indexes |-> "none"]

-----------------------------------------------------------------------------
(***************************************************************************)
(* The filters.                                                            *)
(***************************************************************************)
StandardFamilies == {"server", "tracker", "vacuum", "metadata_refresh"}
ExcludedFamilies == {"admin_backup", "audit", "server.json", "server.out"}

\* Mutant: only the prefixes of isAlwaysExcluded are tested.
IsExcludedFamily(f) == f.family \in ExcludedFamilies
IsAlwaysExcluded(f) == f.family \in ExcludedFamilies \/ f.secret

IsLogTypeEnabled(f) == f.family \notin args.disabled

LogDayLimit(f) ==
  IF args.diagnosis /\ args.diagLogDays > 0 THEN args.diagLogDays
  ELSE IF f.family \in {"server", "tracker", "vacuum", "queries"} THEN args.days
  ELSE -1

IsWithinDateRange(f, limit, start) ==
  LET inWindow(day) == start <= day /\ day < start + limit
  IN \/ limit <= 0
     \/ start # 0 /\ inWindow(IF f.date # 0 THEN f.date ELSE Today)
     \/ start = 0 /\ (f.mod = 0 \/ f.mod > Today - limit)

Selected(f) ==
  /\ ~f.empty
  /\ ~IsAlwaysExcluded(f)
  /\ f.kind = "gc-log" => args.gcLogs
  /\ f.kind = "log" => IsLogTypeEnabled(f)
  /\ f.kind = "queries" => "queries" \notin args.disabled
  /\ f.kind = "log" /\ ~args.diagnosis => f.family \in StandardFamilies
  /\ f.kind \in {"log", "queries"} =>
       IsWithinDateRange(f, LogDayLimit(f), args.start)

-----------------------------------------------------------------------------
Current == at <= Len(files)

\* The next file of the list, after this one.
NextFile ==
  /\ at' = at + 1
  /\ step' = "select"
  /\ attempt' = 0
  /\ wire' = "none"

Exclude ==
  /\ Current /\ step = "select"
  /\ ~Selected(File)
  /\ NextFile
  /\ UNCHANGED <<args, files, pipes, disk, skipped, collected, excuse>>

\* CreatePath of the copy strategy makes the directory, or fails.
CreatePath ==
  /\ Current /\ step = "select"
  /\ Selected(File)
  /\ \/ /\ step' = "open"
        /\ attempt' = 1
        /\ UNCHANGED <<at, wire, skipped, excuse>>
     \/ /\ skipped' = skipped \cup {at}
        /\ excuse' = [excuse EXCEPT ![at] = "path"]
        /\ NextFile
  /\ UNCHANGED <<args, files, pipes, disk, collected>>

(***************************************************************************)
(* An attempt has failed: a permanent error skips the file at once, any    *)
(* other one until the attempts are used up.                               *)
(***************************************************************************)
GiveUp(permanent) == permanent \/ attempt = MaxRetries

AttemptFails(permanent, why) ==
  /\ excuse' = [excuse EXCEPT ![at] = why]
  /\ IF GiveUp(permanent)
     THEN skipped' = skipped \cup {at} /\ NextFile
     ELSE /\ attempt' = attempt + 1
          /\ step' = "open"
          /\ wire' = "none"
          /\ UNCHANGED <<at, skipped>>

OpenFails ==
  /\ step = "open"
  /\ \E permanent \in BOOLEAN :
       AttemptFails(permanent, IF excuse[at] = "flush" THEN "flush" ELSE "open")
  /\ UNCHANGED <<args, files, pipes, disk, collected>>

Open ==
  /\ step = "open"
  /\ disk' = [disk EXCEPT ![File.base] = Holds(at, "partial")]
  /\ wire' = "open"
  /\ step' = IF args.gzip THEN "header" ELSE "stream"
  /\ fed' = IF args.gzip THEN fed + 1 ELSE fed
  /\ UNCHANGED <<args, files, at, attempt, cut, skipped, collected, excuse>>

(***************************************************************************)
(* The remote command ends: all was sent, the connection closed early      *)
(* without an error, or there is an error.  With gzip this is the          *)
(* goroutine, which then closes the pipe with the error and ends.          *)
(***************************************************************************)
Endings == {"whole", "short", "transient", "permanent"}
Reading == step \in {"header", "stream"}

RemoteEnds ==
  /\ Reading /\ wire = "open"
  /\ wire' \in Endings
  /\ fed' = IF args.gzip THEN fed - 1 ELSE fed
  /\ UNCHANGED <<args, files, at, step, attempt, cut, disk, skipped, collected, excuse>>

\* A write to a pipe without a reader fails, and StreamFromHost returns.
ProducerStops ==
  /\ cut > 0
  /\ cut' = cut - 1
  /\ UNCHANGED <<args, files, at, step, attempt, wire, fed, disk, skipped,
                 collected, excuse>>

\* pr.Close: the goroutine, if it runs, has lost its reader.
\* Mutant: the reader leaves without closing the pipe.
LeavePipe == UNCHANGED pipes
ClosePipe == fed' = 0 /\ cut' = cut + fed

Removed == [disk EXCEPT ![File.base] = Missing]

\* Every failure of the copy closes and removes the local file.
\* Mutant: the file of a failed copy stays.
KeepFailed(permanent) ==
  /\ AttemptFails(permanent, "copy")
  /\ UNCHANGED disk
CopyFails(permanent) ==
  /\ AttemptFails(permanent, "copy")
  /\ disk' = Removed

\* gzip.NewReader: what came is no gzip header, or nothing came.
HeaderFails ==
  /\ step = "header"
  /\ wire # "whole"
  /\ CopyFails(wire = "permanent")
  /\ ClosePipe
  /\ UNCHANGED <<args, files, collected>>

Header ==
  /\ step = "header"
  /\ step' = "stream"
  /\ UNCHANGED <<args, files, at, attempt, wire, pipes, disk, skipped,
                 collected, excuse>>

\* io.CopyBuffer stops before the end: damaged data or a local write error.
\* The direct stream returns the write error through StreamFromHost.
CopyBreaks ==
  /\ step = "stream"
  /\ wire = "open" \/ (args.gzip /\ wire \in {"whole", "short"})
  /\ CopyFails(FALSE)
  /\ ClosePipe
  /\ UNCHANGED <<args, files, collected>>

(***************************************************************************)
(* The copy has come to the end of what was sent.  The gzip format shows   *)
(* that a stream was cut; a plain one that was cut looks complete.         *)
(***************************************************************************)
\* Mutant: the error of the copy is not looked at.
StreamErrorOnly == wire \in {"transient", "permanent"}
EndIsError == StreamErrorOnly \/ (args.gzip /\ wire = "short")

CopyEndsBadly ==
  /\ step = "stream" /\ wire # "open"
  /\ EndIsError
  /\ CopyFails(wire = "permanent")
  /\ UNCHANGED <<args, files, pipes, collected>>

CopyEnds ==
  /\ step = "stream" /\ wire # "open"
  /\ ~EndIsError
  /\ \/ /\ disk' = [disk EXCEPT ![File.base] = Holds(at, wire)]
        /\ step' = "verify"
        /\ UNCHANGED <<at, attempt, wire, skipped, excuse>>
     \/ /\ AttemptFails(FALSE, "flush")  \* flush or close: nothing removed
        /\ UNCHANGED disk
  /\ UNCHANGED <<args, files, pipes, collected>>

\* The hash and the remote checksum are compared for the log only.
Verify ==
  /\ step = "verify"
  /\ step' = IF File.kind = "config" THEN "mask" ELSE "collect"
  /\ UNCHANGED <<args, files, at, attempt, wire, pipes, disk, skipped,
                 collected, excuse>>

\* maskLocalConfigFile: a failed read or open leaves the file as it came, a
\* failed write a part of the masked text.
Mask ==
  /\ step = "mask"
  /\ \E c \in {"masked", wire, "partial"} :
       /\ disk' = [disk EXCEPT ![File.base] = Holds(at, c)]
       /\ excuse' = [excuse EXCEPT ![at] = IF c = "masked" THEN "none" ELSE "mask"]
  /\ step' = "collect"
  /\ UNCHANGED <<args, files, at, attempt, wire, pipes, skipped, collected>>

Collect ==
  /\ step = "collect"
  /\ collected' = collected \cup {at}
  /\ excuse' = [excuse EXCEPT ![at] = IF @ = "mask" THEN @ ELSE "none"]
  /\ NextFile
  /\ UNCHANGED <<args, files, pipes, disk, skipped>>

SFDone == ~Current

SFMain == \/ Exclude \/ CreatePath \/ OpenFails \/ Open \/ HeaderFails \/ Header
          \/ CopyBreaks \/ CopyEndsBadly \/ CopyEnds \/ Verify \/ Mask \/ Collect
Producer == RemoteEnds \/ ProducerStops

SFNext == SFMain \/ Producer

(* The remote commands end, and goroutines that can take a step take it.   *)
SFFairness ==
  WF_sfVars(SFMain) /\ WF_sfVars(RemoteEnds) /\ WF_sfVars(ProducerStops)

SFSpec == SFInit /\ [][SFNext]_sfVars /\ SFFairness

-----------------------------------------------------------------------------
(***************************************************************************)
(* Properties.                                                             *)
(***************************************************************************)
LastOfItsName(i) == \A j \in Indexes : j > i => files[j].base # files[i].base
Streamed == {"whole", "masked"}

(* A file reported as collected is on disk and complete, whichever way the *)
(* attempts before went and even if the transport hides that the stream    *)
(* was cut; unless the node has no gzip, masking broke the file, or a      *)
(* later file of the list has its name.                                    *)
CollectedIsWhole ==
  \A i \in collected :
    LastOfItsName(i) /\ args.gzip /\ excuse[i] # "mask" =>
      disk[files[i].base].of = i /\ disk[files[i].base].content \in Streamed

(* What is on disk when a file is done with was collected, or is left by a *)
(* failing flush or close: the archive takes whatever is in the directory. *)
NoUnexplainedFile ==
  \A b \in DOMAIN disk :
    LET i == disk[b].of
    IN i # 0 /\ i < at => i \in collected \/ excuse[i] = "flush"

(* Keystores and keys never reach the local disk, in no mode, and the text *)
(* of a configuration file stays only if masking it failed.                *)
SecretsStayAway ==
  \A b \in DOMAIN disk :
    LET i == disk[b].of
    IN i # 0 =>
         /\ ~files[i].secret
         /\ files[i].kind = "config" /\ i < at /\ i \in collected =>
              disk[b].content = "masked" \/ excuse[i] = "mask"

(* The files are all gone through, and no streaming goroutine is left on   *)
(* the pipe of an attempt that was given up.                               *)
TransfersEnd ==
  <>[](SFDone /\ fed = 0 /\ cut = 0)

=============================================================================
