------------------------- MODULE ProfileCollection --------------------------
(***************************************************************************)
(* RunLogBasedProfileCollection: the collected server logs are scanned for *)
(* the jobs that failed and for those to exclude, and the profiles of the  *)
(* most recent ones are downloaded, one after the other.  A log is a       *)
(* sequence of lines; a line has the jobs that its patterns report and     *)
(* exclude, and a time; one over the limit of bufio.Scanner ends the scan. *)
(***************************************************************************)
EXTENDS Naturals, Sequences, FiniteSets, Functions

CONSTANTS
  LogSets,      \* sequences of logs in the order of the walk
  MaxProfiles   \* maxProblematicProfiles

ASSUME LimitPositive == MaxProfiles \in Nat \ {0}
ASSUME LogsLegal ==
  \A ls \in LogSets : ls \in Seq(Range(ls)) /\ \A log \in Range(ls) :
    log \in Seq(Range(log)) /\ \A line \in Range(log) : IsFiniteSet(line.reports)

VARIABLES
  serverLogs, diagnosis, token,
  step,         \* start, scan, download, ok, error
  scanned,      \* how many of the logs
  matches,      \* per job, its time: Matches of the merged result
  exclusions, failedScans,
  jobs,         \* the list that is downloaded
  tried,        \* how many of them
  downloaded

input == <<serverLogs, diagnosis, token>>
merged == <<matches, exclusions, failedScans>>
fetch == <<jobs, tried, downloaded>>
pcVars == <<input, step, scanned, merged, fetch>>

PCInit ==
  /\ serverLogs \in LogSets
  /\ diagnosis \in BOOLEAN /\ token \in BOOLEAN
  /\ step = "start"
  /\ scanned = 0
  /\ matches = <<>>
  /\ exclusions = {}
  /\ failedScans = {}
  /\ jobs = <<>>
  /\ tried = 0
  /\ downloaded = {}

StartScan ==
  /\ step = "start"
  /\ step' = IF ~diagnosis \/ ~token \/ serverLogs = <<>> THEN "ok" ELSE "scan"
  /\ UNCHANGED <<input, scanned, merged, fetch>>

-----------------------------------------------------------------------------
(***************************************************************************)
(* ScanReader: the first line that reports a job gives it its time.        *)
(***************************************************************************)
ReportedBy(log) == UNION {log[i].reports : i \in DOMAIN log}
ExcludedBy(log) == UNION {log[i].excludes : i \in DOMAIN log}
FirstTime(log, id) ==
  LET first == CHOOSE i \in DOMAIN log : /\ id \in log[i].reports
                                         /\ \A j \in 1..(i - 1) : id \notin log[j].reports
  IN  log[first].time
Readable(log) == \A i \in DOMAIN log : ~log[i].long

\* Mutant: each log has its own exclusions.
MergeRemaining(log) ==
  /\ matches' = [id \in DOMAIN matches \cup (ReportedBy(log) \ ExcludedBy(log)) |->
                   IF id \in DOMAIN matches THEN matches[id] ELSE FirstTime(log, id)]
  /\ UNCHANGED exclusions
Merge(log) ==
  /\ matches' = [id \in DOMAIN matches \cup ReportedBy(log) |->
                   IF id \in DOMAIN matches THEN matches[id] ELSE FirstTime(log, id)]
  /\ exclusions' = exclusions \cup ExcludedBy(log)

\* A log that cannot be opened or read to its end is left out altogether.
ScanFile ==
  /\ step = "scan" /\ scanned < Len(serverLogs)
  /\ scanned' = scanned + 1
  /\ LET log == serverLogs[scanned'] IN
     \/ Readable(log) /\ Merge(log) /\ UNCHANGED failedScans
     \/ failedScans' = failedScans \cup {scanned'} /\ UNCHANGED <<matches, exclusions>>
  /\ UNCHANGED <<input, step, fetch>>

-----------------------------------------------------------------------------
(* MostRecent: the most recent first, up to the limit; the jobs of one time  *)
(* are in the order of their names.                                         *)
Candidates == DOMAIN matches \ exclusions
Limit == IF Cardinality(Candidates) < MaxProfiles THEN Cardinality(Candidates) ELSE MaxProfiles
Precedes(id, other) ==
  matches[id] > matches[other] \/ (matches[id] = matches[other] /\ id < other)
IsMostRecent(ids) ==
  /\ \A i, j \in DOMAIN ids : i < j => Precedes(ids[i], ids[j])
  /\ \A id \in Range(ids), other \in Candidates \ Range(ids) : Precedes(id, other)
MostRecent == {ids \in Injection(1..Limit, Candidates) : IsMostRecent(ids)}

ChooseJobs ==
  /\ step = "scan" /\ scanned = Len(serverLogs)
  /\ jobs' \in MostRecent
  /\ step' \in IF jobs' = <<>> THEN {"ok"} ELSE {"download", "error"}   \* MkdirAll
  /\ UNCHANGED <<input, scanned, merged, tried, downloaded>>

\* downloadJobProfile and APIRequest: no answer, a status, or no file.
Download ==
  /\ step = "download" /\ tried < Len(jobs)
  /\ tried' = tried + 1
  /\ \/ downloaded' = downloaded \cup {jobs[tried']}
     \/ UNCHANGED downloaded
  /\ UNCHANGED <<input, step, scanned, merged, jobs>>

Finish ==
  /\ step = "download" /\ tried = Len(jobs)
  /\ step' = "ok"
  /\ UNCHANGED <<input, scanned, merged, fetch>>

Finished == step \in {"ok", "error"}

PCNext == StartScan \/ ScanFile \/ ChooseJobs \/ Download \/ Finish

PCSpec == PCInit /\ [][PCNext]_pcVars

-----------------------------------------------------------------------------
(***************************************************************************)
(* Properties.                                                             *)
(***************************************************************************)
(* A job that any scanned log excludes, before or after the log that       *)
(* reports it, is neither downloaded nor counted against the limit: every  *)
(* other reported job is tried while the limit leaves room.                *)
ExcludedNotDownloaded ==
  LET usable == 1..scanned \ failedScans
      excluded == UNION {ExcludedBy(serverLogs[i]) : i \in usable}
      reported == (UNION {ReportedBy(serverLogs[i]) : i \in usable}) \ excluded
  IN  step = "download" =>
        /\ Range(jobs) \subseteq reported
        /\ Len(jobs) < MaxProfiles => Range(jobs) = reported
        /\ downloaded \subseteq Range(jobs)
=============================================================================
