----------------------------- MODULE Discovery ------------------------------
(***************************************************************************)
(* RunDiscovery: a chain of commands on one host, each of which may fail,  *)
(* finds the process of Dremio, its log and configuration directories with *)
(* their files, and the tools of the host.  A host is a record of what its *)
(* commands show when they work.                                           *)
(***************************************************************************)
EXTENDS Naturals, Sequences, FiniteSetsExt

CONSTANTS Machines, LogDirCandidates, ConfDirCandidates

(* What readProcessInfo reads is a sequence of settings.                    *)
LogPath == "-Ddremio.log.path"
Occurrences(blob, key) == {i \in DOMAIN blob : blob[i].key = key}
LastOccurrence(blob, key) == Max(Occurrences(blob, key))

(* No directory is named "none", which stands for the empty path.  A server *)
(* is a process of Dremio.                                                  *)
ASSUME MachinesLegal ==
  \A m \in Machines :
    /\ m.jvms \in Seq(Range(m.jvms))
    /\ m.cmdline \in Seq(Range(m.cmdline)) /\ m.environ \in Seq(Range(m.environ))
    /\ \A j \in Range(m.jvms) : j.pid \in Nat \ {0} /\ (j.server => j.dremio)
    /\ "none" \notin m.full
ASSUME CandidatesLegal ==
  LogDirCandidates \in Seq(STRING) /\ ConfDirCandidates \in Seq(STRING)

VARIABLES
  machine,
  logDirFlag, confDirFlag,   \* the paths that the operator gave, or "none"
  command,     \* the next step of the chain, at its end ok or error
  candidates,  \* the directories to go, of dirHasFiles
  procInfo,    \* what is read of the command line and the environment
  info,        \* RemoteNodeInfo
  failed       \* the steps with a command that failed

discoveryArgs == <<machine, logDirFlag, confDirFlag>>
diVars == <<discoveryArgs, command, candidates, procInfo, info, failed>>

DIInit ==
  /\ machine \in Machines
  /\ logDirFlag \in {"none", "/given"} /\ confDirFlag \in {"none", "/etc/dremio"}
  /\ command = "jcmd"
  /\ candidates = <<>>
  /\ procInfo = <<>>
  /\ info = [pid |-> 0, logDir |-> "none", confDir |-> "none", rocksDBDir |-> "none",
             checksumTool |-> "none", gzip |-> FALSE, files |-> {}]
  /\ failed = {}

\* The outcomes of a step whose command works on this machine, or does not.
Fares(works, ok) ==
  /\ ok \in BOOLEAN /\ (ok => works)
  /\ failed' = IF works /\ ~ok THEN failed \cup {command} ELSE failed

-----------------------------------------------------------------------------
(***************************************************************************)
(* discoverPID: jcmd -l, pgrep -x java, pgrep -f dremio.*java.  The last   *)
(* pattern is in the command line of the shell that runs it, too.          *)
(***************************************************************************)
Jvms == machine.jvms
Shell == [pid |-> 99, dremio |-> FALSE, server |-> FALSE]
Processes == Append(Jvms, Shell)
Dremios == {i \in DOMAIN Jvms : Jvms[i].dremio}

\* The first of those shown that is not 1, or else the first; 0 if there is none.
SelectPid(shown) ==
  LET others == {i \in shown : Processes[i].pid # 1}
  IN  IF shown = {} THEN 0 ELSE Processes[Min(IF others # {} THEN others ELSE shown)].pid

DiscoverPid(step, tool, listing, next) ==
  /\ command = step
  /\ \E ok \in BOOLEAN :
       LET shown == IF ok THEN listing ELSE {} IN
       /\ Fares(tool \in machine.has, ok)
       /\ info' = [info EXCEPT !.pid = SelectPid(shown)]
       /\ command' = IF shown # {} \/ next = "ps"
                     THEN (IF logDirFlag = "none" THEN "ps" ELSE "list logs") ELSE next
  /\ UNCHANGED <<discoveryArgs, candidates, procInfo>>

Jcmd == DiscoverPid("jcmd", "jcmd", Dremios, "pgrep -x")
PgrepExact == DiscoverPid("pgrep -x", "pgrep", DOMAIN Jvms, "pgrep -f")
PgrepFull == \E shell \in {{}, {Len(Processes)}} :
               DiscoverPid("pgrep -f", "pgrep", Dremios \cup shell, "ps")

-----------------------------------------------------------------------------
(***************************************************************************)
(* resolveLogDir: what readProcessInfo gives are the settings of the       *)
(* command line before those of the environment.                           *)
(***************************************************************************)
IsServer(p) == \E i \in DOMAIN Jvms : Jvms[i].pid = p /\ Jvms[i].server
CmdLine == IF IsServer(info.pid) THEN machine.cmdline ELSE <<>>
Environ == IF IsServer(info.pid) THEN machine.environ ELSE <<>>

\* Mutant: the first occurrence counts.
FirstValue(blob, key) ==
  IF Occurrences(blob, key) = {} THEN <<>> ELSE <<blob[Min(Occurrences(blob, key))].value>>
ExtractEnvValue(blob, key) ==
  IF Occurrences(blob, key) = {} THEN <<>> ELSE <<blob[LastOccurrence(blob, key)].value>>

ToProbe(blob) == ExtractEnvValue(blob, LogPath)
                 \o ExtractEnvValue(blob, "DREMIO_LOG_DIR") \o LogDirCandidates

(* ps eww shows both; /proc/PID/cmdline and environ are read one by one.    *)
(* Without a process nothing is read.                                       *)
ReadProcessInfo ==
  /\ command = "ps"
  /\ \/ info.pid = 0 /\ procInfo' = <<>> /\ UNCHANGED failed
     \/ /\ info.pid # 0
        /\ \E ps, line, env \in BOOLEAN :
             /\ ps => "ps" \in machine.has
             /\ failed' = IF ps \/ (line /\ env) THEN failed ELSE failed \cup {"ps"}
             /\ procInfo' = (IF ps \/ line THEN CmdLine ELSE <<>>)
                         \o (IF ps \/ env THEN Environ ELSE <<>>)
  /\ candidates' = ToProbe(procInfo')
  /\ command' = "log dir"
  /\ UNCHANGED <<discoveryArgs, info>>

\* dirHasFiles of the next candidate.
ProbeDir(step, field, next) ==
  /\ command = step
  /\ IF candidates = <<>>
     THEN command' = next /\ UNCHANGED <<candidates, info, failed>>
     ELSE \E ok \in BOOLEAN :
            /\ Fares(Head(candidates) \in machine.full, ok)
            /\ candidates' = IF ok THEN <<>> ELSE Tail(candidates)
            /\ info' = IF ok THEN [info EXCEPT ![field] = Head(candidates)] ELSE info
            /\ command' = IF ok THEN next ELSE step
  /\ UNCHANGED <<discoveryArgs, procInfo>>

ProbeLogDir == ProbeDir("log dir", "logDir", "list logs")
ProbeConfDir == ProbeDir("conf dir", "confDir", "list conf")

-----------------------------------------------------------------------------
(***************************************************************************)
(* listFiles: find and stat go one directory down for logs and give times; *)
(* ls sees the files of the directory itself, without a time.              *)
(***************************************************************************)
Wanted(dir, kind) ==
  {f \in machine.files : f.dir = dir /\ ~f.hidden /\ (kind = "conf" => f.allowed)}
WithStat(dir, kind) ==
  {[file |-> f.name, dated |-> TRUE] :
     f \in {g \in Wanted(dir, kind) : kind = "log" \/ ~g.deep}}
WithLs(dir, kind) ==
  {[file |-> f.name, dated |-> FALSE] : f \in {g \in Wanted(dir, kind) : ~g.deep}}

ListFiles(dir, kind) ==
  \E how \in {"stat", "ls", "none"} :
    /\ how = "stat" => "stat" \in machine.has
    /\ failed' = IF how = "none" \/ (how = "ls" /\ "stat" \in machine.has)
                 THEN failed \cup {command} ELSE failed
    /\ info' = [info EXCEPT ![IF kind = "log" THEN "logDir" ELSE "confDir"] = dir,
                            !.files = @ \cup CASE how = "stat" -> WithStat(dir, kind)
                                               [] how = "ls" -> WithLs(dir, kind)
                                               [] OTHER -> {}]

\* A path that the operator gave is not probed.
GivenOr(flag, probed) == IF flag = "none" THEN probed ELSE flag

ListLogs ==
  /\ command = "list logs"
  /\ LET dir == GivenOr(logDirFlag, info.logDir) IN
     IF dir = "none" THEN UNCHANGED <<info, failed>> ELSE ListFiles(dir, "log")
  /\ candidates' = IF confDirFlag = "none" THEN ConfDirCandidates ELSE <<>>
  /\ command' = "conf dir"
  /\ UNCHANGED <<discoveryArgs, procInfo>>

ListConf ==
  /\ command = "list conf"
  /\ LET dir == GivenOr(confDirFlag, info.confDir) IN
     IF dir = "none" THEN UNCHANGED <<info, failed>> ELSE ListFiles(dir, "conf")
  /\ command' = "dremio.conf"
  /\ UNCHANGED <<discoveryArgs, candidates, procInfo>>

-----------------------------------------------------------------------------
DetectRocksDBDir ==
  /\ command = "dremio.conf"
  /\ \E ok \in BOOLEAN :
       /\ Fares(info.confDir \in machine.full, ok)
       /\ info' = [info EXCEPT !.rocksDBDir = IF ok THEN machine.rocksDBDir ELSE "none"]
  /\ command' = "tools"
  /\ UNCHANGED <<discoveryArgs, candidates, procInfo>>

\* probeChecksumTool and probeGzip.
ProbeTools ==
  /\ command = "tools"
  /\ \E seen \in SUBSET (machine.has \cap {"sha256sum", "md5sum", "gzip"}) :
       info' = [info EXCEPT
         !.gzip = "gzip" \in seen,
         !.checksumTool = IF "sha256sum" \in seen THEN "sha256sum"
                          ELSE IF "md5sum" \in seen THEN "md5sum" ELSE "none"]
  /\ command' = "end"
  /\ UNCHANGED <<discoveryArgs, candidates, procInfo, failed>>

EndDiscovery ==
  /\ command = "end"
  /\ command' = IF info.pid = 0 /\ info.logDir = "none" /\ info.confDir = "none"
                THEN "error" ELSE "ok"
  /\ UNCHANGED <<discoveryArgs, candidates, procInfo, info, failed>>

Discovered == command \in {"ok", "error"}

DINext == \/ Jcmd \/ PgrepExact \/ PgrepFull \/ ReadProcessInfo \/ ProbeLogDir \/ ProbeConfDir
        \/ ListLogs \/ ListConf \/ DetectRocksDBDir \/ ProbeTools \/ EndDiscovery

DISpec == DIInit /\ [][DINext]_diVars

-----------------------------------------------------------------------------
(***************************************************************************)
(* Properties.                                                             *)
(***************************************************************************)
\* The server is the only JVM that the first working tool can mean.
Unambiguous ==
  LET servers == {i \in DOMAIN Jvms : Jvms[i].server}
  IN  /\ servers # {}
      /\ \/ "jcmd" \in machine.has /\ \A i \in DOMAIN Jvms : Jvms[i].dremio => i \in servers
         \/ "pgrep" \in machine.has /\ DOMAIN Jvms = servers

(* The directory of the last log path, those of the command line before     *)
(* those of the environment.                                                *)
ServerLogDir ==
  LET source == IF Occurrences(machine.environ, LogPath) # {}
                THEN machine.environ ELSE machine.cmdline
  IN  source[LastOccurrence(source, LogPath)].value

(* The logs that are collected are those of the server, in the directory    *)
(* its last -Ddremio.log.path names: one with files wins over DREMIO_LOG_DIR *)
(* and over the well-known ones, whichever tools the host has, as long as   *)
(* their commands work.  The JVM uses the last option of its command line.  *)
(* An environment that names another one wins over that, with ps as with    *)
(* /proc: then these are not the logs that the server writes.               *)
LogsOfServer ==
  /\ Discovered /\ failed = {} /\ logDirFlag = "none"
  /\ Unambiguous /\ Occurrences(machine.cmdline, LogPath) # {}
  => /\ IsServer(info.pid)
     /\ ServerLogDir \in machine.full => info.logDir = ServerLogDir
=============================================================================
