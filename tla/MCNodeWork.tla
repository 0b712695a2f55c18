----------------------------- MODULE MCNodeWork -----------------------------
(* The work on one node, or on two at a time, for TLC: a behaviour is one   *)
(* transfer of a list of files, one run of the JVM phases, or one run of    *)
(* rocksdb-viewer; the modules that do not take part are at their end.      *)
EXTENDS JvmCollection, StreamFile, RocksCollect

-----------------------------------------------------------------------------
Log(dir, base, family, date) ==
  [dir |-> dir, base |-> base, family |-> family, kind |-> "log",
   secret |-> FALSE, empty |-> FALSE, date |-> date, mod |-> date]
ServerLog == Log("log", "server.log", "server", 0)
ArchivedLog == Log("archive", "server.log", "server", 0)
OldLog == Log("archive", "server.1.log", "server", 1)
Audit == Log("log", "audit.log", "audit", 0)
Keystore == [Log("conf", "keystore.jks", "other", 0) EXCEPT !.kind = "config", !.secret = TRUE]
LogKeystore == [Log("log", "server.jks", "server", 0) EXCEPT !.secret = TRUE]
Config == [Log("conf", "dremio.conf", "other", 0) EXCEPT !.kind = "config"]
Queries == [Log("log", "queries.json", "queries", 0) EXCEPT !.kind = "queries"]
GcLog == [Log("log", "gc.log", "gc", 0) EXCEPT !.kind = "gc-log"]
EmptyLog == [ServerLog EXCEPT !.empty = TRUE]

FewLists == {<<ServerLog, Config>>, <<Config, GcLog>>, <<ServerLog, ArchivedLog>>,
             <<Keystore, LogKeystore, Audit, Queries>>, <<OldLog, EmptyLog, ServerLog>>}

StandardRun == [gzip |-> TRUE, diagnosis |-> FALSE, diagLogDays |-> 0, days |-> 3,
                start |-> 0, gcLogs |-> FALSE, disabled |-> {"gc"}]
FewArguments == {StandardRun, [StandardRun EXCEPT !.gzip = FALSE],
                 [StandardRun EXCEPT !.diagnosis = TRUE, !.gcLogs = TRUE,
                                     !.start = 4, !.diagLogDays = 3, !.disabled = {}]}

-----------------------------------------------------------------------------
TwoHosts == {"n1", "n2"}
FewPlans == {[nodes |-> {}, tools |-> {"JFR"}, heapDump |-> TRUE],
             [nodes |-> {"n1"}, tools |-> {"JFR", "jstack"}, heapDump |-> FALSE],
             [nodes |-> {"n1"}, tools |-> {"JFR", "async-profiler"}, heapDump |-> TRUE],
             [nodes |-> {"n1"}, tools |-> {"jstack", "async-profiler"}, heapDump |-> FALSE],
             [nodes |-> TwoHosts, tools |-> {"top"}, heapDump |-> TRUE],
             [nodes |-> {"n1"}, tools |-> {}, heapDump |-> TRUE]}

-----------------------------------------------------------------------------
FewItems == {"cluster_stats", "sys.version"}
FewStreams == {<<>>, <<"d1", "d1", "d2">>, <<"d1", "d2", "d2", "d3">>,
               <<"d1", "unknown", "d1">>}

-----------------------------------------------------------------------------
NoTransfer ==
  /\ args = StandardRun /\ files = <<>> /\ at = 1 /\ step = "select"
  /\ attempt = 0 /\ wire = "none" /\ fed = 0 /\ cut = 0 /\ disk = <<>>
  /\ skipped = {} /\ collected = {} /\ excuse = <<>>
NoJvm ==
  /\ nodes = {} /\ tools = {} /\ heapDump = FALSE /\ phase = "ok"
  /\ host = <<>> /\ asprof = <<>> /\ remote = <<>> /\ tool = <<>>
  /\ active = <<>> /\ view = <<>> /\ shown = <<>> /\ outcome = <<>>
  /\ reported = <<>> /\ tracked = <<>> /\ transfers = 0 /\ excused = <<>>
NoRocks ==
  /\ stage = "done" /\ viewer = FALSE /\ todo = {} /\ lines = <<>> /\ sent = 0
  /\ curDate = "none" /\ dates = <<>> /\ buffer = {} /\ file = <<>>
  /\ writeErr = FALSE /\ items = {} /\ perDay = {} /\ lost = {}

transferVars == <<args, files, at, step, attempt, wire, fed, cut, disk, skipped,
                  collected, excuse>>
jvmVars == <<nodes, tools, heapDump, phase, host, asprof, remote, tool, active,
             view, shown, outcome, reported, tracked, transfers, excused>>
workVars == <<transferVars, jvmVars, rcVars>>

WorkInit == \/ SFInit /\ NoJvm /\ NoRocks
            \/ NoTransfer /\ Init /\ NoRocks
            \/ NoTransfer /\ NoJvm /\ RCInit

Ended == SFDone /\ cut = 0 /\ fed = 0 /\ Done /\ RCDone

WorkNext == \/ SFNext /\ UNCHANGED <<jvmVars, rcVars>>
            \/ Next /\ UNCHANGED <<transferVars, rcVars>>
            \/ RCNext /\ UNCHANGED <<transferVars, jvmVars>>
            \/ Ended /\ UNCHANGED workVars

WorkSpec == WorkInit /\ [][WorkNext]_workVars /\ SFFairness /\ Fairness

=============================================================================
