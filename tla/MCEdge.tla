------------------------------- MODULE MCEdge -------------------------------
(* The parts at the edge of the collection, for TLC: a behaviour is one     *)
(* command of the cli, one operation of the Kubernetes API transport, one   *)
(* collection of cluster data or of profiles, one discovery, the settings   *)
(* of one run, or its choice of nodes; the other modules are at their end.  *)
EXTENDS MCNodeSelection, Settings, CliExec, ClusterData, ProfileCollection,
        Discovery, KubeTransport

-----------------------------------------------------------------------------
Streamed(out, err) == [p \in {"stdout", "stderr"} |-> IF p = "stdout" THEN out ELSE err]
SomeOutputs == {Streamed(<<1, 3, 4>>, <<>>), Streamed(<<2, 3>>, <<1, 3>>),
                Streamed(<<1, 5, 6>>, <<1>>), Streamed(<<3>>, <<3, 4>>)}

-----------------------------------------------------------------------------
Pod(name, running, containers) ==
  [name |-> name, running |-> running, containers |-> containers]
SomeClusters ==
  {{Pod("dremio-master-0", TRUE, <<"sidecar", "dremio-master-coordinator">>),
    Pod("dremio-executor-0", TRUE, <<"dremio-executor", "sidecar">>),
    Pod("dremio-executor-1", FALSE, <<"dremio-executor">>)},
   {Pod("zk-0", TRUE, <<"zk">>), Pod("other-0", TRUE, <<"agent", "my-dremio">>)}}
Spoken(out, err) == [s \in {"out", "err"} |-> IF s = "out" THEN out ELSE err]
Said(length, newlines) == [length |-> length, newlines |-> newlines]
SomeSpeeches ==
  {Spoken(Said(7, <<3, 5, 6>>), Said(0, <<>>)), Spoken(Said(0, <<>>), Said(4, <<2, 4>>)),
   Spoken(Said(3, <<2>>), Said(3, <<2>>))}

-----------------------------------------------------------------------------
Server(init, main) ==
  [name |-> "server", labelled |-> TRUE, containers |-> <<"main">>, inits |-> <<"init">>,
   restarts |-> [c \in {"main", "init"} |-> IF c = "init" THEN init ELSE main]]
Helper(n) == [name |-> "helper", labelled |-> FALSE, containers |-> <<"help">>,
              inits |-> <<>>, restarts |-> [c \in {"help"} |-> n]]
SomeNamespaces == {<<Server(0, 1), Helper(1)>>, <<Server(1, 0)>>, <<Server(2, 1)>>}
SomeResources == <<"pods", "daemonset", "pv">>

-----------------------------------------------------------------------------
Line(reports, excludes, time) ==
  [reports |-> reports, excludes |-> excludes, time |-> time, long |-> FALSE]
LongLine == [Line({}, {}, 0) EXCEPT !.long = TRUE]
SomeLogs == {<<>>, <<<<LongLine, Line({1}, {}, 1)>>>>,
            <<<<Line({1}, {}, 3), Line({2}, {}, 4)>>, <<Line({}, {1}, 4), Line({2}, {}, 5)>>>>,
            <<<<Line({}, {3}, 1), Line({1}, {}, 2)>>, <<Line({3, 2}, {}, 2), Line({4}, {2}, 3)>>,
              <<Line({5}, {}, 9)>>>>}

-----------------------------------------------------------------------------
Setting(key, value) == [key |-> key, value |-> value]
Jvm(p, dremio, server) == [pid |-> p, dremio |-> dremio, server |-> server]
File(dir, name, deep, allowed, hidden) ==
  [dir |-> dir, name |-> name, deep |-> deep, allowed |-> allowed, hidden |-> hidden]
Machine(jvms, has) ==
  [jvms |-> jvms, has |-> has, rocksDBDir |-> "/data/db",
   cmdline |-> <<Setting("-Ddremio.log.path", "/logs"), Setting("-Ddremio.log.path", "/extra")>>,
   environ |-> <<Setting("DREMIO_LOG_DIR", "/logs"), Setting("-Ddremio.log.path", "/extra")>>,
   full |-> {"/logs", "/extra", "/var/log/dremio", "/etc/dremio", "/given"},
   files |-> {File("/extra", "server.log", FALSE, FALSE, FALSE),
              File("/extra", "old.log", TRUE, FALSE, FALSE),
              File("/given", "server.log", FALSE, FALSE, FALSE),
              File("/etc/dremio", "dremio.conf", FALSE, TRUE, FALSE),
              File("/etc/dremio", "notes", FALSE, FALSE, FALSE)}]
Every == {"jcmd", "pgrep", "ps", "stat", "gzip"}
SomeMachines ==
  {Machine(<<Jvm(1, TRUE, TRUE)>>, Every),
   Machine(<<Jvm(1, FALSE, FALSE), Jvm(7, TRUE, TRUE)>>, Every \ {"stat"}),
   Machine(<<Jvm(7, TRUE, TRUE)>>, {"pgrep", "stat", "md5sum", "sha256sum"}),
   [Machine(<<Jvm(7, TRUE, TRUE)>>, Every) EXCEPT
      !.environ = <<Setting("DREMIO_LOG_DIR", "/logs")>>,
      !.cmdline = <<Setting("-Ddremio.log.path", "/empty")>>],
   [Machine(<<Jvm(7, TRUE, TRUE)>>, {"pgrep", "stat"}) EXCEPT
      !.environ = <<Setting("-Ddremio.log.path", "/extra"), Setting("-Ddremio.log.path", "/given")>>],
   Machine(<<>>, Every)}
SomeLogDirs == <<"/var/log/dremio", "/opt/dremio/log">>
SomeConfDirs == <<"/opt/dremio/conf", "/etc/dremio">>

-----------------------------------------------------------------------------
NoCli ==
  /\ output = Streamed(<<>>, <<>>) /\ child = "exited" /\ call = "ok" /\ handled = Streamed(<<>>, <<>>)
  /\ written = Streamed(0, 0) /\ taken = Streamed(0, 0) /\ scanner = Streamed("done", "done")
NoKube ==
  /\ kubePods = {} /\ speech = Spoken(Said(0, <<>>), Said(0, <<>>)) /\ op = "read" /\ exec = "ok"
  /\ kubeFound = [coordinators |-> {}, executors |-> {}] /\ minutes = 30
  /\ target = "none" /\ cache = <<>> /\ heard = Spoken(0, 0)
  /\ used = Spoken(0, 0) /\ at = Spoken("between", "between")
  /\ partial = <<>> /\ emitted = <<>> /\ status = "none" /\ archiver = "off"
NoCluster ==
  /\ podList = <<>> /\ selector = FALSE /\ containerLogs = FALSE /\ clusterStage = "over"
  /\ resources = <<>> /\ objects = <<>> /\ listed = {} /\ podsToGo = <<>> /\ wanted = <<>>
  /\ logs = <<>> /\ unserved = {}
NoProfiles ==
  /\ serverLogs = <<>> /\ diagnosis = FALSE /\ token = FALSE /\ step = "ok"
  /\ scanned = 0 /\ matches = <<>> /\ exclusions = {} /\ failedScans = {}
  /\ jobs = <<>> /\ tried = 0 /\ downloaded = {}
NoHost ==
  /\ machine = Machine(<<>>, {}) /\ logDirFlag = "none" /\ confDirFlag = "none"
  /\ command = "error" /\ candidates = <<>> /\ procInfo = <<>> /\ info = <<>> /\ failed = {}
NoForm ==
  /\ mode = "standard" /\ connection = "ssh" /\ withForm = FALSE /\ given = <<>>
  /\ chosen = {} /\ global = <<>> /\ before = Nothing /\ phase = "off"
  /\ effect = Nothing
NoNodes ==
  /\ transport = "ssh" /\ form = FALSE /\ flags = [include |-> {}, exclude |-> {}]
  /\ pods = {} /\ hosts = Nobody /\ offered = Nobody /\ kept = {} /\ nodesFlag = {}
  /\ stage = "error" /\ goroutine = <<>> /\ containerNames = <<>>
  /\ unanswered = Nobody /\ found = Nobody /\ selected = Nobody

edgeVars == <<ceVars, ktVars, cdVars, pcVars, diVars, stVars, vars>>

EdgeInit ==
  \/ CEInit /\ NoKube /\ NoCluster /\ NoProfiles /\ NoHost /\ NoForm /\ NoNodes
  \/ NoCli /\ KTInit /\ NoCluster /\ NoProfiles /\ NoHost /\ NoForm /\ NoNodes
  \/ NoCli /\ NoKube /\ CDInit /\ NoProfiles /\ NoHost /\ NoForm /\ NoNodes
  \/ NoCli /\ NoKube /\ NoCluster /\ PCInit /\ NoHost /\ NoForm /\ NoNodes
  \/ NoCli /\ NoKube /\ NoCluster /\ NoProfiles /\ DIInit /\ NoForm /\ NoNodes
  \/ NoCli /\ NoKube /\ NoCluster /\ NoProfiles /\ NoHost /\ STInit /\ NoNodes
  \/ NoCli /\ NoKube /\ NoCluster /\ NoProfiles /\ NoHost /\ NoForm /\ Init

Ended ==
  /\ CEReturned /\ KTReturned /\ Over /\ Finished
  /\ Discovered /\ (Settled \/ phase = "off") /\ Chosen

EdgeNext ==
  \/ CENext /\ UNCHANGED <<ktVars, cdVars, pcVars, diVars, stVars, vars>>
  \/ KTNext /\ UNCHANGED <<ceVars, cdVars, pcVars, diVars, stVars, vars>>
  \/ CDNext /\ UNCHANGED <<ceVars, ktVars, pcVars, diVars, stVars, vars>>
  \/ PCNext /\ UNCHANGED <<ceVars, ktVars, cdVars, diVars, stVars, vars>>
  \/ DINext /\ UNCHANGED <<ceVars, ktVars, cdVars, pcVars, stVars, vars>>
  \/ STNext /\ UNCHANGED <<ceVars, ktVars, cdVars, pcVars, diVars, vars>>
  \/ Next /\ UNCHANGED <<ceVars, ktVars, cdVars, pcVars, diVars, stVars>>
  \/ Ended /\ UNCHANGED edgeVars

EdgeSpec == EdgeInit /\ [][EdgeNext]_edgeVars /\ CEFairness
=============================================================================
