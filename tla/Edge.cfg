SPECIFICATION EdgeSpec
CONSTANTS
  PodSets <- SomePods
  HostLists <- SomeHosts
  NodeFlags <- SomeFlags
  MaxChoices = 1
  Outputs <- SomeOutputs
  PipeSize = 2
  MaxToken = 3
  Namespaces <- SomeNamespaces
  Resources <- SomeResources
  LogSets <- SomeLogs
  MaxProfiles = 2
  Machines <- SomeMachines
  LogDirCandidates <- SomeLogDirs
  ConfDirCandidates <- SomeConfDirs
  Clusters <- SomeClusters
  Speeches <- SomeSpeeches
INVARIANTS
  LinesInOrder
  LinesWhole
  RestartEvidence
  ExcludedNotDownloaded
  LogsOfServer
  UnsetFlagsFollowTheMode
  NodesAsChosen
PROPERTIES
  CommandReturns
