SPECIFICATION WorkSpec
CONSTANTS
  Hosts <- TwoHosts
  Plans <- FewPlans
  FileLists <- FewLists
  Arguments <- FewArguments
  Today = 5
  RecordStreams <- FewStreams
  RocksItems <- FewItems
INVARIANTS
  CollectedIsWhole
  NoUnexplainedFile
  SecretsStayAway
  TextSettles
  ToolsAccounted
  RemoteCleaned
  DaysComplete
  ViewerRemoved
PROPERTIES
  TransfersEnd
  JvmEnds
  ImplementsContract
