SPECIFICATION Spec
CONSTANTS
  w1 = w1
  w2 = w2
  Writers <- TwoWriters
INVARIANTS
  TypeOK
  RunOnce
  NothingLeftBehind
  CompletedMeansArchive
PROPERTIES
  SignalEndsProcess
  TransferRemoved
