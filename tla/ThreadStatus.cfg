SPECIFICATION FairSpec
CONSTANTS
  n1 = n1
  n2 = n2
  Workers <- TwoNodes
  Capacity = 1
INVARIANTS
  TypeOK
  BoundedParallelism
  CountersTrackGoroutines
  DisplayWithinNodes
  NothingShownDuringJvm
PROPERTIES
  ImplementsPool
  ReachesRest
