SPECIFICATION Spec
CONSTANTS
  n1 = n1
  n2 = n2
  Nodes <- TwoNodes
  Threads = 2
  Requests <- ExtrasApart
SYMMETRY NodeSymmetry
INVARIANTS
  ProgressWithinTotal
  ProgressAccounted
  OneVerdictPerNode
  DiscoveryFailuresShown
PROPERTIES
  SummaryIsFinal
  ImplementsContract
