SPECIFICATION Spec
CONSTANTS
  n1 = n1
  n2 = n2
  Nodes <- TwoNodes
  Threads = 2
  Requests <- JustStandard
PROPERTY FinalStatusKept
