SPECIFICATION FairSpec
CONSTANTS
  n1 = n1
  n2 = n2
  Nodes <- TwoNodes
  Threads = 1
  Requests <- NoneOrAll
INVARIANT TypeOK
PROPERTY Returns
