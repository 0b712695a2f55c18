SPECIFICATION Spec
CONSTANTS
  n1 = n1
  n2 = n2
  Workers <- TwoNodes
  Capacity = 2
INVARIANT IdleDisplayIsZero
