SPECIFICATION PoolFairSpec
CONSTANTS
  s1 = s1
  s2 = s2
  l1 = l1
  l2 = l2
  l3 = l3
  Sessions = {s1, s2}
  Leases = {l1, l2, l3}
  None = None
  MinWaiting = 2
  MaxOpen = 2
INVARIANTS
  PoolKeepsItsSize
PROPERTIES
  CloseReturns
