SPECIFICATION FairSpec
CONSTANTS
  p1 = p1
  c1 = c1
  c2 = c2
  c3 = c3
  e1 = e1
  e2 = e2
  e3 = e3
  Pairs = {p1}
  Calls = {c1, c2}
  CallPair <- MCCallPair
  Decisions = {e1, e2, e3}
  None = None
  AllowTtl = 3
  DenyTtl = 1
  Ttls = {0, 1, 4}
  MaxSafe = 4
  Forever = 9
  MaxTime = 2
  MaxGeneration = 1
INVARIANTS
  CacheIsCurrent
  SingleFlight
PROPERTIES
  AllowedIsCurrent
  AnsweredCallSettles
