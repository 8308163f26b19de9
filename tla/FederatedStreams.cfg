SPECIFICATION FairSpec
CONSTANTS
  f1 = f1
  f2 = f2
  f3 = f3
  r1 = r1
  r2 = r2
  Streams = {f1, f2, f3}
  Requests = {r1, r2}
  LocalRequests = {r2}
  None = None
  MinWaiting = 1
  MaxOpen = 2
  MaxQueued = 1
INVARIANTS
  NoStreamLost
  StreamWaitersServed
PROPERTIES
  SingleUse
  PoolRefills
