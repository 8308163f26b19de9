SPECIFICATION FairSpec
CONSTANTS
    MaxChunks = 3
    ReplayLimit = 2
    TeeLimit = 2
    MaxRedirects = 2
    MaxData = 2
INVARIANTS
  EndsOnce
  ReplayWhole
PROPERTIES
  DispatchEnds
CHECK_DEADLOCK FALSE
