SPECIFICATION SocketFairSpec
CONSTANTS
    HeadUnits = 2
    HeadLimit = 6
    PendingLimit = 7
    BodyMark = 3
    ReadMark = 2
    MaxBodyChunks = 4
    MaxResponse = 3
INVARIANTS
  SocketSound
PROPERTIES
  RequestSettles
CHECK_DEADLOCK FALSE
