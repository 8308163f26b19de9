SPECIFICATION LeasedFairSpec
CONSTANTS
    MaxData = 2
    MaxLate = 1
INVARIANTS
  LeaseContract
  EndMeansWholeUnlessCut
  AbortReachesLease
PROPERTIES
  BrokerSettles
CHECK_DEADLOCK FALSE
