SPECIFICATION UnbrokenSpec
CONSTANTS
    Hosts = {1, 2, 3}
    Links <- Triangle
    Aliased = {}
    Home <- AtLast
    MaxHop = 16
    MaxSeen = 10000
    MaxChanges = 2
    MaxSessions = 1
    MaxDials = 3
    MaxFaults = 0
INVARIANTS
  RevokedIsWithdrawn
CHECK_DEADLOCK FALSE
