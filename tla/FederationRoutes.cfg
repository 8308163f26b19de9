SPECIFICATION FederationSpec
CONSTANTS
    Hosts = {1, 2, 3}
    Links <- Line
    Aliased <- FirstLink
    Home <- AtLast
    MaxHop = 2
    MaxSeen = 1
    MaxChanges = 2
    MaxSessions = 2
    MaxDials = 3
    MaxFaults = 2
INVARIANTS
  RoutesLeadHome
  Converged
  BrokerKnows
  ImportsHaveLink
CHECK_DEADLOCK FALSE
