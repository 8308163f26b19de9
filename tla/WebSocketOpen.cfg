SPECIFICATION FairSpec
CONSTANTS
    o1 = o1
    o2 = o2
    l1 = l1
    l2 = l2
    p1 = p1
    p2 = p2
    u1 = u1
    None = None
    Opens = {o1, o2}
    Plan <- MCPlan
    Federated = {o2}
    Authorizer = TRUE
    Leases = {l1, l2}
    PoolStreams = {p1, p2}
    UpStreams = {u1}
    MaxIdle = 1
    GuestPool = 2
    MaxWaiters = 1
INVARIANTS
  OpensPaired
  NoStreamLeaked
PROPERTIES
  OpensSettle
CHECK_DEADLOCK FALSE
