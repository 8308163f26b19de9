SPECIFICATION FairSpec
CONSTANTS
  g1 = g1
  g2 = g2
  l1 = l1
  l2 = l2
  l3 = l3
  r1 = r1
  r2 = r2
  r3 = r3
  Guests = {g1, g2}
  Leases = {l1, l2, l3}
  LeaseIds = {1, 2}
  Requests = {r1, r2}
  FederatedRequests = {r2}
  LeaseGuest <- MCLeaseGuest
  LeaseId <- MCUniqueIds
  Target <- MCTarget
  NoLease = NoLease
INVARIANTS
  LeaseUsedOnce
  NoIdleWhileQueued
  QueuedTargetRegistered
PROPERTIES
  AcquisitionSettles
  DeadLeaseReturned
