SPECIFICATION Spec
CONSTANTS
  s1 = s1
  s2 = s2
  Guests = {g1, g2}
  Domains = {d1, d2}
  Sessions = {s1, s2}
  Brokers = {rb, lb}
  LocalBrokers = {lb}
  Registrations <- SomeRoutes
  None = None
  MaxFrames = 2
  g1 = g1
  d1 = d1
  d2 = d2
  rb = rb
  g2 = g2
  lb = lb
INVARIANTS
  NoZombiePeer
  BrokerConverges
  NoStaleDegraded
  WaitersServed
  DegradedIsPending
