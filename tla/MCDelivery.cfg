SPECIFICATION FairSpec
CONSTANTS
  alice = alice
  bob = bob
  carol = carol
  m1 = m1
  m2 = m2
  Messages = {m1, m2}
  Users = {alice, bob, carol}
  Sender <- BothWrite
  Instances = {i1,i2}
  Gateways = {g1,g2}
  NoMessage = NoMessage
  MaxPerTick = 2
  MaxRequests = 2
  MaxFaults = 1
INVARIANTS AckedIsOnItsWay
PROPERTIES AckedBecomesKnown
CHECK_DEADLOCK FALSE
