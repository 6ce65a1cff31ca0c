SPECIFICATION Spec
CONSTANTS
  m1 = m1
  m2 = m2
  s1 = s1
  s2 = s2
  s3 = s3
  Instances = {c1, c2}
  Partitions = {"accepted"}
  System = {}
  Log <- OneTopic
  Poison = {}
  Jobs = {}
  MaxAttempts = 2
  MaxFaults = 3
  MaxLosses = 1
SYMMETRY Replicas
INVARIANTS AnnouncedIsStored AnnouncedAtMostOnce PassedIsAccountedFor
CHECK_DEADLOCK FALSE
