SPECIFICATION FairSpec
CONSTANTS
  m1 = m1
  m2 = m2
  s1 = s1
  s2 = s2
  s3 = s3
  Instances = {c1}
  Partitions = {"system"}
  System = {"system"}
  Log <- SystemLog
  Poison = {s2}
  Jobs = {j1}
  MaxAttempts = 2
  MaxFaults = 1
  MaxLosses = 1
INVARIANTS OffsetsFollowLog CounterCoversDb
PROPERTIES EveryRecordPassed
CHECK_DEADLOCK FALSE
