SPECIFICATION FairSpec
CONSTANTS
  Workers = {w1}
  Jobs = {j1, j2}
  Runs = {r1}
  NoJob = NoJob
  MaxCalls = 2
  MaxRetries = 2
  MaxFaults = 1
INVARIANTS ReadyIsComplete DeletedLeavesNoOriginal
PROPERTIES FailedIsRetried ProcessingEnds
CHECK_DEADLOCK FALSE
