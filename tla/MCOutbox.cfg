SPECIFICATION FairSpec
CONSTANTS
  Events = {1, 2}
  Procs = {p1, p2}
  NoProc = NoProc
  NoEvent = NoEvent
  MaxRetries = 1
  BatchSize = 1
  MaxFaults = 1
INVARIANTS CompletedWasDelivered OwnedCopyIsFresh
PROPERTIES ImplementsContract EventuallySettled
