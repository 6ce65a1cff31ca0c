SPECIFICATION Spec
CONSTANTS
  Events = {1, 2, 3}
  Procs = {p1}
  NoProc = NoProc
  NoEvent = NoEvent
  MaxRetries = 2
  BatchSize = 2
  MaxFaults = 2
INVARIANTS DuplicateOnlyAfterFailure
PROPERTIES RetryCountNeverFalls
