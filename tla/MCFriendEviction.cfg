SPECIFICATION DSpec
CONSTANTS
  Users = {alice, bob}
  Writers = {alice}
  NoUser = NoUser
  Workers = {w1}
  MaxJobs = 1
  MaxChats = 1
  MaxFaults = 1
SYMMETRY Symmetric
INVARIANTS RemovalEvicts
CHECK_DEADLOCK FALSE
