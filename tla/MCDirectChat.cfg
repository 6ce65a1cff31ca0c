SPECIFICATION MCSpec
CONSTANTS
  Users = {alice, bob}
  Writers = {alice}
  NoUser = NoUser
  Workers = {w1, w2}
  MaxJobs = 2
  MaxChats = 1
  MaxFaults = 1
SYMMETRY Symmetric
INVARIANTS FriendsAreWilling BlockStopsMessages StrangersKeptOut
CHECK_DEADLOCK FALSE
