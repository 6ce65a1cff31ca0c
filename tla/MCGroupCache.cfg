SPECIFICATION GSpec
CONSTANTS
 Users = {a, b}
 NoUser = NoUser
 Workers = {w1, w2}
 Conversations = 2
 MaxJobs = 3
 MaxFaults = 1
SYMMETRY Symmetric
INVARIANTS CountSettles RejectedStaysOut CachedAreMembers
CHECK_DEADLOCK FALSE
