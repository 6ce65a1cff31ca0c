SPECIFICATION Spec
CONSTANTS
  alice = alice
  bob = bob
  carol = carol
  v1 = v1
  v2 = v2
  NoCall = NoCall
  NoUser = NoUser
  NoStart = NoStart
  Convs = {v1}
  Starts <- TwoDirect
  Calls = {1, 2}
  Handlers = {h1, h2}
  Cleaners = {}
  MaxFaults = 0
  MaxExpiries = 0
SYMMETRY Symmetric
INVARIANTS OneHistoryEntry OverMeansLeft NobodyInTwoCalls
PROPERTIES TerminalIsFinal
