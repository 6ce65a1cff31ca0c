SPECIFICATION FairSpec
CONSTANTS
  alice = alice
  bob = bob
  carol = carol
  v1 = v1
  v2 = v2
  NoCall = NoCall
  NoUser = NoUser
  NoStart = NoStart
  Convs = {v2}
  Starts <- OneGroup
  Calls = {1}
  Handlers = {h1}
  Cleaners = {t1}
  MaxFaults = 1
  MaxExpiries = 0
INVARIANTS RingsForSomebody EndIsShown
PROPERTIES RingingEnds TerminalIsFinal
