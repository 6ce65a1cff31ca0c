SPECIFICATION ClientsSpec
CONSTANTS
  Messages = {m1, m2}
  Reactors = {u}
  Jobs = {j1, j2}
  Nobody = Nobody
  MaxPins = 1
  MaxRequests = 2
  MaxFaults = 2
  s1 = s1
  s2 = s2
  Sockets = {s1, s2}
  Pods = {"pod1", "pod2"}
  Where <- TwoPods
  Login <- OneLogin
  NoLogin = NoLogin
  Mobile = {s1, s2}
  NoSocket = NoSocket
  MaxMishaps = 1
SYMMETRY Symmetric
INVARIANTS OriginalKept PinLimitKept PinnedListFresh ClientsCatchUp UnsyncedIsDirty ConnectedIsKnown OneTab GoneIsShown
CHECK_DEADLOCK FALSE
