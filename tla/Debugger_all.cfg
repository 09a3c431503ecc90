CONSTANTS
  c1 = c1
  c2 = c2
  Loads = {l1, l2}
  Acts = {a1}
  Caller <- MCCaller
  GrpcNodes <- MCNodes
  MaxSessions = 2
  MaxStores = 3
  Update = {"u1"}
  MaxStep = 1
SPECIFICATION MCSpec
SYMMETRY Slots
CHECK_DEADLOCK FALSE
INVARIANT ReplaySeesItsMoment
INVARIANT EventsAreOfShownSession
INVARIANT SettledAddressIsShown
PROPERTY ImplementsDebugSessions
