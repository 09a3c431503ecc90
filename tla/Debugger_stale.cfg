CONSTANTS
  c1 = c1
  c2 = c2
  Loads = {l1, l2}
  Acts = {a1}
  Caller <- MCCaller
  GrpcNodes <- MCNodes
  MaxSessions = 2
  MaxStores = 3
  Update = {"u1", "u2"}
  MaxStep = 0
SPECIFICATION MCSpec
CHECK_DEADLOCK FALSE
INVARIANT ShownSessionIsOfTheAddress
