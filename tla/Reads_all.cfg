CONSTANTS
  n1 = n1
  c1 = c1
  c2 = c2
  Node <- MCNode
  GrpcNode <- MCNode
  Caller <- MCCaller
  Peer = {n1, n2, n3}
  GrpcPeer = {n1, n2}
  Configured = {{n1, n2}, {n1, n3}}
  Mixes = {{"tokens"}, {"holders"}, {"transfers"}, {"purchase"}}
  Ttl = 2
  DayLength = 2
  MaxLoad = 1
  MaxTime = 4
SPECIFICATION MCSpec
INVARIANT ServedListIsRecent
INVARIANT SettledTokensAreFresh
INVARIANT FailureIsNotAbsence
INVARIANT FingerprintsOfOneSource
PROPERTY LoadsAreShared
