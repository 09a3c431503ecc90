CONSTANTS
  Kind = {"create", "exercise"}
  Party = {"p1", "p2"}
  Filters = {{"template"}, {"template", "p1"}, {"p1", "p2"}}
  Limit = 1
  Cursors = {1}
  MaxPosition = 4
  Contract = {"c1", "c2"}
  Synchronizer = {"s1", "s2"}
  Member = {"m1"}
  Package = {"k1", "k2"}
  MaxOffset = 2
  Node = {1, 2}
  MaxUpdates = 4
  MaxContracts = 4
  Views <- SomeViews
  Amounts = {1, 2}
  MaxItems <- FewItems
  Untimed = {2}
SPECIFICATION MCSpec
CHECK_DEADLOCK FALSE
INVARIANT ListingsAreComplete
INVARIANT HoldingsOfOneMoment
INVARIANT TopologyRowsAgree
INVARIANT PageIsOfAllMatching
INVARIANT WalksAreComplete
INVARIANT RowsCountOnce
