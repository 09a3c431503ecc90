SPECIFICATION MCSpec
CONSTANTS
  v1 = v1
  v2 = v2
  Price = {2}
  MaxDay = 3
  MaxGap = 2
  Paid = {1}
  Amulet = {1}
  Bought = {16}
  N = 2
  Limit = 1
  PurchaseCap = 1
  Feeds = {"updates", "contracts", "purchases"}
  MaxTime = 3
  MaxArrivals = 1
  MaxFailures = 1
INVARIANT OpenedPageIsNewest
INVARIANT NewerPageIsAdjacent
PROPERTY ImplementsFeedPager
INVARIANT EstimatesAreOfNearestDay
PROPERTY EveryRequestEnds
