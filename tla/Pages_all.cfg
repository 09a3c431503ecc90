CONSTANTS
  Subject = {"s1", "s2"}
  Filter = {"f1", "f2", "f3"}
  NodeFilter = {"f3"}
  Slot = {1, 2}
  Node = {"n1", "n2"}
  GrpcNode = {"n1"}
  Key = {"k1"}
  Foreign = "n3"
SPECIFICATION MCSpec
INVARIANT SettledSectionAnswersTheAddress
INVARIANT CursorIsOfTheList
INVARIANT RefreshingListIsAskedOnce
INVARIANT PartiesPageAgrees
INVARIANT AddressTellsTheFilters
PROPERTY RedirectsWhereAsked
PROPERTY EditsChangeOneFilter
