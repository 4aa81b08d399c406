SPECIFICATION Spec
CONSTANTS
  Names = {"a", "b", "c"}
  Universe = {"b", "c"}
  Holdable = {"a"}
  Pinnable = {"b"}
  Limit = 2
  Requests = {"r"}
  MaxEvents = 2
CHECK_DEADLOCK FALSE
INVARIANTS
  WireAgrees
  SubscribedIsDescribed
PROPERTIES
  StreamComesBack
  WindowReachesFeed
