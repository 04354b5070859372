SPECIFICATION FairSpec
CONSTANTS
  N = 3
  Possible <- AllEdges
  Executors = {"inline", "internal", "caller"}
  Workers = 2
  CallerQueue = 0
  NodePolicy <- Mixed
  GraphPolicy = "custom"
  MaxRetries = 1
  Exhausted = "halt"
  NoRoute = "halt"
  Panics = {FALSE}
  MaxEvent = 1
INVARIANT TypeOK
INVARIANT NothingInFlight
INVARIANT NoneLeftWaiting
PROPERTY RoutingSpec
CHECK_DEADLOCK FALSE
PROPERTY EventReturns
