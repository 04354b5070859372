SPECIFICATION Spec
CONSTANTS
  N = 2
  Possible <- AllEdges
  Executors = {"internal"}
  Workers = 2
  CallerQueue = 0
  NodePolicy <- NoHandlers
  GraphPolicy = "fatal"
  MaxRetries = 0
  Exhausted = "halt"
  NoRoute = "halt"
  Panics = {FALSE, TRUE}
  MaxEvent = 0
INVARIANT NothingInFlight
CHECK_DEADLOCK FALSE
