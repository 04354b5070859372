SPECIFICATION Spec
CONSTANTS
  N = 2
  Upstream <- ChainOfTwo
  Policy <- FatalThenRetry
  Handler <- OwnHandler
  MaxRetries = 1
  Exhausted = "halt"
  Size = 2
  MaxSeq = 0
INVARIANT NeverCrashes
CHECK_DEADLOCK FALSE
