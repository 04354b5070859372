SPECIFICATION FairSpec
CONSTANTS
  N = 2
  Upstream <- ChainOfTwo
  Policy <- CustomThenRetry
  Handler <- OwnHandler
  MaxRetries = 1
  Exhausted = "halt"
  Size = 2
  MaxSeq = 0
PROPERTY HaltEndsGraph
PROPERTY WaitReturns
CHECK_DEADLOCK FALSE
