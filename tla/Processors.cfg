SPECIFICATION Spec
CONSTANTS
  N = 2
  Upstream <- ChainOfTwo
  Policy <- CustomThenRetry
  Handler <- OwnHandler
  MaxRetries = 1
  Exhausted = "halt"
  Size = 2
  MaxSeq = 2
INVARIANT TypeOK
INVARIANT HaltContained
INVARIANT WaitComplete
INVARIANT RetryBudget
PROPERTY PipelineSpec
CHECK_DEADLOCK FALSE
