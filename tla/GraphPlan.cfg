SPECIFICATION FairSpec
CONSTANTS
  N = 4
  Possible <- AnyBetween
INVARIANT TypeOK
INVARIANT CycleFound
INVARIANT UpstreamFirst
INVARIANT PlanComplete
INVARIANT GatingCoversAll
PROPERTY HandleGraphReturns
CHECK_DEADLOCK FALSE
