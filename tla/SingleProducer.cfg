SPECIFICATION FairSpec
CONSTANTS
  Consumers = {c1, c2}
  Size = 2
  MaxSeq = 4
  RegisterWhileClaiming = FALSE
INVARIANT ReadIntact
INVARIANT CacheConservative
PROPERTY LogSpec
PROPERTY Delivered
PROPERTY CallsReturn
CHECK_DEADLOCK FALSE
