SPECIFICATION FairSpec
CONSTANTS
  p1 = p1
  p2 = p2
  c1 = c1
  c2 = c2
  Producers = {p1, p2}
  Consumers = {c1}
  Upstream <- Alone
  Size = 1
  MaxSeq = 1
PROPERTY CallsReturn
PROPERTY CancelReturns
PROPERTY Delivered
PROPERTY StopEnds
CHECK_DEADLOCK FALSE
