SPECIFICATION FairSpec
CONSTANTS
  p1 = p1
  p2 = p2
  c1 = c1
  c2 = c2
  Producers = {p1, p2}
  Consumers = {c1, c2}
  Size = 2
  MaxSeq = 2
  None = None
INVARIANT TypeOK
INVARIANT ReadIntact
INVARIANT NothingHidden
PROPERTY WindowKept
PROPERTY LapsOnlyUngated
PROPERTY LogSpec
PROPERTY Delivered
PROPERTY CallsReturn
CHECK_DEADLOCK FALSE
