SPECIFICATION Spec
CONSTANTS
  Consumers = {c1, c2}
  Size = 2
  MaxSeq = 4
  RegisterWhileClaiming = TRUE
PROPERTY ClaimBehindGating
CHECK_DEADLOCK FALSE
