SPECIFICATION Spec
CONSTANTS
  p1 = p1
  p2 = p2
  c1 = c1
  c2 = c2
  Producers = {p1, p2}
  Consumers = {c1, c2}
  Upstream <- Chain
  Size = 2
  MaxSeq = 2
SYMMETRY Symmetry
INVARIANT NoLostWakeup
INVARIANT DependenciesFirst
CHECK_DEADLOCK FALSE
