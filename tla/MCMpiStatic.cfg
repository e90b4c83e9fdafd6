CONSTANTS
  Node = {n1, n2, n3}
  MaxGap = 1
  Iters = 3
  Static = TRUE
SPECIFICATION Spec
CHECK_DEADLOCK FALSE
INVARIANTS LatestIsHere
