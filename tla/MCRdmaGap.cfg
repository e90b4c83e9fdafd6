CONSTANTS
  Size = 3
  MaxGap = 1
  Iters = 3
SPECIFICATION Spec
CHECK_DEADLOCK FALSE
INVARIANT DelaysUntilGap
