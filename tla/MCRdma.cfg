CONSTANTS
  Size = 3
  MaxGap = 1
  Iters = 2
SPECIFICATION Spec
CHECK_DEADLOCK FALSE
INVARIANTS OvertakingIsPaid NeverStuck
