CONSTANTS
  Size = 3
  MaxGap = 0
  Iters = 2
SPECIFICATION ShmemSpec
CHECK_DEADLOCK FALSE
INVARIANT WaitedFor
