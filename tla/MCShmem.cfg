CONSTANTS
  Size = 3
  MaxGap = 0
  Iters = 2
SPECIFICATION ShmemFairSpec
CHECK_DEADLOCK FALSE
INVARIANTS EverySendReceived
PROPERTIES InStep AllDone
