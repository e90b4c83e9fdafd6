CONSTANTS
  Node = {n1}
  NChan = 2
  Thread = {"w1", "w2"}
  WorkerOf <- WorkerPerChannel
  FlushSize = 2
  Batched = TRUE
  MaxLog = 0
  MaxSync = 1
SPECIFICATION Spec
CHECK_DEADLOCK FALSE
INVARIANTS SynchronizeGuarantee
