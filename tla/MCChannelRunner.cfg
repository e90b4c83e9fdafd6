CONSTANTS
  Node = {n1, n2}
  NChan = 1
  Thread = {"w1"}
  WorkerOf <- OneWorker
  FlushSize = 2
  Batched = FALSE
  MaxLog = 9
  MaxSync = 9
  Iters = 2
  SyncEvery = 2
  Extra <- NoExtra
  RouteOf <- OneWay
SPECIFICATION RunnerFairSpec
CHECK_DEADLOCK FALSE
INVARIANTS TypeOK SynchronizeGuarantee NothingLost ExitsClean IterationsDelivered AllReceived
PROPERTIES ChannelsRefine AllReturn
