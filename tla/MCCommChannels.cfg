CONSTANTS
  Node = {n1}
  NChan = 2
  Thread = {"w1"}
  WorkerOf <- OneWorker
  FlushSize = 2
  Batched = TRUE
  MaxLog = 1
  MaxSync = 2
SPECIFICATION FairSpec
CHECK_DEADLOCK FALSE
INVARIANTS SendDoneSound
PROPERTIES ChannelsRefine DataHandled
