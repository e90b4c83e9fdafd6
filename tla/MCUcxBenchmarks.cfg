CONSTANTS
  CommSize = 3
  MaxRank = 3
  MaxLine = 2
  Iters = 2
  BuffSize = 4
  ChunkSizes = {3, 4}
  Word = 1
  PacketSize <- Uneven
  IntRange = 4
  Tried <- Plain
SPECIFICATION FairSpec
CHECK_DEADLOCK FALSE
INVARIANTS MemoryIsThere CompleteIsAllToAll
PROPERTIES MutualRoutesFinish
