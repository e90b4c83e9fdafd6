CONSTANTS
  Node = {n1, n2, n3}
  MaxGap = 1
  Iters = 6
SPECIFICATION FairSpec
CHECK_DEADLOCK FALSE
INVARIANTS PacketsIntact LatestIsLeast MapBounded
PROPERTIES RefinesGapWindow AllDone
