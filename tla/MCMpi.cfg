CONSTANTS
  Node = {n1, n2, n3}
  MaxGap = 0
  Iters = 3
  Static = FALSE
SPECIFICATION FairSpec
CHECK_DEADLOCK FALSE
INVARIANTS LatestIsHere DoneHasAll
PROPERTIES RefinesGapWindow AllDone
