CONSTANTS
  Size = 2
  MaxGap = 1
  Iters = 4
SPECIFICATION FairSpec
CHECK_DEADLOCK FALSE
INVARIANTS LagBounded
PROPERTIES RefinesGapWindow AllDone
