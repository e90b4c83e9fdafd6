CONSTANTS
  Node = {n1, n2}
  MaxLog = 2
  MaxSync = 2
SPECIFICATION FairSpec
CHECK_DEADLOCK FALSE
INVARIANTS TypeOK SyncGuarantee NeverFails ClosedIsFinal
PROPERTIES SyncCompletes EofCloses
