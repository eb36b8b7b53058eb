SPECIFICATION FairSpec
CONSTANTS
  k1 = k1
  k2 = k2
  Keys <- MCKeys
  Callers = {1, 2, 3}
  Requests <- MCRequests
INVARIANTS
  StaleIsExplained
PROPERTY StaleEnds
CHECK_DEADLOCK FALSE
