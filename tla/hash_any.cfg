CONSTANTS
  a = a c = c d = d n = n v1 = v1 v2 = v2
  NULL = NULL
  Keys <- MCKeys
  Vals <- MCVals
  SLOTS = 3
  CharSum <- MCCharSum
  MallocMayFail = TRUE
  MaxBlocks = 11
SPECIFICATION Spec
CHECK_DEADLOCK FALSE
INVARIANTS
  ChainsSound
PROPERTIES
  ImplementsMap
