SPECIFICATION ArraySpec
CONSTANTS
  k1 = k1
  k2 = k2
  k3 = k3
  v1 = v1
  v2 = v2
  NULL = NULL
  WILD = WILD
  Keys <- MCKeys
  Vals <- MCVals
  SIZE = 3
  FreshWords <- AnyWords
  MallocMayFail = TRUE
CHECK_DEADLOCK FALSE
INVARIANTS
  KeysUnique
  LedgerExact
PROPERTIES
  ImplementsMap
  HealthyImplementsMap
