SPECIFICATION SafeSpec
CONSTANTS
  c1 = c1
  c2 = c2
  k1 = k1
  v1 = v1
  NONE = NONE
  Absent = Absent
  JUNK = JUNK
  Clients <- MCClients
  Keys <- MCKeys
  Vals <- MCVals
  Requests <- MCRequests
  MaxFd = 2
  MaxPending = 2
CHECK_DEADLOCK FALSE
INVARIANTS
  UringSound
  FdsSound
PROPERTIES
  ReactorImplementsService
