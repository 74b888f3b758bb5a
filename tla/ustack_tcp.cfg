SPECIFICATION FairSpec
CONSTANTS
  Clients = {a, b}
  MaxData = 2
  MaxBusy = 1
  NONE = NONE
  PoliteModes = {"once", "epoll"}
  TogetherModes = {"once"}
  HastyModes = {"epoll"}
CHECK_DEADLOCK FALSE
INVARIANTS
  StackSound
  EchoesInOrder
PROPERTIES
  FreedAfterBothFins
  Served
