SPECIFICATION StructSpec
CONSTANTS
  c1 = c1
  c2 = c2
  c3 = c3
  v1 = v1
  v2 = v2
  NULL = NULL
  Keys <- ManyKeys
  Vals <- TwoVals
  MallocMayFail = TRUE
  SkipKeys <- FourKeys
  MaxLevel = 2
  Names <- MCNames
  Initial <- MCInitial
  CutName <- MCCut
  MaxPeople = 3
  MaxLines = 2
  Conns = {c1, c2, c3}
  LISTENFD = l
  Fragments <- MCFragments
  MaxEvents = 2
  Hosts = {c1, c2}
  Traffic <- MCTraffic
  Pieces = 2
  RingSize = 2
  BurstSize = 2
  RbKeys <- SevenKeys
  SplayKeys <- FiveKeys
  Elms = {c1, c2, v1, v2}
  Head1 = h1
  Head2 = h2
VIEW StructView
INVARIANTS
  RedBlack
  LinksSound
  PollSound
  UdpSound
PROPERTIES
  ContentsImplementMap
  BookIsSequence
CHECK_DEADLOCK FALSE
