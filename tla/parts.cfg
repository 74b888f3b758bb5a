SPECIFICATION Spec
CONSTANTS
  e1 = e1
  e2 = e2
  p1 = p1
  p2 = p2
  x1 = x1
  x2 = x2
  x3 = x3
  Bufs = {e1, e2}
  Frames <- MCFrames
  Known = {e1, e2}
  PathBurst = 2
  PathRing = 1
  MaxFrames = 2
  MaxSends = 1
  Clients = {e1, e2}
  Procs = {p1, p2}
  MaxFd = 2
  Requests = 1
  Setups <- MCSetups
  Visitors = {e1, e2}
  Cores = {p1, p2}
  Sites <- MCSites
  Convs = {e1, e2}
  Addrs = {x1, x2, x3}
  KeepAlive = 1
  MaxSessions = 3
  MaxRoams = 1
  Workers = {p1, p2}
  PoolTasks = {e1, e2}
  Threads = {p1, p2}
  Rounds = 3
INVARIANTS
  PathSound
  NtySound
  
  RoomSound
  PoolSound
PROPERTIES
  CountsEachTurn
  EveryoneGetsTheirs
CHECK_DEADLOCK FALSE
