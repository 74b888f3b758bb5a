SPECIFICATION Spec
CONSTANTS
    a = a
    b = b
    c = c
    q1 = q1
    q2 = q2
    CoreSet = {q1, q2}
    MulWorkers = {q1, q2}
    Peers = {a, b, c}
    Listener = L
    Programs <- MCPrograms
    Kids = 2
    Cos = {a, b}
    TurnBound = 3
    Plans <- MCPlans
    Names = 3
    DnsAnswers <- MCDnsAnswers
    Batch = 2
    Seconds = 2
    Trips <- MCTrips
CHECK_DEADLOCK FALSE
INVARIANTS
  LoopSound
  WebReactorSound
  UringSound
  ThreadsSound
  HookSound
  HttpEpollSound
  MulPortSound
  AskersSound
PROPERTIES
  EveryoneServed
