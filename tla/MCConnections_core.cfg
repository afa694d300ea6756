CONSTANTS
  strict = strict  generous = generous
  NoEntry = NoEntry
  Endpoints <- MCEndpoints
  MaxRequests <- MCMaxRequests
  WindowSeconds <- MCWindowSeconds
  BlockSeconds <- MCBlockSeconds
  TicksPerSecond = 2
  MaxTime = 9
  ch1 = ch1  ch2 = ch2  ch3 = ch3
  Channels = {ch1, ch2, ch3}
  MaxLosses = 2
  NoObject = NoObject
  Pods = {p1, p2}
  Calls = {k1, k2}
  None = None
  AgentPods = {p1}
  Ports = {8001}
  MaxAgents = 2
  MaxConnections = 2
  MaxSecond = 1
SPECIFICATION ConnectionsSpec
CHECK_DEADLOCK FALSE
INVARIANTS
  WindowRespected
  WaitingIsEnough
  HeardUntilFirstLoss
PROPERTIES
  ReconnectsAreComplete
  RegisteredGetsListener
  RemovalsCloseSessions
