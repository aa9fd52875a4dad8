CONSTANTS
  c1 = c1
  k1 = k1
  k2 = k2
  Clients = {c1}
  Conns = {k1, k2}
  NoConn = NoConn
  NoClient = NoClient
  InitialAgents = {1}
  Expiring = {}
  Lifetime = 1
  MaxAgents = 1
  MaxRound = 2
  MaxGroups = 1
  MaxTime = 1
  MaxSession = 2
  MayKill = FALSE
SPECIFICATION Spec
INVARIANT OnlyOwnSession
CHECK_DEADLOCK FALSE
