CONSTANTS
  c1 = c1
  k1 = k1
  k2 = k2
  Clients = {c1}
  Conns = {k1, k2}
  NoConn = NoConn
  NoClient = NoClient
  InitialAgents = {0, 1}
  Expiring = {c1}
  Lifetime = 0
  MaxAgents = 2
  MaxRound = 2
  MaxGroups = 1
  MaxTime = 2
  MaxSession = 2
  MayKill = TRUE
SPECIFICATION FairSpec
PROPERTIES
  SyncAnswered
  CommitVisible
  ExpiredRemoved
  ImplementsPublishedState
CHECK_DEADLOCK FALSE
