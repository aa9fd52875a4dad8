CONSTANTS
  c1 = c1
  c2 = c2
  k1 = k1
  k2 = k2
  Clients = {c1, c2}
  Conns = {k1, k2}
  NoConn = NoConn
  NoClient = NoClient
  InitialAgents = {1}
  Expiring = {}
  Lifetime = 1
  MaxAgents = 2
  MaxRound = 2
  MaxGroups = 2
  MaxTime = 1
  MaxSession = 1
  MayKill = TRUE
SPECIFICATION Spec
INVARIANTS
  TypeOK
  BufferConsistent
  HandlerExclusive
  SyncReplyComplete
  StaleOnlyAfterDisconnect
  NoNullBuffer
PROPERTIES
  FirstSyncSeesCommit
  FreshGroupId
SYMMETRY Symmetric
CHECK_DEADLOCK FALSE
