CONSTANTS
  N = 4
  PRIORITY_MIN = 6
  Priority <- MCPriority
SPECIFICATION FairSpec
INVARIANTS
  TypeOK
  SomebodyAwake
PROPERTIES
  ImplementsMutex
  GoesOn
