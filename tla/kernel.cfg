CONSTANTS
  N = 3
  PRIORITY_MIN = 4
  Priorities <- MCPriorities
  MaxAge = 2
SPECIFICATION Spec
INVARIANTS
  TypeOK
  Deadline
  WaitingInCall
PROPERTIES
  EverybodyWoken
