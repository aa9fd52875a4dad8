CONSTANTS
  N = 4
  PRIORITY_MIN = 6
  Priority <- MCPriority
SPECIFICATION Spec
INVARIANT SleepsForUnlock
