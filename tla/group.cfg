CONSTANTS
  o1 = o1
  o2 = o2
  o3 = o3
  o4 = o4
  Objects = {o1, o2, o3, o4}
  Null = Null
  Group = 1
  Foreign <- MCForeign
  NJobs = 2
SPECIFICATION Spec
INVARIANTS
  TypeOK
  IdsIncrease
  EachProcessedOnce
  NoDangling
  NoLeak
PROPERTIES
  FreshIds
  OnlyRequested
  ProcessEnds
CHECK_DEADLOCK FALSE
