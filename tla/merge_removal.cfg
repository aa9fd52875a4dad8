CONSTANTS
  Ids <- MCIds
  Vals <- MCVals
  MaxCommit = 4
SPECIFICATION Spec
INVARIANT RemovesMissingAgents
CHECK_DEADLOCK FALSE
