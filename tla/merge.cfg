CONSTANTS
  Ids <- MCIds
  Vals <- MCVals
  MaxCommit = 4
SPECIFICATION Spec
INVARIANTS
  IteratorValid
  OtherGroupsKept
  MergeCorrect
PROPERTY Terminates
CHECK_DEADLOCK FALSE
