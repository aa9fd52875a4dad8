CONSTANTS
  Cells = {c1, c2}
  Ids = {1, 2, 3, 4}
  RiseFrom = 3
  MaxLevel = 4
  Fade = 1
  OneJob = FALSE
SPECIFICATION FairSpec
INVARIANTS
  TypeOK
  OneAgentPerCell
PROPERTIES
  CorrectId
  FadesAway
