CONSTANTS
  Cells = {c1, c2}
  Ids = {1, 2, 3, 4}
  RiseFrom = 3
  MaxLevel = 3
  Fade = 0
  OneJob = FALSE
SPECIFICATION SpecObject
PROPERTY CorrectId
