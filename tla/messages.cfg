CONSTANTS
  Threads = {0, 1}
  Name <- MCName
  Fifo = 2
  MaxSent = 3
SPECIFICATION FairSpec
INVARIANTS
  TypeOK
  ExactlyOnce
  CheckedIsThere
PROPERTY Received
CHECK_DEADLOCK FALSE
