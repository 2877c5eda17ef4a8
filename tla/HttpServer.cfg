SPECIFICATION FairSpec
CONSTANTS
  NWorkers = 3
  Fd = {c1, c2, c3}
  Backlog = 2
  MaxAccepts = 4
INVARIANTS
  ServerTypeOK
  ReturnedClean
PROPERTIES
  HandsToServing
  StopWhenServing
