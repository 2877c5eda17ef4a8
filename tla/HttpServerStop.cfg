SPECIFICATION FairSpec
CONSTANTS
  NWorkers = 2
  Fd = {c1, c2}
  Backlog = 2
  MaxAccepts = 4
PROPERTIES
  StopReturns
