SPECIFICATION CoSpec
CONSTANTS
  Func = {f1, f2}
  Frame = {start, later}
  StartFrame = start
  MaxRoutines = 3
INVARIANTS
  OrdinatorOK
PROPERTIES
  LiveRoutinesKept
