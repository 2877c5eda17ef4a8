SPECIFICATION FairClockSpec
CONSTANTS
  Fd = {c1, c2}
  NoFd = NoFd
  Unit = {"get_ka", "bad"}
  Ends = {}
  RcvMax = 1
  SndMax = 1
  BufSize = 1
  BodyLen = 1
  RespLen = 1
  MaxEvents = 2
INVARIANTS
  RoutinesOwned
  ClientsOpen
  AllArmed
PROPERTIES
  KeepsPromise
  StopDrains
  OneCallAfterTimeout
