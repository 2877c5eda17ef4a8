SPECIFICATION FairSpec
CONSTANTS
  Fd = {c1, c2}
  NoFd = NoFd
  Unit = {"post_ka"}
  Ends = {}
  RcvMax = 2
  SndMax = 1
  BufSize = 2
  BodyLen = 1
  RespLen = 1
  MaxEvents = 2
INVARIANTS
  WakesWhenNeeded
PROPERTIES
  InputConsumed
  ExpiredClosed
