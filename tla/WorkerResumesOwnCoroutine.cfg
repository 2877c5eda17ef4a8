SPECIFICATION Spec
CONSTANTS
  Fd = {c1, c2}
  NoFd = NoFd
  Unit = {"bad", "get_ka"}
  Ends = {"eof"}
  RcvMax = 1
  SndMax = 1
  BufSize = 1
  BodyLen = 1
  RespLen = 2
  MaxEvents = 1
SYMMETRY Descriptors
INVARIANTS
  ResumesOwnCoroutine
