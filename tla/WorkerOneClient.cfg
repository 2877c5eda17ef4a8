SPECIFICATION Spec
CONSTANTS
  Fd = {c1}
  NoFd = NoFd
  Unit = {"octets", "get", "get_ka", "post", "post_ka", "bad", "badlen"}
  Ends = {"eof", "reset", "error"}
  RcvMax = 3
  SndMax = 1
  BufSize = 3
  BodyLen = 1
  RespLen = 2
  MaxEvents = 1
INVARIANTS
  TypeOK
