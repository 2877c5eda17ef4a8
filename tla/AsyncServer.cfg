\* Two descriptor numbers, so that numbers are reused and a batch holds two
\* clients.  The server may be destroyed, which is no deadlock.
SPECIFICATION FairSpec
CONSTANTS
  Wanted <- MCWanted
  Fd = {f1, f2}
  NoFd = NoFd
  InMax = 2
  OutMax = 1
  Backlog = 1
INVARIANTS EventsFindConnections OwnersExact ClosedIsReal
PROPERTIES NoInputLost GoneIsErased PeerUnblocked
CHECK_DEADLOCK FALSE
