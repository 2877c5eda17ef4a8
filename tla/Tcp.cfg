\* With sizes that do not fit both threads may block for ever.
SPECIFICATION FairSpec
CONSTANTS
  Sizes <- MCSizes
  Cap = 3
  Buf = 3
INVARIANTS TcpTypeOK EchoedExactly EndsOwned OrderlyClose
PROPERTIES RoundTripEnds
CHECK_DEADLOCK FALSE
