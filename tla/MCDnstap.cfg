SPECIFICATION FairDnstapSpec
CONSTANTS
  c1 = c1
  c2 = c2
  None = None
  Exited = Exited
  Conns = {c1, c2}
  Streams <- MCStreams
  High = 7
  ReadMax = 4
INVARIANTS
  DnstapTypeOK
  InStep
  NeverStalls
  HandshakeFollows
  FinishDelivered
  AlwaysAccepting
  AcceptedAccounted
PROPERTIES
  StoppedCloses
  StreamIsRead
CHECK_DEADLOCK FALSE
