\* Two clients that connect at any time, a stream that trims, one error.
SPECIFICATION FairSpec
CONSTANTS
  Clients = {c1, c2}
  LastChunk = 2
  Retention = 1
  MaxErrors = 1
INVARIANTS
  NothingSkipped
  ClosedMeansDecided
  ToldInOrder
PROPERTIES
  SocketCloses
CHECK_DEADLOCK FALSE
