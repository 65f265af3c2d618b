\* Caps of a few bytes, as far apart as the assumption asks.
SPECIFICATION FairSpec
CONSTANTS
  MaxResult = 2
  MaxStream = 8
  MaxRead = 4
  MaxChunk = 4
INVARIANTS
  OutputTypeOK
  NothingLostSilently
  TruncationIsReal
  VerdictNamesTheKiller
  ChunksAreTheText
PROPERTIES
  Settles
CHECK_DEADLOCK FALSE
