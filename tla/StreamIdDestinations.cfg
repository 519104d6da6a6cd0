CONSTANTS
  Bit <- MCThreeBits
  HashFn <- MCHashFn
  NULL = NULL
  Block <- MCThreeBlock
SPECIFICATION PackSpec
INVARIANT DestinationsAreOred
CHECK_DEADLOCK FALSE
