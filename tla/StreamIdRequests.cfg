CONSTANTS
  Bit <- MCBit
  HashFn <- MCHashFn
  NULL = NULL
  Block <- MCBlock
SPECIFICATION PackSpec
INVARIANTS RoutedIsDispatched NamedIsNotAny PackedInPlace BytesRoute
CHECK_DEADLOCK FALSE
