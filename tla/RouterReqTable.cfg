CONSTANTS
  Bit <- MCBit
  HashFn <- MCHashFn
  NULL = NULL
  Apps = {a1, a2}
  Entries = {e1, e2}
  Requests <- MCRequests
  Sids <- MCSids
  NoEntry = NoEntry
  NoApp = NoApp
SPECIFICATION FairSpec
INVARIANTS TypeOK NoUseAfterFree NoDeadRequests
  RoutingComplete RoutingSound
PROPERTIES OnlyOwnDeregister ImplementsPubSub LockIsReleased
