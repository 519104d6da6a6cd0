SPECIFICATION FairSpec
CONSTANTS
  t1 = t1
  t2 = t2
  Threads <- MCThreads
  NoThread = NoThread
  MaxFd = 2
  BatchSize = 2
  NumMbufs = 1
INVARIANTS ThreadStateMatches OnlyFirstLosesGil MbufsReturn OwnSockets
PROPERTIES AppsStart ThreadsEnd
CHECK_DEADLOCK FALSE
