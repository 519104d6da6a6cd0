CONSTANTS
  Apps <- MCApps
  QueueSize <- MCSizeOne
  Bufs = {b1, b2}
  MaxBatch = 2
  NoBuf = NoBuf
  NoApp = NoApp
SPECIFICATION Spec
INVARIANT OfferedToAll
