CONSTANTS
  Apps <- MCApps
  QueueSize <- MCSizeTwo
  Bufs = {b1, b2}
  MaxBatch = 2
  NoBuf = NoBuf
  NoApp = NoApp
SPECIFICATION Spec
INVARIANT SlotAllocated
