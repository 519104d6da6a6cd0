CONSTANTS
  Apps <- MCApps
  QueueSize <- MCQueueSize
  Bufs = {b1, b2}
  MaxBatch = 2
  NoBuf = NoBuf
  NoApp = NoApp
SPECIFICATION FairSpec
INVARIANTS EnqueueNeverFails ElementsConserved ReferencesCounted
PROPERTIES ImplementsAppQueues RouterNeverBlocks BuffersReturn
