CONSTANTS
  Apps <- MCApps
  Streams <- MCStreams
  AgentIn <- MCAgentIn
  AgentOut <- MCAgentOut
  Capacity = 1
  Batch = 1
  Python <- MCPython
  InitTimeout <- MCInitTimeout
  Sends <- MCSends
  QSize <- MCQSize
  RingSize <- MCRingSize
SPECIFICATION Spec
INVARIANTS DestroyedOnce RequestsDropped NoMutualWait
PROPERTIES UnloadReturns InputServed
