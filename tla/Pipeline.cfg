SPECIFICATION FairSpec
CONSTANTS
  Frames = 2
  BufferCount = 2
  QueueCount = 2
  Capacity = 1
  CheckEvery = 2
  Traffic <- AllKinds
  Toeplitz <- SomeHash
  MaxArrivals = 3
  None = None
INVARIANTS
  EachBufferInOnePlace
  RingInStep
  FlowsInOrder
  EveryPacketAccountedFor
PROPERTIES
  StopReturns
  QueuedIsHandled
