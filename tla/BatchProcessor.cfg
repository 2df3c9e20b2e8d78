SPECIFICATION Spec
CONSTANTS
  BufferCount = 2
  Capacity = 2
  BatchSize = 2
  Ports = {80, 90}
  Handlers = {h1, h2}
  MaxPackets = 4
  None = None
INVARIANTS
  ViewsLiveUntilFlush
  FlushedOncePerBatch
  BuffersConserved
  HandledInOrder
PROPERTIES
  QueuedIsProcessed
