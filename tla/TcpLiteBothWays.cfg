SPECIFICATION Spec
CONSTANTS
    Window = 2
    SeqMod = 6
    MaxPayload = 1
    PoolSize = 2
    MaxBytes <- BothWays
    Chunks = {1, 2}
    MaxLag = 3
    Closers = {"A"}
INVARIANTS
  InOrder
  PoolConserved
  ReassemblyMatchesSender
PROPERTIES
  NoRetreat
