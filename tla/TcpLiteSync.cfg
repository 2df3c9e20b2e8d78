SPECIFICATION Spec
CONSTANTS
    Window = 4
    SeqMod = 12
    MaxPayload = 1
    PoolSize = 5
    MaxBytes = 6
    Chunks = {3, 6}
INVARIANTS
  SyncSafe
PROPERTIES
  SyncDelivered
