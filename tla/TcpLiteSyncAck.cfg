SPECIFICATION Spec
CONSTANTS
    Window = 4
    SeqMod = 12
    MaxPayload = 1
    PoolSize = 5
    MaxBytes = 7
    Chunks = {7}
INVARIANT
    AckWithinOneTick
