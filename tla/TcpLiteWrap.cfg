SPECIFICATION FairSpec
CONSTANTS
    Window = 2
    SeqMod = 6
    MaxPayload = 2
    PoolSize = 3
    MaxBytes <- PastTheWrap
    Chunks = {13}
    MaxLag = 3
    Closers = {}
INVARIANTS
  WindowsAgree
  SlotsMatchWindow
PROPERTIES
  AllDelivered
