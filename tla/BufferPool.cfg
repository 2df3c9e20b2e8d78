SPECIFICATION FairSpec
CONSTANTS
  Threads = {t1, t2}
  BufferCount = 2
  GenMod = 4
  SizeMod = 3
  TotalMod = 2
  MaxStall = 3
INVARIANTS
  OneOwner
  FreeListIntact
  CountersAccountForAll
PROPERTIES
  ImplementsAtomicPool
  LockFree
