CONSTANTS
  Threads = {t1, t2}
  Pages = 7
  HugePage = 2
  HugeTotal = 3
  Kinds <- MCKinds
SPECIFICATION Spec
SYMMETRY Symmetry
INVARIANTS
  PagesAccountedFor
  RegistryMatchesKernel
  PoolsAreTracked
