SPECIFICATION MCSpec
CONSTANTS
  Cycles <- AllCycles
  GhzNum = 5
  GhzDen = 2
  MaxSamples = 110
  FewSamples = 4
  Frames = 3
  MaxPackets = 6
  TscHz = 7
  Rates = {0, 2, 3, 9}
  MaxTime = 24
  MaxSent = 9
  Scope <- ThreeEvents
  Bytes = 5
  HugePage = 2
INVARIANTS
  SamplesAccountedFor
  CaptureAccountsForAll
  GeneratorNeverAhead
  BaselineComparesRight
PROPERTIES
  WaitsAreEnded
