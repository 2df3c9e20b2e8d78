SPECIFICATION MCSpec
CONSTANTS
  Frames <- Traffic
  SizeMod = 1048576
  MaxFlips = 2
  Addresses = {0, 1, 2, 3, 4}
  Nodes = {0, 1}
  MaxPages = 2
INVARIANTS
  FramesParsed
  OnesComplementSum
  DigestsAreExact
  NodeIsTheRightOne
