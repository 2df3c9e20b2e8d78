SPECIFICATION FairSpec
CONSTANTS
  a = a
  b = b
  Values = {a, b}
  NoItem = NoItem
  N = 4
  CtrMod = 8
INVARIANTS
  NoSlotRace
PROPERTIES
  ImplementsFifo
  EverythingIsPopped
