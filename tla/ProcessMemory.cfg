CONSTANTS
  PageWords = 2
  HeapStart = 6
  HeapEnd = 14
  MmapStart = 12
  LastPage = 11
  Fixed = {0, 3, 12}
  Lens = {1, 3}
  Sizes = {1, 2}
  MaxOwners = 5
SPECIFICATION Spec
INVARIANTS
  TypeOK
  OwnersKeepTheirWords
CHECK_DEADLOCK FALSE
