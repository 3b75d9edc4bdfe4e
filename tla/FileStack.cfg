SPECIFICATION Spec
CONSTANTS
  Volume <- MCVolume
  Catalog <- MCCatalog
  BlockSize = 2
  DiskSize = 31
  Fds = {0, 1, 2}
  Std = {0}
  Cap = 3
  Piece = 2
  DataOffset = 2
  Lens = {1, 3}
  Offsets = {1}
  MaxCalls = 4
INVARIANTS TypeOK ReadGivesFileBytes RegionHoldsFile CacheIsPrefix
PROPERTIES CallsReturn
CHECK_DEADLOCK FALSE
