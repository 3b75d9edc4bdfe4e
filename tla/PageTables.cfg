SPECIFICATION Spec
CONSTANTS
  PageSize = 2
  L3Size = 2
  L2Size = 2
  StaticL1 = 2
  L1Size = 4
  L2Pool = 1
  L3Pool = 4
  Hole = {1}
  Perms = {"UserRX", "KernelRWDevice"}
  BootAttr = "Boot"
  PhysPages = {0, 5}
  MaxSize = 5
  MaxCalls = 2
INVARIANTS
  TypeOK
  TablesNotShared
PROPERTIES
  WholeRangeMapped
  RefinesAddressSpace
