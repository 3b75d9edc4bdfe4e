SPECIFICATION Spec
CONSTANTS
  QueueSize = 4
  IdxMod = 4
  SectorSize = 2
  DiskSectors = 2
  MaxLen = 2
  Slots = {1, 2}
  MaxTimeouts = 1
INVARIANTS
  TypeOK
  ReadGivesDiskBytes
  NothingOutWhenIdle
PROPERTIES
  TrueOnlyIfAnswered
  EveryReadReturns
CHECK_DEADLOCK FALSE
