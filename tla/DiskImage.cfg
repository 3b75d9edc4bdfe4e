CONSTANTS
  Sources <- MCSources
  Encryptions <- MCEncryptions
  SectorSize = 2
  ChunkSectors = 2
  MaxStream = 2
  CipherBlock = 2
  BatchLimit = 9
  BlockV1 = 4
  TrailerV1 = 3
  Wants = {0, 3}
  CacheMax = 2
  Lengths = {0, 1, 3}
  Deltas <- MCDeltas
  MaxPast = 1
  Hole <- MCHole
SPECIFICATION Spec
INVARIANTS
  TypeOK
  PlaintextInOrder
  CopyIsThePartition
  CacheIsMostRecent
PROPERTY RefinesFlatPartition
CHECK_DEADLOCK FALSE
