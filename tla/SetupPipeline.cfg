SPECIFICATION Spec
CONSTANTS
  Builds = {"9A405", "9B206", "marred", "packed"}
  Offsets = {0, 1, 2}
  Pieces = 2
  Chunks = {0, 1, 2}
  ChunkType <- MCChunkType
  ImageSize = 4
  Threads = 2
  MaxRuns = 3
INVARIANTS
  TypeOK
  ImageIsAFilesystem
PROPERTIES
  WholeFilesAreKept
