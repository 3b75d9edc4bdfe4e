SPECIFICATION Spec
CONSTANTS
  Builds = {"9B206", "9A405"}
  Offsets = {0, 1}
  Pieces = 2
  Chunks = {0, 1, 2}
  ChunkType <- MCChunkType
  ImageSize = 4
  Threads = 2
  MaxRuns = 2
PROPERTY SkipsOnlyWhatIsDone
