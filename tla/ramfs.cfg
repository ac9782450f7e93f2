SPECIFICATION Spec
CONSTANTS
  RAMFS_MAX_FILES = 3
  RAMFS_MAX_FILE_SIZE = 2
  MAX_MOUNTS = 2
  Names <- MCNames
  Kept <- MCKept
  Paths <- MCPaths
  Lengths <- MCLengths
  Buffers <- MCBuffers
INVARIANTS TypeOK ReadsWhatWasWritten OneFilePerNameWritten
