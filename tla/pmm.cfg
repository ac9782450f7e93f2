CONSTANTS
  PageSize = 4
  AddrSpace = 64
  ByteBits = 2
  BitmapBase = 16
  KernelStart = 24
  KernelEnd = 30
  VgaAddr = 12
  MaxBlocks = 2
  MemoryMaps <- MCMemoryMaps
  Garbage <- MCGarbage
SPECIFICATION Spec
INVARIANTS TypeOK ReservedNeverHanded AscendingFresh HandedIsRam
PROPERTY RefinesFrameAllocator
