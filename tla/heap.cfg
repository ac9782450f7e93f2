SPECIFICATION Spec
CONSTANTS
  FrameSize = 7
  Header = 2
  Requests <- MCRequests
  Frames <- ThreeFrames
  FramesInUse = {0}
  Frees = FALSE
INVARIANTS TypeOK LiveIsPrivate ListTilesFrame FreeRestores GrowsAtMostOnce
PROPERTY MallocReturns
