SPECIFICATION Spec
CONSTANTS
  FrameSize = 6
  Header = 1
  Requests <- FittingRequests
  Frames <- ThreeFrames
  FramesInUse = {0}
  Frees = TRUE
INVARIANT LiveIsPrivate
