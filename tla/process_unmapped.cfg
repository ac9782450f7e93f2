SPECIFICATION Spec
CONSTANTS
  Frames <- MCFrames
  PAGE_ENTRIES = 8
  KERNEL_PD_INDEX = 5
  WindowBase = 0
  WindowPages = 8
  FbPage = 48
  FbPages = 2
  KernelImage <- MCKernel
  StackPage = 15
  UserPages <- MCUserPages
  Values = {1}
  Junk = 9
  MaxProcs = 2
INVARIANT KernelStaysMapped
CHECK_DEADLOCK FALSE
