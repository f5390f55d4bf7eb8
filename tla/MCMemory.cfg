CONSTANTS
  PAGE_SIZE = 4
  WordBits = 2
  WordBytes = 1
  kernel_end = 14
  MemSizes = {8, 9}
  PDE_ENTRIES = 3
  PTE_ENTRIES = 4
  TABLES = 2
  TableFrame <- MCTableFrame
  KernelPages <- MCKernelPages
  Frames <- MCFrames
  TlbSize = 1
  NUM_ALLOCATIONS = 2
SPECIFICATION MemorySpec
CHECK_DEADLOCK FALSE
INVARIANTS MemoryTypeOK FramesAccountedFor FreeCountIsHonest Coherent KernelReachesItself ReservedIsPrivate FailuresExcused
PROPERTIES MapsAtomically TestsGiveBack
