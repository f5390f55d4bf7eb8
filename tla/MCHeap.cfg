CONSTANTS
  KERNEL_HEAP_START = 100
  KERNEL_HEAP_SIZE = 230
  Header = 12
  Align = 16
  WordSize = 1024
  Sizes <- MCSizes
SPECIFICATION Spec
INVARIANTS TypeOK Tiled UsedIffLive
PROPERTIES Contract
