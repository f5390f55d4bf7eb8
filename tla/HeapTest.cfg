\* The real header and alignment; an arena that is large for the script.
CONSTANTS
  KERNEL_HEAP_START = 2048
  KERNEL_HEAP_SIZE = 2048
  Header = 12
  Align = 16
  WordSize = 65536
  Sizes = {32, 64, 128}
SPECIFICATION TestSpec
INVARIANT MergingWorks
CHECK_DEADLOCK FALSE
