\* Words: 3-word headers and 4-word alignment are those of the i686 build.
CONSTANTS
  KERNEL_HEAP_START = 10
  KERNEL_HEAP_SIZE = 27
  Header = 3
  Align = 4
  WordSize = 128
  Sizes = {0, 3, 6}
SPECIFICATION Spec
INVARIANT DataIntact
PROPERTY ListInMemoryImplementsHeap
