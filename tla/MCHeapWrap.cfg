SPECIFICATION Spec
CONSTANTS
  ALIGN = 2
  SIZE_RANGE = 256
  PAGE = 4
  INITIAL = 6
  MMAP_THRESHOLD = 5
  BrkLimit = 16
  MemTop = 16
  InitialBreaks = {1}
  Requests = {3, 255}
  Junk = {}
INVARIANT PayloadCovers
