SPECIFICATION FairThreadsSpec
CONSTANTS
  ALIGN = 2
  SIZE_RANGE = 256
  PAGE = 4
  INITIAL = 6
  MMAP_THRESHOLD = 3
  BrkLimit = 12
  MemTop = 16
  InitialBreaks = {1}
  Requests = {0, 5}
  Junk <- Magic
  t1 = t1
  t2 = t2
  nobody = nobody
  Threads <- TwoThreads
  NOBODY <- nobody
INVARIANT LockOfCaller
PROPERTIES ImplementsAllocator MallocsReturn
