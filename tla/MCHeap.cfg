SPECIFICATION Spec
CONSTANTS
  ALIGN = 2
  SIZE_RANGE = 256
  PAGE = 4
  INITIAL = 6
  MMAP_THRESHOLD = 5
  BrkLimit = 16
  MemTop = 32
  InitialBreaks = {1, 6}
  Requests = {0, 3, 8, 9}
  Junk <- Magic
INVARIANTS TypeOK PayloadsDisjoint FreeListComplete HeapIntact Coalesced Accounted MapsHeaded CursorOnFreeList PayloadCovers GivesUpOnlyWhenFull
PROPERTY GrowthMakesRoom
VIEW View
