SPECIFICATION Spec
CONSTANTS
  W = 14
  IntW = 12
  BUFFER_SIZE = 2
  TmpSize = 8
  Lengths = {2, 3}
  Ints = {}
  Faults = {"error"}
  MaxSent = 4
  ATEXIT_MAX_CALLBACKS = 3
  Callbacks = {flush_streams, f}
  NULL = NULL
  AssertMessage <- Pieces
  MaxExits = 2
  flush_streams = flush_streams
INVARIANTS TypeOK StackKept NoNullCall RunsLIFO DrainsAtExit AbortLosesOnlyBuffer
PROPERTIES ExitEnds HeapFailureExits
