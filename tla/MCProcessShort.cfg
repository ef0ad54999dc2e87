SPECIFICATION Spec
CONSTANTS
  W = 14
  IntW = 12
  BUFFER_SIZE = 2
  TmpSize = 8
  Lengths = {1, 3}
  Ints = {}
  Faults = {"short"}
  MaxSent = 3
  ATEXIT_MAX_CALLBACKS = 2
  Callbacks = {flush_streams, f}
  NULL = NULL
  AssertMessage <- Pieces
  MaxExits = 2
  flush_streams = flush_streams
INVARIANT ExitDrains
