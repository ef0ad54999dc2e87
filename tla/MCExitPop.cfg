SPECIFICATION Spec
CONSTANTS
  ATEXIT_MAX_CALLBACKS = 3
  Callbacks = {f, g}
  NULL = NULL
  MaxExits = 1
PROPERTY PopReturnsLast
CHECK_DEADLOCK FALSE
