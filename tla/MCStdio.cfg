SPECIFICATION Spec
CONSTANTS
  W = 14
  IntW = 12
  BUFFER_SIZE = 3
  TmpSize = 8
  Lengths = {1, 4}
  Ints <- SomeInts
  Faults = {"short", "error"}
  MaxSent = 5
INVARIANTS TypeOK Delivers NeverRepeats
PROPERTIES ReportsFailure CallsReturn
