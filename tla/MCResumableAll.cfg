SPECIFICATION Spec
CONSTANTS
  W = 14
  IntW = 12
  Callees = {"itoa", "utoa"}
  Sizes = {1, 2, 3}
  Inputs <- AllWords
INVARIANT WritesText
