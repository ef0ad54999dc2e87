SPECIFICATION Spec
CONSTANTS
  Blocks = {1, 2}
  Capacity <- Sizes
  Texts <- SomeTexts
  Separators = {2, 3}
  NULL = NULL
INVARIANTS TypeOK TextRestored TokensCover CopiesInside
