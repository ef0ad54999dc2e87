SPECIFICATION Spec
CONSTANTS
  W = 14
  IntW = 12
  Callees = {"itoa", "utoa", "itoab", "itoao", "itoax", "utoab", "utoao", "utoax"}
  Sizes = {1, 2, 3, 5}
  Inputs <- Sampled
INVARIANTS TypeOK WritesText FillsOrRefuses RoundTrip
PROPERTY Completes
