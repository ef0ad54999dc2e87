SPECIFICATION Spec
CONSTANTS
  W = 13
  IntW = 9
  ShortW = 6
  CharW = 4
  ExpBits = 4
  BigDigits = 2
  TwoChunk = 6
  FiveChunk = 3
  Strings <- TwoStrings
  Calls <- AllCalls
INVARIANTS TypeOK PrintsAsWritten CountsPrinted
PROPERTY NothingAfterFailure
