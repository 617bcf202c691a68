SPECIFICATION Spec
CONSTANTS
  a = a
  b = b
  r1 = r1
  r2 = r2
  Token <- MCToken
  Readers <- TwoReaders
  OutLength = 2
  InLength = 1
  MaxTokens = 3
  MaxMoves = 1
  MaxOvertakes = 1
INVARIANT AckedImpliesStored
PROPERTY ImplementsChannel
CHECK_DEADLOCK FALSE
