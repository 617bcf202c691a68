SPECIFICATION FairSpec
CONSTANTS
  a = a
  b = b
  r1 = r1
  r2 = r2
  Token <- MCToken
  Readers <- OneReader
  OutLength = 3
  InLength = 1
  MaxTokens = 5
  MaxMoves = 2
  MaxOvertakes = 0
INVARIANT DeliveryPrefix
INVARIANT AnsweredIsCommitted
INVARIANT CleanHandover
PROPERTY ImplementsFairChannel
PROPERTY EventuallyCommitted
PROPERTY MovesComplete
CHECK_DEADLOCK FALSE
