SPECIFICATION FairSpec
CONSTANTS
  node = node
  replicas = replicas
  actors = actors
  x = x
  y = y
  ValueKeys <- JustValues
  SetKeys <- JustSets
  IndexKeys <- JustIndexes
  Values <- TwoValues
  MaxCalls = 4
  Uses <- OneByOne
  MaxFailures = 1
INVARIANT LeftIsTriedAgain
INVARIANT NoChangeForgotten
INVARIANT ReadsOwnWrites
PROPERTY EventuallyFlushed
CHECK_DEADLOCK FALSE
