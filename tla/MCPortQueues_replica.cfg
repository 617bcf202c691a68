SPECIFICATION Spec
CONSTANTS
  Scenarios <- JustReplica
  OutN = 3
  InN = 2
  MaxTokens = 4
INVARIANT ExhaustPreserves
CHECK_DEADLOCK FALSE
