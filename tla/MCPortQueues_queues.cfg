SPECIFICATION FairSpec
CONSTANTS
  Scenarios <- QueueScenarios
  OutN = 3
  InN = 2
  MaxTokens = 4
INVARIANT DeliveryPrefix
INVARIANT ExhaustPreserves
INVARIANT EveryTokenHeld
INVARIANT InTurn
INVARIANT ServedInTurn
PROPERTY LinksAreChannels
PROPERTY EventuallyDelivered
PROPERTY ExhaustionCompletes
CHECK_DEADLOCK FALSE
