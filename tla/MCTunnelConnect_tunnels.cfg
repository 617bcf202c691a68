SPECIFICATION FairSpec
CONSTANTS
  Ports <- TwoPorts
  MaxFaults = 1
INVARIANT Routed
PROPERTY EventuallyConnected
CHECK_DEADLOCK FALSE
