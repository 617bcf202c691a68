SPECIFICATION FairSpec
CONSTANTS
  in = in
  out = out
  c0 = c0
  c1 = c1
  c2 = c2
  Ports <- ActorPorts
  Connections <- ActorConnections
  PortOf <- ActorPortOf
  WholeActor = TRUE
INVARIANT CalledOnce
INVARIANT SuccessIsDisconnectedIfAttached
PROPERTY EventuallyCalledIfLinked
CHECK_DEADLOCK FALSE
