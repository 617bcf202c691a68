SPECIFICATION Spec
CONSTANTS
  Nodes = {n1, n2, n3}
  Peers = {p1, p2}
  MaxTasks = 2
  MaxTargets = 2
  MaxEvents = 3
INVARIANT InOnePlace
INVARIANT ReadyIsConnected
PROPERTY EventuallyAnswered
CHECK_DEADLOCK FALSE
