SPECIFICATION Spec
CONSTANTS
  Nodes = {n1, n2, n3}
  Peers = {p1, p2}
  MaxTasks = 1
  MaxTargets = 2
  MaxEvents = 3
INVARIANT StateReturned
CHECK_DEADLOCK FALSE
