SPECIFICATION FairSpec
CONSTANTS
  a = a
  b = b
  c = c
  Replications <- Actors
  Deployments <- AllDeployments
  MaxReplications = 3
  MaxOvertakes = 1
INVARIANT TypeOK
INVARIANT ReplicatesLockedInPairs
INVARIANT WaitsForPeer
INVARIANT LocksReturned
INVARIANT NoDeadlock
PROPERTY EventuallyReplicates
CHECK_DEADLOCK FALSE
