-------------------------- MODULE MCReplicationLock --------------------------
(* Instances of ReplicationLock for TLC: three replicated actors, one pair  *)
(* of which is connected, or all of them in a line or in a circle.         *)
EXTENDS ReplicationLock, TLC

CONSTANTS a, b, c

Actors == {a, b, c}

Pair   == a :> {b} @@ b :> {a} @@ c :> {}
Line   == a :> {b} @@ b :> {a, c} @@ c :> {b}
Circle == a :> {b, c} @@ b :> {a, c} @@ c :> {a, b}

AllDeployments == {Pair, Line, Circle}
=============================================================================
