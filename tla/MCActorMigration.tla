--------------------------- MODULE MCActorMigration ---------------------------
(* Instances of ActorMigration for TLC: an actor with two peers, and three *)
(* runtimes.                                                               *)
EXTENDS ActorMigration
=============================================================================
