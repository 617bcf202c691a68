------------------------------ MODULE MCScheduler ------------------------------
(* Instances of Scheduler for TLC.                                         *)
EXTENDS Scheduler

Two == {"a", "b"}

None == {}

AtOnceOrLater == {0, 3}

JustReplication == {"replication"}
=============================================================================
