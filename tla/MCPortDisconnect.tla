--------------------------- MODULE MCPortDisconnect ---------------------------
(* Instances of PortDisconnect for TLC: an actor with an inport, which has *)
(* one peer, and an outport with several.                                  *)
EXTENDS PortDisconnect, TLC

CONSTANTS in, out, c0, c1, c2

ActorPorts       == {in, out}
ActorConnections == {c0, c1, c2}
ActorPortOf      == c0 :> in @@ c1 :> out @@ c2 :> out
=============================================================================
