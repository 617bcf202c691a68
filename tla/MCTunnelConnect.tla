---------------------------- MODULE MCTunnelConnect ----------------------------
(* Instances of TunnelConnect for TLC.                                     *)
EXTENDS TunnelConnect

TwoPorts == {"p", "q"}
=============================================================================
