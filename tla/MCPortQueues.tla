----------------------------- MODULE MCPortQueues -----------------------------
(* Instances of PortQueues for TLC.                                        *)
EXTENDS PortQueues, TLC

(* One outport with a remote reader, 3, and a local one, 4.                *)
Fan(kind) ==
  [links |-> {<<1, 3>>, <<1, 4>>}, out |-> kind, in |-> "unordered",
   local |-> {<<1, 4>>}, late |-> {}, exhausted |-> {<<1, 3>>, <<1, 4>>},
   exceptions |-> FALSE]

(* Reader 4 is a replica that is connected later, over a tunnel.           *)
Late(kind, exhausted) ==
  [Fan(kind) EXCEPT !.local = {}, !.late = {<<1, 4>>}, !.exhausted = exhausted]

(* One inport with writers 1 and 2, the second one local.                  *)
Collect(kind, exceptions) ==
  [links |-> {<<1, 3>>, <<2, 3>>}, out |-> "fanout", in |-> kind,
   local |-> {<<2, 3>>}, late |-> {}, exhausted |-> {<<1, 3>>, <<2, 3>>},
   exceptions |-> exceptions]

(* One inport with three local writers.                                    *)
ThreeWriters ==
  LET links == {<<1, 4>>, <<2, 4>>, <<3, 4>>}
  IN  [Collect("unordered", FALSE) EXCEPT !.links = links, !.local = links,
                                          !.exhausted = {<<1, 4>>}]

QueueScenarios ==
  {Fan(kind) : kind \in Out!OutKinds}
  \cup {Late("fanout", {<<1, 3>>}), Late("balanced", {<<1, 4>>})}
  \cup {Collect(kind, FALSE) : kind \in In!InKinds}
  \cup {Collect("synced", TRUE), ThreeWriters}

JustReplica  == {Late("fanout", {<<1, 3>>, <<1, 4>>})}
=============================================================================
