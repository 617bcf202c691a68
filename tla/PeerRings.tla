------------------------------ MODULE PeerRings ------------------------------
(***************************************************************************)
(* What the queues of a port with several peers share: a list of the peers *)
(* in the order of their ids, and for each peer a ring of N slots, of      *)
(* which one stays unused, with positions that only grow                   *)
(* (runtime/north/plugins/port/queue/fanout_base.py, collect_base.py).     *)
(*                                                                         *)
(* Ports are natural numbers, so that their order is that of their ids.    *)
(***************************************************************************)
EXTENDS Integers, Sequences, FiniteSets

CONSTANTS N,         \* slots of a ring: queue_length + 1
          NoToken    \* what an unused slot holds

Slots == 0 .. N - 1

EmptyRing == [s \in Slots |-> NoToken]

Ascending(S) == CHOOSE s \in [1 .. Cardinality(S) -> S] :
                  \A j, k \in 1 .. Cardinality(S) : j < k => s[j] < s[k]

(* Dictionaries with one peer per key: without some, and with one.         *)
Without(f, S) == [p \in DOMAIN f \ S |-> f[p]]

With(f, peer, value) ==
  [p \in DOMAIN f \cup {peer} |-> IF p = peer THEN value ELSE f[p]]

(* The slots that are free when the positions are these.                   *)
Room(write_pos, read_pos) == N - 1 - (write_pos - read_pos)
=============================================================================
