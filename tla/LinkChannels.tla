----------------------------- MODULE LinkChannels -----------------------------
(***************************************************************************)
(* What the connections between outports and inports promise to the actors:*)
(* each link <<o, i>> is a reliable channel of its own, with a capacity.   *)
(* A token goes to some of the links of an outport; an actor that reads    *)
(* takes the next token of some of the links of its inport.  A replica's   *)
(* link may begin with what another reader of the outport has got last.    *)
(* How a link is connected, exhausted and taken apart does not show.       *)
(***************************************************************************)
EXTENDS Integers, Sequences

CONSTANTS
  Token,     \* the tokens an actor may write
  Capacity   \* how many tokens a link holds

VARIABLES
  links,     \* the links
  sent,      \* for each of them, the tokens sent so far
  received   \* and those that were read

vars == <<links, sent, received>>

Init ==
  /\ sent = [l \in links |-> <<>>]
  /\ received = [l \in links |-> <<>>]

Send(t, some) ==
  /\ \A l, m \in some : l[1] = m[1]
  /\ \A l \in some : Len(sent[l]) - Len(received[l]) < Capacity
  /\ sent' = [l \in links |-> IF l \in some THEN Append(sent[l], t) ELSE sent[l]]
  /\ UNCHANGED <<links, received>>

Receive(some) ==
  /\ \A l, m \in some : l[2] = m[2]
  /\ \A l \in some : Len(received[l]) < Len(sent[l])
  /\ received' = [l \in links |-> IF l \in some
                                  THEN Append(received[l], sent[l][Len(received[l]) + 1])
                                  ELSE received[l]]
  /\ UNCHANGED <<links, sent>>

(* Link l, of which nothing has been sent, starts with the tokens that m,  *)
(* of the same outport, was sent from the k-th on.                         *)
Join(l, m, k) ==
  /\ l[1] = m[1] /\ sent[l] = <<>>
  /\ Len(sent[m]) - (k - 1) <= Capacity
  /\ sent' = [sent EXCEPT ![l] = SubSeq(sent[m], k, Len(sent[m]))]
  /\ UNCHANGED <<links, received>>

Next ==
  \/ \E t \in Token, some \in SUBSET links : Send(t, some)
  \/ \E some \in SUBSET links : Receive(some)
  \/ \E l, m \in links : \E k \in 1 .. Len(sent[m]) : Join(l, m, k)

Spec == Init /\ [][Next]_vars
=============================================================================
