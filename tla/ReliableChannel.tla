---------------------------- MODULE ReliableChannel ---------------------------
(***************************************************************************)
(* What a fan-out connection between an outport and its remote inports     *)
(* promises to the actors: every reader gets the tokens the writer wrote,  *)
(* each once and in the order they were written, and the writer is never   *)
(* more than Capacity tokens ahead of a reader.                            *)
(***************************************************************************)
EXTENDS Integers, Sequences

CONSTANTS
  Token,     \* the tokens an actor may write
  Readers,   \* the inports connected to the outport
  Capacity   \* how many tokens the queues between two actors hold

VARIABLES
  sent,      \* the tokens written so far
  received   \* for each reader, the tokens its actor consumed so far

vars == <<sent, received>>

Init ==
  /\ sent = <<>>
  /\ received = [r \in Readers |-> <<>>]

Send(t) ==
  /\ \A r \in Readers : Len(sent) - Len(received[r]) < Capacity
  /\ sent' = Append(sent, t)
  /\ UNCHANGED received

Receive(r) ==
  /\ Len(received[r]) < Len(sent)
  /\ received' = [received EXCEPT ![r] = Append(@, sent[Len(@) + 1])]
  /\ UNCHANGED sent

Next ==
  \/ \E t \in Token : Send(t)
  \/ \E r \in Readers : Receive(r)

Spec == Init /\ [][Next]_vars

(* A reader that has tokens to come does get them.                         *)
FairSpec == Spec /\ \A r \in Readers : WF_vars(Receive(r))
=============================================================================
