----------------------------- MODULE CollectQueue -----------------------------
(***************************************************************************)
(* The queue of an inport with several writers, as operators on a record:  *)
(* runtime/north/plugins/port/queue/collect_base.py and its subclasses.    *)
(*                                                                         *)
(* InPort.read peeks and commits in one go, so that between two steps the  *)
(* tentative positions are the read positions; only the latter are kept.   *)
(* An exception token is a negative number.                                *)
(***************************************************************************)
EXTENDS PeerRings

InKinds == {"unordered", "any", "synced"}

IsException(token) == token < 0

WriterSet(q) == {q.writers[k] : k \in DOMAIN q.writers}

NewInQueue(kind, writers) ==
  [kind |-> kind,
   writers |-> Ascending(writers),
   fifo |-> [w \in writers |-> EmptyRing],
   write_pos |-> [w \in writers |-> 0],
   read_pos |-> [w \in writers |-> 0],
   turn_pos |-> 0,
   exhausted_tokens |-> [w \in {} |-> <<>>],
   termination |-> [w \in {} |-> FALSE]]

InFree(q, w) == Room(q.write_pos[w], q.read_pos[w])

Waiting(q, w) == q.write_pos[w] > q.read_pos[w]

TokenOf(q, w) == q.fifo[w][q.read_pos[w] % N]

tokens_available(q) ==
  IF q.kind = "synced"
  THEN \A w \in WriterSet(q) : Waiting(q, w)
  ELSE \E w \in WriterSet(q) : Waiting(q, w)

com_write(q, w, item) ==
  IF item.seq = q.write_pos[w]
  THEN [q EXCEPT !.fifo[w][item.seq % N] = item.token,
                 !.write_pos[w] = @ + 1]
  ELSE q

(* A ring and its write position after com_write of one item after the     *)
(* other, for items in sequence order: those before the position are in    *)
(* the ring already, and past it none is stored.                           *)
New(pos, items) ==
  IF items # <<>> /\ pos - items[1].seq \in 0 .. Len(items)
  THEN SubSeq(items, pos - items[1].seq + 1, Len(items))
  ELSE <<>>

Filled(ring, pos, items) ==
  LET new == New(pos, items)
      At(s) == {k \in DOMAIN new : (pos + k - 1) % N = s}
  IN  [s \in Slots |-> IF At(s) = {} THEN ring[s] ELSE new[CHOOSE k \in At(s) : TRUE].token]

com_write_all(q, w, items) ==
  [q EXCEPT !.fifo[w] = Filled(@, q.write_pos[w], items),
            !.write_pos[w] = @ + Len(New(@, items))]

(* The writer an unordered queue serves next: the first one with a token,  *)
(* starting with the one whose turn it is.  As an index of writers.        *)
Served_MUT(q) ==
  CHOOSE k \in DOMAIN q.writers :
    /\ Waiting(q, q.writers[k])
    /\ \A j \in 1 .. k - 1 : ~Waiting(q, q.writers[j])

Served(q) ==
  LET n == Len(q.writers)
      At(i) == ((q.turn_pos + i) % n) + 1
      first == CHOOSE k \in 0 .. n - 1 :
             /\ Waiting(q, q.writers[At(k)])
             /\ \A j \in 0 .. k - 1 : ~Waiting(q, q.writers[At(j)])
  IN  At(first)

(* The indexes of the writers whose next token is an exception.             *)
Excepting(q) ==
  {k \in DOMAIN q.writers :
     Waiting(q, q.writers[k]) /\ IsException(TokenOf(q, q.writers[k]))}

FirstExcepting(q) == CHOOSE k \in Excepting(q) : \A j \in Excepting(q) : k <= j

Advanced(q, S) ==
  [q EXCEPT !.read_pos = [w \in DOMAIN @ |-> IF w \in S THEN @[w] + 1 ELSE @[w]]]

(* An exception is taken alone.  What has been peeked before is cancelled  *)
(* by setting the positions of the earlier writers back by one: also of    *)
(* those that had no token and have not been moved.                        *)
Alone_MUT(q) ==
  LET k == FirstExcepting(q)
      ahead == {q.writers[j] : j \in 1 .. k - 1}
  IN  [taken |-> {q.writers[k]},
       queue |-> Advanced(q, ahead \cup {q.writers[k]})]

Alone(q) ==
  LET k == FirstExcepting(q)
      back == {q.writers[j] : j \in {j \in 1 .. k - 1 : ~Waiting(q, q.writers[j])}}
  IN  [taken |-> {q.writers[k]},
       queue |-> [Advanced(q, {q.writers[k]}) EXCEPT
                    !.read_pos = [w \in DOMAIN @ |->
                       IF w \in back THEN @[w] - 1 ELSE @[w]]]]

(* peek: the writers whose token is taken, and the queue after it.         *)
peek(q) ==
  IF q.kind = "unordered"
  THEN LET k == Served(q)
       IN  [taken |-> {q.writers[k]},
            queue |-> [Advanced(q, {q.writers[k]}) EXCEPT
                         !.turn_pos = k % Len(q.writers)]]
  ELSE IF Excepting(q) # {}
  THEN Alone(q)
  ELSE LET S == {w \in WriterSet(q) : Waiting(q, w)}
       IN  [taken |-> S, queue |-> Advanced(q, S)]

add_writer(q, w) ==
  [q EXCEPT !.writers = Ascending(WriterSet(q) \cup {w}),
            !.fifo = With(@, w, EmptyRing),
            !.write_pos = With(@, w, 0),
            !.read_pos = With(@, w, 0)]

exhaust(q, w) == [q EXCEPT !.termination = With(@, w, FALSE)]

is_exhausting(q) == DOMAIN q.termination # {}

(* _transfer_exhaust_tokens: the items of a writer's list that are written *)
(* while there is room.  Those that are in the queue already are passed    *)
(* over, but not when there is no room at all.                             *)
Used(q, w) ==
  LET items == q.exhausted_tokens[w]
      pos == q.write_pos[w]
      room == InFree(q, w)
      old == pos - items[1].seq
  IN  IF items = <<>> \/ room = 0 THEN 0
      ELSE IF old >= 0 /\ old + room < Len(items) THEN old + room
      ELSE Len(items)

Transferred(q, w) == SubSeq(q.exhausted_tokens[w], 1, Used(q, w))

Left(q, w) ==
  SubSeq(q.exhausted_tokens[w], Used(q, w) + 1, Len(q.exhausted_tokens[w]))

(* The same for all writers that have such a list.                         *)
TransferAll(q) ==
  LET moving == DOMAIN q.exhausted_tokens \cap WriterSet(q)
  IN  [q EXCEPT
         !.fifo = [w \in DOMAIN @ |-> IF w \in moving
                     THEN Filled(@[w], q.write_pos[w], Transferred(q, w)) ELSE @[w]],
         !.write_pos = [w \in DOMAIN @ |-> IF w \in moving
                          THEN @[w] + Len(New(@[w], Transferred(q, w))) ELSE @[w]],
         !.exhausted_tokens = [w \in {w \in moving : Left(q, w) # <<>>} |-> Left(q, w)]]

(* The writers that have been terminated and whose tokens are consumed.    *)
Finished(q, S) ==
  {w \in S : w \in WriterSet(q) /\ w \in DOMAIN q.termination
             /\ q.termination[w] /\ ~Waiting(q, w)}

(* remove_writer, for these, and nothing is left to be terminated.         *)
Removed(q, S) ==
  [q EXCEPT !.writers = Ascending(WriterSet(q) \ S),
            !.fifo = Without(@, S),
            !.write_pos = Without(@, S),
            !.read_pos = Without(@, S),
            !.termination = Without(@, S)]

commit(q) ==
  LET moved == TransferAll(q) IN Removed(moved, Finished(moved, DOMAIN moved.termination))

(* set_exhausted_tokens: tokens maps the peer to its remaining tokens, or  *)
(* is empty when the peer had disconnected already.                        *)
set_exhausted_tokens_MUT(q, tokens) ==
  LET got == DOMAIN tokens
      told == [q EXCEPT !.termination =
                 [w \in DOMAIN @ |-> IF w \in got THEN TRUE ELSE @[w]]]
  IN  Removed(told, Finished(told, got))

set_exhausted_tokens_unfinished_MUT(q, tokens) ==
  LET got == DOMAIN tokens \cap DOMAIN q.termination
  IN  TransferAll([q EXCEPT
        !.exhausted_tokens = [w \in DOMAIN @ \cup got |->
                                IF w \in got THEN tokens[w] ELSE @[w]],
        !.termination = [w \in DOMAIN @ |-> w \in got \/ @[w]]])

set_exhausted_tokens(q, tokens) ==
  LET got == DOMAIN tokens
      Old(w) == IF w \in DOMAIN q.exhausted_tokens THEN q.exhausted_tokens[w] ELSE <<>>
      told == [q EXCEPT
                 !.exhausted_tokens =
                    [w \in DOMAIN @ \cup got |->
                       IF w \in got THEN Old(w) \o tokens[w] ELSE @[w]],
                 !.termination =
                    [w \in DOMAIN @ |-> IF w \in got THEN TRUE ELSE @[w]]]
      moved == TransferAll(told)
  IN  Removed(moved, Finished(moved, got))

IsInQueue(q, writers, Token) ==
  /\ DOMAIN q = {"kind", "writers", "fifo", "write_pos", "read_pos", "turn_pos",
                 "exhausted_tokens", "termination"}
  /\ q.kind \in InKinds
  /\ q.writers \in Seq(writers)
  /\ q.fifo \in [WriterSet(q) -> [Slots -> Token \cup {NoToken}]]
  /\ q.write_pos \in [WriterSet(q) -> Nat]
  /\ q.read_pos \in [WriterSet(q) -> Nat]
  /\ q.turn_pos \in Nat
  /\ \A w \in DOMAIN q.exhausted_tokens :
       q.exhausted_tokens[w] \in Seq([seq : Nat, token : Token])
  /\ DOMAIN q.exhausted_tokens \subseteq DOMAIN q.termination
  /\ q.termination \in [DOMAIN q.termination -> BOOLEAN]
  /\ DOMAIN q.termination \subseteq WriterSet(q)
=============================================================================
