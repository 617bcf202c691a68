------------------------------ MODULE FanoutFIFO ------------------------------
(***************************************************************************)
(* The default token queue of a Calvin port (class FanoutFIFO): one ring   *)
(* buffer, one write position and, per reader, a committed and a tentative *)
(* read position.  Positions only grow; a slot is addressed modulo the     *)
(* ring's size N, one slot of which always stays unused.                   *)
(*                                                                         *)
(* The queue is a record, so that the modules that own queues (an outport, *)
(* an inport) keep one variable each and apply these operators to it.      *)
(* Abstracted: the contents of a token, the diagnostics, and the fields    *)
(* that are only used when a port is terminated or exhausted.              *)
(*                                                                         *)
(* The operators whose names end in _MUT are mistaken variants of the one  *)
(* that follows; PROJECT.json names the property that each one breaks.     *)
(***************************************************************************)
EXTENDS Integers, FiniteSetsExt

(* A queue of queue_length tokens: the ring has one slot more.  The slots  *)
(* start with a token nobody reads.                                        *)
NewQueue(length, readers, token) ==
  [ N                  |-> length + 1,
    fifo               |-> [i \in 0..length |-> token],
    write_pos          |-> 0,
    read_pos           |-> [r \in readers |-> 0],
    tentative_read_pos |-> [r \in readers |-> 0],
    reader_offset      |-> [r \in readers |-> 0] ]

(* The queues there are, of a length, for readers, and of tokens.          *)
Queue(length, readers, tokens) ==
  [ N : {length + 1}, fifo : [0..length -> tokens], write_pos : Nat,
    read_pos : [readers -> Nat], tentative_read_pos : [readers -> Nat],
    reader_offset : [readers -> Nat] ]

(* The committed position of the slowest reader.                           *)
last_readpos(q) ==
  Min({q.read_pos[r] : r \in DOMAIN q.read_pos})

slots_available(q, length) ==
  q.N - ((q.write_pos - last_readpos(q)) % q.N) - 1 >= length

tokens_available(q, length, reader) ==
  q.write_pos - q.tentative_read_pos[reader] >= length

write(q, token) ==
  [q EXCEPT !.fifo = [@ EXCEPT ![q.write_pos % q.N] = token],
            !.write_pos = @ + 1]

(* The assignments to a reader's two positions.                            *)
set_tentative(q, reader, pos) ==
  [q EXCEPT !.tentative_read_pos = [@ EXCEPT ![reader] = pos]]

set_committed(q, reader, pos) ==
  [q EXCEPT !.read_pos = [@ EXCEPT ![reader] = pos]]

(* Reading is tentative until it is committed.                             *)
peeked(q, reader) ==
  q.fifo[q.tentative_read_pos[reader] % q.N]

peek(q, reader) ==
  set_tentative(q, reader, q.tentative_read_pos[reader] + 1)

commit(q, reader) ==
  set_committed(q, reader, q.tentative_read_pos[reader])

-----------------------------------------------------------------------------
(* The operations of the token transport, which name a position by its     *)
(* sequence number.                                                        *)

com_write_response_ahead_MUT(q, seq) ==
  IF seq >= q.write_pos
  THEN IF slots_available(q, 1) THEN "handled" ELSE "full"
  ELSE "unhandled"

com_write_response_full_acked_MUT(q, seq) ==
  IF seq = q.write_pos /\ slots_available(q, 1)
  THEN "handled"
  ELSE IF seq <= q.write_pos THEN "unhandled" ELSE "invalid"

com_write_response_old_refused_MUT(q, seq) ==
  IF seq = q.write_pos
  THEN IF slots_available(q, 1) THEN "handled" ELSE "full"
  ELSE "invalid"

(* The answer of com_write; "full" stands for the QueueFull exception.     *)
com_write_response(q, seq) ==
  IF seq = q.write_pos
  THEN IF slots_available(q, 1) THEN "handled" ELSE "full"
  ELSE IF seq < q.write_pos THEN "unhandled" ELSE "invalid"

(* The answer of com_commit.  When every sent token is committed already   *)
(* the function falls off its end and answers None.                        *)
com_commit_response(q, reader, seq) ==
  LET pos == seq + q.reader_offset[reader]
  IN  IF pos >= q.tentative_read_pos[reader]
      THEN "invalid"
      ELSE IF q.read_pos[reader] >= q.tentative_read_pos[reader]
           THEN "none"
           ELSE IF pos = q.read_pos[reader] THEN "handled" ELSE "unhandled"

com_commit_unmoved_MUT(q, reader, seq) == q

com_commit(q, reader, seq) ==
  IF com_commit_response(q, reader, seq) = "handled"
  THEN set_committed(q, reader, q.read_pos[reader] + 1)
  ELSE q

(* com_cancel succeeds on a position that was sent and not cancelled.  On  *)
(* any other position it reads self.reader_pos, an attribute no queue has, *)
(* and raises: the caller's reply handler swallows the exception.          *)
com_cancel_raises(q, reader, seq) ==
  seq + q.reader_offset[reader] >= q.tentative_read_pos[reader]

com_cancel(q, reader, seq) ==
  IF com_cancel_raises(q, reader, seq)
  THEN q
  ELSE set_tentative(q, reader, seq + q.reader_offset[reader])

com_is_committed(q, reader) ==
  q.tentative_read_pos[reader] = q.read_pos[reader]
=============================================================================
