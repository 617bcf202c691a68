---------------------------- MODULE DispatchQueue ----------------------------
(***************************************************************************)
(* The queue of an outport with several readers, as operators on a record: *)
(* runtime/north/plugins/port/queue/fanout_base.py and its subclasses,     *)
(* which send every token to one of the readers, and fanout_fifo.py, which *)
(* sends it to all.  The one ring that the readers of a "fanout" queue     *)
(* share appears as a copy for each of them.                               *)
(***************************************************************************)
EXTENDS PeerRings

TurnKinds == {"ordered", "round-robin", "random"}
OutKinds  == TurnKinds \cup {"balanced", "mapped", "fanout"}

ReaderSet(q) == {q.readers[k] : k \in DOMAIN q.readers}

(* The first len of the indexes 0, 1, ..., n - 1, 0, 1, ...                *)
Alternating(n, len) == [k \in 1 .. len |-> (k - 1) % n]

(* The schedules that a queue of n readers may start with.                 *)
FirstTurns(kind, n) ==
  CASE kind = "random"                   -> [1 .. N -> 0 .. n - 1]
    [] kind \in {"ordered", "round-robin"} -> {Alternating(n, N)}
    [] OTHER                             -> {<<>>}

NewOutQueues(kind, readers) ==
  {[kind |-> kind, readers |-> Ascending(readers), reader_turn |-> turn,
    turn_pos |-> 0,
    fifo |-> [r \in readers |-> EmptyRing],
    write_pos |-> [r \in readers |-> 0],
    read_pos |-> [r \in readers |-> 0],
    tentative_read_pos |-> [r \in readers |-> 0],
    reader_offset |-> [r \in readers |-> 0]] :
     turn \in FirstTurns(kind, Cardinality(readers))}

Free(q, r) == Room(q.write_pos[r], q.read_pos[r])

Unsent(q, r) == q.write_pos[r] - q.tentative_read_pos[r]

(* reader_turn[turn_pos % N] and the entry before it; the list has fewer   *)
(* than N entries when _reset_turn has cut it.                             *)
TurnAt(q, pos) == q.reader_turn[(pos % N) + 1]

NextReader(q) == q.readers[TurnAt(q, q.turn_pos) + 1]

TurnRaises(q) ==
  /\ q.kind \in {"ordered", "round-robin"}
  /\ ((q.turn_pos - 1) % N) + 1 \notin DOMAIN q.reader_turn

slots_available_MUT(q) ==
  CASE q.kind \in TurnKinds  -> Free(q, NextReader(q)) >= 0
    [] q.kind = "balanced"   -> \E r \in ReaderSet(q) : Free(q, r) >= 0
    [] OTHER                 -> \A r \in ReaderSet(q) : Free(q, r) >= 0

slots_available(q) ==
  CASE q.kind \in TurnKinds  -> Free(q, NextReader(q)) > 0
    [] q.kind = "balanced"   -> \E r \in ReaderSet(q) : Free(q, r) > 0
    [] OTHER                 -> \A r \in ReaderSet(q) : Free(q, r) > 0

(* The readers a token may go to, as sets: for a "mapped" queue the token  *)
(* itself selects, and may select a reader that has been removed.          *)
Destinations(q, mapping) ==
  CASE q.kind \in TurnKinds -> {{NextReader(q)}}
    [] q.kind = "balanced"  ->
         {{CHOOSE r \in ReaderSet(q) : \A p \in ReaderSet(q) :
             \/ Free(q, r) > Free(q, p)
             \/ Free(q, r) = Free(q, p) /\ r >= p}}
    [] q.kind = "mapped"    -> {{r} : r \in mapping}
    [] OTHER                -> {ReaderSet(q)}

(* The schedule after a turn: the slot just used is filled for the round   *)
(* to come.                                                                *)
Turned_MUT(q) ==
  IF q.kind \in TurnKinds THEN {[q EXCEPT !.turn_pos = @ + 1]} ELSE {q}

Turned(q) ==
  LET next == IF q.kind = "random"
              THEN 0 .. Len(q.readers) - 1
              ELSE {(TurnAt(q, q.turn_pos - 1) + 1) % Len(q.readers)}
  IN  IF q.kind \in TurnKinds
      THEN {[q EXCEPT !.reader_turn[(q.turn_pos % N) + 1] = p,
                      !.turn_pos = @ + 1] : p \in next}
      ELSE {q}

Put(q, to, token) ==
  [q EXCEPT !.fifo = [r \in DOMAIN @ |->
              IF r \in to THEN [@[r] EXCEPT ![q.write_pos[r] % N] = token]
                          ELSE @[r]],
            !.write_pos = [r \in DOMAIN @ |->
              IF r \in to THEN @[r] + 1 ELSE @[r]]]

write(q, to, token) == {Put(p, to, token) : p \in Turned(q)}

(* What the endpoint of reader r sends next, from position pos: the number *)
(* that goes with a token counts from where the reader has joined.         *)
com_peek(q, r, pos) ==
  [seq |-> pos - q.reader_offset[r], token |-> q.fifo[r][pos % N]]

Peeked(q, r, pos) == [q EXCEPT !.tentative_read_pos[r] = pos]

com_commit(q, r, seq) ==
  IF /\ seq + q.reader_offset[r] = q.read_pos[r]
     /\ q.read_pos[r] < q.tentative_read_pos[r]
  THEN [q EXCEPT !.read_pos[r] = @ + 1]
  ELSE q

(* LocalOutEndpoint.communicate peeks at a number of tokens and commits    *)
(* each as soon as it is stored; none of them, if one before was not.      *)
Moved(q, r, count) ==
  LET from == q.tentative_read_pos[r]
  IN  [q EXCEPT !.tentative_read_pos[r] = from + count,
                !.read_pos[r] = IF @ = from THEN from + count ELSE @]

(* A position at or past the tentative one makes the code read a field     *)
(* that does not exist: nothing is cancelled.                              *)
com_cancel_MUT(q, r, seq) == q

com_cancel(q, r, seq) ==
  IF seq + q.reader_offset[r] >= q.tentative_read_pos[r]
  THEN q
  ELSE [q EXCEPT !.tentative_read_pos[r] = seq + q.reader_offset[r]]

com_is_committed(q, r) == q.tentative_read_pos[r] = q.read_pos[r]

(* remove_reader and _reset_turn: the schedule is made again, from the     *)
(* reader whose turn it was, but cut to N entries before it is known that  *)
(* there are as many.                                                      *)
ResetTurns(q, n) ==
  LET pos == TurnAt(q, q.turn_pos)
      end == IF N + pos < N * n THEN N + pos ELSE N * n
  IN  CASE q.kind = "random" -> IF n = 0 THEN {<<>>} ELSE [1 .. N -> 0 .. n - 1]
        [] q.kind \in {"ordered", "round-robin"} ->
             {SubSeq(Alternating(n, N * n), pos + 1, end)}
        [] OTHER             -> {q.reader_turn}

remove_reader(q, r) ==
  {[q EXCEPT !.readers = Ascending(ReaderSet(q) \ {r}),
             !.fifo = Without(@, {r}),
             !.write_pos = Without(@, {r}),
             !.read_pos = Without(@, {r}),
             !.tentative_read_pos = Without(@, {r}),
             !.reader_offset = Without(@, {r}),
             !.reader_turn = turn,
             !.turn_pos = IF q.kind \in TurnKinds THEN 0 ELSE @] :
     turn \in ResetTurns(q, Len(q.readers) - 1)}

(* exhaust returns the tokens that are not committed, with their position  *)
(* in the queue, and removes the reader.                                   *)
Remaining_MUT(q, r) ==
  LET from == q.tentative_read_pos[r]
  IN  [k \in 1 .. q.write_pos[r] - from |->
         [seq |-> from + k - 1, token |-> q.fifo[r][(from + k - 1) % N]]]

Remaining(q, r) ==
  LET from == q.read_pos[r]
  IN  [k \in 1 .. q.write_pos[r] - from |->
         [seq |-> from + k - 1, token |-> q.fifo[r][(from + k - 1) % N]]]

(* add_reader of a replica: a "fanout" queue starts it with the oldest     *)
(* token that it still has, a dispatching one with an empty ring.          *)
add_reader(q, r) ==
  LET oldest == CHOOSE p \in ReaderSet(q) :
                  \A s \in ReaderSet(q) : q.read_pos[p] <= q.read_pos[s]
      late == q.kind = "fanout"
      from == IF late THEN q.read_pos[oldest] ELSE 0
  IN  [q EXCEPT
         !.readers = Ascending(ReaderSet(q) \cup {r}),
         !.fifo = With(@, r, IF late THEN @[oldest] ELSE EmptyRing),
         !.write_pos = With(@, r, IF late THEN @[oldest] ELSE 0),
         !.read_pos = With(@, r, from),
         !.tentative_read_pos = With(@, r, from),
         !.reader_offset = With(@, r, from)]

IsOutQueue(q, readers, Token) ==
  /\ DOMAIN q = {"kind", "readers", "reader_turn", "turn_pos", "fifo", "write_pos",
                 "read_pos", "tentative_read_pos", "reader_offset"}
  /\ q.kind \in OutKinds
  /\ q.readers \in Seq(readers)
  /\ q.reader_turn \in Seq(Nat)
  /\ q.turn_pos \in Nat
  /\ q.fifo \in [ReaderSet(q) -> [Slots -> Token \cup {NoToken}]]
  /\ \A pos \in {q.write_pos, q.read_pos, q.tentative_read_pos, q.reader_offset} :
       pos \in [ReaderSet(q) -> Nat]
=============================================================================
