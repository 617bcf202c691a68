---------------------------- MODULE TokenTransport ----------------------------
(***************************************************************************)
(* Tokens on their way from an outport to its remote inports, through the  *)
(* tunnels between the runtimes, while the actors that own the ports may   *)
(* migrate.                                                                *)
(*                                                                         *)
(* The outport has one queue with a position per reader, and one           *)
(* TunnelOutEndpoint per reader; each reader is an inport with a queue and *)
(* a TunnelInEndpoint.  The out endpoint sends tokens tentatively, numbered *)
(* by their position, and commits or cancels them as ACKs and NACKs come   *)
(* back.  A NACK (the peer's queue is full) throttles it to one token at a *)
(* time, with a backoff in between.                                        *)
(*                                                                         *)
(* Migration disconnects every endpoint of the actor's ports, serialises   *)
(* the queues, and connects again from the other runtime.  It is modelled  *)
(* as the four messages it exchanges with each peer.                       *)
(*                                                                         *)
(* Abstracted: node and tunnel identities (a tunnel is the pair of         *)
(* channels between the outport and one reader), storage lookups, failed   *)
(* and retried connects, pressure events, termination and exhaustion.      *)
(* Assumed of the environment: the outport's actor does not migrate while  *)
(* the actor of a reader does; the readers' actors may overlap.            *)
(***************************************************************************)
EXTENDS FanoutFIFO, Sequences

CONSTANTS
  Token,        \* what actors write
  Readers,      \* the remote inports connected to the outport
  OutLength,    \* queue_length of the outport
  InLength,     \* queue_length of each inport
  MaxTokens,    \* bound: tokens written
  MaxMoves,     \* bound: migrations started
  MaxOvertakes  \* bound: messages that overtake another one. A tunnel uses
                \* one link at a time but may switch; 0 is a FIFO transport.

ASSUME ReadersAssumption == IsFiniteSet(Readers) /\ Readers # {}
ASSUME TokenAssumption   == Token # {}
ASSUME LengthAssumption  == OutLength \in Nat \ {0} /\ InLength \in Nat \ {0}
ASSUME BoundAssumption   ==
  MaxTokens \in Nat /\ MaxMoves \in Nat /\ MaxOvertakes \in Nat

VARIABLES
  written,      \* history: the tokens the writing actor wrote
  delivered,    \* history: the tokens each reading actor read
  outq,         \* queue of the outport
  inq,          \* queue of each inport
  out_enabled,  \* the writing actor may fire
  out_endpoint, \* the outport has a TunnelOutEndpoint for the reader
  in_endpoint,  \* the inport has its TunnelInEndpoint
  bulk,         \* TunnelOutEndpoint.bulk
  acked,        \* TunnelOutEndpoint.sequencenbrs_acked
  backoff,      \* the monitor holds a backoff for the endpoint
  to_in,        \* messages on their way to the inport's runtime
  to_out,       \* messages on their way to the outport's runtime
  out_phase,    \* migration of the writing actor
  in_phase,     \* migration of each reading actor
  pending,      \* readers with whom a mover's request is unanswered
  moves,        \* migrations so far
  overtakes     \* reorderings so far

queues    == <<written, delivered, outq, inq>>
endpoints == <<out_enabled, out_endpoint, in_endpoint, bulk, acked, backoff>>
phases    == <<out_phase, in_phase, pending, moves>>
vars == <<queues, endpoints, to_in, to_out, phases, overtakes>>

-----------------------------------------------------------------------------
TokenMessage(seq, token) == [cmd |-> "TOKEN", seq |-> seq, token |-> token]
TokenReply(seq, value) == [cmd |-> "TOKEN_REPLY", seq |-> seq, value |-> value]
Control(cmd) == [cmd |-> cmd]

Commands ==
  {"PORT_DISCONNECT", "PORT_DISCONNECT_REPLY", "PORT_CONNECT", "PORT_CONNECT_REPLY"}

InMessage ==
  [cmd : {"TOKEN"}, seq : Nat, token : Token] \cup [cmd : Commands]
OutMessage ==
  [cmd : {"TOKEN_REPLY"}, seq : Nat, value : {"ACK", "NACK"}] \cup [cmd : Commands]

IsNext(channel, cmd) == channel # <<>> /\ Head(channel).cmd = cmd

(* Ports that start out connected and with empty queues: after deployment. *)
Init ==
  LET blank == CHOOSE t \in Token : TRUE IN
  /\ written = <<>>
  /\ delivered = [r \in Readers |-> <<>>]
  /\ outq = NewQueue(OutLength, Readers, blank)
  /\ inq = [r \in Readers |-> NewQueue(InLength, {r}, blank)]
  /\ out_enabled = TRUE
  /\ out_endpoint = [r \in Readers |-> TRUE]
  /\ in_endpoint = [r \in Readers |-> TRUE]
  /\ bulk = [r \in Readers |-> TRUE]
  /\ acked = [r \in Readers |-> {}]
  /\ backoff = [r \in Readers |-> FALSE]
  /\ to_in = [r \in Readers |-> <<>>]
  /\ to_out = [r \in Readers |-> <<>>]
  /\ out_phase = "stay"
  /\ in_phase = [r \in Readers |-> "stay"]
  /\ pending = {}
  /\ moves = 0
  /\ overtakes = 0

-----------------------------------------------------------------------------
(* The actors.                                                             *)

Write(t) ==
  /\ Len(written) < MaxTokens
  /\ out_enabled
  /\ slots_available(outq, 1)
  /\ outq' = write(outq, t)
  /\ written' = Append(written, t)
  /\ UNCHANGED <<delivered, inq, endpoints, to_in, to_out, phases, overtakes>>

(* InPort.read: peek and commit, the inport reading under its own id.      *)
Read(r) ==
  /\ in_endpoint[r]
  /\ tokens_available(inq[r], 1, r)
  /\ delivered' = [delivered EXCEPT ![r] = Append(@, peeked(inq[r], r))]
  /\ inq' = [inq EXCEPT ![r] = commit(peek(@, r), r)]
  /\ UNCHANGED <<written, outq, endpoints, to_in, to_out, phases, overtakes>>

-----------------------------------------------------------------------------
(* The sending side: one call of communicate, and the replies.             *)

(* What the monitor lets the endpoint send: in bulk everything it has, and *)
(* throttled one token, when the last one has been answered.               *)
SendCount(r) ==
  LET ready == outq.write_pos - outq.tentative_read_pos[r]
  IN  IF bulk[r] THEN ready
      ELSE IF ready >= 1 /\ com_is_committed(outq, r) THEN 1 ELSE 0

Outgoing(r, n) ==
  [i \in 1..n |->
     LET pos == outq.tentative_read_pos[r] + i - 1
     IN  TokenMessage(pos - outq.reader_offset[r], outq.fifo[pos % outq.N])]

Communicate(r) ==
  /\ out_endpoint[r]
  /\ ~backoff[r]
  /\ SendCount(r) > 0
  /\ to_in' = [to_in EXCEPT ![r] = @ \o Outgoing(r, SendCount(r))]
  /\ outq' = set_tentative(outq, r, outq.tentative_read_pos[r] + SendCount(r))
  /\ UNCHANGED <<written, delivered, inq, endpoints, to_out, phases, overtakes>>

(* Event_Monitor._check_backoff, when the time has passed.                 *)
BackoffExpires(r) ==
  /\ backoff[r]
  /\ backoff' = [backoff EXCEPT ![r] = FALSE]
  /\ UNCHANGED <<queues, out_enabled, out_endpoint, in_endpoint, bulk, acked,
                 to_in, to_out, phases, overtakes>>

(* The loop over the kept ACKs in _reply_ack: it commits from the read     *)
(* position up to the first position not acknowledged.                     *)
FirstUnacked(q, r, seqs) ==
  LET from == q.read_pos[r]  to == q.tentative_read_pos[r]
  IN  IF from >= to THEN from
      ELSE Min({p \in from..to : p = to \/ p - q.reader_offset[r] \notin seqs})

Drained(q, r, seqs) ==
  set_committed(q, r, FirstUnacked(q, r, seqs))

(* Numbers past the tentative position are dropped as invalid, those just  *)
(* committed as handled; the others are kept.                              *)
Kept(q, r, seqs) ==
  {n \in seqs : LET pos == n + q.reader_offset[r] IN
     /\ pos < q.tentative_read_pos[r]
     /\ pos < q.read_pos[r] \/ pos >= FirstUnacked(q, r, seqs)}

ReceiveAck(r) ==
  /\ IsNext(to_out[r], "TOKEN_REPLY")
  /\ Head(to_out[r]).value = "ACK"
  /\ LET seq  == Head(to_out[r]).seq
         resp == com_commit_response(outq, r, seq)
         seqs == acked[r] \cup {seq}
     IN  \/ /\ ~out_endpoint[r]
            /\ UNCHANGED <<outq, bulk, acked, backoff>>
         \/ /\ out_endpoint[r]
            /\ bulk' = [bulk EXCEPT ![r] = TRUE]
            /\ backoff' = [backoff EXCEPT ![r] = FALSE]
            /\ \/ /\ resp \in {"handled", "invalid"}
                  /\ outq' = com_commit(outq, r, seq)
                  /\ UNCHANGED acked
               \/ /\ resp \in {"unhandled", "none"}
                  /\ outq' = Drained(outq, r, seqs)
                  /\ acked' = [acked EXCEPT ![r] = Kept(outq, r, seqs)]
  /\ to_out' = [to_out EXCEPT ![r] = Tail(@)]
  /\ UNCHANGED <<written, delivered, inq, out_enabled, out_endpoint, in_endpoint,
                 to_in, phases, overtakes>>

ReceiveNack(r) ==
  /\ IsNext(to_out[r], "TOKEN_REPLY")
  /\ Head(to_out[r]).value = "NACK"
  /\ LET seq == Head(to_out[r]).seq
     IN  \/ /\ ~out_endpoint[r]
            /\ UNCHANGED <<outq, bulk, acked, backoff>>
         \/ /\ out_endpoint[r]
            /\ bulk' = [bulk EXCEPT ![r] = FALSE]
            /\ backoff' = [backoff EXCEPT ![r] = TRUE]
            /\ outq' = com_cancel(outq, r, seq)
            /\ acked' = IF com_cancel_raises(outq, r, seq)
                        THEN acked
                        ELSE [acked EXCEPT ![r] = {n \in @ : n < seq}]
  /\ to_out' = [to_out EXCEPT ![r] = Tail(@)]
  /\ UNCHANGED <<written, delivered, inq, out_enabled, out_endpoint, in_endpoint,
                 to_in, phases, overtakes>>

-----------------------------------------------------------------------------
(* The receiving side: every token is answered, a new or an old one with   *)
(* an ACK, one that does not fit with a NACK.  A token for a port without  *)
(* the endpoint is dropped (an ABORT reply is ignored by the sender).      *)

ReceiveToken(r) ==
  /\ IsNext(to_in[r], "TOKEN")
  /\ LET m    == Head(to_in[r])
         resp == com_write_response(inq[r], m.seq)
         ok   == resp \in {"handled", "unhandled"}
     IN  \/ /\ ~in_endpoint[r]
            /\ UNCHANGED <<inq, to_out>>
         \/ /\ in_endpoint[r]
            /\ inq' = IF resp = "handled"
                      THEN [inq EXCEPT ![r] = write(@, m.token)]
                      ELSE inq
            /\ to_out' = [to_out EXCEPT ![r] =
                            Append(@, TokenReply(m.seq, IF ok THEN "ACK" ELSE "NACK"))]
  /\ to_in' = [to_in EXCEPT ![r] = Tail(@)]
  /\ UNCHANGED <<written, delivered, outq, endpoints, phases, overtakes>>

-----------------------------------------------------------------------------
(* Migration.  Both sides of a connection detach and attach the same way.  *)

DetachOut_uncancelled_MUT(R) ==
  /\ out_endpoint' = [r \in Readers |-> out_endpoint[r] /\ r \notin R]
  /\ bulk' = [r \in Readers |-> bulk[r] \/ r \in R]
  /\ acked' = [r \in Readers |-> IF r \in R THEN {} ELSE acked[r]]
  /\ backoff' = [r \in Readers |-> backoff[r] /\ r \notin R]
  /\ out_enabled' = (out_enabled /\ \E r \in Readers : out_endpoint'[r])
  /\ UNCHANGED outq

(* OutPort.disconnect for a set of readers: each endpoint cancels what it  *)
(* sent, and leaves the monitor.  Without endpoints the actor is no longer *)
(* enabled.  A gone endpoint has the values of the next one, a new object. *)
DetachOut(R) ==
  /\ out_endpoint' = [r \in Readers |-> out_endpoint[r] /\ r \notin R]
  /\ outq' = [outq EXCEPT !.tentative_read_pos =
                [r \in Readers |-> IF r \in R THEN outq.read_pos[r] ELSE @[r]]]
  /\ bulk' = [r \in Readers |-> bulk[r] \/ r \in R]
  /\ acked' = [r \in Readers |-> IF r \in R THEN {} ELSE acked[r]]
  /\ backoff' = [r \in Readers |-> backoff[r] /\ r \notin R]
  /\ out_enabled' = (out_enabled /\ \E r \in Readers : out_endpoint'[r])

AttachOut_still_disabled_MUT(r) ==
  /\ out_endpoint' = [out_endpoint EXCEPT ![r] = TRUE]
  /\ UNCHANGED <<out_enabled, outq, bulk, acked, backoff>>

(* OutPort.attach_endpoint: the actor is enabled again once the port is    *)
(* connected to all its peers.  The queue knows the reader already.        *)
AttachOut(r) ==
  /\ out_endpoint' = [out_endpoint EXCEPT ![r] = TRUE]
  /\ out_enabled' = (out_enabled \/ \A s \in Readers : out_endpoint'[s])
  /\ UNCHANGED <<outq, bulk, acked, backoff>>

(* The actor of reader r starts to migrate.                                *)
LeaveIn(r) ==
  /\ moves < MaxMoves
  /\ in_phase[r] = "stay" /\ out_phase = "stay"
  /\ in_phase' = [in_phase EXCEPT ![r] = "leaving"]
  /\ in_endpoint' = [in_endpoint EXCEPT ![r] = FALSE]
  /\ to_out' = [to_out EXCEPT ![r] = Append(@, Control("PORT_DISCONNECT"))]
  /\ pending' = pending \cup {r}
  /\ moves' = moves + 1
  /\ UNCHANGED <<queues, out_enabled, out_endpoint, bulk, acked, backoff, to_in,
                 out_phase, overtakes>>

(* The actor of the outport starts to migrate.                             *)
LeaveOut ==
  /\ moves < MaxMoves
  /\ out_phase = "stay" /\ \A r \in Readers : in_phase[r] = "stay"
  /\ out_phase' = "leaving"
  /\ DetachOut(Readers)
  /\ to_in' = [r \in Readers |-> Append(to_in[r], Control("PORT_DISCONNECT"))]
  /\ pending' = Readers
  /\ moves' = moves + 1
  /\ UNCHANGED <<written, delivered, inq, in_endpoint, to_out, in_phase, overtakes>>

(* The outport's runtime handles reader r's request to disconnect.         *)
DisconnectRequestOut(r) ==
  /\ IsNext(to_out[r], "PORT_DISCONNECT")
  /\ DetachOut({r})
  /\ to_out' = [to_out EXCEPT ![r] = Tail(@)]
  /\ to_in' = [to_in EXCEPT ![r] = Append(@, Control("PORT_DISCONNECT_REPLY"))]
  /\ UNCHANGED <<written, delivered, inq, in_endpoint, phases, overtakes>>

(* Reader r's runtime handles the outport's request to disconnect.         *)
DisconnectRequestIn(r) ==
  /\ IsNext(to_in[r], "PORT_DISCONNECT")
  /\ in_endpoint' = [in_endpoint EXCEPT ![r] = FALSE]
  /\ to_in' = [to_in EXCEPT ![r] = Tail(@)]
  /\ to_out' = [to_out EXCEPT ![r] = Append(@, Control("PORT_DISCONNECT_REPLY"))]
  /\ UNCHANGED <<queues, out_enabled, out_endpoint, bulk, acked, backoff,
                 phases, overtakes>>

(* The mover learns that a peer has disconnected.                          *)
DisconnectReplyIn(r) ==
  /\ IsNext(to_in[r], "PORT_DISCONNECT_REPLY")
  /\ to_in' = [to_in EXCEPT ![r] = Tail(@)]
  /\ pending' = pending \ {r}
  /\ UNCHANGED <<queues, endpoints, to_out, out_phase, in_phase, moves, overtakes>>

DisconnectReplyOut(r) ==
  /\ IsNext(to_out[r], "PORT_DISCONNECT_REPLY")
  /\ to_out' = [to_out EXCEPT ![r] = Tail(@)]
  /\ pending' = pending \ {r}
  /\ UNCHANGED <<queues, endpoints, to_in, out_phase, in_phase, moves, overtakes>>

(* All peers have disconnected: the actor's state, its queues included, is *)
(* serialised and restored on the other runtime, which connects its ports. *)
ArriveIn(r) ==
  /\ in_phase[r] = "leaving" /\ r \notin pending
  /\ in_phase' = [in_phase EXCEPT ![r] = "arriving"]
  /\ to_out' = [to_out EXCEPT ![r] = Append(@, Control("PORT_CONNECT"))]
  /\ pending' = pending \cup {r}
  /\ UNCHANGED <<queues, endpoints, to_in, out_phase, moves, overtakes>>

ArriveOut ==
  /\ out_phase = "leaving" /\ pending = {}
  /\ out_phase' = "arriving"
  /\ to_in' = [r \in Readers |-> Append(to_in[r], Control("PORT_CONNECT"))]
  /\ pending' = Readers
  /\ UNCHANGED <<queues, endpoints, to_out, in_phase, moves, overtakes>>

(* The peer of an arrived port attaches its endpoint and answers.          *)
ConnectRequestOut(r) ==
  /\ IsNext(to_out[r], "PORT_CONNECT")
  /\ AttachOut(r)
  /\ to_out' = [to_out EXCEPT ![r] = Tail(@)]
  /\ to_in' = [to_in EXCEPT ![r] = Append(@, Control("PORT_CONNECT_REPLY"))]
  /\ UNCHANGED <<written, delivered, inq, in_endpoint, phases, overtakes>>

ConnectRequestIn(r) ==
  /\ IsNext(to_in[r], "PORT_CONNECT")
  /\ in_endpoint' = [in_endpoint EXCEPT ![r] = TRUE]
  /\ to_in' = [to_in EXCEPT ![r] = Tail(@)]
  /\ to_out' = [to_out EXCEPT ![r] = Append(@, Control("PORT_CONNECT_REPLY"))]
  /\ UNCHANGED <<queues, out_enabled, out_endpoint, bulk, acked, backoff,
                 phases, overtakes>>

(* The arrived port attaches its own endpoint when the peer has answered.  *)
ConnectReplyIn(r) ==
  /\ IsNext(to_in[r], "PORT_CONNECT_REPLY")
  /\ in_endpoint' = [in_endpoint EXCEPT ![r] = TRUE]
  /\ in_phase' = [in_phase EXCEPT ![r] = "stay"]
  /\ to_in' = [to_in EXCEPT ![r] = Tail(@)]
  /\ pending' = pending \ {r}
  /\ UNCHANGED <<queues, out_enabled, out_endpoint, bulk, acked, backoff, to_out,
                 out_phase, moves, overtakes>>

ConnectReplyOut(r) ==
  /\ IsNext(to_out[r], "PORT_CONNECT_REPLY")
  /\ AttachOut(r)
  /\ to_out' = [to_out EXCEPT ![r] = Tail(@)]
  /\ pending' = pending \ {r}
  /\ out_phase' = IF pending' = {} THEN "stay" ELSE out_phase
  /\ UNCHANGED <<written, delivered, inq, in_endpoint, to_in, in_phase, moves,
                 overtakes>>

-----------------------------------------------------------------------------
(* The tunnel switches links, and a message overtakes the one before it.   *)

Swapped(channel, i) ==
  [channel EXCEPT ![i] = channel[i + 1], ![i + 1] = channel[i]]

OvertakeIn(r) ==
  /\ overtakes < MaxOvertakes
  /\ \E i \in 1 .. Len(to_in[r]) - 1 :
       to_in' = [to_in EXCEPT ![r] = Swapped(@, i)]
  /\ overtakes' = overtakes + 1
  /\ UNCHANGED <<queues, endpoints, to_out, phases>>

OvertakeOut(r) ==
  /\ overtakes < MaxOvertakes
  /\ \E i \in 1 .. Len(to_out[r]) - 1 :
       to_out' = [to_out EXCEPT ![r] = Swapped(@, i)]
  /\ overtakes' = overtakes + 1
  /\ UNCHANGED <<queues, endpoints, to_in, phases>>

-----------------------------------------------------------------------------
(* What the runtimes do by themselves, for one reader.                     *)
Transport(r) ==
  \/ Communicate(r)
  \/ BackoffExpires(r)
  \/ ReceiveToken(r)
  \/ ReceiveAck(r)
  \/ ReceiveNack(r)

Reconnection(r) ==
  \/ DisconnectRequestOut(r)
  \/ DisconnectRequestIn(r)
  \/ DisconnectReplyIn(r)
  \/ DisconnectReplyOut(r)
  \/ ArriveIn(r)
  \/ ConnectRequestOut(r)
  \/ ConnectRequestIn(r)
  \/ ConnectReplyIn(r)
  \/ ConnectReplyOut(r)

Next ==
  \/ \E t \in Token : Write(t)
  \/ LeaveOut
  \/ ArriveOut
  \/ \E r \in Readers :
       \/ Read(r)
       \/ Transport(r)
       \/ LeaveIn(r)
       \/ Reconnection(r)
       \/ OvertakeIn(r)
       \/ OvertakeOut(r)

Spec == Init /\ [][Next]_vars

(* The scheduler runs its strategy again and again (at the latest when     *)
(* _check_replication does, every replication interval), and with it every *)
(* endpoint's communicate and every enabled actor; a backoff ends; the     *)
(* transport delivers.  Nothing makes an actor write, or migrate.          *)
Fairness ==
  /\ WF_vars(ArriveOut)
  /\ \A r \in Readers :
       /\ WF_vars(Read(r))
       /\ WF_vars(Communicate(r))
       /\ WF_vars(BackoffExpires(r))
       /\ WF_vars(ReceiveToken(r))
       /\ WF_vars(ReceiveAck(r) \/ ReceiveNack(r))
       /\ WF_vars(Reconnection(r))

FairSpec == Spec /\ Fairness

-----------------------------------------------------------------------------
(* PROPERTIES *)

(* Every variable holds a value of its kind; in particular no position is  *)
(* ever negative and only a mover is awaited.                              *)
TypeOK ==
  /\ written \in Seq(Token)
  /\ delivered \in [Readers -> Seq(Token)]
  /\ outq \in Queue(OutLength, Readers, Token)
  /\ outq.reader_offset = [r \in Readers |-> 0]
  /\ inq = [r \in Readers |-> inq[r]]
  /\ \A r \in Readers : inq[r] \in Queue(InLength, {r}, Token)
  /\ out_enabled \in BOOLEAN
  /\ out_endpoint \in [Readers -> BOOLEAN]
  /\ in_endpoint \in [Readers -> BOOLEAN]
  /\ bulk \in [Readers -> BOOLEAN]
  /\ acked \in [Readers -> SUBSET Nat]
  /\ backoff \in [Readers -> BOOLEAN]
  /\ to_in \in [Readers -> Seq(InMessage)]
  /\ to_out \in [Readers -> Seq(OutMessage)]
  /\ out_phase \in {"stay", "leaving", "arriving"}
  /\ in_phase \in [Readers -> {"stay", "leaving", "arriving"}]
  /\ pending \subseteq Readers
  /\ moves \in Nat
  /\ overtakes \in Nat

(* What an actor reads is, token by token, what the other actor wrote:     *)
(* nothing lost, repeated or out of order, whatever is cancelled, resent   *)
(* or migrated on the way, and even if messages overtake each other.       *)
DeliveryPrefix ==
  \A r \in Readers : \A i \in 1 .. Len(delivered[r]) :
    i <= Len(written) /\ delivered[r][i] = written[i]

(* The outport forgets a token only when the inport has stored it: the     *)
(* slot of an uncommitted token is all that is left of it if the reply is  *)
(* lost in a migration.                                                    *)
AckedImpliesStored ==
  \A r \in Readers : outq.read_pos[r] <= inq[r].write_pos

(* Nothing is sent and not committed once the last reply has been received: *)
(* it is what communicate relies on to send the next token when throttled. *)
AnsweredIsCommitted ==
  \A r \in Readers :
    out_endpoint[r] /\ to_in[r] = <<>> /\ to_out[r] = <<>> => com_is_committed(outq, r)

(* When a mover's peers have all answered, and its queues are serialised,  *)
(* the peers are detached, no token is half sent and none is in the air.   *)
CleanHandover ==
  \A r \in Readers :
    (r \notin pending /\ "leaving" \in {out_phase, in_phase[r]}) =>
      /\ ~out_endpoint[r] /\ ~in_endpoint[r]
      /\ com_is_committed(outq, r)
      /\ to_in[r] = <<>> /\ to_out[r] = <<>>

(* The transport implements the reliable channel: the queues and tunnels   *)
(* between the two actors change nothing but the delay.                    *)
RC == INSTANCE ReliableChannel WITH
        sent <- written, received <- delivered, Capacity <- OutLength + InLength
ImplementsChannel == RC!Spec

(* And under fairness a fair one: what was written arrives at every reader, *)
(* however often a full queue refuses it or its endpoints are moved.       *)
ImplementsFairChannel == RC!FairSpec

-----------------------------------------------------------------------------
(* The inductive invariant behind DeliveryPrefix and AckedImpliesStored.   *)

(* A position's slot holds the token written at that position.             *)
Holds(q, p) == q.fifo[p % q.N] = written[p + 1]

OutQueueInv ==
  /\ outq.write_pos = Len(written)
  /\ \A r \in Readers :
       /\ outq.read_pos[r] <= outq.write_pos
       /\ outq.write_pos - outq.read_pos[r] <= OutLength
       /\ outq.tentative_read_pos[r] <= outq.write_pos
       /\ \A p \in outq.read_pos[r] .. outq.write_pos - 1 : Holds(outq, p)

InQueueInv ==
  \A r \in Readers :
    /\ inq[r].read_pos[r] = Len(delivered[r])
    /\ inq[r].tentative_read_pos[r] = inq[r].read_pos[r]
    /\ inq[r].read_pos[r] <= inq[r].write_pos
    /\ inq[r].write_pos - inq[r].read_pos[r] <= InLength
    /\ inq[r].write_pos <= outq.write_pos
    /\ \A p \in inq[r].read_pos[r] .. inq[r].write_pos - 1 : Holds(inq[r], p)

(* A token in the air that the reader does not have yet is the right one.  *)
TokensInFlight ==
  \A r \in Readers : \A m \in Range(to_in[r]) :
    m.cmd = "TOKEN" =>
      /\ m.seq < outq.write_pos
      /\ m.seq >= inq[r].write_pos => m.token = written[m.seq + 1]

(* Only stored tokens are acknowledged.                                    *)
AcksInFlight ==
  \A r \in Readers : \A m \in Range(to_out[r]) :
    m.cmd = "TOKEN_REPLY" /\ m.value = "ACK" => m.seq < inq[r].write_pos

KeptAcksStored ==
  \A r \in Readers : \A n \in acked[r] : n < inq[r].write_pos

TransportInv ==
  /\ OutQueueInv
  /\ InQueueInv
  /\ TokensInFlight
  /\ AcksInFlight
  /\ KeptAcksStored
  /\ AckedImpliesStored
  /\ DeliveryPrefix

-----------------------------------------------------------------------------
(* The sender learns that a token arrived: its slot becomes free again.    *)
EventuallyCommitted ==
  \A n \in 1..MaxTokens : \A r \in Readers :
    Len(written) >= n ~> outq.read_pos[r] >= n

(* A migration that started ends with the port connected again.            *)
MovesComplete ==
  /\ out_phase = "leaving" ~> out_enabled
  /\ \A r \in Readers : in_phase[r] = "leaving" ~> in_endpoint[r] /\ out_endpoint[r]
=============================================================================
