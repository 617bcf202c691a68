------------------------------ MODULE PortQueues ------------------------------
(***************************************************************************)
(* Outports that dispatch tokens to several readers, inports that collect  *)
(* them from several writers, the local and tunnelled endpoints between    *)
(* them, and the exhaustion of a connection: the disconnection that hands  *)
(* the tokens left in the outport's queue over to the inport               *)
(* (runtime/north/plugins/port/queue, endpoint and connection).            *)
(*                                                                         *)
(* A link <<o, i>> connects outport o with inport i.  The ports and their  *)
(* queues are chosen in the initial state, by a scenario.  Requests and    *)
(* token messages between two runtimes share one link, which is FIFO and   *)
(* stays up; the order of ACKs is then that of the tokens, so that the     *)
(* list of ACKs kept for later (TokenTransport) is left out.               *)
(***************************************************************************)
EXTENDS Integers, Sequences, FiniteSets

CONSTANTS Scenarios,   \* [links, out, in, local, late, exhausted, exceptions]
          OutN,        \* slots of an outport's ring
          InN,         \* slots of an inport's ring
          MaxTokens    \* bound: tokens written to all outports

NoToken == 0

Token == {n \in -MaxTokens .. MaxTokens : n # 0}

VARIABLES conf,         \* the scenario
          outq, inq,    \* queues of the ports
          out_endpoint, \* links attached at the outport
          in_endpoint,  \* links attached at the inport
          bulk,         \* TunnelOutEndpoint.bulk
          to_in, to_out,\* messages between the two runtimes of a link
          in_enabled,   \* the inport's actor has not been told of a disconnect
          unjoined,     \* late links that are not connected yet
          serial,       \* number of the last token written
          dispatched,   \* history: tokens queued for a link
          delivered,    \* history: tokens read from a link
          turns,        \* history: readers chosen since they last changed
          passed        \* history: reads while a token of the link waited

(* A queue has a length of at least one.                                   *)
ASSUME LengthAssumption == OutN \in Nat /\ OutN >= 2 /\ InN \in Nat /\ InN >= 2
ASSUME BoundAssumption == MaxTokens \in Nat

(* Whatever joins late is a replica of a port that is connected.           *)
ASSUME ScenarioAssumption ==
  \A c \in Scenarios :
    /\ IsFiniteSet(c.links) /\ c.links \subseteq Nat \X Nat
    /\ c.local \subseteq c.links /\ c.late \subseteq c.links /\ c.exhausted \subseteq c.links
    /\ \A l \in c.links : \E m \in c.links \ c.late : m[1] = l[1]
    /\ c.out \in {"ordered", "round-robin", "random", "balanced", "mapped", "fanout"}
    /\ c.in \in {"unordered", "any", "synced"}
    /\ c.exceptions \in BOOLEAN

queues == <<outq, inq>>
ends   == <<out_endpoint, in_endpoint, bulk, unjoined>>
air    == <<to_in, to_out>>
told   == <<in_enabled, passed>>
vars   == <<conf, queues, ends, air, told, serial, dispatched,
            delivered, turns>>

Out == INSTANCE DispatchQueue WITH N <- OutN
In  == INSTANCE CollectQueue WITH N <- InN

Links == conf.links
Outs  == {l[1] : l \in Links}
Ins   == {l[2] : l \in Links}

ReadersOf(links, o) == {l[2] : l \in {l \in links : l[1] = o}}
WritersOf(links, i) == {l[1] : l \in {l \in links : l[2] = i}}

IsTunnel(l) == l \notin conf.local

Send(chan, l, msgs) == [chan EXCEPT ![l] = @ \o msgs]

Received(chan, l) == [chan EXCEPT ![l] = Tail(@)]

Arrived(chan, l, kinds) == chan[l] # <<>> /\ Head(chan[l]).kind \in kinds

Init ==
  /\ conf \in Scenarios
  /\ LET first == conf.links \ conf.late
     IN  /\ outq \in {f \in [Outs -> UNION {Out!NewOutQueues(conf.out, ReadersOf(first, o)) :
                                              o \in Outs}] :
                        \A o \in Outs : Out!ReaderSet(f[o]) = ReadersOf(first, o)}
         /\ inq = [i \in Ins |-> In!NewInQueue(conf.in, WritersOf(first, i))]
         /\ out_endpoint = first
         /\ in_endpoint = first
         /\ in_enabled = [i \in Ins |-> WritersOf(first, i) # {}]
  /\ unjoined = conf.late
  /\ bulk = [l \in Links |-> TRUE]
  /\ to_in = [l \in Links |-> <<>>]
  /\ to_out = [l \in Links |-> <<>>]
  /\ serial = 0
  /\ dispatched = [l \in Links |-> <<>>]
  /\ delivered = [l \in Links |-> <<>>]
  /\ turns = [o \in Outs |-> <<>>]
  /\ passed = [l \in Links |-> 0]

-----------------------------------------------------------------------------
(* The actor of outport o, which is enabled as long as the port has an     *)
(* endpoint, has seen that there are slots, and writes a token: plain, or  *)
(* an exception.  When the queue raises the token is lost: the scheduler   *)
(* logs the exception.                                                     *)
Produce(o) ==
  /\ serial < MaxTokens
  /\ \E l \in out_endpoint : l[1] = o
  /\ Out!slots_available(outq[o])
  /\ serial' = serial + 1
  /\ \E token \in {serial'} \cup (IF conf.exceptions THEN {-serial'} ELSE {}),
        to \in Out!Destinations(outq[o], ReadersOf(Links, o)) :
       IF Out!TurnRaises(outq[o]) \/ ~(to \subseteq Out!ReaderSet(outq[o]))
       THEN UNCHANGED <<outq, dispatched, turns>>
       ELSE /\ \E q \in Out!write(outq[o], to, token) : outq' = [outq EXCEPT ![o] = q]
            /\ dispatched' = [l \in Links |-> IF l[1] = o /\ l[2] \in to
                                              THEN Append(dispatched[l], token)
                                              ELSE dispatched[l]]
            /\ turns' = IF conf.out \in Out!TurnKinds
                        THEN [turns EXCEPT ![o] = Append(@, CHOOSE r \in to : TRUE)]
                        ELSE turns
  /\ UNCHANGED <<conf, inq, ends, air, told, delivered>>

CanConsume(i) ==
  in_enabled[i] /\ inq[i].writers # <<>> /\ In!tokens_available(inq[i])

(* The actor of inport i reads: InPort.read, that is peek and commit.      *)
Consume(i) ==
  /\ CanConsume(i)
  /\ LET q == inq[i]
         p == In!peek(q)
     IN  /\ inq' = [inq EXCEPT ![i] = In!commit(p.queue)]
         /\ delivered' = [l \in Links |->
              IF l[2] = i /\ l[1] \in p.taken
              THEN Append(delivered[l], In!TokenOf(q, l[1])) ELSE delivered[l]]
         /\ passed' = [l \in Links |->
              IF l[2] # i THEN passed[l]
              ELSE IF In!WriterSet(inq'[i]) # In!WriterSet(q) \/ l[1] \in p.taken THEN 0
              ELSE IF l[1] \in In!WriterSet(q) /\ In!Waiting(q, l[1]) THEN passed[l] + 1
              ELSE passed[l]]
  /\ UNCHANGED <<conf, outq, ends, air, in_enabled, serial,
                 dispatched, turns>>

-----------------------------------------------------------------------------
(* A tunnel carries all the tokens that wait, or a single one once the     *)
(* last one is answered; a local endpoint as many as there is room for.    *)
CanTransmit(l) ==
  /\ l \in out_endpoint
  /\ Out!Unsent(outq[l[1]], l[2]) > 0
  /\ IF IsTunnel(l) THEN bulk[l] \/ Out!com_is_committed(outq[l[1]], l[2])
                    ELSE In!InFree(inq[l[2]], l[1]) > 0

(* TunnelOutEndpoint.communicate.                                          *)
Communicate(l) ==
  /\ CanTransmit(l) /\ IsTunnel(l)
  /\ LET q == outq[l[1]]
         from == q.tentative_read_pos[l[2]]
         count == IF bulk[l] THEN Out!Unsent(q, l[2]) ELSE 1
         items == [k \in 1 .. count |-> Out!com_peek(q, l[2], from + k - 1)]
     IN  /\ outq' = [outq EXCEPT ![l[1]] = Out!Peeked(q, l[2], from + count)]
         /\ to_in' = Send(to_in, l, [k \in 1 .. count |-> [kind |-> "TOKEN", item |-> items[k]]])
  /\ UNCHANGED <<conf, inq, ends, to_out, told, serial, dispatched,
                 delivered, turns>>

(* LocalOutEndpoint.communicate: tokens move until the outport has none or *)
(* the inport is full.                                                     *)
CommunicateLocal(l) ==
  /\ CanTransmit(l) /\ ~IsTunnel(l)
  /\ LET o == l[1]
         i == l[2]
         from == outq[o].tentative_read_pos[i]
         room == In!InFree(inq[i], o)
         count == IF room < Out!Unsent(outq[o], i) THEN room ELSE Out!Unsent(outq[o], i)
         items == [k \in 1 .. count |-> Out!com_peek(outq[o], i, from + k - 1)]
     IN  /\ outq' = [outq EXCEPT ![o] = Out!Moved(@, i, count)]
         /\ inq' = [inq EXCEPT ![i] = In!com_write_all(@, o, items)]
  /\ UNCHANGED <<conf, ends, air, told, serial, dispatched, delivered, turns>>

(* TokenTunnel.recv_token_handler and TunnelInEndpoint.recv_token.         *)
ReceiveToken(l) ==
  /\ Arrived(to_in, l, {"TOKEN"})
  /\ to_in' = Received(to_in, l)
  /\ LET q == inq[l[2]]
         item == Head(to_in[l]).item
         new == item.seq = q.write_pos[l[1]]
         ok == IF new THEN In!InFree(q, l[1]) > 0 ELSE item.seq < q.write_pos[l[1]]
     IN  IF l \notin in_endpoint
         THEN UNCHANGED <<inq, to_out>>
         ELSE /\ inq' = [inq EXCEPT ![l[2]] =
                           IF new /\ ok THEN In!com_write(q, l[1], item) ELSE q]
              /\ to_out' = Send(to_out, l,
                   <<[kind |-> IF ok THEN "ACK" ELSE "NACK", seq |-> item.seq]>>)
  /\ UNCHANGED <<conf, outq, ends, told, serial, dispatched, delivered, turns>>

(* TokenTunnel.recv_token_reply_handler and TunnelOutEndpoint.reply.       *)
ReceiveReply(l) ==
  /\ Arrived(to_out, l, {"ACK", "NACK"})
  /\ to_out' = Received(to_out, l)
  /\ LET m == Head(to_out[l])
         q == outq[l[1]]
     IN  IF l \notin out_endpoint
         THEN UNCHANGED <<outq, bulk>>
         ELSE /\ bulk' = [bulk EXCEPT ![l] = m.kind = "ACK"]
              /\ outq' = [outq EXCEPT ![l[1]] =
                            IF m.kind = "ACK" THEN Out!com_commit(q, l[2], m.seq)
                                              ELSE Out!com_cancel(q, l[2], m.seq)]
  /\ UNCHANGED <<conf, inq, out_endpoint, in_endpoint, unjoined, to_in, told,
                 serial, dispatched, delivered, turns>>

-----------------------------------------------------------------------------
(* Port.disconnect with the peer of link l at the outport, which exhausts  *)
(* the queue: the tokens that remain, and the reader removed.              *)
DetachOut(l) ==
  /\ out_endpoint' = out_endpoint \ {l}
  /\ \E q \in Out!remove_reader(outq[l[1]], l[2]) : outq' = [outq EXCEPT ![l[1]] = q]
  /\ turns' = [turns EXCEPT ![l[1]] = <<>>]

RemainingAt(l) == [o \in {l[1]} |-> Out!Remaining(outq[l[1]], l[2])]

Nothing == [o \in {} |-> <<>>]

(* InPort.exhausted_tokens: the queue takes the tokens, and the actor is   *)
(* told when the port has neither an endpoint nor something to exhaust.    *)
ExhaustedTokens(l, q, tokens) ==
  LET p == In!set_exhausted_tokens(q, tokens)
  IN  /\ inq' = [inq EXCEPT ![l[2]] = p]
      /\ in_enabled' = [in_enabled EXCEPT ![l[2]] =
           @ /\ ((\E m \in in_endpoint' : m[2] = l[2]) \/ In!is_exhausting(p))]
      /\ passed' = [m \in Links |-> IF m[2] = l[2] /\ In!WriterSet(p) # In!WriterSet(inq[l[2]])
                                    THEN 0 ELSE passed[m]]

(* TunnelConnection.disconnect with EXHAUST at the outport.                *)
ExhaustOut(l) ==
  /\ l \in out_endpoint \cap conf.exhausted /\ IsTunnel(l)
  /\ DetachOut(l)
  /\ to_in' = Send(to_in, l, <<[kind |-> "DISCONNECT", remaining |-> RemainingAt(l)]>>)
  /\ UNCHANGED <<conf, inq, in_endpoint, bulk, unjoined, to_out, told, serial,
                 dispatched, delivered>>

(* The same at the inport: it has no tokens to return.                     *)
ExhaustIn(l) ==
  /\ l \in in_endpoint \cap conf.exhausted /\ IsTunnel(l)
  /\ in_endpoint' = in_endpoint \ {l}
  /\ inq' = [inq EXCEPT ![l[2]] = In!exhaust(@, l[1])]
  /\ to_out' = Send(to_out, l, <<[kind |-> "DISCONNECT"]>>)
  /\ UNCHANGED <<conf, outq, out_endpoint, bulk, unjoined, to_in, told, serial,
                 dispatched, delivered, turns>>

(* TunnelConnection.disconnection_request at the inport.  Nothing is       *)
(* returned to an outport.                                                 *)
DisconnectionRequestIn(l) ==
  /\ Arrived(to_in, l, {"DISCONNECT"})
  /\ to_in' = Received(to_in, l)
  /\ in_endpoint' = in_endpoint \ {l}
  /\ ExhaustedTokens(l, IF l \in in_endpoint THEN In!exhaust(inq[l[2]], l[1]) ELSE inq[l[2]],
                     Head(to_in[l]).remaining)
  /\ to_out' = Send(to_out, l, <<[kind |-> "DISCONNECTED"]>>)
  /\ UNCHANGED <<conf, outq, out_endpoint, bulk, unjoined, serial,
                 dispatched, delivered, turns>>

(* The same at the outport, which returns what remains if it has not done  *)
(* so by a request of its own.                                             *)
DisconnectionRequestOut(l) ==
  /\ Arrived(to_out, l, {"DISCONNECT"})
  /\ to_out' = Received(to_out, l)
  /\ IF l \in out_endpoint
     THEN /\ DetachOut(l)
          /\ to_in' = Send(to_in, l, <<[kind |-> "DISCONNECTED", remaining |-> RemainingAt(l)]>>)
     ELSE /\ to_in' = Send(to_in, l, <<[kind |-> "DISCONNECTED", remaining |-> Nothing]>>)
          /\ UNCHANGED <<outq, out_endpoint, turns>>
  /\ UNCHANGED <<conf, inq, in_endpoint, bulk, unjoined, told, serial,
                 dispatched, delivered>>

(* TunnelConnection._disconnected_peer with the answer.                    *)
DisconnectedPeerIn(l) ==
  /\ Arrived(to_in, l, {"DISCONNECTED"})
  /\ to_in' = Received(to_in, l)
  /\ UNCHANGED in_endpoint
  /\ ExhaustedTokens(l, inq[l[2]], Head(to_in[l]).remaining)
  /\ UNCHANGED <<conf, outq, out_endpoint, bulk, unjoined, to_out, serial,
                 dispatched, delivered, turns>>

DisconnectedPeerOut(l) ==
  /\ Arrived(to_out, l, {"DISCONNECTED"})
  /\ to_out' = Received(to_out, l)
  /\ UNCHANGED <<conf, queues, ends, to_in, told, serial, dispatched,
                 delivered, turns>>

(* LocalConnection.disconnect, from either side: both ports at once.       *)
ExhaustLocal(l) ==
  /\ l \in out_endpoint \cap conf.exhausted /\ ~IsTunnel(l)
  /\ DetachOut(l)
  /\ in_endpoint' = in_endpoint \ {l}
  /\ ExhaustedTokens(l, In!exhaust(inq[l[2]], l[1]), RemainingAt(l))
  /\ UNCHANGED <<conf, bulk, unjoined, air, serial, dispatched, delivered>>

(* A replica is connected: Port.attach_endpoint at both ends.  The reader  *)
(* of a "fanout" queue gets the tokens that the queue still holds.         *)
Join(l) ==
  /\ l \in unjoined
  /\ \E m \in out_endpoint : m[1] = l[1]
  /\ unjoined' = unjoined \ {l}
  /\ out_endpoint' = out_endpoint \cup {l}
  /\ in_endpoint' = in_endpoint \cup {l}
  /\ LET q == Out!add_reader(outq[l[1]], l[2])
         held == Out!Remaining(q, l[2])
     IN  /\ outq' = [outq EXCEPT ![l[1]] = q]
         /\ dispatched' = [dispatched EXCEPT ![l] = [k \in DOMAIN held |-> held[k].token]]
  /\ inq' = [inq EXCEPT ![l[2]] = In!add_writer(@, l[1])]
  /\ in_enabled' = [in_enabled EXCEPT ![l[2]] = TRUE]
  /\ turns' = [turns EXCEPT ![l[1]] = <<>>]
  /\ passed' = [m \in Links |-> IF m[2] = l[2] THEN 0 ELSE passed[m]]
  /\ UNCHANGED <<conf, bulk, air, serial, delivered>>

-----------------------------------------------------------------------------
Transmit(l) == Communicate(l) \/ CommunicateLocal(l)

ArriveIn(l) == ReceiveToken(l) \/ DisconnectionRequestIn(l) \/ DisconnectedPeerIn(l)

ArriveOut(l) == ReceiveReply(l) \/ DisconnectionRequestOut(l) \/ DisconnectedPeerOut(l)

Next ==
  \/ \E o \in Outs : Produce(o)
  \/ \E i \in Ins : Consume(i)
  \/ \E l \in Links :
       \/ Transmit(l) \/ ArriveIn(l) \/ ArriveOut(l)
       \/ ExhaustOut(l) \/ ExhaustIn(l) \/ ExhaustLocal(l) \/ Join(l)

Spec == Init /\ [][Next]_vars

(* The scheduler fires every actor that can fire and lets every endpoint   *)
(* communicate, again and again; links deliver what is sent.  This is weak *)
(* fairness of four actions, with the condition of each in place of its    *)
(* ENABLED, which takes TLC too long.                                      *)
Fairness ==
  /\ []<>(\A l \in Links : ~CanTransmit(l)) \/ []<><<\E l \in Links : Transmit(l)>>_vars
  /\ []<>(\A l \in Links : to_in[l] = <<>>) \/ []<><<\E l \in Links : ArriveIn(l)>>_vars
  /\ []<>(\A l \in Links : to_out[l] = <<>>) \/ []<><<\E l \in Links : ArriveOut(l)>>_vars
  /\ []<>(\A i \in Ins : ~CanConsume(i)) \/ []<><<\E i \in Ins : Consume(i)>>_vars

FairSpec == Spec /\ Fairness

-----------------------------------------------------------------------------
TypeOK ==
  LET Item == [seq : Nat, token : Token]
      Tokens(m) == /\ DOMAIN m.remaining \subseteq Outs
                   /\ \A o \in DOMAIN m.remaining : m.remaining[o] \in Seq(Item)
  IN  /\ \A o \in Outs : Out!IsOutQueue(outq[o], Ins, Token)
      /\ \A i \in Ins : In!IsInQueue(inq[i], Outs, Token)
      /\ out_endpoint \subseteq Links
      /\ in_endpoint \subseteq Links
      /\ unjoined \subseteq conf.late
      /\ bulk \in [Links -> BOOLEAN]
      /\ \A l \in Links : \A k \in DOMAIN to_in[l] :
           LET m == to_in[l][k]
           IN  \/ m \in [kind : {"TOKEN"}, item : Item]
               \/ m.kind \in {"DISCONNECT", "DISCONNECTED"} /\ Tokens(m)
      /\ to_out \in [Links -> Seq([kind : {"ACK", "NACK"}, seq : Nat]
                                    \cup [kind : {"DISCONNECT", "DISCONNECTED"}])]
      /\ in_enabled \in [Ins -> BOOLEAN]
      /\ serial \in 0 .. MaxTokens
      /\ dispatched \in [Links -> Seq(Token)]
      /\ delivered \in [Links -> Seq(Token)]
      /\ turns \in [Outs -> Seq(Ins)]
      /\ passed \in [Links -> Nat]

IsPrefixOf(s, t) == Len(s) <= Len(t) /\ s = SubSeq(t, 1, Len(s))

HasReader(l) == l[2] \in Out!ReaderSet(outq[l[1]])
HasWriter(l) == l[1] \in In!WriterSet(inq[l[2]])

(* Every link is a channel: what is read from it is what has been sent to  *)
(* it, in order and once, whichever readers and writers come and go.       *)
DeliveryPrefix == \A l \in Links : IsPrefixOf(delivered[l], dispatched[l])

(* And no more than that can be seen of all that goes on between two       *)
(* ports: a link holds as many tokens as both queues do, and what its      *)
(* writer, its reader, the exhaustion and the replicas do are steps of a   *)
(* set of channels, or none.                                               *)
Channels == INSTANCE LinkChannels WITH
              Capacity <- (OutN - 1) + (InN - 1),
              links <- conf.links, sent <- dispatched, received <- delivered
LinksAreChannels == Channels!Spec

(* Exhaustion preserves the tokens: when both ports have removed the       *)
(* other, nothing of what was dispatched is missing.                       *)
ExhaustPreserves ==
  \A l \in Links : ~HasReader(l) /\ ~HasWriter(l) => delivered[l] = dispatched[l]

(* At any time, and through the hand-over, each token that is not read is  *)
(* where it will be found: the ring of the inport, and then the outport's  *)
(* queue, the request or reply that carries the remaining tokens, or the   *)
(* inport's list of exhausted tokens.                                      *)
Items(s) == {s[k] : k \in DOMAIN s}

Carried(l) ==
  UNION {Items(m.remaining[l[1]]) :
           m \in {m \in Items(to_in[l]) : m.kind # "TOKEN" /\ DOMAIN m.remaining # {}}}

Held(l) ==
  LET q == outq[l[1]]
      p == inq[l[2]]
      o == l[1]
  IN  (IF HasReader(l)
       THEN {Out!com_peek(q, l[2], k) : k \in q.read_pos[l[2]] .. q.write_pos[l[2]] - 1}
       ELSE {})
      \cup Carried(l)
      \cup (IF o \in DOMAIN p.exhausted_tokens THEN Items(p.exhausted_tokens[o]) ELSE {})

EveryTokenHeld ==
  \A l \in Links : HasWriter(l) =>
    LET p == inq[l[2]]
        stored == p.write_pos[l[1]]
    IN  /\ Len(delivered[l]) = p.read_pos[l[1]]
        /\ \A k \in p.read_pos[l[1]] + 1 .. stored :
             p.fifo[l[1]][(k - 1) % InN] = dispatched[l][k]
        /\ \A k \in stored + 1 .. Len(dispatched[l]) :
             [seq |-> k - 1, token |-> dispatched[l][k]] \in Held(l)

(* A queue that goes by turns gives them to its readers one after the      *)
(* other, all around, as long as the readers stay the same.                *)
InTurn ==
  conf.out \in {"ordered", "round-robin"} =>
    \A o \in Outs : \A k \in 1 .. Len(turns[o]) - 1 :
      LET readers == outq[o].readers
          Index(r) == CHOOSE j \in DOMAIN readers : readers[j] = r
      IN  Index(turns[o][k + 1]) = (Index(turns[o][k]) % Len(readers)) + 1

(* An inport that takes tokens as they come serves each writer: while one  *)
(* waits, each of the others is read once at most.                         *)
ServedInTurn ==
  conf.in = "unordered" =>
    \A l \in Links : HasWriter(l) => passed[l] < Len(inq[l[2]].writers)

(* Whatever is dispatched is read in the end, through full queues and      *)
(* exhaustion (an inport that takes a token of each writer may wait for    *)
(* one that has none).  The number of tokens is bounded.                   *)
EventuallyDelivered ==
  <>[](conf.in # "synced" => \A l \in Links : delivered[l] = dispatched[l])

(* An exhaustion comes to its end: both queues have removed the other      *)
(* port, whether one of the ports has begun it or both.                    *)
ExhaustionCompletes ==
  <>[](conf.in # "synced" =>
         \A l \in Links \ (unjoined \cup (out_endpoint \cap in_endpoint)) :
           ~HasReader(l) /\ ~HasWriter(l))
=============================================================================
