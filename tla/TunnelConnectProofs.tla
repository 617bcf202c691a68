-------------------------- MODULE TunnelConnectProofs --------------------------
(* What TLAPS proves about TunnelConnect, for any set of connections and   *)
(* any number of faults: types, and that the two ends of a connection have *)
(* tunnels of the same identity (Routed).                                  *)
EXTENDS TunnelConnect, FiniteSetTheorems, SequenceTheorems, TLAPS

(* There are two runtimes.                                                 *)
LEMMA Peers ==
  /\ Nodes = {1, 2}
  /\ \A n \in Nodes : Peer(n) \in Nodes /\ Peer(n) # n /\ Peer(Peer(n)) = n
  /\ \A n, m \in Nodes : m = n \/ m = Peer(n)
BY DEF Nodes, Peer

(* A finite set as a sequence: its members, each of them.                  *)
LEMMA SetToSeqType ==
  ASSUME NEW S, IsFiniteSet(S)
  PROVE  /\ SetToSeq(S) \in Seq(S)
         /\ \A k \in DOMAIN SetToSeq(S) : SetToSeq(S)[k] \in S
<1> DEFINE n == Cardinality(S)
<1>1. n \in Nat /\ ExistsBijection(1..n, S)
  BY FS_CardinalityType
<1>2. PICK f \in [1..n -> S] : \A a, b \in 1..n : f[a] = f[b] => a = b
  BY <1>1 DEF ExistsBijection, Bijection, Injection, IsInjective
<1>3. IsInjective(f)
  BY <1>2 DEF IsInjective
<1>4. SetToSeq(S) \in [1..n -> S]
  BY <1>2, <1>3 DEF SetToSeq
<1> QED
  BY <1>1, <1>4, SeqDef

(* What concerns the tunnels, and not the connections, is in t as in s.    *)
SameTunnels(s, t) ==
  /\ t.status = s.status /\ t.id = s.id /\ t.listed = s.listed
  /\ t.token = s.token /\ t.asking = s.asking
  /\ ("tunnel" \in t.replies) = ("tunnel" \in s.replies)

(* These messages ask for connections over the tunnel of s.                *)
AskFor(s, messages) ==
  /\ messages \in Seq(Message)
  /\ \A k \in DOMAIN messages :
       /\ messages[k].cmd = "PORT_CONNECT" /\ messages[k].key \in Ports
       /\ messages[k].id = s.id[s.token] /\ messages[k].awaited

(* connect_via, for any connections: the tables of tunnels stay.           *)
LEMMA ConnectViaType ==
  ASSUME NEW s \in Runtime, NEW C \in SUBSET Ports, NEW ok \in BOOLEAN
  PROVE  /\ ConnectVia(s, C, ok) \in Runtime
         /\ SameTunnels(s, ConnectVia(s, C, ok))
         /\ ConnectVia(s, C, ok).endpoint = s.endpoint
<1> DEFINE phase == [c \in Ports |->
      IF c \notin C THEN s.phase[c]
      ELSE IF s.endpoint[c] # "none" THEN "done"
      ELSE IF ~ok THEN "failed"
      ELSE IF s.token = "none" THEN "lost" ELSE "asked"]
           replies == s.replies \cup ToAsk(s, C, ok)
<1>1. phase \in [Ports -> {"idle", "looking", "queued", "asked", "done", "failed", "lost"}]
  BY DEF Runtime
<1>2. replies \in SUBSET ({"tunnel"} \cup Ports) /\ ("tunnel" \in replies <=> "tunnel" \in s.replies)
  BY PortsAssumption DEF Runtime, ToAsk
<1>3. ConnectVia(s, C, ok) = [s EXCEPT !.phase = phase, !.replies = replies]
  BY DEF ConnectVia
<1> DEFINE u == ConnectVia(s, C, ok)
<1> HIDE DEF phase, replies
<1>4. /\ u.status = s.status /\ u.id = s.id /\ u.listed = s.listed /\ u.token = s.token
      /\ u.asking = s.asking /\ u.endpoint = s.endpoint /\ u.replies = replies
  BY <1>3 DEF Runtime
<1>5. u \in Runtime
  <2>1. replies \in SUBSET ({"tunnel"} \cup Ports)
    BY <1>2
  <2>2. [s EXCEPT !.phase = phase, !.replies = replies] \in Runtime
    BY <1>1, <2>1 DEF Runtime
  <2> QED
    BY <1>3, <2>2
<1> QED
  BY <1>2, <1>4, <1>5 DEF SameTunnels

(* The requests for connections: one of each, for the ports' tunnel.       *)
LEMMA PortConnectsType ==
  ASSUME NEW s \in Runtime, NEW C \in SUBSET Ports, NEW ok \in BOOLEAN
  PROVE  /\ AskFor(s, PortConnects(s, C, ok))
         /\ s.token = "none" => PortConnects(s, C, ok) = <<>>
<1> DEFINE Request(c) == [cmd |-> "PORT_CONNECT", key |-> c, id |-> s.id[s.token], awaited |-> TRUE]
           S == {Request(c) : c \in ToAsk(s, C, ok)}
<1>1. PortConnects(s, C, ok) = SetToSeq(S)
  BY DEF PortConnects
<1>2. IsFiniteSet(ToAsk(s, C, ok)) /\ ToAsk(s, C, ok) \subseteq Ports
  BY PortsAssumption, FS_Subset DEF ToAsk
<1>3. IsFiniteSet(S)
  <2> DEFINE f == [c \in ToAsk(s, C, ok) |-> Request(c)]
  <2>1. f \in Surjection(ToAsk(s, C, ok), S)
    BY DEF Surjection
  <2> QED
    BY <1>2, <2>1, FS_Surjection
<1>4. S \subseteq Message
  <2> SUFFICES ASSUME NEW c \in ToAsk(s, C, ok)
               PROVE  Request(c) \in Message
    OBVIOUS
  <2>1. s.token \in Objects
    BY DEF ToAsk, Runtime
  <2>2. s.id[s.token] \in Nodes
    BY <2>1 DEF Runtime
  <2> QED
    BY <1>2, <2>2 DEF Message
<1>5. SetToSeq(S) \in Seq(Message) /\ \A k \in DOMAIN SetToSeq(S) : SetToSeq(S)[k] \in S
  BY <1>3, <1>4, SetToSeqType, SeqMonotonic
<1>6. s.token = "none" => SetToSeq(S) = <<>>
  <2> SUFFICES ASSUME s.token = "none" PROVE SetToSeq(S) = <<>>
    OBVIOUS
  <2>1. S = {}
    BY DEF ToAsk
  <2>2. SetToSeq(S) \in Seq({})
    BY <2>1, <1>3, SetToSeqType
  <2> QED
    BY <2>2
<1>7. \A k \in DOMAIN SetToSeq(S) : \E c \in ToAsk(s, C, ok) : SetToSeq(S)[k] = Request(c)
  BY <1>5
<1>8. \A c \in ToAsk(s, C, ok) :
        /\ Request(c).cmd = "PORT_CONNECT" /\ Request(c).key \in Ports
        /\ Request(c).id = s.id[s.token] /\ Request(c).awaited
  BY <1>2
<1> HIDE DEF S, Request
<1> QED
  BY <1>1, <1>5, <1>6, <1>7, <1>8 DEF AskFor

LEMMA QueuedType ==
  ASSUME NEW s
  PROVE  Queued(s) \in SUBSET Ports
BY DEF Queued

(* connect, once there is a tunnel.                                        *)
LEMMA ContinuedType ==
  ASSUME NEW s \in Runtime, NEW c \in Ports, s.token # "none"
  PROVE  /\ Continued(s, c) \in Runtime
         /\ SameTunnels(s, Continued(s, c))
         /\ Continued(s, c).endpoint = s.endpoint
         /\ AskFor(s, Requests(s, c))
         /\ s.status[s.token] # "WORKING" => Requests(s, c) = <<>>
<1> DEFINE queued == [s EXCEPT !.phase[c] = "queued"]
           failed == [s EXCEPT !.phase[c] = "failed"]
<1>1. queued \in Runtime /\ SameTunnels(s, queued) /\ queued.endpoint = s.endpoint
  BY DEF Runtime, SameTunnels
<1>2. failed \in Runtime /\ SameTunnels(s, failed) /\ failed.endpoint = s.endpoint
  BY DEF Runtime, SameTunnels
<1>3. Continued(s, c) \in {queued, failed, ConnectVia(s, {c}, TRUE)}
  BY DEF Continued
<1>4. Requests(s, c) = IF s.status[s.token] = "WORKING" THEN PortConnects(s, {c}, TRUE) ELSE <<>>
  BY DEF Requests
<1>5. AskFor(s, <<>>)
  BY DEF AskFor
<1> HIDE DEF queued, failed
<1> QED
  BY <1>1, <1>2, <1>3, <1>4, <1>5, ConnectViaType, PortConnectsType

(* A tunnel that has its new identity, and its own tunnel that is new.     *)
LEMMA WithIdType ==
  ASSUME NEW s \in Runtime, NEW t \in Objects, NEW i \in Nodes
  PROVE  WithId(s, t, i) \in Runtime
BY DEF WithId, Runtime, Objects

LEMMA AskingType ==
  ASSUME NEW s \in Runtime, NEW n \in Nodes
  PROVE  Asking(s, n) \in Runtime
BY DEF Asking, Runtime, Objects

LEMMA NewTunnelType ==
  ASSUME NEW s \in Runtime, NEW n \in Nodes
  PROVE  NewTunnel(s, n) \in Runtime /\ NewTunnel(s, n).token = "own"
<1> DEFINE new == [s EXCEPT !.status["own"] = "PENDING", !.token = "own", !.asking = TRUE]
<1>1. new \in Runtime /\ new.token = "own"
  BY DEF Runtime, Objects
<1>2. NewTunnel(s, n) = IF joined THEN Asking(new, n) ELSE new
  BY DEF NewTunnel
<1> HIDE DEF new
<1>3. Asking(new, n) \in Runtime
  BY <1>1, AskingType
<1>4. Asking(new, n).token = new.token
  BY <1>1 DEF Asking, Runtime
<1> QED
  BY <1>1, <1>2, <1>3, <1>4

LEMMA DownType ==
  ASSUME NEW s \in Runtime
  PROVE  Down(s) \in Runtime
<1> DEFINE down == [s EXCEPT !.status["own"] = "TERMINATED", !.token = "none"]
<1>1. down \in Runtime
  BY DEF Runtime, Objects
<1> QED
  BY <1>1, ConnectViaType, QueuedType DEF Down

LEMMA TimedOutType ==
  ASSUME NEW s \in Runtime, NEW key \in {"tunnel"} \cup Ports
  PROVE  TimedOut(s, key) \in Runtime
<1> DEFINE u == [s EXCEPT !.replies = @ \ {key}]
<1>1. u \in Runtime /\ u.retries = s.retries
  BY DEF Runtime
<1>2. CASE key = "tunnel"
  <2>1. Down(u) \in Runtime
    BY <1>1, DownType
  <2> QED
    BY <1>2, <2>1 DEF TimedOut
<1>3. CASE key \in Ports /\ key # "tunnel" /\ s.retries[key] < 2
  <2> DEFINE retries == [s.retries EXCEPT ![key] = @ + 1]
             phase == [u.phase EXCEPT ![key] = "looking"]
  <2>1. s.retries[key] \in 0..3 /\ s.retries \in [Ports -> 0..3]
    BY <1>3 DEF Runtime
  <2>2. retries \in [Ports -> 0..3]
    BY <1>3, <2>1
  <2>3. phase \in [Ports -> {"idle", "looking", "queued", "asked", "done", "failed", "lost"}]
    BY <1>1 DEF Runtime
  <2>4. TimedOut(s, key) = [u EXCEPT !.phase = phase, !.retries = retries]
    BY <1>1, <1>3 DEF TimedOut, Runtime
  <2> HIDE DEF u, retries, phase
  <2>5. [u EXCEPT !.phase = phase, !.retries = retries] \in Runtime
    BY <1>1, <2>2, <2>3 DEF Runtime
  <2> QED
    BY <2>4, <2>5
<1>4. CASE key \in Ports /\ key # "tunnel" /\ ~(s.retries[key] < 2)
  <2>1. TimedOut(s, key) = [u EXCEPT !.phase[key] = "failed"]
    BY <1>4 DEF TimedOut
  <2> HIDE DEF u
  <2> QED
    BY <1>1, <2>1 DEF Runtime
<1> QED
  BY <1>2, <1>3, <1>4

-----------------------------------------------------------------------------
(* What a runtime sends, and what it handles, are messages.                *)
TablesType == rt \in [Nodes -> Runtime] /\ net \in [Nodes -> Seq(Message)]

LEMMA TunnelNewType ==
  ASSUME NEW n \in Nodes
  PROVE  /\ TunnelNew(n) \in Message /\ TunnelNew(n).awaited
         /\ TunnelNew(n).cmd = "TUNNEL_NEW" /\ TunnelNew(n).id = n
BY DEF TunnelNew, Message

LEMMA AnswerType ==
  ASSUME NEW m \in Message, NEW cmd \in {"OK", "GONE"}, NEW i \in Nodes
  PROVE  /\ Answer(m, cmd, i) \in Message /\ Answer(m, cmd, i).awaited = m.awaited
         /\ Answer(m, cmd, i).cmd = cmd /\ Answer(m, cmd, i).key = m.key
         /\ Answer(m, cmd, i).id = i
BY DEF Answer, Message

LEMMA ReceivedType ==
  ASSUME TablesType, NEW n \in Nodes, NEW cmds, Received(n, cmds)
  PROVE  Head(net[n]) \in Message /\ Tail(net[n]) \in Seq(Message)
BY HeadTailProperties DEF TablesType, Received

LEMMA SendType ==
  ASSUME TablesType, NEW n \in Nodes, NEW messages \in Seq(Message), Send(n, messages)
  PROVE  net' \in [Nodes -> Seq(Message)]
<1>1. net[Peer(n)] \o messages \in Seq(Message)
  BY Peers, ConcatProperties DEF TablesType
<1> QED
  BY <1>1, Peers DEF TablesType, Send

LEMMA HandleType ==
  ASSUME TablesType, NEW n \in Nodes, NEW messages \in Seq(Message), Handle(n, messages),
         net[n] # <<>>
  PROVE  net' \in [Nodes -> Seq(Message)]
<1>1. net[Peer(n)] \o messages \in Seq(Message) /\ Tail(net[n]) \in Seq(Message)
  BY Peers, ConcatProperties, HeadTailProperties DEF TablesType
<1> QED
  BY <1>1, Peers DEF TablesType, Handle

LEMMA SetType ==
  ASSUME TablesType, NEW n \in Nodes, NEW s \in Runtime, Set(n, s)
  PROVE  rt' \in [Nodes -> Runtime]
BY DEF TablesType, Set

LEMMA FirstTryType ==
  ASSUME NEW r \in Runtime, NEW c \in Ports
  PROVE  /\ [r EXCEPT !.retries[c] = 0] \in Runtime
         /\ SameTunnels(r, [r EXCEPT !.retries[c] = 0])
         /\ [r EXCEPT !.retries[c] = 0].endpoint = r.endpoint
<1> DEFINE retries == [r.retries EXCEPT ![c] = 0]
<1>1. r.retries \in [Ports -> 0..3]
  BY DEF Runtime
<1>2. retries \in [Ports -> 0..3]
  BY <1>1
<1>3. [r EXCEPT !.retries[c] = 0] = [r EXCEPT !.retries = retries]
  OBVIOUS
<1> HIDE DEF retries
<1>4. [r EXCEPT !.retries = retries] \in Runtime
  BY <1>2 DEF Runtime
<1>5. LET s == [r EXCEPT !.retries = retries]
      IN  SameTunnels(r, s) /\ s.endpoint = r.endpoint
  BY DEF Runtime, SameTunnels
<1> QED
  BY <1>3, <1>4, <1>5

LEMMA TunnelConnectType ==
  ASSUME TablesType, NEW n \in Nodes, NEW c \in Ports, TunnelConnect(n, c)
  PROVE  TablesType'
<1> DEFINE s == [rt[n] EXCEPT !.retries[c] = 0]
           found == IF joined THEN Listed(s) ELSE {}
<1>1. s \in Runtime
  BY FirstTryType DEF TablesType
<1>2. CASE s.token # "none" /\ Set(n, Continued(s, c)) /\ Send(n, Requests(s, c))
  BY <1>1, <1>2, ContinuedType, SetType, SendType DEF TablesType, AskFor
<1>3. ASSUME NEW t \in found,
             Set(n, Continued([s EXCEPT !.token = t], c)) /\ Send(n, Requests([s EXCEPT !.token = t], c))
      PROVE  TablesType'
  <2>1. t \in Objects /\ t # "none"
    BY <1>1 DEF Listed, Runtime, Objects
  <2>2. [s EXCEPT !.token = t] \in Runtime /\ [s EXCEPT !.token = t].token # "none"
    BY <1>1, <2>1 DEF Runtime
  <2> QED
    BY <1>3, <2>2, ContinuedType, SetType, SendType DEF TablesType, AskFor
<1>4. CASE /\ Set(n, Continued(NewTunnel(s, n), c))
           /\ Send(n, IF joined THEN <<TunnelNew(n)>> ELSE <<>>)
  <2>1. (IF joined THEN <<TunnelNew(n)>> ELSE <<>>) \in Seq(Message)
    BY TunnelNewType
  <2> QED
    BY <1>1, <1>4, <2>1, NewTunnelType, ContinuedType, SetType, SendType DEF TablesType
<1> QED
  BY <1>2, <1>3, <1>4 DEF TunnelConnect

LEMMA LinkUpType ==
  ASSUME TablesType, NEW n \in Nodes, LinkUp(n)
  PROVE  TablesType'
<1>1. <<TunnelNew(n)>> \in Seq(Message)
  BY TunnelNewType
<1>2. Asking(rt[n], n) \in Runtime
  BY AskingType DEF TablesType
<1> QED
  BY <1>1, <1>2, SetType, SendType DEF TablesType, LinkUp

LEMMA LinkFailsType ==
  ASSUME TablesType, NEW n \in Nodes, LinkFails(n)
  PROVE  TablesType'
<1> DEFINE r == rt[n]
<1>0. r \in Runtime
  BY DEF TablesType
<1> HIDE DEF r
<1>1. [r EXCEPT !.asking = FALSE] \in Runtime
  BY <1>0 DEF Runtime
<1> USE DEF r
<1> QED
  BY <1>1, SetType DEF TablesType, LinkFails

(* The tables when the first request, with identity i, is handled.         *)
WithPeers(s, i) ==
  [s EXCEPT !.status["peers"] = "WORKING", !.id["peers"] = i,
            !.listed[i] = "peers", !.token = "peers"]

LEMMA WithPeersType ==
  ASSUME NEW s \in Runtime, NEW i \in Nodes
  PROVE  WithPeers(s, i) \in Runtime
BY DEF WithPeers, Runtime, Objects

LEMMA TunnelRequestedType ==
  ASSUME TablesType, NEW n \in Nodes, TunnelRequested(n)
  PROVE  TablesType'
<1> DEFINE m == Head(net[n])
           s == WithPeers(rt[n], m.id)
<1>1. m \in Message /\ net[n] # <<>>
  BY ReceivedType DEF TunnelRequested, Received
<1>2. m.id \in Nodes
  BY <1>1 DEF Message
<1>3. s \in Runtime
  BY <1>2, WithPeersType DEF TablesType
<1>4. <<Answer(m, "OK", m.id)>> \in Seq(Message)
  BY <1>1, <1>2, AnswerType
<1>5. Set(n, s) /\ Handle(n, <<Answer(m, "OK", m.id)>>)
  BY DEF TunnelRequested, WithPeers
<1> QED
  BY <1>1, <1>3, <1>4, <1>5, SetType, HandleType DEF TablesType

LEMMA UpType ==
  ASSUME NEW s \in Runtime
  PROVE  /\ Up(s) \in Runtime /\ SameTunnels(s, Up(s)) /\ Up(s).endpoint = s.endpoint
         /\ AskFor(s, UpRequests(s))
BY ConnectViaType, PortConnectsType, QueuedType DEF Up, UpRequests

LEMMA TunnelCrossedType ==
  ASSUME TablesType, NEW n \in Nodes, TunnelCrossed(n)
  PROVE  TablesType'
<1> DEFINE m == Head(net[n])
<1>1. m \in Message /\ net[n] # <<>>
  BY ReceivedType DEF TunnelCrossed, Received
<1>2. PICK t \in Listed(rt[n]) :
        LET i == Chosen(rt[n].id[t], m.id)
            s == WithId(rt[n], t, i)
        IN  Set(n, Up(s)) /\ Handle(n, <<Answer(m, "OK", i)>> \o UpRequests(s))
  BY DEF TunnelCrossed
<1> DEFINE i == Chosen(rt[n].id[t], m.id)
           s == WithId(rt[n], t, i)
<1>3. t \in Objects
  BY DEF Listed, TablesType, Runtime
<1>4. i \in Nodes
  BY <1>1, <1>3 DEF TablesType, Runtime, Message, Chosen
<1>5. s \in Runtime
  BY <1>3, <1>4, WithIdType DEF TablesType
<1>6. <<Answer(m, "OK", i)>> \o UpRequests(s) \in Seq(Message)
  <2>1. Answer(m, "OK", i) \in Message
    BY <1>1, <1>4, AnswerType
  <2>2. <<Answer(m, "OK", i)>> \in Seq(Message) /\ UpRequests(s) \in Seq(Message)
    BY <1>5, <2>1, UpType DEF AskFor
  <2> HIDE DEF i, s
  <2> QED
    BY <2>2, ConcatProperties
<1>7. Set(n, Up(s)) /\ Handle(n, <<Answer(m, "OK", i)>> \o UpRequests(s))
  BY <1>2
<1> HIDE DEF i, s
<1> QED
  BY <1>1, <1>5, <1>6, <1>7, UpType, SetType, HandleType DEF TablesType

LEMMA TunnelDroppedType ==
  ASSUME TablesType, NEW n \in Nodes, TunnelDropped(n)
  PROVE  TablesType'
<1>1. <<>> \in Seq(Message)
  OBVIOUS
<1> QED
  BY <1>1, HandleType DEF TablesType, TunnelDropped, Received

LEMMA ConnectionRequestType ==
  ASSUME TablesType, NEW n \in Nodes, ConnectionRequest(n)
  PROVE  TablesType'
<1> DEFINE s == rt[n]
           m == Head(net[n])
<1>1. m \in Message /\ net[n] # <<>> /\ s \in Runtime
  BY ReceivedType DEF ConnectionRequest, Received, TablesType
<1>2. <<Answer(m, "OK", m.id)>> \in Seq(Message) /\ <<Answer(m, "GONE", m.id)>> \in Seq(Message)
  BY <1>1, AnswerType DEF Message
<1>3. <<>> \in Seq(Message)
  OBVIOUS
<1>4. CASE UNCHANGED rt /\ Handle(n, <<>>)
  BY <1>1, <1>3, <1>4, HandleType DEF TablesType
<1>5. CASE UNCHANGED rt /\ Handle(n, <<Answer(m, "GONE", m.id)>>)
  BY <1>1, <1>2, <1>5, HandleType DEF TablesType
<1>6. CASE /\ s.token # "none"
           /\ Set(n, [s EXCEPT !.endpoint[m.key] = s.token])
           /\ Handle(n, <<Answer(m, "OK", m.id)>>)
  <2>1. [s EXCEPT !.endpoint[m.key] = s.token] \in Runtime
    BY <1>1, <1>6 DEF Runtime
  <2> QED
    BY <1>1, <1>2, <1>6, <2>1, SetType, HandleType DEF TablesType
<1> QED
  BY <1>4, <1>5, <1>6 DEF ConnectionRequest

(* What an answer leaves of the requests.                                  *)
LEMMA AnsweredType ==
  ASSUME NEW r \in Runtime, NEW key
  PROVE  [r EXCEPT !.replies = @ \ {key}] \in Runtime
BY DEF Runtime

LEMMA SetupAckType ==
  ASSUME TablesType, NEW n \in Nodes, SetupAck(n)
  PROVE  TablesType'
<1> DEFINE m == Head(net[n])
           s == WithId([rt[n] EXCEPT !.replies = @ \ {"tunnel"}], "own", m.id)
<1>1. m \in Message /\ net[n] # <<>>
  BY ReceivedType DEF SetupAck, Received
<1>2. s \in Runtime
  BY <1>1, AnsweredType, WithIdType DEF TablesType, Message, Objects
<1>3. CASE UNCHANGED rt /\ Handle(n, <<>>)
  <2>1. <<>> \in Seq(Message)
    OBVIOUS
  <2> QED
    BY <1>1, <1>3, <2>1, HandleType DEF TablesType
<1>4. CASE Set(n, Up(s)) /\ Handle(n, UpRequests(s))
  <2> HIDE DEF s
  <2> QED
    BY <1>1, <1>2, <1>4, UpType, SetType, HandleType DEF TablesType, AskFor
<1> QED
  BY <1>3, <1>4 DEF SetupAck

LEMMA ResentType ==
  ASSUME NEW s \in Runtime, NEW c \in Ports, s.retries[c] < 3
  PROVE  Resent(s, c) \in Runtime /\ SameTunnels(s, Resent(s, c))
         /\ Resent(s, c).endpoint = s.endpoint
<1> DEFINE retries == [s.retries EXCEPT ![c] = @ + 1]
<1>1. s.retries \in [Ports -> 0..3] /\ s.retries[c] \in 0..3
  BY DEF Runtime
<1>2. retries \in [Ports -> 0..3]
  BY <1>1
<1>3. Resent(s, c) = [s EXCEPT !.retries = retries]
  BY DEF Resent
<1> HIDE DEF retries
<1>4. [s EXCEPT !.retries = retries] \in Runtime
  BY <1>2 DEF Runtime
<1>5. LET r == [s EXCEPT !.retries = retries]
      IN  SameTunnels(s, r) /\ r.endpoint = s.endpoint
  BY DEF Runtime, SameTunnels
<1> QED
  BY <1>3, <1>4, <1>5

(* The answer to a request for a connection, by what it says.              *)
ConnectedState(s, c) == [s EXCEPT !.endpoint[c] = s.token, !.phase[c] = "done"]

WithPhase(s, c, phase) == [s EXCEPT !.phase[c] = phase]

LEMMA ConnectedStateType ==
  ASSUME NEW s \in Runtime, NEW c \in Ports
  PROVE  /\ ConnectedState(s, c) \in Runtime
         /\ WithPhase(s, c, "lost") \in Runtime
         /\ WithPhase(s, c, "failed") \in Runtime
BY DEF ConnectedState, WithPhase, Runtime

LEMMA ConnectedViaTunnelType ==
  ASSUME TablesType, NEW n \in Nodes, ConnectedViaTunnel(n)
  PROVE  TablesType'
<1> DEFINE m == Head(net[n])
           c == m.key
           s == [rt[n] EXCEPT !.replies = @ \ {c}]
<1>1. m \in Message /\ net[n] # <<>> /\ c \in Ports
  BY ReceivedType DEF ConnectedViaTunnel, Received
<1>2. s \in Runtime
  BY AnsweredType DEF TablesType
<1>3. <<>> \in Seq(Message)
  OBVIOUS
<1>4. CASE UNCHANGED rt /\ Handle(n, <<>>)
  BY <1>1, <1>3, <1>4, HandleType DEF TablesType
<1>5. CASE Set(n, ConnectedState(s, c)) /\ Handle(n, <<>>)
  BY <1>1, <1>2, <1>3, <1>5, ConnectedStateType, SetType, HandleType DEF TablesType
<1>6. CASE Set(n, WithPhase(s, c, "lost")) /\ Handle(n, <<>>)
  BY <1>1, <1>2, <1>3, <1>6, ConnectedStateType, SetType, HandleType DEF TablesType
<1>7. CASE Set(n, WithPhase(s, c, "failed")) /\ Handle(n, <<>>)
  BY <1>1, <1>2, <1>3, <1>7, ConnectedStateType, SetType, HandleType DEF TablesType
<1>8. CASE /\ s.retries[c] < 3
           /\ Set(n, ConnectVia(Resent(s, c), {c}, TRUE))
           /\ Handle(n, PortConnects(s, {c}, TRUE))
  <2> HIDE DEF s, c
  <2>1. Resent(s, c) \in Runtime
    BY <1>1, <1>2, <1>8, ResentType
  <2>2. ConnectVia(Resent(s, c), {c}, TRUE) \in Runtime
    BY <1>1, <2>1, ConnectViaType
  <2>3. PortConnects(s, {c}, TRUE) \in Seq(Message)
    BY <1>1, <1>2, PortConnectsType DEF AskFor
  <2> QED
    BY <1>1, <1>8, <2>2, <2>3, SetType, HandleType DEF TablesType
<1> QED
  BY <1>4, <1>5, <1>6, <1>7, <1>8 DEF ConnectedViaTunnel, ConnectedState, WithPhase

LEMMA ReplyTimeoutType ==
  ASSUME TablesType, NEW n \in Nodes, ReplyTimeout(n)
  PROVE  TablesType'
<1>1. PICK key \in rt[n].replies : Set(n, TimedOut(rt[n], key)) /\ UNCHANGED net
  BY DEF ReplyTimeout
<1>2. rt[n] \in Runtime
  BY DEF TablesType
<1>3. key \in {"tunnel"} \cup Ports
  BY <1>2 DEF Runtime
<1> QED
  BY <1>1, <1>2, <1>3, TimedOutType, SetType DEF TablesType

LEMMA ReplyLateType ==
  ASSUME TablesType, NEW n \in Nodes, ReplyLate(n)
  PROVE  TablesType'
<1>1. PICK key \in rt[n].replies : Set(n, TimedOut(rt[n], key)) /\ net' = Late(n, key)
  BY DEF ReplyLate
<1>2. rt[n] \in Runtime
  BY DEF TablesType
<1>3. key \in {"tunnel"} \cup Ports
  BY <1>2 DEF Runtime
<1>4. ASSUME NEW p \in Nodes
      PROVE  Late(n, key)[p] \in Seq(Message)
  <2>1. net[p] \in Seq(Message)
    BY DEF TablesType
  <2>2. \A k \in DOMAIN net[p] : net[p][k] \in Message
    BY <2>1, ElementOfSeq, LenProperties
  <2>3. \A k \in DOMAIN net[p] : [net[p][k] EXCEPT !.awaited = FALSE] \in Message
    BY <2>2 DEF Message
  <2>4. Late(n, key)[p] = [k \in DOMAIN net[p] |->
          IF IsAbout(n, key, p, net[p][k]) THEN [net[p][k] EXCEPT !.awaited = FALSE] ELSE net[p][k]]
    BY DEF Late
  <2>5. DOMAIN net[p] = 1..Len(net[p]) /\ Len(net[p]) \in Nat
    BY <2>1
  <2> QED
    BY <2>2, <2>3, <2>4, <2>5, IsASeq
<1>5. Late(n, key) = [p \in Nodes |-> Late(n, key)[p]]
  BY DEF Late
<1> QED
  BY <1>1, <1>2, <1>3, <1>4, <1>5, TimedOutType, SetType DEF TablesType

LEMMA LoseType ==
  ASSUME TablesType, NEW n \in Nodes, Lose(n)
  PROVE  TablesType'
<1>1. PICK k \in DOMAIN net[n] : net' = [net EXCEPT ![n] = RemoveAt(@, k)]
  BY DEF Lose
<1> DEFINE q == net[n]
<1>2. q \in Seq(Message)
  BY DEF TablesType
<1>3. RemoveAt(q, k) \in Seq(Message)
  <2>1. k \in 1..Len(q) /\ Len(q) \in Nat
    BY <1>2
  <2>2. SubSeq(q, 1, k - 1) \in Seq(Message) /\ SubSeq(q, k + 1, Len(q)) \in Seq(Message)
    BY <1>2, <2>1
  <2> QED
    BY <2>2, ConcatProperties DEF RemoveAt
<1> QED
  BY <1>1, <1>3 DEF TablesType, Lose

(* One message overtakes another: two neighbours change places.            *)
Swapped(q, k) == [q EXCEPT ![k] = q[k + 1], ![k + 1] = q[k]]

LEMMA SwappedType ==
  ASSUME NEW q \in Seq(Message), NEW k \in 1..Len(q) - 1
  PROVE  /\ Swapped(q, k) \in Seq(Message) /\ DOMAIN Swapped(q, k) = DOMAIN q
         /\ DOMAIN q = 1..Len(q) /\ k \in DOMAIN q /\ k + 1 \in DOMAIN q /\ k # k + 1
         /\ Swapped(q, k)[k] = q[k + 1] /\ Swapped(q, k)[k + 1] = q[k]
         /\ \A j \in DOMAIN q : j # k /\ j # k + 1 => Swapped(q, k)[j] = q[j]
<1>1. Len(q) \in Nat /\ DOMAIN q = 1..Len(q) /\ k \in 1..Len(q) /\ k + 1 \in 1..Len(q)
  OBVIOUS
<1>2. q[k] \in Message /\ q[k + 1] \in Message
  BY <1>1, ElementOfSeq
<1> QED
  BY <1>1, <1>2, ExceptSeq DEF Swapped

LEMMA OvertakeType ==
  ASSUME TablesType, NEW n \in Nodes, Overtake(n)
  PROVE  TablesType'
<1>1. PICK k \in 1..Len(net[n]) - 1 : net' = [net EXCEPT ![n] = Swapped(net[n], k)]
  BY DEF Overtake, Swapped
<1>2. net[n] \in Seq(Message)
  BY DEF TablesType
<1>3. Swapped(net[n], k) \in Seq(Message)
  BY <1>2, SwappedType
<1> QED
  BY <1>1, <1>3 DEF TablesType, Overtake

(* The bound of the faults.                                                *)
CountsType ==
  joined \in BOOLEAN /\ losses \in Nat /\ overtakes \in Nat /\ losses + overtakes <= MaxFaults

LEMMA CountsKept ==
  ASSUME CountsType, [Next]_vars
  PROVE  CountsType'
<1>1. ASSUME NEW m \in Nodes, Receive(m) PROVE CountsType'
  BY <1>1 DEF CountsType, Receive, TunnelRequested, TunnelCrossed, TunnelDropped,
              ConnectionRequest, SetupAck, ConnectedViaTunnel
<1>2. ASSUME NEW m \in Nodes, LinkUp(m) \/ ReplyTimeout(m) PROVE CountsType'
  BY <1>2 DEF CountsType, LinkUp, ReplyTimeout
<1>3. ASSUME NEW m \in Nodes, Fault(m) PROVE CountsType'
  BY <1>3, BoundAssumption DEF CountsType, Fault, FaultLeft, LinkFails, ReplyLate, Lose, Overtake
<1>4. ASSUME NEW m \in Nodes, NEW c \in Ports, Connect(m, c) \/ LookedUp(m, c) PROVE CountsType'
  BY <1>4 DEF CountsType, Connect, LookedUp, TunnelConnect
<1>5. CASE UNCHANGED vars
  BY <1>5 DEF CountsType, vars
<1> QED
  BY <1>1, <1>2, <1>3, <1>4, <1>5 DEF Next

LEMMA TablesKept ==
  ASSUME TablesType, [Next]_vars
  PROVE  TablesType'
<1>1. ASSUME NEW n \in Nodes, Receive(n) PROVE TablesType'
  BY <1>1, TunnelRequestedType, TunnelCrossedType, TunnelDroppedType, ConnectionRequestType,
     SetupAckType, ConnectedViaTunnelType DEF Receive
<1>2. ASSUME NEW n \in Nodes, LinkUp(n) \/ ReplyTimeout(n) PROVE TablesType'
  BY <1>2, LinkUpType, ReplyTimeoutType
<1>3. ASSUME NEW n \in Nodes, Fault(n) PROVE TablesType'
  BY <1>3, LinkFailsType, ReplyLateType, LoseType, OvertakeType DEF Fault
<1>4. ASSUME NEW n \in Nodes, NEW c \in Ports, Connect(n, c) \/ LookedUp(n, c) PROVE TablesType'
  BY <1>4, TunnelConnectType DEF Connect, LookedUp
<1>5. CASE UNCHANGED vars
  BY <1>5 DEF TablesType, vars
<1> QED
  BY <1>1, <1>2, <1>3, <1>4, <1>5 DEF Next

LEMMA InitType ==
  ASSUME Init
  PROVE  TablesType /\ CountsType
<1>1. rt \in [Nodes -> Runtime]
  <2> DEFINE s(n) ==
        [ status |-> [t \in Objects |-> "none"], id |-> [t \in Objects |-> n],
          listed |-> [i \in Nodes |-> "none"], token |-> "none", asking |-> FALSE,
          phase |-> [c \in Ports |-> "idle"], retries |-> [c \in Ports |-> 0],
          endpoint |-> [c \in Ports |-> "none"], replies |-> {} ]
  <2>1. 0 \in 0..3
    OBVIOUS
  <2>2. \A n \in Nodes : s(n) \in Runtime
    BY <2>1 DEF Runtime
  <2>3. rt = [n \in Nodes |-> s(n)]
    BY DEF Init
  <2> QED
    BY <2>2, <2>3
<1>2. net \in [Nodes -> Seq(Message)]
  BY DEF Init
<1>3. joined \in BOOLEAN /\ losses = 0 /\ overtakes = 0
  BY DEF Init
<1>4. CountsType
  BY <1>3, BoundAssumption DEF CountsType
<1> QED
  BY <1>1, <1>2, <1>4 DEF TablesType

(* The runtimes' tables and the messages keep their types.                 *)
THEOREM TunnelConnectTypes == Spec => []TypeOK
<1>1. Init => TablesType /\ CountsType
  BY InitType
<1>2. TablesType /\ CountsType /\ [Next]_vars => (TablesType /\ CountsType)'
  BY TablesKept, CountsKept
<1>3. TablesType /\ CountsType => TypeOK
  BY BoundAssumption DEF TablesType, CountsType, TypeOK
<1> QED
  BY <1>1, <1>2, <1>3, PTL DEF Spec

-----------------------------------------------------------------------------
(* The invariant that Routed rests on, while no tunnel has timed out.  It  *)
(* is about the tables s of a runtime n and the messages q on their way to *)
(* it, and about the tables t of its peer and the messages r to that one.  *)
Kind(m) ==
  IF m.cmd = "TUNNEL_NEW" THEN "request"
  ELSE IF m.cmd = "PORT_CONNECT" THEN "connect"
  ELSE IF m.key = "tunnel" THEN "ack" ELSE "answer"

Has(q, kind) == \E m \in Range(q) : Kind(m) = kind

Once(q, kind) ==
  \A j, k \in DOMAIN q : Kind(q[j]) = kind /\ Kind(q[k]) = kind => j = k

AckFirst(q) == 1 \in DOMAIN q /\ Kind(q[1]) = "ack"

AckWithin(q, o) ==
  \A k \in DOMAIN q : Kind(q[k]) = "ack" => k = 1 \/ (k = 2 /\ o = 1)

OwnListed(s) == s.listed[s.id["own"]] = "own"

HasPeers(s) == s.status["peers"] = "WORKING"

Unconnected(s) == \A c \in Ports : s.endpoint[c] = "none"

(* The tables of one runtime agree: the ports use the tunnel that the peer *)
(* has asked for, if it has.                                               *)
Tables(s, n, j) ==
  /\ s.status["peers"] \in {"none", "WORKING"}
  /\ s.status["own"] \in {"none", "PENDING", "WORKING"}
  /\ \A i \in Nodes : s.listed[i] # "none" => s.id[s.listed[i]] = i
  /\ OwnListed(s) => j /\ s.status["own"] # "none" /\ ~s.asking
  /\ ~OwnListed(s) => s.status["own"] # "WORKING"
  /\ s.status["own"] # "WORKING" \/ n = 2 => s.id["own"] = n
  /\ s.status["own"] = "none" => ~s.asking
  /\ HasPeers(s) => s.token = "peers"
  /\ ~HasPeers(s) => s.token = (IF s.status["own"] = "none" THEN "none" ELSE "own")
  /\ ~HasPeers(s) => \A i \in Nodes : s.listed[i] # "peers"
  /\ \A c \in Ports : s.endpoint[c] # "none" => s.endpoint[c] = s.token

(* A request is sent once, and answered once unless it is dropped.         *)
Asked(s, t, q, r, n) ==
  /\ \A m \in Range(r) : Kind(m) = "request" => m.id = n
  /\ Has(r, "request") =>
       OwnListed(s) /\ ~Has(q, "ack") /\ ~HasPeers(t) /\ "tunnel" \in s.replies
  /\ Has(q, "ack") => OwnListed(s) /\ "tunnel" \in s.replies
  /\ "tunnel" \in s.replies =>
       /\ OwnListed(s)
       /\ Has(r, "request") \/ Has(q, "ack") \/ (OwnListed(t) /\ ~Has(q, "request"))
  /\ Has(r, "request") /\ Has(q, "request") => s.status["own"] # "WORKING"
  /\ Once(q, "request") /\ Once(q, "ack")

(* Nothing has happened but requests that are on their way.                *)
Quiet(s, t, q, r) ==
  ~HasPeers(s) /\ ~HasPeers(t) /\ (~OwnListed(s) \/ ~OwnListed(t)) =>
    /\ Unconnected(s)
    /\ \A m \in Range(q) : Kind(m) = "request"
    /\ s.status["own"] # "WORKING"
    /\ OwnListed(s) => Has(r, "request")

(* The requests have crossed: the higher identity is the one of both.      *)
Crossed(s, t, q, r, n) ==
  ~HasPeers(s) /\ ~HasPeers(t) /\ OwnListed(s) /\ OwnListed(t) =>
    /\ \A m \in Range(q) : Kind(m) \in {"ack", "connect"} => m.id = 2
    /\ s.id["own"] # 2 =>
         /\ s.status["own"] = "PENDING" /\ Unconnected(s)
         /\ \A m \in Range(r) : Kind(m) # "connect"
         /\ \A m \in Range(q) : Kind(m) # "answer"

(* A late request of the peer has given the tunnel its identity until the  *)
(* answer, which that request has overtaken, gives it back.                *)
Replaced(s, q, r, n, o) ==
  /\ n = 1 /\ s.id["own"] = 2 /\ o = 1 /\ AckFirst(q) /\ Unconnected(s)
  /\ \A m \in Range(q) : Kind(m) = "answer" => m.cmd # "OK"
  /\ \A m \in Range(r) : Kind(m) = "connect" => m.id # n

(* The peer has made its tunnel for the request of n.                      *)
Answered(s, t, q, r, n, o) ==
  HasPeers(t) =>
    /\ ~HasPeers(s) /\ OwnListed(s) /\ ~Has(r, "request")
    /\ t.id["peers"] = n /\ t.listed[n] # "none"
    /\ \A m \in Range(q) : Kind(m) \in {"ack", "connect"} => m.id = n
    /\ \A m \in Range(r) : Kind(m) = "ack" => m.id = 2
    /\ AckWithin(q, o)
    /\ s.status["own"] = "PENDING" =>
         /\ Has(q, "ack")
         /\ Unconnected(s) \/ (o = 1 /\ AckFirst(q))
         /\ \A m \in Range(q) : Kind(m) # "answer"
         /\ \A m \in Range(r) : Kind(m) # "connect"
    /\ s.status["own"] = "WORKING" => s.id["own"] = n \/ Replaced(s, q, r, n, o)

Side(s, t, q, r, n, o, j) ==
  /\ Tables(s, n, j)
  /\ Asked(s, t, q, r, n)
  /\ Quiet(s, t, q, r)
  /\ Crossed(s, t, q, r, n)
  /\ Answered(s, t, q, r, n, o)

Sides(s, t, q, r, n, o, j) ==
  Side(s, t, q, r, n, o, j) /\ Side(t, s, r, q, Peer(n), o, j)

TunnelOK == Sides(rt[1], rt[2], net[1], net[2], 1, overtakes, joined)

(* Once a tunnel has timed out, there is no request left that could bring  *)
(* it back.                                                                *)
Ended(s) == s.status["own"] = "TERMINATED"

NoRevival ==
  /\ joined
  /\ \A n \in Nodes :
       /\ OwnListed(rt[n]) /\ ~rt[n].asking /\ ~Has(net[n], "request")
       /\ Ended(rt[n]) => ~Has(net[n], "ack")

(* Requests are about what they are for, and every answer is awaited until *)
(* one is late.                                                            *)
Proper(m, l) ==
  /\ m.cmd = "TUNNEL_NEW" => m.key = "tunnel"
  /\ m.cmd = "PORT_CONNECT" => m.key \in Ports
  /\ l = 0 => m.awaited

MessagesOK == \A n \in Nodes : \A m \in Range(net[n]) : Proper(m, losses)

Dead == NoRevival /\ \E n \in Nodes : Ended(rt[n])

TunnelInv == losses = 0 /\ overtakes <= 1 => TunnelOK \/ Dead

-----------------------------------------------------------------------------
(* What is sent, handled or overtaken, as far as the invariant counts it.  *)
SentNet(r, ms, r2) ==
  /\ Range(r2) = Range(r) \cup Range(ms)
  /\ \A kind : Has(r2, kind) <=> Has(r, kind) \/ Has(ms, kind)
  /\ \A kind : Once(r, kind) /\ ~Has(ms, kind) => Once(r2, kind)
  /\ \A kind : ~Has(r, kind) /\ Once(ms, kind) => Once(r2, kind)
  /\ AckFirst(r) => AckFirst(r2)
  /\ \A o : AckWithin(r, o) /\ ~Has(ms, "ack") => AckWithin(r2, o)

LEMMA Sent ==
  ASSUME NEW r \in Seq(Message), NEW ms \in Seq(Message), NEW r2, r2 = r \o ms
  PROVE  SentNet(r, ms, r2)
<1>1. /\ Len(r) \in Nat /\ DOMAIN r = 1..Len(r)
      /\ Len(ms) \in Nat /\ DOMAIN ms = 1..Len(ms)
  OBVIOUS
<1>2. /\ DOMAIN r2 = 1..(Len(r) + Len(ms))
      /\ \A k \in 1..(Len(r) + Len(ms)) : r2[k] = IF k <= Len(r) THEN r[k] ELSE ms[k - Len(r)]
  BY ConcatProperties
<1>3. \A k \in DOMAIN r : k \in DOMAIN r2 /\ r2[k] = r[k]
  BY <1>1, <1>2
<1>4. \A k \in DOMAIN ms : k + Len(r) \in DOMAIN r2 /\ r2[k + Len(r)] = ms[k]
  BY <1>1, <1>2
<1>5. \A k \in DOMAIN r2 :
        \/ k \in DOMAIN r /\ r2[k] = r[k]
        \/ k - Len(r) \in DOMAIN ms /\ r2[k] = ms[k - Len(r)]
  BY <1>1, <1>2
<1>6. Range(r2) = Range(r) \cup Range(ms)
  <2>1. ASSUME NEW k \in DOMAIN r2 PROVE r2[k] \in Range(r) \cup Range(ms)
    <3>1. \/ k \in DOMAIN r /\ r2[k] = r[k]
          \/ k - Len(r) \in DOMAIN ms /\ r2[k] = ms[k - Len(r)]
      BY <1>5
    <3> QED
      BY <3>1 DEF Range
  <2>2. ASSUME NEW k \in DOMAIN r PROVE r[k] \in Range(r2)
    BY <1>3 DEF Range
  <2>3. ASSUME NEW k \in DOMAIN ms PROVE ms[k] \in Range(r2)
    <3>1. k + Len(r) \in DOMAIN r2 /\ r2[k + Len(r)] = ms[k]
      BY <1>4
    <3> QED
      BY <3>1 DEF Range
  <2>4. Range(r2) \subseteq Range(r) \cup Range(ms)
    BY <2>1 DEF Range
  <2>5. Range(r) \subseteq Range(r2) /\ Range(ms) \subseteq Range(r2)
    BY <2>2, <2>3 DEF Range
  <2> QED
    BY <2>4, <2>5
<1>7. \A kind : Has(r2, kind) <=> Has(r, kind) \/ Has(ms, kind)
  BY <1>6 DEF Has
<1>8. ASSUME NEW kind, Once(r, kind), ~Has(ms, kind)
      PROVE  Once(r2, kind)
  <2>1. \A k \in DOMAIN r2 : Kind(r2[k]) = kind => k \in DOMAIN r /\ r2[k] = r[k]
    BY <1>5, <1>8 DEF Has, Range
  <2> QED
    BY <1>8, <2>1 DEF Once
<1>9. ASSUME NEW kind, ~Has(r, kind), Once(ms, kind)
      PROVE  Once(r2, kind)
  <2>1. \A k \in DOMAIN r2 : Kind(r2[k]) = kind => k - Len(r) \in DOMAIN ms /\ r2[k] = ms[k - Len(r)]
    BY <1>5, <1>9 DEF Has, Range
  <2>2. ASSUME NEW j \in DOMAIN r2, NEW k \in DOMAIN r2, Kind(r2[j]) = kind, Kind(r2[k]) = kind
        PROVE  j = k
    <3>1. j - Len(r) = k - Len(r)
      BY <1>9, <2>1, <2>2 DEF Once
    <3> QED
      BY <1>1, <1>2, <3>1
  <2> QED
    BY <2>2 DEF Once
<1>10. AckFirst(r) => AckFirst(r2)
  BY <1>3 DEF AckFirst
<1>11. ASSUME NEW o, AckWithin(r, o), ~Has(ms, "ack")
       PROVE  AckWithin(r2, o)
  <2>1. \A k \in DOMAIN r2 : Kind(r2[k]) = "ack" => k \in DOMAIN r /\ r2[k] = r[k]
    BY <1>5, <1>11 DEF Has, Range
  <2> QED
    BY <1>11, <2>1 DEF AckWithin
<1> QED
  BY <1>6, <1>7, <1>8, <1>9, <1>10, <1>11 DEF SentNet

HandledNet(q, q2) ==
  /\ Range(q) = Range(q2) \cup {Head(q)}
  /\ \A kind : Once(q, kind) => Once(q2, kind)
  /\ \A kind : Once(q, kind) /\ Kind(Head(q)) = kind => ~Has(q2, kind)
  /\ \A kind : Kind(Head(q)) # kind => (Has(q2, kind) <=> Has(q, kind))
  /\ \A o : AckWithin(q, o) => AckWithin(q2, o)
  /\ \A o : AckWithin(q, o) /\ Kind(Head(q)) # "ack" /\ Has(q, "ack") => AckFirst(q2) /\ o = 1
  /\ AckFirst(q) => Kind(Head(q)) = "ack"

LEMMA Handled ==
  ASSUME NEW q \in Seq(Message), q # <<>>, NEW q2, q2 = Tail(q)
  PROVE  HandledNet(q, q2)
<1>1. /\ Len(q) \in Nat /\ DOMAIN q = 1..Len(q) /\ 1 \in DOMAIN q
      /\ Head(q) = q[1]
      /\ DOMAIN q2 = 1..(Len(q) - 1)
      /\ \A k \in 1..(Len(q) - 1) : q2[k] = q[k + 1]
  BY HeadTailProperties
<1>2. \A k \in DOMAIN q2 : k + 1 \in DOMAIN q /\ k + 1 # 1 /\ q2[k] = q[k + 1]
  BY <1>1
<1>3. \A k \in DOMAIN q : k = 1 \/ (k - 1 \in DOMAIN q2 /\ q2[k - 1] = q[k])
  BY <1>1
<1>4. Range(q) = Range(q2) \cup {Head(q)}
  <2>1. ASSUME NEW k \in DOMAIN q PROVE q[k] \in Range(q2) \cup {Head(q)}
    <3>1. k = 1 \/ (k - 1 \in DOMAIN q2 /\ q2[k - 1] = q[k])
      BY <1>3
    <3> QED
      BY <1>1, <3>1 DEF Range
  <2>2. ASSUME NEW k \in DOMAIN q2 PROVE q2[k] \in Range(q)
    BY <1>2 DEF Range
  <2>3. Head(q) \in Range(q)
    BY <1>1 DEF Range
  <2>4. Range(q) \subseteq Range(q2) \cup {Head(q)}
    BY <2>1 DEF Range
  <2>5. Range(q2) \subseteq Range(q)
    BY <2>2 DEF Range
  <2> QED
    BY <2>3, <2>4, <2>5
<1>5. ASSUME NEW kind, Once(q, kind)
      PROVE  Once(q2, kind) /\ (Kind(Head(q)) = kind => ~Has(q2, kind))
  <2>1. ASSUME NEW j \in DOMAIN q2, NEW k \in DOMAIN q2, Kind(q2[j]) = kind, Kind(q2[k]) = kind
        PROVE  j = k
    <3>1. j + 1 = k + 1
      BY <1>2, <1>5, <2>1 DEF Once
    <3> QED
      BY <1>1, <3>1
  <2>2. Kind(Head(q)) = kind => ~Has(q2, kind)
    BY <1>1, <1>2, <1>5 DEF Once, Has, Range
  <2> QED
    BY <2>1, <2>2 DEF Once
<1>6. \A kind : Kind(Head(q)) # kind => (Has(q2, kind) <=> Has(q, kind))
  BY <1>4 DEF Has
<1>7. ASSUME NEW o, AckWithin(q, o)
      PROVE  /\ AckWithin(q2, o)
             /\ Kind(Head(q)) # "ack" /\ Has(q, "ack") => AckFirst(q2) /\ o = 1
  <2>1. AckWithin(q2, o)
    <3> SUFFICES ASSUME NEW k \in DOMAIN q2, Kind(q2[k]) = "ack"
                 PROVE  k = 1 \/ (k = 2 /\ o = 1)
      BY DEF AckWithin
    <3>1. k + 1 = 1 \/ (k + 1 = 2 /\ o = 1)
      BY <1>2, <1>7 DEF AckWithin
    <3> QED
      BY <1>1, <3>1
  <2>2. ASSUME Kind(Head(q)) # "ack", Has(q, "ack")
        PROVE  AckFirst(q2) /\ o = 1
    <3>1. PICK k \in DOMAIN q : Kind(q[k]) = "ack"
      BY <2>2 DEF Has, Range
    <3>2. k = 2 /\ o = 1
      BY <1>1, <1>7, <2>2, <3>1 DEF AckWithin
    <3> QED
      BY <1>3, <3>1, <3>2 DEF AckFirst
  <2> QED
    BY <2>1, <2>2
<1>8. AckFirst(q) => Kind(Head(q)) = "ack"
  BY <1>1 DEF AckFirst
<1> QED
  BY <1>4, <1>5, <1>6, <1>7, <1>8 DEF HandledNet

LEMMA Overtaken ==
  ASSUME NEW q \in Seq(Message), NEW k \in 1..Len(q) - 1, NEW q2, q2 = Swapped(q, k)
  PROVE  /\ Range(q2) = Range(q)
         /\ \A kind : Has(q2, kind) <=> Has(q, kind)
         /\ \A kind : Once(q, kind) => Once(q2, kind)
         /\ AckWithin(q, 0) => AckWithin(q2, 1)
<1>1. /\ DOMAIN q2 = DOMAIN q /\ DOMAIN q = 1..Len(q) /\ Len(q) \in Nat
      /\ k \in DOMAIN q /\ k + 1 \in DOMAIN q /\ k # k + 1
      /\ q2[k] = q[k + 1] /\ q2[k + 1] = q[k]
      /\ \A j \in DOMAIN q : j # k /\ j # k + 1 => q2[j] = q[j]
  BY SwappedType
<1>2. Range(q2) = Range(q)
  BY <1>1 DEF Range
<1>3. \A kind : Has(q2, kind) <=> Has(q, kind)
  BY <1>2 DEF Has
<1>4. ASSUME NEW kind, Once(q, kind)
      PROVE  Once(q2, kind)
  <2> DEFINE was(j) == IF j = k THEN k + 1 ELSE IF j = k + 1 THEN k ELSE j
  <2>1. \A j \in DOMAIN q : was(j) \in DOMAIN q /\ q2[j] = q[was(j)]
    BY <1>1
  <2>2. \A i, j \in DOMAIN q : was(i) = was(j) => i = j
    BY <1>1
  <2> HIDE DEF was
  <2> QED
    BY <1>1, <1>4, <2>1, <2>2 DEF Once
<1>5. ASSUME AckWithin(q, 0)
      PROVE  AckWithin(q2, 1)
  <2> SUFFICES ASSUME NEW j \in DOMAIN q, Kind(q2[j]) = "ack"
               PROVE  j = 1 \/ j = 2
    BY <1>1 DEF AckWithin
  <2>1. \A i \in DOMAIN q : Kind(q[i]) = "ack" => i = 1
    BY <1>5 DEF AckWithin
  <2> QED
    BY <1>1, <2>1
<1> QED
  BY <1>2, <1>3, <1>4, <1>5

-----------------------------------------------------------------------------
(* Every step keeps the invariant: first those about a connection.  What a *)
(* runtime sends is about the tunnel of its ports, once that works ...     *)
PortMessages(s, q, ms) ==
  \A m \in Range(ms) :
    /\ Kind(m) \in {"connect", "answer"}
    /\ Kind(m) = "connect" =>
         /\ s.token # "none" /\ m.id = s.id[s.token]
         /\ s.status[s.token] = "WORKING" \/ Has(q, "answer")
    /\ Kind(m) = "answer" =>
         \E a \in Range(q) : Kind(a) = "connect" /\ (m.cmd = "OK" => a.id = s.id[s.token])

(* ... it handles one message at most, which is not about a tunnel ...     *)
PortHandled(q, q2) ==
  \/ q2 = q
  \/ q # <<>> /\ Kind(Head(q)) \in {"connect", "answer"} /\ q2 = Tail(q)

(* ... and attaches an endpoint to the ports' tunnel for it alone.         *)
PortEnds(s, s2, q, q2) ==
  \A c \in Ports :
    \/ s2.endpoint[c] = s.endpoint[c]
    \/ /\ s.token # "none" /\ s2.endpoint[c] = s.token
       /\ q # <<>> /\ q2 = Tail(q)
       /\ \/ Kind(Head(q)) = "connect" /\ Head(q).id = s.id[s.token]
          \/ Kind(Head(q)) = "answer" /\ Head(q).cmd = "OK"

LEMMA HeadInRange ==
  ASSUME NEW q \in Seq(Message), q # <<>>
  PROVE  Head(q) \in Range(q)
BY DEF Range

LEMMA PortHandledNet ==
  ASSUME NEW q \in Seq(Message), NEW q2, PortHandled(q, q2), Once(q, "request"), Once(q, "ack")
  PROVE  /\ Range(q2) \subseteq Range(q)
         /\ Has(q2, "request") <=> Has(q, "request")
         /\ Has(q2, "ack") <=> Has(q, "ack")
         /\ Once(q2, "request") /\ Once(q2, "ack")
         /\ AckFirst(q) => q2 = q
         /\ \A o : AckWithin(q, o) => AckWithin(q2, o)
         /\ \A o : AckWithin(q, o) /\ Has(q, "ack") => q2 = q \/ (AckFirst(q2) /\ o = 1)
         /\ q2 # q => Head(q) \in Range(q)
<1>1. CASE q2 = q
  BY <1>1
<1>2. CASE q # <<>> /\ Kind(Head(q)) \in {"connect", "answer"} /\ q2 = Tail(q)
  <2>0. q # <<>> /\ q2 = Tail(q)
    BY <1>2
  <2>1. Kind(Head(q)) # "request" /\ Kind(Head(q)) # "ack"
    BY <1>2
  <2>2. HandledNet(q, q2)
    BY <2>0, Handled
  <2>3. (Has(q2, "request") <=> Has(q, "request")) /\ (Has(q2, "ack") <=> Has(q, "ack"))
    BY <2>1, <2>2 DEF HandledNet
  <2>4. \A o : AckWithin(q, o) /\ Has(q, "ack") => AckFirst(q2) /\ o = 1
    BY <2>1, <2>2 DEF HandledNet
  <2>5. ~AckFirst(q)
    BY <2>1, <2>2 DEF HandledNet
  <2>6. /\ Range(q2) \subseteq Range(q) /\ Head(q) \in Range(q)
        /\ Once(q2, "request") /\ Once(q2, "ack")
        /\ \A o : AckWithin(q, o) => AckWithin(q2, o)
    BY <2>2 DEF HandledNet
  <2> QED
    BY <2>3, <2>4, <2>5, <2>6
<1> QED
  BY <1>1, <1>2 DEF PortHandled

LEMMA PortMessagesNet ==
  ASSUME NEW s, NEW q, NEW ms \in Seq(Message), PortMessages(s, q, ms),
         NEW r \in Seq(Message), NEW r2, r2 = r \o ms, Once(r, "request"), Once(r, "ack")
  PROVE  /\ Range(r2) = Range(r) \cup Range(ms)
         /\ Has(r2, "request") <=> Has(r, "request")
         /\ Has(r2, "ack") <=> Has(r, "ack")
         /\ Once(r2, "request") /\ Once(r2, "ack")
         /\ AckFirst(r) => AckFirst(r2)
         /\ \A o : AckWithin(r, o) => AckWithin(r2, o)
<1>1. ~Has(ms, "request") /\ ~Has(ms, "ack")
  BY DEF PortMessages, Has
<1>2. SentNet(r, ms, r2)
  BY Sent
<1> QED
  BY <1>1, <1>2 DEF SentNet

LEMMA PortStep ==
  ASSUME NEW n \in Nodes, NEW o, NEW j,
         NEW s \in Runtime, NEW s2 \in Runtime, NEW t \in Runtime,
         NEW q \in Seq(Message), NEW q2 \in Seq(Message),
         NEW r \in Seq(Message), NEW r2 \in Seq(Message), NEW ms \in Seq(Message),
         Sides(s, t, q, r, n, o, j), SameTunnels(s, s2),
         PortHandled(q, q2), PortMessages(s, q, ms), r2 = r \o ms, PortEnds(s, s2, q, q2)
  PROVE  Sides(s2, t, q2, r2, n, o, j)
<1> DEFINE b == Peer(n)
<1>1. b \in Nodes /\ b # n /\ Nodes = {1, 2}
  BY Peers
<1>2. /\ Tables(s, n, j) /\ Asked(s, t, q, r, n) /\ Quiet(s, t, q, r)
      /\ Crossed(s, t, q, r, n) /\ Answered(s, t, q, r, n, o)
      /\ Tables(t, b, j) /\ Asked(t, s, r, q, b) /\ Quiet(t, s, r, q)
      /\ Crossed(t, s, r, q, b) /\ Answered(t, s, r, q, b, o)
  BY DEF Sides, Side
<1>3. Once(q, "request") /\ Once(q, "ack") /\ Once(r, "request") /\ Once(r, "ack")
  BY <1>2 DEF Asked
<1>4. /\ Range(q2) \subseteq Range(q)
      /\ Has(q2, "request") <=> Has(q, "request")
      /\ Has(q2, "ack") <=> Has(q, "ack")
      /\ Once(q2, "request") /\ Once(q2, "ack")
      /\ AckFirst(q) => q2 = q
      /\ AckWithin(q, o) => AckWithin(q2, o)
      /\ AckWithin(q, o) /\ Has(q, "ack") => q2 = q \/ (AckFirst(q2) /\ o = 1)
      /\ q2 # q => Head(q) \in Range(q)
  BY <1>3, PortHandledNet
<1>5. /\ Range(r2) = Range(r) \cup Range(ms)
      /\ Has(r2, "request") <=> Has(r, "request")
      /\ Has(r2, "ack") <=> Has(r, "ack")
      /\ Once(r2, "request") /\ Once(r2, "ack")
      /\ AckFirst(r) => AckFirst(r2)
      /\ AckWithin(r, o) => AckWithin(r2, o)
  BY <1>3, PortMessagesNet
<1>6. /\ s2.status = s.status /\ s2.id = s.id /\ s2.listed = s.listed /\ s2.token = s.token
      /\ s2.asking = s.asking /\ ("tunnel" \in s2.replies) = ("tunnel" \in s.replies)
      /\ OwnListed(s2) = OwnListed(s) /\ HasPeers(s2) = HasPeers(s)
  BY DEF SameTunnels, OwnListed, HasPeers
<1>7. Tables(s2, n, j)
  <2>1. \A c \in Ports : s2.endpoint[c] # "none" => s2.endpoint[c] = s.token
    <3>1. \A c \in Ports : s.endpoint[c] # "none" => s.endpoint[c] = s.token
      BY <1>2 DEF Tables
    <3>2. \A c \in Ports : s2.endpoint[c] = s.endpoint[c] \/ s2.endpoint[c] = s.token
      BY DEF PortEnds
    <3> QED
      BY <3>1, <3>2
  <2>2. \A i \in Nodes : s2.listed[i] # "none" => s2.id[s2.listed[i]] = i
    BY <1>2, <1>6 DEF Tables
  <2>3. ~HasPeers(s2) => \A i \in Nodes : s2.listed[i] # "peers"
    BY <1>2, <1>6 DEF Tables
  <2>4. /\ OwnListed(s2) => j /\ s2.status["own"] # "none" /\ ~s2.asking
        /\ ~OwnListed(s2) => s2.status["own"] # "WORKING"
        /\ s2.status["own"] # "WORKING" \/ n = 2 => s2.id["own"] = n
        /\ s2.status["own"] = "none" => ~s2.asking
    BY <1>2, <1>6 DEF Tables
  <2>5. /\ s2.status["peers"] \in {"none", "WORKING"}
        /\ s2.status["own"] \in {"none", "PENDING", "WORKING"}
        /\ HasPeers(s2) => s2.token = "peers"
        /\ ~HasPeers(s2) => s2.token = (IF s2.status["own"] = "none" THEN "none" ELSE "own")
    BY <1>2, <1>6 DEF Tables
  <2> QED
    BY <1>6, <2>1, <2>2, <2>3, <2>4, <2>5 DEF Tables
<1>8. Asked(s2, t, q2, r2, n) /\ Asked(t, s2, r2, q2, b)
  <2>1. \A m \in Range(r2) : Kind(m) = "request" => m \in Range(r)
    BY <1>5 DEF PortMessages
  <2>2. \A m \in Range(q2) : Kind(m) = "request" => m \in Range(q)
    BY <1>4
  <2>3. Asked(s2, t, q2, r2, n)
    BY <1>2, <1>4, <1>5, <1>6, <2>1 DEF Asked
  <2>4. Asked(t, s2, r2, q2, b)
    BY <1>2, <1>4, <1>5, <1>6, <2>2 DEF Asked
  <2> QED
    BY <2>3, <2>4
<1>9. Quiet(s2, t, q2, r2) /\ Quiet(t, s2, r2, q2)
  <2> SUFFICES ASSUME ~HasPeers(s), ~HasPeers(t), ~OwnListed(s) \/ ~OwnListed(t)
               PROVE  Quiet(s2, t, q2, r2) /\ Quiet(t, s2, r2, q2)
    BY <1>6 DEF Quiet
  <2>1. /\ \A m \in Range(q) : Kind(m) = "request"
        /\ s.status["own"] # "WORKING"
    BY <1>2 DEF Quiet
  <2>2. q2 = q
    BY <1>4, <2>1 DEF PortHandled
  <2>3. s.token # "none" => s.status[s.token] # "WORKING"
    BY <1>2, <2>1 DEF Tables
  <2>4. Range(ms) = {}
    BY <2>1, <2>3 DEF PortMessages, Has
  <2>5. Unconnected(s2) = Unconnected(s)
    <3>1. q # <<>> => Head(q) \in Range(q)
      BY HeadInRange
    <3>2. \A c \in Ports : s2.endpoint[c] = s.endpoint[c]
      BY <2>1, <3>1 DEF PortEnds
    <3> QED
      BY <3>2 DEF Unconnected
  <2> QED
    BY <1>2, <1>5, <1>6, <2>2, <2>4, <2>5 DEF Quiet
<1>10. Crossed(s2, t, q2, r2, n) /\ Crossed(t, s2, r2, q2, b)
  <2> SUFFICES ASSUME ~HasPeers(s), ~HasPeers(t), OwnListed(s), OwnListed(t)
               PROVE  Crossed(s2, t, q2, r2, n) /\ Crossed(t, s2, r2, q2, b)
    BY <1>6 DEF Crossed
  <2>1. s.token = "own"
    BY <1>2 DEF Tables
  <2>2. s.id["own"] # 2 => \A m \in Range(ms) : Kind(m) # "connect"
    BY <1>2, <2>1 DEF Crossed, PortMessages, Has
  <2>3. \A m \in Range(ms) : Kind(m) = "connect" => m.id = 2
    BY <2>1, <2>2 DEF PortMessages
  <2>4. \A m \in Range(ms) : Kind(m) = "answer" => Has(q, "connect")
    BY DEF PortMessages, Has
  <2>5. s.id["own"] # 2 => Unconnected(s2)
    <3> SUFFICES ASSUME s.id["own"] # 2, NEW c \in Ports
                 PROVE  s2.endpoint[c] = "none"
      BY DEF Unconnected
    <3>1. /\ s.endpoint[c] = "none"
          /\ \A m \in Range(q) : Kind(m) # "answer" /\ (Kind(m) = "connect" => m.id = 2)
      BY <1>2 DEF Crossed, Unconnected
    <3>2. q # <<>> => Head(q) \in Range(q)
      BY HeadInRange
    <3> QED
      BY <2>1, <3>1, <3>2 DEF PortEnds
  <2>6. Crossed(s2, t, q2, r2, n)
    BY <1>2, <1>4, <1>5, <1>6, <2>2, <2>5 DEF Crossed
  <2>7. Crossed(t, s2, r2, q2, b)
    BY <1>2, <1>4, <1>5, <1>6, <2>3, <2>4 DEF Crossed, PortMessages, Has
  <2> QED
    BY <2>6, <2>7
<1>11. Answered(s2, t, q2, r2, n, o)
  <2> SUFFICES ASSUME HasPeers(t)
               PROVE  Answered(s2, t, q2, r2, n, o)
    BY DEF Answered
  <2>1. /\ ~HasPeers(s) /\ OwnListed(s) /\ s.token = "own" /\ s.status["own"] \in {"PENDING", "WORKING"}
    BY <1>2 DEF Answered, Tables
  <2>2. ASSUME s.status["own"] = "PENDING"
        PROVE  /\ Unconnected(s2) \/ (o = 1 /\ AckFirst(q2))
               /\ \A m \in Range(r2) : Kind(m) # "connect"
    <3>1. /\ Has(q, "ack") /\ AckWithin(q, o)
          /\ Unconnected(s) \/ (o = 1 /\ AckFirst(q))
          /\ \A m \in Range(q) : Kind(m) # "answer"
          /\ \A m \in Range(r) : Kind(m) # "connect"
      BY <1>2, <2>2 DEF Answered
    <3>2. \A m \in Range(ms) : Kind(m) # "connect"
      BY <2>1, <2>2, <3>1 DEF PortMessages, Has
    <3>3. q2 # q => o = 1 /\ AckFirst(q2)
      BY <1>4, <3>1
    <3>4. Unconnected(s2) \/ (o = 1 /\ AckFirst(q2))
      BY <3>1, <3>3, <1>4 DEF Unconnected, PortEnds
    <3> QED
      BY <1>5, <3>1, <3>2, <3>4
  <2>3. ASSUME s.status["own"] = "WORKING", s.id["own"] # n
        PROVE  Replaced(s2, q2, r2, n, o)
    <3>1. Replaced(s, q, r, n, o)
      BY <1>2, <2>3 DEF Answered
    <3>2. q2 = q /\ AckFirst(q)
      BY <1>4, <3>1 DEF Replaced
    <3>3. Unconnected(s2)
      BY <3>1, <3>2 DEF Replaced, Unconnected, PortEnds
    <3>4. \A m \in Range(ms) : Kind(m) = "connect" => m.id # n
      BY <2>1, <2>3 DEF PortMessages
    <3> QED
      BY <1>5, <1>6, <3>1, <3>2, <3>3, <3>4 DEF Replaced
  <2>4. /\ \A m \in Range(q2) : Kind(m) \in {"ack", "connect"} => m.id = n
        /\ \A m \in Range(r2) : Kind(m) = "ack" => m.id = 2
        /\ AckWithin(q2, o)
    BY <1>2, <1>4, <1>5 DEF Answered, PortMessages
  <2>5. /\ ~HasPeers(s2) /\ OwnListed(s2) /\ ~Has(r2, "request")
        /\ t.id["peers"] = n /\ t.listed[n] # "none"
    BY <1>2, <1>5, <1>6 DEF Answered
  <2>6. s.status["own"] = "PENDING" => Has(q2, "ack") /\ \A m \in Range(q2) : Kind(m) # "answer"
    BY <1>2, <1>4 DEF Answered
  <2> QED
    BY <1>6, <2>2, <2>3, <2>4, <2>5, <2>6 DEF Answered
<1>12. Answered(t, s2, r2, q2, b, o)
  <2> SUFFICES ASSUME HasPeers(s)
               PROVE  Answered(t, s2, r2, q2, b, o)
    BY <1>6 DEF Answered
  <2>1. s.token = "peers" /\ s.id["peers"] = b
    BY <1>2 DEF Answered, Tables
  <2>2. \A m \in Range(ms) : Kind(m) = "connect" => m.id = b
    BY <2>1 DEF PortMessages
  <2>3. \A m \in Range(ms) : Kind(m) # "ack"
    BY DEF PortMessages
  <2>4. ASSUME t.status["own"] = "PENDING"
        PROVE  \A m \in Range(r2) : Kind(m) # "answer"
    <3>1. /\ \A m \in Range(r) : Kind(m) # "answer"
          /\ \A m \in Range(q) : Kind(m) # "connect"
      BY <1>2, <2>4 DEF Answered
    <3>2. \A m \in Range(ms) : Kind(m) # "answer"
      BY <3>1 DEF PortMessages
    <3> QED
      BY <1>5, <3>1, <3>2
  <2>5. ASSUME t.status["own"] = "WORKING", t.id["own"] # b
        PROVE  Replaced(t, r2, q2, b, o)
    <3>1. Replaced(t, r, q, b, o)
      BY <1>2, <2>5 DEF Answered
    <3>2. \A m \in Range(ms) : Kind(m) = "answer" => m.cmd # "OK"
      <4> SUFFICES ASSUME NEW m \in Range(ms), Kind(m) = "answer", m.cmd = "OK"
                   PROVE  FALSE
        OBVIOUS
      <4>1. PICK a \in Range(q) : Kind(a) = "connect" /\ a.id = s.id[s.token]
        BY DEF PortMessages
      <4>2. a.id # b
        BY <3>1, <4>1 DEF Replaced
      <4> QED
        BY <2>1, <4>1, <4>2
    <3> QED
      BY <1>4, <1>5, <3>1, <3>2 DEF Replaced
  <2>6. /\ \A m \in Range(r2) : Kind(m) \in {"ack", "connect"} => m.id = b
        /\ \A m \in Range(q2) : Kind(m) = "ack" => m.id = 2
        /\ AckWithin(r2, o)
    BY <1>2, <1>4, <1>5, <2>2, <2>3 DEF Answered
  <2>7. /\ ~HasPeers(t) /\ OwnListed(t) /\ ~Has(q2, "request")
        /\ s2.id["peers"] = b /\ s2.listed[b] # "none"
    BY <1>2, <1>4, <1>6 DEF Answered
  <2>8. t.status["own"] = "PENDING" =>
          /\ Has(r2, "ack")
          /\ Unconnected(t) \/ (o = 1 /\ AckFirst(r2))
          /\ \A m \in Range(q2) : Kind(m) # "connect"
    BY <1>2, <1>4, <1>5 DEF Answered
  <2> QED
    BY <2>4, <2>5, <2>6, <2>7, <2>8 DEF Answered
<1> QED
  BY <1>2, <1>7, <1>8, <1>9, <1>10, <1>11, <1>12 DEF Sides, Side

-----------------------------------------------------------------------------
(* A tunnel about which the peer is asked, once there is a link.           *)
LEMMA Single ==
  ASSUME NEW m \in Message
  PROVE  /\ <<m>> \in Seq(Message) /\ Range(<<m>>) = {m}
         /\ \A kind : Has(<<m>>, kind) <=> Kind(m) = kind
         /\ \A kind : Once(<<m>>, kind)
<1>1. /\ <<m>> \in Seq(Message) /\ DOMAIN <<m>> = {1} /\ <<m>>[1] = m
  OBVIOUS
<1>2. Range(<<m>>) = {m}
  BY <1>1 DEF Range
<1> QED
  BY <1>1, <1>2 DEF Has, Once

LEMMA SentOne ==
  ASSUME NEW r \in Seq(Message), NEW m \in Message, NEW r2, r2 = r \o <<m>>
  PROVE  /\ Range(r2) = Range(r) \cup {m}
         /\ \A kind : Has(r2, kind) <=> Has(r, kind) \/ Kind(m) = kind
         /\ \A kind : Once(r, kind) /\ Kind(m) # kind => Once(r2, kind)
         /\ \A kind : ~Has(r, kind) => Once(r2, kind)
         /\ AckFirst(r) => AckFirst(r2)
         /\ \A o : AckWithin(r, o) /\ Kind(m) # "ack" => AckWithin(r2, o)
<1>1. SentNet(r, <<m>>, r2)
  BY Single, Sent
<1> QED
  BY <1>1, Single DEF SentNet

LEMMA AskStep ==
  ASSUME NEW n \in Nodes, NEW o, NEW j,
         NEW s \in Runtime, NEW s2 \in Runtime, NEW t \in Runtime,
         NEW q \in Seq(Message), NEW r \in Seq(Message), NEW r2 \in Seq(Message),
         Sides(s, t, q, r, n, o, j), ~OwnListed(s),
         s2.status["own"] = "PENDING", s2.status["peers"] = s.status["peers"],
         s2.id = s.id, s2.listed[n] = "own", s2.listed[Peer(n)] = s.listed[Peer(n)],
         s2.token = (IF HasPeers(s) THEN "peers" ELSE "own"), s2.asking = FALSE,
         "tunnel" \in s2.replies, s2.endpoint = s.endpoint,
         r2 = r \o <<TunnelNew(n)>>
  PROVE  Sides(s2, t, q, r2, n, o, TRUE)
<1> DEFINE b == Peer(n)
<1>1. b \in Nodes /\ b # n /\ Nodes = {1, 2} /\ \A i \in Nodes : i = n \/ i = b
  BY Peers
<1>2. /\ Tables(s, n, j) /\ Asked(s, t, q, r, n) /\ Quiet(s, t, q, r)
      /\ Crossed(s, t, q, r, n) /\ Answered(s, t, q, r, n, o)
      /\ Tables(t, b, j) /\ Asked(t, s, r, q, b) /\ Quiet(t, s, r, q)
      /\ Crossed(t, s, r, q, b) /\ Answered(t, s, r, q, b, o)
  BY DEF Sides, Side
<1> DEFINE m == TunnelNew(n)
<1>3. m \in Message /\ Kind(m) = "request" /\ m.id = n
  BY TunnelNewType DEF Kind
<1>4. /\ Range(r2) = Range(r) \cup {m}
      /\ Has(r2, "request") /\ (Has(r2, "ack") <=> Has(r, "ack"))
      /\ Once(r, "ack") => Once(r2, "ack")
      /\ ~Has(r, "request") => Once(r2, "request")
      /\ AckFirst(r) => AckFirst(r2)
      /\ AckWithin(r, o) => AckWithin(r2, o)
  BY <1>3, SentOne
<1> HIDE DEF m
<1>5. /\ s.id["own"] = n /\ s.status["own"] # "WORKING"
      /\ ~HasPeers(t) /\ ~Has(r, "request") /\ ~Has(q, "ack")
  BY <1>2 DEF Tables, Answered, Asked
<1>6. OwnListed(s2) /\ HasPeers(s2) = HasPeers(s) /\ Unconnected(s2) = Unconnected(s)
  BY <1>5 DEF OwnListed, HasPeers, Unconnected
<1>7. Tables(s2, n, TRUE) /\ Tables(t, b, TRUE)
  <2>1. \A i \in Nodes : s2.listed[i] # "none" => s2.id[s2.listed[i]] = i
    BY <1>1, <1>2, <1>5 DEF Tables
  <2>2. ~HasPeers(s) => \A i \in Nodes : s2.listed[i] # "peers"
    BY <1>1, <1>2 DEF Tables
  <2>3. \A c \in Ports : s2.endpoint[c] # "none" => s2.endpoint[c] = s2.token
    BY <1>2, <1>5 DEF Tables, Runtime, Objects
  <2>4. Tables(s2, n, TRUE)
    BY <1>2, <1>5, <1>6, <2>1, <2>2, <2>3 DEF Tables
  <2>5. Tables(t, b, TRUE)
    BY <1>2 DEF Tables
  <2> QED
    BY <2>4, <2>5
<1>8. Asked(s2, t, q, r2, n)
  BY <1>2, <1>3, <1>4, <1>5, <1>6 DEF Asked
<1>9. Asked(t, s2, r2, q, b)
  <2>1. Has(q, "request") => t.status["own"] # "WORKING"
    BY <1>2, <1>5 DEF Asked, Quiet
  <2> QED
    BY <1>2, <1>4, <1>5, <1>6, <2>1 DEF Asked
<1>10. Quiet(s2, t, q, r2) /\ Quiet(t, s2, r2, q)
  BY <1>2, <1>3, <1>4, <1>5, <1>6 DEF Quiet
<1>11. Crossed(s2, t, q, r2, n) /\ Crossed(t, s2, r2, q, b)
  <2> SUFFICES ASSUME ~HasPeers(s), OwnListed(t)
               PROVE  Crossed(s2, t, q, r2, n) /\ Crossed(t, s2, r2, q, b)
    BY <1>6 DEF Crossed
  <2>1. /\ Unconnected(s) /\ Unconnected(t) /\ t.status["own"] # "WORKING"
        /\ \A x \in Range(q) : Kind(x) = "request"
        /\ \A x \in Range(r) : Kind(x) = "request"
    BY <1>2, <1>5 DEF Quiet
  <2>2. t.id["own"] = b /\ t.status["own"] = "PENDING"
    BY <1>2, <2>1 DEF Tables
  <2> QED
    BY <1>1, <1>3, <1>4, <1>5, <1>6, <2>1, <2>2 DEF Crossed
<1>12. Answered(s2, t, q, r2, n, o) /\ Answered(t, s2, r2, q, b, o)
  <2>1. Answered(s2, t, q, r2, n, o)
    BY <1>5 DEF Answered
  <2>2. Answered(t, s2, r2, q, b, o)
    BY <1>2, <1>3, <1>4, <1>5, <1>6 DEF Answered, Replaced
  <2> QED
    BY <2>1, <2>2
<1> QED
  BY <1>7, <1>8, <1>9, <1>10, <1>11, <1>12 DEF Sides, Side

(* A tunnel that has to wait for a link.                                   *)
LEMMA WaitStep ==
  ASSUME NEW n \in Nodes, NEW o, NEW j, ~j,
         NEW s \in Runtime, NEW s2 \in Runtime, NEW t \in Runtime,
         NEW q \in Seq(Message), NEW r \in Seq(Message),
         Sides(s, t, q, r, n, o, j), s.token = "none",
         s2.status["own"] = "PENDING", s2.status["peers"] = s.status["peers"],
         s2.id = s.id, s2.listed = s.listed, s2.token = "own", s2.asking = TRUE,
         ("tunnel" \in s2.replies) = ("tunnel" \in s.replies), s2.endpoint = s.endpoint
  PROVE  Sides(s2, t, q, r, n, o, j)
<1> DEFINE b == Peer(n)
<1>2. /\ Tables(s, n, j) /\ Asked(s, t, q, r, n) /\ Quiet(s, t, q, r)
      /\ Crossed(s, t, q, r, n) /\ Answered(s, t, q, r, n, o)
      /\ Tables(t, b, j) /\ Asked(t, s, r, q, b) /\ Quiet(t, s, r, q)
      /\ Crossed(t, s, r, q, b) /\ Answered(t, s, r, q, b, o)
  BY DEF Sides, Side
<1>3. ~OwnListed(s) /\ ~HasPeers(s) /\ s.status["own"] = "none"
  BY <1>2 DEF Tables
<1>4. ~OwnListed(s2) /\ ~HasPeers(s2) /\ Unconnected(s2) = Unconnected(s)
  BY <1>3 DEF OwnListed, HasPeers, Unconnected
<1>5. Tables(s2, n, j)
  <2>1. \A c \in Ports : s2.endpoint[c] = "none"
    BY <1>2 DEF Tables
  <2> QED
    BY <1>2, <1>3, <1>4, <2>1 DEF Tables
<1>6. Asked(s2, t, q, r, n) /\ Asked(t, s2, r, q, b)
  BY <1>2, <1>3, <1>4 DEF Asked
<1>7. Quiet(s2, t, q, r) /\ Quiet(t, s2, r, q)
  BY <1>2, <1>3, <1>4 DEF Quiet
<1>8. Crossed(s2, t, q, r, n) /\ Crossed(t, s2, r, q, b)
  BY <1>4 DEF Crossed
<1>9. Answered(s2, t, q, r, n, o) /\ Answered(t, s2, r, q, b, o)
  BY <1>2, <1>3, <1>4 DEF Answered
<1> QED
  BY <1>2, <1>5, <1>6, <1>7, <1>8, <1>9 DEF Sides, Side

(* The first request is handled: nothing else is on its way.               *)
LEMMA RequestedStep ==
  ASSUME NEW n \in Nodes, NEW o, NEW j,
         NEW s \in Runtime, NEW s2 \in Runtime, NEW t \in Runtime,
         NEW q \in Seq(Message), NEW q2 \in Seq(Message),
         NEW r \in Seq(Message), NEW r2 \in Seq(Message),
         Sides(s, t, q, r, n, o, j), Listed(s) = {},
         q # <<>>, Kind(Head(q)) = "request", Head(q).key = "tunnel",
         q2 = Tail(q), s2 = WithPeers(s, Head(q).id),
         r2 = r \o <<Answer(Head(q), "OK", Head(q).id)>>
  PROVE  Sides(s2, t, q2, r2, n, o, j)
<1> DEFINE b == Peer(n)
<1>1. b \in Nodes /\ b # n /\ Nodes = {1, 2} /\ \A i \in Nodes : i = n \/ i = b
  BY Peers
<1>2. /\ Tables(s, n, j) /\ Asked(s, t, q, r, n) /\ Quiet(s, t, q, r)
      /\ Crossed(s, t, q, r, n) /\ Answered(s, t, q, r, n, o)
      /\ Tables(t, b, j) /\ Asked(t, s, r, q, b) /\ Quiet(t, s, r, q)
      /\ Crossed(t, s, r, q, b) /\ Answered(t, s, r, q, b, o)
  BY DEF Sides, Side
<1>3. \A i \in Nodes : s.listed[i] = "none"
  BY DEF Listed
<1>4. Head(q) \in Range(q) /\ Head(q) \in Message /\ Has(q, "request") /\ Head(q).id = b
  BY <1>2, HeadInRange, HeadTailProperties DEF Has, Asked
<1>5. /\ ~OwnListed(s) /\ OwnListed(t) /\ ~HasPeers(s) /\ ~HasPeers(t)
      /\ ~Has(r, "ack") /\ ~Has(r, "request") /\ "tunnel" \notin s.replies /\ "tunnel" \in t.replies
  <2>1. ~OwnListed(s)
    BY <1>1, <1>3 DEF OwnListed, Runtime, Objects
  <2>2. ~HasPeers(s) /\ OwnListed(t) /\ ~Has(r, "ack") /\ "tunnel" \in t.replies
    BY <1>2, <1>4 DEF Asked
  <2>3. ~HasPeers(t) /\ ~Has(r, "request") /\ "tunnel" \notin s.replies
    BY <1>2, <2>1 DEF Asked, Answered
  <2> QED
    BY <2>1, <2>2, <2>3
<1>6. /\ Unconnected(s) /\ Unconnected(t)
      /\ s.status["own"] # "WORKING" /\ t.status["own"] # "WORKING"
      /\ \A m \in Range(q) : Kind(m) = "request"
      /\ Range(r) = {}
  BY <1>2, <1>5 DEF Quiet, Has
<1>7. HandledNet(q, q2)
  BY Handled
<1>8. Range(q2) = {}
  <2>1. ~Has(q2, "request") /\ Range(q2) \subseteq Range(q)
    BY <1>2, <1>7 DEF HandledNet, Asked
  <2> QED
    BY <1>6, <2>1 DEF Has
<1>9. ~Has(q2, "request") /\ ~Has(q2, "ack") /\ Once(q2, "request") /\ Once(q2, "ack")
  BY <1>2, <1>7, <1>8 DEF Has, HandledNet, Asked
<1> DEFINE m == Answer(Head(q), "OK", Head(q).id)
<1>10. m \in Message /\ Kind(m) = "ack" /\ m.id = b /\ m.cmd = "OK"
  BY <1>1, <1>4, AnswerType DEF Kind
<1>11. /\ Range(r2) = {m} /\ Has(r2, "ack") /\ ~Has(r2, "request")
       /\ Once(r2, "ack") /\ Once(r2, "request") /\ AckWithin(r2, o)
  <2>1. r = <<>>
    BY <1>6, HeadInRange
  <2>2. r2 = <<m>>
    BY <1>10, <2>1, ConcatEmptySeq
  <2>3. DOMAIN r2 = {1}
    BY <2>2
  <2> HIDE DEF m
  <2>4. /\ Range(<<m>>) = {m}
        /\ \A kind : Has(<<m>>, kind) <=> Kind(m) = kind
        /\ \A kind : Once(<<m>>, kind)
    BY <1>10, Single
  <2> QED
    BY <1>10, <2>2, <2>3, <2>4 DEF AckWithin
<1> HIDE DEF m
<1>12. /\ s2.status["own"] = s.status["own"] /\ s2.status["peers"] = "WORKING"
       /\ s2.id["own"] = s.id["own"] /\ s2.id["peers"] = b
       /\ s2.listed[b] = "peers" /\ s2.listed[n] = "none"
       /\ s2.token = "peers" /\ s2.asking = s.asking /\ s2.replies = s.replies
       /\ s2.endpoint = s.endpoint
  BY <1>1, <1>3, <1>4 DEF WithPeers, Runtime, Objects
<1>13. s.id["own"] = n
  BY <1>2, <1>6 DEF Tables
<1>14. ~OwnListed(s2) /\ HasPeers(s2) /\ Unconnected(s2)
  BY <1>1, <1>6, <1>12, <1>13 DEF OwnListed, HasPeers, Unconnected
<1>15. Tables(s2, n, j)
  <2>1. \A i \in Nodes : s2.listed[i] # "none" => s2.id[s2.listed[i]] = i
    <3>1. s2.id["peers"] = b
      BY <1>12
    <3> QED
      BY <1>1, <1>12, <3>1
  <2>2. \A c \in Ports : s2.endpoint[c] = "none"
    BY <1>14 DEF Unconnected
  <2>3. /\ s.status["own"] \in {"none", "PENDING"}
        /\ s.status["own"] = "none" => ~s.asking
    BY <1>2, <1>6 DEF Tables
  <2> QED
    BY <1>12, <1>13, <1>14, <2>1, <2>2, <2>3 DEF Tables
<1>16. Asked(s2, t, q2, r2, n) /\ Asked(t, s2, r2, q2, b)
  BY <1>5, <1>8, <1>9, <1>11, <1>12, <1>14 DEF Asked, Has
<1>17. Quiet(s2, t, q2, r2) /\ Quiet(t, s2, r2, q2) /\ Crossed(s2, t, q2, r2, n) /\ Crossed(t, s2, r2, q2, b)
  BY <1>14 DEF Quiet, Crossed
<1>18. Answered(s2, t, q2, r2, n, o) /\ Answered(t, s2, r2, q2, b, o)
  <2>1. Answered(s2, t, q2, r2, n, o)
    BY <1>5 DEF Answered
  <2>2. Answered(t, s2, r2, q2, b, o)
    BY <1>5, <1>6, <1>8, <1>9, <1>10, <1>11, <1>12 DEF Answered
  <2> QED
    BY <2>1, <2>2
<1> QED
  BY <1>2, <1>15, <1>16, <1>17, <1>18 DEF Sides, Side

(* A request that comes while a tunnel works is dropped.                   *)
LEMMA DroppedStep ==
  ASSUME NEW n \in Nodes, NEW o, NEW j,
         NEW s \in Runtime, NEW t \in Runtime,
         NEW q \in Seq(Message), NEW q2 \in Seq(Message), NEW r \in Seq(Message),
         Sides(s, t, q, r, n, o, j), NEW x \in Listed(s), s.status[x] = "WORKING",
         q # <<>>, Kind(Head(q)) = "request", q2 = Tail(q)
  PROVE  Sides(s, t, q2, r, n, o, j)
<1> DEFINE b == Peer(n)
<1>2. /\ Tables(s, n, j) /\ Asked(s, t, q, r, n) /\ Quiet(s, t, q, r)
      /\ Crossed(s, t, q, r, n) /\ Answered(s, t, q, r, n, o)
      /\ Tables(t, b, j) /\ Asked(t, s, r, q, b) /\ Quiet(t, s, r, q)
      /\ Crossed(t, s, r, q, b) /\ Answered(t, s, r, q, b, o)
  BY DEF Sides, Side
<1>3. Has(q, "request")
  BY HeadInRange DEF Has
<1>4. ~HasPeers(s) /\ OwnListed(t) /\ ~Has(r, "ack") /\ "tunnel" \in t.replies
  BY <1>2, <1>3 DEF Asked
<1>5. x = "own"
  BY <1>2, <1>4 DEF Listed, Tables, Runtime, Objects
<1>6. s.status["own"] = "WORKING" /\ OwnListed(s) /\ ~Has(r, "request")
  BY <1>2, <1>3, <1>5 DEF Asked, Tables
<1>7. HandledNet(q, q2)
  BY Handled
<1>8. /\ Range(q2) \subseteq Range(q) /\ ~Has(q2, "request") /\ (Has(q2, "ack") <=> Has(q, "ack"))
      /\ Once(q2, "request") /\ Once(q2, "ack") /\ ~AckFirst(q)
      /\ AckWithin(q, o) => AckWithin(q2, o)
  BY <1>2, <1>7 DEF HandledNet, Asked
<1>9. Asked(s, t, q2, r, n) /\ Asked(t, s, r, q2, b)
  BY <1>2, <1>4, <1>6, <1>8 DEF Asked
<1>10. Quiet(s, t, q2, r) /\ Quiet(t, s, r, q2)
  BY <1>4, <1>6 DEF Quiet
<1>11. Crossed(s, t, q2, r, n) /\ Crossed(t, s, r, q2, b)
  BY <1>2, <1>8 DEF Crossed
<1>12. Answered(s, t, q2, r, n, o) /\ Answered(t, s, r, q2, b, o)
  BY <1>2, <1>4, <1>6, <1>8 DEF Answered, Replaced
<1> QED
  BY <1>2, <1>9, <1>10, <1>11, <1>12 DEF Sides, Side

(* The tables when the own tunnel has its new identity.                    *)
LEMMA WithIdTables ==
  ASSUME NEW n \in Nodes, NEW j, NEW s \in Runtime, NEW i \in Nodes, NEW u \in Runtime,
         u.status = s.status, u.id = s.id, u.listed = s.listed, u.token = s.token,
         u.asking = s.asking, u.endpoint = s.endpoint,
         Tables(s, n, j), OwnListed(s), n = 2 => i = 2,
         NEW s2 \in Runtime, SameTunnels(WithId(u, "own", i), s2), s2.endpoint = s.endpoint
  PROVE  /\ Tables(s2, n, j) /\ OwnListed(s2) /\ HasPeers(s2) = HasPeers(s)
         /\ s2.status["own"] = "WORKING" /\ s2.id["own"] = i /\ s2.id["peers"] = s.id["peers"]
         /\ s2.token = s.token
         /\ i = 2 => \A k \in Nodes : s.listed[k] # "none" /\ k = Peer(n) => s2.listed[k] # "none"
<1> DEFINE w == WithId(u, "own", i)
<1>1. /\ w.status["own"] = "WORKING" /\ w.status["peers"] = s.status["peers"]
      /\ w.id["own"] = i /\ w.id["peers"] = s.id["peers"]
      /\ w.listed[i] = "own"
      /\ \A k \in Nodes : k # i => w.listed[k] = IF k = s.id["own"] THEN "none" ELSE s.listed[k]
      /\ w.token = s.token /\ w.asking = s.asking
  BY DEF WithId, Runtime, Objects
<1>2. s2.status = w.status /\ s2.id = w.id /\ s2.listed = w.listed /\ s2.token = w.token /\ s2.asking = w.asking
  BY DEF SameTunnels
<1> HIDE DEF w
<1>3. OwnListed(s2) /\ HasPeers(s2) = HasPeers(s)
  BY <1>1, <1>2 DEF OwnListed, HasPeers
<1>4. \A k \in Nodes : s2.listed[k] # "none" => s2.id[s2.listed[k]] = k
  <2> SUFFICES ASSUME NEW k \in Nodes, s2.listed[k] # "none", k # i
               PROVE  s2.id[s2.listed[k]] = k
    BY <1>1, <1>2
  <2>1. s2.listed[k] = s.listed[k] /\ k # s.id["own"] /\ s.id[s.listed[k]] = k
    BY <1>1, <1>2 DEF Tables
  <2>2. s.listed[k] = "peers"
    BY <1>2, <2>1 DEF Runtime, Objects
  <2> QED
    BY <1>1, <1>2, <2>1, <2>2
<1>5. ~HasPeers(s2) => \A k \in Nodes : s2.listed[k] # "peers"
  BY <1>1, <1>2, <1>3 DEF Tables
<1>6. s.status["own"] # "none" /\ j /\ ~s.asking
  BY DEF Tables
<1>7. Tables(s2, n, j)
  BY <1>1, <1>2, <1>3, <1>4, <1>5, <1>6 DEF Tables
<1>8. ASSUME i = 2, NEW k \in Nodes, s.listed[k] # "none", k = Peer(n)
      PROVE  s2.listed[k] # "none"
  <2>1. CASE n = 2
    <3>1. s.id["own"] = 2 /\ k # 2
      BY <1>8, <2>1, Peers DEF Tables
    <3> QED
      BY <1>1, <1>2, <1>8, <3>1
  <2>2. CASE n # 2
    <3>1. k = 2
      BY <1>8, <2>2, Peers
    <3> QED
      BY <1>1, <1>2, <1>8, <3>1
  <2> QED
    BY <2>1, <2>2
<1> QED
  BY <1>1, <1>2, <1>3, <1>7, <1>8

(* Requests for connections are no other messages.                         *)
LEMMA AskForKind ==
  ASSUME NEW s, NEW ms, AskFor(s, ms)
  PROVE  /\ ms \in Seq(Message)
         /\ \A m \in Range(ms) : Kind(m) = "connect" /\ m.id = s.id[s.token] /\ m.awaited
         /\ ~Has(ms, "request") /\ ~Has(ms, "ack")
<1>1. \A m \in Range(ms) : m.cmd = "PORT_CONNECT" /\ m.id = s.id[s.token] /\ m.awaited
  BY DEF AskFor, Range
<1>2. \A m \in Range(ms) : Kind(m) = "connect"
  BY <1>1 DEF Kind
<1> QED
  BY <1>1, <1>2 DEF AskFor, Has

(* A request that crosses its own is answered, and taken for an answer.    *)
LEMMA CrossedStep ==
  ASSUME NEW n \in Nodes, NEW o, NEW j,
         NEW s \in Runtime, NEW s2 \in Runtime, NEW t \in Runtime,
         NEW q \in Seq(Message), NEW q2 \in Seq(Message),
         NEW r \in Seq(Message), NEW r2 \in Seq(Message), NEW ms \in Seq(Message),
         Sides(s, t, q, r, n, o, j), NEW x \in Listed(s), s.status[x] # "WORKING",
         q # <<>>, Kind(Head(q)) = "request", Head(q).key = "tunnel", q2 = Tail(q),
         SameTunnels(WithId(s, x, Chosen(s.id[x], Head(q).id)), s2), s2.endpoint = s.endpoint,
         AskFor(s2, ms),
         r2 = r \o (<<Answer(Head(q), "OK", Chosen(s.id[x], Head(q).id))>> \o ms)
  PROVE  Sides(s2, t, q2, r2, n, o, j)
<1> DEFINE b == Peer(n)
<1>1. b \in Nodes /\ b # n /\ Nodes = {1, 2} /\ \A i \in Nodes : i = n \/ i = b
  BY Peers
<1>2. /\ Tables(s, n, j) /\ Asked(s, t, q, r, n) /\ Quiet(s, t, q, r)
      /\ Crossed(s, t, q, r, n) /\ Answered(s, t, q, r, n, o)
      /\ Tables(t, b, j) /\ Asked(t, s, r, q, b) /\ Quiet(t, s, r, q)
      /\ Crossed(t, s, r, q, b) /\ Answered(t, s, r, q, b, o)
  BY DEF Sides, Side
<1>3. Has(q, "request") /\ Head(q) \in Message /\ Head(q).id = b
  BY <1>2, HeadInRange, HeadTailProperties DEF Has, Asked
<1>4. ~HasPeers(s) /\ OwnListed(t) /\ ~Has(r, "ack") /\ "tunnel" \in t.replies
  BY <1>2, <1>3 DEF Asked
<1>5. x = "own"
  BY <1>2, <1>4 DEF Listed, Tables, Runtime, Objects
<1>6. /\ OwnListed(s) /\ s.status["own"] = "PENDING" /\ s.id["own"] = n /\ s.token = "own"
  BY <1>2, <1>4, <1>5 DEF Listed, Tables, OwnListed
<1>7. Chosen(s.id[x], Head(q).id) = 2
  BY <1>1, <1>3, <1>5, <1>6 DEF Chosen
<1> DEFINE m == Answer(Head(q), "OK", 2)
<1>8. m \in Message /\ Kind(m) = "ack" /\ m.id = 2
  BY <1>1, <1>3, AnswerType DEF Kind
<1>9. /\ Tables(s2, n, j) /\ OwnListed(s2) /\ ~HasPeers(s2)
      /\ s2.status["own"] = "WORKING" /\ s2.id["own"] = 2 /\ s2.token = "own"
      /\ ("tunnel" \in s2.replies) = ("tunnel" \in s.replies)
      /\ Unconnected(s2) = Unconnected(s)
  <2>1. SameTunnels(WithId(s, "own", 2), s2)
    BY <1>5, <1>7
  <2>2. ("tunnel" \in s2.replies) = ("tunnel" \in s.replies)
    BY <2>1 DEF SameTunnels, WithId, Runtime
  <2> QED
    BY <1>1, <1>2, <1>4, <1>6, <2>1, <2>2, WithIdTables DEF Unconnected
<1>10. HandledNet(q, q2)
  BY Handled
<1>11. /\ Range(q2) \subseteq Range(q) /\ ~Has(q2, "request") /\ (Has(q2, "ack") <=> Has(q, "ack"))
       /\ Once(q2, "request") /\ Once(q2, "ack") /\ ~AckFirst(q)
       /\ AckWithin(q, o) => AckWithin(q2, o)
       /\ AckWithin(q, o) /\ Has(q, "ack") => AckFirst(q2) /\ o = 1
  BY <1>2, <1>10 DEF HandledNet, Asked
<1>12. /\ \A y \in Range(ms) : Kind(y) = "connect" /\ y.id = 2
       /\ ~Has(ms, "request") /\ ~Has(ms, "ack")
  BY <1>9, AskForKind
<1> HIDE DEF m
<1>13. /\ Range(r2) = Range(r) \cup {m} \cup Range(ms)
       /\ Has(r2, "ack") /\ (Has(r2, "request") <=> Has(r, "request"))
       /\ Once(r2, "ack") /\ Once(r2, "request")
  <2> DEFINE sent == <<m>> \o ms
  <2>1. <<m>> \in Seq(Message) /\ sent \in Seq(Message)
    BY <1>8, Single, ConcatProperties
  <2>2. SentNet(<<m>>, ms, sent)
    BY <2>1, Sent
  <2>3. r2 = r \o sent
    BY <1>7 DEF m
  <2> HIDE DEF sent
  <2>4. SentNet(r, sent, r2)
    BY <2>1, <2>3, Sent
  <2>5. /\ Range(<<m>>) = {m}
        /\ \A kind : Has(<<m>>, kind) <=> Kind(m) = kind
        /\ \A kind : Once(<<m>>, kind)
    BY <1>8, Single
  <2>6. /\ Range(sent) = {m} \cup Range(ms) /\ Has(sent, "ack") /\ ~Has(sent, "request")
        /\ Once(sent, "ack")
    BY <1>8, <1>12, <2>2, <2>5 DEF SentNet
  <2> QED
    BY <1>2, <1>4, <2>4, <2>6 DEF SentNet, Asked
<1>14. Asked(s2, t, q2, r2, n)
  <2>1. \A y \in Range(r2) : Kind(y) = "request" => y.id = n
    BY <1>2, <1>8, <1>12, <1>13 DEF Asked
  <2> QED
    BY <1>2, <1>4, <1>9, <1>11, <1>13, <2>1 DEF Asked
<1>15. Asked(t, s2, r2, q2, b)
  <2>1. \A y \in Range(q2) : Kind(y) = "request" => y.id = b
    BY <1>2, <1>11 DEF Asked
  <2> QED
    BY <1>2, <1>4, <1>9, <1>11, <1>13, <2>1 DEF Asked
<1>16. Quiet(s2, t, q2, r2) /\ Quiet(t, s2, r2, q2)
  BY <1>4, <1>9 DEF Quiet
<1>17. Crossed(s2, t, q2, r2, n) /\ Crossed(t, s2, r2, q2, b)
  <2> SUFFICES ASSUME ~HasPeers(t)
               PROVE  Crossed(s2, t, q2, r2, n) /\ Crossed(t, s2, r2, q2, b)
    BY DEF Crossed
  <2>1. Crossed(s2, t, q2, r2, n)
    BY <1>2, <1>4, <1>6, <1>9, <1>11 DEF Crossed
  <2>2. Crossed(t, s2, r2, q2, b)
    BY <1>2, <1>4, <1>6, <1>8, <1>11, <1>12, <1>13 DEF Crossed
  <2> QED
    BY <2>1, <2>2
<1>18. Answered(s2, t, q2, r2, n, o)
  <2> SUFFICES ASSUME HasPeers(t)
               PROVE  Answered(s2, t, q2, r2, n, o)
    BY DEF Answered
  <2>1. /\ Has(q, "ack") /\ AckWithin(q, o) /\ (Unconnected(s) \/ AckFirst(q))
        /\ \A y \in Range(q) : Kind(y) # "answer"
        /\ \A y \in Range(r) : Kind(y) # "connect"
        /\ ~Has(r, "request") /\ t.id["peers"] = n /\ t.listed[n] # "none"
        /\ \A y \in Range(q) : Kind(y) \in {"ack", "connect"} => y.id = n
        /\ \A y \in Range(r) : Kind(y) = "ack" => y.id = 2
    BY <1>2, <1>6 DEF Answered
  <2>2. Unconnected(s2) /\ AckFirst(q2) /\ o = 1 /\ AckWithin(q2, o)
    BY <1>9, <1>11, <2>1
  <2>3. s2.id["own"] = n \/ Replaced(s2, q2, r2, n, o)
    BY <1>1, <1>8, <1>9, <1>11, <1>12, <1>13, <2>1, <2>2 DEF Replaced
  <2>4. \A y \in Range(r2) : Kind(y) = "ack" => y.id = 2
    BY <1>8, <1>12, <1>13, <2>1
  <2> QED
    BY <1>9, <1>11, <1>13, <2>1, <2>2, <2>3, <2>4 DEF Answered
<1>19. Answered(t, s2, r2, q2, b, o)
  BY <1>9 DEF Answered
<1> QED
  BY <1>2, <1>9, <1>14, <1>15, <1>16, <1>17, <1>18, <1>19 DEF Sides, Side

(* The answer to the request for a tunnel.                                 *)
LEMMA AckStep ==
  ASSUME NEW n \in Nodes, NEW o, NEW j,
         NEW s \in Runtime, NEW s2 \in Runtime, NEW t \in Runtime,
         NEW q \in Seq(Message), NEW q2 \in Seq(Message),
         NEW r \in Seq(Message), NEW r2 \in Seq(Message), NEW ms \in Seq(Message),
         Sides(s, t, q, r, n, o, j),
         q # <<>>, Kind(Head(q)) = "ack", q2 = Tail(q),
         SameTunnels(WithId([s EXCEPT !.replies = @ \ {"tunnel"}], "own", Head(q).id), s2),
         s2.endpoint = s.endpoint, AskFor(s2, ms), r2 = r \o ms
  PROVE  Sides(s2, t, q2, r2, n, o, j)
<1> DEFINE b == Peer(n)
           i == Head(q).id
           u == [s EXCEPT !.replies = @ \ {"tunnel"}]
<1>1. b \in Nodes /\ b # n /\ Nodes = {1, 2} /\ \A k \in Nodes : k = n \/ k = b
  BY Peers
<1>2. /\ Tables(s, n, j) /\ Asked(s, t, q, r, n) /\ Quiet(s, t, q, r)
      /\ Crossed(s, t, q, r, n) /\ Answered(s, t, q, r, n, o)
      /\ Tables(t, b, j) /\ Asked(t, s, r, q, b) /\ Quiet(t, s, r, q)
      /\ Crossed(t, s, r, q, b) /\ Answered(t, s, r, q, b, o)
  BY DEF Sides, Side
<1>3. /\ Has(q, "ack") /\ Head(q) \in Range(q) /\ Head(q) \in Message /\ i \in Nodes
  <2>1. Head(q) \in Range(q) /\ Head(q) \in Message
    BY HeadInRange, HeadTailProperties
  <2>2. i \in Nodes
    BY <2>1 DEF Message
  <2> QED
    BY <2>1, <2>2 DEF Has
<1>4. OwnListed(s) /\ "tunnel" \in s.replies /\ ~Has(r, "request")
  BY <1>2, <1>3 DEF Asked
<1>5. HasPeers(s) \/ HasPeers(t) \/ (OwnListed(t) /\ ~HasPeers(s) /\ ~HasPeers(t))
  <2> SUFFICES ASSUME ~HasPeers(s), ~HasPeers(t), ~OwnListed(t)
               PROVE  FALSE
    OBVIOUS
  <2>1. Kind(Head(q)) = "request"
    BY <1>2, <1>3 DEF Quiet
  <2> QED
    BY <2>1
<1>6. IF HasPeers(t) THEN i = n ELSE i = 2
  <2>1. CASE HasPeers(t)
    BY <1>2, <1>3, <2>1 DEF Answered
  <2>2. CASE HasPeers(s) /\ ~HasPeers(t)
    BY <1>2, <1>3, <2>2 DEF Answered
  <2>3. CASE OwnListed(t) /\ ~HasPeers(s) /\ ~HasPeers(t)
    BY <1>2, <1>3, <1>4, <2>3 DEF Crossed
  <2> QED
    BY <1>5, <2>1, <2>2, <2>3
<1>7. /\ Tables(s2, n, j) /\ OwnListed(s2) /\ HasPeers(s2) = HasPeers(s)
      /\ s2.status["own"] = "WORKING" /\ s2.id["own"] = i /\ s2.id["peers"] = s.id["peers"]
      /\ s2.token = s.token /\ "tunnel" \notin s2.replies
      /\ (i = 2 /\ s.listed[b] # "none" => s2.listed[b] # "none")
      /\ Unconnected(s2) = Unconnected(s)
  <2>1. /\ u \in Runtime /\ u.status = s.status /\ u.id = s.id /\ u.listed = s.listed /\ u.token = s.token
        /\ u.asking = s.asking /\ u.endpoint = s.endpoint /\ "tunnel" \notin u.replies
    BY DEF Runtime
  <2> HIDE DEF u
  <2>2. n = 2 => i = 2
    BY <1>6
  <2>3. SameTunnels(WithId(u, "own", i), s2)
    BY DEF u
  <2> HIDE DEF i
  <2>4. "tunnel" \notin s2.replies
    BY <2>1, <2>3 DEF SameTunnels, WithId, Runtime
  <2>5. /\ Tables(s2, n, j) /\ OwnListed(s2) /\ HasPeers(s2) = HasPeers(s)
        /\ s2.status["own"] = "WORKING" /\ s2.id["own"] = i /\ s2.id["peers"] = s.id["peers"]
        /\ s2.token = s.token
        /\ i = 2 => \A k \in Nodes : s.listed[k] # "none" /\ k = Peer(n) => s2.listed[k] # "none"
    BY <1>2, <1>3, <1>4, <2>1, <2>2, <2>3, WithIdTables
  <2> QED
    BY <1>1, <2>4, <2>5 DEF Unconnected
<1>8. HandledNet(q, q2)
  BY Handled
<1>9. /\ Range(q2) \subseteq Range(q) /\ ~Has(q2, "ack") /\ (Has(q2, "request") <=> Has(q, "request"))
      /\ Once(q2, "request") /\ Once(q2, "ack")
      /\ AckWithin(q, o) => AckWithin(q2, o)
  BY <1>2, <1>8 DEF HandledNet, Asked
<1>10. /\ \A y \in Range(ms) : Kind(y) = "connect" /\ y.id = s2.id[s2.token]
       /\ ~Has(ms, "request") /\ ~Has(ms, "ack")
  BY AskForKind
<1>11. SentNet(r, ms, r2)
  BY Sent
<1>12. /\ Range(r2) = Range(r) \cup Range(ms)
       /\ (Has(r2, "request") <=> Has(r, "request")) /\ (Has(r2, "ack") <=> Has(r, "ack"))
       /\ Once(r2, "request") /\ Once(r2, "ack")
       /\ AckFirst(r) => AckFirst(r2)
       /\ AckWithin(r, o) => AckWithin(r2, o)
  BY <1>2, <1>10, <1>11 DEF SentNet, Asked
<1>13. Asked(s2, t, q2, r2, n)
  <2>1. \A y \in Range(r2) : Kind(y) = "request" => y.id = n
    BY <1>2, <1>10, <1>12 DEF Asked
  <2> QED
    BY <1>4, <1>7, <1>9, <1>12, <2>1 DEF Asked
<1>14. Asked(t, s2, r2, q2, b)
  <2>1. \A y \in Range(q2) : Kind(y) = "request" => y.id = b
    BY <1>2, <1>9 DEF Asked
  <2> QED
    BY <1>2, <1>4, <1>7, <1>9, <1>12, <2>1 DEF Asked
<1>15. Quiet(s2, t, q2, r2) /\ Quiet(t, s2, r2, q2)
  BY <1>5, <1>7 DEF Quiet
<1>16. Crossed(s2, t, q2, r2, n) /\ Crossed(t, s2, r2, q2, b)
  <2> SUFFICES ASSUME ~HasPeers(s), ~HasPeers(t), OwnListed(t)
               PROVE  Crossed(s2, t, q2, r2, n) /\ Crossed(t, s2, r2, q2, b)
    BY <1>7 DEF Crossed
  <2>1. i = 2 /\ s2.token = "own"
    BY <1>2, <1>4, <1>6, <1>7 DEF Tables
  <2>2. Crossed(s2, t, q2, r2, n)
    BY <1>2, <1>4, <1>7, <1>9, <2>1 DEF Crossed
  <2>3. Crossed(t, s2, r2, q2, b)
    BY <1>2, <1>4, <1>7, <1>9, <1>10, <1>12, <2>1 DEF Crossed
  <2> QED
    BY <2>2, <2>3
<1>17. Answered(s2, t, q2, r2, n, o)
  <2> SUFFICES ASSUME HasPeers(t)
               PROVE  Answered(s2, t, q2, r2, n, o)
    BY DEF Answered
  <2>1. \A y \in Range(r2) : Kind(y) = "ack" => y.id = 2
    BY <1>2, <1>10, <1>12 DEF Answered
  <2> QED
    BY <1>2, <1>6, <1>7, <1>9, <1>12, <2>1 DEF Answered
<1>18. Answered(t, s2, r2, q2, b, o)
  <2> SUFFICES ASSUME HasPeers(s)
               PROVE  Answered(t, s2, r2, q2, b, o)
    BY <1>7 DEF Answered
  <2>1. ~HasPeers(t) /\ OwnListed(t) /\ i = 2 /\ s2.id["peers"] = b /\ s2.listed[b] # "none"
    BY <1>2, <1>6, <1>7 DEF Answered
  <2>2. \A y \in Range(ms) : y.id = b
    BY <1>2, <1>7, <1>10, <2>1 DEF Tables
  <2>3. \A y \in Range(r2) : Kind(y) \in {"ack", "connect"} => y.id = b
    BY <1>2, <1>12, <2>2 DEF Answered
  <2>4. t.status["own"] = "PENDING" => \A y \in Range(r2) : Kind(y) # "answer"
    BY <1>2, <1>10, <1>12 DEF Answered
  <2>5. t.status["own"] = "WORKING" => t.id["own"] = b \/ Replaced(t, r2, q2, b, o)
    BY <1>2, <1>9, <1>10, <1>12 DEF Answered, Replaced
  <2> QED
    BY <1>2, <1>9, <1>12, <2>1, <2>3, <2>4, <2>5 DEF Answered
<1> QED
  BY <1>2, <1>7, <1>13, <1>14, <1>15, <1>16, <1>17, <1>18 DEF Sides, Side

(* One message overtakes another, the first time that it happens.          *)
LEMMA OvertakeStep ==
  ASSUME NEW n \in Nodes, NEW j, NEW s \in Runtime, NEW t \in Runtime,
         NEW q \in Seq(Message), NEW q2 \in Seq(Message), NEW r \in Seq(Message),
         Sides(s, t, q, r, n, 0, j),
         NEW k \in 1..Len(q) - 1, q2 = Swapped(q, k)
  PROVE  Sides(s, t, q2, r, n, 1, j)
<1> DEFINE b == Peer(n)
<1>2. /\ Tables(s, n, j) /\ Asked(s, t, q, r, n) /\ Quiet(s, t, q, r)
      /\ Crossed(s, t, q, r, n) /\ Answered(s, t, q, r, n, 0)
      /\ Tables(t, b, j) /\ Asked(t, s, r, q, b) /\ Quiet(t, s, r, q)
      /\ Crossed(t, s, r, q, b) /\ Answered(t, s, r, q, b, 0)
  BY DEF Sides, Side
<1>3. /\ Range(q2) = Range(q)
      /\ \A kind : Has(q2, kind) <=> Has(q, kind)
      /\ \A kind : Once(q, kind) => Once(q2, kind)
      /\ AckWithin(q, 0) => AckWithin(q2, 1)
  BY Overtaken
<1>4. AckWithin(r, 0) => AckWithin(r, 1)
  BY DEF AckWithin
<1>5. Asked(s, t, q2, r, n) /\ Asked(t, s, r, q2, b)
  BY <1>2, <1>3 DEF Asked
<1>6. Quiet(s, t, q2, r) /\ Quiet(t, s, r, q2) /\ Crossed(s, t, q2, r, n) /\ Crossed(t, s, r, q2, b)
  BY <1>2, <1>3 DEF Quiet, Crossed
<1>7. Answered(s, t, q2, r, n, 1) /\ Answered(t, s, r, q2, b, 1)
  BY <1>2, <1>3, <1>4 DEF Answered, Replaced
<1> QED
  BY <1>2, <1>5, <1>6, <1>7 DEF Sides, Side

LEMMA Symmetric ==
  ASSUME NEW n \in Nodes, NEW s, NEW t, NEW q, NEW r, NEW o, NEW j
  PROVE  Sides(s, t, q, r, n, o, j) <=> Sides(t, s, r, q, Peer(n), o, j)
BY Peers DEF Sides

LEMMA TunnelOKFor ==
  ASSUME NEW n \in Nodes
  PROVE  TunnelOK <=> Sides(rt[n], rt[Peer(n)], net[n], net[Peer(n)], n, overtakes, joined)
<1>1. Peer(1) = 2 /\ Peer(2) = 1 /\ 1 \in Nodes /\ 2 \in Nodes
  BY DEF Peer, Nodes
<1>2. CASE n = 1
  BY <1>1, <1>2 DEF TunnelOK
<1>3. CASE n = 2
  BY <1>1, <1>3, Symmetric DEF TunnelOK
<1> QED
  BY <1>2, <1>3, Peers

-----------------------------------------------------------------------------
(* The messages stay proper.                                               *)
LEMMA SetNext ==
  ASSUME TablesType, NEW n \in Nodes, NEW s, Set(n, s)
  PROVE  rt'[n] = s /\ rt'[Peer(n)] = rt[Peer(n)]
BY Peers DEF TablesType, Set

LEMMA SendNext ==
  ASSUME TablesType, NEW n \in Nodes, NEW ms, Send(n, ms)
  PROVE  net'[n] = net[n] /\ net'[Peer(n)] = net[Peer(n)] \o ms
BY Peers DEF TablesType, Send

LEMMA HandleNext ==
  ASSUME TablesType, NEW n \in Nodes, NEW ms, Handle(n, ms)
  PROVE  net'[n] = Tail(net[n]) /\ net'[Peer(n)] = net[Peer(n)] \o ms
BY Peers DEF TablesType, Handle

LEMMA NetOf ==
  ASSUME TablesType, NEW n \in Nodes
  PROVE  net[n] \in Seq(Message) /\ rt[n] \in Runtime
BY DEF TablesType

LEMMA SendProper ==
  ASSUME TablesType, MessagesOK, losses' = losses, NEW n \in Nodes, NEW ms \in Seq(Message),
         \A m \in Range(ms) : Proper(m, losses), Send(n, ms)
  PROVE  MessagesOK'
<1>1. net[Peer(n)] \in Seq(Message) /\ Peer(n) \in Nodes
  BY NetOf, Peers
<1>2. net'[n] = net[n] /\ net'[Peer(n)] = net[Peer(n)] \o ms
  BY SendNext
<1>3. SentNet(net[Peer(n)], ms, net'[Peer(n)])
  BY <1>1, <1>2, Sent
<1>4. Range(net'[Peer(n)]) = Range(net[Peer(n)]) \cup Range(ms)
  BY <1>3 DEF SentNet
<1>5. \A m \in Range(net'[n]) : Proper(m, losses)
  BY <1>2 DEF MessagesOK
<1>6. \A m \in Range(net'[Peer(n)]) : Proper(m, losses)
  BY <1>1, <1>4 DEF MessagesOK
<1> QED
  BY <1>5, <1>6, Peers DEF MessagesOK

LEMMA HandleProper ==
  ASSUME TablesType, MessagesOK, losses' = losses, NEW n \in Nodes, NEW ms \in Seq(Message),
         \A m \in Range(ms) : Proper(m, losses), net[n] # <<>>, Handle(n, ms)
  PROVE  MessagesOK'
<1>1. net[Peer(n)] \in Seq(Message) /\ Peer(n) \in Nodes /\ net[n] \in Seq(Message)
  BY NetOf, Peers
<1>2. net'[n] = Tail(net[n]) /\ net'[Peer(n)] = net[Peer(n)] \o ms
  BY HandleNext
<1>3. SentNet(net[Peer(n)], ms, net'[Peer(n)])
  BY <1>1, <1>2, Sent
<1>4. HandledNet(net[n], net'[n])
  BY <1>1, <1>2, Handled
<1>5. /\ Range(net'[Peer(n)]) = Range(net[Peer(n)]) \cup Range(ms)
      /\ Range(net'[n]) \subseteq Range(net[n])
  BY <1>3, <1>4 DEF SentNet, HandledNet
<1>6. \A p \in Nodes : \A m \in Range(net'[p]) : Proper(m, losses)
  BY <1>5, Peers DEF MessagesOK
<1> QED
  BY <1>6 DEF MessagesOK

LEMMA NothingProper ==
  /\ <<>> \in Seq(Message) /\ Range(<<>>) = {} /\ \A l : \A m \in Range(<<>>) : Proper(m, l)
BY DEF Range

LEMMA AskForProper ==
  ASSUME NEW s, NEW ms, AskFor(s, ms), NEW l
  PROVE  \A m \in Range(ms) : Proper(m, l)
<1>1. \A m \in Range(ms) : m.cmd = "PORT_CONNECT" /\ m.key \in Ports /\ m.awaited
  BY DEF AskFor, Range
<1> QED
  BY <1>1 DEF Proper

LEMMA AnswerProper ==
  ASSUME NEW m \in Message, NEW cmd \in {"OK", "GONE"}, NEW i \in Nodes, NEW l, Proper(m, l)
  PROVE  \A a \in Range(<<Answer(m, cmd, i)>>) : Proper(a, l)
<1> DEFINE a == Answer(m, cmd, i)
<1>1. a \in Message /\ a.awaited = m.awaited /\ a.cmd = cmd
  BY AnswerType
<1>2. Proper(a, l)
  BY <1>1 DEF Proper
<1>3. Range(<<a>>) = {a}
  BY <1>1, Single
<1> QED
  BY <1>2, <1>3

LEMMA HeadProper ==
  ASSUME TablesType, MessagesOK, NEW n \in Nodes, NEW cmds, Received(n, cmds)
  PROVE  /\ net[n] # <<>> /\ Head(net[n]) \in Message /\ Head(net[n]).id \in Nodes
         /\ Head(net[n]) \in Range(net[n]) /\ Proper(Head(net[n]), losses)
         /\ Head(net[n]).cmd \in cmds
<1>1. net[n] # <<>> /\ Head(net[n]) \in Message /\ Head(net[n]).cmd \in cmds
  BY ReceivedType DEF Received
<1>2. Head(net[n]) \in Range(net[n])
  BY <1>1, NetOf, HeadInRange
<1>3. Head(net[n]).id \in Nodes
  BY <1>1 DEF Message
<1> QED
  BY <1>1, <1>2, <1>3 DEF MessagesOK

LEMMA TunnelOKForNext ==
  ASSUME NEW n \in Nodes
  PROVE  TunnelOK' <=>
           Sides(rt'[n], rt'[Peer(n)], net'[n], net'[Peer(n)], n, overtakes', joined')
<1>1. Peer(1) = 2 /\ Peer(2) = 1 /\ 1 \in Nodes /\ 2 \in Nodes
  BY DEF Peer, Nodes
<1>2. TunnelOK' <=> Sides(rt'[1], rt'[2], net'[1], net'[2], 1, overtakes', joined')
  BY DEF TunnelOK
<1>3. CASE n = 1
  BY <1>1, <1>2, <1>3
<1>4. CASE n = 2
  BY <1>1, <1>2, <1>4, Symmetric
<1> QED
  BY <1>3, <1>4, Peers

(* A step about a connection, of a runtime n that sends ms.                *)
LEMMA PortStepNext ==
  ASSUME TablesType, TablesType', NEW n \in Nodes, NEW ms \in Seq(Message),
         TunnelOK, overtakes' = overtakes, joined' = joined,
         rt'[Peer(n)] = rt[Peer(n)], SameTunnels(rt[n], rt'[n]),
         net'[Peer(n)] = net[Peer(n)] \o ms, PortHandled(net[n], net'[n]),
         PortMessages(rt[n], net[n], ms), PortEnds(rt[n], rt'[n], net[n], net'[n])
  PROVE  TunnelOK'
<1> DEFINE b == Peer(n)
<1>1. PICK s, s2, t, q, q2, r, r2, o, j :
        /\ s = rt[n] /\ s2 = rt'[n] /\ t = rt[b] /\ q = net[n] /\ q2 = net'[n]
        /\ r = net[b] /\ r2 = net'[b] /\ o = overtakes /\ j = joined
  OBVIOUS
<1>2. /\ s \in Runtime /\ s2 \in Runtime /\ t \in Runtime
      /\ q \in Seq(Message) /\ q2 \in Seq(Message) /\ r \in Seq(Message) /\ r2 \in Seq(Message)
  BY <1>1, Peers DEF TablesType
<1>3. Sides(s, t, q, r, n, o, j)
  BY <1>1, TunnelOKFor
<1>4. /\ SameTunnels(s, s2) /\ PortHandled(q, q2) /\ PortMessages(s, q, ms) /\ r2 = r \o ms
      /\ PortEnds(s, s2, q, q2)
  BY <1>1
<1>5. Sides(s2, t, q2, r2, n, o, j)
  BY <1>2, <1>3, <1>4, PortStep
<1> QED
  BY <1>1, <1>5, TunnelOKForNext

LEMMA SameTunnelsTransitive ==
  ASSUME NEW s, NEW u, NEW v, SameTunnels(s, u), SameTunnels(u, v)
  PROVE  SameTunnels(s, v)
BY DEF SameTunnels

(* connect, over the tunnel that the ports use.                            *)
LEMMA ContinuedNext ==
  ASSUME TablesType, TablesType', MessagesOK, NEW n \in Nodes, NEW c \in Ports, rt[n].token # "none",
         LET s == [rt[n] EXCEPT !.retries[c] = 0]
         IN  Set(n, Continued(s, c)) /\ Send(n, Requests(s, c)),
         UNCHANGED <<joined, losses, overtakes>>
  PROVE  MessagesOK' /\ (TunnelOK => TunnelOK')
<1>1. PICK s : s = [rt[n] EXCEPT !.retries[c] = 0]
  OBVIOUS
<1>2. Set(n, Continued(s, c)) /\ Send(n, Requests(s, c))
  BY <1>1
<1>3. s \in Runtime /\ SameTunnels(rt[n], s) /\ s.endpoint = rt[n].endpoint
  BY <1>1, NetOf, FirstTryType
<1>4. s.token # "none"
  BY <1>3 DEF SameTunnels
<1>5. /\ SameTunnels(s, Continued(s, c)) /\ Continued(s, c).endpoint = s.endpoint
      /\ AskFor(s, Requests(s, c))
      /\ s.status[s.token] # "WORKING" => Requests(s, c) = <<>>
  BY <1>3, <1>4, ContinuedType
<1>6. MessagesOK'
  BY <1>2, <1>5, AskForProper, AskForKind, SendProper
<1>7. ASSUME TunnelOK PROVE TunnelOK'
  <2>1. rt'[n] = Continued(s, c) /\ rt'[Peer(n)] = rt[Peer(n)]
    BY <1>2, SetNext
  <2>2. net'[n] = net[n] /\ net'[Peer(n)] = net[Peer(n)] \o Requests(s, c)
    BY <1>2, SendNext
  <2>3. SameTunnels(rt[n], rt'[n])
    BY <1>3, <1>5, <2>1, SameTunnelsTransitive
  <2>4. PortHandled(net[n], net'[n])
    BY <2>2 DEF PortHandled
  <2>5. PortEnds(rt[n], rt'[n], net[n], net'[n])
    BY <1>3, <1>5, <2>1 DEF PortEnds
  <2>6. PortMessages(rt[n], net[n], Requests(s, c))
    <3>1. \A m \in Range(Requests(s, c)) : Kind(m) = "connect" /\ m.id = s.id[s.token]
      BY <1>5, AskForKind
    <3>2. s.id = rt[n].id /\ s.token = rt[n].token /\ s.status = rt[n].status
      BY <1>3 DEF SameTunnels
    <3>3. ~(s.status[s.token] = "WORKING") => Range(Requests(s, c)) = {}
      BY <1>5, NothingProper
    <3> QED
      BY <1>4, <3>1, <3>2, <3>3 DEF PortMessages
  <2>7. Requests(s, c) \in Seq(Message)
    BY <1>5, AskForKind
  <2> QED
    BY <1>7, <2>1, <2>2, <2>3, <2>4, <2>5, <2>6, <2>7, PortStepNext
<1> QED
  BY <1>6, <1>7

(* A step of n that asks the peer for a tunnel.                            *)
LEMMA AskProper ==
  ASSUME TablesType, MessagesOK, NEW n \in Nodes, Send(n, <<TunnelNew(n)>>), losses' = losses
  PROVE  MessagesOK'
<1>1. TunnelNew(n) \in Message /\ Proper(TunnelNew(n), losses)
  BY TunnelNewType DEF TunnelNew, Proper
<1>2. <<TunnelNew(n)>> \in Seq(Message) /\ \A m \in Range(<<TunnelNew(n)>>) : Proper(m, losses)
  BY <1>1, Single
<1> QED
  BY <1>2, SendProper

LEMMA AskStepNext ==
  ASSUME TablesType, TablesType', NEW n \in Nodes, TunnelOK,
         ~OwnListed(rt[n]), joined' = TRUE, UNCHANGED <<losses, overtakes>>,
         NEW s2, Set(n, s2), Send(n, <<TunnelNew(n)>>),
         s2.status["own"] = "PENDING", s2.status["peers"] = rt[n].status["peers"],
         s2.id = rt[n].id, s2.listed[n] = "own", s2.listed[Peer(n)] = rt[n].listed[Peer(n)],
         s2.token = (IF HasPeers(rt[n]) THEN "peers" ELSE "own"), s2.asking = FALSE,
         "tunnel" \in s2.replies, s2.endpoint = rt[n].endpoint
  PROVE  TunnelOK'
<1> DEFINE b == Peer(n)
<1>1. PICK s, t, q, r, r2, o, j :
        /\ s = rt[n] /\ t = rt[b] /\ q = net[n]
        /\ r = net[b] /\ r2 = net'[b] /\ o = overtakes /\ j = joined
  OBVIOUS
<1>2. rt'[n] = s2 /\ rt'[b] = t
  BY <1>1, SetNext
<1>3. net'[n] = q /\ r2 = r \o <<TunnelNew(n)>>
  BY <1>1, SendNext
<1>4. /\ s \in Runtime /\ s2 \in Runtime /\ t \in Runtime
      /\ q \in Seq(Message) /\ r \in Seq(Message) /\ r2 \in Seq(Message)
  <2>1. /\ rt[n] \in Runtime /\ rt'[n] \in Runtime /\ rt[b] \in Runtime
        /\ net[n] \in Seq(Message) /\ net[b] \in Seq(Message) /\ net'[b] \in Seq(Message)
    BY Peers DEF TablesType
  <2> QED
    BY <1>1, <1>2, <2>1
<1>5. Sides(s, t, q, r, n, o, j) /\ ~OwnListed(s)
  BY <1>1, TunnelOKFor
<1>6. /\ s2.status["own"] = "PENDING" /\ s2.status["peers"] = s.status["peers"]
      /\ s2.id = s.id /\ s2.listed[n] = "own" /\ s2.listed[b] = s.listed[b]
      /\ s2.token = (IF HasPeers(s) THEN "peers" ELSE "own") /\ s2.asking = FALSE
      /\ "tunnel" \in s2.replies /\ s2.endpoint = s.endpoint
  BY <1>1
<1>7. Sides(s2, t, q, r2, n, o, TRUE)
  BY <1>3, <1>4, <1>5, <1>6, AskStep
<1> QED
  BY <1>1, <1>2, <1>3, <1>7, TunnelOKForNext

LEMMA LinkUpKeeps ==
  ASSUME TablesType, TablesType', MessagesOK, NEW n \in Nodes, LinkUp(n)
  PROVE  MessagesOK' /\ (TunnelOK => TunnelOK')
<1>1. PICK s : s = rt[n]
  OBVIOUS
<1>2. s \in Runtime /\ s.asking
  BY <1>1, NetOf DEF LinkUp
<1> DEFINE s2 == Asking(s, n)
<1>3. /\ s2.status = s.status /\ s2.id = s.id /\ s2.listed[n] = "own"
      /\ s2.listed[Peer(n)] = s.listed[Peer(n)] /\ s2.token = s.token /\ s2.asking = FALSE
      /\ "tunnel" \in s2.replies /\ s2.endpoint = s.endpoint
  BY <1>2, Peers DEF Asking, Runtime
<1>4. /\ Set(n, s2) /\ Send(n, <<TunnelNew(n)>>) /\ joined' = TRUE /\ UNCHANGED <<losses, overtakes>>
  BY <1>1 DEF LinkUp
<1> HIDE DEF s2
<1>5. ASSUME TunnelOK PROVE TunnelOK'
  <2>1. Tables(s, n, joined)
    BY <1>1, <1>5, TunnelOKFor DEF Sides, Side
  <2>2. /\ ~OwnListed(s) /\ s.status["own"] = "PENDING"
        /\ s.token = (IF HasPeers(s) THEN "peers" ELSE "own")
    BY <1>2, <2>1 DEF Tables
  <2> QED
    BY <1>1, <1>3, <1>4, <1>5, <2>2, AskStepNext
<1>6. MessagesOK'
  BY <1>4, AskProper
<1> QED
  BY <1>5, <1>6

(* The tables when connect makes a tunnel.                                 *)
TunnelMade(r, s2, n) ==
  /\ s2.status["own"] = "PENDING" /\ s2.status["peers"] = r.status["peers"]
  /\ s2.id = r.id /\ s2.token = "own" /\ s2.endpoint = r.endpoint
  /\ joined => /\ s2.listed[n] = "own" /\ s2.listed[Peer(n)] = r.listed[Peer(n)]
               /\ s2.asking = FALSE /\ "tunnel" \in s2.replies
  /\ ~joined => /\ s2.listed = r.listed /\ s2.asking = TRUE
                /\ ("tunnel" \in s2.replies) = ("tunnel" \in r.replies)

LEMMA NewTunnelTables ==
  ASSUME NEW n \in Nodes, NEW r \in Runtime, NEW c \in Ports,
         NEW s \in Runtime, SameTunnels(r, s), s.endpoint = r.endpoint,
         NEW s2, s2 = Continued(NewTunnel(s, n), c)
  PROVE  TunnelMade(r, s2, n)
<1> DEFINE new == [s EXCEPT !.status["own"] = "PENDING", !.token = "own", !.asking = TRUE]
           u == NewTunnel(s, n)
<1>2. u \in Runtime /\ u.token = "own"
  BY NewTunnelType
<1>3. SameTunnels(u, s2) /\ s2.endpoint = u.endpoint
  BY <1>2, ContinuedType
<1>4. u = IF joined THEN Asking(new, n) ELSE new
  BY DEF NewTunnel
<1>5. /\ new.status["own"] = "PENDING" /\ new.status["peers"] = s.status["peers"]
      /\ new.id = s.id /\ new.token = "own" /\ new.endpoint = s.endpoint
      /\ new.listed = s.listed /\ new.asking = TRUE /\ new.replies = s.replies
      /\ new \in Runtime
  BY DEF Runtime, Objects
<1> HIDE DEF new, u
<1>6. joined => /\ u.status = new.status /\ u.id = new.id /\ u.token = new.token
                /\ u.endpoint = new.endpoint /\ u.listed[n] = "own"
                /\ u.listed[Peer(n)] = new.listed[Peer(n)]
                /\ u.asking = FALSE /\ "tunnel" \in u.replies
  BY <1>4, <1>5, Peers DEF Asking, Runtime
<1>7. ~joined => u = new
  BY <1>4
<1> QED
  BY <1>3, <1>5, <1>6, <1>7 DEF SameTunnels, TunnelMade

LEMMA TunnelConnectKeeps ==
  ASSUME TablesType, TablesType', MessagesOK, NEW n \in Nodes, NEW c \in Ports, TunnelConnect(n, c)
  PROVE  MessagesOK' /\ (TunnelOK => TunnelOK')
<1> DEFINE s == [rt[n] EXCEPT !.retries[c] = 0]
           found == IF joined THEN Listed(s) ELSE {}
<1>1. UNCHANGED <<joined, losses, overtakes>>
  BY DEF TunnelConnect
<1>2. s \in Runtime /\ SameTunnels(rt[n], s)
  BY NetOf, FirstTryType
<1>3. s.token = rt[n].token /\ s.listed = rt[n].listed
  BY <1>2 DEF SameTunnels
<1>4. CASE s.token # "none" /\ Set(n, Continued(s, c)) /\ Send(n, Requests(s, c))
  BY <1>1, <1>3, <1>4, ContinuedNext
<1>5. ASSUME NEW x \in found, s.token = "none",
             Set(n, Continued([s EXCEPT !.token = x], c)), Send(n, Requests([s EXCEPT !.token = x], c))
      PROVE  MessagesOK' /\ ~TunnelOK
  <2>1. x \in Objects /\ x # "none"
    BY <1>2, <1>5 DEF Listed, Runtime, Objects
  <2>2. PICK u : u = [s EXCEPT !.token = x]
    OBVIOUS
  <2>3. u \in Runtime /\ u.token # "none"
    BY <1>2, <2>1, <2>2 DEF Runtime
  <2>4. AskFor(u, Requests(u, c)) /\ Send(n, Requests(u, c))
    BY <1>5, <2>2, <2>3, ContinuedType
  <2>5. MessagesOK'
    BY <1>1, <2>4, AskForProper, AskForKind, SendProper
  <2>6. ASSUME TunnelOK PROVE FALSE
    <3>1. Tables(rt[n], n, joined)
      BY <2>6, TunnelOKFor DEF Sides, Side
    <3>2. ~HasPeers(rt[n]) /\ ~OwnListed(rt[n])
      BY <1>3, <1>5, <3>1 DEF Tables
    <3>3. PICK i \in Nodes : rt[n].listed[i] = x
      BY <1>3, <1>5 DEF Listed
    <3>4. x = "own" /\ rt[n].id["own"] = i
      BY <2>1, <3>1, <3>2, <3>3 DEF Tables, Objects
    <3> QED
      BY <3>2, <3>3, <3>4 DEF OwnListed
  <2> QED
    BY <2>5, <2>6
<1>6. CASE /\ s.token = "none" /\ Set(n, Continued(NewTunnel(s, n), c))
           /\ Send(n, IF joined THEN <<TunnelNew(n)>> ELSE <<>>)
  <2>1. PICK s2 : s2 = Continued(NewTunnel(s, n), c)
    OBVIOUS
  <2>2. PICK w : w = rt[n]
    OBVIOUS
  <2>3. TunnelMade(w, s2, n)
    <3>1. w \in Runtime
      BY <2>2, NetOf
    <3>2. SameTunnels(w, s) /\ s.endpoint = w.endpoint
      BY <2>2, <3>1, FirstTryType
    <3> HIDE DEF s
    <3> QED
      BY <1>2, <2>1, <3>1, <3>2, NewTunnelTables
  <2>4. Set(n, s2)
    BY <1>6, <2>1
  <2>5. TunnelOK => ~HasPeers(w) /\ ~OwnListed(w)
    <3> SUFFICES ASSUME TunnelOK PROVE ~HasPeers(w) /\ ~OwnListed(w)
      OBVIOUS
    <3>1. Tables(w, n, joined)
      BY <2>2, TunnelOKFor DEF Sides, Side
    <3> QED
      BY <1>3, <1>6, <2>2, <3>1 DEF Tables
  <2>6. CASE joined
    <3>1. Send(n, <<TunnelNew(n)>>) /\ joined' = TRUE
      BY <1>1, <1>6, <2>6 DEF TablesType
    <3>2. MessagesOK'
      BY <1>1, <3>1, AskProper
    <3>3. ASSUME TunnelOK PROVE TunnelOK'
      <4>1. /\ ~OwnListed(rt[n]) /\ ~HasPeers(rt[n])
            /\ s2.status["own"] = "PENDING" /\ s2.status["peers"] = rt[n].status["peers"]
            /\ s2.id = rt[n].id /\ s2.listed[n] = "own" /\ s2.listed[Peer(n)] = rt[n].listed[Peer(n)]
            /\ s2.token = "own" /\ s2.asking = FALSE
            /\ "tunnel" \in s2.replies /\ s2.endpoint = rt[n].endpoint
        BY <2>2, <2>3, <2>5, <2>6, <3>3 DEF TunnelMade
      <4> QED
        BY <1>1, <2>4, <3>1, <3>3, <4>1, AskStepNext
    <3> QED
      BY <3>2, <3>3
  <2>7. CASE ~joined
    <3>1. Send(n, <<>>)
      BY <1>6, <2>7
    <3>2. MessagesOK'
      BY <1>1, <3>1, NothingProper, SendProper
    <3>3. ASSUME TunnelOK PROVE TunnelOK'
      <4> DEFINE b == Peer(n)
      <4>1. PICK t, q, r, o, j : t = rt[b] /\ q = net[n] /\ r = net[b] /\ o = overtakes /\ j = joined
        OBVIOUS
      <4>2. rt'[n] = s2 /\ rt'[b] = t
        BY <2>4, <4>1, SetNext
      <4>3. net'[n] = q /\ net'[b] = r
        <5>1. net[b] \in Seq(Message)
          BY Peers, NetOf
        <5>2. net[b] \o <<>> = net[b]
          BY <5>1, ConcatEmptySeq
        <5> QED
          BY <3>1, <4>1, <5>2, SendNext
      <4>4. /\ w \in Runtime /\ s2 \in Runtime /\ t \in Runtime
            /\ q \in Seq(Message) /\ r \in Seq(Message)
        <5>1. rt[n] \in Runtime /\ rt'[n] \in Runtime /\ rt[b] \in Runtime
          BY Peers DEF TablesType
        <5>2. net[n] \in Seq(Message) /\ net[b] \in Seq(Message)
          BY Peers DEF TablesType
        <5> QED
          BY <2>2, <4>1, <4>2, <5>1, <5>2
      <4>5. Sides(w, t, q, r, n, o, j) /\ ~j /\ w.token = "none"
        BY <1>3, <1>6, <2>2, <2>7, <3>3, <4>1, TunnelOKFor
      <4>6. /\ s2.status["own"] = "PENDING" /\ s2.status["peers"] = w.status["peers"]
            /\ s2.id = w.id /\ s2.token = "own" /\ s2.endpoint = w.endpoint
            /\ s2.listed = w.listed /\ s2.asking = TRUE
            /\ ("tunnel" \in s2.replies) = ("tunnel" \in w.replies)
        BY <2>3, <2>7 DEF TunnelMade
      <4>7. Sides(s2, t, q, r, n, o, j)
        BY <4>4, <4>5, <4>6, WaitStep
      <4> QED
        BY <1>1, <4>1, <4>2, <4>3, <4>7, TunnelOKForNext
    <3> QED
      BY <3>2, <3>3
  <2> QED
    BY <2>6, <2>7
<1> QED
  BY <1>4, <1>5, <1>6 DEF TunnelConnect

(* The types of what a step of n reads and leaves.                         *)
LEMMA StepTypes ==
  ASSUME TablesType, TablesType', NEW n \in Nodes
  PROVE  /\ rt[n] \in Runtime /\ rt'[n] \in Runtime /\ rt[Peer(n)] \in Runtime
         /\ net[n] \in Seq(Message) /\ net[Peer(n)] \in Seq(Message)
         /\ net'[n] \in Seq(Message) /\ net'[Peer(n)] \in Seq(Message)
BY Peers DEF TablesType

LEMMA TunnelRequestedKeeps ==
  ASSUME TablesType, TablesType', MessagesOK, NEW n \in Nodes, TunnelRequested(n)
  PROVE  MessagesOK' /\ (TunnelOK => TunnelOK')
<1> DEFINE b == Peer(n)
<1>1. PICK s, s2, t, q, q2, r, r2, o, j :
        /\ s = rt[n] /\ s2 = rt'[n] /\ t = rt[b] /\ q = net[n] /\ q2 = net'[n]
        /\ r = net[b] /\ r2 = net'[b] /\ o = overtakes /\ j = joined
  OBVIOUS
<1>2. /\ q # <<>> /\ Head(q) \in Message /\ Head(q).id \in Nodes /\ Proper(Head(q), losses)
      /\ Head(q).cmd = "TUNNEL_NEW"
  BY <1>1, HeadProper DEF TunnelRequested
<1> DEFINE ms == <<Answer(Head(q), "OK", Head(q).id)>>
<1>3. ms \in Seq(Message) /\ \A m \in Range(ms) : Proper(m, losses)
  BY <1>2, AnswerType, AnswerProper, Single
<1>4. /\ Set(n, WithPeers(s, Head(q).id)) /\ Handle(n, ms) /\ Listed(s) = {}
      /\ UNCHANGED <<joined, losses, overtakes>>
  BY <1>1 DEF TunnelRequested, WithPeers
<1> HIDE DEF ms
<1>5. MessagesOK'
  BY <1>1, <1>2, <1>3, <1>4, HandleProper
<1>6. ASSUME TunnelOK PROVE TunnelOK'
  <2>1. s2 = WithPeers(s, Head(q).id) /\ rt'[b] = t
    BY <1>1, <1>4, SetNext
  <2>2. q2 = Tail(q) /\ r2 = r \o ms
    BY <1>1, <1>4, HandleNext
  <2>3. /\ s \in Runtime /\ s2 \in Runtime /\ t \in Runtime
        /\ q \in Seq(Message) /\ q2 \in Seq(Message) /\ r \in Seq(Message) /\ r2 \in Seq(Message)
    BY <1>1, StepTypes
  <2>4. Sides(s, t, q, r, n, o, j)
    BY <1>1, <1>6, TunnelOKFor
  <2>5. Kind(Head(q)) = "request" /\ Head(q).key = "tunnel"
    BY <1>2 DEF Kind, Proper
  <2>6. r2 = r \o <<Answer(Head(q), "OK", Head(q).id)>>
    BY <2>2 DEF ms
  <2>7. Sides(s2, t, q2, r2, n, o, j)
    BY <1>2, <1>4, <2>1, <2>2, <2>3, <2>4, <2>5, <2>6, RequestedStep
  <2> QED
    BY <1>1, <1>4, <2>1, <2>7, TunnelOKForNext
<1> QED
  BY <1>5, <1>6

LEMMA TunnelCrossedKeeps ==
  ASSUME TablesType, TablesType', MessagesOK, NEW n \in Nodes, TunnelCrossed(n)
  PROVE  MessagesOK' /\ (TunnelOK => TunnelOK')
<1> DEFINE b == Peer(n)
<1>1. PICK s, s2, t, q, q2, r, r2, o, j :
        /\ s = rt[n] /\ s2 = rt'[n] /\ t = rt[b] /\ q = net[n] /\ q2 = net'[n]
        /\ r = net[b] /\ r2 = net'[b] /\ o = overtakes /\ j = joined
  OBVIOUS
<1>2. /\ q # <<>> /\ Head(q) \in Message /\ Head(q).id \in Nodes /\ Proper(Head(q), losses)
      /\ Head(q).cmd = "TUNNEL_NEW"
  BY <1>1, HeadProper DEF TunnelCrossed
<1>3. PICK x \in Listed(s) :
        LET i == Chosen(s.id[x], Head(q).id)
            w == WithId(s, x, i)
        IN  /\ s.status[x] # "WORKING" /\ Set(n, Up(w))
            /\ Handle(n, <<Answer(Head(q), "OK", i)>> \o UpRequests(w))
  BY <1>1 DEF TunnelCrossed
<1>4. PICK i, w : i = Chosen(s.id[x], Head(q).id) /\ w = WithId(s, x, i)
  OBVIOUS
<1>5. /\ s \in Runtime /\ s2 \in Runtime /\ t \in Runtime
      /\ q \in Seq(Message) /\ q2 \in Seq(Message) /\ r \in Seq(Message) /\ r2 \in Seq(Message)
  BY <1>1, StepTypes
<1>6. x \in Objects
  BY <1>5 DEF Listed, Runtime
<1>7. i \in Nodes
  BY <1>2, <1>4, <1>5, <1>6 DEF Runtime, Chosen
<1>8. w \in Runtime
  BY <1>4, <1>5, <1>6, <1>7, WithIdType
<1>9. PICK ms : ms = UpRequests(w)
  OBVIOUS
<1>10. SameTunnels(w, Up(w)) /\ Up(w).endpoint = w.endpoint /\ AskFor(w, ms)
  BY <1>8, <1>9, UpType
<1> DEFINE a == Answer(Head(q), "OK", i)
<1>11. Set(n, Up(w)) /\ Handle(n, <<a>> \o ms) /\ s.status[x] # "WORKING"
  BY <1>3, <1>4, <1>9
<1>12. a \in Message /\ \A m \in Range(<<a>>) : Proper(m, losses)
  BY <1>2, <1>7, AnswerType, AnswerProper
<1>13. ms \in Seq(Message) /\ \A m \in Range(ms) : Proper(m, losses)
  BY <1>10, AskForKind, AskForProper
<1>14. UNCHANGED <<joined, losses, overtakes>>
  BY DEF TunnelCrossed
<1>15. MessagesOK'
  <2> HIDE DEF a
  <2>1. <<a>> \in Seq(Message)
    BY <1>12
  <2>2. PICK sent : sent = <<a>> \o ms
    OBVIOUS
  <2>3. sent \in Seq(Message)
    BY <1>13, <2>1, <2>2, ConcatProperties
  <2>4. SentNet(<<a>>, ms, sent)
    BY <1>13, <2>1, <2>2, Sent
  <2>5. \A m \in Range(sent) : Proper(m, losses)
    BY <1>12, <1>13, <2>4 DEF SentNet
  <2>6. Handle(n, sent)
    BY <1>11, <2>2
  <2> QED
    BY <1>1, <1>2, <1>14, <2>3, <2>5, <2>6, HandleProper
<1>16. ASSUME TunnelOK PROVE TunnelOK'
  <2>1. s2 = Up(w) /\ rt'[b] = t
    BY <1>1, <1>11, SetNext
  <2>2. q2 = Tail(q) /\ r2 = r \o (<<a>> \o ms)
    BY <1>1, <1>11, HandleNext
  <2>3. Sides(s, t, q, r, n, o, j)
    BY <1>1, <1>16, TunnelOKFor
  <2>4. Kind(Head(q)) = "request" /\ Head(q).key = "tunnel"
    BY <1>2 DEF Kind, Proper
  <2>5. SameTunnels(WithId(s, x, Chosen(s.id[x], Head(q).id)), s2)
    BY <1>4, <1>10, <2>1
  <2>6. s2.endpoint = s.endpoint
    BY <1>4, <1>5, <1>10, <2>1 DEF WithId, Runtime
  <2>7. AskFor(s2, ms)
    BY <1>10, <2>1 DEF AskFor, SameTunnels
  <2>8. r2 = r \o (<<Answer(Head(q), "OK", Chosen(s.id[x], Head(q).id))>> \o ms)
    BY <1>4, <2>2
  <2>9. Sides(s2, t, q2, r2, n, o, j)
    BY <1>2, <1>5, <1>11, <1>13, <2>2, <2>3, <2>4, <2>5, <2>6, <2>7, <2>8, CrossedStep
  <2> QED
    BY <1>1, <1>14, <2>1, <2>9, TunnelOKForNext
<1> QED
  BY <1>15, <1>16

LEMMA TunnelDroppedKeeps ==
  ASSUME TablesType, TablesType', MessagesOK, NEW n \in Nodes, TunnelDropped(n)
  PROVE  MessagesOK' /\ (TunnelOK => TunnelOK')
<1> DEFINE b == Peer(n)
<1>1. PICK s, t, q, q2, r, o, j :
        /\ s = rt[n] /\ t = rt[b] /\ q = net[n] /\ q2 = net'[n]
        /\ r = net[b] /\ o = overtakes /\ j = joined
  OBVIOUS
<1>2. q # <<>> /\ Head(q).cmd = "TUNNEL_NEW"
  BY <1>1, HeadProper DEF TunnelDropped
<1>3. PICK x \in Listed(s) : s.status[x] = "WORKING"
  BY <1>1 DEF TunnelDropped
<1>4. Handle(n, <<>>) /\ UNCHANGED <<rt, joined, losses, overtakes>>
  BY DEF TunnelDropped
<1>5. MessagesOK'
  BY <1>1, <1>2, <1>4, NothingProper, HandleProper
<1>6. ASSUME TunnelOK PROVE TunnelOK'
  <2>1. /\ s \in Runtime /\ t \in Runtime
        /\ q \in Seq(Message) /\ q2 \in Seq(Message) /\ r \in Seq(Message)
    BY <1>1, StepTypes
  <2>2. q2 = Tail(q) /\ net'[b] = r
    <3>1. r \o <<>> = r
      BY <2>1, ConcatEmptySeq
    <3> QED
      BY <1>1, <1>4, <3>1, HandleNext
  <2>3. Sides(s, t, q, r, n, o, j)
    BY <1>1, <1>6, TunnelOKFor
  <2>4. Kind(Head(q)) = "request"
    BY <1>2 DEF Kind
  <2>5. Sides(s, t, q2, r, n, o, j)
    BY <1>2, <1>3, <2>1, <2>2, <2>3, <2>4, DroppedStep
  <2> QED
    BY <1>1, <1>4, <2>2, <2>5, TunnelOKForNext
<1> QED
  BY <1>5, <1>6

(* A step of n that leaves its lists of tunnels, and sends nothing about   *)
(* them.                                                                   *)
SameLists(s, t) ==
  t.status = s.status /\ t.id = s.id /\ t.listed = s.listed /\ t.asking = s.asking

Kept(n) ==
  /\ rt'[Peer(n)] = rt[Peer(n)] /\ SameLists(rt[n], rt'[n]) /\ joined' = joined
  /\ Range(net'[n]) \subseteq Range(net[n])
  /\ \A m \in Range(net'[Peer(n)]) : m \in Range(net[Peer(n)]) \/ Kind(m) \in {"connect", "answer"}

(* A message about a connection is handled.                                *)
LEMMA PortHandleKeeps ==
  ASSUME TablesType, TablesType', MessagesOK, NEW n \in Nodes, NEW ms \in Seq(Message),
         net[n] # <<>>, Kind(Head(net[n])) \in {"connect", "answer"}, Handle(n, ms),
         UNCHANGED <<joined, losses, overtakes>>,
         rt'[Peer(n)] = rt[Peer(n)], SameTunnels(rt[n], rt'[n]),
         PortMessages(rt[n], net[n], ms), PortEnds(rt[n], rt'[n], net[n], Tail(net[n])),
         \A m \in Range(ms) : Proper(m, losses)
  PROVE  MessagesOK' /\ Kept(n) /\ (TunnelOK => TunnelOK')
<1>1. net'[n] = Tail(net[n]) /\ net'[Peer(n)] = net[Peer(n)] \o ms
  BY HandleNext
<1>2. MessagesOK'
  BY HandleProper
<1>3. Kept(n)
  <2>1. net[n] \in Seq(Message) /\ net[Peer(n)] \in Seq(Message)
    BY Peers, NetOf
  <2>2. Range(net'[n]) \subseteq Range(net[n])
    <3>1. HandledNet(net[n], net'[n])
      BY <1>1, <2>1, Handled
    <3> QED
      BY <3>1 DEF HandledNet
  <2>3. Range(net'[Peer(n)]) = Range(net[Peer(n)]) \cup Range(ms)
    <3>1. SentNet(net[Peer(n)], ms, net'[Peer(n)])
      BY <1>1, <2>1, Sent
    <3> QED
      BY <3>1 DEF SentNet
  <2>4. \A m \in Range(ms) : Kind(m) \in {"connect", "answer"}
    BY DEF PortMessages
  <2>5. SameLists(rt[n], rt'[n])
    BY DEF SameTunnels, SameLists
  <2> QED
    BY <2>2, <2>3, <2>4, <2>5 DEF Kept
<1>4. TunnelOK => TunnelOK'
  <2>1. PortHandled(net[n], net'[n]) /\ PortEnds(rt[n], rt'[n], net[n], net'[n])
    BY <1>1 DEF PortHandled
  <2> QED
    BY <1>1, <2>1, PortStepNext
<1> QED
  BY <1>2, <1>3, <1>4

LEMMA ConnectionRequestKeeps ==
  ASSUME TablesType, TablesType', MessagesOK, NEW n \in Nodes, ConnectionRequest(n)
  PROVE  MessagesOK' /\ Kept(n) /\ (TunnelOK => TunnelOK')
<1>1. PICK s, q, m : s = rt[n] /\ q = net[n] /\ m = Head(net[n])
  OBVIOUS
<1>2. /\ q # <<>> /\ m \in Message /\ m.id \in Nodes /\ m \in Range(q) /\ Proper(m, losses)
      /\ m.cmd = "PORT_CONNECT" /\ m = Head(q)
  BY <1>1, HeadProper DEF ConnectionRequest
<1>3. Kind(m) = "connect" /\ m.key \in Ports
  BY <1>2 DEF Kind, Proper
<1>4. s \in Runtime /\ q \in Seq(Message)
  BY <1>1, NetOf
<1>5. UNCHANGED <<joined, losses, overtakes>>
  BY DEF ConnectionRequest
<1>6. SameTunnels(s, s) /\ PortEnds(s, s, q, Tail(q))
  BY DEF SameTunnels, PortEnds
<1>7. \A cmd \in {"OK", "GONE"} :
        LET a == Answer(m, cmd, m.id)
        IN  /\ <<a>> \in Seq(Message) /\ Range(<<a>>) = {a} /\ Kind(a) = "answer" /\ a.cmd = cmd
            /\ \A x \in Range(<<a>>) : Proper(x, losses)
  <2>1. ASSUME NEW cmd \in {"OK", "GONE"}, NEW a, a = Answer(m, cmd, m.id)
        PROVE  /\ <<a>> \in Seq(Message) /\ Range(<<a>>) = {a} /\ Kind(a) = "answer" /\ a.cmd = cmd
               /\ \A x \in Range(<<a>>) : Proper(x, losses)
    <3>1. a \in Message /\ a.cmd = cmd /\ a.key = m.key
      BY <1>2, <2>1, AnswerType DEF Answer
    <3>2. Kind(a) = "answer"
      BY <1>3, <3>1, PortsAssumption DEF Kind
    <3>3. <<a>> \in Seq(Message) /\ Range(<<a>>) = {a}
      BY <3>1, Single
    <3>4. \A x \in Range(<<a>>) : Proper(x, losses)
      BY <1>2, <2>1, AnswerProper
    <3> QED
      BY <3>1, <3>2, <3>3, <3>4
  <2> QED
    BY <2>1
<1>8. CASE UNCHANGED rt /\ Handle(n, <<>>)
  <2>1. PortMessages(s, q, <<>>)
    BY NothingProper DEF PortMessages
  <2> QED
    BY <1>1, <1>2, <1>3, <1>5, <1>6, <1>8, <2>1, NothingProper, PortHandleKeeps
<1>9. CASE UNCHANGED rt /\ Handle(n, <<Answer(m, "GONE", m.id)>>)
  <2>1. PICK a : a = Answer(m, "GONE", m.id)
    OBVIOUS
  <2>2. /\ <<a>> \in Seq(Message) /\ Range(<<a>>) = {a} /\ Kind(a) = "answer" /\ a.cmd = "GONE"
        /\ \A x \in Range(<<a>>) : Proper(x, losses)
    BY <1>7, <2>1
  <2>3. PortMessages(s, q, <<a>>)
    BY <1>2, <1>3, <2>2 DEF PortMessages
  <2>4. Handle(n, <<a>>) /\ UNCHANGED rt
    BY <1>9, <2>1
  <2> QED
    BY <1>1, <1>2, <1>3, <1>5, <1>6, <2>2, <2>3, <2>4, PortHandleKeeps
<1>10. CASE /\ s.token # "none" /\ HasTunnel(s, m.id)
            /\ Set(n, [s EXCEPT !.endpoint[m.key] = s.token])
            /\ Handle(n, <<Answer(m, "OK", m.id)>>)
  <2>1. PICK a, s2 : a = Answer(m, "OK", m.id) /\ s2 = [s EXCEPT !.endpoint[m.key] = s.token]
    OBVIOUS
  <2>2. /\ <<a>> \in Seq(Message) /\ Range(<<a>>) = {a} /\ Kind(a) = "answer" /\ a.cmd = "OK"
        /\ \A x \in Range(<<a>>) : Proper(x, losses)
    BY <1>7, <2>1
  <2>3. m.id = s.id[s.token]
    BY <1>10 DEF HasTunnel
  <2>4. PortMessages(s, q, <<a>>)
    BY <1>2, <1>3, <2>2, <2>3 DEF PortMessages
  <2>5. Handle(n, <<a>>) /\ Set(n, s2)
    BY <1>10, <2>1
  <2>6. rt'[n] = s2 /\ rt'[Peer(n)] = rt[Peer(n)]
    BY <2>5, SetNext
  <2>7. SameTunnels(s, s2)
    BY <1>4, <2>1 DEF SameTunnels, Runtime
  <2>8. PortEnds(s, s2, q, Tail(q))
    <3>1. \A c \in Ports : s2.endpoint[c] = s.endpoint[c] \/ s2.endpoint[c] = s.token
      BY <1>4, <2>1 DEF Runtime
    <3> QED
      BY <1>2, <1>3, <1>10, <2>3, <3>1 DEF PortEnds
  <2> QED
    BY <1>1, <1>2, <1>3, <1>5, <2>2, <2>4, <2>5, <2>6, <2>7, <2>8, PortHandleKeeps
<1> QED
  BY <1>1, <1>8, <1>9, <1>10 DEF ConnectionRequest

(* The answer about a connection is handled: what stays of the tunnels.    *)
LEMMA AnsweredTunnels ==
  ASSUME NEW r \in Runtime, NEW c \in Ports, NEW s, s = [r EXCEPT !.replies = @ \ {c}]
  PROVE  s \in Runtime /\ SameTunnels(r, s) /\ s.endpoint = r.endpoint
<1>1. s \in Runtime
  BY AnsweredType
<1>2. s.replies = r.replies \ {c} /\ "tunnel" # c
  BY PortsAssumption DEF Runtime
<1>3. /\ s.status = r.status /\ s.id = r.id /\ s.listed = r.listed /\ s.token = r.token
      /\ s.asking = r.asking /\ s.endpoint = r.endpoint
  BY DEF Runtime
<1> QED
  BY <1>1, <1>2, <1>3 DEF SameTunnels

LEMMA ConnectedTunnels ==
  ASSUME NEW s \in Runtime, NEW c \in Ports
  PROVE  /\ SameTunnels(s, ConnectedState(s, c))
         /\ \A d \in Ports : ConnectedState(s, c).endpoint[d] \in {s.endpoint[d], s.token}
         /\ \A phase : SameTunnels(s, WithPhase(s, c, phase)) /\ WithPhase(s, c, phase).endpoint = s.endpoint
BY DEF ConnectedState, WithPhase, SameTunnels, Runtime

LEMMA ConnectedViaTunnelKeeps ==
  ASSUME TablesType, TablesType', MessagesOK, NEW n \in Nodes, ConnectedViaTunnel(n)
  PROVE  MessagesOK' /\ Kept(n) /\ (TunnelOK => TunnelOK')
<1>1. PICK r, q, m, c, s : /\ r = rt[n] /\ q = net[n] /\ m = Head(net[n]) /\ c = m.key
                           /\ s = [r EXCEPT !.replies = @ \ {c}]
  OBVIOUS
<1>2. /\ q # <<>> /\ m \in Message /\ m \in Range(q)
      /\ m.cmd \in {"OK", "GONE"} /\ m = Head(q) /\ c \in Ports
  BY <1>1, HeadProper DEF ConnectedViaTunnel
<1>3. Kind(m) = "answer"
  BY <1>1, <1>2, PortsAssumption DEF Kind
<1>4. r \in Runtime /\ q \in Seq(Message)
  BY <1>1, NetOf
<1>5. UNCHANGED <<joined, losses, overtakes>>
  BY DEF ConnectedViaTunnel
<1>6. s \in Runtime /\ SameTunnels(r, s) /\ s.endpoint = r.endpoint
  BY <1>1, <1>2, <1>4, AnsweredTunnels
<1>7. PortMessages(r, q, <<>>)
  BY NothingProper DEF PortMessages
(* Without a message: the tunnels and, but for OK, the endpoint stay.      *)
<1>8. ASSUME NEW s2, Set(n, s2), Handle(n, <<>>), SameTunnels(s, s2),
             \/ s2.endpoint = s.endpoint
             \/ /\ m.cmd = "OK" /\ s.token # "none"
                /\ \A d \in Ports : s2.endpoint[d] \in {s.endpoint[d], s.token}
      PROVE  MessagesOK' /\ Kept(n) /\ (TunnelOK => TunnelOK')
  <2>1. rt'[n] = s2 /\ rt'[Peer(n)] = rt[Peer(n)]
    BY <1>8, SetNext
  <2>2. SameTunnels(r, s2)
    BY <1>6, <1>8, SameTunnelsTransitive
  <2>3. PortEnds(r, s2, q, Tail(q))
    <3>1. r.token = s.token /\ r.endpoint = s.endpoint
      BY <1>6 DEF SameTunnels
    <3> QED
      BY <1>2, <1>3, <1>8, <3>1 DEF PortEnds
  <2> QED
    BY <1>1, <1>2, <1>3, <1>5, <1>7, <1>8, <2>1, <2>2, <2>3, NothingProper, PortHandleKeeps
<1>9. CASE UNCHANGED rt /\ Handle(n, <<>>)
  <2>1. SameTunnels(r, r) /\ PortEnds(r, r, q, Tail(q))
    BY DEF SameTunnels, PortEnds
  <2> QED
    BY <1>1, <1>2, <1>3, <1>5, <1>7, <1>9, <2>1, NothingProper, PortHandleKeeps
<1>10. CASE /\ m.cmd = "OK" /\ s.token # "none"
            /\ Set(n, ConnectedState(s, c)) /\ Handle(n, <<>>)
  BY <1>2, <1>6, <1>8, <1>10, ConnectedTunnels
<1>11. CASE Handle(n, <<>>) /\ \E phase : Set(n, WithPhase(s, c, phase))
  BY <1>2, <1>6, <1>8, <1>11, ConnectedTunnels
<1>12. CASE /\ s.retries[c] < 3
            /\ Set(n, ConnectVia(Resent(s, c), {c}, TRUE))
            /\ Handle(n, PortConnects(s, {c}, TRUE))
  <2>1. PICK u, s2, ms : /\ u = Resent(s, c) /\ s2 = ConnectVia(u, {c}, TRUE)
                         /\ ms = PortConnects(s, {c}, TRUE)
    OBVIOUS
  <2>2. u \in Runtime /\ SameTunnels(s, u) /\ u.endpoint = s.endpoint
    BY <1>2, <1>6, <1>12, <2>1, ResentType
  <2>3. SameTunnels(u, s2) /\ s2.endpoint = u.endpoint
    BY <1>2, <2>1, <2>2, ConnectViaType
  <2>4. AskFor(s, ms) /\ (s.token = "none" => ms = <<>>)
    BY <1>2, <1>6, <2>1, PortConnectsType
  <2>5. Set(n, s2) /\ Handle(n, ms)
    BY <1>12, <2>1
  <2>6. rt'[n] = s2 /\ rt'[Peer(n)] = rt[Peer(n)]
    BY <2>5, SetNext
  <2>7. SameTunnels(r, s2) /\ PortEnds(r, s2, q, Tail(q))
    BY <1>6, <2>2, <2>3, SameTunnelsTransitive DEF PortEnds
  <2>8. PortMessages(r, q, ms)
    <3>1. \A x \in Range(ms) : Kind(x) = "connect" /\ x.id = s.id[s.token]
      BY <2>4, AskForKind
    <3>2. s.token = "none" => Range(ms) = {}
      BY <2>4, NothingProper
    <3>3. r.id = s.id /\ r.token = s.token
      BY <1>6 DEF SameTunnels
    <3>4. Has(q, "answer")
      BY <1>2, <1>3 DEF Has
    <3> QED
      BY <3>1, <3>2, <3>3, <3>4 DEF PortMessages
  <2>9. ms \in Seq(Message) /\ \A x \in Range(ms) : Proper(x, losses)
    BY <2>4, AskForKind, AskForProper
  <2> QED
    BY <1>1, <1>2, <1>3, <1>5, <2>5, <2>6, <2>7, <2>8, <2>9, PortHandleKeeps
<1>13. CASE m.awaited
  BY <1>1, <1>10, <1>11, <1>12, <1>13 DEF ConnectedViaTunnel, ConnectedState, WithPhase
<1> QED
  BY <1>1, <1>9, <1>13 DEF ConnectedViaTunnel

(* The answer to a request for a tunnel is handled.                        *)
LEMMA SetupAckProper ==
  ASSUME TablesType, TablesType', MessagesOK, NEW n \in Nodes, SetupAck(n)
  PROVE  MessagesOK'
<1>1. PICK m, w : /\ m = Head(net[n])
                  /\ w = WithId([rt[n] EXCEPT !.replies = @ \ {"tunnel"}], "own", m.id)
  OBVIOUS
<1>2. m.id \in Nodes /\ net[n] # <<>> /\ losses' = losses
  BY <1>1, HeadProper DEF SetupAck
<1>3. w \in Runtime
  <2>1. [rt[n] EXCEPT !.replies = @ \ {"tunnel"}] \in Runtime
    BY NetOf, AnsweredType
  <2> QED
    BY <1>1, <1>2, <2>1, WithIdType DEF Objects
<1>4. AskFor(w, UpRequests(w))
  BY <1>3, UpType
<1>5. UpRequests(w) \in Seq(Message) /\ \A x \in Range(UpRequests(w)) : Proper(x, losses)
  BY <1>4, AskForKind, AskForProper
<1>6. Handle(n, <<>>) \/ Handle(n, UpRequests(w))
  BY <1>1 DEF SetupAck
<1> QED
  BY <1>2, <1>5, <1>6, NothingProper, HandleProper

LEMMA SetupAckKeeps ==
  ASSUME TablesType, TablesType', MessagesOK, NEW n \in Nodes, SetupAck(n), losses = 0
  PROVE  /\ TunnelOK => TunnelOK'
         /\ Has(net[n], "ack") /\ rt'[Peer(n)] = rt[Peer(n)] /\ joined' = joined
         /\ OwnListed(rt'[n]) /\ rt'[n].asking = rt[n].asking /\ ~Ended(rt'[n])
         /\ Range(net'[n]) \subseteq Range(net[n])
         /\ \A m \in Range(net'[Peer(n)]) : m \in Range(net[Peer(n)]) \/ Kind(m) = "connect"
<1> DEFINE b == Peer(n)
<1>1. PICK s, s2, t, q, q2, r, r2, o, j, u, w, m :
        /\ s = rt[n] /\ s2 = rt'[n] /\ t = rt[b] /\ q = net[n] /\ q2 = net'[n]
        /\ r = net[b] /\ r2 = net'[b] /\ o = overtakes /\ j = joined /\ m = Head(q)
        /\ u = [s EXCEPT !.replies = @ \ {"tunnel"}] /\ w = WithId(u, "own", m.id)
  OBVIOUS
<1>2. /\ q # <<>> /\ m \in Message /\ m.id \in Nodes /\ m \in Range(q) /\ Proper(m, losses)
      /\ m.cmd = "OK" /\ m.key = "tunnel"
  BY <1>1, HeadProper DEF SetupAck
<1>3. Kind(m) = "ack" /\ m.awaited
  BY <1>2 DEF Kind, Proper
<1>4. PICK ms : ms = UpRequests(w)
  OBVIOUS
<1>5. Set(n, Up(w)) /\ Handle(n, ms)
  BY <1>1, <1>3, <1>4 DEF SetupAck
<1>6. UNCHANGED <<joined, losses, overtakes>>
  BY DEF SetupAck
<1>7. /\ s \in Runtime /\ s2 \in Runtime /\ t \in Runtime
      /\ q \in Seq(Message) /\ q2 \in Seq(Message) /\ r \in Seq(Message) /\ r2 \in Seq(Message)
  BY <1>1, StepTypes
<1>8. u \in Runtime
  BY <1>1, <1>7, AnsweredType
<1>9. w \in Runtime
  BY <1>1, <1>2, <1>8, WithIdType DEF Objects
<1>10. SameTunnels(w, Up(w)) /\ Up(w).endpoint = w.endpoint /\ AskFor(w, ms)
  BY <1>4, <1>9, UpType
<1>11. s2 = Up(w) /\ rt'[b] = t
  BY <1>1, <1>5, SetNext
<1>12. q2 = Tail(q) /\ r2 = r \o ms
  BY <1>1, <1>5, HandleNext
<1>13. ms \in Seq(Message) /\ \A x \in Range(ms) : Kind(x) = "connect" /\ Proper(x, losses)
  BY <1>10, AskForKind, AskForProper
<1>15. ASSUME TunnelOK PROVE TunnelOK'
  <2>1. Sides(s, t, q, r, n, o, j)
    BY <1>1, <1>15, TunnelOKFor
  <2>2. SameTunnels(WithId([s EXCEPT !.replies = @ \ {"tunnel"}], "own", Head(q).id), s2)
    BY <1>1, <1>10, <1>11
  <2>3. s2.endpoint = s.endpoint
    <3>1. w.endpoint = u.endpoint
      BY <1>1, <1>8 DEF WithId, Runtime
    <3>2. u.endpoint = s.endpoint
      BY <1>1, <1>7 DEF Runtime
    <3> QED
      BY <1>10, <1>11, <3>1, <3>2
  <2>4. AskFor(s2, ms)
    BY <1>10, <1>11 DEF AskFor, SameTunnels
  <2>5. Kind(Head(q)) = "ack"
    BY <1>1, <1>3
  <2>6. Sides(s2, t, q2, r2, n, o, j)
    BY <1>2, <1>7, <1>12, <1>13, <2>1, <2>2, <2>3, <2>4, <2>5, AckStep
  <2> QED
    BY <1>1, <1>6, <1>11, <2>6, TunnelOKForNext
<1>16. OwnListed(s2) /\ s2.asking = s.asking /\ ~Ended(s2)
  <2>1. u.asking = s.asking
    BY <1>1, <1>7 DEF Runtime
  <2>2. /\ w.id["own"] = m.id /\ w.listed[m.id] = "own" /\ w.asking = u.asking
        /\ w.status["own"] = "WORKING"
    BY <1>1, <1>2, <1>8 DEF WithId, Runtime, Objects
  <2> QED
    BY <1>10, <1>11, <2>1, <2>2 DEF SameTunnels, OwnListed, Ended
<1>17. Range(q2) \subseteq Range(q)
  <2>1. HandledNet(q, q2)
    BY <1>2, <1>7, <1>12, Handled
  <2> QED
    BY <2>1 DEF HandledNet
<1>18. \A x \in Range(r2) : x \in Range(r) \/ Kind(x) = "connect"
  <2>1. SentNet(r, ms, r2)
    BY <1>7, <1>12, <1>13, Sent
  <2> QED
    BY <1>13, <2>1 DEF SentNet
<1>19. Has(q, "ack")
  BY <1>2, <1>3 DEF Has
<1> QED
  BY <1>1, <1>6, <1>11, <1>15, <1>16, <1>17, <1>18, <1>19

(* Once a tunnel has timed out: a step of n that does not send a request   *)
(* or an answer for a tunnel, nor a tunnel of its own.                     *)
LEMMA NoRevivalStep ==
  ASSUME NEW n \in Nodes, NoRevival, rt'[Peer(n)] = rt[Peer(n)], joined' = joined,
         OwnListed(rt'[n]), ~rt'[n].asking, Ended(rt'[n]) => ~Has(net[n], "ack"),
         Range(net'[n]) \subseteq Range(net[n]),
         \A m \in Range(net'[Peer(n)]) : m \in Range(net[Peer(n)]) \/ Kind(m) \in {"connect", "answer"}
  PROVE  NoRevival'
<1>1. /\ joined /\ OwnListed(rt[Peer(n)]) /\ ~rt[Peer(n)].asking
      /\ ~Has(net[n], "request") /\ ~Has(net[Peer(n)], "request")
      /\ Ended(rt[Peer(n)]) => ~Has(net[Peer(n)], "ack")
  BY Peers DEF NoRevival
<1>2. ~Has(net'[n], "request") /\ (Ended(rt'[n]) => ~Has(net'[n], "ack"))
  BY <1>1 DEF Has
<1>3. \A kind \in {"request", "ack"} : Has(net'[Peer(n)], kind) => Has(net[Peer(n)], kind)
  BY DEF Has
<1>4. \A p \in Nodes :
        /\ OwnListed(rt'[p]) /\ ~rt'[p].asking /\ ~Has(net'[p], "request")
        /\ Ended(rt'[p]) => ~Has(net'[p], "ack")
  BY <1>1, <1>2, <1>3, Peers
<1> QED
  BY <1>1, <1>4 DEF NoRevival

(* Nothing revives a tunnel that has timed out.                            *)
LEMMA KeptDead ==
  ASSUME NEW n \in Nodes, Dead, Kept(n)
  PROVE  Dead'
<1>1. /\ OwnListed(rt'[n]) /\ ~rt'[n].asking /\ (Ended(rt'[n]) <=> Ended(rt[n]))
      /\ rt'[Peer(n)] = rt[Peer(n)] /\ joined' = joined
  BY DEF Kept, SameLists, Dead, NoRevival, OwnListed, Ended
<1>2. Ended(rt'[n]) => ~Has(net[n], "ack")
  BY <1>1 DEF Dead, NoRevival
<1>3. NoRevival'
  BY <1>1, <1>2, NoRevivalStep DEF Kept, Dead
<1>4. \E p \in Nodes : Ended(rt'[p])
  BY <1>1, Peers DEF Dead
<1> QED
  BY <1>3, <1>4 DEF Dead

LEMMA SetupAckDead ==
  ASSUME TablesType, TablesType', MessagesOK, NEW n \in Nodes, SetupAck(n), losses = 0, Dead
  PROVE  Dead'
<1>1. /\ Has(net[n], "ack") /\ rt'[Peer(n)] = rt[Peer(n)] /\ joined' = joined
      /\ OwnListed(rt'[n]) /\ rt'[n].asking = rt[n].asking /\ ~Ended(rt'[n])
      /\ Range(net'[n]) \subseteq Range(net[n])
      /\ \A m \in Range(net'[Peer(n)]) : m \in Range(net[Peer(n)]) \/ Kind(m) = "connect"
  BY SetupAckKeeps
<1>2. ~rt'[n].asking /\ Ended(rt[Peer(n)])
  BY <1>1, Peers DEF Dead, NoRevival
<1>3. NoRevival'
  BY <1>1, <1>2, NoRevivalStep DEF Dead
<1>4. \E p \in Nodes : Ended(rt'[p])
  BY <1>1, <1>2, Peers
<1> QED
  BY <1>3, <1>4 DEF Dead

(* connect takes a tunnel that is listed, or one that it has.              *)
LEMMA TunnelConnectDead ==
  ASSUME TablesType, NEW n \in Nodes, NEW c \in Ports, TunnelConnect(n, c), Dead
  PROVE  Dead'
<1> DEFINE found(x) == IF joined THEN Listed(x) ELSE {}
<1>1. PICK s : s = [rt[n] EXCEPT !.retries[c] = 0]
  OBVIOUS
<1>2. s \in Runtime /\ SameTunnels(rt[n], s)
  BY <1>1, NetOf, FirstTryType
<1>3. ASSUME NEW u \in Runtime, SameLists(s, u), u.token # "none",
             Set(n, Continued(u, c)), Send(n, Requests(u, c))
      PROVE  Dead'
  <2>1. SameTunnels(u, Continued(u, c)) /\ AskFor(u, Requests(u, c))
    BY <1>3, ContinuedType
  <2>2. rt'[n] = Continued(u, c) /\ rt'[Peer(n)] = rt[Peer(n)]
    BY <1>3, SetNext
  <2>3. net'[n] = net[n] /\ net'[Peer(n)] = net[Peer(n)] \o Requests(u, c)
    BY <1>3, SendNext
  <2>4. SameLists(rt[n], rt'[n])
    BY <1>2, <1>3, <2>1, <2>2 DEF SameTunnels, SameLists
  <2>5. PICK ms : ms = Requests(u, c)
    OBVIOUS
  <2>6. ms \in Seq(Message) /\ \A m \in Range(ms) : Kind(m) = "connect"
    BY <2>1, <2>5, AskForKind
  <2>7. net[Peer(n)] \in Seq(Message)
    BY Peers, NetOf
  <2>8. SentNet(net[Peer(n)], ms, net'[Peer(n)])
    BY <2>3, <2>5, <2>6, <2>7, Sent
  <2>9. Kept(n)
    BY <2>2, <2>3, <2>4, <2>6, <2>8 DEF Kept, SentNet, TunnelConnect
  <2> QED
    BY <2>9, KeptDead
<1>4. CASE s.token # "none" /\ Set(n, Continued(s, c)) /\ Send(n, Requests(s, c))
  BY <1>2, <1>3, <1>4 DEF SameLists
<1>5. ASSUME NEW x \in found(s), Set(n, Continued([s EXCEPT !.token = x], c)),
             Send(n, Requests([s EXCEPT !.token = x], c))
      PROVE  Dead'
  <2>1. x \in Objects /\ x # "none"
    BY <1>2 DEF Listed, Runtime, Objects
  <2>2. PICK u : u = [s EXCEPT !.token = x]
    OBVIOUS
  <2>3. u \in Runtime /\ u.token # "none" /\ SameLists(s, u)
    BY <1>2, <2>1, <2>2 DEF Runtime, SameLists
  <2> QED
    BY <1>3, <1>5, <2>2, <2>3
<1>6. found(s) # {}
  <2>1. OwnListed(rt[n]) /\ joined
    BY DEF Dead, NoRevival
  <2>2. s.id["own"] \in Nodes /\ s.listed[s.id["own"]] = "own"
    BY <1>2, <2>1 DEF OwnListed, SameTunnels, Runtime, Objects
  <2> QED
    BY <2>1, <2>2 DEF Listed
<1> QED
  BY <1>1, <1>4, <1>5, <1>6 DEF TunnelConnect

(* There is no request left, and nobody waits for a link.                  *)
LEMMA NotDead ==
  ASSUME TablesType, MessagesOK, NEW n \in Nodes, Dead
  PROVE  ~TunnelRequested(n) /\ ~TunnelCrossed(n) /\ ~TunnelDropped(n) /\ ~LinkUp(n)
<1>1. ~Received(n, {"TUNNEL_NEW"})
  <2> SUFFICES ASSUME Received(n, {"TUNNEL_NEW"}) PROVE FALSE
    OBVIOUS
  <2>1. Head(net[n]) \in Range(net[n]) /\ Kind(Head(net[n])) = "request"
    BY HeadProper DEF Kind
  <2> QED
    BY <2>1 DEF Dead, NoRevival, Has
<1>2. ~rt[n].asking
  BY DEF Dead, NoRevival
<1> QED
  BY <1>1, <1>2 DEF TunnelRequested, TunnelCrossed, TunnelDropped, LinkUp

(* The tables when an answer is not waited for any more.                   *)
LEMMA TimedOutTunnels ==
  ASSUME NEW s \in Runtime, NEW key \in {"tunnel"} \cup Ports, NEW s2, s2 = TimedOut(s, key)
  PROVE  /\ key \in Ports => SameTunnels(s, s2) /\ s2.endpoint = s.endpoint
         /\ key = "tunnel" =>
              Ended(s2) /\ s2.id = s.id /\ s2.listed = s.listed /\ s2.asking = s.asking
<1> DEFINE u == [s EXCEPT !.replies = @ \ {key}]
<1>1. CASE key = "tunnel"
  <2> DEFINE down == [u EXCEPT !.status["own"] = "TERMINATED", !.token = "none"]
  <2>1. u \in Runtime /\ u.id = s.id /\ u.listed = s.listed /\ u.asking = s.asking
    BY DEF Runtime
  <2> HIDE DEF u
  <2>2. /\ down \in Runtime /\ down.status["own"] = "TERMINATED"
        /\ down.id = u.id /\ down.listed = u.listed /\ down.asking = u.asking
    BY <2>1 DEF Runtime, Objects
  <2>3. s2 = ConnectVia(down, Queued(down), FALSE) \/ s2 = ConnectVia(down, Queued(u), FALSE)
    BY <1>1 DEF TimedOut, Down, u
  <2> HIDE DEF down
  <2>4. SameTunnels(down, s2)
    BY <2>1, <2>2, <2>3, ConnectViaType, QueuedType
  <2>5. key \notin Ports
    BY <1>1, PortsAssumption
  <2> QED
    BY <2>1, <2>2, <2>4, <2>5 DEF SameTunnels, Ended
<1>2. CASE key \in Ports
  <2>1. key # "tunnel"
    BY <1>2, PortsAssumption
  <2>2. u \in Runtime /\ SameTunnels(s, u) /\ u.endpoint = s.endpoint
    BY <1>2, AnsweredTunnels
  <2>3. \E phase, retries : s2 = [u EXCEPT !.phase = phase, !.retries = retries]
    <3>1. \/ s2 = [u EXCEPT !.phase[key] = "looking", !.retries[key] = @ + 1]
          \/ s2 = [u EXCEPT !.phase[key] = "failed"]
      BY <2>1 DEF TimedOut
    <3>2. [u EXCEPT !.phase[key] = "looking", !.retries[key] = @ + 1] =
            [u EXCEPT !.phase = [u.phase EXCEPT ![key] = "looking"],
                      !.retries = [u.retries EXCEPT ![key] = u.retries[key] + 1]]
      BY <2>2 DEF Runtime
    <3>3. [u EXCEPT !.phase[key] = "failed"] =
            [u EXCEPT !.phase = [u.phase EXCEPT ![key] = "failed"], !.retries = u.retries]
      BY <2>2 DEF Runtime
    <3>4. CASE s2 = [u EXCEPT !.phase[key] = "looking", !.retries[key] = @ + 1]
      BY <3>2, <3>4
    <3>5. CASE s2 = [u EXCEPT !.phase[key] = "failed"]
      BY <3>3, <3>5
    <3> QED
      BY <3>1, <3>4, <3>5
  <2> HIDE DEF u
  <2>4. SameTunnels(u, s2) /\ s2.endpoint = u.endpoint
    <3>1. /\ s2.status = u.status /\ s2.id = u.id /\ s2.listed = u.listed /\ s2.token = u.token
          /\ s2.asking = u.asking /\ s2.replies = u.replies /\ s2.endpoint = u.endpoint
      BY <2>2, <2>3 DEF Runtime
    <3> QED
      BY <3>1 DEF SameTunnels
  <2> QED
    BY <2>1, <2>2, <2>4, SameTunnelsTransitive
<1> QED
  BY <1>1, <1>2

(* Nothing about the tunnel is on its way.                                 *)
LEMMA NotOnItsWay ==
  ASSUME TablesType, MessagesOK, losses = 0, NEW n \in Nodes, ~OnItsWay(n, "tunnel")
  PROVE  ~Has(net[n], "ack") /\ ~Has(net[Peer(n)], "request")
<1>1. ASSUME NEW p \in Nodes, NEW m \in Range(net[p])
      PROVE  ~IsAbout(n, "tunnel", p, m)
  <2>1. PICK k \in DOMAIN net[p] : m = net[p][k]
    BY <1>1 DEF Range
  <2>2. m.awaited
    BY DEF MessagesOK, Proper
  <2> QED
    BY <2>1, <2>2 DEF OnItsWay
<1>2. ASSUME NEW m \in Range(net[n]), Kind(m) = "ack" PROVE FALSE
  <2>1. m \in Message
    <3>1. net[n] \in Seq(Message)
      BY NetOf
    <3> QED
      BY <3>1, <1>2, ElementOfSeq, LenProperties DEF Range
  <2>2. m.key = "tunnel" /\ m.cmd \in {"OK", "GONE"}
    BY <1>2, <2>1 DEF Kind, Message
  <2> QED
    BY <1>1, <2>2 DEF IsAbout
<1>3. ASSUME NEW m \in Range(net[Peer(n)]), Kind(m) = "request" PROVE FALSE
  <2>1. m.cmd = "TUNNEL_NEW" /\ m.key = "tunnel"
    BY <1>3, Peers DEF Kind, MessagesOK, Proper
  <2> QED
    BY <1>1, <2>1, Peers DEF IsAbout
<1> QED
  BY <1>2, <1>3 DEF Has

LEMMA ReplyTimeoutKeeps ==
  ASSUME TablesType, TablesType', MessagesOK, NEW n \in Nodes, ReplyTimeout(n), losses = 0
  PROVE  TunnelOK \/ Dead => TunnelOK' \/ Dead'
<1>1. PICK key \in rt[n].replies : ~OnItsWay(n, key) /\ Set(n, TimedOut(rt[n], key))
  BY DEF ReplyTimeout
<1>2. PICK s, s2 : s = rt[n] /\ s2 = TimedOut(s, key)
  OBVIOUS
<1>3. s \in Runtime
  BY <1>2, NetOf
<1>4. key \in {"tunnel"} \cup Ports
  BY <1>1, <1>2, <1>3 DEF Runtime
<1>5. /\ key \in Ports => SameTunnels(s, s2) /\ s2.endpoint = s.endpoint
      /\ key = "tunnel" =>
           Ended(s2) /\ s2.id = s.id /\ s2.listed = s.listed /\ s2.asking = s.asking
  BY <1>2, <1>3, <1>4, TimedOutTunnels
<1>6. rt'[n] = s2 /\ rt'[Peer(n)] = rt[Peer(n)] /\ UNCHANGED <<net, joined, losses, overtakes>>
  BY <1>1, <1>2, SetNext DEF ReplyTimeout
<1>8. CASE key \in Ports
  <2>1. SameLists(rt[n], rt'[n]) /\ SameTunnels(rt[n], rt'[n]) /\ rt'[n].endpoint = rt[n].endpoint
    BY <1>2, <1>5, <1>6, <1>8 DEF SameTunnels, SameLists
  <2>2. Kept(n)
    BY <1>6, <2>1 DEF Kept
  <2>3. ASSUME TunnelOK PROVE TunnelOK'
    <3>1. net[Peer(n)] \in Seq(Message)
      BY Peers, NetOf
    <3>2. net'[Peer(n)] = net[Peer(n)] \o <<>> /\ <<>> \in Seq(Message)
      BY <1>6, <3>1, ConcatEmptySeq
    <3>3. PortHandled(net[n], net'[n]) /\ PortEnds(rt[n], rt'[n], net[n], net'[n])
      BY <1>6, <2>1 DEF PortHandled, PortEnds
    <3>4. PortMessages(rt[n], net[n], <<>>)
      BY NothingProper DEF PortMessages
    <3> QED
      BY <1>6, <2>1, <2>3, <3>2, <3>3, <3>4, PortStepNext
  <2> QED
    BY <2>2, <2>3, KeptDead
<1>9. CASE key = "tunnel"
  <2>1. ~Has(net[n], "ack") /\ ~Has(net[Peer(n)], "request")
    BY <1>1, <1>9, NotOnItsWay
  <2>2. (OwnListed(s2) <=> OwnListed(s)) /\ s2.asking = s.asking /\ Ended(s2)
    BY <1>5, <1>9 DEF OwnListed
  <2>3. ASSUME NoRevival PROVE Dead'
    <3>1. OwnListed(rt'[n]) /\ ~rt'[n].asking
      BY <1>2, <1>6, <2>2, <2>3 DEF NoRevival
    <3>2. /\ Range(net'[n]) \subseteq Range(net[n])
          /\ \A m \in Range(net'[Peer(n)]) : m \in Range(net[Peer(n)])
      BY <1>6
    <3>3. NoRevival'
      BY <1>6, <2>1, <2>3, <3>1, <3>2, NoRevivalStep
    <3> QED
      BY <1>6, <2>2, <3>3 DEF Dead
  <2>4. ASSUME TunnelOK PROVE NoRevival
    <3>1. PICK t, q, r, o, j : /\ t = rt[Peer(n)] /\ q = net[n] /\ r = net[Peer(n)]
                               /\ o = overtakes /\ j = joined
      OBVIOUS
    <3>2. Sides(s, t, q, r, n, o, j)
      BY <1>2, <2>4, <3>1, TunnelOKFor
    <3>3. /\ Tables(s, n, j) /\ Tables(t, Peer(n), j) /\ Asked(s, t, q, r, n)
      BY <3>2 DEF Sides, Side
    <3>4. "tunnel" \in s.replies
      BY <1>1, <1>2, <1>9
    <3>5. OwnListed(s) /\ OwnListed(t) /\ ~Has(q, "request")
      BY <2>1, <3>1, <3>3, <3>4 DEF Asked
    <3>6. j /\ ~s.asking /\ ~t.asking /\ ~Ended(s) /\ ~Ended(t)
      BY <3>3, <3>5 DEF Tables, Ended
    <3> QED
      BY <1>2, <2>1, <3>1, <3>5, <3>6, Peers DEF NoRevival
  <2> QED
    BY <2>3, <2>4 DEF Dead
<1> QED
  BY <1>4, <1>8, <1>9

LEMMA OvertakeKeeps ==
  ASSUME TablesType, TablesType', MessagesOK, NEW n \in Nodes, Overtake(n)
  PROVE  /\ MessagesOK' /\ (overtakes = 0 /\ TunnelOK => TunnelOK') /\ (Dead => Dead')
<1>1. PICK k \in 1..Len(net[n]) - 1 : net' = [net EXCEPT ![n] = Swapped(net[n], k)]
  BY DEF Overtake, Swapped
<1>2. overtakes' = overtakes + 1 /\ UNCHANGED <<rt, joined, losses>>
  BY DEF Overtake
<1>3. net[n] \in Seq(Message)
  BY NetOf
<1>4. net'[n] = Swapped(net[n], k) /\ net'[Peer(n)] = net[Peer(n)]
  BY <1>1, Peers DEF TablesType
<1>5. Range(net'[n]) = Range(net[n])
  <2>1. PICK q2 : q2 = Swapped(net[n], k)
    OBVIOUS
  <2>2. Range(q2) = Range(net[n])
    BY <1>3, <2>1, Overtaken
  <2> QED
    BY <1>4, <2>1, <2>2
<1>6. MessagesOK'
  BY <1>2, <1>4, <1>5, Peers DEF MessagesOK
<1>7. Dead => Dead'
  <2>1. Kept(n)
    BY <1>2, <1>4, <1>5 DEF Kept, SameLists
  <2> QED
    BY <2>1, KeptDead
<1>8. ASSUME overtakes = 0, TunnelOK PROVE TunnelOK'
  <2>1. PICK s, t, q, q2, r, j :
          /\ s = rt[n] /\ t = rt[Peer(n)] /\ q = net[n] /\ q2 = net'[n] /\ r = net[Peer(n)] /\ j = joined
    OBVIOUS
  <2>2. /\ s \in Runtime /\ t \in Runtime
        /\ q \in Seq(Message) /\ q2 \in Seq(Message) /\ r \in Seq(Message)
    BY <2>1, StepTypes
  <2>3. Sides(s, t, q, r, n, 0, j)
    BY <1>8, <2>1, TunnelOKFor
  <2>4. k \in 1..Len(q) - 1 /\ q2 = Swapped(q, k)
    BY <1>4, <2>1
  <2>5. Sides(s, t, q2, r, n, 1, j)
    BY <2>2, <2>3, <2>4, OvertakeStep
  <2>6. overtakes' = 1
    BY <1>2, <1>8
  <2> QED
    BY <1>2, <1>4, <2>1, <2>5, <2>6, TunnelOKForNext
<1> QED
  BY <1>6, <1>7, <1>8

(* Part of a queue, and what a loss leaves of it.                          *)
LEMMA RangeOfSubSeq ==
  ASSUME NEW q \in Seq(Message), NEW i \in Nat, NEW j \in Nat, 1 <= i, j <= Len(q)
  PROVE  SubSeq(q, i, j) \in Seq(Message) /\ Range(SubSeq(q, i, j)) \subseteq Range(q)
<1>1. Len(q) \in Nat /\ DOMAIN q = 1..Len(q) /\ \A k \in 1..Len(q) : q[k] \in Message
  BY ElementOfSeq
<1>2. i \in Int /\ j \in Int /\ \A k \in i..j : q[k] \in Message
  BY <1>1
<1>3. PICK a : a = SubSeq(q, i, j)
  OBVIOUS
<1>4. /\ a \in Seq(Message) /\ Len(a) = IF i <= j THEN j - i + 1 ELSE 0
      /\ \A k \in 1..(j - i + 1) : a[k] = q[i + k - 1]
  BY <1>2, <1>3, SubSeqProperties
<1>5. DOMAIN a = 1..Len(a)
  BY <1>4
<1>6. \A k \in DOMAIN a : i + k - 1 \in DOMAIN q /\ a[k] = q[i + k - 1]
  BY <1>1, <1>4, <1>5
<1> QED
  BY <1>3, <1>4, <1>6 DEF Range

LEMMA RangeOfRemoveAt ==
  ASSUME NEW q \in Seq(Message), NEW k \in DOMAIN q
  PROVE  Range(RemoveAt(q, k)) \subseteq Range(q)
<1>1. PICK a, z : a = SubSeq(q, 1, k - 1) /\ z = SubSeq(q, k + 1, Len(q))
  OBVIOUS
<1>2. k \in 1..Len(q) /\ Len(q) \in Nat
  OBVIOUS
<1>3. a \in Seq(Message) /\ Range(a) \subseteq Range(q)
  <2>1. 1 \in Nat /\ k - 1 \in Nat /\ 1 <= 1 /\ k - 1 <= Len(q)
    BY <1>2
  <2> QED
    BY <1>1, <2>1, RangeOfSubSeq
<1>4. z \in Seq(Message) /\ Range(z) \subseteq Range(q)
  <2>1. k + 1 \in Nat /\ Len(q) \in Nat /\ 1 <= k + 1 /\ Len(q) <= Len(q)
    BY <1>2
  <2> QED
    BY <1>1, <2>1, RangeOfSubSeq
<1>5. PICK r : r = a \o z
  OBVIOUS
<1>6. SentNet(a, z, r)
  BY <1>3, <1>4, <1>5, Sent
<1>7. RemoveAt(q, k) = r
  BY <1>1, <1>5 DEF RemoveAt
<1> QED
  BY <1>3, <1>4, <1>6, <1>7 DEF SentNet

(* Once a message is lost or late, only what the messages are about is     *)
(* still known.                                                            *)
LEMMA LossKeeps ==
  ASSUME TablesType, CountsType, MessagesOK, NEW n \in Nodes,
         LinkFails(n) \/ ReplyLate(n) \/ Lose(n)
  PROVE  MessagesOK' /\ losses' # 0
<1>1. losses' # 0
  BY DEF LinkFails, ReplyLate, Lose, CountsType
<1>2. ASSUME \A p \in Nodes : \A x \in Range(net'[p]) :
               \E m \in Range(net[p]) : x.cmd = m.cmd /\ x.key = m.key
      PROVE  MessagesOK'
  <2> SUFFICES ASSUME NEW p \in Nodes, NEW x \in Range(net'[p]) PROVE Proper(x, losses')
    BY DEF MessagesOK
  <2>1. PICK m \in Range(net[p]) : x.cmd = m.cmd /\ x.key = m.key
    BY <1>2
  <2>2. Proper(m, losses)
    BY DEF MessagesOK
  <2> QED
    BY <1>1, <2>1, <2>2 DEF Proper
<1>3. CASE LinkFails(n)
  BY <1>1, <1>2, <1>3 DEF LinkFails
<1>4. CASE ReplyLate(n)
  <2>1. PICK key : net' = Late(n, key)
    BY <1>4 DEF ReplyLate
  <2>2. ASSUME NEW p \in Nodes, NEW x \in Range(net'[p])
        PROVE  \E m \in Range(net[p]) : x.cmd = m.cmd /\ x.key = m.key
    <3>1. DOMAIN net'[p] = DOMAIN net[p] /\ \A k \in DOMAIN net[p] :
            net'[p][k] \in {net[p][k], [net[p][k] EXCEPT !.awaited = FALSE]}
      BY <2>1 DEF Late
    <3>2. PICK k \in DOMAIN net[p] : x \in {net[p][k], [net[p][k] EXCEPT !.awaited = FALSE]}
      BY <2>2, <3>1 DEF Range
    <3>3. PICK m \in Range(net[p]) : x \in {m, [m EXCEPT !.awaited = FALSE]}
      BY <3>2 DEF Range
    <3>4. m \in Message
      <4>1. net[p] \in Seq(Message)
        BY NetOf
      <4> QED
        BY <3>3, <4>1, ElementOfSeq, LenProperties DEF Range
    <3>5. x.cmd = m.cmd /\ x.key = m.key
      BY <3>3, <3>4 DEF Message
    <3> QED
      BY <3>5
  <2> QED
    BY <1>1, <1>2, <2>2
<1>5. CASE Lose(n)
  <2>1. PICK k \in DOMAIN net[n] : net' = [net EXCEPT ![n] = RemoveAt(@, k)]
    BY <1>5 DEF Lose
  <2>2. net'[n] = RemoveAt(net[n], k) /\ net'[Peer(n)] = net[Peer(n)]
    BY <2>1, Peers DEF TablesType
  <2>3. Range(net'[n]) \subseteq Range(net[n])
    BY <2>1, <2>2, NetOf, RangeOfRemoveAt
  <2>4. \A p \in Nodes : Range(net'[p]) \subseteq Range(net[p])
    BY <2>2, <2>3, Peers
  <2> QED
    BY <1>1, <1>2, <2>4
<1> QED
  BY <1>3, <1>4, <1>5

-----------------------------------------------------------------------------
(* The invariant holds at first, every step keeps it, and the ends of a    *)
(* connection have tunnels of the same identity while it holds.            *)
LEMMA InitInv ==
  ASSUME Init
  PROVE  TunnelInv /\ MessagesOK
<1>1. Range(<<>>) = {} /\ (\A kind : ~Has(<<>>, kind) /\ Once(<<>>, kind)) /\ net = [n \in Nodes |-> <<>>]
  BY DEF Init, Range, Has, Once
<1>2. MessagesOK
  BY <1>1 DEF MessagesOK
<1>3. ASSUME NEW n \in Nodes
      PROVE  /\ Tables(rt[n], n, joined) /\ ~OwnListed(rt[n]) /\ ~HasPeers(rt[n])
             /\ rt[n].status["own"] = "none" /\ Unconnected(rt[n]) /\ "tunnel" \notin rt[n].replies
             /\ net[n] = <<>>
  <2>1. /\ rt[n].status["own"] = "none" /\ rt[n].status["peers"] = "none"
        /\ rt[n].id["own"] = n /\ rt[n].id["peers"] = n
        /\ \A i \in Nodes : rt[n].listed[i] = "none"
        /\ rt[n].token = "none" /\ ~rt[n].asking /\ rt[n].replies = {}
        /\ \A c \in Ports : rt[n].endpoint[c] = "none"
    BY DEF Init, Objects
  <2> QED
    BY <1>1, <2>1 DEF Tables, OwnListed, HasPeers, Unconnected
<1>4. PICK s, t, o, j : s = rt[1] /\ t = rt[2] /\ o = overtakes /\ j = joined
  OBVIOUS
<1>5. 1 \in Nodes /\ 2 \in Nodes /\ Peer(1) = 2
  BY DEF Nodes, Peer
<1>6. /\ Tables(s, 1, j) /\ ~OwnListed(s) /\ ~HasPeers(s) /\ s.status["own"] = "none"
      /\ Unconnected(s) /\ "tunnel" \notin s.replies
      /\ Tables(t, 2, j) /\ ~OwnListed(t) /\ ~HasPeers(t) /\ t.status["own"] = "none"
      /\ Unconnected(t) /\ "tunnel" \notin t.replies
  BY <1>3, <1>4, <1>5
<1>7. ASSUME NEW n, NEW x, NEW y, Tables(x, n, j), ~OwnListed(x), ~HasPeers(x), ~HasPeers(y),
             x.status["own"] = "none", Unconnected(x), "tunnel" \notin x.replies
      PROVE  Side(x, y, <<>>, <<>>, n, o, j)
  <2>1. Asked(x, y, <<>>, <<>>, n)
    BY <1>1, <1>7 DEF Asked
  <2>2. Quiet(x, y, <<>>, <<>>) /\ Crossed(x, y, <<>>, <<>>, n) /\ Answered(x, y, <<>>, <<>>, n, o)
    BY <1>1, <1>7 DEF Quiet, Crossed, Answered
  <2> QED
    BY <1>7, <2>1, <2>2 DEF Side
<1>8. Sides(s, t, <<>>, <<>>, 1, o, j)
  BY <1>5, <1>6, <1>7 DEF Sides
<1>9. TunnelOK
  BY <1>3, <1>4, <1>5, <1>8 DEF TunnelOK
<1> QED
  BY <1>2, <1>9 DEF TunnelInv

LEMMA InvKept ==
  ASSUME TablesType, CountsType, TunnelInv, MessagesOK, [Next]_vars
  PROVE  TunnelInv' /\ MessagesOK'
<1>1. TablesType'
  BY TablesKept
<1>2. ASSUME NEW n \in Nodes, NEW c \in Ports, Connect(n, c) \/ LookedUp(n, c)
      PROVE  TunnelInv' /\ MessagesOK'
  <2>1. TunnelConnect(n, c)
    BY <1>2 DEF Connect, LookedUp
  <2>2. losses' = losses /\ overtakes' = overtakes
    BY <2>1 DEF TunnelConnect
  <2> QED
    BY <1>1, <2>1, <2>2, TunnelConnectKeeps, TunnelConnectDead DEF TunnelInv
<1>3. ASSUME NEW n \in Nodes, LinkUp(n)
      PROVE  TunnelInv' /\ MessagesOK'
  <2>1. losses' = losses /\ overtakes' = overtakes
    BY <1>3 DEF LinkUp
  <2> QED
    BY <1>1, <1>3, <2>1, LinkUpKeeps, NotDead DEF TunnelInv
<1>4. ASSUME NEW n \in Nodes, TunnelRequested(n) \/ TunnelCrossed(n) \/ TunnelDropped(n)
      PROVE  TunnelInv' /\ MessagesOK'
  <2>1. losses' = losses /\ overtakes' = overtakes
    BY <1>4 DEF TunnelRequested, TunnelCrossed, TunnelDropped
  <2> QED
    BY <1>1, <1>4, <2>1, TunnelRequestedKeeps, TunnelCrossedKeeps, TunnelDroppedKeeps, NotDead DEF TunnelInv
<1>5. ASSUME NEW n \in Nodes, ConnectionRequest(n) \/ ConnectedViaTunnel(n)
      PROVE  TunnelInv' /\ MessagesOK'
  <2>1. losses' = losses /\ overtakes' = overtakes
    BY <1>5 DEF ConnectionRequest, ConnectedViaTunnel
  <2>2. MessagesOK' /\ Kept(n) /\ (TunnelOK => TunnelOK')
    BY <1>1, <1>5, ConnectionRequestKeeps, ConnectedViaTunnelKeeps
  <2> QED
    BY <2>1, <2>2, KeptDead DEF TunnelInv
<1>6. ASSUME NEW n \in Nodes, SetupAck(n)
      PROVE  TunnelInv' /\ MessagesOK'
  <2>1. losses' = losses /\ overtakes' = overtakes
    BY <1>6 DEF SetupAck
  <2>2. losses = 0 => (TunnelOK => TunnelOK') /\ (Dead => Dead')
    BY <1>1, <1>6, SetupAckKeeps, SetupAckDead
  <2> QED
    BY <1>1, <1>6, <2>1, <2>2, SetupAckProper DEF TunnelInv
<1>7. ASSUME NEW n \in Nodes, ReplyTimeout(n)
      PROVE  TunnelInv' /\ MessagesOK'
  <2>1. losses' = losses /\ overtakes' = overtakes /\ net' = net
    BY <1>7 DEF ReplyTimeout
  <2>2. MessagesOK'
    BY <2>1 DEF MessagesOK
  <2>3. losses = 0 => (TunnelOK \/ Dead => TunnelOK' \/ Dead')
    BY <1>1, <1>7, ReplyTimeoutKeeps
  <2> QED
    BY <2>1, <2>2, <2>3 DEF TunnelInv
<1>8. ASSUME NEW n \in Nodes, LinkFails(n) \/ ReplyLate(n) \/ Lose(n)
      PROVE  TunnelInv' /\ MessagesOK'
  BY <1>8, LossKeeps DEF TunnelInv
<1>9. ASSUME NEW n \in Nodes, Overtake(n)
      PROVE  TunnelInv' /\ MessagesOK'
  <2>1. losses' = losses /\ overtakes' = overtakes + 1 /\ overtakes \in Nat
    BY <1>9 DEF Overtake, CountsType
  <2>2. overtakes' <= 1 => overtakes = 0 /\ overtakes <= 1
    BY <2>1
  <2>3. MessagesOK' /\ (overtakes = 0 /\ TunnelOK => TunnelOK') /\ (Dead => Dead')
    BY <1>1, <1>9, OvertakeKeeps
  <2> QED
    BY <2>1, <2>2, <2>3 DEF TunnelInv
<1>10. CASE UNCHANGED vars
  <2>1. rt' = rt /\ net' = net /\ joined' = joined /\ losses' = losses /\ overtakes' = overtakes
    BY <1>10 DEF vars
  <2>2. (TunnelOK' <=> TunnelOK) /\ (Dead' <=> Dead) /\ (MessagesOK' <=> MessagesOK)
    BY <2>1 DEF TunnelOK, Dead, NoRevival, MessagesOK
  <2> QED
    BY <2>1, <2>2 DEF TunnelInv
<1> QED
  BY <1>2, <1>3, <1>4, <1>5, <1>6, <1>7, <1>8, <1>9, <1>10 DEF Next, Receive, Fault

LEMMA InvRouted ==
  ASSUME TablesType, CountsType, TunnelInv
  PROVE  Routed
<1> SUFFICES ASSUME ~Disturbed, overtakes <= 1, NEW c \in Ports,
                    \A n \in Nodes : rt[n].endpoint[c] # "none", NEW n \in Nodes
             PROVE  Reaches(n, c)
  BY DEF Routed
<1>1. losses = 0 /\ \A p \in Nodes : ~Ended(rt[p])
  BY DEF Disturbed, CountsType, Ended
<1>2. TunnelOK
  BY <1>1 DEF TunnelInv, Dead
<1>3. PICK s, t, q, r, o, j : /\ s = rt[n] /\ t = rt[Peer(n)] /\ q = net[n] /\ r = net[Peer(n)]
                              /\ o = overtakes /\ j = joined
  OBVIOUS
<1> DEFINE b == Peer(n)
<1>4. b \in Nodes /\ b # n /\ Peer(b) = n
  BY Peers
<1>5. Sides(s, t, q, r, n, o, j)
  BY <1>2, <1>3, TunnelOKFor
<1>6. /\ Tables(s, n, j) /\ Quiet(s, t, q, r) /\ Crossed(s, t, q, r, n) /\ Answered(s, t, q, r, n, o)
      /\ Tables(t, b, j) /\ Crossed(t, s, r, q, b) /\ Answered(t, s, r, q, b, o)
  BY <1>5 DEF Sides, Side
<1>7. /\ s.endpoint[c] # "none" /\ s.endpoint[c] = s.token
      /\ t.endpoint[c] # "none" /\ ~Unconnected(s) /\ ~Unconnected(t)
  BY <1>3, <1>4, <1>6 DEF Tables, Unconnected
<1>8. t.listed[s.id[s.token]] # "none"
  <2>1. CASE HasPeers(s)
    <3>1. OwnListed(t) /\ s.id["peers"] = b /\ s.token = "peers"
      BY <1>6, <2>1 DEF Answered, Tables
    <3>2. t.id["own"] = b
      BY <1>6, <1>7, <2>1 DEF Answered, Replaced, Tables
    <3> QED
      BY <3>1, <3>2 DEF OwnListed
  <2>2. CASE HasPeers(t)
    <3>1. t.listed[n] # "none" /\ ~HasPeers(s) /\ OwnListed(s)
      BY <1>6, <2>2 DEF Answered
    <3>2. s.token = "own"
      BY <1>6, <3>1 DEF Tables
    <3>3. s.id["own"] = n
      BY <1>6, <1>7, <2>2 DEF Answered, Replaced, Tables
    <3> QED
      BY <3>1, <3>2, <3>3
  <2>3. CASE ~HasPeers(s) /\ ~HasPeers(t)
    <3>1. OwnListed(s) /\ OwnListed(t)
      BY <1>6, <1>7, <2>3 DEF Quiet
    <3>2. s.id["own"] = 2 /\ t.id["own"] = 2
      BY <1>6, <1>7, <2>3, <3>1 DEF Crossed
    <3>3. s.token = "own"
      BY <1>6, <2>3, <3>1 DEF Tables
    <3> QED
      BY <3>1, <3>2, <3>3 DEF OwnListed
  <2> QED
    BY <2>1, <2>2, <2>3
<1> QED
  BY <1>3, <1>7, <1>8 DEF Reaches

(* While nothing is lost or late and no tunnel has timed out, and at most  *)
(* one message has overtaken another, whichever way the requests for the   *)
(* tunnel and for the connections have crossed: the tunnel that either end *)
(* of a connection has attached is one that the other runtime lists under  *)
(* the same identity (Routed: CalvinProto.tunnel_new_handler, CalvinTunnel *)
(* and TunnelConnection).                                                  *)
THEOREM TunnelsAreRouted == Spec => []Routed
<1>1. Init => TablesType /\ CountsType /\ TunnelInv /\ MessagesOK
  BY InitType, InitInv
<1>2. TablesType /\ CountsType /\ TunnelInv /\ MessagesOK /\ [Next]_vars
        => TablesType' /\ CountsType' /\ TunnelInv' /\ MessagesOK'
  BY TablesKept, CountsKept, InvKept
<1>3. TablesType /\ CountsType /\ TunnelInv => Routed
  BY InvRouted
<1> QED
  BY <1>1, <1>2, <1>3, PTL DEF Spec
=============================================================================
