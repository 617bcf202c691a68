----------------------------- MODULE TunnelConnect -----------------------------
(***************************************************************************)
(* Two runtimes set up the tunnel for their tokens and connect ports over  *)
(* it: CalvinTunnel and CalvinProto.tunnel_new (runtime/north/            *)
(* calvin_proto.py), TunnelConnection and its TokenTunnel                  *)
(* (plugins/port/connection/tunnel.py), for ports that stay where they are. *)
(*                                                                         *)
(* A runtime has at most two tunnel objects towards its peer: its own, and *)
(* one made for a request of the peer.  The identity of a new one is the   *)
(* runtime that has made it; only the order of identities matters.         *)
(*                                                                         *)
(* An exception in a handler or a callback is logged by its caller: what   *)
(* was assigned stays, and what would have been answered is not.           *)
(***************************************************************************)
EXTENDS Naturals, Sequences, FiniteSets, SequencesExt

CONSTANTS Ports,     \* connections: each has a port on either runtime
          MaxFaults  \* bound: losses and overtakes

ASSUME PortsAssumption == IsFiniteSet(Ports) /\ "tunnel" \notin Ports
ASSUME BoundAssumption == MaxFaults \in Nat

Nodes == {1, 2}

Peer(n) == 3 - n

Objects == {"own", "peers"}

VARIABLES rt,      \* the state of each runtime
          net,     \* the messages on their way to it
          joined,  \* there is a link between them
          losses,  \* counts messages lost or too late, links not made
          overtakes \* counts messages that overtake another one

vars == <<rt, net, joined, losses, overtakes>>

FaultLeft == losses + overtakes < MaxFaults

(* status and id of the tunnel objects; listed: CalvinProto.tunnels of the *)
(* peer; token: TokenTunnel.tunnels of the peer; asking: its own tunnel    *)
(* waits for a link; replies: the requests whose answer is awaited.  The   *)
(* phase of a connect: "queued" in pending_tunnels, "looking" the peer up, *)
(* "lost" in an exception, so that its callback is never called.           *)
Runtime ==
  [ status : [Objects -> {"none", "PENDING", "WORKING", "TERMINATED"}],
    id : [Objects -> Nodes], listed : [Nodes -> Objects \cup {"none"}],
    token : Objects \cup {"none"}, asking : BOOLEAN,
    phase : [Ports -> {"idle", "looking", "queued", "asked", "done", "failed", "lost"}],
    retries : [Ports -> 0 .. 3], endpoint : [Ports -> Objects \cup {"none"}],
    replies : SUBSET ({"tunnel"} \cup Ports) ]

(* Requests and answers, about the tunnel or a port; reply_handler ignores *)
(* an answer that is not awaited any more.                                 *)
Message ==
  [ cmd : {"TUNNEL_NEW", "PORT_CONNECT", "OK", "GONE"},
    key : {"tunnel"} \cup Ports, id : Nodes, awaited : BOOLEAN ]

TunnelNew(n) == [cmd |-> "TUNNEL_NEW", key |-> "tunnel", id |-> n, awaited |-> TRUE]

Answer(m, cmd, i) == [cmd |-> cmd, key |-> m.key, id |-> i, awaited |-> m.awaited]

Listed(s) == {s.listed[i] : i \in Nodes} \ {"none"}

Init ==
  /\ rt = [n \in Nodes |->
             [ status |-> [t \in Objects |-> "none"], id |-> [t \in Objects |-> n],
               listed |-> [i \in Nodes |-> "none"], token |-> "none", asking |-> FALSE,
               phase |-> [c \in Ports |-> "idle"], retries |-> [c \in Ports |-> 0],
               endpoint |-> [c \in Ports |-> "none"], replies |-> {} ]]
  /\ net = [n \in Nodes |-> <<>>]
  /\ joined \in BOOLEAN
  /\ losses = 0
  /\ overtakes = 0

-----------------------------------------------------------------------------
(* _connect_via_tunnel, for all the connections C at once: those that the  *)
(* peer has connected are done, and the peer is asked for the others.      *)
ToAsk(s, C, ok) ==
  IF ok /\ s.token # "none" THEN {c \in C : s.endpoint[c] = "none"} ELSE {}

ConnectVia(s, C, ok) ==
  [s EXCEPT
    !.phase = [c \in Ports |->
      IF c \notin C THEN s.phase[c]
      ELSE IF s.endpoint[c] # "none" THEN "done"
      ELSE IF ~ok THEN "failed"
      ELSE IF s.token = "none" THEN "lost" ELSE "asked"],
    !.replies = @ \cup ToAsk(s, C, ok)]

PortConnects(s, C, ok) ==
  SetToSeq({[cmd |-> "PORT_CONNECT", key |-> c, id |-> s.id[s.token], awaited |-> TRUE]
              : c \in ToAsk(s, C, ok)})

Queued(s) == {c \in Ports : s.phase[c] = "queued"}

(* _setup_ack with an answer, and TokenTunnel.tunnel_up: the tunnel takes  *)
(* the place of the one that has had its new identity.                     *)
WithId(s, t, i) ==
  [s EXCEPT !.id[t] = i, !.listed = [@ EXCEPT ![s.id[t]] = "none", ![i] = t],
            !.status[t] = "WORKING"]

Up(s) == ConnectVia(s, Queued(s), TRUE)

UpRequests(s) == PortConnects(s, Queued(s), TRUE)

(* _setup_ack without one, and TokenTunnel.tunnel_down: whatever tunnel    *)
(* the ports use is forgotten.                                             *)
Down(s) ==
  LET down == [s EXCEPT !.status["own"] = "TERMINATED", !.token = "none"]
  IN  ConnectVia(down, Queued(s), FALSE)

-----------------------------------------------------------------------------
(* What n sends, and the message that it handles.                          *)
Send(n, messages) == net' = [net EXCEPT ![Peer(n)] = @ \o messages]

Handle(n, messages) ==
  net' = [net EXCEPT ![n] = Tail(@), ![Peer(n)] = @ \o messages]

Received(n, cmds) == net[n] # <<>> /\ Head(net[n]).cmd \in cmds

Set(n, s) == rt' = [rt EXCEPT ![n] = s]

(* connect, once it has a tunnel.                                          *)
Continued(s, c) ==
  CASE s.status[s.token] = "PENDING"    -> [s EXCEPT !.phase[c] = "queued"]
    [] s.status[s.token] = "TERMINATED" -> [s EXCEPT !.phase[c] = "failed"]
    [] OTHER                            -> ConnectVia(s, {c}, TRUE)

Requests(s, c) ==
  IF s.status[s.token] = "WORKING" THEN PortConnects(s, {c}, TRUE) ELSE <<>>

(* A tunnel object that is listed once there is a link, and asks the peer. *)
Asking(s, n) ==
  [s EXCEPT !.asking = FALSE, !.listed[n] = "own", !.replies = @ \cup {"tunnel"}]

NewTunnel(s, n) ==
  LET new == [s EXCEPT !.status["own"] = "PENDING", !.token = "own", !.asking = TRUE]
  IN  IF joined THEN Asking(new, n) ELSE new

(* connect, when the ports do not have a tunnel: tunnel_new makes one, or  *)
(* returns one that is listed already, whatever its status.                *)
TunnelConnect(n, c) ==
  LET s == [rt[n] EXCEPT !.retries[c] = 0]
      found == IF joined THEN Listed(s) ELSE {} IN
  /\ \/ s.token # "none" /\ Set(n, Continued(s, c)) /\ Send(n, Requests(s, c))
     \/ \E t \in found :
          LET u == [s EXCEPT !.token = t] IN
          s.token = "none" /\ Set(n, Continued(u, c)) /\ Send(n, Requests(u, c))
     \/ /\ s.token = "none" /\ found = {}
        /\ Set(n, Continued(NewTunnel(s, n), c))
        /\ Send(n, IF joined THEN <<TunnelNew(n)>> ELSE <<>>)
  /\ UNCHANGED <<joined, losses, overtakes>>

(* PortManager.connect.                                                    *)
Connect(n, c) == rt[n].phase[c] = "idle" /\ TunnelConnect(n, c)

(* PortMeta.retry: the registry tells where the port is.                   *)
LookedUp(n, c) == rt[n].phase[c] = "looking" /\ TunnelConnect(n, c)

(* _tunnel_link_request_finished.  The link may have been made by the      *)
(* peer: that alone does not call those who wait for it here.              *)
LinkUp(n) ==
  /\ rt[n].asking
  /\ joined' = TRUE
  /\ Set(n, Asking(rt[n], n))
  /\ Send(n, <<TunnelNew(n)>>)
  /\ UNCHANGED <<losses, overtakes>>

(* It raises an exception: the tunnel stays as it is.                      *)
LinkFails(n) ==
  /\ rt[n].asking /\ FaultLeft
  /\ Set(n, [rt[n] EXCEPT !.asking = FALSE])
  /\ losses' = losses + 1
  /\ UNCHANGED <<net, joined, overtakes>>

-----------------------------------------------------------------------------
(* tunnel_new_handler and TokenTunnel.tunnel_request_handles: the first    *)
(* request makes a tunnel ...                                              *)
TunnelRequested(n) ==
  /\ Received(n, {"TUNNEL_NEW"})
  /\ Listed(rt[n]) = {}
  /\ LET m == Head(net[n]) IN
     /\ Set(n, [rt[n] EXCEPT !.status["peers"] = "WORKING", !.id["peers"] = m.id,
                             !.listed[m.id] = "peers", !.token = "peers"])
     /\ Handle(n, <<Answer(m, "OK", m.id)>>)
  /\ UNCHANGED <<joined, losses, overtakes>>

Chosen_MUT(mine, theirs) == mine

(* The tunnel that has the lower identity takes the other's.               *)
Chosen(mine, theirs) == IF mine < theirs THEN theirs ELSE mine

(* ... one that crosses its own is answered with the higher identity, and  *)
(* taken for an answer ...                                                 *)
TunnelCrossed(n) ==
  /\ Received(n, {"TUNNEL_NEW"})
  /\ \E t \in Listed(rt[n]) :
       LET m == Head(net[n])
           i == Chosen(rt[n].id[t], m.id)
           s == WithId(rt[n], t, i) IN
       /\ rt[n].status[t] # "WORKING"
       /\ Set(n, Up(s))
       /\ Handle(n, <<Answer(m, "OK", i)>> \o UpRequests(s))
  /\ UNCHANGED <<joined, losses, overtakes>>

(* ... and one that comes while a tunnel works is dropped.                 *)
TunnelDropped(n) ==
  /\ Received(n, {"TUNNEL_NEW"})
  /\ \E t \in Listed(rt[n]) : rt[n].status[t] = "WORKING"
  /\ Handle(n, <<>>)
  /\ UNCHANGED <<rt, joined, losses, overtakes>>

(* The ports' tunnel is the one that the peer means; it need not work yet. *)
HasTunnel(s, i) == s.id[s.token] = i

(* TunnelConnection.connection_request: without a tunnel for the ports an  *)
(* exception, and no answer.                                               *)
ConnectionRequest(n) ==
  /\ Received(n, {"PORT_CONNECT"})
  /\ LET s == rt[n]
         m == Head(net[n]) IN
     \/ s.token = "none" /\ UNCHANGED rt /\ Handle(n, <<>>)
     \/ /\ s.token # "none" /\ ~HasTunnel(s, m.id)
        /\ UNCHANGED rt /\ Handle(n, <<Answer(m, "GONE", m.id)>>)
     \/ /\ s.token # "none" /\ HasTunnel(s, m.id)
        /\ Set(n, [s EXCEPT !.endpoint[m.key] = s.token])
        /\ Handle(n, <<Answer(m, "OK", m.id)>>)
  /\ UNCHANGED <<joined, losses, overtakes>>

(* reply_handler, with _setup_ack for the tunnel ...                       *)
SetupAck(n) ==
  /\ Received(n, {"OK"}) /\ Head(net[n]).key = "tunnel"
  /\ LET m == Head(net[n])
         s == WithId([rt[n] EXCEPT !.replies = @ \ {"tunnel"}], "own", m.id) IN
     \/ ~m.awaited /\ UNCHANGED rt /\ Handle(n, <<>>)
     \/ m.awaited /\ Set(n, Up(s)) /\ Handle(n, UpRequests(s))
  /\ UNCHANGED <<joined, losses, overtakes>>

(* ... and _connected_via_tunnel for a port.                               *)
Resent(s, c) == [s EXCEPT !.retries[c] = @ + 1]

ConnectedViaTunnel(n) ==
  /\ Received(n, {"OK", "GONE"}) /\ Head(net[n]).key \in Ports
  /\ LET m == Head(net[n])
         c == m.key
         s == [rt[n] EXCEPT !.replies = @ \ {c}] IN
     \/ ~m.awaited /\ UNCHANGED rt /\ Handle(n, <<>>)
     \/ /\ m.awaited /\ m.cmd = "OK" /\ s.token # "none"
        /\ Set(n, [s EXCEPT !.endpoint[c] = s.token, !.phase[c] = "done"])
        /\ Handle(n, <<>>)
     \/ /\ m.awaited /\ m.cmd = "OK" /\ s.token = "none"
        /\ Set(n, [s EXCEPT !.phase[c] = "lost"])
        /\ Handle(n, <<>>)
     \/ /\ m.awaited /\ m.cmd = "GONE" /\ s.retries[c] < 3
        /\ Set(n, ConnectVia(Resent(s, c), {c}, TRUE))
        /\ Handle(n, PortConnects(s, {c}, TRUE))
     \/ /\ m.awaited /\ m.cmd = "GONE" /\ s.retries[c] = 3
        /\ Set(n, [s EXCEPT !.phase[c] = "failed"])
        /\ Handle(n, <<>>)
  /\ UNCHANGED <<joined, losses, overtakes>>

-----------------------------------------------------------------------------
(* A message that n has asked about key with, or the answer to it.         *)
IsAbout(n, key, p, m) == m.key = key /\ (m.cmd \in {"OK", "GONE"}) = (p = n)

OnItsWay(n, key) ==
  \E p \in Nodes : \E k \in DOMAIN net[p] :
    net[p][k].awaited /\ IsAbout(n, key, p, net[p][k])

Late(n, key) ==
  [p \in Nodes |-> [k \in DOMAIN net[p] |->
     IF IsAbout(n, key, p, net[p][k]) THEN [net[p][k] EXCEPT !.awaited = FALSE]
     ELSE net[p][k]]]

(* _setup_ack and _connected_via_tunnel with a timeout.                    *)
TimedOut(s, key) ==
  LET u == [s EXCEPT !.replies = @ \ {key}] IN
  IF key = "tunnel" THEN Down(u)
  ELSE IF s.retries[key] < 2
    THEN [u EXCEPT !.phase[key] = "looking", !.retries[key] = @ + 1]
    ELSE [u EXCEPT !.phase[key] = "failed"]

(* CalvinLink.reply_timeout: the answer does not come any more, or late.   *)
ReplyTimeout(n) ==
  \E key \in {k \in rt[n].replies : ~OnItsWay(n, k)} :
    /\ Set(n, TimedOut(rt[n], key))
    /\ UNCHANGED <<net, joined, losses, overtakes>>

ReplyLate(n) ==
  \E key \in {k \in rt[n].replies : OnItsWay(n, k)} :
    /\ FaultLeft /\ losses' = losses + 1
    /\ Set(n, TimedOut(rt[n], key))
    /\ net' = Late(n, key)
    /\ UNCHANGED <<joined, overtakes>>

(* Messages use whatever link there is: with another one they overtake     *)
(* each other, or are lost with the old one.                               *)
Lose(n) ==
  /\ FaultLeft /\ losses' = losses + 1
  /\ \E k \in DOMAIN net[n] : net' = [net EXCEPT ![n] = RemoveAt(@, k)]
  /\ UNCHANGED <<rt, joined, overtakes>>

Overtake(n) ==
  /\ FaultLeft /\ overtakes' = overtakes + 1
  /\ \E k \in 1 .. Len(net[n]) - 1 :
       net' = [net EXCEPT ![n] = [@ EXCEPT ![k] = net[n][k + 1], ![k + 1] = net[n][k]]]
  /\ UNCHANGED <<rt, joined, losses>>

-----------------------------------------------------------------------------
Receive(n) ==
  \/ TunnelRequested(n)
  \/ TunnelCrossed(n)
  \/ TunnelDropped(n)
  \/ ConnectionRequest(n)
  \/ SetupAck(n)
  \/ ConnectedViaTunnel(n)

Fault(n) == LinkFails(n) \/ ReplyLate(n) \/ Lose(n) \/ Overtake(n)

Next ==
  \E n \in Nodes :
    \/ Receive(n)
    \/ LinkUp(n)
    \/ ReplyTimeout(n)
    \/ Fault(n)
    \/ \E c \in Ports : Connect(n, c) \/ LookedUp(n, c)

Spec == Init /\ [][Next]_vars

(* Messages arrive, links are made or not, the registry answers, and a     *)
(* request whose answer is lost is timed out.                              *)
Fairness ==
  \A n \in Nodes :
    /\ WF_vars(Receive(n))
    /\ WF_vars(LinkUp(n))
    /\ WF_vars(ReplyTimeout(n))
    /\ \A c \in Ports : WF_vars(LookedUp(n, c))

FairSpec == Spec /\ Fairness

-----------------------------------------------------------------------------
(* The runtimes' tables and the messages have their types.                 *)
TypeOK ==
  /\ rt \in [Nodes -> Runtime]
  /\ net \in [Nodes -> Seq(Message)]
  /\ joined \in BOOLEAN
  /\ losses \in 0 .. MaxFaults
  /\ overtakes \in 0 .. MaxFaults

(* A request for a tunnel was not answered, or something else went wrong.  *)
Disturbed == losses > 0 \/ \E n \in Nodes : rt[n].status["own"] = "TERMINATED"

(* What either end of a connection sends is for a tunnel that the other    *)
(* runtime has: in whatever order requests and answers have crossed, also  *)
(* when one of them has overtaken another, the two ends of a connection    *)
(* have tunnels of the same identity, as long as nothing is lost or late   *)
(* and no tunnel has timed out.                                            *)
Reaches(n, c) == rt[Peer(n)].listed[rt[n].id[rt[n].endpoint[c]]] # "none"

Routed ==
  ~Disturbed /\ overtakes <= 1 => \A c \in Ports :
    (\A n \in Nodes : rt[n].endpoint[c] # "none") => \A n \in Nodes : Reaches(n, c)

(* Whoever asks for a connection, on one side or on both at the same time, *)
(* has it on both sides in the end, and is told so.                        *)
EventuallyConnected ==
  \A n \in Nodes, c \in Ports :
    rt[n].phase[c] # "idle" ~>
      \/ rt[n].phase[c] = "done" /\ \A m \in Nodes : rt[m].endpoint[c] # "none"
      \/ Disturbed
=============================================================================
