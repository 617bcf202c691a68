---------------------------- MODULE PortDisconnect ----------------------------
(***************************************************************************)
(* Disconnecting a port, or all ports of an actor, before it migrates or   *)
(* is destroyed.  Every port may have several peers (fan-out, or replicas) *)
(* and each of them is disconnected in its own way: a local one at once, a *)
(* remote one by a request over the network, and one that has disconnected *)
(* already not at all.  The answers are collected, first those of a port's *)
(* peers and then those of an actor's ports, into one call of the caller's *)
(* callback: on it the actor is serialised and moved.                      *)
(*                                                                         *)
(* Abstracted: termination and exhaustion (remaining tokens), the storage  *)
(* updates, and where the peers are.  Assumed of the caller: it disconnects *)
(* an actor once, and each of the ports has a peer (without one the loop   *)
(* of PortManager.disconnect ends in a NameError).                         *)
(* The definitions named _MUT are mistakes of the definition that follows  *)
(* them: the runs show that the properties tell the two apart.             *)
(***************************************************************************)
EXTENDS Integers, Sequences, FiniteSets, Functions

CONSTANTS
  Ports,        \* the local ports to disconnect
  Connections,  \* one for each port and peer of it
  PortOf,       \* the local port of a connection
  WholeActor    \* disconnect an actor's ports, or else just one port

ASSUME PortsAssumption == IsFiniteSet(Connections) /\ PortOf \in [Connections -> Ports]
ASSUME PeersAssumption ==
  Ports # {} /\ \A p \in Ports : \E c \in Connections : PortOf[c] = p
ASSUME CallerAssumption ==
  WholeActor \in BOOLEAN /\ (WholeActor \/ \E p \in Ports : Ports = {p})

VARIABLES
  kind,           \* the class of each connection: where its peer is
  started,        \* disconnect was called
  endpoint,       \* the local port has an endpoint for the connection
  peer_endpoint,  \* the peer has its endpoint
  parallel,       \* _parallel_connections: the list a port's connections share
  sent_callback,  \* the flag of the same name of each connection
  port_ids,       \* ports not done, as _disconnecting_actor_cb keeps them
  replies,        \* connections registered in the link's replies
  net,            \* the connection's message on its way, if any
  calls           \* history: the statuses the callback was called with

vars == <<kind, started, endpoint, peer_endpoint, parallel, sent_callback,
          port_ids, replies, net, calls>>

(* LocalConnection, TunnelConnection, and Disconnected: a peer that only    *)
(* the queue of the port still knows, as it has disconnected already.      *)
Kinds == {"local", "tunnel", "disconnected"}

ConnectionsOf(p) == {c \in Connections : PortOf[c] = p}

Init ==
  /\ kind \in [Connections -> Kinds]
  /\ started = FALSE
  /\ endpoint = [c \in Connections |-> kind[c] # "disconnected"]
  /\ peer_endpoint = endpoint
  /\ parallel = [p \in Ports |-> ConnectionsOf(p)]
  /\ sent_callback = [c \in Connections |-> FALSE]
  /\ port_ids = Ports
  /\ replies = {}
  /\ net = [c \in Connections |-> "none"]
  /\ calls = <<>>

-----------------------------------------------------------------------------
(* A peer of port p leaves the list, and the port's callback is called with *)
(* the status: for a whole actor it is _disconnecting_actor_cb.            *)

PortCallback_each_failure_MUT(p, status) ==
  \/ /\ WholeActor /\ ~status
     /\ port_ids' = port_ids \ {p}
     /\ calls' = Append(calls, FALSE)
  \/ /\ WholeActor /\ status
     /\ port_ids' = port_ids \ {p}
     /\ calls' = IF p \in port_ids /\ port_ids' = {} THEN Append(calls, TRUE) ELSE calls
  \/ /\ ~WholeActor
     /\ calls' = Append(calls, status)
     /\ UNCHANGED port_ids

PortCallback(p, status) ==
  \/ /\ WholeActor /\ ~status /\ port_ids # {}
     /\ port_ids' = {}
     /\ calls' = Append(calls, FALSE)
  \/ /\ WholeActor /\ (status \/ port_ids = {})
     /\ port_ids' = port_ids \ {p}
     /\ calls' = IF p \in port_ids /\ port_ids' = {} THEN Append(calls, TRUE) ELSE calls
  \/ /\ ~WholeActor
     /\ calls' = Append(calls, status)
     /\ UNCHANGED port_ids

(* TunnelConnection._disconnected_peer: the first failure is reported at   *)
(* once, and a success by the last of the port's connections.              *)
DisconnectedPeer_first_MUT(c, status) ==
  LET p == PortOf[c] IN
  /\ parallel' = [parallel EXCEPT ![p] = @ \ {c}]
  /\ PortCallback(p, status)
  /\ UNCHANGED sent_callback

DisconnectedPeer_flag_first_MUT(c, status) ==
  LET p == PortOf[c] IN
  /\ parallel' = [parallel EXCEPT ![p] = @ \ {c}]
  /\ sent_callback' = [d \in Connections |->
                         sent_callback[d] \/ (~status /\ d \in parallel[p])]
  /\ \/ ~sent_callback'[c] /\ parallel'[p] = {} /\ PortCallback(p, status)
     \/ (sent_callback'[c] \/ parallel'[p] # {}) /\ UNCHANGED <<port_ids, calls>>

DisconnectedPeer(c, status) ==
  LET p == PortOf[c] IN
  /\ parallel' = [parallel EXCEPT ![p] = @ \ {c}]
  /\ \/ /\ ~status
        /\ sent_callback' = [d \in Connections |-> sent_callback[d] \/ d \in parallel'[p]]
        /\ PortCallback(p, FALSE)
     \/ /\ status /\ ~sent_callback[c] /\ parallel'[p] = {}
        /\ PortCallback(p, TRUE)
        /\ UNCHANGED sent_callback
     \/ /\ status /\ (sent_callback[c] \/ parallel'[p] # {})
        /\ UNCHANGED <<sent_callback, port_ids, calls>>

(* The call of disconnect, all of it synchronous: local connections are    *)
(* done, with the callback after a port's last; disconnected ones call it  *)
(* each and stay in the list; tunnels ask their peers.                     *)
CallsAtOnce(p) ==
  LET gone == {c \in ConnectionsOf(p) : kind[c] = "disconnected"}
  IN  Cardinality(gone)
      + IF \A c \in ConnectionsOf(p) : kind[c] = "local" THEN 1 ELSE 0

Disconnect ==
  /\ ~started
  /\ started' = TRUE
  /\ endpoint' = [c \in Connections |-> FALSE]
  /\ peer_endpoint' = [c \in Connections |-> peer_endpoint[c] /\ kind[c] # "local"]
  /\ parallel' = [p \in Ports |-> {c \in parallel[p] : kind[c] # "local"}]
  /\ net' = [c \in Connections |-> IF kind[c] = "tunnel" THEN "linking" ELSE "none"]
  /\ \/ /\ WholeActor
        /\ port_ids' = {p \in port_ids : CallsAtOnce(p) = 0}
        /\ calls' = IF port_ids' = {} THEN <<TRUE>> ELSE <<>>
     \/ /\ ~WholeActor
        /\ calls' = [i \in 1 .. CallsAtOnce(CHOOSE p \in Ports : TRUE) |-> TRUE]
        /\ UNCHANGED port_ids
  /\ UNCHANGED <<kind, sent_callback, replies>>

-----------------------------------------------------------------------------
(* The request to a remote peer.                                           *)

(* There is a link to the peer's runtime: its replies get the callback and *)
(* a timeout.                                                              *)
SendRequest(c) ==
  /\ net[c] = "linking"
  /\ net' = [net EXCEPT ![c] = "request"]
  /\ replies' = replies \cup {c}
  /\ UNCHANGED <<kind, started, endpoint, peer_endpoint, parallel, sent_callback,
                 port_ids, calls>>

(* There is none.  send_message calls the callback with the keyword status, *)
(* which _disconnected_peer does not have: the exception is logged.        *)
LinkFails(c) ==
  /\ net[c] = "linking"
  /\ net' = [net EXCEPT ![c] = "unlinked"]
  /\ UNCHANGED <<kind, started, endpoint, peer_endpoint, parallel, sent_callback,
                 port_ids, replies, calls>>

(* The peer's runtime: it detaches, or does not have the port any more.    *)
DisconnectionRequest(c) ==
  /\ net[c] = "request"
  /\ \E reply \in {"OK", "NOT_FOUND"} : net' = [net EXCEPT ![c] = reply]
  /\ peer_endpoint' = [peer_endpoint EXCEPT ![c] = FALSE]
  /\ UNCHANGED <<kind, started, endpoint, parallel, sent_callback, port_ids,
                 replies, calls>>

(* The transport goes away and takes a message with it.                    *)
LoseMessage(c) ==
  /\ net[c] \in {"request", "OK", "NOT_FOUND"}
  /\ net' = [net EXCEPT ![c] = "none"]
  /\ UNCHANGED <<kind, started, endpoint, peer_endpoint, parallel, sent_callback,
                 port_ids, replies, calls>>

(* CalvinLink.reply_handler: the callback, unless it was timed out.        *)
ReplyHandler(c) ==
  /\ net[c] \in {"OK", "NOT_FOUND"}
  /\ net' = [net EXCEPT ![c] = "none"]
  /\ replies' = replies \ {c}
  /\ \/ c \in replies /\ DisconnectedPeer(c, net[c] = "OK")
     \/ c \notin replies /\ UNCHANGED <<parallel, sent_callback, port_ids, calls>>
  /\ UNCHANGED <<kind, started, endpoint, peer_endpoint>>

(* CalvinLink.reply_timeout, at any time.                                  *)
ReplyTimeout(c) ==
  /\ c \in replies
  /\ replies' = replies \ {c}
  /\ DisconnectedPeer(c, FALSE)
  /\ UNCHANGED <<kind, started, endpoint, peer_endpoint, net>>

-----------------------------------------------------------------------------
Step(c) ==
  \/ SendRequest(c)
  \/ LinkFails(c)
  \/ DisconnectionRequest(c)
  \/ LoseMessage(c)
  \/ ReplyHandler(c)
  \/ ReplyTimeout(c)

Next == Disconnect \/ \E c \in Connections : Step(c)

Spec == Init /\ [][Next]_vars

(* A link is established or fails, and a registered reply is timed out if  *)
(* it does not come: the event loop runs both.                             *)
Fairness ==
  \A c \in Connections : /\ WF_vars(SendRequest(c) \/ LinkFails(c))
                         /\ WF_vars(ReplyTimeout(c))

FairSpec == Spec /\ Fairness

-----------------------------------------------------------------------------
(* PROPERTIES *)

(* Every variable holds a value of its kind.                               *)
TypeOK ==
  /\ kind \in [Connections -> Kinds]
  /\ started \in BOOLEAN
  /\ endpoint \in [Connections -> BOOLEAN]
  /\ peer_endpoint \in [Connections -> BOOLEAN]
  /\ parallel \in [Ports -> SUBSET Connections]
  /\ sent_callback \in [Connections -> BOOLEAN]
  /\ port_ids \subseteq Ports
  /\ replies \subseteq Connections
  /\ net \in [Connections -> {"none", "linking", "unlinked", "request", "OK", "NOT_FOUND"}]
  /\ calls \in Seq(BOOLEAN)

(* "callback will be called once when all ports are diconnected or first   *)
(* failed": once, in whatever order replies, failures and timeouts come.   *)
CalledOnce == Len(calls) <= 1

(* ... when all are disconnected: a success tells the caller that neither  *)
(* the ports nor their peers are attached, and it serialises the actor.    *)
SuccessIsDisconnected ==
  TRUE \in Range(calls) => \A c \in Connections : ~endpoint[c] /\ ~peer_endpoint[c]

AllAttached == \A c \in Connections : kind[c] # "disconnected"

(* It is so as long as no peer was disconnected before.                    *)
SuccessIsDisconnectedIfAttached ==
  AllAttached => SuccessIsDisconnected

(* ... it will be called: the caller can go on, unless the link to a peer  *)
(* could not be established.                                               *)
EventuallyCalledIfLinked ==
  started ~> calls # <<>> \/ \E c \in Connections : net[c] = "unlinked"

-----------------------------------------------------------------------------
(* The inductive invariant behind CalledOnce and SuccessIsDisconnected.    *)

(* A port is done only when all its peers are, unless one of them failed,  *)
(* which ended the whole; an awaited peer is still in its port's list.     *)
CollectionInv ==
  /\ ~started => /\ port_ids = Ports /\ replies = {}
                 /\ \A c \in Connections : net[c] = "none"
  /\ \/ port_ids # {} /\ calls = <<>>
     \/ port_ids = {} /\ calls \in {<<TRUE>>, <<FALSE>>}
  /\ \A c \in Connections :
       /\ started => ~endpoint[c]
       /\ ~started => c \in parallel[PortOf[c]]
       /\ net[c] = "OK" => ~peer_endpoint[c]
       /\ net[c] = "linking" \/ c \in replies => c \in parallel[PortOf[c]]
       /\ net[c] = "linking" => c \notin replies
       /\ started /\ AllAttached /\ calls # <<FALSE>> =>
            /\ c \notin parallel[PortOf[c]] => ~peer_endpoint[c]
            /\ PortOf[c] \notin port_ids => c \notin parallel[PortOf[c]]
=============================================================================
