------------------------- MODULE PortDisconnectProofs -------------------------
(***************************************************************************)
(* Theorems about PortDisconnect, for any number of ports and of peers.    *)
(***************************************************************************)
EXTENDS PortDisconnect, FiniteSetTheorems, SequenceTheorems, TLAPS

(* What the callback has been called with, if at most once.                *)
LEMMA Statuses ==
  /\ Len(<<>>) <= 1 /\ Len(<<TRUE>>) <= 1 /\ Len(<<FALSE>>) <= 1
  /\ <<TRUE>> # <<FALSE>> /\ <<>> # <<FALSE>> /\ <<>> # <<TRUE>>
  /\ TRUE \notin Range(<<>>) /\ TRUE \notin Range(<<FALSE>>)
<1>1. Len(<<>>) = 0 /\ Len(<<TRUE>>) = 1 /\ Len(<<FALSE>>) = 1
  OBVIOUS
<1>2. <<TRUE>>[1] = TRUE /\ <<FALSE>>[1] = FALSE
  OBVIOUS
<1>3. <<TRUE>> # <<FALSE>> /\ <<>> # <<FALSE>> /\ <<>> # <<TRUE>>
  <2>1. <<TRUE>> # <<FALSE>>
    <3> SUFFICES ASSUME <<TRUE>> = <<FALSE>> PROVE FALSE
      OBVIOUS
    <3>1. <<TRUE>>[1] = <<FALSE>>[1]
      OBVIOUS
    <3> QED
      BY <1>2, <3>1
  <2>2. <<>> # <<FALSE>> /\ <<>> # <<TRUE>>
    BY <1>1
  <2> QED
    BY <2>1, <2>2
<1>4. DOMAIN <<>> = {} /\ DOMAIN <<FALSE>> = {1}
  OBVIOUS
<1>5. TRUE \notin Range(<<>>) /\ TRUE \notin Range(<<FALSE>>)
  BY <1>2, <1>4 DEF Range
<1>6. Len(<<>>) <= 1 /\ Len(<<TRUE>>) <= 1 /\ Len(<<FALSE>>) <= 1
  BY <1>1
<1> QED
  BY <1>3, <1>5, <1>6

(* A port with a peer attached calls back at once only if all are local.   *)
LEMMA CallsAtOnceProperty ==
  ASSUME NEW p \in Ports
  PROVE  /\ CallsAtOnce(p) \in Nat
         /\ AllAttached /\ CallsAtOnce(p) # 0 =>
              \A c \in ConnectionsOf(p) : kind[c] = "local"
<1> DEFINE gone == {c \in ConnectionsOf(p) : kind[c] = "disconnected"}
           last == IF \A c \in ConnectionsOf(p) : kind[c] = "local" THEN 1 ELSE 0
<1>1. gone \subseteq Connections /\ ConnectionsOf(p) \subseteq Connections
  BY DEF ConnectionsOf
<1>2. Cardinality(gone) \in Nat
  BY <1>1, PortsAssumption, FS_Subset, FS_CardinalityType
<1>3. AllAttached => Cardinality(gone) = 0
  <2>1. AllAttached => gone = {}
    BY <1>1 DEF AllAttached
  <2> QED
    BY <2>1, FS_EmptySet
<1>4. CallsAtOnce(p) = Cardinality(gone) + last
  BY DEF CallsAtOnce
<1> HIDE DEF gone
<1> QED
  BY <1>2, <1>3, <1>4

(* The initial state is one of the right type.                             *)
LEMMA InitType == Init => TypeOK
<1> SUFFICES ASSUME Init PROVE TypeOK
  OBVIOUS
<1>1. kind \in [Connections -> Kinds]
  BY DEF Init
<1>2. endpoint \in [Connections -> BOOLEAN] /\ peer_endpoint \in [Connections -> BOOLEAN]
  BY DEF Init
<1>3. parallel \in [Ports -> SUBSET Connections]
  BY DEF Init, ConnectionsOf
<1>4. calls \in Seq(BOOLEAN)
  BY EmptySeq DEF Init
<1>5. /\ started \in BOOLEAN /\ port_ids \subseteq Ports /\ replies \subseteq Connections
      /\ sent_callback \in [Connections -> BOOLEAN]
      /\ net \in [Connections ->
                   {"none", "linking", "unlinked", "request", "OK", "NOT_FOUND"}]
  BY DEF Init
<1> QED
  BY <1>1, <1>2, <1>3, <1>4, <1>5 DEF TypeOK

(* What the handler of a reply or a timeout does to the calls.             *)
LEMMA DisconnectedPeerType ==
  ASSUME TypeOK, NEW c \in Connections, NEW status \in BOOLEAN,
         DisconnectedPeer(c, status)
  PROVE  /\ parallel' \in [Ports -> SUBSET Connections]
         /\ sent_callback' \in [Connections -> BOOLEAN]
         /\ port_ids' \subseteq Ports
         /\ calls' \in Seq(BOOLEAN)
<1>1. PortOf[c] \in Ports /\ calls \in Seq(BOOLEAN) /\ port_ids \subseteq Ports
  BY PortsAssumption DEF TypeOK
<1>2. Append(calls, TRUE) \in Seq(BOOLEAN) /\ Append(calls, FALSE) \in Seq(BOOLEAN)
      /\ Append(calls, status) \in Seq(BOOLEAN)
  BY <1>1
<1>3. \/ calls' = calls \/ calls' = Append(calls, TRUE) \/ calls' = Append(calls, FALSE)
      \/ calls' = Append(calls, status)
  BY DEF DisconnectedPeer, PortCallback
<1>4. port_ids' \subseteq Ports
  BY <1>1 DEF DisconnectedPeer, PortCallback
<1>5. parallel' \in [Ports -> SUBSET Connections]
  BY <1>1 DEF DisconnectedPeer, TypeOK
<1>6. sent_callback' \in [Connections -> BOOLEAN]
  BY DEF DisconnectedPeer, TypeOK
<1> QED
  BY <1>1, <1>2, <1>3, <1>4, <1>5, <1>6

(* Every step keeps the types.                                             *)
LEMMA NextType == TypeOK /\ [Next]_vars => TypeOK'
<1> SUFFICES ASSUME TypeOK, [Next]_vars PROVE TypeOK'
  OBVIOUS
<1>1. CASE Disconnect
  <2>1. calls' \in Seq(BOOLEAN)
    <3> DEFINE p == CHOOSE q \in Ports : TRUE
               n == CallsAtOnce(p)
    <3>1. n \in Nat
      <4>1. p \in Ports
        BY PeersAssumption
      <4> QED
        BY <4>1, CallsAtOnceProperty
    <3>2. [i \in 1..n |-> TRUE] \in Seq(BOOLEAN)
      <4> HIDE DEF n
      <4> QED
        BY <3>1, SeqDef
    <3>3. <<>> \in Seq(BOOLEAN) /\ <<TRUE>> \in Seq(BOOLEAN)
      OBVIOUS
    <3>4. calls' \in {<<>>, <<TRUE>>, [i \in 1..n |-> TRUE]}
      BY <1>1 DEF Disconnect
    <3> HIDE DEF n
    <3> QED
      BY <3>2, <3>3, <3>4
  <2>2. port_ids' \subseteq Ports
    BY <1>1 DEF Disconnect, TypeOK
  <2> QED
    BY <1>1, <2>1, <2>2 DEF Disconnect, TypeOK
<1>2. ASSUME NEW c \in Connections, Step(c) PROVE TypeOK'
  <2>1. CASE SendRequest(c)
    BY <2>1 DEF SendRequest, TypeOK
  <2>2. CASE LinkFails(c)
    BY <2>2 DEF LinkFails, TypeOK
  <2>3. CASE DisconnectionRequest(c)
    BY <2>3 DEF DisconnectionRequest, TypeOK
  <2>4. CASE LoseMessage(c)
    BY <2>4 DEF LoseMessage, TypeOK
  <2>5. CASE ReplyHandler(c)
    <3>1. CASE DisconnectedPeer(c, net[c] = "OK")
      BY <2>5, <3>1, DisconnectedPeerType DEF ReplyHandler, TypeOK
    <3>2. CASE UNCHANGED <<parallel, sent_callback, port_ids, calls>>
      BY <2>5, <3>2 DEF ReplyHandler, TypeOK
    <3> QED
      BY <2>5, <3>1, <3>2 DEF ReplyHandler
  <2>6. CASE ReplyTimeout(c)
    BY <2>6, DisconnectedPeerType DEF ReplyTimeout, TypeOK
  <2> QED
    BY <1>2, <2>1, <2>2, <2>3, <2>4, <2>5, <2>6 DEF Step
<1>3. CASE UNCHANGED vars
  BY <1>3 DEF vars, TypeOK
<1> QED
  BY <1>1, <1>2, <1>3 DEF Next

(* Type correctness, whatever the order of replies and timeouts.           *)
THEOREM TypeCorrect == Spec => []TypeOK
BY InitType, NextType, PTL DEF Spec

-----------------------------------------------------------------------------
(* The invariant of the collection holds initially.                        *)
LEMMA InitInv == Init => CollectionInv
BY PeersAssumption, PortsAssumption DEF Init, CollectionInv, ConnectionsOf

(* The call of disconnect keeps it: a port that is done has local peers.   *)
LEMMA DisconnectInv ==
  ASSUME WholeActor, TypeOK, CollectionInv, Disconnect
  PROVE  CollectionInv'
<1>1. /\ ~started /\ port_ids = Ports /\ replies = {}
      /\ \A c \in Connections : net[c] = "none" /\ c \in parallel[PortOf[c]]
  BY DEF Disconnect, CollectionInv
<1>2. /\ started' /\ replies' = {} /\ kind' = kind
      /\ \A c \in Connections : ~endpoint'[c]
      /\ port_ids' = {p \in port_ids : CallsAtOnce(p) = 0}
      /\ calls' = IF port_ids' = {} THEN <<TRUE>> ELSE <<>>
  BY <1>1 DEF Disconnect
<1>3. ASSUME NEW c \in Connections
      PROVE  /\ net'[c] = IF kind[c] = "tunnel" THEN "linking" ELSE "none"
             /\ peer_endpoint'[c] = (peer_endpoint[c] /\ kind[c] # "local")
             /\ c \in parallel'[PortOf[c]] <=> kind[c] # "local"
  <2>1. PortOf[c] \in Ports /\ c \in parallel[PortOf[c]]
    BY <1>1, PortsAssumption
  <2> QED
    BY <2>1 DEF Disconnect
<1>4. ASSUME NEW c \in Connections, AllAttached, PortOf[c] \notin port_ids'
      PROVE  kind[c] = "local"
  <2>1. PortOf[c] \in Ports /\ c \in ConnectionsOf(PortOf[c])
    BY PortsAssumption DEF ConnectionsOf
  <2>2. CallsAtOnce(PortOf[c]) # 0
    BY <1>1, <1>2, <1>4, <2>1
  <2> QED
    BY <1>4, <2>1, <2>2, CallsAtOnceProperty
<1>5. AllAttached' <=> AllAttached
  BY <1>2 DEF AllAttached
<1> QED
  BY <1>2, <1>3, <1>4, <1>5 DEF CollectionInv

(* Collecting an answer: a success of the port's last peer, or a failure.  *)
LEMMA DisconnectedPeerInv ==
  ASSUME WholeActor, TypeOK, CollectionInv, started,
         NEW c \in Connections, NEW status \in BOOLEAN,
         c \in parallel[PortOf[c]], status => ~peer_endpoint[c],
         DisconnectedPeer(c, status),
         UNCHANGED <<kind, started, endpoint, peer_endpoint>>,
         \A d \in Connections : net'[d] # "none" => net'[d] = net[d],
         net[c] # "linking", replies' = replies \ {c}
  PROVE  CollectionInv'
<1> DEFINE p == PortOf[c]
<1>1. p \in Ports /\ \A d \in Connections : PortOf[d] \in Ports
  BY PortsAssumption
<1>2. \A d \in Connections : d \in parallel'[PortOf[d]] <=> d # c /\ d \in parallel[PortOf[d]]
  BY <1>1 DEF DisconnectedPeer, TypeOK
<1>3. AllAttached' <=> AllAttached
  BY DEF AllAttached
<1>4. \/ UNCHANGED <<port_ids, calls>>
      \/ /\ ~status /\ port_ids # {} /\ port_ids' = {} /\ calls' = Append(calls, FALSE)
      \/ /\ ~status /\ port_ids = {} /\ port_ids' = {} /\ calls' = calls
      \/ /\ status /\ parallel'[p] = {} /\ port_ids' = port_ids \ {p}
         /\ calls' = IF p \in port_ids /\ port_ids' = {} THEN Append(calls, TRUE) ELSE calls
  BY DEF DisconnectedPeer, PortCallback
<1>5. \/ port_ids # {} /\ calls = <<>>
      \/ port_ids = {} /\ calls \in {<<TRUE>>, <<FALSE>>}
  BY DEF CollectionInv
<1>6. Append(<<>>, TRUE) = <<TRUE>> /\ Append(<<>>, FALSE) = <<FALSE>>
  OBVIOUS
<1>11. <<TRUE>> # <<FALSE>> /\ <<>> # <<FALSE>> /\ <<>> # <<TRUE>>
  BY Statuses
<1>7. \/ port_ids' # {} /\ calls' = <<>>
      \/ port_ids' = {} /\ calls' \in {<<TRUE>>, <<FALSE>>}
  BY <1>4, <1>5, <1>6
<1>8. ASSUME NEW d \in Connections
      PROVE  /\ ~endpoint'[d]
             /\ net'[d] = "OK" => ~peer_endpoint'[d]
             /\ net'[d] = "linking" \/ d \in replies' => d \in parallel'[PortOf[d]]
  BY <1>2 DEF CollectionInv
(* A failed peer leaves the list attached, but then the failure was called *)
(* back: the port was not done, as its peer was still in the list.         *)
<1>9. ASSUME AllAttached, calls' # <<FALSE>>
      PROVE  calls # <<FALSE>> /\ p \in port_ids /\ status
  <2>1. calls # <<FALSE>>
    <3>1. <<>> # <<FALSE>> /\ <<TRUE>> # <<FALSE>>
      BY <1>11
    <3> SUFFICES ASSUME calls = <<FALSE>> PROVE FALSE
      OBVIOUS
    <3>2. port_ids = {}
      BY <1>5, <3>1
    <3>3. calls' = calls
      BY <1>4, <3>2
    <3> QED
      BY <1>9, <3>3
  <2>2. p \in port_ids
    BY <1>9, <2>1 DEF CollectionInv
  <2>3. status
    <3> SUFFICES ASSUME ~status PROVE FALSE
      OBVIOUS
    <3>1. calls' = Append(calls, FALSE)
      BY <2>2 DEF DisconnectedPeer, PortCallback
    <3> QED
      BY <1>5, <1>6, <1>9, <2>2, <3>1
  <2> QED
    BY <2>1, <2>2, <2>3
<1>10. ASSUME NEW d \in Connections, AllAttached, calls' # <<FALSE>>
       PROVE  /\ d \notin parallel'[PortOf[d]] => ~peer_endpoint'[d]
              /\ PortOf[d] \notin port_ids' => d \notin parallel'[PortOf[d]]
  <2>1. calls # <<FALSE>> /\ p \in port_ids /\ status
    BY <1>9, <1>10
  <2>2. /\ d \notin parallel[PortOf[d]] => ~peer_endpoint[d]
        /\ PortOf[d] \notin port_ids => d \notin parallel[PortOf[d]]
    BY <1>10, <2>1 DEF CollectionInv
  <2>3. d \notin parallel'[PortOf[d]] => ~peer_endpoint'[d]
    BY <1>2, <2>1, <2>2
  <2>4. PortOf[d] \notin port_ids' => PortOf[d] \notin port_ids \/ parallel'[PortOf[d]] = {}
    BY <1>4, <2>1
  <2> QED
    BY <1>2, <2>2, <2>3, <2>4
<1> QED
  BY <1>3, <1>7, <1>8, <1>10 DEF CollectionInv

(* Every step keeps it.                                                    *)
LEMMA NextInv ==
  ASSUME WholeActor, TypeOK, CollectionInv, [Next]_vars
  PROVE  CollectionInv'
<1>1. CASE Disconnect
  BY <1>1, DisconnectInv
<1>2. ASSUME NEW c \in Connections, Step(c) PROVE CollectionInv'
  <2>1. CASE SendRequest(c)
    BY <2>1 DEF SendRequest, TypeOK, CollectionInv, AllAttached
  <2>2. CASE LinkFails(c)
    BY <2>2 DEF LinkFails, TypeOK, CollectionInv, AllAttached
  <2>3. CASE DisconnectionRequest(c)
    BY <2>3 DEF DisconnectionRequest, TypeOK, CollectionInv, AllAttached
  <2>4. CASE LoseMessage(c)
    BY <2>4 DEF LoseMessage, TypeOK, CollectionInv, AllAttached
  <2>5. CASE ReplyHandler(c)
    <3>1. CASE c \in replies /\ DisconnectedPeer(c, net[c] = "OK")
      <4>1. started /\ c \in parallel[PortOf[c]]
        BY <3>1 DEF CollectionInv
      <4>2. net[c] = "OK" => ~peer_endpoint[c]
        BY DEF CollectionInv
      <4>3. net' = [net EXCEPT ![c] = "none"] /\ replies' = replies \ {c}
            /\ UNCHANGED <<kind, started, endpoint, peer_endpoint>>
            /\ net[c] # "linking"
        BY <2>5 DEF ReplyHandler
      <4> QED
        BY <3>1, <4>1, <4>2, <4>3, DisconnectedPeerInv DEF TypeOK
    <3>2. CASE c \notin replies /\ UNCHANGED <<parallel, sent_callback, port_ids, calls>>
      BY <2>5, <3>2 DEF ReplyHandler, TypeOK, CollectionInv, AllAttached
    <3> QED
      BY <2>5, <3>1, <3>2 DEF ReplyHandler
  <2>6. CASE ReplyTimeout(c)
    <3>1. started /\ c \in parallel[PortOf[c]]
      BY <2>6 DEF ReplyTimeout, CollectionInv
    <3>2. net[c] # "linking"
      BY <2>6 DEF ReplyTimeout, CollectionInv
    <3> QED
      BY <2>6, <3>1, <3>2, DisconnectedPeerInv DEF ReplyTimeout, TypeOK
  <2> QED
    BY <1>2, <2>1, <2>2, <2>3, <2>4, <2>5, <2>6 DEF Step
<1>3. CASE UNCHANGED vars
  BY <1>3 DEF vars, CollectionInv, AllAttached
<1> QED
  BY <1>1, <1>2, <1>3 DEF Next

(* It holds in every state, for the caller that disconnects an actor.      *)
LEMMA InvariantHolds ==
  ASSUME WholeActor
  PROVE  Spec => []CollectionInv
<1>1. Init => TypeOK /\ CollectionInv
  BY InitType, InitInv
<1>2. TypeOK /\ CollectionInv /\ [Next]_vars => (TypeOK /\ CollectionInv)'
  BY NextType, NextInv
<1> QED
  BY <1>1, <1>2, PTL DEF Spec

(* The caller that disconnects an actor is called back at most once.       *)
THEOREM ActorCalledOnce ==
  ASSUME WholeActor
  PROVE  Spec => []CalledOnce
<1>1. CollectionInv => CalledOnce
  <2>1. CollectionInv => calls \in {<<>>, <<TRUE>>, <<FALSE>>}
    BY DEF CollectionInv
  <2> QED
    BY <2>1, Statuses DEF CalledOnce
<1> QED
  BY <1>1, InvariantHolds, PTL

(* It is called back with a success only when no port, and no peer, is     *)
(* attached, if no peer was disconnected before.                           *)
THEOREM ActorSuccessIsDisconnected ==
  ASSUME WholeActor
  PROVE  Spec => []SuccessIsDisconnectedIfAttached
<1>1. CollectionInv => SuccessIsDisconnectedIfAttached
  <2> SUFFICES ASSUME CollectionInv, AllAttached, TRUE \in Range(calls)
               PROVE  \A c \in Connections : ~endpoint[c] /\ ~peer_endpoint[c]
    BY DEF SuccessIsDisconnectedIfAttached, SuccessIsDisconnected
  <2>1. calls = <<TRUE>> /\ port_ids = {}
    <3>1. calls # <<>> /\ calls # <<FALSE>>
      BY Statuses
    <3> QED
      BY <3>1 DEF CollectionInv
  <2>2. calls # <<FALSE>>
    BY <2>1, Statuses
  <2>3. started
    BY <2>1, PeersAssumption DEF CollectionInv
  <2> QED
    BY <2>1, <2>2, <2>3 DEF CollectionInv
<1> QED
  BY <1>1, InvariantHolds, PTL
=============================================================================
