---------------------------- MODULE ActorMigration ----------------------------
(***************************************************************************)
(* An actor is moved to the first of several runtimes that takes it:       *)
(* robust_migrate, migrate, new and connect of the actor manager (runtime/ *)
(* north/actormanager.py), disconnect and disconnection_request of the     *)
(* port manager (portmanager.py), ACTOR_NEW (calvin_proto.py).             *)
(*                                                                         *)
(* Peers are ports of other actors, which stay where they are; each has an *)
(* endpoint for the actor, found by the identity of the actor's port.  The *)
(* answer to a request is given in the step that handles it, and comes     *)
(* when it comes.  A connect (tunnels, look-ups and retries: TunnelConnect) *)
(* succeeds or fails.                                                      *)
(***************************************************************************)
EXTENDS Naturals, Sequences, FiniteSets, SequencesExt

CONSTANTS Nodes, Peers,
          MaxTasks,   \* bound: calls of robust_migrate
          MaxTargets, \* bound: runtimes suggested in a call
          MaxEvents   \* bound: calls, and requests refused, late or failed

ASSUME BoundAssumption ==
  MaxTasks \in Nat /\ MaxTargets \in Nat /\ MaxEvents \in Nat

ASSUME PeersAssumption == IsFiniteSet(Peers) /\ Peers # {}

ASSUME NodesAssumption == Nodes # {}

Tasks == 1 .. MaxTasks

VARIABLES copy,    \* the actor in each runtime's actor manager
          at,      \* the runtime that each peer's endpoint leads to
          task,    \* the calls of robust_migrate
          joining, \* the ports that an ACTOR_NEW has yet to connect
          msgs,    \* requests and answers on their way
          faults   \* counts what has gone wrong

vars == <<copy, at, task, joining, msgs, faults>>

(* "connecting" until _migration_connected is set, "moving" once           *)
(* _migrating_to is; by: the task whose ACTOR_NEW has made it; linked: the *)
(* peers that its own ports have endpoints for.                            *)
Copy == [ state : {"none", "connecting", "ready", "moving"},
          by : Tasks \cup {0}, linked : SUBSET Peers ]

NoCopy == [state |-> "none", by |-> 0, linked |-> {}]

(* left: node_ids; kept: the state is handed on with the status; gone: the *)
(* task has destroyed the actor at its home; waits: port_ids, the          *)
(* disconnects not answered yet.                                           *)
Task == [ phase : {"idle", "disconnecting", "asking", "moved", "returned", "failed"},
          home : Nodes, to : Nodes, left : Seq(Nodes),
          kept : BOOLEAN, gone : BOOLEAN, waits : SUBSET Peers ]

Disconnect(k, p)    == [type |-> "PORT_DISCONNECT", task |-> k, peer |-> p]
Disconnected(k, p)  == [type |-> "disconnected", task |-> k, peer |-> p]
ActorNew(k, n)      == [type |-> "ACTOR_NEW", task |-> k, node |-> n]
Answer(k, n, ok)    == [type |-> "answer", task |-> k, node |-> n, ok |-> ok]
Connect(k, n, p)    == [type |-> "PORT_CONNECT", task |-> k, node |-> n, peer |-> p]
Connected(k, n, p)  == [type |-> "connected", task |-> k, node |-> n, peer |-> p]

Message ==
  {Disconnect(k, p) : k \in Tasks, p \in Peers}
    \cup {Disconnected(k, p) : k \in Tasks, p \in Peers}
    \cup {ActorNew(k, n) : k \in Tasks, n \in Nodes}
    \cup {Answer(k, n, ok) : k \in Tasks, n \in Nodes, ok \in BOOLEAN}
    \cup {Connect(k, n, p) : k \in Tasks, n \in Nodes, p \in Peers}
    \cup {Connected(k, n, p) : k \in Tasks, n \in Nodes, p \in Peers}

(* A runtime that does not take the actor, an answer that comes too late   *)
(* for the one that asks, a disconnect and a connect that fail.            *)
Faults == {"refused", "late", "unlinked", "unconnected"}

Total == faults["refused"] + faults["late"] + faults["unlinked"] + faults["unconnected"]

Started == {k \in Tasks : task[k].phase # "idle"}

EventLeft == Total + Cardinality(Started) < MaxEvents

(* The actor runs at some runtime, connected with its peers.               *)
Origin == CHOOSE n \in Nodes : TRUE

Init ==
  /\ copy = [n \in Nodes |->
       IF n = Origin THEN [NoCopy EXCEPT !.state = "ready", !.linked = Peers] ELSE NoCopy]
  /\ at = [p \in Peers |-> Origin]
  /\ task = [k \in Tasks |-> [ phase |-> "idle", home |-> Origin, to |-> Origin, left |-> <<>>,
                               kept |-> FALSE, gone |-> FALSE, waits |-> {} ]]
  /\ joining = [k \in Tasks |-> [n \in Nodes |-> {}]]
  /\ msgs = {}
  /\ faults = [f \in Faults |-> 0]

-----------------------------------------------------------------------------
Fault(f) ==
  /\ EventLeft
  /\ faults' = [faults EXCEPT ![f] = @ + 1]

(* destroy, and actor_new at the chosen runtime, with the callback that    *)
(* hands the state on if it fails.                                         *)
DestroyAndAsk(k, t, ms) ==
  /\ copy' = [copy EXCEPT ![t.home] = NoCopy]
  /\ task' = [task EXCEPT ![k] =
       [t EXCEPT !.phase = "asking", !.kept = TRUE, !.gone = TRUE, !.waits = {}]]
  /\ msgs' = ms \cup {ActorNew(k, t.to)}

(* Mutant: an actor that is on its way already is moved once more.         *)
CanMigrate_MUT(n) == copy[n].state \in {"ready", "moving"}

(* migrate needs the actor here, not on its way and connected again.       *)
CanMigrate(n) == copy[n].state = "ready"

(* migrate to the first of the runtimes left: disconnect all the ports;    *)
(* those without an endpoint are disconnected already.                     *)
Migrate(k, t, ms) ==
  LET next == [t EXCEPT !.to = Head(t.left), !.left = Tail(t.left)]
      linked == copy[t.home].linked
  IN  \/ /\ linked # {}
         /\ copy' = [copy EXCEPT ![t.home] = [@ EXCEPT !.state = "moving", !.linked = {}]]
         /\ task' = [task EXCEPT ![k] = [next EXCEPT !.phase = "disconnecting", !.waits = linked]]
         /\ msgs' = ms \cup {Disconnect(k, p) : p \in linked}
      \/ linked = {} /\ DestroyAndAsk(k, next, ms)

(* robust_migrate with a state: it goes to the next runtime, with a        *)
(* callback that does not hand it on again, or to the caller.              *)
HandedOn(t) ==
  IF t.left = <<>> THEN [t EXCEPT !.phase = "returned"]
  ELSE [t EXCEPT !.phase = "asking", !.to = Head(t.left), !.left = Tail(t.left), !.kept = FALSE]

NextRequest(k, t) == IF t.left = <<>> THEN {} ELSE {ActorNew(k, Head(t.left))}

(* robust_migrate after a failure, or the first time.  Without the state   *)
(* it is migrate, which fails for all that are left if it fails for one.   *)
TryNext(k, t, ms) ==
  \/ /\ t.kept
     /\ task' = [task EXCEPT ![k] = HandedOn(t)]
     /\ msgs' = ms \cup NextRequest(k, t)
     /\ UNCHANGED copy
  \/ /\ ~t.kept /\ t.left # <<>> /\ CanMigrate(t.home)
     /\ Migrate(k, t, ms)
  \/ /\ ~t.kept /\ (t.left = <<>> \/ ~CanMigrate(t.home))
     /\ task' = [task EXCEPT ![k] = [t EXCEPT !.phase = "failed", !.left = <<>>]]
     /\ msgs' = ms
     /\ UNCHANGED copy

(* Runtimes without repetition, n left out.                                *)
TargetLists(n) ==
  {l \in SeqOf(Nodes \ {n}, MaxTargets) : l # <<>> /\ IsInjective(l)}

(* robust_migrate, as deployments, new requirements and a runtime that     *)
(* quits call it for an actor that they have.                              *)
RobustMigrate(k, n, targets) ==
  /\ EventLeft
  /\ task[k].phase = "idle" /\ copy[n].state # "none"
  /\ TryNext(k, [task[k] EXCEPT !.home = n, !.left = targets], msgs)
  /\ UNCHANGED <<at, joining, faults>>

(* disconnection_request at the peer, by the identity of the port.         *)
DisconnectionRequest(k, p) ==
  /\ Disconnect(k, p) \in msgs
  /\ at' = [at EXCEPT ![p] = "none"]
  /\ msgs' = (msgs \ {Disconnect(k, p)}) \cup {Disconnected(k, p)}
  /\ UNCHANGED <<copy, task, joining, faults>>

(* Mutant: the first answer of a port is taken for the last.               *)
AllDisconnected_MUT(k, p) == p \in task[k].waits

(* _disconnecting_actor_cb goes on with _migrate_disconnected at the last  *)
(* of the ports, unless a failure has come first.                          *)
AllDisconnected(k, p) == task[k].waits = {p}

DisconnectReply(k, p) ==
  LET ms == msgs \ {Disconnected(k, p)}
  IN  /\ Disconnected(k, p) \in msgs
      /\ \/ AllDisconnected(k, p) /\ DestroyAndAsk(k, task[k], ms)
         \/ /\ ~AllDisconnected(k, p)
            /\ task' = [task EXCEPT ![k].waits = @ \ {p}]
            /\ msgs' = ms
            /\ UNCHANGED copy
      /\ UNCHANGED <<at, joining, faults>>

(* The first disconnect that fails, or has no answer in time: the actor is *)
(* destroyed all the same, but its state goes to the next runtime.         *)
DisconnectFails(k) ==
  LET t == [task[k] EXCEPT !.kept = TRUE, !.gone = TRUE, !.waits = {}]
  IN  /\ task[k].waits # {}
      /\ Fault("unlinked")
      /\ copy' = [copy EXCEPT ![t.home] = NoCopy]
      /\ task' = [task EXCEPT ![k] = HandedOn(t)]
      /\ msgs' = msgs \cup NextRequest(k, t)
      /\ UNCHANGED <<at, joining>>

(* actor_new_handler: new, over a copy that is there already, and connect  *)
(* for all the ports that the actor had at its home.                       *)
New(k, n) ==
  /\ ActorNew(k, n) \in msgs
  /\ copy' = [copy EXCEPT ![n] = [state |-> "connecting", by |-> k, linked |-> {}]]
  /\ joining' = [joining EXCEPT ![k][n] = Peers]
  /\ msgs' = (msgs \ {ActorNew(k, n)}) \cup {Connect(k, n, p) : p \in Peers}
  /\ UNCHANGED <<at, task, faults>>

(* The runtime is quitting, or there is no link to it.                     *)
Refuse(k, n) ==
  /\ ActorNew(k, n) \in msgs
  /\ Fault("refused")
  /\ msgs' = (msgs \ {ActorNew(k, n)}) \cup {Answer(k, n, FALSE)}
  /\ UNCHANGED <<copy, at, task, joining>>

(* connection_request at the peer: the new endpoint takes the place of one *)
(* that it has for the port.                                               *)
ConnectionRequest(k, n, p) ==
  /\ Connect(k, n, p) \in msgs
  /\ at' = [at EXCEPT ![p] = n]
  /\ msgs' = (msgs \ {Connect(k, n, p)}) \cup {Connected(k, n, p)}
  /\ UNCHANGED <<copy, task, joining, faults>>

(* Mutant: the list is looked at before the port is removed from it.       *)
Answers_MUT(ok, ids, p) == IF ok THEN ids = {} ELSE ids # {}

(* _actor_connected answers at the first failure or the last success.  If  *)
(* the actor is gone it raises an exception instead.                       *)
Answers(ok, ids, p) == IF ok THEN ids = {p} ELSE ids # {}

ActorConnected(k, n, p, ok, ms) ==
  LET answers == Answers(ok, joining[k][n], p)
      c == copy[n]
      here == c.state # "none"
  IN  /\ joining' = [joining EXCEPT ![k][n] = IF ok THEN @ \ {p} ELSE IF here THEN {} ELSE @]
      /\ copy' = [copy EXCEPT ![n] =
           [c EXCEPT !.state = IF answers /\ @ = "connecting" THEN "ready" ELSE @,
                     !.linked = IF ok /\ c.by = k THEN @ \cup {p} ELSE @]]
      /\ msgs' = ms \cup {Answer(k, n, a) : a \in {b \in {ok} : answers /\ here}}

ConnectReply(k, n, p) ==
  /\ Connected(k, n, p) \in msgs
  /\ ActorConnected(k, n, p, TRUE, msgs \ {Connected(k, n, p)})
  /\ UNCHANGED <<at, task, faults>>

(* The request or its answer is lost, or the peer cannot be found.         *)
ConnectFails(k, n, p) ==
  LET lost == {Connect(k, n, p), Connected(k, n, p)} \cap msgs
  IN  /\ lost # {}
      /\ Fault("unconnected")
      /\ ActorConnected(k, n, p, FALSE, msgs \ lost)
      /\ UNCHANGED <<at, task>>

Asks(k, n) == task[k].phase = "asking" /\ task[k].to = n

(* The answer to ACTOR_NEW, as long as it is awaited.                      *)
NewReply(k, n, ok) ==
  LET ms == msgs \ {Answer(k, n, ok)}
  IN  /\ Answer(k, n, ok) \in msgs
      /\ \/ /\ Asks(k, n) /\ ok
            /\ task' = [task EXCEPT ![k].phase = "moved"]
            /\ msgs' = ms
            /\ UNCHANGED copy
         \/ Asks(k, n) /\ ~ok /\ TryNext(k, task[k], ms)
         \/ /\ ~Asks(k, n)
            /\ msgs' = ms
            /\ UNCHANGED <<copy, task>>
      /\ UNCHANGED <<at, joining, faults>>

(* No answer in time; the request, or its answer, may still arrive.        *)
NewTimeout(k) ==
  /\ task[k].phase = "asking"
  /\ Fault("late")
  /\ TryNext(k, task[k], msgs)
  /\ UNCHANGED <<at, joining>>

-----------------------------------------------------------------------------
Handle ==
  \E k \in Tasks :
    \/ \E p \in Peers : DisconnectionRequest(k, p) \/ DisconnectReply(k, p)
    \/ \E n \in Nodes :
         \/ New(k, n)
         \/ \E ok \in BOOLEAN : NewReply(k, n, ok)
         \/ \E p \in Peers : ConnectionRequest(k, n, p) \/ ConnectReply(k, n, p)

Next ==
  \/ Handle
  \/ \E k \in Tasks :
       \/ \E n \in Nodes :
            \/ \E targets \in TargetLists(n) : RobustMigrate(k, n, targets)
            \/ Refuse(k, n)
            \/ \E p \in Peers : ConnectFails(k, n, p)
       \/ DisconnectFails(k)
       \/ NewTimeout(k)

(* What is on its way is handled in the end.                               *)
Fairness == WF_vars(Handle)

Spec == Init /\ [][Next]_vars /\ Fairness

-----------------------------------------------------------------------------
(* The state has its type.                                                 *)
TypeOK ==
  /\ copy \in [Nodes -> Copy]
  /\ at \in [Peers -> Nodes \cup {"none"}]
  /\ task \in [Tasks -> Task]
  /\ joining \in [Tasks -> [Nodes -> SUBSET Peers]]
  /\ msgs \subseteq Message
  /\ faults \in [Faults -> 0 .. MaxEvents]

Copies == {n \in Nodes : copy[n].state # "none"}

Requests == {m \in msgs : m.type = "ACTOR_NEW"}

(* Only a runtime that has the actor, and is taken for one that has not,   *)
(* leaves a second one of it.                                              *)
NeverTwice ==
  faults["late"] = 0 /\ faults["unconnected"] = 0
    => Cardinality(Copies) + Cardinality(Requests) <= 1

(* The actor is at a runtime, or on its way to one, or its state is in the *)
(* hands of the callback.                                                  *)
NotLost ==
  Total <= 1 => Copies # {} \/ Requests # {} \/ \E k \in Tasks : task[k].kept

(* robust_migrate, migrate and _migrate_disconnected                       *)
(* (actormanager.py:346-433): whoever moves the actor, and whatever        *)
(* runtimes refuse it or disconnects fail, there are never two of it, at   *)
(* runtimes or on the way to them; and no single fault loses it.           *)
InOnePlace == NeverTwice /\ NotLost

(* new, _actor_connected and the requests of the port managers: an actor   *)
(* that is ready to move again is connected with all its peers, and they   *)
(* with it where it now is, as long as every disconnect and connect has    *)
(* been answered in time.                                                  *)
ReadyIsConnected ==
  faults["late"] = 0 /\ faults["unlinked"] = 0 /\ faults["unconnected"] = 0
    => \A n \in Nodes : copy[n].state = "ready" =>
         copy[n].linked = Peers /\ \A p \in Peers : at[p] = n

(* robust_migrate always calls back: each call ends, with the actor moved, *)
(* or with a failure.                                                      *)
EventuallyAnswered ==
  \A k \in Tasks :
    task[k].phase \in {"disconnecting", "asking"}
      ~> task[k].phase \in {"moved", "returned", "failed"}

(* "If all else fails the state, actor_type and ports will be returned in  *)
(* the callback" (actormanager.py:349): a robust_migrate that fails and    *)
(* does not return the state has not destroyed the actor, or at least some *)
(* runtime has it.  The second runtime that refuses it disproves this.     *)
StateReturned ==
  \A k \in Tasks :
    task[k].phase = "failed" => ~task[k].gone \/ Copies # {} \/ Requests # {}

=============================================================================
