------------------------- MODULE ActorMigrationProofs -------------------------
(* Theorems on ActorMigration: types, where the actor is, and whom it is   *)
(* connected with, for any runtimes and peers, any number of calls and     *)
(* suggested runtimes, and any number of faults.                           *)
EXTENDS ActorMigration, FiniteSetTheorems, TLAPS

(* A task waits for disconnects exactly as long as it is in that phase,    *)
(* and has nothing to hand on before it begins.                            *)
TasksInv ==
  \A k \in Tasks :
    /\ task[k].phase = "disconnecting" <=> task[k].waits # {}
    /\ task[k].phase = "idle" => ~task[k].kept

-----------------------------------------------------------------------------
(* No answer was late, and no connect has failed.                          *)
Undisturbed == faults["late"] = 0 /\ faults["unconnected"] = 0

Here(n)       == copy[n].state # "none"
Asked(k, n)   == ActorNew(k, n) \in msgs
Taken(k, n)   == Answer(k, n, TRUE) \in msgs
Refused(k, n) == Answer(k, n, FALSE) \in msgs

(* Whatever is on its way for a task and a runtime: the request, ports     *)
(* that are being connected, the answer.  There is one of them at a time,  *)
(* and the task waits for it.                                              *)
AwaitedInv ==
  \A k \in Tasks, n \in Nodes :
    /\ Asked(k, n) =>
         Asks(k, n) /\ joining[k][n] = {} /\ ~Taken(k, n) /\ ~Refused(k, n)
    /\ joining[k][n] # {} => Asks(k, n) /\ ~Taken(k, n) /\ ~Refused(k, n)
    /\ Taken(k, n) => Asks(k, n) /\ ~Refused(k, n)
    /\ Refused(k, n) => Asks(k, n)

(* The actor is at one runtime, or in one request, or has been refused to  *)
(* one task; the task that waits for its disconnects has it at its home.   *)
HolderInv ==
  /\ \A m, n \in Nodes : Here(m) /\ Here(n) => m = n
  /\ \A j, k \in Tasks, m, n \in Nodes : Asked(j, m) /\ Asked(k, n) => j = k /\ m = n
  /\ \A k \in Tasks, m, n \in Nodes : Asked(k, n) => ~Here(m)
  /\ \A j, k \in Tasks, m, n \in Nodes :
       Refused(k, n) => ~Here(m) /\ ~Asked(j, m) /\ (Refused(j, m) => j = k)
  /\ \A k \in Tasks :
       task[k].phase = "disconnecting" => copy[task[k].home].state = "moving"
  /\ \A j, k \in Tasks :
       task[j].phase = "disconnecting" /\ task[k].phase = "disconnecting" => j = k

(* No runtime has refused, and each request is for a task that can hand    *)
(* the state on.                                                           *)
Unrefused ==
  \A k \in Tasks, n \in Nodes : ~Refused(k, n) /\ (Asked(k, n) => task[k].kept)

(* The actor is at a runtime, on its way, or in the hands of a task.       *)
Somewhere ==
  \/ \E n \in Nodes : Here(n)
  \/ \E k \in Tasks, n \in Nodes : Asked(k, n)
  \/ \E k \in Tasks : task[k].kept

(* The first is so before the first fault, the second before the second.   *)
KeptInv == (Total = 0 => Unrefused) /\ (Total <= 1 => Somewhere)

PlaceInv ==
  /\ Undisturbed => AwaitedInv /\ HolderInv
  /\ KeptInv

-----------------------------------------------------------------------------
(* Nor has a disconnect failed.                                            *)
Regular == Undisturbed /\ faults["unlinked"] = 0

Unlinking(k, p)  == Disconnect(k, p) \in msgs
Unlinked(k, p)   == Disconnected(k, p) \in msgs
Linking(k, n, p) == Connect(k, n, p) \in msgs
Linked(k, n, p)  == Connected(k, n, p) \in msgs

(* Disconnects that are on their way are those that a task waits for.      *)
UnlinkingInv ==
  \A k \in Tasks, p \in Peers :
    /\ Unlinking(k, p) => p \in task[k].waits /\ ~Unlinked(k, p)
    /\ Unlinked(k, p) => p \in task[k].waits

(* Connects are those of the copy that is being connected; what is not on  *)
(* its way is done, at both ends.                                          *)
LinkingInv ==
  /\ \A k \in Tasks, n \in Nodes, p \in Peers :
       Linking(k, n, p) \/ Linked(k, n, p) =>
         copy[n].state = "connecting" /\ copy[n].by = k /\ p \in joining[k][n]
  /\ \A k \in Tasks, n \in Nodes, p \in Peers :
       Linked(k, n, p) => at[p] = n /\ ~Linking(k, n, p)
  /\ \A n \in Nodes :
       copy[n].state = "connecting" =>
         /\ copy[n].by \in Tasks
         /\ copy[n].linked = Peers \ joining[copy[n].by][n]
         /\ joining[copy[n].by][n] # {}
         /\ \A p \in copy[n].linked : at[p] = n
  /\ \A n \in Nodes :
       copy[n].state = "ready" => copy[n].linked = Peers /\ \A p \in Peers : at[p] = n

ConnectionInv == UnlinkingInv /\ LinkingInv

ConnectedInv == Regular => ConnectionInv

-----------------------------------------------------------------------------
LEMMA AnswerIsTyped ==
  ASSUME NEW k \in Tasks, NEW n \in Nodes, NEW ok \in BOOLEAN
  PROVE  Answer(k, n, ok) \in Message
  BY DEF Message

(* The calls that have started are finitely many.                          *)
LEMMA EventsAreCounted ==
  Cardinality(Started) \in Nat
  <1>1. IsFiniteSet(Tasks)
    BY FS_Interval, BoundAssumption DEF Tasks
  <1>2. IsFiniteSet(Started)
    BY <1>1, FS_Subset DEF Started
  <1> QED  BY <1>2, FS_CardinalityType

LEMMA FaultIsTyped ==
  ASSUME TypeOK, NEW f \in Faults, Fault(f)
  PROVE  faults' \in [Faults -> 0 .. MaxEvents]
  <1>1. Total + Cardinality(Started) < MaxEvents
    BY DEF Fault, EventLeft
  <1>2. /\ faults["refused"] \in Nat /\ faults["late"] \in Nat
        /\ faults["unlinked"] \in Nat /\ faults["unconnected"] \in Nat
    BY DEF TypeOK, Faults
  <1>3. faults[f] + 1 \in 0 .. MaxEvents
    BY <1>1, <1>2, EventsAreCounted, BoundAssumption DEF Total, Faults
  <1> QED  BY <1>3 DEF TypeOK, Fault

LEMMA OriginIsNode ==
  Origin \in Nodes
  BY NodesAssumption DEF Origin

(* A list of runtimes that is not empty has a first one and others.        *)
LEMMA LeftHasFirst ==
  ASSUME NEW t \in Task
  PROVE  /\ t.left \in Seq(Nodes) /\ <<>> \in Seq(Nodes)
         /\ t.left # <<>> => Head(t.left) \in Nodes /\ Tail(t.left) \in Seq(Nodes)
  <1>1. t.left \in Seq(Nodes)
    BY DEF Task
  <1> QED  BY <1>1

LEMMA TryNextIsTyped ==
  ASSUME TypeOK, NEW k \in Tasks, NEW t \in Task, NEW ms \in SUBSET Message,
         TryNext(k, t, ms)
  PROVE  copy' \in [Nodes -> Copy] /\ task' \in [Tasks -> Task] /\ msgs' \subseteq Message
  <1> USE DEF TypeOK
  <1>1. CASE t.kept
    <2>1. HandedOn(t) \in Task
      BY LeftHasFirst DEF HandedOn, Task
    <2>2. NextRequest(k, t) \subseteq Message
      BY LeftHasFirst DEF NextRequest, Message
    <2> QED  BY <1>1, <2>1, <2>2 DEF TryNext
  <1>2. CASE ~t.kept /\ t.left # <<>> /\ CanMigrate(t.home)
    <2> DEFINE next == [t EXCEPT !.to = Head(t.left), !.left = Tail(t.left)]
    <2>1. next \in Task /\ t.home \in Nodes /\ next.home = t.home
      BY <1>2, LeftHasFirst DEF Task
    <2>2. CASE /\ copy[t.home].linked # {}
               /\ copy' = [copy EXCEPT ![t.home] = [@ EXCEPT !.state = "moving", !.linked = {}]]
               /\ task' = [task EXCEPT ![k] = [next EXCEPT !.phase = "disconnecting",
                                                          !.waits = copy[t.home].linked]]
               /\ msgs' = ms \cup {Disconnect(k, p) : p \in copy[t.home].linked}
      <3>1. copy[t.home] \in Copy
        BY <2>1
      <3>2. /\ [copy[t.home] EXCEPT !.state = "moving", !.linked = {}] \in Copy
            /\ copy[t.home].linked \subseteq Peers
        BY <3>1 DEF Copy
      <3>3. [next EXCEPT !.phase = "disconnecting", !.waits = copy[t.home].linked] \in Task
        BY <2>1, <3>2 DEF Task
      <3>4. {Disconnect(k, p) : p \in copy[t.home].linked} \subseteq Message
        BY <3>2 DEF Message
      <3> HIDE DEF next
      <3> QED  BY <2>1, <2>2, <3>2, <3>3, <3>4
    <2>3. CASE DestroyAndAsk(k, next, ms)
      <3>1. [next EXCEPT !.phase = "asking", !.kept = TRUE, !.gone = TRUE, !.waits = {}] \in Task
        BY <2>1 DEF Task
      <3>2. NoCopy \in Copy
        BY DEF NoCopy, Copy
      <3> HIDE DEF next
      <3>3. ActorNew(k, next.to) \in Message
        BY <2>1 DEF Task, Message
      <3> QED  BY <2>1, <2>3, <3>1, <3>2, <3>3 DEF DestroyAndAsk
    <2> QED  BY <1>2, <2>2, <2>3 DEF TryNext, Migrate
  <1>3. CASE ~t.kept /\ (t.left = <<>> \/ ~CanMigrate(t.home))
    <2>1. [t EXCEPT !.phase = "failed", !.left = <<>>] \in Task
      BY LeftHasFirst DEF Task
    <2> QED  BY <1>3, <2>1 DEF TryNext
  <1> QED  BY <1>1, <1>2, <1>3 DEF TryNext

LEMMA DestroyIsTyped ==
  ASSUME TypeOK, NEW k \in Tasks, NEW t \in Task, NEW ms \in SUBSET Message,
         DestroyAndAsk(k, t, ms)
  PROVE  copy' \in [Nodes -> Copy] /\ task' \in [Tasks -> Task] /\ msgs' \subseteq Message
  <1>1. [t EXCEPT !.phase = "asking", !.kept = TRUE, !.gone = TRUE, !.waits = {}] \in Task
    BY DEF Task
  <1>2. NoCopy \in Copy
    BY DEF NoCopy, Copy
  <1>3. ActorNew(k, t.to) \in Message /\ t.home \in Nodes
    BY DEF Task, Message
  <1> QED  BY <1>1, <1>2, <1>3 DEF DestroyAndAsk, TypeOK

LEMMA ConnectedIsTyped ==
  ASSUME TypeOK, NEW k \in Tasks, NEW n \in Nodes, NEW p \in Peers, NEW ok \in BOOLEAN,
         NEW ms \in SUBSET Message, ActorConnected(k, n, p, ok, ms)
  PROVE  /\ copy' \in [Nodes -> Copy]
         /\ joining' \in [Tasks -> [Nodes -> SUBSET Peers]]
         /\ msgs' \subseteq Message
  <1> USE DEF TypeOK
  <1> DEFINE answers == Answers(ok, joining[k][n], p)
             here == copy[n].state # "none"
             new == [copy[n] EXCEPT
                       !.state = IF answers /\ @ = "connecting" THEN "ready" ELSE @,
                       !.linked = IF ok /\ copy[n].by = k THEN @ \cup {p} ELSE @]
             rest == IF ok THEN joining[k][n] \ {p} ELSE IF here THEN {} ELSE joining[k][n]
  <1>1. new \in Copy
    BY DEF Copy
  <1>2. rest \in SUBSET Peers
    <2>1. joining[k][n] \in SUBSET Peers
      OBVIOUS
    <2> QED  BY <2>1
  <1>3. {Answer(k, n, a) : a \in {b \in {ok} : answers /\ here}} \subseteq Message
    BY DEF Message
  <1>4. copy' = [copy EXCEPT ![n] = new]
    BY DEF ActorConnected
  <1>5. joining' = [joining EXCEPT ![k][n] = rest]
    BY DEF ActorConnected
  <1>6. msgs' = ms \cup {Answer(k, n, a) : a \in {b \in {ok} : answers /\ here}}
    BY DEF ActorConnected
  <1> HIDE DEF new, rest, answers, here
  <1> QED  BY <1>1, <1>2, <1>3, <1>4, <1>5, <1>6

LEMMA TypeInit ==
  Init => TypeOK
  <1> SUFFICES ASSUME Init
               PROVE  TypeOK
    OBVIOUS
  <1> USE DEF Init
  <1>1. copy \in [Nodes -> Copy]
    BY DEF Copy, NoCopy
  <1>2. at \in [Peers -> Nodes \cup {"none"}]
    BY OriginIsNode
  <1>3. task \in [Tasks -> Task]
    <2>1. <<>> \in Seq(Nodes)
      OBVIOUS
    <2> QED  BY <2>1, OriginIsNode DEF Task
  <1>4. joining \in [Tasks -> [Nodes -> SUBSET Peers]] /\ msgs \subseteq Message
    OBVIOUS
  <1>5. faults \in [Faults -> 0 .. MaxEvents]
    BY BoundAssumption
  <1> QED  BY <1>1, <1>2, <1>3, <1>4, <1>5 DEF TypeOK

LEMMA TypeNext ==
  TypeOK /\ [Next]_vars => TypeOK'
  <1> SUFFICES ASSUME TypeOK, [Next]_vars
               PROVE  TypeOK'
    OBVIOUS
  <1>1. CASE UNCHANGED vars
    BY <1>1 DEF vars, TypeOK
  <1>2. ASSUME NEW k \in Tasks, NEW p \in Peers, DisconnectionRequest(k, p)
        PROVE  TypeOK'
    <2>1. Disconnected(k, p) \in Message
      BY <1>2 DEF Message
    <2> QED  BY <1>2, <2>1 DEF DisconnectionRequest, TypeOK
  <1>3. ASSUME NEW k \in Tasks, NEW p \in Peers, DisconnectReply(k, p)
        PROVE  TypeOK'
    <2> DEFINE ms == msgs \ {Disconnected(k, p)}
    <2>1. ms \in SUBSET Message /\ task[k] \in Task
      BY <1>3 DEF TypeOK
    <2>2. CASE DestroyAndAsk(k, task[k], ms)
      <3> HIDE DEF ms
      <3>1. copy' \in [Nodes -> Copy] /\ task' \in [Tasks -> Task] /\ msgs' \subseteq Message
        BY <2>1, <2>2, <1>3, DestroyIsTyped
      <3> QED  BY <1>3, <3>1 DEF DisconnectReply, TypeOK
    <2>3. CASE task' = [task EXCEPT ![k].waits = @ \ {p}] /\ msgs' = ms /\ UNCHANGED copy
      <3>1. [task[k] EXCEPT !.waits = @ \ {p}] \in Task
        BY <2>1 DEF Task
      <3>2. task' \in [Tasks -> Task]
        BY <2>3, <3>1, <1>3 DEF TypeOK
      <3> QED  BY <1>3, <2>1, <2>3, <3>2 DEF DisconnectReply, TypeOK
    <2> QED  BY <1>3, <2>2, <2>3 DEF DisconnectReply
  <1>4. ASSUME NEW k \in Tasks, NEW n \in Nodes, New(k, n)
        PROVE  TypeOK'
    <2>1. [state |-> "connecting", by |-> k, linked |-> {}] \in Copy
      BY <1>4 DEF Copy
    <2>2. {Connect(k, n, p) : p \in Peers} \subseteq Message
      BY <1>4 DEF Message
    <2> QED  BY <1>4, <2>1, <2>2 DEF New, TypeOK
  <1>5. ASSUME NEW k \in Tasks, NEW n \in Nodes, NEW ok \in BOOLEAN, NewReply(k, n, ok)
        PROVE  TypeOK'
    <2> DEFINE ms == msgs \ {Answer(k, n, ok)}
    <2>1. ms \in SUBSET Message /\ task[k] \in Task
      BY <1>5 DEF TypeOK
    <2>2. CASE task' = [task EXCEPT ![k].phase = "moved"] /\ msgs' = ms /\ UNCHANGED copy
      <3>1. [task[k] EXCEPT !.phase = "moved"] \in Task
        BY <2>1 DEF Task
      <3>2. task' \in [Tasks -> Task]
        BY <2>2, <3>1, <1>5 DEF TypeOK
      <3> QED  BY <1>5, <2>1, <2>2, <3>2 DEF NewReply, TypeOK
    <2>3. CASE TryNext(k, task[k], ms)
      <3> HIDE DEF ms
      <3>1. copy' \in [Nodes -> Copy] /\ task' \in [Tasks -> Task] /\ msgs' \subseteq Message
        BY <2>1, <2>3, <1>5, TryNextIsTyped
      <3> QED  BY <1>5, <3>1 DEF NewReply, TypeOK
    <2>4. CASE msgs' = ms /\ UNCHANGED <<copy, task>>
      BY <1>5, <2>1, <2>4 DEF NewReply, TypeOK
    <2> QED  BY <1>5, <2>2, <2>3, <2>4 DEF NewReply
  <1>6. ASSUME NEW k \in Tasks, NEW n \in Nodes, NEW p \in Peers, ConnectionRequest(k, n, p)
        PROVE  TypeOK'
    <2>1. Connected(k, n, p) \in Message
      BY <1>6 DEF Message
    <2> QED  BY <1>6, <2>1 DEF ConnectionRequest, TypeOK
  <1>7. ASSUME NEW k \in Tasks, NEW n \in Nodes, NEW p \in Peers, ConnectReply(k, n, p)
        PROVE  TypeOK'
    <2> DEFINE ms == msgs \ {Connected(k, n, p)}
    <2>1. ms \in SUBSET Message
      BY DEF TypeOK
    <2>2. ActorConnected(k, n, p, TRUE, ms)
      BY <1>7 DEF ConnectReply
    <2> HIDE DEF ms
    <2>3. /\ copy' \in [Nodes -> Copy] /\ msgs' \subseteq Message
          /\ joining' \in [Tasks -> [Nodes -> SUBSET Peers]]
      BY <1>7, <2>1, <2>2, ConnectedIsTyped
    <2> QED  BY <1>7, <2>3 DEF ConnectReply, TypeOK
  <1>8. ASSUME NEW k \in Tasks, NEW n \in Nodes, NEW targets \in TargetLists(n),
               RobustMigrate(k, n, targets)
        PROVE  TypeOK'
    <2> DEFINE t == [task[k] EXCEPT !.home = n, !.left = targets]
    <2>1. targets \in Seq(Nodes)
      BY <1>8 DEF TargetLists, SeqOf
    <2>2. task[k] \in Task
      BY <1>8 DEF TypeOK
    <2>3. t \in Task
      BY <1>8, <2>1, <2>2 DEF Task
    <2>4. TryNext(k, t, msgs) /\ msgs \in SUBSET Message
      BY <1>8 DEF RobustMigrate, TypeOK
    <2> HIDE DEF t
    <2>5. copy' \in [Nodes -> Copy] /\ task' \in [Tasks -> Task] /\ msgs' \subseteq Message
      BY <1>8, <2>3, <2>4, TryNextIsTyped
    <2> QED  BY <1>8, <2>5 DEF RobustMigrate, TypeOK
  <1>9. ASSUME NEW k \in Tasks, NEW n \in Nodes, Refuse(k, n)
        PROVE  TypeOK'
    <2>1. faults' \in [Faults -> 0 .. MaxEvents]
      BY <1>9, FaultIsTyped DEF Refuse, Faults
    <2>2. Answer(k, n, FALSE) \in Message
      BY <1>9, AnswerIsTyped
    <2> QED  BY <1>9, <2>1, <2>2 DEF Refuse, TypeOK
  <1>10. ASSUME NEW k \in Tasks, NEW n \in Nodes, NEW p \in Peers, ConnectFails(k, n, p)
         PROVE  TypeOK'
    <2> DEFINE ms == msgs \ ({Connect(k, n, p), Connected(k, n, p)} \cap msgs)
    <2>1. ms \in SUBSET Message
      BY DEF TypeOK
    <2>2. ActorConnected(k, n, p, FALSE, ms)
      BY <1>10 DEF ConnectFails
    <2> HIDE DEF ms
    <2>3. /\ copy' \in [Nodes -> Copy] /\ msgs' \subseteq Message
          /\ joining' \in [Tasks -> [Nodes -> SUBSET Peers]]
      BY <1>10, <2>1, <2>2, ConnectedIsTyped
    <2>4. faults' \in [Faults -> 0 .. MaxEvents]
      BY <1>10, FaultIsTyped DEF ConnectFails, Faults
    <2> QED  BY <1>10, <2>3, <2>4 DEF ConnectFails, TypeOK
  <1>11. ASSUME NEW k \in Tasks, DisconnectFails(k)
         PROVE  TypeOK'
    <2> DEFINE t == [task[k] EXCEPT !.kept = TRUE, !.gone = TRUE, !.waits = {}]
    <2>1. task[k] \in Task
      BY <1>11 DEF TypeOK
    <2>2. t \in Task
      BY <1>11, <2>1 DEF Task
    <2>3. /\ task' = [task EXCEPT ![k] = HandedOn(t)]
          /\ copy' = [copy EXCEPT ![t.home] = NoCopy]
          /\ msgs' = msgs \cup NextRequest(k, t)
          /\ UNCHANGED <<at, joining>>
      BY <1>11 DEF DisconnectFails
    <2> HIDE DEF t
    <2>4. HandedOn(t) \in Task
      BY <2>2, LeftHasFirst DEF HandedOn, Task
    <2>5. NextRequest(k, t) \subseteq Message
      BY <1>11, <2>2, LeftHasFirst DEF NextRequest, Message
    <2>6. NoCopy \in Copy /\ t.home \in Nodes
      BY <2>2 DEF NoCopy, Copy, Task
    <2>7. faults' \in [Faults -> 0 .. MaxEvents]
      BY <1>11, FaultIsTyped DEF DisconnectFails, Faults
    <2> QED  BY <1>11, <2>3, <2>4, <2>5, <2>6, <2>7 DEF TypeOK
  <1>12. ASSUME NEW k \in Tasks, NewTimeout(k)
         PROVE  TypeOK'
    <2>1. task[k] \in Task /\ msgs \in SUBSET Message
      BY <1>12 DEF TypeOK
    <2>2. copy' \in [Nodes -> Copy] /\ task' \in [Tasks -> Task] /\ msgs' \subseteq Message
      BY <1>12, <2>1, TryNextIsTyped DEF NewTimeout
    <2>3. faults' \in [Faults -> 0 .. MaxEvents]
      BY <1>12, FaultIsTyped DEF NewTimeout, Faults
    <2> QED  BY <1>12, <2>2, <2>3 DEF NewTimeout, TypeOK
  <1> QED
    BY <1>1, <1>2, <1>3, <1>4, <1>5, <1>6, <1>7, <1>8, <1>9, <1>10, <1>11, <1>12
       DEF Next, Handle

(* The state of actors, peers and tasks and the messages on their way keep *)
(* their types, for any runtimes and any number of calls and faults.       *)
THEOREM MigrationTypeCorrect ==
  Spec => []TypeOK
  <1> QED  BY TypeInit, TypeNext, PTL DEF Spec

-----------------------------------------------------------------------------
(* Messages of different kinds, or with different parts, are different.    *)
LEMMA RequestsDiffer ==
  ASSUME NEW j, NEW k, NEW m, NEW n, NEW a, NEW b
  PROVE  /\ ActorNew(j, m) = ActorNew(k, n) <=> j = k /\ m = n
         /\ Answer(j, m, a) = Answer(k, n, b) <=> j = k /\ m = n /\ a = b
         /\ ActorNew(j, m) # Answer(k, n, a)
  <1>1. ActorNew(j, m).type = "ACTOR_NEW" /\ Answer(k, n, a).type = "answer"
    BY DEF ActorNew, Answer
  <1>2. ActorNew(j, m) # Answer(k, n, a)
    BY <1>1
  <1> QED  BY <1>2 DEF ActorNew, Answer

LEMMA PortMessagesDiffer ==
  ASSUME NEW j, NEW k, NEW m, NEW n, NEW p, NEW q
  PROVE  /\ Disconnect(j, p) = Disconnect(k, q) <=> j = k /\ p = q
         /\ Disconnected(j, p) = Disconnected(k, q) <=> j = k /\ p = q
         /\ Connect(j, m, p) = Connect(k, n, q) <=> j = k /\ m = n /\ p = q
         /\ Connected(j, m, p) = Connected(k, n, q) <=> j = k /\ m = n /\ p = q
         /\ Disconnect(j, p) \notin {Disconnected(k, q), Connect(k, n, q), Connected(k, n, q)}
         /\ Disconnected(j, p) \notin {Connect(k, n, q), Connected(k, n, q)}
         /\ Connect(j, m, p) # Connected(k, n, q)
  <1>1. /\ Disconnect(j, p).type = "PORT_DISCONNECT"
        /\ Disconnected(j, p).type = "disconnected" /\ Disconnected(k, q).type = "disconnected"
        /\ Connect(j, m, p).type = "PORT_CONNECT" /\ Connect(k, n, q).type = "PORT_CONNECT"
        /\ Connected(k, n, q).type = "connected"
    BY DEF Disconnect, Disconnected, Connect, Connected
  <1>2. /\ Disconnect(j, p) \notin {Disconnected(k, q), Connect(k, n, q), Connected(k, n, q)}
        /\ Disconnected(j, p) \notin {Connect(k, n, q), Connected(k, n, q)}
        /\ Connect(j, m, p) # Connected(k, n, q)
    BY <1>1
  <1> QED  BY <1>2 DEF Disconnect, Disconnected, Connect, Connected

LEMMA KindsDiffer ==
  ASSUME NEW j, NEW k, NEW m, NEW n, NEW p, NEW a
  PROVE  LET ports == {Disconnect(k, p), Disconnected(k, p), Connect(k, n, p), Connected(k, n, p)}
         IN  ActorNew(j, m) \notin ports /\ Answer(j, m, a) \notin ports
  <1>1. /\ ActorNew(j, m).type = "ACTOR_NEW" /\ Answer(j, m, a).type = "answer"
        /\ Disconnect(k, p).type = "PORT_DISCONNECT" /\ Disconnected(k, p).type = "disconnected"
        /\ Connect(k, n, p).type = "PORT_CONNECT" /\ Connected(k, n, p).type = "connected"
    BY DEF ActorNew, Answer, Disconnect, Disconnected, Connect, Connected
  <1> QED  BY <1>1

(* Requests are the messages that ask a runtime.                           *)
LEMMA RequestsAreAsked ==
  ASSUME TypeOK
  PROVE  /\ \A r \in Requests : \E k \in Tasks, n \in Nodes : r = ActorNew(k, n) /\ Asked(k, n)
         /\ \A k \in Tasks, n \in Nodes : Asked(k, n) => ActorNew(k, n) \in Requests
  <1>1. ASSUME NEW k \in Tasks, NEW n \in Nodes, Asked(k, n)
        PROVE  ActorNew(k, n) \in Requests
    BY <1>1 DEF Asked, Requests, ActorNew
  <1>2. ASSUME NEW r \in Requests
        PROVE  \E k \in Tasks, n \in Nodes : r = ActorNew(k, n) /\ Asked(k, n)
    <2>1. r \in Message /\ r.type = "ACTOR_NEW" /\ r \in msgs
      BY <1>2 DEF Requests, TypeOK
    <2>2. \E k \in Tasks, n \in Nodes : r = ActorNew(k, n)
      BY <2>1 DEF Message, ActorNew, Answer, Disconnect, Disconnected, Connect, Connected
    <2> QED  BY <2>1, <2>2 DEF Asked
  <1> QED  BY <1>1, <1>2

-----------------------------------------------------------------------------
(* What becomes of task k and the actor when robust_migrate goes on with   *)
(* the task t: it is handed on, given up, disconnected, or destroyed and   *)
(* sent at once.                                                           *)
Changed(k, u) == task' = [task EXCEPT ![k] = u]

SentOn(k, u, ms) ==
  u.phase = "asking" /\ u.waits = {} /\ msgs' = ms \cup {ActorNew(k, u.to)}

GivenUp(t, u, ms) ==
  /\ u.phase \in {"returned", "failed"} /\ u.kept = t.kept /\ u.waits = t.waits
  /\ msgs' = ms /\ UNCHANGED copy

Disconnecting(k, u, ms) ==
  LET linked == copy[u.home].linked
  IN  /\ u.phase = "disconnecting" /\ ~u.kept /\ u.waits = linked /\ linked # {}
      /\ copy' = [copy EXCEPT ![u.home] = [@ EXCEPT !.state = "moving", !.linked = {}]]
      /\ msgs' = ms \cup {Disconnect(k, p) : p \in linked}

Destroyed(u) == copy' = [copy EXCEPT ![u.home] = NoCopy]

LEMMA HandedOnCases ==
  ASSUME NEW k \in Tasks, NEW t \in Task, NEW ms, t.waits = {}, t.kept,
         task' = [task EXCEPT ![k] = HandedOn(t)], msgs' = ms \cup NextRequest(k, t)
  PROVE  \E u \in Task :
           /\ Changed(k, u) /\ u.home = t.home
           /\ \/ SentOn(k, u, ms)
              \/ u.phase = "returned" /\ u.kept /\ u.waits = {} /\ msgs' = ms
  <1> DEFINE u == HandedOn(t)
  <1>1. CASE t.left = <<>>
    <2>1. u \in Task /\ u.home = t.home /\ u.phase = "returned" /\ u.kept /\ u.waits = {}
      BY <1>1 DEF HandedOn, Task
    <2>2. msgs' = ms
      BY <1>1 DEF NextRequest
    <2> HIDE DEF u
    <2>3. Changed(k, u)
      BY DEF Changed, u
    <2> QED  BY <2>1, <2>2, <2>3
  <1>2. CASE t.left # <<>>
    <2>1. /\ u \in Task /\ u.home = t.home /\ u.phase = "asking" /\ u.waits = {}
          /\ u.to = Head(t.left)
      BY <1>2, LeftHasFirst DEF HandedOn, Task
    <2>2. msgs' = ms \cup {ActorNew(k, u.to)}
      BY <1>2, <2>1 DEF NextRequest
    <2> HIDE DEF u
    <2>3. Changed(k, u)
      BY DEF Changed, u
    <2> QED  BY <2>1, <2>2, <2>3 DEF SentOn
  <1> QED  BY <1>1, <1>2

LEMMA DestroyCases ==
  ASSUME NEW k \in Tasks, NEW t \in Task, NEW ms, DestroyAndAsk(k, t, ms)
  PROVE  \E u \in Task :
           Changed(k, u) /\ u.home = t.home /\ SentOn(k, u, ms) /\ Destroyed(u) /\ u.kept
  <1> DEFINE u == [t EXCEPT !.phase = "asking", !.kept = TRUE, !.gone = TRUE, !.waits = {}]
  <1>1. /\ u \in Task /\ u.home = t.home /\ u.phase = "asking" /\ u.waits = {}
        /\ u.to = t.to /\ u.kept
    BY DEF Task
  <1>2. Changed(k, u) /\ copy' = [copy EXCEPT ![t.home] = NoCopy] /\ msgs' = ms \cup {ActorNew(k, t.to)}
    BY DEF DestroyAndAsk, Changed
  <1> HIDE DEF u
  <1> QED  BY <1>1, <1>2 DEF SentOn, Destroyed

LEMMA TryNextCases ==
  ASSUME TypeOK, NEW k \in Tasks, NEW t \in Task, NEW ms, t.waits = {}, TryNext(k, t, ms)
  PROVE  \E u \in Task :
           /\ Changed(k, u) /\ u.home = t.home
           /\ \/ SentOn(k, u, ms) /\ UNCHANGED copy /\ t.kept
              \/ GivenUp(t, u, ms)
              \/ ~t.kept /\ copy[t.home].state = "ready" /\ Disconnecting(k, u, ms)
              \/ ~t.kept /\ copy[t.home].state = "ready" /\ SentOn(k, u, ms) /\ Destroyed(u) /\ u.kept
  <1>1. CASE t.kept
    <2>1. /\ task' = [task EXCEPT ![k] = HandedOn(t)] /\ msgs' = ms \cup NextRequest(k, t)
          /\ UNCHANGED copy
      BY <1>1 DEF TryNext
    <2>2. PICK u \in Task :
            /\ Changed(k, u) /\ u.home = t.home
            /\ \/ SentOn(k, u, ms)
               \/ u.phase = "returned" /\ u.kept /\ u.waits = {} /\ msgs' = ms
      BY <1>1, <2>1, HandedOnCases
    <2>3. CASE SentOn(k, u, ms)
      BY <1>1, <2>1, <2>2, <2>3
    <2>4. CASE u.phase = "returned" /\ u.kept /\ u.waits = {} /\ msgs' = ms
      <3>1. u.kept = t.kept
        BY <1>1, <2>4 DEF Task
      <3>2. GivenUp(t, u, ms)
        BY <2>1, <2>4, <3>1 DEF GivenUp
      <3> QED  BY <2>2, <3>2
    <2> QED  BY <2>2, <2>3, <2>4
  <1>2. CASE ~t.kept /\ t.left # <<>> /\ CanMigrate(t.home)
    <2> DEFINE next == [t EXCEPT !.to = Head(t.left), !.left = Tail(t.left)]
    <2>1. next \in Task /\ next.home = t.home /\ ~next.kept
      BY <1>2, LeftHasFirst DEF Task
    <2>2. copy[t.home].state = "ready" /\ copy[t.home].linked \subseteq Peers
      BY <1>2 DEF CanMigrate, TypeOK, Task, Copy
    <2>3. CASE /\ copy[t.home].linked # {}
               /\ copy' = [copy EXCEPT ![t.home] = [@ EXCEPT !.state = "moving", !.linked = {}]]
               /\ task' = [task EXCEPT ![k] = [next EXCEPT !.phase = "disconnecting",
                                                          !.waits = copy[t.home].linked]]
               /\ msgs' = ms \cup {Disconnect(k, p) : p \in copy[t.home].linked}
      <3> DEFINE u == [next EXCEPT !.phase = "disconnecting", !.waits = copy[t.home].linked]
      <3>1. /\ u \in Task /\ u.home = t.home /\ u.phase = "disconnecting" /\ ~u.kept
            /\ u.waits = copy[t.home].linked
        BY <2>1, <2>2, <2>3 DEF Task
      <3>2. Changed(k, u)
        BY <2>3 DEF Changed
      <3> HIDE DEF u
      <3>3. Disconnecting(k, u, ms)
        BY <2>3, <3>1 DEF Disconnecting
      <3> QED  BY <1>2, <2>2, <3>1, <3>2, <3>3
    <2>4. CASE DestroyAndAsk(k, next, ms)
      <3> HIDE DEF next
      <3>1. PICK u \in Task :
              Changed(k, u) /\ u.home = next.home /\ SentOn(k, u, ms) /\ Destroyed(u) /\ u.kept
        BY <2>1, <2>4, DestroyCases
      <3> QED  BY <1>2, <2>1, <2>2, <3>1
    <2> QED  BY <1>2, <2>3, <2>4 DEF TryNext, Migrate
  <1>3. CASE ~t.kept /\ (t.left = <<>> \/ ~CanMigrate(t.home))
    <2> DEFINE u == [t EXCEPT !.phase = "failed", !.left = <<>>]
    <2>1. u \in Task /\ u.home = t.home /\ u.phase = "failed" /\ u.kept = t.kept /\ u.waits = t.waits
      BY LeftHasFirst DEF Task
    <2>2. Changed(k, u) /\ msgs' = ms /\ UNCHANGED copy
      BY <1>3 DEF TryNext, Changed
    <2> HIDE DEF u
    <2>3. GivenUp(t, u, ms)
      BY <2>1, <2>2 DEF GivenUp
    <2> QED  BY <2>1, <2>2, <2>3
  <1> QED  BY <1>1, <1>2, <1>3 DEF TryNext

-----------------------------------------------------------------------------
LEMMA ChangedTask ==
  ASSUME TypeOK, NEW k \in Tasks, NEW u \in Task, Changed(k, u)
  PROVE  task'[k] = u /\ \A j \in Tasks \ {k} : task'[j] = task[j]
  BY DEF Changed, TypeOK

LEMMA TasksNext ==
  TypeOK /\ TasksInv /\ [Next]_vars => TasksInv'
  <1> SUFFICES ASSUME TypeOK, TasksInv, [Next]_vars
               PROVE  TasksInv'
    OBVIOUS
  <1>1. CASE UNCHANGED task
    BY <1>1 DEF TasksInv
  <1>2. ASSUME NEW k \in Tasks, NEW u \in Task, Changed(k, u),
               u.phase = "disconnecting" <=> u.waits # {}, u.phase # "idle"
        PROVE  TasksInv'
    BY <1>2, ChangedTask DEF TasksInv
  <1>3. ASSUME NEW k \in Tasks, NEW p \in Peers, DisconnectReply(k, p)
        PROVE  TasksInv'
    <2> DEFINE ms == msgs \ {Disconnected(k, p)}
    <2>1. task[k] \in Task
      BY <1>3 DEF TypeOK
    <2>2. CASE DestroyAndAsk(k, task[k], ms)
      <3> HIDE DEF ms
      <3>1. PICK u \in Task : Changed(k, u) /\ SentOn(k, u, ms)
        BY <1>3, <2>1, <2>2, DestroyCases
      <3> QED  BY <1>2, <1>3, <3>1 DEF SentOn
    <2>3. CASE ~AllDisconnected(k, p) /\ task' = [task EXCEPT ![k].waits = @ \ {p}]
      <3>1. task[k].waits # {p}
        BY <2>3 DEF AllDisconnected
      <3>2. /\ task'[k].phase = task[k].phase /\ task'[k].kept = task[k].kept
            /\ task'[k].waits = task[k].waits \ {p} /\ \A j \in Tasks \ {k} : task'[j] = task[j]
        BY <2>1, <2>3, <1>3 DEF TypeOK, Task
      <3> QED  BY <1>3, <3>1, <3>2 DEF TasksInv
    <2> QED  BY <1>3, <2>2, <2>3 DEF DisconnectReply
  <1>4. ASSUME NEW k \in Tasks, NEW t \in Task, NEW ms, TryNext(k, t, ms), t.waits = {}
        PROVE  TasksInv'
    <2>1. PICK u \in Task :
            /\ Changed(k, u) /\ u.home = t.home
            /\ \/ SentOn(k, u, ms) \/ GivenUp(t, u, ms) \/ Disconnecting(k, u, ms)
      BY <1>4, TryNextCases
    <2> QED  BY <1>2, <1>4, <2>1 DEF SentOn, GivenUp, Disconnecting
  <1>5. ASSUME NEW k \in Tasks, NEW n \in Nodes, NEW ok \in BOOLEAN, NewReply(k, n, ok)
        PROVE  TasksInv'
    <2>1. task[k] \in Task
      BY <1>5 DEF TypeOK
    <2>2. CASE Asks(k, n)
      <3>1. task[k].waits = {}
        BY <1>5, <2>2 DEF TasksInv, Asks
      <3>2. CASE task' = [task EXCEPT ![k].phase = "moved"]
        <4>1. /\ task'[k].phase = "moved" /\ task'[k].waits = {}
              /\ \A j \in Tasks \ {k} : task'[j] = task[j]
          BY <1>5, <2>1, <3>1, <3>2 DEF TypeOK, Task
        <4> QED  BY <4>1 DEF TasksInv
      <3>3. CASE TryNext(k, task[k], msgs \ {Answer(k, n, ok)})
        BY <1>4, <1>5, <2>1, <3>1, <3>3
      <3> QED  BY <1>5, <2>2, <3>2, <3>3 DEF NewReply
    <2>3. CASE ~Asks(k, n)
      BY <1>1, <1>5, <2>3 DEF NewReply
    <2> QED  BY <2>2, <2>3
  <1>6. ASSUME NEW k \in Tasks, NEW n \in Nodes, NEW targets \in TargetLists(n),
               RobustMigrate(k, n, targets)
        PROVE  TasksInv'
    <2> DEFINE t == [task[k] EXCEPT !.home = n, !.left = targets]
    <2>1. targets \in Seq(Nodes) /\ task[k] \in Task
      BY <1>6 DEF TargetLists, SeqOf, TypeOK
    <2>2. t \in Task /\ t.waits = {}
      BY <1>6, <2>1 DEF Task, TasksInv, RobustMigrate
    <2>3. TryNext(k, t, msgs)
      BY <1>6 DEF RobustMigrate
    <2> HIDE DEF t
    <2> QED  BY <1>4, <1>6, <2>2, <2>3
  <1>7. ASSUME NEW k \in Tasks, DisconnectFails(k)
        PROVE  TasksInv'
    <2> DEFINE t == [task[k] EXCEPT !.kept = TRUE, !.gone = TRUE, !.waits = {}]
    <2>1. t \in Task /\ t.waits = {} /\ t.kept
      BY <1>7 DEF TypeOK, Task
    <2>2. task' = [task EXCEPT ![k] = HandedOn(t)] /\ msgs' = msgs \cup NextRequest(k, t)
      BY <1>7 DEF DisconnectFails
    <2> HIDE DEF t
    <2>3. PICK u \in Task :
            /\ Changed(k, u) /\ u.home = t.home
            /\ \/ SentOn(k, u, msgs)
               \/ u.phase = "returned" /\ u.kept /\ u.waits = {} /\ msgs' = msgs
      BY <1>7, <2>1, <2>2, HandedOnCases
    <2> QED  BY <1>2, <1>7, <2>3 DEF SentOn
  <1>8. ASSUME NEW k \in Tasks, NewTimeout(k)
        PROVE  TasksInv'
    <2>1. task[k] \in Task /\ task[k].waits = {} /\ TryNext(k, task[k], msgs)
      BY <1>8 DEF TypeOK, TasksInv, NewTimeout
    <2> QED  BY <1>4, <1>8, <2>1
  <1>9. ASSUME NEW k \in Tasks, NEW n \in Nodes,
               \/ New(k, n) \/ Refuse(k, n)
               \/ \E p \in Peers : \/ DisconnectionRequest(k, p) \/ ConnectionRequest(k, n, p)
                                   \/ ConnectReply(k, n, p) \/ ConnectFails(k, n, p)
        PROVE  TasksInv'
    <2>1. UNCHANGED task
      BY <1>9 DEF New, Refuse, DisconnectionRequest, ConnectionRequest, ConnectReply, ConnectFails
    <2> QED  BY <1>1, <2>1
  <1>10. CASE UNCHANGED vars
    BY <1>1, <1>10 DEF vars
  <1> QED
    BY <1>3, <1>5, <1>6, <1>7, <1>8, <1>9, <1>10, OriginIsNode DEF Next, Handle

LEMMA TasksInit ==
  Init => TasksInv
  BY DEF Init, TasksInv

-----------------------------------------------------------------------------
(* The requests and answers among the messages, after some have come and   *)
(* gone.                                                                   *)
LEMMA RequestAdded ==
  ASSUME NEW k \in Tasks, NEW u \in Task, NEW ms, SentOn(k, u, ms),
         NEW j \in Tasks, NEW n \in Nodes
  PROVE  /\ Asked(j, n)' <=> ActorNew(j, n) \in ms \/ (j = k /\ n = u.to)
         /\ Taken(j, n)' <=> Answer(j, n, TRUE) \in ms
         /\ Refused(j, n)' <=> Answer(j, n, FALSE) \in ms
  <1>1. ActorNew(j, n) = ActorNew(k, u.to) <=> j = k /\ n = u.to
    BY RequestsDiffer
  <1>2. ActorNew(k, u.to) # Answer(j, n, TRUE) /\ ActorNew(k, u.to) # Answer(j, n, FALSE)
    BY DEF ActorNew, Answer
  <1>3. msgs' = ms \cup {ActorNew(k, u.to)}
    BY DEF SentOn
  <1> QED  BY <1>1, <1>2, <1>3 DEF Asked, Taken, Refused

LEMMA SameRequests ==
  ASSUME NEW t, NEW u, NEW ms, GivenUp(t, u, ms), NEW j \in Tasks, NEW n \in Nodes
  PROVE  /\ Asked(j, n)' <=> ActorNew(j, n) \in ms
         /\ Taken(j, n)' <=> Answer(j, n, TRUE) \in ms
         /\ Refused(j, n)' <=> Answer(j, n, FALSE) \in ms
  BY DEF GivenUp, Asked, Taken, Refused

LEMMA AnswerTaken ==
  ASSUME NEW k \in Tasks, NEW m \in Nodes, NEW b \in BOOLEAN,
         NEW j \in Tasks, NEW n \in Nodes
  PROVE  LET ms == msgs \ {Answer(k, m, b)} IN
         /\ ActorNew(j, n) \in ms <=> Asked(j, n)
         /\ Answer(j, n, TRUE) \in ms <=> Taken(j, n) /\ ~(j = k /\ n = m /\ b)
         /\ Answer(j, n, FALSE) \in ms <=> Refused(j, n) /\ ~(j = k /\ n = m /\ ~b)
  <1>1. /\ Answer(j, n, TRUE) = Answer(k, m, b) <=> j = k /\ n = m /\ b
        /\ Answer(j, n, FALSE) = Answer(k, m, b) <=> j = k /\ n = m /\ ~b
    BY DEF Answer
  <1>2. ActorNew(j, n) # Answer(k, m, b)
    BY RequestsDiffer
  <1> QED  BY <1>1, <1>2 DEF Asked, Taken, Refused

LEMMA DisconnectedTaken ==
  ASSUME NEW k \in Tasks, NEW p \in Peers, NEW j \in Tasks, NEW n \in Nodes
  PROVE  LET ms == msgs \ {Disconnected(k, p)} IN
         /\ ActorNew(j, n) \in ms <=> Asked(j, n)
         /\ Answer(j, n, TRUE) \in ms <=> Taken(j, n)
         /\ Answer(j, n, FALSE) \in ms <=> Refused(j, n)
  BY KindsDiffer DEF Asked, Taken, Refused

-----------------------------------------------------------------------------
(* The actor is handed over to a request of task k, from wherever it was.  *)
LEMMA HandedToRequest ==
  ASSUME AwaitedInv, HolderInv, NEW k \in Tasks, NEW u \in Task,
         task'[k] = u, \A j \in Tasks \ {k} : task'[j] = task[j],
         u.phase = "asking", UNCHANGED joining,
         \A n \in Nodes : joining[k][n] = {} /\ ~Here(n)',
         \A j \in Tasks, n \in Nodes :
           /\ Asked(j, n)' <=> j = k /\ n = u.to
           /\ Taken(j, n)' => Taken(j, n) /\ j # k
           /\ ~Refused(j, n)',
         \A j \in Tasks \ {k} : task[j].phase # "disconnecting"
  PROVE  AwaitedInv' /\ HolderInv'
  <1>1. \A j \in Tasks : task'[j].phase # "disconnecting"
    OBVIOUS
  <1>2. \A n \in Nodes : Asks(k, n)' <=> n = u.to
    BY DEF Asks
  <1>3. \A j \in Tasks \ {k}, n \in Nodes : Asks(j, n)' <=> Asks(j, n)
    BY DEF Asks
  <1>4. HolderInv'
    BY <1>1 DEF HolderInv
  <1>5. ASSUME NEW j \in Tasks, NEW n \in Nodes
        PROVE  /\ Asked(j, n)' => /\ Asks(j, n)' /\ joining'[j][n] = {}
                                  /\ ~Taken(j, n)' /\ ~Refused(j, n)'
               /\ joining'[j][n] # {} => Asks(j, n)' /\ ~Taken(j, n)' /\ ~Refused(j, n)'
               /\ Taken(j, n)' => Asks(j, n)' /\ ~Refused(j, n)'
               /\ Refused(j, n)' => Asks(j, n)'
    <2>1. CASE j = k
      BY <1>2, <1>5, <2>1
    <2>2. CASE j # k
      BY <1>3, <1>5, <2>2 DEF AwaitedInv
    <2> QED  BY <2>1, <2>2
  <1> QED  BY <1>4, <1>5 DEF AwaitedInv

(* Task k ends, and nothing is on its way for it any more.                 *)
LEMMA TaskEnds ==
  ASSUME AwaitedInv, HolderInv, NEW k \in Tasks,
         task'[k].phase \notin {"asking", "disconnecting"},
         \A j \in Tasks \ {k} : task'[j] = task[j], UNCHANGED joining,
         \A n \in Nodes : joining[k][n] = {} /\ ~Asked(k, n),
         \A n \in Nodes : Here(n)' => Here(n) /\ copy'[n] = copy[n],
         \A j \in Tasks, n \in Nodes :
           /\ Asked(j, n)' => Asked(j, n)
           /\ Taken(j, n)' => Taken(j, n) /\ j # k
           /\ Refused(j, n)' => Refused(j, n) /\ j # k,
         \A j \in Tasks \ {k} : task[j].phase = "disconnecting" => UNCHANGED copy
  PROVE  AwaitedInv' /\ HolderInv'
  <1>1. \A j \in Tasks \ {k}, n \in Nodes : Asks(j, n)' <=> Asks(j, n)
    BY DEF Asks
  <1>2. HolderInv'
    <2>1. \A m, n \in Nodes : Here(m)' /\ Here(n)' => m = n
      BY DEF HolderInv
    <2>2. \A i, j \in Tasks, m, n \in Nodes :
            /\ Asked(i, m)' /\ Asked(j, n)' => i = j /\ m = n
            /\ Asked(i, m)' => ~Here(n)'
            /\ Refused(j, n)' =>
                 ~Here(m)' /\ ~Asked(i, m)' /\ (Refused(i, m)' => j = i)
      BY DEF HolderInv
    <2>3. \A i, j \in Tasks :
            /\ task'[j].phase = "disconnecting" => copy'[task'[j].home].state = "moving"
            /\ task'[i].phase = "disconnecting" /\ task'[j].phase = "disconnecting" => i = j
      BY DEF HolderInv
    <2> QED  BY <2>1, <2>2, <2>3 DEF HolderInv
  <1>3. ASSUME NEW j \in Tasks, NEW n \in Nodes
        PROVE  /\ Asked(j, n)' => /\ Asks(j, n)' /\ joining'[j][n] = {}
                                  /\ ~Taken(j, n)' /\ ~Refused(j, n)'
               /\ joining'[j][n] # {} => Asks(j, n)' /\ ~Taken(j, n)' /\ ~Refused(j, n)'
               /\ Taken(j, n)' => Asks(j, n)' /\ ~Refused(j, n)'
               /\ Refused(j, n)' => Asks(j, n)'
    <2>1. CASE j = k
      BY <1>3, <2>1
    <2>2. CASE j # k
      BY <1>1, <1>3, <2>2 DEF AwaitedInv
    <2> QED  BY <2>1, <2>2
  <1> QED  BY <1>2, <1>3 DEF AwaitedInv

(* Nothing that matters changes.                                           *)
LEMMA HolderStays ==
  ASSUME AwaitedInv, HolderInv, UNCHANGED <<copy, joining>>,
         \A j \in Tasks : /\ task'[j].phase = task[j].phase /\ task'[j].to = task[j].to
                          /\ task'[j].home = task[j].home,
         \A j \in Tasks, n \in Nodes :
           /\ Asked(j, n)' <=> Asked(j, n)
           /\ Taken(j, n)' <=> Taken(j, n)
           /\ Refused(j, n)' <=> Refused(j, n)
  PROVE  AwaitedInv' /\ HolderInv'
  <1>1. \A j \in Tasks, n \in Nodes : Asks(j, n)' <=> Asks(j, n)
    BY DEF Asks
  <1>2. \A n \in Nodes : Here(n)' <=> Here(n)
    BY DEF Here
  <1>3. AwaitedInv'
    BY <1>1 DEF AwaitedInv
  <1>4. HolderInv'
    BY <1>2 DEF HolderInv
  <1> QED  BY <1>3, <1>4

-----------------------------------------------------------------------------
LEMMA FaultCounts ==
  ASSUME TypeOK, NEW f \in Faults, Fault(f)
  PROVE  /\ Total' = Total + 1
         /\ \A g \in Faults : faults'[g] >= faults[g]
         /\ faults'[f] > 0
  <1>1. \A g \in Faults : faults[g] \in Nat
    BY BoundAssumption DEF TypeOK
  <1>2. faults'[f] = faults[f] + 1 /\ \A g \in Faults \ {f} : faults'[g] = faults[g]
    BY DEF Fault, TypeOK
  <1> QED  BY <1>1, <1>2 DEF Total, Faults

LEMMA TotalIsNatural ==
  ASSUME TypeOK
  PROVE  Total \in Nat
  BY BoundAssumption DEF TypeOK, Total, Faults

LEMMA NoneLate ==
  ASSUME TypeOK, Total = 0
  PROVE  Undisturbed
  <1>1. /\ faults["refused"] \in Nat /\ faults["late"] \in Nat
        /\ faults["unlinked"] \in Nat /\ faults["unconnected"] \in Nat
    BY BoundAssumption DEF TypeOK, Faults
  <1>2. faults["refused"] + faults["late"] + faults["unlinked"] + faults["unconnected"] = 0
    BY DEF Total
  <1>3. ASSUME NEW a \in Nat, NEW b \in Nat, NEW c \in Nat, NEW d \in Nat, a + b + c + d = 0
        PROVE  b = 0 /\ d = 0
    BY <1>3
  <1>4. faults["late"] = 0 /\ faults["unconnected"] = 0
    BY <1>1, <1>2, <1>3, Zenon
  <1> QED  BY <1>4 DEF Undisturbed

LEMMA SameFaults ==
  UNCHANGED faults => Total' = Total /\ Undisturbed' = Undisturbed /\ Regular' = Regular
  BY DEF Total, Undisturbed, Regular

(* A step leaves the counts of faults as they are, or counts another one.  *)
LEMMA FaultsGrow ==
  ASSUME TypeOK, [Next]_vars
  PROVE  /\ Total' = Total \/ Total' = Total + 1
         /\ \A g \in Faults : faults'[g] >= faults[g]
         /\ Undisturbed' => Undisturbed
         /\ Regular' => Regular
  <1>1. UNCHANGED faults \/ \E f \in Faults : Fault(f)
    BY DEF Next, Handle, vars, Faults, DisconnectionRequest, DisconnectReply, New, NewReply,
           ConnectionRequest, ConnectReply, RobustMigrate, Refuse, ConnectFails,
           DisconnectFails, NewTimeout
  <1>2. \A g \in Faults : faults[g] \in Nat
    BY BoundAssumption DEF TypeOK
  <1>3. CASE UNCHANGED faults
    BY <1>2, <1>3, SameFaults
  <1>4. CASE \E f \in Faults : Fault(f)
    <2>1. PICK f \in Faults : Fault(f)
      BY <1>4
    <2>2. Total' = Total + 1 /\ \A g \in Faults : faults'[g] >= faults[g]
      BY <2>1, FaultCounts
    <2>3. \A g \in Faults : faults'[g] = 0 => faults[g] = 0
      BY <1>2, <2>2
    <2> QED  BY <2>2, <2>3 DEF Undisturbed, Regular, Faults
  <1> QED  BY <1>1, <1>3, <1>4

-----------------------------------------------------------------------------
LEMMA PlaceByRobustMigrate ==
  ASSUME TypeOK, TasksInv, AwaitedInv, HolderInv,
         NEW k \in Tasks, NEW h \in Nodes, NEW targets \in TargetLists(h),
         RobustMigrate(k, h, targets)
  PROVE  AwaitedInv' /\ HolderInv'
  <1> DEFINE t == [task[k] EXCEPT !.home = h, !.left = targets]
  <1>1. targets \in Seq(Nodes) /\ task[k] \in Task /\ task[k].phase = "idle"
    <2>1. targets \in Seq(Nodes)
      BY DEF TargetLists, SeqOf
    <2>2. task[k].phase = "idle"
      BY DEF RobustMigrate
    <2> QED  BY <2>1, <2>2 DEF TypeOK
  <1>2. t \in Task /\ t.waits = {} /\ ~t.kept /\ t.home = h
    BY <1>1 DEF Task, TasksInv
  <1>3. TryNext(k, t, msgs) /\ UNCHANGED joining
    BY DEF RobustMigrate
  <1> HIDE DEF t
  <1>4. PICK u \in Task :
          /\ Changed(k, u) /\ u.home = t.home
          /\ \/ SentOn(k, u, msgs) /\ UNCHANGED copy /\ t.kept
             \/ GivenUp(t, u, msgs)
             \/ ~t.kept /\ copy[t.home].state = "ready" /\ Disconnecting(k, u, msgs)
             \/ /\ ~t.kept /\ copy[t.home].state = "ready" /\ SentOn(k, u, msgs)
                /\ Destroyed(u) /\ u.kept
    BY <1>2, <1>3, TryNextCases
  <1>5. task'[k] = u /\ \A j \in Tasks \ {k} : task'[j] = task[j]
    BY <1>4, ChangedTask
  <1>6. \A n \in Nodes : ~Asked(k, n) /\ joining[k][n] = {} /\ ~Taken(k, n) /\ ~Refused(k, n)
    BY <1>1 DEF AwaitedInv, Asks
  <1>7. CASE GivenUp(t, u, msgs)
    <2>1. UNCHANGED copy /\ msgs' = msgs /\ u.phase \notin {"asking", "disconnecting"}
      BY <1>7 DEF GivenUp
    <2>2. \A j \in Tasks, n \in Nodes :
            (Asked(j, n)' <=> Asked(j, n)) /\ (Taken(j, n)' <=> Taken(j, n))
              /\ (Refused(j, n)' <=> Refused(j, n))
      BY <2>1 DEF Asked, Taken, Refused
    <2>3. \A n \in Nodes : Here(n)' => Here(n) /\ copy'[n] = copy[n]
      BY <2>1 DEF Here
    <2>4. \A j \in Tasks, n \in Nodes : Taken(j, n) \/ Refused(j, n) => j # k
      BY <1>6
    <2> QED  BY <1>3, <1>5, <1>6, <2>1, <2>2, <2>3, <2>4, TaskEnds
  <1>8. CASE copy[h].state = "ready"
    <2>1. Here(h) /\ \A n \in Nodes : Here(n) => n = h
      BY <1>8 DEF Here, HolderInv
    <2>2. \A j \in Tasks, n \in Nodes : ~Asked(j, n) /\ ~Refused(j, n)
      BY <2>1 DEF HolderInv
    <2>3. \A j \in Tasks : task[j].phase # "disconnecting"
      <3>1. \A j \in Tasks : task[j].home \in Nodes
        BY DEF TypeOK, Task
      <3> QED  BY <1>8, <2>1, <3>1 DEF HolderInv, Here
    <2>4. CASE Disconnecting(k, u, msgs)
      <3> DEFINE ds == {Disconnect(k, p) : p \in copy[u.home].linked}
      <3>1. /\ u.phase = "disconnecting" /\ u.home = h /\ msgs' = msgs \cup ds
            /\ copy' = [copy EXCEPT ![h] = [@ EXCEPT !.state = "moving", !.linked = {}]]
        BY <1>2, <1>4, <2>4 DEF Disconnecting
      <3>2. /\ copy'[h].state = "moving" /\ \A n \in Nodes \ {h} : copy'[n] = copy[n]
        BY <3>1 DEF TypeOK, Copy
      <3>3. \A n \in Nodes : Here(n)' <=> n = h
        BY <2>1, <3>2 DEF Here
      <3>4. \A j \in Tasks, n \in Nodes :
              ActorNew(j, n) \notin ds /\ Answer(j, n, TRUE) \notin ds /\ Answer(j, n, FALSE) \notin ds
        BY DEF ActorNew, Answer, Disconnect
      <3> HIDE DEF ds
      <3>5. \A j \in Tasks, n \in Nodes :
              ~Asked(j, n)' /\ ~Refused(j, n)' /\ (Taken(j, n)' <=> Taken(j, n))
        BY <2>2, <3>1, <3>4 DEF Asked, Taken, Refused
      <3>6. \A j \in Tasks \ {k}, n \in Nodes : Asks(j, n)' <=> Asks(j, n)
        BY <1>5 DEF Asks
      <3>7. \A j \in Tasks, n \in Nodes :
              /\ joining'[j][n] # {} => Asks(j, n)' /\ ~Taken(j, n)'
              /\ Taken(j, n)' => Asks(j, n)'
        BY <1>3, <1>6, <3>5, <3>6 DEF AwaitedInv
      <3>8. AwaitedInv'
        BY <3>5, <3>7 DEF AwaitedInv
      <3>9. HolderInv'
        BY <1>5, <2>3, <3>1, <3>2, <3>3, <3>5 DEF HolderInv
      <3> QED  BY <3>8, <3>9
    <2>5. CASE SentOn(k, u, msgs) /\ Destroyed(u)
      <3>1. u.phase = "asking"
        BY <2>5 DEF SentOn
      <3>2. \A n \in Nodes : ~Here(n)'
        BY <1>2, <1>4, <2>1, <2>5 DEF Here, Destroyed, NoCopy, TypeOK
      <3>3. ASSUME NEW j \in Tasks, NEW n \in Nodes
            PROVE  /\ Asked(j, n)' <=> j = k /\ n = u.to
                   /\ Taken(j, n)' <=> Taken(j, n)
                   /\ Refused(j, n)' <=> Refused(j, n)
        <4>1. /\ Asked(j, n)' <=> ActorNew(j, n) \in msgs \/ (j = k /\ n = u.to)
              /\ Taken(j, n)' <=> Answer(j, n, TRUE) \in msgs
              /\ Refused(j, n)' <=> Answer(j, n, FALSE) \in msgs
          BY <2>5, <3>3, RequestAdded
        <4>2. ActorNew(j, n) \notin msgs
          BY <2>2, <3>3 DEF Asked
        <4> QED  BY <4>1, <4>2 DEF Taken, Refused
      <3> QED  BY <1>3, <1>5, <1>6, <2>2, <2>3, <3>1, <3>2, <3>3, HandedToRequest
    <2> QED  BY <1>2, <1>4, <1>7, <2>4, <2>5
  <1> QED  BY <1>2, <1>4, <1>7, <1>8

LEMMA PlaceByNewReply ==
  ASSUME TypeOK, TasksInv, AwaitedInv, HolderInv,
         NEW k \in Tasks, NEW h \in Nodes, NEW ok \in BOOLEAN, NewReply(k, h, ok)
  PROVE  AwaitedInv' /\ HolderInv'
  <1> DEFINE ms == msgs \ {Answer(k, h, ok)}
  <1>1. IF ok THEN Taken(k, h) ELSE Refused(k, h)
    BY DEF NewReply, Taken, Refused
  <1>2. Asks(k, h) /\ UNCHANGED joining
    BY <1>1 DEF AwaitedInv, NewReply
  <1>3. \A n \in Nodes : Asks(k, n) <=> n = h
    BY <1>2 DEF Asks
  <1>4. \A n \in Nodes : ~Asked(k, n) /\ joining[k][n] = {}
    BY <1>1, <1>3 DEF AwaitedInv
  <1>5. ASSUME NEW j \in Tasks, NEW n \in Nodes
        PROVE  /\ ActorNew(j, n) \in ms <=> Asked(j, n)
               /\ Answer(j, n, TRUE) \in ms => Taken(j, n) /\ j # k
               /\ Answer(j, n, FALSE) \in ms => Refused(j, n) /\ j # k
    <2>1. /\ ActorNew(j, n) \in ms <=> Asked(j, n)
          /\ Answer(j, n, TRUE) \in ms <=> Taken(j, n) /\ ~(j = k /\ n = h /\ ok)
          /\ Answer(j, n, FALSE) \in ms <=> Refused(j, n) /\ ~(j = k /\ n = h /\ ~ok)
      BY <1>5, AnswerTaken
    <2>2. Taken(k, n) => n = h /\ ok
      BY <1>1, <1>3, <1>5 DEF AwaitedInv
    <2>3. Refused(k, n) => n = h /\ ~ok
      BY <1>1, <1>3, <1>5 DEF AwaitedInv
    <2> HIDE DEF ms
    <2> QED  BY <2>1, <2>2, <2>3
  <1> HIDE DEF ms
  <1>6. CASE ok
    <2>1. CASE /\ task' = [task EXCEPT ![k].phase = "moved"] /\ msgs' = ms /\ UNCHANGED copy
      <3>1. task'[k].phase = "moved" /\ \A j \in Tasks \ {k} : task'[j] = task[j]
        BY <2>1 DEF TypeOK, Task
      <3>2. \A j \in Tasks, n \in Nodes :
              /\ Asked(j, n)' => Asked(j, n)
              /\ Taken(j, n)' => Taken(j, n) /\ j # k
              /\ Refused(j, n)' => Refused(j, n) /\ j # k
        BY <1>5, <2>1 DEF Asked, Taken, Refused
      <3>3. \A n \in Nodes : Here(n)' => Here(n) /\ copy'[n] = copy[n]
        BY <2>1 DEF Here
      <3> QED  BY <1>2, <1>4, <2>1, <3>1, <3>2, <3>3, TaskEnds
    <2> QED  BY <1>2, <1>6, <2>1 DEF NewReply, ms
  <1>7. CASE ~ok
    <2>1. TryNext(k, task[k], ms)
      BY <1>2, <1>7 DEF NewReply, ms
    <2>2. task[k] \in Task /\ task[k].waits = {} /\ task[k].home \in Nodes
      BY <1>2 DEF TypeOK, Task, TasksInv, Asks
    <2>3. /\ \A n \in Nodes : ~Here(n)
          /\ \A j \in Tasks, n \in Nodes : ~Asked(j, n) /\ (Refused(j, n) => j = k)
      BY <1>1, <1>7 DEF HolderInv
    <2>4. copy[task[k].home].state # "ready"
      BY <2>2, <2>3 DEF Here
    <2>5. PICK u \in Task :
            Changed(k, u) /\ ((SentOn(k, u, ms) /\ UNCHANGED copy) \/ GivenUp(task[k], u, ms))
      BY <2>1, <2>2, <2>4, TryNextCases
    <2>6. task'[k] = u /\ \A j \in Tasks \ {k} : task'[j] = task[j]
      BY <2>5, ChangedTask
    <2>7. UNCHANGED copy
      BY <2>5 DEF GivenUp
    <2>8. \A n \in Nodes : ~Here(n)'
      BY <2>3, <2>7 DEF Here
    <2>9. CASE SentOn(k, u, ms)
      <3>1. ASSUME NEW j \in Tasks, NEW n \in Nodes
            PROVE  /\ Asked(j, n)' <=> j = k /\ n = u.to
                   /\ Taken(j, n)' => Taken(j, n) /\ j # k
                   /\ ~Refused(j, n)'
        <4>1. /\ Asked(j, n)' <=> ActorNew(j, n) \in ms \/ (j = k /\ n = u.to)
              /\ Taken(j, n)' <=> Answer(j, n, TRUE) \in ms
              /\ Refused(j, n)' <=> Answer(j, n, FALSE) \in ms
          BY <2>9, <3>1, RequestAdded
        <4> QED  BY <1>5, <2>3, <3>1, <4>1
      <3>2. \A j \in Tasks \ {k} : task[j].phase # "disconnecting"
        <4>1. \A j \in Tasks : task[j].home \in Nodes
          BY DEF TypeOK, Task
        <4> QED  BY <2>3, <4>1 DEF HolderInv, Here
      <3>3. u.phase = "asking"
        BY <2>9 DEF SentOn
      <3> QED  BY <1>2, <1>4, <2>6, <2>8, <3>1, <3>2, <3>3, HandedToRequest
    <2>10. CASE GivenUp(task[k], u, ms)
      <3>1. ASSUME NEW j \in Tasks, NEW n \in Nodes
            PROVE  /\ Asked(j, n)' => Asked(j, n)
                   /\ Taken(j, n)' => Taken(j, n) /\ j # k
                   /\ Refused(j, n)' => Refused(j, n) /\ j # k
        <4>1. /\ Asked(j, n)' <=> ActorNew(j, n) \in ms
              /\ Taken(j, n)' <=> Answer(j, n, TRUE) \in ms
              /\ Refused(j, n)' <=> Answer(j, n, FALSE) \in ms
          BY <2>10, <3>1, SameRequests
        <4> QED  BY <1>5, <3>1, <4>1
      <3>2. u.phase \notin {"asking", "disconnecting"}
        BY <2>10 DEF GivenUp
      <3> QED  BY <1>2, <1>4, <2>6, <2>7, <2>8, <3>1, <3>2, TaskEnds
    <2> QED  BY <2>5, <2>9, <2>10
  <1> QED  BY <1>6, <1>7

-----------------------------------------------------------------------------
(* A task that waits for its disconnects has the actor at its home.        *)
LEMMA AtHome ==
  ASSUME TypeOK, AwaitedInv, HolderInv, NEW k \in Tasks, task[k].phase = "disconnecting"
  PROVE  /\ task[k].home \in Nodes
         /\ \A n \in Nodes : Here(n) <=> n = task[k].home
         /\ \A j \in Tasks, n \in Nodes : ~Asked(j, n) /\ ~Refused(j, n)
         /\ \A j \in Tasks \ {k} : task[j].phase # "disconnecting"
         /\ \A n \in Nodes : joining[k][n] = {} /\ ~Taken(k, n)
  <1>1. task[k].home \in Nodes
    BY DEF TypeOK, Task
  <1>2. Here(task[k].home) /\ \A n \in Nodes : Here(n) => n = task[k].home
    BY <1>1 DEF HolderInv, Here
  <1>3. \A j \in Tasks, n \in Nodes : ~Asked(j, n) /\ ~Refused(j, n)
    BY <1>1, <1>2 DEF HolderInv
  <1>4. \A n \in Nodes : joining[k][n] = {} /\ ~Taken(k, n)
    BY DEF AwaitedInv, Asks
  <1>5. \A j \in Tasks \ {k} : task[j].phase # "disconnecting"
    BY DEF HolderInv
  <1> QED  BY <1>1, <1>2, <1>3, <1>4, <1>5

(* Its actor is destroyed and sent on.                                     *)
LEMMA PlaceByDestroying ==
  ASSUME TypeOK, TasksInv, AwaitedInv, HolderInv,
         NEW k \in Tasks, task[k].phase = "disconnecting", NEW u \in Task, NEW ms,
         Changed(k, u), u.home = task[k].home, SentOn(k, u, ms), Destroyed(u),
         UNCHANGED joining,
         \A j \in Tasks, n \in Nodes :
           /\ ActorNew(j, n) \in ms <=> Asked(j, n)
           /\ Answer(j, n, TRUE) \in ms <=> Taken(j, n)
           /\ Answer(j, n, FALSE) \in ms <=> Refused(j, n)
  PROVE  AwaitedInv' /\ HolderInv'
  <1>1. task'[k] = u /\ \A j \in Tasks \ {k} : task'[j] = task[j]
    BY ChangedTask
  <1>2. \A n \in Nodes : ~Here(n)'
    BY AtHome DEF Here, Destroyed, NoCopy, TypeOK
  <1>3. ASSUME NEW j \in Tasks, NEW n \in Nodes
        PROVE  /\ Asked(j, n)' <=> j = k /\ n = u.to
               /\ Taken(j, n)' => Taken(j, n) /\ j # k
               /\ ~Refused(j, n)'
    <2>1. /\ Asked(j, n)' <=> ActorNew(j, n) \in ms \/ (j = k /\ n = u.to)
          /\ Taken(j, n)' <=> Answer(j, n, TRUE) \in ms
          /\ Refused(j, n)' <=> Answer(j, n, FALSE) \in ms
      BY <1>3, RequestAdded
    <2> QED  BY <1>3, <2>1, AtHome
  <1>4. u.phase = "asking"
    BY DEF SentOn
  <1> QED  BY AtHome, <1>1, <1>2, <1>3, <1>4, HandedToRequest

LEMMA PlaceByDisconnectReply ==
  ASSUME TypeOK, TasksInv, AwaitedInv, HolderInv,
         NEW k \in Tasks, NEW p \in Peers, DisconnectReply(k, p)
  PROVE  AwaitedInv' /\ HolderInv'
  <1> DEFINE ms == msgs \ {Disconnected(k, p)}
  <1>1. ASSUME NEW j \in Tasks, NEW n \in Nodes
        PROVE  /\ ActorNew(j, n) \in ms <=> Asked(j, n)
               /\ Answer(j, n, TRUE) \in ms <=> Taken(j, n)
               /\ Answer(j, n, FALSE) \in ms <=> Refused(j, n)
    BY <1>1, DisconnectedTaken
  <1>2. UNCHANGED joining /\ task[k] \in Task
    BY DEF DisconnectReply, TypeOK
  <1> HIDE DEF ms
  <1>3. CASE AllDisconnected(k, p) /\ DestroyAndAsk(k, task[k], ms)
    <2>1. task[k].phase = "disconnecting"
      BY <1>3 DEF AllDisconnected, TasksInv
    <2>2. PICK u \in Task :
            Changed(k, u) /\ u.home = task[k].home /\ SentOn(k, u, ms) /\ Destroyed(u) /\ u.kept
      BY <1>2, <1>3, DestroyCases
    <2> QED  BY <1>1, <1>2, <2>1, <2>2, PlaceByDestroying
  <1>4. CASE /\ task' = [task EXCEPT ![k].waits = @ \ {p}] /\ msgs' = ms /\ UNCHANGED copy
    <2>1. \A j \in Tasks : /\ task'[j].phase = task[j].phase /\ task'[j].to = task[j].to
                           /\ task'[j].home = task[j].home
      BY <1>4 DEF TypeOK, Task
    <2>2. \A j \in Tasks, n \in Nodes :
            /\ Asked(j, n)' <=> Asked(j, n)
            /\ Taken(j, n)' <=> Taken(j, n)
            /\ Refused(j, n)' <=> Refused(j, n)
      BY <1>1, <1>4 DEF Asked, Taken, Refused
    <2> QED  BY <1>2, <1>4, <2>1, <2>2, HolderStays
  <1> QED  BY <1>3, <1>4 DEF DisconnectReply, ms

LEMMA PlaceByDisconnectFails ==
  ASSUME TypeOK, TasksInv, AwaitedInv, HolderInv, NEW k \in Tasks, DisconnectFails(k)
  PROVE  AwaitedInv' /\ HolderInv'
  <1> DEFINE t == [task[k] EXCEPT !.kept = TRUE, !.gone = TRUE, !.waits = {}]
  <1>1. t \in Task /\ t.waits = {} /\ t.kept /\ t.home = task[k].home
    BY DEF TypeOK, Task
  <1>2. /\ task' = [task EXCEPT ![k] = HandedOn(t)] /\ msgs' = msgs \cup NextRequest(k, t)
        /\ copy' = [copy EXCEPT ![t.home] = NoCopy] /\ UNCHANGED joining
    BY DEF DisconnectFails
  <1>3. task[k].phase = "disconnecting"
    BY DEF DisconnectFails, TasksInv
  <1> HIDE DEF t
  <1>4. PICK u \in Task :
          /\ Changed(k, u) /\ u.home = t.home
          /\ \/ SentOn(k, u, msgs)
             \/ u.phase = "returned" /\ u.kept /\ u.waits = {} /\ msgs' = msgs
    BY <1>1, <1>2, HandedOnCases
  <1>5. Destroyed(u)
    BY <1>2, <1>4 DEF Destroyed
  <1>6. CASE SentOn(k, u, msgs)
    <2>1. \A j \in Tasks, n \in Nodes :
            /\ ActorNew(j, n) \in msgs <=> Asked(j, n)
            /\ Answer(j, n, TRUE) \in msgs <=> Taken(j, n)
            /\ Answer(j, n, FALSE) \in msgs <=> Refused(j, n)
      BY DEF Asked, Taken, Refused
    <2> QED  BY <1>1, <1>2, <1>3, <1>4, <1>5, <1>6, <2>1, PlaceByDestroying
  <1>7. CASE u.phase = "returned" /\ msgs' = msgs
    <2>1. task'[k] = u /\ \A j \in Tasks \ {k} : task'[j] = task[j]
      BY <1>4, ChangedTask
    <2>2. \A n \in Nodes : ~Here(n)'
      BY <1>1, <1>2, <1>3, AtHome DEF Here, NoCopy, TypeOK
    <2>3. \A j \in Tasks, n \in Nodes :
            /\ Asked(j, n)' => Asked(j, n)
            /\ Taken(j, n)' => Taken(j, n) /\ j # k
            /\ Refused(j, n)' => Refused(j, n) /\ j # k
      BY <1>3, <1>7, AtHome DEF Asked, Taken, Refused
    <2> QED  BY <1>2, <1>3, <1>7, <2>1, <2>2, <2>3, AtHome, TaskEnds
  <1> QED  BY <1>4, <1>6, <1>7

(* A runtime is asked: nobody has the actor, and nobody else is asked.     *)
LEMMA OnlyAsked ==
  ASSUME TypeOK, AwaitedInv, HolderInv, NEW k \in Tasks, NEW n \in Nodes, Asked(k, n)
  PROVE  /\ Asks(k, n) /\ joining[k][n] = {} /\ ~Taken(k, n)
         /\ \A m \in Nodes : ~Here(m)
         /\ \A j \in Tasks, m \in Nodes : (Asked(j, m) => j = k /\ m = n) /\ ~Refused(j, m)
         /\ \A j \in Tasks : task[j].phase # "disconnecting"
  <1>1. Asks(k, n) /\ joining[k][n] = {} /\ ~Taken(k, n)
    BY DEF AwaitedInv
  <1>2. \A m \in Nodes : ~Here(m)
    BY DEF HolderInv
  <1>3. \A j \in Tasks, m \in Nodes : (Asked(j, m) => j = k /\ m = n) /\ ~Refused(j, m)
    BY DEF HolderInv
  <1>4. \A j \in Tasks : task[j].home \in Nodes
    BY DEF TypeOK, Task
  <1>5. \A j \in Tasks : task[j].phase # "disconnecting"
    BY <1>2, <1>4 DEF HolderInv, Here
  <1> QED  BY <1>1, <1>2, <1>3, <1>5

LEMMA PlaceByNew ==
  ASSUME TypeOK, AwaitedInv, HolderInv, NEW k \in Tasks, NEW n \in Nodes, New(k, n)
  PROVE  AwaitedInv' /\ HolderInv'
  <1> DEFINE cs == {Connect(k, n, p) : p \in Peers}
  <1>1. Asked(k, n) /\ UNCHANGED task
    BY DEF New, Asked
  <1>2. msgs' = (msgs \ {ActorNew(k, n)}) \cup cs
    BY DEF New
  <1>3. \A j \in Tasks, m \in Nodes : ActorNew(j, m) = ActorNew(k, n) <=> j = k /\ m = n
    BY RequestsDiffer
  <1>4. \A j \in Tasks, m \in Nodes :
          Answer(j, m, TRUE) # ActorNew(k, n) /\ Answer(j, m, FALSE) # ActorNew(k, n)
    BY DEF Answer, ActorNew
  <1>5. \A j \in Tasks, m \in Nodes :
          ActorNew(j, m) \notin cs /\ Answer(j, m, TRUE) \notin cs /\ Answer(j, m, FALSE) \notin cs
    BY DEF ActorNew, Answer, Connect
  <1> HIDE DEF cs
  <1>6. ASSUME NEW j \in Tasks, NEW m \in Nodes
        PROVE  ~Asked(j, m)' /\ (Taken(j, m)' <=> Taken(j, m)) /\ ~Refused(j, m)'
    <2>1. Asked(j, m)' <=> Asked(j, m) /\ ~(j = k /\ m = n)
      BY <1>2, <1>3, <1>5, <1>6 DEF Asked
    <2>2. (Taken(j, m)' <=> Taken(j, m)) /\ (Refused(j, m)' <=> Refused(j, m))
      BY <1>2, <1>4, <1>5, <1>6 DEF Taken, Refused
    <2> QED  BY <1>1, <1>6, <2>1, <2>2, OnlyAsked
  <1>7. \A m \in Nodes : Here(m)' => m = n
    <2>1. \A m \in Nodes \ {n} : copy'[m] = copy[m]
      BY DEF New, TypeOK
    <2> QED  BY <1>1, <2>1, OnlyAsked DEF Here
  <1>8. \A j \in Tasks : task'[j].phase # "disconnecting"
    BY <1>1, OnlyAsked
  <1>9. HolderInv'
    BY <1>6, <1>7, <1>8 DEF HolderInv
  <1>10. \A j \in Tasks, m \in Nodes : Asks(j, m)' <=> Asks(j, m)
    BY <1>1 DEF Asks
  <1>11. \A j \in Tasks, m \in Nodes : joining'[j][m] = joining[j][m] \/ (j = k /\ m = n)
    BY DEF New, TypeOK
  <1>12. ASSUME NEW j \in Tasks, NEW m \in Nodes
         PROVE  /\ joining'[j][m] # {} => Asks(j, m)' /\ ~Taken(j, m)'
                /\ Taken(j, m)' => Asks(j, m)'
    <2>1. CASE j = k /\ m = n
      BY <1>1, <1>6, <1>10, <1>12, <2>1, OnlyAsked
    <2>2. CASE ~(j = k /\ m = n)
      BY <1>6, <1>10, <1>11, <1>12, <2>2 DEF AwaitedInv
    <2> QED  BY <2>1, <2>2
  <1>13. AwaitedInv'
    BY <1>6, <1>12 DEF AwaitedInv
  <1> QED  BY <1>9, <1>13

LEMMA PlaceByRefuse ==
  ASSUME TypeOK, AwaitedInv, HolderInv, NEW k \in Tasks, NEW n \in Nodes, Refuse(k, n)
  PROVE  AwaitedInv' /\ HolderInv'
  <1>1. Asked(k, n) /\ UNCHANGED <<copy, task, joining>>
    BY DEF Refuse, Asked
  <1>2. msgs' = (msgs \ {ActorNew(k, n)}) \cup {Answer(k, n, FALSE)}
    BY DEF Refuse
  <1>3. \A j \in Tasks, m \in Nodes :
          /\ ActorNew(j, m) = ActorNew(k, n) <=> j = k /\ m = n
          /\ Answer(j, m, FALSE) = Answer(k, n, FALSE) <=> j = k /\ m = n
    BY DEF ActorNew, Answer
  <1>4. \A j \in Tasks, m \in Nodes :
          /\ ActorNew(j, m) # Answer(k, n, FALSE)
          /\ Answer(j, m, TRUE) # ActorNew(k, n) /\ Answer(j, m, FALSE) # ActorNew(k, n)
          /\ Answer(j, m, TRUE) # Answer(k, n, FALSE)
    BY DEF Answer, ActorNew
  <1>5. ASSUME NEW j \in Tasks, NEW m \in Nodes
        PROVE  /\ ~Asked(j, m)' /\ (Taken(j, m)' <=> Taken(j, m))
               /\ Refused(j, m)' <=> j = k /\ m = n
    <2>1. Asked(j, m)' <=> Asked(j, m) /\ ~(j = k /\ m = n)
      BY <1>2, <1>3, <1>4, <1>5 DEF Asked
    <2>2. Taken(j, m)' <=> Taken(j, m)
      BY <1>2, <1>4, <1>5 DEF Taken
    <2>3. Refused(j, m)' <=> Refused(j, m) \/ (j = k /\ m = n)
      BY <1>2, <1>3, <1>4, <1>5 DEF Refused
    <2> QED  BY <1>1, <1>5, <2>1, <2>2, <2>3, OnlyAsked
  <1>6. \A m \in Nodes : ~Here(m)'
    BY <1>1, OnlyAsked DEF Here
  <1>7. \A j \in Tasks : task'[j].phase # "disconnecting"
    BY <1>1, OnlyAsked
  <1>8. HolderInv'
    BY <1>5, <1>6, <1>7 DEF HolderInv
  <1>9. \A j \in Tasks, m \in Nodes : Asks(j, m)' <=> Asks(j, m)
    BY <1>1 DEF Asks
  <1>10. Asks(k, n) /\ joining[k][n] = {} /\ ~Taken(k, n)
    BY <1>1, OnlyAsked
  <1>11. \A j \in Tasks, m \in Nodes :
           /\ joining[j][m] # {} => Asks(j, m) /\ ~Taken(j, m)
           /\ Taken(j, m) => Asks(j, m)
    BY DEF AwaitedInv
  <1>12. AwaitedInv'
    BY <1>1, <1>5, <1>9, <1>10, <1>11 DEF AwaitedInv
  <1> QED  BY <1>8, <1>12

LEMMA PlaceByConnectReply ==
  ASSUME TypeOK, AwaitedInv, HolderInv,
         NEW k \in Tasks, NEW n \in Nodes, NEW p \in Peers, ConnectReply(k, n, p)
  PROVE  AwaitedInv' /\ HolderInv'
  <1> DEFINE ms == msgs \ {Connected(k, n, p)}
             as == {Answer(k, n, a) : a \in {b \in {TRUE} : joining[k][n] = {p} /\ Here(n)}}
  <1>1. UNCHANGED task /\ ActorConnected(k, n, p, TRUE, ms)
    BY DEF ConnectReply
  <1>2. msgs' = ms \cup as
    BY <1>1 DEF ActorConnected, Answers, Here
  <1>3. joining' = [joining EXCEPT ![k][n] = @ \ {p}]
    BY <1>1 DEF ActorConnected
  <1>4. \A m \in Nodes : (Here(m)' <=> Here(m))
                         /\ (copy'[m].state = "moving" <=> copy[m].state = "moving")
    BY <1>1 DEF ActorConnected, Here, TypeOK, Copy
  <1>5. ASSUME NEW j \in Tasks, NEW m \in Nodes
        PROVE  /\ ActorNew(j, m) \in ms <=> Asked(j, m)
               /\ Answer(j, m, TRUE) \in ms <=> Taken(j, m)
               /\ Answer(j, m, FALSE) \in ms <=> Refused(j, m)
    <2>1. /\ ActorNew(j, m) # Connected(k, n, p) /\ Answer(j, m, TRUE) # Connected(k, n, p)
          /\ Answer(j, m, FALSE) # Connected(k, n, p)
      BY DEF ActorNew, Answer, Connected
    <2> QED  BY <1>5, <2>1 DEF Asked, Taken, Refused
  <1>6. \A j \in Tasks, m \in Nodes :
          /\ ActorNew(j, m) \notin as /\ Answer(j, m, FALSE) \notin as
          /\ Answer(j, m, TRUE) \in as => j = k /\ m = n /\ joining[k][n] = {p}
    BY DEF ActorNew, Answer
  <1> HIDE DEF ms, as
  <1>7. ASSUME NEW j \in Tasks, NEW m \in Nodes
        PROVE  /\ Asked(j, m)' <=> Asked(j, m)
               /\ Refused(j, m)' <=> Refused(j, m)
               /\ Taken(j, m)' => Taken(j, m) \/ (j = k /\ m = n /\ joining[k][n] = {p})
    BY <1>2, <1>5, <1>6, <1>7 DEF Asked, Taken, Refused
  <1>8. \A j \in Tasks, m \in Nodes : Asks(j, m)' <=> Asks(j, m)
    BY <1>1 DEF Asks
  <1>9. \A j \in Tasks, m \in Nodes :
          \/ joining'[j][m] = joining[j][m] /\ ~(j = k /\ m = n)
          \/ j = k /\ m = n /\ joining'[j][m] = joining[j][m] \ {p}
    BY <1>3 DEF TypeOK
  <1>10. HolderInv'
    <2>1. \A j \in Tasks : task[j].home \in Nodes
      BY DEF TypeOK, Task
    <2> QED  BY <1>1, <1>4, <1>7, <2>1 DEF HolderInv
  <1>11. ASSUME NEW j \in Tasks, NEW m \in Nodes
         PROVE  /\ Asked(j, m)' => /\ Asks(j, m)' /\ joining'[j][m] = {}
                                   /\ ~Taken(j, m)' /\ ~Refused(j, m)'
                /\ joining'[j][m] # {} => Asks(j, m)' /\ ~Taken(j, m)' /\ ~Refused(j, m)'
                /\ Taken(j, m)' => Asks(j, m)' /\ ~Refused(j, m)'
                /\ Refused(j, m)' => Asks(j, m)'
    BY <1>7, <1>8, <1>9, <1>11 DEF AwaitedInv
  <1>12. AwaitedInv'
    BY <1>11 DEF AwaitedInv
  <1> QED  BY <1>10, <1>12

(* The peers disconnect and connect.                                       *)
LEMMA PlaceByPeers ==
  ASSUME TypeOK, AwaitedInv, HolderInv, NEW k \in Tasks, NEW n \in Nodes, NEW p \in Peers,
         DisconnectionRequest(k, p) \/ ConnectionRequest(k, n, p)
  PROVE  AwaitedInv' /\ HolderInv'
  <1>1. UNCHANGED <<copy, joining>> /\ UNCHANGED task
    BY DEF DisconnectionRequest, ConnectionRequest
  <1>2. ASSUME NEW j \in Tasks, NEW m \in Nodes
        PROVE  /\ Asked(j, m)' <=> Asked(j, m)
               /\ Taken(j, m)' <=> Taken(j, m)
               /\ Refused(j, m)' <=> Refused(j, m)
    <2> DEFINE ports == {Disconnect(k, p), Disconnected(k, p), Connect(k, n, p), Connected(k, n, p)}
    <2>1. ActorNew(j, m) \notin ports /\ Answer(j, m, TRUE) \notin ports /\ Answer(j, m, FALSE) \notin ports
      BY DEF ActorNew, Answer, Disconnect, Disconnected, Connect, Connected
    <2> QED
      BY <2>1 DEF Asked, Taken, Refused, DisconnectionRequest, ConnectionRequest
  <1> QED  BY <1>1, <1>2, HolderStays

-----------------------------------------------------------------------------
LEMMA PlaceNext ==
  TypeOK /\ TasksInv /\ (Undisturbed => AwaitedInv /\ HolderInv) /\ [Next]_vars
    => (Undisturbed => AwaitedInv /\ HolderInv)'
  <1> SUFFICES ASSUME TypeOK, TasksInv, Undisturbed => AwaitedInv /\ HolderInv, [Next]_vars,
                      Undisturbed'
               PROVE  AwaitedInv' /\ HolderInv'
    OBVIOUS
  <1>1. AwaitedInv /\ HolderInv
    BY FaultsGrow
  <1>2. CASE UNCHANGED vars
    <2>1. \A j \in Tasks, n \in Nodes :
            /\ Asked(j, n)' <=> Asked(j, n)
            /\ Taken(j, n)' <=> Taken(j, n)
            /\ Refused(j, n)' <=> Refused(j, n)
      BY <1>2 DEF vars, Asked, Taken, Refused
    <2>2. UNCHANGED <<copy, joining>> /\ UNCHANGED task
      BY <1>2 DEF vars
    <2> QED  BY <1>1, <2>1, <2>2, HolderStays
  <1>3. ASSUME NEW k \in Tasks, NewTimeout(k) \/ \E n \in Nodes, p \in Peers : ConnectFails(k, n, p)
        PROVE  FALSE
    <2>1. Fault("late") \/ Fault("unconnected")
      BY <1>3 DEF NewTimeout, ConnectFails
    <2>2. faults'["late"] > 0 \/ faults'["unconnected"] > 0
      BY <2>1, FaultCounts DEF Faults
    <2> QED  BY <2>2 DEF Undisturbed
  <1> QED
    BY <1>1, <1>2, <1>3, PlaceByRobustMigrate, PlaceByNewReply, PlaceByDisconnectReply,
       PlaceByDisconnectFails, PlaceByNew, PlaceByRefuse, PlaceByConnectReply, PlaceByPeers,
       OriginIsNode DEF Next, Handle

LEMMA PlaceInit ==
  Init => AwaitedInv /\ HolderInv
  <1> SUFFICES ASSUME Init
               PROVE  AwaitedInv /\ HolderInv
    OBVIOUS
  <1>1. \A k \in Tasks, n \in Nodes : ~Asked(k, n) /\ ~Taken(k, n) /\ ~Refused(k, n)
    BY DEF Init, Asked, Taken, Refused
  <1>2. \A k \in Tasks, n \in Nodes : joining[k][n] = {}
    BY DEF Init
  <1>3. \A n \in Nodes : Here(n) => n = Origin
    BY DEF Init, Here, NoCopy
  <1>4. \A k \in Tasks : task[k].phase = "idle"
    BY DEF Init
  <1>5. AwaitedInv
    BY <1>1, <1>2 DEF AwaitedInv
  <1>6. HolderInv
    BY <1>1, <1>3, <1>4 DEF HolderInv
  <1> QED  BY <1>5, <1>6

-----------------------------------------------------------------------------
LEMMA KeptInit ==
  TypeOK /\ Init => KeptInv
  <1> SUFFICES ASSUME TypeOK, Init
               PROVE  KeptInv
    OBVIOUS
  <1>1. Unrefused
    BY DEF Init, Unrefused, Asked, Refused
  <1>2. Here(Origin)
    BY OriginIsNode DEF Init, Here, NoCopy
  <1> QED  BY <1>1, <1>2, OriginIsNode DEF KeptInv, Somewhere

(* What keeps the actor somewhere when robust_migrate goes on.             *)
LEMMA SomewhereByTryNext ==
  ASSUME TypeOK, NEW k \in Tasks, NEW t \in Task, NEW ms, t.waits = {}, TryNext(k, t, ms),
         task[k].kept => t.kept, Somewhere,
         \A j \in Tasks, n \in Nodes : Asked(j, n) => ActorNew(j, n) \in ms
  PROVE  Somewhere'
  <1>1. PICK u \in Task :
          /\ Changed(k, u) /\ u.home = t.home
          /\ \/ SentOn(k, u, ms)
             \/ GivenUp(t, u, ms)
             \/ Disconnecting(k, u, ms)
    BY TryNextCases
  <1>2. task'[k] = u /\ \A j \in Tasks \ {k} : task'[j] = task[j]
    BY <1>1, ChangedTask
  <1>3. CASE SentOn(k, u, ms)
    <2>1. ActorNew(k, u.to) \in msgs' /\ u.to \in Nodes
      BY <1>3 DEF SentOn, Task
    <2> QED  BY <2>1 DEF Somewhere, Asked
  <1>4. CASE GivenUp(t, u, ms)
    <2>1. UNCHANGED copy /\ msgs' = ms /\ (t.kept => u.kept)
      BY <1>4 DEF GivenUp
    <2>2. \A n \in Nodes : Here(n) => Here(n)'
      BY <2>1 DEF Here
    <2>3. \A j \in Tasks, n \in Nodes : Asked(j, n) => Asked(j, n)'
      BY <2>1 DEF Asked
    <2>4. \A j \in Tasks : task[j].kept => task'[j].kept
      BY <1>2, <2>1
    <2> QED  BY <2>2, <2>3, <2>4 DEF Somewhere
  <1>5. CASE Disconnecting(k, u, ms)
    <2>1. u.home \in Nodes /\ copy' = [copy EXCEPT ![u.home] = [@ EXCEPT !.state = "moving", !.linked = {}]]
      BY <1>5 DEF Disconnecting, Task
    <2>2. copy'[u.home].state = "moving"
      BY <2>1 DEF TypeOK, Copy
    <2> QED  BY <2>1, <2>2 DEF Somewhere, Here
  <1> QED  BY <1>1, <1>3, <1>4, <1>5

(* Connects leave the actor, the tasks and the requests where they are.    *)
LEMMA SomewhereByConnected ==
  ASSUME TypeOK, Somewhere, NEW k \in Tasks, NEW n \in Nodes, NEW p \in Peers,
         ConnectReply(k, n, p) \/ ConnectFails(k, n, p)
  PROVE  Somewhere'
  <1> DEFINE ports == {Connect(k, n, p), Connected(k, n, p)}
  <1>1. UNCHANGED task
    BY DEF ConnectReply, ConnectFails
  <1>2. ASSUME NEW m \in Nodes, Here(m)
        PROVE  Here(m)'
    <2>1. ASSUME NEW ms, NEW ok \in BOOLEAN, ActorConnected(k, n, p, ok, ms)
          PROVE  Here(m)'
      <3>1. \/ copy'[m] = copy[m]
            \/ copy'[m].state \in {copy[m].state, "ready"}
        BY <1>2, <2>1 DEF ActorConnected, TypeOK, Copy
      <3> QED  BY <1>2, <3>1 DEF Here
    <2>2. ConnectReply(k, n, p) => ActorConnected(k, n, p, TRUE, msgs \ {Connected(k, n, p)})
      BY DEF ConnectReply
    <2>3. ConnectFails(k, n, p) => ActorConnected(k, n, p, FALSE, msgs \ (ports \cap msgs))
      BY DEF ConnectFails
    <2> QED  BY <2>1, <2>2, <2>3
  <1>3. msgs \ ports \subseteq msgs'
    <2>1. ASSUME NEW ms, NEW ok, ActorConnected(k, n, p, ok, ms)
          PROVE  ms \subseteq msgs'
      BY <2>1 DEF ActorConnected
    <2>2. CASE ConnectReply(k, n, p)
      BY <2>1, <2>2, Zenon DEF ConnectReply
    <2>3. CASE ConnectFails(k, n, p)
      BY <2>1, <2>3, Zenon DEF ConnectFails
    <2> QED  BY <2>2, <2>3
  <1>4. \A j \in Tasks, m \in Nodes : ActorNew(j, m) \notin ports
    BY DEF ActorNew, Connect, Connected
  <1>5. \A j \in Tasks, m \in Nodes : Asked(j, m) => Asked(j, m)'
    BY <1>3, <1>4 DEF Asked
  <1> QED  BY <1>1, <1>2, <1>5 DEF Somewhere

LEMMA SomewhereNext ==
  TypeOK /\ TasksInv /\ KeptInv /\ [Next]_vars => (Total <= 1 => Somewhere)'
  <1> SUFFICES ASSUME TypeOK, TasksInv, KeptInv, [Next]_vars, Total' <= 1
               PROVE  Somewhere'
    OBVIOUS
  <1>1. Somewhere
    <2>1. Total <= 1
      BY FaultsGrow, TotalIsNatural
    <2> QED  BY <2>1 DEF KeptInv
  <1>2. ASSUME \A n \in Nodes : Here(n) => Here(n)',
               \A k \in Tasks, n \in Nodes : Asked(k, n) => Asked(k, n)',
               \A k \in Tasks : task[k].kept => task'[k].kept
        PROVE  Somewhere'
    BY <1>1, <1>2 DEF Somewhere
  <1>3. CASE UNCHANGED vars
    BY <1>1, <1>3 DEF vars, Somewhere, Here, Asked
  <1>4. ASSUME NEW k \in Tasks, NEW n \in Nodes, NEW p \in Peers,
               DisconnectionRequest(k, p) \/ ConnectionRequest(k, n, p)
        PROVE  Somewhere'
    <2>1. UNCHANGED copy /\ UNCHANGED task
      BY <1>4 DEF DisconnectionRequest, ConnectionRequest
    <2>2. \A j \in Tasks, m \in Nodes : ActorNew(j, m) \notin {Disconnect(k, p), Connect(k, n, p)}
      BY DEF ActorNew, Disconnect, Connect
    <2>3. \A j \in Tasks, m \in Nodes : Asked(j, m) => Asked(j, m)'
      BY <1>4, <2>2 DEF Asked, DisconnectionRequest, ConnectionRequest
    <2> QED  BY <1>2, <2>1, <2>3 DEF Here
  <1>5. ASSUME NEW k \in Tasks, NEW p \in Peers, DisconnectReply(k, p)
        PROVE  Somewhere'
    <2> DEFINE ms == msgs \ {Disconnected(k, p)}
    <2>1. task[k] \in Task
      BY <1>5 DEF TypeOK
    <2>2. CASE DestroyAndAsk(k, task[k], ms)
      <3> HIDE DEF ms
      <3>1. PICK u \in Task : SentOn(k, u, ms)
        BY <1>5, <2>1, <2>2, DestroyCases
      <3>2. ActorNew(k, u.to) \in msgs' /\ u.to \in Nodes
        BY <3>1 DEF SentOn, Task
      <3> QED  BY <1>5, <3>2 DEF Somewhere, Asked
    <2>3. CASE task' = [task EXCEPT ![k].waits = @ \ {p}] /\ msgs' = ms /\ UNCHANGED copy
      <3>1. \A j \in Tasks : task[j].kept => task'[j].kept
        BY <2>3 DEF TypeOK, Task
      <3>2. \A j \in Tasks, m \in Nodes : Asked(j, m) => Asked(j, m)'
        BY <2>3, KindsDiffer DEF Asked
      <3> QED  BY <1>2, <2>3, <3>1, <3>2 DEF Here
    <2> QED  BY <1>5, <2>2, <2>3 DEF DisconnectReply
  <1>6. ASSUME NEW k \in Tasks, NEW n \in Nodes, New(k, n)
        PROVE  Somewhere'
    <2>1. copy'[n].state = "connecting"
      BY <1>6 DEF New, TypeOK
    <2> QED  BY <1>6, <2>1 DEF Somewhere, Here
  <1>7. ASSUME NEW k \in Tasks, NEW n \in Nodes, Refuse(k, n)
        PROVE  Somewhere'
    <2>1. Total' = Total + 1
      BY <1>7, FaultCounts DEF Refuse, Faults
    <2>2. Unrefused
      BY <2>1, TotalIsNatural DEF KeptInv
    <2>3. task[k].kept /\ UNCHANGED task
      BY <1>7, <2>2 DEF Refuse, Unrefused, Asked
    <2> QED  BY <1>7, <2>3 DEF Somewhere
  <1>8. ASSUME NEW k \in Tasks, NEW n \in Nodes, NEW ok \in BOOLEAN, NewReply(k, n, ok)
        PROVE  Somewhere'
    <2> DEFINE ms == msgs \ {Answer(k, n, ok)}
    <2>1. \A j \in Tasks, m \in Nodes : Asked(j, m) => ActorNew(j, m) \in ms
      BY RequestsDiffer DEF Asked
    <2>2. task[k] \in Task
      BY <1>8 DEF TypeOK
    <2>3. CASE task' = [task EXCEPT ![k].phase = "moved"] /\ msgs' = ms /\ UNCHANGED copy
      <3>1. \A j \in Tasks : task[j].kept => task'[j].kept
        BY <2>3 DEF TypeOK, Task
      <3>2. \A j \in Tasks, m \in Nodes : Asked(j, m) => Asked(j, m)'
        BY <2>1, <2>3 DEF Asked
      <3> QED  BY <1>2, <2>3, <3>1, <3>2 DEF Here
    <2>4. CASE Asks(k, n) /\ TryNext(k, task[k], ms)
      <3> HIDE DEF ms
      <3>1. task[k].waits = {}
        BY <1>8, <2>4 DEF Asks, TasksInv
      <3> QED  BY <1>1, <1>8, <2>1, <2>2, <2>4, <3>1, SomewhereByTryNext
    <2>5. CASE msgs' = ms /\ UNCHANGED <<copy, task>>
      <3>1. \A j \in Tasks, m \in Nodes : Asked(j, m) => Asked(j, m)'
        BY <2>1, <2>5 DEF Asked
      <3> QED  BY <1>2, <2>5, <3>1 DEF Here
    <2> QED  BY <1>8, <2>3, <2>4, <2>5 DEF NewReply
  <1>9. ASSUME NEW k \in Tasks, NEW n \in Nodes, NEW targets \in TargetLists(n),
               RobustMigrate(k, n, targets)
        PROVE  Somewhere'
    <2> DEFINE t == [task[k] EXCEPT !.home = n, !.left = targets]
    <2>1. targets \in Seq(Nodes) /\ task[k] \in Task
      BY <1>9 DEF TargetLists, SeqOf, TypeOK
    <2>2. t \in Task /\ t.waits = {}
      BY <1>9, <2>1 DEF Task, TasksInv, RobustMigrate
    <2>3. task[k].kept => t.kept
      BY <1>9 DEF TasksInv, RobustMigrate
    <2>4. TryNext(k, t, msgs)
      BY <1>9 DEF RobustMigrate
    <2> HIDE DEF t
    <2> QED  BY <1>1, <1>9, <2>2, <2>3, <2>4, SomewhereByTryNext DEF Asked
  <1>10. ASSUME NEW k \in Tasks, DisconnectFails(k)
         PROVE  Somewhere'
    <2> DEFINE t == [task[k] EXCEPT !.kept = TRUE, !.gone = TRUE, !.waits = {}]
    <2>1. t \in Task /\ t.waits = {} /\ t.kept
      BY <1>10 DEF TypeOK, Task
    <2>2. task' = [task EXCEPT ![k] = HandedOn(t)] /\ msgs' = msgs \cup NextRequest(k, t)
      BY <1>10 DEF DisconnectFails
    <2> HIDE DEF t
    <2>3. PICK u \in Task :
            /\ Changed(k, u)
            /\ SentOn(k, u, msgs) \/ u.kept
      BY <1>10, <2>1, <2>2, HandedOnCases
    <2>4. CASE SentOn(k, u, msgs)
      <3>1. ActorNew(k, u.to) \in msgs' /\ u.to \in Nodes
        BY <2>4 DEF SentOn, Task
      <3> QED  BY <1>10, <3>1 DEF Somewhere, Asked
    <2>5. CASE u.kept
      <3>1. task'[k].kept
        BY <1>10, <2>3, <2>5, ChangedTask
      <3> QED  BY <1>10, <3>1 DEF Somewhere
    <2> QED  BY <2>3, <2>4, <2>5
  <1>11. ASSUME NEW k \in Tasks, NewTimeout(k)
         PROVE  Somewhere'
    <2>1. task[k] \in Task /\ task[k].waits = {} /\ TryNext(k, task[k], msgs)
      BY <1>11 DEF TypeOK, TasksInv, NewTimeout
    <2> QED  BY <1>1, <1>11, <2>1, SomewhereByTryNext DEF Asked
  <1>12. ASSUME NEW k \in Tasks, NEW n \in Nodes, NEW p \in Peers,
                ConnectReply(k, n, p) \/ ConnectFails(k, n, p)
         PROVE  Somewhere'
    BY <1>1, <1>12, SomewhereByConnected
  <1> QED
    BY <1>3, <1>4, <1>5, <1>6, <1>7, <1>8, <1>9, <1>10, <1>11, <1>12, OriginIsNode
       DEF Next, Handle

LEMMA UnrefusedNext ==
  TypeOK /\ TasksInv /\ PlaceInv /\ [Next]_vars => (Total = 0 => Unrefused)'
  <1> SUFFICES ASSUME TypeOK, TasksInv, PlaceInv, [Next]_vars, Total' = 0
               PROVE  Unrefused'
    OBVIOUS
  <1>1. Total = 0 /\ UNCHANGED faults
    <2>1. \A f \in Faults : ~Fault(f)
      BY FaultCounts, TotalIsNatural
    <2>2. UNCHANGED faults
      BY <2>1 DEF Next, Handle, vars, Faults, DisconnectionRequest, DisconnectReply, New, NewReply,
             ConnectionRequest, ConnectReply, RobustMigrate, Refuse, ConnectFails,
             DisconnectFails, NewTimeout
    <2> QED  BY <2>2, SameFaults
  <1>2. Undisturbed
    BY <1>1, NoneLate
  <1>3. AwaitedInv /\ HolderInv /\ Unrefused
    BY <1>1, <1>2 DEF PlaceInv, KeptInv
  <1>4. ASSUME \A j \in Tasks, n \in Nodes : Asked(j, n)' => Asked(j, n),
               \A j \in Tasks, n \in Nodes : Refused(j, n)' => Refused(j, n),
               \A j \in Tasks : task[j].kept => task'[j].kept
        PROVE  Unrefused'
    BY <1>3, <1>4 DEF Unrefused
  <1>5. ASSUME NEW k \in Tasks, NEW u \in Task, Changed(k, u), u.kept, NEW ms,
               SentOn(k, u, ms),
               \A j \in Tasks, n \in Nodes : ActorNew(j, n) \in ms => Asked(j, n),
               \A j \in Tasks, n \in Nodes : Answer(j, n, FALSE) \in ms => Refused(j, n)
        PROVE  Unrefused'
    <2>1. task'[k].kept /\ \A j \in Tasks \ {k} : task'[j] = task[j]
      BY <1>5, ChangedTask
    <2>2. ASSUME NEW j \in Tasks, NEW n \in Nodes
          PROVE  ~Refused(j, n)' /\ (Asked(j, n)' => task'[j].kept)
      <3>1. /\ Asked(j, n)' <=> ActorNew(j, n) \in ms \/ (j = k /\ n = u.to)
            /\ Refused(j, n)' <=> Answer(j, n, FALSE) \in ms
        BY <1>5, <2>2, RequestAdded
      <3> QED  BY <1>3, <1>5, <2>1, <2>2, <3>1 DEF Unrefused
    <2> QED  BY <2>2 DEF Unrefused
  <1>6. CASE UNCHANGED vars
    BY <1>4, <1>6 DEF vars, Asked, Refused
  <1>7. ASSUME NEW k \in Tasks, NEW n \in Nodes, NEW p \in Peers,
               DisconnectionRequest(k, p) \/ ConnectionRequest(k, n, p)
        PROVE  Unrefused'
    <2> DEFINE ports == {Disconnected(k, p), Connected(k, n, p)}
    <2>1. UNCHANGED task /\ msgs' \subseteq msgs \cup ports
      BY <1>7 DEF DisconnectionRequest, ConnectionRequest
    <2>2. \A j \in Tasks, m \in Nodes : ActorNew(j, m) \notin ports /\ Answer(j, m, FALSE) \notin ports
      BY DEF ActorNew, Answer, Disconnected, Connected
    <2> HIDE DEF ports
    <2> QED  BY <1>4, <2>1, <2>2 DEF Asked, Refused
  <1>8. ASSUME NEW k \in Tasks, NEW p \in Peers, DisconnectReply(k, p)
        PROVE  Unrefused'
    <2> DEFINE ms == msgs \ {Disconnected(k, p)}
    <2>1. task[k] \in Task
      BY <1>8 DEF TypeOK
    <2>2. /\ \A j \in Tasks, n \in Nodes : ActorNew(j, n) \in ms => Asked(j, n)
          /\ \A j \in Tasks, n \in Nodes : Answer(j, n, FALSE) \in ms => Refused(j, n)
      BY DEF Asked, Refused
    <2>3. CASE DestroyAndAsk(k, task[k], ms)
      <3> HIDE DEF ms
      <3>1. PICK u \in Task : Changed(k, u) /\ SentOn(k, u, ms) /\ u.kept
        BY <1>8, <2>1, <2>3, DestroyCases
      <3> QED  BY <1>5, <1>8, <2>2, <3>1
    <2>4. CASE task' = [task EXCEPT ![k].waits = @ \ {p}] /\ msgs' = ms /\ UNCHANGED copy
      <3>1. \A j \in Tasks : task[j].kept => task'[j].kept
        BY <2>4 DEF TypeOK, Task
      <3> QED  BY <1>4, <2>2, <2>4, <3>1 DEF Asked, Refused
    <2> QED  BY <1>8, <2>3, <2>4 DEF DisconnectReply
  <1>9. ASSUME NEW k \in Tasks, NEW n \in Nodes, New(k, n)
        PROVE  Unrefused'
    <2> DEFINE cs == {Connect(k, n, p) : p \in Peers}
    <2>1. UNCHANGED task /\ msgs' \subseteq msgs \cup cs
      BY <1>9 DEF New
    <2>2. \A j \in Tasks, m \in Nodes : ActorNew(j, m) \notin cs /\ Answer(j, m, FALSE) \notin cs
      BY DEF ActorNew, Answer, Connect
    <2> HIDE DEF cs
    <2> QED  BY <1>4, <2>1, <2>2 DEF Asked, Refused
  <1>10. ASSUME NEW k \in Tasks, NEW n \in Nodes, NEW ok \in BOOLEAN, NewReply(k, n, ok)
         PROVE  Unrefused'
    <2>1. ok /\ Answer(k, n, TRUE) \in msgs
      BY <1>3, <1>10 DEF NewReply, Unrefused, Refused
    <2>2. Asks(k, n)
      BY <1>3, <1>10, <2>1 DEF AwaitedInv, Taken
    <2>3. task' = [task EXCEPT ![k].phase = "moved"] /\ msgs' \subseteq msgs
      BY <1>10, <2>1, <2>2 DEF NewReply
    <2>4. \A j \in Tasks : task[j].kept => task'[j].kept
      BY <2>3 DEF TypeOK, Task
    <2> QED  BY <1>4, <2>3, <2>4 DEF Asked, Refused
  <1>11. ASSUME NEW k \in Tasks, NEW h \in Nodes, NEW targets \in TargetLists(h),
                RobustMigrate(k, h, targets)
         PROVE  Unrefused'
    <2> DEFINE t == [task[k] EXCEPT !.home = h, !.left = targets]
    <2>1. targets \in Seq(Nodes) /\ task[k] \in Task
      BY <1>11 DEF TargetLists, SeqOf, TypeOK
    <2>2. t \in Task /\ t.waits = {} /\ ~t.kept /\ ~task[k].kept
      BY <1>11, <2>1 DEF Task, TasksInv, RobustMigrate
    <2>3. TryNext(k, t, msgs)
      BY <1>11 DEF RobustMigrate
    <2> HIDE DEF t
    <2>4. PICK u \in Task :
            /\ Changed(k, u) /\ u.home = t.home
            /\ \/ GivenUp(t, u, msgs)
               \/ Disconnecting(k, u, msgs)
               \/ SentOn(k, u, msgs) /\ u.kept
      BY <1>11, <2>2, <2>3, TryNextCases
    <2>5. CASE SentOn(k, u, msgs) /\ u.kept
      BY <1>5, <1>11, <2>4, <2>5 DEF Asked, Refused
    <2>6. CASE GivenUp(t, u, msgs) \/ Disconnecting(k, u, msgs)
      <3> DEFINE ds == {Disconnect(k, p) : p \in copy[u.home].linked}
      <3>1. msgs' \subseteq msgs \cup ds
        BY <2>6 DEF GivenUp, Disconnecting
      <3>2. \A j \in Tasks, m \in Nodes : ActorNew(j, m) \notin ds /\ Answer(j, m, FALSE) \notin ds
        BY DEF ActorNew, Answer, Disconnect
      <3> HIDE DEF ds
      <3>3. /\ \A j \in Tasks, n \in Nodes : Asked(j, n)' => Asked(j, n)
            /\ \A j \in Tasks, n \in Nodes : Refused(j, n)' => Refused(j, n)
        BY <3>1, <3>2 DEF Asked, Refused
      <3>4. \A j \in Tasks : task[j].kept => task'[j].kept
        BY <1>11, <2>2, <2>4, ChangedTask
      <3> QED  BY <1>4, <3>3, <3>4
    <2> QED  BY <2>4, <2>5, <2>6
  <1>12. ASSUME NEW k \in Tasks, NEW n \in Nodes, NEW p \in Peers, ConnectReply(k, n, p)
         PROVE  Unrefused'
    <2> DEFINE as == {Answer(k, n, a) : a \in {b \in {TRUE} : Answers(TRUE, joining[k][n], p) /\ Here(n)}}
    <2>1. UNCHANGED task /\ msgs' \subseteq msgs \cup as
      BY <1>12 DEF ConnectReply, ActorConnected, Here
    <2>2. \A j \in Tasks, m \in Nodes : ActorNew(j, m) \notin as /\ Answer(j, m, FALSE) \notin as
      BY DEF ActorNew, Answer
    <2> HIDE DEF as
    <2> QED  BY <1>4, <2>1, <2>2 DEF Asked, Refused
  <1>13. ASSUME NEW k \in Tasks, NEW n \in Nodes, NEW p \in Peers,
                Refuse(k, n) \/ ConnectFails(k, n, p) \/ DisconnectFails(k) \/ NewTimeout(k)
         PROVE  FALSE
    <2>1. \E f \in Faults : Fault(f)
      BY <1>13 DEF Refuse, ConnectFails, DisconnectFails, NewTimeout, Faults
    <2> QED  BY <1>1, <2>1, FaultCounts
  <1> QED
    BY <1>6, <1>7, <1>8, <1>9, <1>10, <1>11, <1>12, <1>13, OriginIsNode, PeersAssumption
       DEF Next, Handle

-----------------------------------------------------------------------------
(* Where the actor is, said of the set of requests.                        *)
LEMMA PlaceImplies ==
  TypeOK /\ PlaceInv => InOnePlace
  <1> SUFFICES ASSUME TypeOK, PlaceInv
               PROVE  InOnePlace
    OBVIOUS
  <1>1. ASSUME Undisturbed
        PROVE  Cardinality(Copies) + Cardinality(Requests) <= 1
    <2>1. HolderInv
      BY <1>1 DEF PlaceInv
    <2>2. Copies = {} \/ \E n \in Nodes : Copies = {n}
      BY <2>1 DEF HolderInv, Copies, Here
    <2>3. Requests = {} \/ \E r : Requests = {r}
      BY <2>1, RequestsAreAsked DEF HolderInv
    <2>4. Copies = {} \/ Requests = {}
      BY <2>1, RequestsAreAsked DEF HolderInv, Copies, Here
    <2>5. Cardinality(Copies) \in {0, 1} /\ Cardinality(Requests) \in {0, 1}
      BY <2>2, <2>3, FS_EmptySet, FS_Singleton
    <2>6. Cardinality(Copies) = 0 \/ Cardinality(Requests) = 0
      BY <2>4, FS_EmptySet
    <2> QED  BY <2>5, <2>6
  <1>2. ASSUME Total <= 1
        PROVE  Copies # {} \/ Requests # {} \/ \E k \in Tasks : task[k].kept
    <2>1. Somewhere
      BY <1>2 DEF PlaceInv, KeptInv
    <2> QED  BY <2>1, RequestsAreAsked DEF Somewhere, Copies, Here
  <1> QED  BY <1>1, <1>2 DEF InOnePlace, NeverTwice, NotLost, Undisturbed

LEMMA PlacesNext ==
  TypeOK /\ TasksInv /\ PlaceInv /\ [Next]_vars => TasksInv' /\ PlaceInv'
  <1>1. TypeOK /\ TasksInv /\ PlaceInv /\ [Next]_vars
          => (Undisturbed => AwaitedInv /\ HolderInv)'
    BY PlaceNext DEF PlaceInv
  <1>2. TypeOK /\ TasksInv /\ PlaceInv /\ [Next]_vars => KeptInv'
    BY UnrefusedNext, SomewhereNext DEF PlaceInv, KeptInv
  <1> QED  BY <1>1, <1>2, TasksNext DEF PlaceInv

(* There are never two of the actor, at runtimes or on the way to them,    *)
(* unless an answer was late or a connect has failed; and no single fault  *)
(* loses it: robust_migrate, migrate, _migrate_disconnected.               *)
THEOREM AlwaysInOnePlace ==
  Spec => []InOnePlace
  <1>1. Init => TypeOK /\ TasksInv /\ PlaceInv
    BY TypeInit, TasksInit, PlaceInit, KeptInit DEF PlaceInv
  <1>2. TypeOK /\ TasksInv /\ PlaceInv /\ [Next]_vars => TypeOK' /\ TasksInv' /\ PlaceInv'
    BY TypeNext, PlacesNext
  <1>3. TypeOK /\ PlaceInv => InOnePlace
    BY PlaceImplies
  <1> QED  BY <1>1, <1>2, <1>3, PTL DEF Spec

-----------------------------------------------------------------------------
(* Where nothing is being connected or is ready, only the disconnects      *)
(* matter.                                                                 *)
LEMMA Detached ==
  ASSUME UnlinkingInv',
         \A n \in Nodes : copy'[n].state \notin {"connecting", "ready"},
         \A k \in Tasks, n \in Nodes, p \in Peers : ~Linking(k, n, p)' /\ ~Linked(k, n, p)'
  PROVE  ConnectionInv'
  BY DEF ConnectionInv, LinkingInv

LEMMA NothingLinks ==
  ASSUME ConnectionInv, \A n \in Nodes : copy[n].state # "connecting"
  PROVE  \A k \in Tasks, n \in Nodes, p \in Peers : ~Linking(k, n, p) /\ ~Linked(k, n, p)
  BY DEF ConnectionInv, LinkingInv

(* The copy of a task that waits for its disconnects is the only one.      *)
LEMMA OnlyMoving ==
  ASSUME TypeOK, AwaitedInv, HolderInv, NEW k \in Tasks, task[k].phase = "disconnecting"
  PROVE  \A n \in Nodes : copy[n].state \notin {"connecting", "ready"}
  <1>1. task[k].home \in Nodes /\ copy[task[k].home].state = "moving"
    BY AtHome DEF HolderInv
  <1>2. \A n \in Nodes : n # task[k].home => copy[n].state = "none"
    BY AtHome DEF Here
  <1> QED  BY <1>1, <1>2

(* Nothing that matters changes.                                           *)
LEMMA ConnectionStays ==
  ASSUME ConnectionInv, UNCHANGED <<copy, at, joining>>,
         \A k \in Tasks : task'[k].waits = task[k].waits,
         \A k \in Tasks, n \in Nodes, p \in Peers :
           /\ (Unlinking(k, p)' <=> Unlinking(k, p)) /\ (Unlinked(k, p)' <=> Unlinked(k, p))
           /\ (Linking(k, n, p)' <=> Linking(k, n, p)) /\ (Linked(k, n, p)' <=> Linked(k, n, p))
  PROVE  ConnectionInv'
  <1>1. UnlinkingInv'
    BY OriginIsNode DEF ConnectionInv, UnlinkingInv
  <1>2. LinkingInv'
    BY DEF ConnectionInv, LinkingInv
  <1> QED  BY <1>1, <1>2 DEF ConnectionInv

(* Requests and answers leave the messages of ports as they are.           *)
LEMMA SamePorts ==
  ASSUME NEW ms, NEW j, NEW m, NEW i, NEW l, NEW b,
         msgs \ {ActorNew(i, l), Answer(i, l, b)} \subseteq ms,
         ms \subseteq msgs \cup {ActorNew(j, m), Answer(j, m, FALSE)},
         msgs' = ms
  PROVE  \A k \in Tasks, n \in Nodes, p \in Peers :
           /\ (Unlinking(k, p)' <=> Unlinking(k, p)) /\ (Unlinked(k, p)' <=> Unlinked(k, p))
           /\ (Linking(k, n, p)' <=> Linking(k, n, p)) /\ (Linked(k, n, p)' <=> Linked(k, n, p))
  <1> DEFINE others == {ActorNew(i, l), Answer(i, l, b), ActorNew(j, m), Answer(j, m, FALSE)}
  <1>1. \A k \in Tasks, n \in Nodes, p \in Peers :
          /\ Disconnect(k, p) \notin others /\ Disconnected(k, p) \notin others
          /\ Connect(k, n, p) \notin others /\ Connected(k, n, p) \notin others
    BY DEF ActorNew, Answer, Disconnect, Disconnected, Connect, Connected
  <1>2. \A x : x \notin others => (x \in msgs' <=> x \in msgs)
    OBVIOUS
  <1> HIDE DEF others
  <1> QED  BY <1>1, <1>2 DEF Unlinking, Unlinked, Linking, Linked

LEMMA ConnectionInit ==
  Init => ConnectionInv
  <1> SUFFICES ASSUME Init
               PROVE  ConnectionInv
    OBVIOUS
  <1>1. UnlinkingInv
    BY DEF Init, UnlinkingInv, Unlinking, Unlinked
  <1>2. \A n \in Nodes :
          IF n = Origin THEN copy[n].state = "ready" /\ copy[n].linked = Peers
          ELSE copy[n].state = "none"
    BY DEF Init, NoCopy
  <1>3. LinkingInv
    BY <1>2 DEF Init, LinkingInv, Linking, Linked
  <1> QED  BY <1>1, <1>3 DEF ConnectionInv

LEMMA ConnectionByRobustMigrate ==
  ASSUME TypeOK, TasksInv, AwaitedInv, HolderInv, ConnectionInv,
         NEW k \in Tasks, NEW h \in Nodes, NEW targets \in TargetLists(h),
         RobustMigrate(k, h, targets)
  PROVE  ConnectionInv'
  <1> DEFINE t == [task[k] EXCEPT !.home = h, !.left = targets]
  <1>1. targets \in Seq(Nodes) /\ task[k] \in Task /\ task[k].waits = {}
    <2>1. targets \in Seq(Nodes)
      BY DEF TargetLists, SeqOf
    <2>2. task[k].waits = {}
      BY DEF TasksInv, RobustMigrate
    <2> QED  BY <2>1, <2>2 DEF TypeOK
  <1>2. t \in Task /\ t.waits = {} /\ ~t.kept /\ t.home = h
    BY <1>1 DEF Task, TasksInv, RobustMigrate
  <1>3. TryNext(k, t, msgs) /\ UNCHANGED <<at, joining>>
    BY DEF RobustMigrate
  <1> HIDE DEF t
  <1>4. PICK u \in Task :
          /\ Changed(k, u) /\ u.home = t.home
          /\ \/ SentOn(k, u, msgs) /\ UNCHANGED copy /\ t.kept
             \/ GivenUp(t, u, msgs)
             \/ ~t.kept /\ copy[t.home].state = "ready" /\ Disconnecting(k, u, msgs)
             \/ /\ ~t.kept /\ copy[t.home].state = "ready" /\ SentOn(k, u, msgs)
                /\ Destroyed(u) /\ u.kept
    BY <1>2, <1>3, TryNextCases
  <1>5. task'[k] = u /\ \A j \in Tasks \ {k} : task'[j] = task[j]
    BY <1>4, ChangedTask
  <1>6. CASE GivenUp(t, u, msgs)
    <2>1. UNCHANGED copy /\ msgs' = msgs /\ u.waits = {}
      BY <1>2, <1>6 DEF GivenUp
    <2>2. \A j \in Tasks : task'[j].waits = task[j].waits
      BY <1>1, <1>5, <2>1
    <2> QED  BY <1>3, <2>1, <2>2, ConnectionStays DEF Unlinking, Unlinked, Linking, Linked
  <1>7. CASE copy[h].state = "ready"
    <2>1. \A n \in Nodes : n # h => copy[n].state = "none"
      BY <1>7 DEF HolderInv, Here
    <2>2. \A j \in Tasks, n \in Nodes, p \in Peers : ~Linking(j, n, p) /\ ~Linked(j, n, p)
      BY <1>7, <2>1, NothingLinks
    <2>3. \A p \in Peers : ~Unlinking(k, p) /\ ~Unlinked(k, p)
      BY <1>1 DEF ConnectionInv, UnlinkingInv
    <2>4. CASE Disconnecting(k, u, msgs)
      <3> DEFINE ds == {Disconnect(k, p) : p \in copy[h].linked}
      <3>1. /\ u.waits = copy[h].linked /\ msgs' = msgs \cup ds
            /\ copy' = [copy EXCEPT ![h] = [@ EXCEPT !.state = "moving", !.linked = {}]]
        BY <1>2, <1>4, <2>4 DEF Disconnecting
      <3>2. copy'[h].state = "moving" /\ \A n \in Nodes \ {h} : copy'[n] = copy[n]
        BY <3>1 DEF TypeOK, Copy
      <3>3. \A j \in Tasks, n \in Nodes, p \in Peers :
              /\ Disconnected(j, p) \notin ds /\ Connect(j, n, p) \notin ds
              /\ Connected(j, n, p) \notin ds
              /\ Disconnect(j, p) \in ds <=> j = k /\ p \in copy[h].linked
        BY PortMessagesDiffer DEF Disconnect, Disconnected, Connect, Connected
      <3> HIDE DEF ds
      <3>4. \A j \in Tasks, n \in Nodes, p \in Peers :
              /\ ~Linking(j, n, p)' /\ ~Linked(j, n, p)' /\ (Unlinked(j, p)' <=> Unlinked(j, p))
              /\ Unlinking(j, p)' <=> Unlinking(j, p) \/ (j = k /\ p \in copy[h].linked)
        BY <2>2, <3>1, <3>3 DEF Linking, Linked, Unlinking, Unlinked
      <3>5. ASSUME NEW j \in Tasks, NEW p \in Peers
            PROVE  /\ Unlinking(j, p)' => p \in task'[j].waits /\ ~Unlinked(j, p)'
                   /\ Unlinked(j, p)' => p \in task'[j].waits
        <4>1. CASE j = k
          BY <1>5, <2>3, <3>1, <3>4, <3>5, <4>1
        <4>2. CASE j # k
          BY <1>5, <3>4, <3>5, <4>2 DEF ConnectionInv, UnlinkingInv
        <4> QED  BY <4>1, <4>2
      <3>6. UnlinkingInv'
        BY <3>5 DEF UnlinkingInv
      <3>7. \A n \in Nodes : copy'[n].state \notin {"connecting", "ready"}
        BY <2>1, <3>2
      <3> QED  BY <3>4, <3>6, <3>7, Detached
    <2>5. CASE SentOn(k, u, msgs) /\ Destroyed(u)
      <3>1. u.waits = {} /\ msgs' = msgs \cup {ActorNew(k, u.to)}
        BY <2>5 DEF SentOn
      <3>2. \A j \in Tasks, n \in Nodes, p \in Peers :
              /\ (Unlinking(j, p)' <=> Unlinking(j, p)) /\ (Unlinked(j, p)' <=> Unlinked(j, p))
              /\ (Linking(j, n, p)' <=> Linking(j, n, p)) /\ (Linked(j, n, p)' <=> Linked(j, n, p))
        BY <3>1, SamePorts
      <3>3. UnlinkingInv'
        BY <1>1, <1>5, <3>1, <3>2, OriginIsNode DEF ConnectionInv, UnlinkingInv
      <3>4. \A n \in Nodes : copy'[n].state \notin {"connecting", "ready"}
        BY <1>2, <1>4, <2>1, <2>5 DEF Destroyed, NoCopy, TypeOK
      <3> QED  BY <2>2, <3>2, <3>3, <3>4, Detached
    <2> QED  BY <1>2, <1>4, <1>6, <2>4, <2>5
  <1> QED  BY <1>2, <1>4, <1>6, <1>7

LEMMA ConnectionByNewReply ==
  ASSUME TypeOK, TasksInv, AwaitedInv, HolderInv, ConnectionInv,
         NEW k \in Tasks, NEW h \in Nodes, NEW ok \in BOOLEAN, NewReply(k, h, ok)
  PROVE  ConnectionInv'
  <1> DEFINE ms == msgs \ {Answer(k, h, ok)}
  <1>1. task[k] \in Task /\ UNCHANGED <<at, joining>>
    BY DEF TypeOK, NewReply
  <1>2. ASSUME UNCHANGED copy, \A j \in Tasks : task'[j].waits = task[j].waits, NEW m,
               ms \subseteq msgs', msgs' \subseteq msgs \cup {ActorNew(k, m)}
        PROVE  ConnectionInv'
    <2>1. \A j \in Tasks, n \in Nodes, p \in Peers :
            /\ (Unlinking(j, p)' <=> Unlinking(j, p)) /\ (Unlinked(j, p)' <=> Unlinked(j, p))
            /\ (Linking(j, n, p)' <=> Linking(j, n, p)) /\ (Linked(j, n, p)' <=> Linked(j, n, p))
      <3>1. /\ msgs \ {ActorNew(k, h), Answer(k, h, ok)} \subseteq msgs'
            /\ msgs' \subseteq msgs \cup {ActorNew(k, m), Answer(k, m, FALSE)}
        BY <1>2
      <3> HIDE DEF ms
      <3> QED  BY <3>1, SamePorts
    <2> QED  BY <1>1, <1>2, <2>1, ConnectionStays
  <1>3. CASE task' = [task EXCEPT ![k].phase = "moved"] /\ msgs' = ms /\ UNCHANGED copy
    <2>1. \A j \in Tasks : task'[j].waits = task[j].waits
      BY <1>3 DEF TypeOK, Task
    <2> QED  BY <1>2, <1>3, <2>1
  <1>4. CASE Asks(k, h) /\ ~ok /\ TryNext(k, task[k], ms)
    <2>1. task[k].waits = {}
      BY <1>4 DEF Asks, TasksInv
    <2>2. copy[task[k].home].state # "ready"
      <3>1. Refused(k, h)
        BY <1>4 DEF NewReply, Refused
      <3>2. task[k].home \in Nodes /\ \A n \in Nodes : ~Here(n)
        BY <1>1, <3>1 DEF HolderInv, Task
      <3> QED  BY <3>2 DEF Here
    <2> HIDE DEF ms
    <2>3. PICK u \in Task :
            Changed(k, u) /\ ((SentOn(k, u, ms) /\ UNCHANGED copy) \/ GivenUp(task[k], u, ms))
      BY <1>1, <1>4, <2>1, <2>2, TryNextCases
    <2>4. u.waits = {} /\ UNCHANGED copy
      BY <2>1, <2>3 DEF SentOn, GivenUp
    <2>5. \A j \in Tasks : task'[j].waits = task[j].waits
      BY <2>1, <2>3, <2>4, ChangedTask
    <2>6. ms \subseteq msgs' /\ msgs' \subseteq ms \cup {ActorNew(k, u.to)}
      BY <2>3 DEF SentOn, GivenUp
    <2>7. ms \subseteq msgs
      BY DEF ms
    <2> QED  BY <1>2, <2>4, <2>5, <2>6, <2>7
  <1>5. CASE msgs' = ms /\ UNCHANGED <<copy, task>>
    BY <1>2, <1>5
  <1> QED  BY <1>3, <1>4, <1>5 DEF NewReply

LEMMA ConnectionByDisconnectionRequest ==
  ASSUME TypeOK, TasksInv, AwaitedInv, HolderInv, ConnectionInv,
         NEW k \in Tasks, NEW p \in Peers, DisconnectionRequest(k, p)
  PROVE  ConnectionInv'
  <1>1. Unlinking(k, p) /\ UNCHANGED copy /\ UNCHANGED task
    BY DEF DisconnectionRequest, Unlinking
  <1>2. task[k].phase = "disconnecting"
    BY <1>1 DEF ConnectionInv, UnlinkingInv, TasksInv
  <1>3. \A n \in Nodes : copy[n].state \notin {"connecting", "ready"}
    BY <1>2, OnlyMoving
  <1>4. \A j \in Tasks, n \in Nodes, q \in Peers : ~Linking(j, n, q) /\ ~Linked(j, n, q)
    BY <1>3, NothingLinks
  <1>5. msgs' = (msgs \ {Disconnect(k, p)}) \cup {Disconnected(k, p)}
    BY DEF DisconnectionRequest
  <1>6. \A j \in Tasks, n \in Nodes, q \in Peers :
          /\ ~Linking(j, n, q)' /\ ~Linked(j, n, q)'
          /\ Unlinking(j, q)' <=> Unlinking(j, q) /\ ~(j = k /\ q = p)
          /\ Unlinked(j, q)' <=> Unlinked(j, q) \/ (j = k /\ q = p)
    BY <1>4, <1>5, PortMessagesDiffer DEF Linking, Linked, Unlinking, Unlinked
  <1>7. UnlinkingInv'
    BY <1>1, <1>6, OriginIsNode DEF ConnectionInv, UnlinkingInv
  <1> QED  BY <1>1, <1>3, <1>6, <1>7, Detached

LEMMA ConnectionByDisconnectReply ==
  ASSUME TypeOK, TasksInv, AwaitedInv, HolderInv, ConnectionInv,
         NEW k \in Tasks, NEW p \in Peers, DisconnectReply(k, p)
  PROVE  ConnectionInv'
  <1> DEFINE ms == msgs \ {Disconnected(k, p)}
  <1>1. Unlinked(k, p) /\ task[k] \in Task
    BY DEF DisconnectReply, Unlinked, TypeOK
  <1>2. task[k].phase = "disconnecting" /\ p \in task[k].waits
    BY <1>1 DEF ConnectionInv, UnlinkingInv, TasksInv
  <1>3. \A n \in Nodes : copy[n].state \notin {"connecting", "ready"}
    BY <1>2, OnlyMoving
  <1>4. \A j \in Tasks, n \in Nodes, q \in Peers : ~Linking(j, n, q) /\ ~Linked(j, n, q)
    BY <1>3, NothingLinks
  <1>5. \A q \in Peers : /\ Unlinking(k, q) => q \in task[k].waits \ {p}
                         /\ Unlinked(k, q) => q \in task[k].waits
    BY <1>1 DEF ConnectionInv, UnlinkingInv
  <1>6. ASSUME NEW m, msgs' \subseteq ms \cup {ActorNew(k, m)},
               NEW ws, task'[k].waits = ws, task[k].waits \ {p} \subseteq ws,
               \A j \in Tasks \ {k} : task'[j] = task[j],
               \A n \in Nodes : copy'[n].state \notin {"connecting", "ready"}
        PROVE  ConnectionInv'
    <2>1. \A j \in Tasks, n \in Nodes, q \in Peers :
            /\ Disconnect(j, q) # ActorNew(k, m) /\ Disconnected(j, q) # ActorNew(k, m)
            /\ Connect(j, n, q) # ActorNew(k, m) /\ Connected(j, n, q) # ActorNew(k, m)
            /\ Disconnected(j, q) = Disconnected(k, p) <=> j = k /\ q = p
      BY DEF ActorNew, Disconnect, Disconnected, Connect, Connected
    <2>2. \A j \in Tasks, n \in Nodes, q \in Peers :
            /\ Linking(j, n, q)' => Linking(j, n, q)
            /\ Linked(j, n, q)' => Linked(j, n, q)
            /\ Unlinking(j, q)' => Unlinking(j, q)
            /\ Unlinked(j, q)' => Unlinked(j, q) /\ ~(j = k /\ q = p)
      BY <1>6, <2>1 DEF Linking, Linked, Unlinking, Unlinked
    <2>3. ASSUME NEW j \in Tasks, NEW q \in Peers
          PROVE  /\ Unlinking(j, q)' => q \in task'[j].waits /\ ~Unlinked(j, q)'
                 /\ Unlinked(j, q)' => q \in task'[j].waits
      <3>1. Unlinking(j, q)' => ~Unlinked(j, q)'
        BY <2>2, <2>3, OriginIsNode DEF ConnectionInv, UnlinkingInv
      <3>2. CASE j = k
        BY <1>5, <1>6, <2>2, <2>3, <3>1, <3>2, OriginIsNode
      <3>3. CASE j # k
        BY <1>6, <2>2, <2>3, <3>1, <3>3, OriginIsNode DEF ConnectionInv, UnlinkingInv
      <3> QED  BY <3>2, <3>3
    <2>4. UnlinkingInv'
      BY <2>3 DEF UnlinkingInv
    <2> QED  BY <1>4, <1>6, <2>2, <2>4, Detached
  <1>7. CASE AllDisconnected(k, p) /\ DestroyAndAsk(k, task[k], ms)
    <2> HIDE DEF ms
    <2>1. PICK u \in Task :
            Changed(k, u) /\ u.home = task[k].home /\ SentOn(k, u, ms) /\ Destroyed(u)
      BY <1>1, <1>7, DestroyCases
    <2>2. u.waits = {} /\ msgs' = ms \cup {ActorNew(k, u.to)}
      BY <2>1 DEF SentOn
    <2>3. task[k].waits \ {p} \subseteq {}
      BY <1>7 DEF AllDisconnected
    <2>4. \A n \in Nodes : copy'[n].state \notin {"connecting", "ready"}
      BY <1>3, <2>1 DEF Destroyed, NoCopy, TypeOK
    <2>5. task'[k] = u /\ \A j \in Tasks \ {k} : task'[j] = task[j]
      BY <2>1, ChangedTask
    <2> QED  BY <1>6, <2>2, <2>3, <2>4, <2>5
  <1>8. CASE /\ task' = [task EXCEPT ![k].waits = @ \ {p}] /\ msgs' = ms /\ UNCHANGED copy
    <2>1. task'[k].waits = task[k].waits \ {p} /\ \A j \in Tasks \ {k} : task'[j] = task[j]
      BY <1>8 DEF TypeOK, Task
    <2> QED  BY <1>3, <1>6, <1>8, <2>1
  <1> QED  BY <1>7, <1>8 DEF DisconnectReply

LEMMA ConnectionByRefuse ==
  ASSUME ConnectionInv, NEW k \in Tasks, NEW n \in Nodes, Refuse(k, n)
  PROVE  ConnectionInv'
  <1>1. UNCHANGED <<copy, at, joining>> /\ UNCHANGED task
    BY DEF Refuse
  <1>2. msgs' = (msgs \ {ActorNew(k, n)}) \cup {Answer(k, n, FALSE)}
    BY DEF Refuse
  <1>3. \A j \in Tasks, m \in Nodes, p \in Peers :
          /\ (Unlinking(j, p)' <=> Unlinking(j, p)) /\ (Unlinked(j, p)' <=> Unlinked(j, p))
          /\ (Linking(j, m, p)' <=> Linking(j, m, p)) /\ (Linked(j, m, p)' <=> Linked(j, m, p))
    <2>1. /\ msgs \ {ActorNew(k, n), Answer(k, n, FALSE)} \subseteq msgs'
          /\ msgs' \subseteq msgs \cup {ActorNew(k, n), Answer(k, n, FALSE)}
      BY <1>2
    <2> QED  BY <2>1, SamePorts
  <1> QED  BY <1>1, <1>3, ConnectionStays

LEMMA ConnectionByNew ==
  ASSUME TypeOK, AwaitedInv, HolderInv, ConnectionInv,
         NEW k \in Tasks, NEW n \in Nodes, New(k, n)
  PROVE  ConnectionInv'
  <1> DEFINE cs == {Connect(k, n, p) : p \in Peers}
  <1>1. Asked(k, n) /\ UNCHANGED at /\ UNCHANGED task
    BY DEF New, Asked
  <1>2. \A m \in Nodes : copy[m].state = "none"
    BY <1>1, OnlyAsked DEF Here
  <1>3. \A j \in Tasks, m \in Nodes, p \in Peers : ~Linking(j, m, p) /\ ~Linked(j, m, p)
    BY <1>2, NothingLinks
  <1>4. msgs' = (msgs \ {ActorNew(k, n)}) \cup cs
    BY DEF New
  <1>5. \A j \in Tasks, m \in Nodes, p \in Peers :
          /\ Disconnect(j, p) \notin cs /\ Disconnected(j, p) \notin cs
          /\ Connected(j, m, p) \notin cs /\ (Connect(j, m, p) \in cs => j = k /\ m = n)
    BY DEF Disconnect, Disconnected, Connect, Connected
  <1>6. \A j \in Tasks, m \in Nodes, p \in Peers :
          /\ Disconnect(j, p) # ActorNew(k, n) /\ Disconnected(j, p) # ActorNew(k, n)
          /\ Connect(j, m, p) # ActorNew(k, n) /\ Connected(j, m, p) # ActorNew(k, n)
    BY DEF ActorNew, Disconnect, Disconnected, Connect, Connected
  <1> HIDE DEF cs
  <1>7. \A j \in Tasks, m \in Nodes, p \in Peers :
          /\ (Unlinking(j, p)' <=> Unlinking(j, p)) /\ (Unlinked(j, p)' <=> Unlinked(j, p))
          /\ ~Linked(j, m, p)' /\ (Linking(j, m, p)' => j = k /\ m = n)
    BY <1>3, <1>4, <1>5, <1>6 DEF Unlinking, Unlinked, Linking, Linked
  <1>8. UnlinkingInv'
    BY <1>1, <1>7, OriginIsNode DEF ConnectionInv, UnlinkingInv
  <1>9. /\ copy'[n].state = "connecting" /\ copy'[n].by = k /\ copy'[n].linked = {}
        /\ \A m \in Nodes \ {n} : copy'[m].state = "none"
    BY <1>2 DEF New, TypeOK
  <1>10. joining'[k][n] = Peers
    BY DEF New, TypeOK
  <1>11. LinkingInv'
    BY <1>7, <1>9, <1>10, PeersAssumption DEF LinkingInv
  <1> QED  BY <1>8, <1>11 DEF ConnectionInv

(* The copy that is being connected is the only one.                       *)
LEMMA OnlyConnecting ==
  ASSUME HolderInv, ConnectionInv, NEW k \in Tasks, NEW n \in Nodes, NEW p \in Peers,
         Linking(k, n, p) \/ Linked(k, n, p)
  PROVE  /\ copy[n].state = "connecting" /\ copy[n].by = k /\ p \in joining[k][n]
         /\ copy[n].linked = Peers \ joining[k][n]
         /\ \A q \in copy[n].linked : at[q] = n
         /\ \A m \in Nodes \ {n} : copy[m].state = "none"
         /\ \A j \in Tasks, m \in Nodes, q \in Peers :
              Linking(j, m, q) \/ Linked(j, m, q) => j = k /\ m = n
  <1>1. copy[n].state = "connecting" /\ copy[n].by = k /\ p \in joining[k][n]
    BY DEF ConnectionInv, LinkingInv
  <1>2. copy[n].linked = Peers \ joining[k][n] /\ \A q \in copy[n].linked : at[q] = n
    BY <1>1 DEF ConnectionInv, LinkingInv
  <1>3. \A m \in Nodes \ {n} : copy[m].state = "none"
    BY <1>1 DEF HolderInv, Here
  <1>4. \A j \in Tasks, m \in Nodes, q \in Peers :
          Linking(j, m, q) \/ Linked(j, m, q) => copy[m].state = "connecting" /\ copy[m].by = j
    BY DEF ConnectionInv, LinkingInv
  <1>5. \A j \in Tasks, m \in Nodes, q \in Peers :
          Linking(j, m, q) \/ Linked(j, m, q) => j = k /\ m = n
    BY <1>1, <1>3, <1>4
  <1> QED  BY <1>1, <1>2, <1>3, <1>5

LEMMA ConnectionByConnectionRequest ==
  ASSUME TypeOK, HolderInv, ConnectionInv,
         NEW k \in Tasks, NEW n \in Nodes, NEW p \in Peers, ConnectionRequest(k, n, p)
  PROVE  ConnectionInv'
  <1>1. Linking(k, n, p) /\ UNCHANGED <<copy, joining>> /\ UNCHANGED task
    BY DEF ConnectionRequest, Linking
  <1>2. msgs' = (msgs \ {Connect(k, n, p)}) \cup {Connected(k, n, p)}
    BY DEF ConnectionRequest
  <1>3. \A j \in Tasks, m \in Nodes, q \in Peers :
          /\ Disconnect(j, q) # Connect(k, n, p) /\ Disconnect(j, q) # Connected(k, n, p)
          /\ Disconnected(j, q) # Connect(k, n, p) /\ Disconnected(j, q) # Connected(k, n, p)
          /\ Connect(j, m, q) # Connected(k, n, p) /\ Connected(j, m, q) # Connect(k, n, p)
          /\ Connect(j, m, q) = Connect(k, n, p) <=> j = k /\ m = n /\ q = p
          /\ Connected(j, m, q) = Connected(k, n, p) <=> j = k /\ m = n /\ q = p
    BY DEF Disconnect, Disconnected, Connect, Connected
  <1>4. \A j \in Tasks, m \in Nodes, q \in Peers :
          /\ (Unlinking(j, q)' <=> Unlinking(j, q)) /\ (Unlinked(j, q)' <=> Unlinked(j, q))
          /\ Linking(j, m, q)' <=> Linking(j, m, q) /\ ~(j = k /\ m = n /\ q = p)
          /\ Linked(j, m, q)' <=> Linked(j, m, q) \/ (j = k /\ m = n /\ q = p)
    BY <1>2, <1>3 DEF Unlinking, Unlinked, Linking, Linked
  <1>5. UnlinkingInv'
    BY <1>1, <1>4 DEF ConnectionInv, UnlinkingInv
  <1>6. at'[p] = n /\ \A q \in Peers \ {p} : at'[q] = at[q]
    BY DEF ConnectionRequest, TypeOK
  <1>7. /\ copy[n].state = "connecting" /\ copy[n].by = k /\ p \in joining[k][n]
        /\ copy[n].linked = Peers \ joining[k][n]
        /\ \A q \in copy[n].linked : at[q] = n
        /\ \A m \in Nodes \ {n} : copy[m].state = "none"
        /\ \A j \in Tasks, m \in Nodes, q \in Peers :
             Linking(j, m, q) \/ Linked(j, m, q) => j = k /\ m = n
    BY <1>1, OnlyConnecting
  <1>8. \A j \in Tasks, m \in Nodes, q \in Peers :
          /\ Linking(j, m, q) \/ Linked(j, m, q) => j = k /\ m = n /\ q \in joining[k][n]
          /\ Linked(j, m, q) => at[q] = n /\ ~Linking(j, m, q)
    BY <1>7 DEF ConnectionInv, LinkingInv
  <1>9. \A j \in Tasks, m \in Nodes, q \in Peers :
          /\ Linking(j, m, q)' \/ Linked(j, m, q)' => j = k /\ m = n /\ q \in joining[k][n]
          /\ Linked(j, m, q)' => at'[q] = n /\ ~Linking(j, m, q)'
    BY <1>4, <1>6, <1>7, <1>8
  <1>10. \A q \in copy[n].linked : q \in Peers /\ at'[q] = n
    BY <1>6, <1>7
  <1>11. LinkingInv'
    BY <1>1, <1>7, <1>9, <1>10 DEF LinkingInv
  <1> QED  BY <1>5, <1>11 DEF ConnectionInv

LEMMA ConnectionByConnectReply ==
  ASSUME TypeOK, HolderInv, ConnectionInv,
         NEW k \in Tasks, NEW n \in Nodes, NEW p \in Peers, ConnectReply(k, n, p)
  PROVE  ConnectionInv'
  <1> DEFINE ms == msgs \ {Connected(k, n, p)}
             as == {Answer(k, n, a) : a \in {b \in {TRUE} : joining[k][n] = {p} /\ Here(n)}}
  <1>1. Linked(k, n, p) /\ UNCHANGED at /\ UNCHANGED task /\ ActorConnected(k, n, p, TRUE, ms)
    BY DEF ConnectReply, Linked
  <1>2. msgs' = ms \cup as
    BY <1>1 DEF ActorConnected, Answers, Here
  <1>3. joining'[k][n] = joining[k][n] \ {p}
    BY <1>1 DEF ActorConnected, TypeOK
  <1>4. \A j \in Tasks, m \in Nodes, q \in Peers :
          /\ Disconnect(j, q) \notin as /\ Disconnected(j, q) \notin as
          /\ Connect(j, m, q) \notin as /\ Connected(j, m, q) \notin as
    BY DEF Answer, Disconnect, Disconnected, Connect, Connected
  <1>5. \A j \in Tasks, m \in Nodes, q \in Peers :
          /\ Disconnect(j, q) # Connected(k, n, p) /\ Disconnected(j, q) # Connected(k, n, p)
          /\ Connect(j, m, q) # Connected(k, n, p)
          /\ Connected(j, m, q) = Connected(k, n, p) <=> j = k /\ m = n /\ q = p
    BY DEF Disconnect, Disconnected, Connect, Connected
  <1>6. /\ copy[n].state = "connecting" /\ copy[n].by = k /\ p \in joining[k][n]
        /\ copy[n].linked = Peers \ joining[k][n]
        /\ \A q \in copy[n].linked : at[q] = n
        /\ \A m \in Nodes \ {n} : copy[m].state = "none"
        /\ \A j \in Tasks, m \in Nodes, q \in Peers :
             Linking(j, m, q) \/ Linked(j, m, q) => j = k /\ m = n
    BY <1>1, OnlyConnecting
  <1>7. /\ copy'[n].state = IF joining[k][n] = {p} THEN "ready" ELSE "connecting"
        /\ copy'[n].by = k /\ copy'[n].linked = copy[n].linked \cup {p}
        /\ \A m \in Nodes \ {n} : copy'[m] = copy[m]
    BY <1>1, <1>6 DEF ActorConnected, Answers, TypeOK, Copy
  <1> HIDE DEF as
  <1>8. \A j \in Tasks, m \in Nodes, q \in Peers :
          /\ (Unlinking(j, q)' <=> Unlinking(j, q)) /\ (Unlinked(j, q)' <=> Unlinked(j, q))
          /\ Linking(j, m, q)' <=> Linking(j, m, q)
          /\ Linked(j, m, q)' <=> Linked(j, m, q) /\ ~(j = k /\ m = n /\ q = p)
    BY <1>2, <1>4, <1>5 DEF Unlinking, Unlinked, Linking, Linked
  <1> HIDE DEF ms
  <1>9. UnlinkingInv'
    BY <1>1, <1>8 DEF ConnectionInv, UnlinkingInv
  <1>10. /\ at[p] = n /\ ~Linking(k, n, p)
         /\ \A j \in Tasks, m \in Nodes, q \in Peers :
              /\ Linking(j, m, q) \/ Linked(j, m, q) => j = k /\ m = n /\ q \in joining[k][n]
              /\ Linked(j, m, q) => at[q] = m /\ ~Linking(j, m, q)
    BY <1>1, <1>6 DEF ConnectionInv, LinkingInv
  <1>11. \A j \in Tasks, m \in Nodes, q \in Peers :
           /\ Linking(j, m, q)' \/ Linked(j, m, q)' => j = k /\ m = n /\ q \in joining'[k][n]
           /\ Linked(j, m, q)' => at'[q] = m /\ ~Linking(j, m, q)'
    BY <1>1, <1>3, <1>8, <1>10
  <1>12. copy'[n].linked = Peers \ joining'[k][n] /\ \A q \in copy'[n].linked : at'[q] = n
    BY <1>1, <1>3, <1>6, <1>7, <1>10
  <1>13. LinkingInv'
    <2>1. CASE joining[k][n] = {p}
      <3>1. joining'[k][n] = {} /\ copy'[n].state = "ready" /\ copy'[n].linked = Peers
        BY <1>3, <1>7, <1>12, <2>1
      <3> QED  BY <1>6, <1>7, <1>11, <1>12, <3>1 DEF LinkingInv
    <2>2. CASE joining[k][n] # {p}
      <3>1. joining'[k][n] # {} /\ copy'[n].state = "connecting"
        BY <1>3, <1>6, <1>7, <2>2
      <3> QED  BY <1>6, <1>7, <1>11, <1>12, <3>1 DEF LinkingInv
    <2> QED  BY <2>1, <2>2
  <1> QED  BY <1>9, <1>13 DEF ConnectionInv

LEMMA ConnectedNext ==
  TypeOK /\ TasksInv /\ PlaceInv /\ ConnectedInv /\ [Next]_vars => ConnectedInv'
  <1> SUFFICES ASSUME TypeOK, TasksInv, PlaceInv, ConnectedInv, [Next]_vars, Regular'
               PROVE  ConnectionInv'
    BY DEF ConnectedInv
  <1>1. AwaitedInv /\ HolderInv /\ ConnectionInv
    BY FaultsGrow DEF PlaceInv, ConnectedInv, Regular
  <1>2. CASE UNCHANGED vars
    <2>1. UNCHANGED <<copy, at, joining>> /\ UNCHANGED task /\ msgs' = msgs
      BY <1>2 DEF vars
    <2> QED  BY <1>1, <2>1, ConnectionStays DEF Unlinking, Unlinked, Linking, Linked
  <1>3. ASSUME NEW k \in Tasks,
               \/ NewTimeout(k) \/ DisconnectFails(k)
               \/ \E n \in Nodes, p \in Peers : ConnectFails(k, n, p)
        PROVE  FALSE
    <2>1. Fault("late") \/ Fault("unconnected") \/ Fault("unlinked")
      BY <1>3 DEF NewTimeout, DisconnectFails, ConnectFails
    <2>2. faults'["late"] > 0 \/ faults'["unconnected"] > 0 \/ faults'["unlinked"] > 0
      BY <2>1, FaultCounts DEF Faults
    <2> QED  BY <2>2 DEF Regular, Undisturbed
  <1> QED
    BY <1>1, <1>2, <1>3, ConnectionByRobustMigrate, ConnectionByNewReply,
       ConnectionByDisconnectionRequest, ConnectionByDisconnectReply, ConnectionByNew,
       ConnectionByRefuse, ConnectionByConnectionRequest, ConnectionByConnectReply
       DEF Next, Handle

(* An actor that is ready to move again is connected with all its peers,   *)
(* and they with it where it now is, as long as every disconnect and       *)
(* connect has been answered in time: new, _actor_connected, and the       *)
(* requests of the port managers.                                          *)
THEOREM AlwaysReadyIsConnected ==
  Spec => []ReadyIsConnected
  <1>1. Init => TypeOK /\ TasksInv /\ PlaceInv /\ ConnectedInv
    BY TypeInit, TasksInit, PlaceInit, KeptInit, ConnectionInit DEF PlaceInv, ConnectedInv
  <1>2. TypeOK /\ TasksInv /\ PlaceInv /\ ConnectedInv /\ [Next]_vars
          => TypeOK' /\ TasksInv' /\ PlaceInv' /\ ConnectedInv'
    <2>1. TypeOK /\ TasksInv /\ PlaceInv /\ [Next]_vars => TasksInv' /\ PlaceInv'
      BY PlacesNext
    <2> QED  BY <2>1, TypeNext, ConnectedNext
  <1>3. ConnectedInv => ReadyIsConnected
    BY DEF ConnectedInv, Regular, Undisturbed, ConnectionInv, LinkingInv, ReadyIsConnected
  <1> QED  BY <1>1, <1>2, <1>3, PTL DEF Spec

=============================================================================
