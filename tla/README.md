# A TLA+ verification project for Calvin

Calvin is a distributed data-flow runtime. Actors, connected by the ports they
read tokens from and write tokens to, are placed on runtimes; a runtime is a
single-threaded event loop (twisted) that fires its actors, moves tokens between
ports through tunnels to other runtimes, and can at any time migrate an actor, or
replicate it. What makes this hard is what lies between two callbacks: a port
that is disconnected while its tokens are in the air, a reply that comes after
its timeout, two runtimes that ask each other for the same thing.

The modules here translate the code under `src/calvin`; the file `PROJECT.json`
maps each definition to the lines it stands for. Paths below are relative to
`src/calvin`, and `north` is `runtime/north`.

## 1. Inventory

| Component | State | Operations | Hard because of | Correct if |
|---|---|---|---|---|
| **Port queue** `north/plugins/port/queue/fanout_fifo.py` | ring `fifo` of N slots, `write_pos`, and per reader `read_pos`, `tentative_read_pos`, `reader_offset` | write, peek, commit, cancel for the actor; com_write, com_peek, com_commit, com_cancel for the transport; serialise; exhaust | positions that grow for ever over a ring; several readers; numbers that arrive out of order | a slot is reused only when every reader is past it; nothing is lost, repeated or reordered |
| **Token transport** `.../endpoint/tunnel.py`, `.../connection/tunnel.py`, `north/monitor.py` | out endpoint: bulk or throttled, backoff, ACKs kept for later; tunnels and what is in them | communicate, receive a token, ACK, NACK, ABORT | full queues, NACKs in bulk, replies to a sender that has moved, a tunnel that switches links | the two queues together behave as one FIFO channel; every token gets through in the end |
| **Dispatching queues** `.../queue/fanout_*.py` | a ring per outport, and whose turn it is | write to one, some or all readers; readers come and go; exhaust | a reader that joins late or leaves with tokens unsent | a token goes to whom the schedule says, once |
| **Collecting queues** `.../queue/collect_*.py` | a ring per writer, tokens of exhausted writers | com_write, peek, commit; writers come and go | both ends of a connection exhaust it at once | every token of every writer is read, by turns |
| **Ports** `actor/actorport.py` | endpoints of a port, its queue | attach, detach, disconnect, read, write | the actor may fire only when connected | an actor that lost a peer stops, and starts when all are back |
| **Migration** `north/actormanager.py` | the actor's state, serialised with its queues | migrate, _migrate_disconnected, new_from_migration, connect | both ends may move; four messages per peer, among tokens | the handed over state has nothing half done; the move ends |
| **Disconnection** `north/portmanager.py`, `.../connection/*.py` | one shared list per port, a flag per connection, the ports not yet done | disconnect (one port or an actor), disconnection_request | peers that are local, remote, gone; answers, failures, timeouts in any order | the caller hears once, and success is true |
| **Connecting ports** the same files | pending tunnels and callbacks | connect, connection_request, retries, lookups | peers that move meanwhile, crossing requests | both ends attach, or both learn they did not |
| **Tunnels** `north/calvin_proto.py` | status and id of a tunnel, its handlers | tunnel_new, _setup_ack, tunnel_new_handler, destroy | both sides ask at once; late answers | both sides agree on one tunnel |
| **Links** `north/calvin_network.py` | links per peer, registered replies with timers, pending joins | join, link_request, send_with_reply, reply_handler, reply_timeout | simultaneous joins, replaced links | one link per peer, one answer per request |
| **Replication manager** `north/replicationmanager.py` | per replication: status, locks given, acquired, asked for | replicate, dereplicate, lock and release of peers, leader election | managers on several runtimes lock each other | connected actors are not replicated at the same time; none waits for ever |
| **Registry storage** `north/storage.py` | values and set changes not stored yet, a flush timer | set, get, delete, append, remove, indexes | answers to older operations, failures, restart of the plugin | what was written is read, and is stored in the end |
| **Scheduler** `north/scheduler.py` | a task list in time order, one timer | insert_task, _process_next, strategy | a task that raises; events that schedule nothing | whatever is due is run |
| **Actor life cycle** `actor/actor.py` | a state machine of six states | enable, connect, disconnect, migrate, deny | callbacks in states nobody thought of | only legal transitions |
| Application manager, requirement matching, resource monitor | placements, iterators over sets | deploy, destroy, match | queries that never end | not modelled |
| Compiler, actor store, calvinsys, control API, tools, authorization, transports | | | sequential code, I/O or security policy | not modelled |

Components meet in these ways: the scheduler calls the monitor and the actors
(synchronous); the monitor calls the endpoints, which call queue and tunnel;
tunnels and requests go through links (messages, answered by callbacks that are
registered under a message identity with a 10 s timer); port, actor and
replication managers talk to their peers by requests; and all of them read and
write the registry through storage (callbacks). Within a runtime nothing runs in
parallel: a step of a model is what the code does between two returns to the
event loop.

The hazards, each at its line and with the properties that watch it, are in
`PROJECT.json`.

## 2. Modules

| Module | What it is |
|---|---|
| `FanoutFIFO` | the queue of a port, as operators on a record (no state of its own) |
| `TokenTransport` | one outport, its readers on other runtimes, endpoints, tunnels, migration; uses `FanoutFIFO` for both kinds of queue |
| `ReliableChannel` | the abstract specification: a bounded FIFO channel to every reader |
| `PeerRings` | what the two queues below share: a ring per peer, and the peers in the order of their ids |
| `DispatchQueue`, `CollectQueue` | the queues of an outport with several readers and of an inport with several writers, as operators |
| `PortQueues` | ports with these queues, remote and local endpoints, replicas that join, connections that are exhausted |
| `LinkChannels` | its abstract specification: a set of reliable channels, one for each link |
| `ActorMigration` | an actor that is moved to the first of several runtimes that takes it |
| `TunnelConnect` | two runtimes set up their tunnel and connect ports over it |
| `PortDisconnect` | the collection of a port's and an actor's disconnections into one callback |
| `Scheduler` | the task list of a runtime and its one delayed call |
| `ReplicationLock` | the locks between connected replications |
| `Storage` | a runtime's local store in front of the registry: values, sets, indexes and the flush |
| `TokenTransportProofs`, `PortQueuesProofs`, `TunnelConnectProofs`, `PortDisconnectProofs`, `SchedulerProofs`, `ActorMigrationProofs`, `ReplicationLockProofs`, `StorageProofs` | theorems and lemmas (section 4) |
| `MC…` | instances for TLC; one `.cfg` for each run |

They fit together as follows. `TokenTransport` has the tokens of one connection
while its ends move, and takes the moves as given; `ActorMigration` has the moves,
with the requests that may fail, and takes the ports' connects and disconnects
as single requests; `PortDisconnect` and `TunnelConnect` open those up. `PortQueues`
has the other queues and the exhaustion of a connection, on a transport without
moves. `Scheduler` justifies the fairness that the transport's liveness assumes.

Definitions whose name ends in `_MUT` are mistakes of the definition that
follows them, of the kind a change to the code could make (a dropped guard, an
off-by-one, a missing retry). No specification uses them; put in place of the
right definition, each makes a property of a run fail, so that the property is
known to be about that code.

Every module with state has a type invariant, `TypeOK`. All are proved; only that of
`ReplicationLock`, which says more than types, is listed by a run.

### FanoutFIFO and TokenTransport

A queue is the record `FanoutFIFO._state` serialises, without the metadata that
never changes. Positions only grow and index the ring modulo N = length + 1.
`com_commit` and `com_cancel` are translated with their holes: the code compares
with the tentative position only, so that a late NACK may set it behind what is
committed.

| Action | Code |
|---|---|
| `Write`, `Read` | `OutPort.write_token`, `InPort.read`, which commits at once |
| `Communicate` | `Event_Monitor.communicate` and `TunnelOutEndpoint.communicate`: everything in bulk, or one token if the last is committed |
| `ReceiveToken` | `TokenTunnel.recv_token_handler`, `TunnelInEndpoint.recv_token` |
| `ReceiveAck`, `ReceiveNack` | `TunnelOutEndpoint.reply`, `_reply_ack` with its loop over the kept ACKs, `_reply_nack`, and the monitor's backoff |
| `BackoffExpires` | `Event_Monitor._check_backoff` |
| `LeaveIn`, `LeaveOut` | `ActorManager.migrate`: all endpoints detached, a request to each peer |
| `DisconnectRequest…`, `DisconnectReply…` | `TunnelConnection.disconnection_request`, `_disconnected_peer` |
| `ArriveIn`, `ArriveOut` | `_migrate_disconnected`, `new_from_migration` and `connect` on the new runtime |
| `ConnectRequest…`, `ConnectReply…` | `connection_request`, `_connected_via_tunnel`; the outport's actor is enabled with the last of its peers |
| `OvertakeIn`, `OvertakeOut` | a tunnel that switches to another link |

Abstractions. A tunnel is a pair of channels per reader and stays when an actor
moves, although the new runtime uses another link: stale replies that reach the
new endpoint are more than the code allows, which drops them. An endpoint that
is gone has the values of a new one (the code makes a new object). Numbers of
kept ACKs are a set (the code has a list, in which a number may be repeated). An
ABORT is dropped, as its handler does nothing. Connects succeed. Replicas
(`reader_offset` other than 0) and exhaustion are `PortQueues`'.
Assumption on the environment: the writing actor and a reading actor do not move
at the same time; several reading actors may.

`ReliableChannel` has three variables, `sent`, `received` and the capacity as a
constant: a token may be sent as long as no reader is more than Capacity behind.
`ImplementsChannel` says that `TokenTransport` implements it with Capacity =
OutLength + InLength: a queue of one port's length plus the other's is what the
actors see. `ImplementsFairChannel` adds that every token is received.

### DispatchQueue, CollectQueue and PortQueues

`DispatchQueue` has the outport's queue in all its kinds: one that copies a token
to every reader (`fanout`), and those that send it to one or to some, in an order,
by turns, at random, balanced or as a mapping says. The schedule is what
`Destinations` allows. The code keeps a ring per reader or one for all; here
each reader has the positions, and with `fanout` its ring is a copy.
`CollectQueue` has the inport's queue in the kinds `unordered`, `any` and
`synced`, with a ring per writer, the exhaustion tokens, and the moment when a
writer is removed. As the inport commits what it peeks, its tentative position is
the read position.

| Action | Code |
|---|---|
| `Produce`, `Consume` | an actor that fires: `write` with the schedule; `peek` and `commit` with the choice of the writer |
| `Communicate`, `ReceiveToken`, `ReceiveReply` | the endpoints over a tunnel, as in `TokenTransport` |
| `CommunicateLocal` | `LocalOutEndpoint.communicate`: from queue to queue at once |
| `ExhaustOut`, `ExhaustIn` | `TunnelConnection.disconnect` with EXHAUST, at either end |
| `ExhaustLocal` | `LocalConnection.disconnect`: both ends in one step |
| `DisconnectionRequestIn`, `…Out` | `TunnelConnection.disconnection_request` |
| `DisconnectedPeerIn`, `…Out` | `_disconnected_peer`, with the tokens that the outport had left |
| `Join` | a replica's connection: `Port.attach_endpoint` at both ends, `add_reader` with its offset, `add_writer` |

The ports, the kinds of their queues, which links are local, which join late and
which may be exhausted are a record, the scenario, chosen in the initial state.
Abstractions. The two runtimes of a link share one link of the network, which is
FIFO and stays up; the order of ACKs is that of the tokens, so that nothing is
kept for later. A token is a number, and an exception token a negative one.
Queues are not serialised, as no actor moves here. Left out: tagged queues, which
take tokens as `unordered` does and name the writer; termination, which drops
tokens on purpose.

`LinkChannels` has for each link what was sent and what was received. A token is sent
on some links of one outport that have room, the next tokens are received from some
links of one inport, and a replica's link may begin with the last tokens that another
link of its outport was sent. `LinksAreChannels` says that `PortQueues` implements
it, with the lengths of both queues as the capacity of a link: the transport, the
exhaustion from either end and the hand-over cannot be seen by the actors, and no
writer gets ahead of a reader by more than the two queues hold.

### ActorMigration

| Action | Code |
|---|---|
| `RobustMigrate` | `robust_migrate` as `_update_requirements_placements` and its other callers start it; with `TryNext`, `Migrate` and `HandedOn` for `migrate` and the next attempt |
| `DisconnectionRequest` | `PortManager.disconnection_request` at the peer |
| `DisconnectReply` | `_disconnecting_actor_cb`, which goes on with `_migrate_disconnected` at the last answer (`DestroyAndAsk`) |
| `DisconnectFails` | the same with the first failure or timeout: the state is handed on |
| `New`, `Refuse` | `actor_new_handler` with `new` and `connect`; a runtime that is quitting, or that cannot be reached |
| `ConnectionRequest` | `PortManager.connection_request` at the peer |
| `ConnectReply`, `ConnectFails` | `_actor_connected`, which answers at the last success or the first failure |
| `NewReply`, `NewTimeout` | the callback of ACTOR_NEW, which starts the next attempt; an answer that comes too late is ignored |

Abstractions. A peer is one port of another actor, which stays where it is; each
peer is one port of this one. Runtimes that are suggested do not include the
actor's own (`migrate` to oneself answers at once that it is done). A
PORT_CONNECT is answered or fails; one that failed is not handled any more. A
link that cannot be made for a PORT_DISCONNECT never calls back, which is
`PortDisconnect`'s: here the request is answered or fails. When the actor is gone
as its ports are connected, `_actor_connected` ends in an exception, and nobody
is answered. `MaxEvents` bounds the calls and the faults together.

### TunnelConnect

| Action | Code |
|---|---|
| `Connect`, `LookedUp` | `PortManager.connect`, the look-up before a retry; both end in `TunnelConnection.connect` with `tunnel_new` (`TunnelConnect`) |
| `LinkUp`, `LinkFails` | `CalvinTunnel._tunnel_link_request_finished` |
| `TunnelRequested`, `TunnelCrossed`, `TunnelDropped` | `tunnel_new_handler`: the first request, one that crosses its own, one that comes while a tunnel works |
| `SetupAck` | `_setup_ack` with `TokenTunnel.tunnel_up` |
| `ConnectionRequest` | `TunnelConnection.connection_request` |
| `ConnectedViaTunnel` | `_connected_via_tunnel` with its retries |
| `ReplyTimeout`, `ReplyLate` | `CalvinLink.reply_timeout`: the answer does not come any more, or comes later |
| `Lose`, `Overtake` | a link that is lost or replaced |

A runtime has at most two tunnel objects towards its peer. An identity is the
runtime that made it, as only the order of identities matters to the code. A
connect whose callback is never called is in phase `lost`. Ports stay where they
are: NOT_FOUND and BAD_REQUEST do not occur.

### PortDisconnect

`Disconnect` is `PortManager.disconnect` with everything it calls at once;
`SendRequest`/`LinkFails` are `link_request` and `send_message`;
`DisconnectionRequest` is the peer's handler; `ReplyHandler` and `ReplyTimeout`
are those of `CalvinLink`, and both end in `DisconnectedPeer`, which is
`TunnelConnection._disconnected_peer`, and `PortCallback`, which is
`PortManager._disconnecting_actor_cb`. The kinds of the peers are chosen in the
initial state, so that one run covers all combinations. A link that fails calls
back with a keyword that `_disconnected_peer` does not have; `CalvinCB` logs the
exception, and the connection is in state `unlinked` for ever. Termination is left
out, exhaustion is `PortQueues`'. Assumed: every port has a peer (otherwise the
loop in `PortManager.disconnect` ends in a NameError), and the actor is
disconnected once.

### Scheduler

`agenda` is `_tasks` together with the delayed call of the event loop; times are
ticks from now. `RunStrategy`, `RunReplication`, `RunMaintenance`, `RunPressure`,
`RunWatchdog` and `FireTimer` are `_process_next` with the task that is first in
the list, `TaskRaises` is the same with a task that ends in an exception. `TunnelRx`,
`TunnelTxAck`, `TunnelTxNack`, `UnregisterEndpoint`, `ReplicationDirect`,
`TriggerMaintenanceLoop` and `TriggerPressureEvent` are the events it is told of.
`Insert` is `insert_task` with its coalescing, and `Tick` the clock. The event loop
is punctual and tasks take no time. Which actors fire is not modelled: the
strategy chooses whether there was activity, whether a port is under pressure and
whether the timer of an actor is set. `Event` bounds the length of the list.

### ReplicationLock

`Lock` is `lock_peer_replication` with `cont_lock_peer_replication`; `TryLock`
and `Release` are the handlers at the peer's leader, `Granted`, `Refused` and
`Released` their answers. `phase` is the status READY, or REPLICATING before and
after the callback. A KeyError in an answer ends the handler there: what it has
assigned stays. Each leader is on a runtime of its own (calls within a runtime
are synchronous and cannot cross) and can be reached. `ahead` is history: the
peers that were replicating when this one asked.

### Storage

| Action | Code |
|---|---|
| `Set`, `Delete` | `Storage.set`, `delete` |
| `Add`, `Remove` | `append` and `add_index`, `remove` and `remove_index`: a set sends all that is to be confirmed, an index the new value |
| `Get` | `get`, `get_concat`, `get_index` |
| `StartedCb`, `FlushLocaldata` | `started_cb`; `flush_localdata` with its four helpers |
| `Handle` | external: the plugin and the registry |
| `Callback` | `set_cb`, `append_cb`, `remove_cb`, `add_index_cb`, `remove_index_cb` with `trigger_flush` at their end; `delete` has the caller's own callback |

A key that is in the local store with nothing to add or to remove is the same as
one that is not: the code creates no such entry (what is added is not empty) and
its callbacks delete it. `flush_localdata` gives the callback of an index the set
in the local store itself, so that it confirms what is in it when the answer
comes; a call is `live` as long as the entry exists, and `dead` when it has been
deleted and the callback has an old, empty set. A read carries what was wanted
when it was asked for, and `asWanted` compares. The plugin keeps the order of the
calls for a key, as a proxy's tunnel does; a DHT gives no such promise. Kinds of
keys are disjoint, as the prefixes are in the code. Delays are left out, so
`flush_timeout` is too. `stop`, the proxy server, and the functions that choose
keys and values for nodes, actors, ports and replicas are left out.

## 3. Runs

| Run | Instance | Question |
|---|---|---|
| `ordered` | 1 reader, OutLength 3, InLength 1, 5 tokens, 2 migrations, FIFO, fair | Do tokens arrive once and in order, do both sides agree on what is stored, is a migrated state clean; does every token arrive, is every slot freed, does every migration end? |
| `reordered` | 2 readers, OutLength 2, InLength 1, 3 tokens, 1 migration, 1 overtake | Is it still a reliable channel with fan-out and when messages overtake each other? |
| `queues` | 13 scenarios of 2 to 4 ports, rings of 3 and 2 slots, 4 tokens, fair | Does every kind of queue deliver everything once, in order and by turns, through late replicas and exhaustion from either end, as bounded channels do? |
| `moves` | 3 runtimes, 2 peers; one call with two faults or two calls with one, fair | Is the actor in one place, connected there, and is every call answered? |
| `tunnels` | 2 runtimes, 2 ports, 1 loss or overtake, fair | Do both ends use the same tunnel, and is everyone connected who asks, unless a request goes unanswered? |
| `disconnect_actor` | an inport with one peer and an outport with two, each local, remote or gone, fair | Is the caller called once, truthfully, and in the end? |
| `loops` | 2 endpoints that back off, 5 tasks, fair | Is there always a delayed call, do the periodic tasks go on, is every event served? |
| `locks` | 3 replications in a pair, a line or a circle, 3 rounds, 1 overtake, fair | No circle of waiting, no lock left, and those who ask later wait? |
| `cache` | a value, a set or an index, 2 values, 4 calls, 1 failure, fair | Without a failure: is nothing forgotten, are reads current? With one: is what is left tried again, until nothing is? |
| `replica`, `raises`, `returned` | small | The code disagrees with its documentation: see 6. |

`loops` and `raises` check for deadlock: time goes on, whatever happens. In the
others the system may come to rest, as actors need not write or move, an actor is
disconnected once, and calls are bounded; their cfg says `CHECK_DEADLOCK FALSE`.

**Why the bounds are enough.** OutLength 3 makes a ring of 4 slots, InLength 1 a
ring of 2; 5 tokens wrap both, fill both, and make the sender send in bulk more
than the receiver has room for, so that NACKs, cancels, throttling and resends
all happen. Two migrations let both ends move one after the other. The second
reader of `reordered` makes one fall behind, and one overtake keeps an ACK, or
puts it after a NACK of an earlier token; for more of them there is the proof. In
`queues` every kind meets a remote and a local connection; a ring of 2 at the inport
is full with one token, 4 tokens wrap it twice, and two writers (three in one
scenario) are the fewest that take turns. Two faults of `moves` are the fewest that
lose the actor, and the run has every pair of them; two calls are the fewest that
meet, and a target list of two runtimes has a second attempt. In `tunnels`
two ports let one be connected while the other waits; one fault, a loss or an
overtake, reaches all the retries, as they are counted per port. With three connections an
actor has both a port with one and a port with several peers. In `loops` two endpoints
are the fewest of which one has the earlier slot, and five tasks leave room for two
events beside the periodic ones. Three replications are the fewest with a
second peer, and with a circle; three rounds let one of them start again before
the answers of its last round are in. One overtake reaches the refusal that FIFO
links never lead to. The keys of `Storage` share nothing but the flag of the timer,
and the proof of `LeftIsTriedAgain` covers any number of them, so that a run needs
one at a time. Four calls are a change before the start, two that cross an answer
and a flush, and a read. One failure is enough for the retries that
`LeftIsTriedAgain` and `EventuallyFlushed` are about.

**Faults that a property excludes, it names.** `NoChangeForgotten` and
`ReadsOwnWrites` are claimed as long as no call has failed: a set that fails may put
its value back over a newer one. `InOnePlace` leaves out the answer that comes too
late and the connect that fails, after which there are two of the actor.
`ReadyIsConnected` is about moves without a late or failing disconnect or connect.
`Routed` is about tunnels without losses, with at most one overtake, none of which has
timed out (`Disturbed`), and `EventuallyConnected` about those whose request was
answered. Properties of the locks that an overtake spoils say
`overtakes = 0`. Section 6 has what happens otherwise.

**Fairness.** `Read`, `Communicate`, and the handlers are weakly fair: the base
class's `_check_replication` inserts `strategy` at every interval whatever
happens (`LoopsGoOn`), and `strategy` tries every endpoint and every enabled actor;
twisted delivers what a link has received. `BackoffExpires`: `_check_backoff`
compares with the clock at every `communicate` (`RetriedInTime`).
`SendRequest`/`LinkFails`: a link request succeeds or fails. `ReplyTimeout`: a
timer of 10 s, started with the request. `LinkUp`, `LookedUp`: a link is made (or
fails, which is a loss), the registry answers. `Handle` of `ActorMigration`:
whatever is on its way is handled; nothing obliges a request to be refused or
to time out. `Replicated`: a replication ends, with either status.
`FlushLocaldata`: a timer; `Handle` and `Callback` of storage: the plugin calls
back, with success or not. `ProcessNext`: the event loop makes the delayed calls.
Nothing obliges an actor to write, to be migrated, or to be replicated, and
nothing obliges a connection to be exhausted. `PortQueues` and `Scheduler` write
weak fairness with the condition of an action instead of its ENABLED, which TLC
takes too long to evaluate. (`tunnel_tx_throttle` is an empty method, although the
sender calls it so "that resend will be tried in backoff seconds": the retry that
liveness rests on is the periodic one.)

## 4. What is proved

For all values of the constants (any finite set of readers, any queue lengths,
any number of migrations and overtakes; any ports and peers; any endpoints,
intervals and back-offs; any runtimes, calls of `robust_migrate` and faults; any
deployment; any keys, calls and failures; any connections over a tunnel):

* **TokenTransport**: `TypeCorrect`, `InvariantHolds`, `DeliveryCorrect`
  (`DeliveryPrefix`), `NothingForgotten` (`AckedImpliesStored`) and
  `RefinesChannel` (`ImplementsChannel`). `DeliveryPrefix` is not inductive: it
  says nothing of tokens on their way. `TransportInv` adds that every slot
  between the read and the write position of a queue holds the token written at
  that position (`OutQueueInv`, `InQueueInv`), that a token in the air which the
  receiver has not got is the right one (`TokensInFlight`), and that only stored
  tokens are acknowledged, in the air and among the kept ones (`AcksInFlight`,
  `KeptAcksStored`). It says nothing of the order of messages, nor of the lower
  bound of the tentative position: that is what makes it survive reordering and
  late NACKs. The proof has a lemma for each group of actions. Those that move
  no position but the tentative one share a lemma, by an abstract step
  (`MigrationStep`, `QuietStep`). Slots of the ring are told apart by a lemma on
  `%` for positions less than N apart. The refinement maps `Write` to `Send`,
  `Read` to `Receive` and all else to stuttering; the guard of `Send` follows
  from the queue bounds in the invariant.
* **TokenTransport on FIFO links**: `HandoverIsClean`
  (`CleanHandover`) and `AnsweredAreCommitted` (`AnsweredIsCommitted`), in every state
  up to which no message has overtaken another. The invariant, `HandoverHolds`, says
  that each connection is in one of eleven stages (`Stage`): connected, and for a
  reader or an outport that moves the five steps from its request to disconnect to
  the answer to its request to connect. Each stage says what is the only control
  message on its way and where: tokens and replies are ahead of a request or an answer
  to disconnect and behind an answer to connect, since neither end sends once it
  is detached. While both ends are connected (`Flow`), replies and tokens on their
  way are, in this order, those the sender has taken back (`Stale`), all to be refused,
  and one for each position that is sent and not committed (`Streams`); from the
  first of these that is refused on all are, so an ACK is for the read position,
  always, and none is kept; and with stale tokens on their way the sender is
  throttled to one. The stale tokens are what a NACK leaves of a bulk transfer.
* **PortQueues**: `TurnsInOrder` (`InTurn`), if no replica joins late, which has no place in
  the schedule (section 6). The invariant (`Schedule`) says that the entries of the
  schedule count the readers all around the ring, from the one whose turn it is;
  the code fills the slot that it has used with the successor of the entry before, so
  that this survives a turn. After a reader has left the schedule is made again
  (`ResetTurns`), from the reader whose turn it was and perhaps too short: then
  writing raises, and no turn is taken (`TurnRaises`). `TurnsTaken` relates the turns that
  were taken to the next one. That a list of readers in the order of their ids
  exists for every finite set of ports is `AscendingExists`.
* **PortQueues, the links**: `LinksDeliverInOrder` (`DeliveryPrefix`),
  `ExhaustionPreserves` (`ExhaustPreserves`) and `TokensAreHeld` (`EveryTokenHeld`),
  for any ports, all kinds of queues, local and remote links, exhaustion from either
  end and replicas that join. The premise (`Faultless`) leaves out the two scenarios in
  which the code is wrong (section 6): a replica's link to a `fanout` queue that is
  exhausted, and exceptions taken by an `any` queue; TLC refutes each of the three
  properties in both. None of them is inductive, as they
  say nothing of messages and of who still sends. In `ChannelInv` each link is in one of
  three stages: the outport's queue sends to it (`Attached`); what remains is on its way
  in the one message that bears it (`HandedOver`); or it is in the inport's list or
  read (`Settled`). Each says where the two ends have their positions, by the same
  predicates for every kind of queue: `Sends` for the outport's ring, `Stores` for the
  inport's, `Rests` for a list of remaining tokens, which may begin with some that are
  stored already. A token on its way is the one with its number if the inport will
  take it (`ToInFits`), and only what is stored is acknowledged while the outport is
  attached (`ToOutFits`). What a step does at one link is separated from
  what it leaves alone at all others: queues are shared, and an operation for
  one reader or writer keeps what the others' predicates speak of (`SameReader`,
  `Keeps`, `Aside`). There is a lemma for each operation of the queues and one for
  each action; the closed forms of the loops (`Filled`, `Used`, `Moved`) are reasoned
  about through the numbers of their items (`NewItems`, `ListTransferred`).
* **PortQueues, the turns of writers**: `WritersServedInTurn` (`ServedInTurn`), under the
  same premise. A count of reads is not inductive: a writer that has been passed may be
  passed again as long as it is not its turn. `ServedInv` adds whose turn it is: a writer
  that was passed still has a token, is d places from the turn, and was passed at most
  n - 1 - d times, for n writers (`Serves`). A read of another writer brings the turn
  nearer by one at least, as `peek` skips only those that have none (`TurnNearer`). A
  step that changes the writers begins all counts again, and any other leaves writers,
  turn and what waits (`StaysInTurn`, `ServedGoesOn`); that an exhaustion removes no
  writer in between is known from `ChannelInv`.
* **PortQueues implements LinkChannels**: `LinksRefineChannels` (`LinksAreChannels`), under
  the same premise. What a link holds is bounded in every step that sends, as the
  outport is attached then, and in `Attached` the outport's ring, what is acknowledged
  and the inport's ring are tied to each other (`AttachedHolds`, `FullLinkWaits`). What
  is read is what was sent next because `ChannelInv` holds after the step
  (`ReadsWhatIsSent`). The tokens that a replica starts with are the oldest reader's
  from its read position on (`StartsWithSuffix`). All else is stuttering.
* **PortQueues, types**: `PortQueuesTypes` (`TypeOK`), under the same premise: a position
  that goes below zero is how the code goes wrong with exceptions in an `any` queue.
  Most of it follows from `ChannelInv`, also that an inport keeps a list of exhausted
  tokens only for a writer that will be removed. `TypedInv` adds that the schedule of a
  queue that goes by turns names its readers (`Timetable`, the part of `Schedule` that a
  replica's joining leaves true), and that what is marked at an inport belongs to a link.
* **TunnelConnect**: `TunnelConnectTypes` (`TypeOK`) and `TunnelsAreRouted` (`Routed`),
  for any finite set of connections. `Routed` is not inductive: it says nothing of
  the requests and answers on their way. The invariant `TunnelInv` is about the tables
  of one runtime, those of its peer and the messages to either (`Side`), and holds for
  both. `Tables` ties the tables of a runtime to each other; `Asked` follows a request,
  which is sent once and answered once unless it is dropped; and there are three
  ways a tunnel is made. Nothing has happened but requests on their way (`Quiet`);
  the requests have crossed, and both ends have the higher identity, or the lower one
  is still PENDING and has no endpoint (`Crossed`); or one has been answered by a
  tunnel made for it (`Answered`). In the last case one overtake lets a late
  request, which was to be dropped, replace the identity until the answer gives
  it back (`Replaced`). If a tunnel times out although nothing is lost, its request
  was dropped; then both own tunnels are listed and no request is left that could
  revive it (`NoRevival`), so `Routed` claims nothing from there on. There is a lemma
  for each action; connects and answers about connections share `PortStep`.
  `TunnelInv` was checked by TLC before it was proved, for three ports without
  faults, and for two and three ports with one (10 million states).
* **PortDisconnect**: `TypeCorrect`, `ActorCalledOnce` (`CalledOnce` if a whole
  actor is disconnected) and `ActorSuccessIsDisconnected`
  (`SuccessIsDisconnectedIfAttached`), from `CollectionInv`: there has been a
  call exactly if no port is open; an awaited peer is in its port's list; and as
  long as nothing has failed, a port that is done has an empty list and a peer
  that is not in the list is detached.
* **Scheduler**: `SchedulerTypeCorrect`, `AlwaysTimerSet` (`TimerSet`),
  `LoopsNeverStop` (`LoopsGoOn`), `AlwaysRetriedInTime` (`RetriedInTime`),
  `AlarmNotLost` (`AlarmPending`) and `EventsNotLost` (`EventPending`), from
  `IInv`. `TimerSet` alone is not inductive: `Rescheduled` is right only if the
  list is in the order of time and nothing in it is overdue (`Sane`, `Ahead`), and
  the list is never empty only because the periodic tasks are in it (`Loops`). A
  slot that is over is seen in time because a strategy is due then, or a
  replication task that inserts one (`Retries`). `EventPending` is the part of
  `EventuallyServed` that needs no fairness: while an event waits, a strategy is
  due and the delayed call overdue, so only tasks can come before it, no time.
* **ActorMigration**: `MigrationTypeCorrect`, `AlwaysInOnePlace` (`InOnePlace`) and
  `AlwaysReadyIsConnected` (`ReadyIsConnected`). Neither property is inductive: they
  say nothing of refusals and answers on their way, nor of what the tasks wait for.
  `HolderInv` says who has the actor: one runtime, or one request, or one refusal,
  and the task that waits for disconnects has it at its home. It needs
  `AwaitedInv`: for a task and a runtime there is one of the request, the ports
  being connected and the answer, and the task still waits for it, which is what a
  late answer or a failed connect breaks (`Undisturbed`). That no single fault loses
  the actor rests on `Unrefused`: up to the first fault each request is for a task
  that can hand the state on. `ConnectionInv` says what is on its way for the
  ports, at both ends: disconnects of the task that waits for them, connects of the
  one copy that is being connected. Each invariant has a lemma for each action, on
  a few lemmas about what any step of `robust_migrate` does (`TryNextCases`,
  `HandedToRequest`, `TaskEnds`).
* **ReplicationLock**: `LockTypeCorrect`, with the equivalence of a pending
  callback and a nonempty set of queued locks, whatever the order of messages;
  and for FIFO links `LocksReturnedCorrect` (`LocksReturned`, in any deployment),
  `PairReplicatesLocked` (`ReplicatesLockedInPairs`) and `PairWaits` (`WaitsForPeer`).
  None of these three is inductive, as they say nothing of the messages on a link.
  `LockInvariant` adds their order, for each pair of peers: what is on its way of a
  lock is ahead of what is on its way of its release while it is held, and behind it
  else (`OneWay`); the peer knows what the answers on their way will tell (`Agreed`);
  a lock that is held by one that is ready is being returned (`Returning`), and none
  is asked for that is not needed (`Wanted`). If the two have no other peers
  (`PairsInOrder`), there is one request or answer at a time (`Single`), so that
  who replicates holds the lock (`Holding`); who gave its lock has not asked since,
  and is answered before the lock comes back (`Barred`, `AnsweredFirst`); who found
  its peer replicating waits (`Behind`).
  `NoCircleWaits` (`NoDeadlock`, any deployment) adds `WaitsInOrder`: a lock that is
  wanted has been asked for, or has not come back from an earlier round, or the own
  one has been given to the peer (`Eager`, `Again`); no request is refused, since it
  is behind the answer that returns the peer's lock (`Heeded`); and there is an order
  of the replications, by when they began, in which a peer that has been given the
  lock of one that waits, and is not returning it, comes first (`Served`). The order
  is an existential in the invariant, not a history in the model: `Lock` puts a
  replication last, and the locks it has been given before are on their way back.
  The first of the replications that wait cannot wait for any of the others
  (`OneIsFirst`). There is a lemma for each handler, on a few
  about what a channel holds when a message is put at its end or taken from its head.
* **Storage**: `StorageTypeCorrect`, and `RetryNeverStops` (`LeftIsTriedAgain`),
  which with the types is inductive: a change sends a call that is awaited, a
  flush sends one for whatever is left, the registry turns a call into an answer
  (`HandledIsAwaited`), and an answer that is used up either starts the timer or
  belongs to a call that is not the local store's (`CallbackLeavesAwaited`).
  `CacheForgetsNothing` (`NoChangeForgotten`) and `OwnWritesAreRead`
  (`ReadsOwnWrites`): neither is inductive, as they look past the next flush and at
  answers already given. The invariant `CacheInv` says what the registry will hold
  of a key by the calls on their way alone (`Sent`). For a value: `Sent` is what is
  wanted, or the value is in the local store and no answer on its way deletes it.
  For a set or an index: `Sent` with the additions in the local store is what is
  wanted, what is to be removed is not wanted, and what the answer of an addition on
  its way will take from the local store is in `Sent`. And every read on its way
  will find what was wanted when it was sent. What a number of calls leaves in the
  registry (`HeldAfter`) is defined without recursion, by the last call that puts
  or drops a value; the lemmas `HeldAfterNext` and `HeldAfterHead` show that a call
  more at the end and a call handled at the head do to it what the registry does,
  and `MCStorage` has TLC compare it with the fold over the calls.

The assumptions are the ones in the modules: finite nonempty sets, positive
lengths and delays, each connection belongs to a port, peers are mutual, the late
connections and those that may be exhausted are connections, and ports are numbers. The
theorems on the scheduler are about tasks that do not raise (`Spec`).

## 5. What is only model-checked

Liveness (`ImplementsFairChannel`, `EventuallyCommitted`, `MovesComplete`,
`EventuallyDelivered`, `ExhaustionCompletes`, `EventuallyAnswered`,
`EventuallyConnected`, `EventuallyCalledIfLinked`, `EventuallyServed`,
`EventuallyReplicates`, `EventuallyFlushed`) is out of reach of TLAPS. All safety
properties of the passing runs are proved. What the code does token by token
(`LocalOutEndpoint.communicate`, `_transfer_exhaust_tokens`) has a closed form in the
model, for their sake (`Moved`, `Filled`, `Used`).

`AnsweredIsCommitted` holds on FIFO links only. With two ACKs
that overtake each other `_reply_ack` keeps the later one, and when the earlier
one is committed it returns without looking at it (`endpoint/tunnel.py:171`).

## 6. Where code and documentation disagree

With a run that shows it:

1. *A replica that is dereplicated* (`replica`): `exhaust` returns the tokens with
   their positions in the queue, but the reader of a replica that joined late counts
   from its offset; the inport takes them for tokens to come and drops them
   (`queue/fanout_fifo.py:131`). "EXHAUST is used for dereplication while preserving
   tokens" (`plugins/port/__init__.py:5`).
2. *A task that raises* (`raises`): nothing is scheduled for the other tasks, and once
   the first of them is overdue every new one is inserted behind it; the watchdog
   that is there "if nothing else is scheduled" is set only when the list is empty
   (`scheduler.py:219`, `:125`).
3. *A second runtime that does not take the actor* (`returned`): `robust_migrate` has
   handed the state on with a callback that no longer carries it, and calls `migrate`
   for an actor that is gone (`actormanager.py:370`). "If all else fails the state,
   actor_type and ports will be returned in the callback" (`:349`). Nor would the
   callers use it: a deployment passes no callback ("FIXME add callback that recreate
   the actor locally", `appmanager.py:498`), the handler of ACTOR_MIGRATE answers with
   the status only, and a node that quits waits for the actor to be gone
   (`calvin_node.py:317`).

Met while modelling, without a run:

* *A peer that is gone* reports success for its port although a remote peer of
  the same port has not answered (`connection/__init__.py:107`); *a single port* with
  two failing peers calls back twice (`connection/tunnel.py:227`; for a whole actor
  the calls are collected); *no link*: the failure is passed under a name the
  callback does not take, and the caller is never called (`calvin_proto.py:52`).
* *Crossing lock requests*: two peers that ask each other at once both get the lock and
  replicate simultaneously (`replicationmanager.py:505`). *An answer of an earlier
  round*: a replication with two peers asks one of them again while its answer is to
  come; the second answer may be counted in the next round, for a lock that has been
  returned (`replicationmanager.py:482`; compare `:628` and
  `tests/test_replication_locks.py:75`). Hence `ReplicatesLockedInPairs`.
* *Appending twice*: the answer to one append removes from the local store what the
  next one has added; if that one fails it is not tried again (`storage.py:367`),
  although sets are to be kept "until confirmed" (`:360`, `:388`).
* *Two of one actor*: a runtime that answers ACTOR_NEW too late, or with a failure as
  one of the ports could not be connected, has the actor all the same; it is sent to
  the next runtime too (`actormanager.py:484`). After a disconnect that failed the
  actor is sent on while other PORT_DISCONNECTs are on their way, and they may remove
  its new endpoints.
* *Tunnels*: a tunnel that works, as the requests have crossed, is taken down when its
  own request, which the peer has dropped ("DROP FIXME", `calvin_proto.py:464`), times
  out (`connection/tunnel.py:314`). With three connections and nothing lost that also
  ends what `Routed` says: the third connect gets the TERMINATED tunnel, which is still
  listed (`calvin_proto.py:399`), and an answer to the second attaches its port to
  it, although "Tunnel objects on both nodes will use the same id number" (`:72`). TLC
  shows it in 14 steps if `Disturbed` is `losses > 0` alone; two ports do not suffice.
  A port whose PORT_CONNECT is answered afterwards
  ends in a KeyError, and its caller is not called. A link that is not made leaves the
  tunnel PENDING for ever. A look-up begins the count of retries again
  (`connection/tunnel.py:55`), so that they do not end. A PORT_CONNECT may be accepted
  on a tunnel that does not work yet and then gets another identity.
* *Turns*: `FanoutOrderedFIFO.add_reader` leaves the schedule as it is
  (`queue/fanout_ordered_fifo.py:86`), so that a replica that joins late is passed over
  until the N turns that are in it already have been taken: "route tokens based on a
  round-robin schedule to peers" (`fanout_round_robin_fifo.py:27`). Hence the premise of
  `TurnsInOrder`.
* *Queues*: `collect_any` returns an exception token alone and sets the positions of the
  earlier writers back by one, also of those that had no token and were not moved
  (`collect_any.py:59`): what they gave last is read again; the list of turns of an ordered queue is cut as
  a reader leaves, and the next write may raise an IndexError
  (`fanout_ordered_fifo.py:54`); a mapped queue raises a KeyError for a reader that has
  left; `com_cancel` uses an attribute that is not there (`fanout_base.py:228`).
* *Maintenance*: `trigger_maintenance_loop` inserts a task that inserts itself again, so
  that every trigger adds a chain of its own (`scheduler.py:168`, `:175`).

A comment that turned out too careful: "could get into deadlock if 3 parts or
more in a circle" (`replicationmanager.py:481`). On FIFO links with leaders that
answer there is none, with any number of parts (`NoCircleWaits`, section 4): a lock
that is asked for is always given, and who does not ask, as it has given its own,
waits for one that began before.

## 7. Not modelled

Actor code, the compiler, the tools and the control API are sequential or I/O.
Authorization is policy, not a protocol. The DHT and SQL back ends are external.
Twisted's transports appear as channels. The application manager and requirement
matching are fans of queries whose answers are data. The proxy handler's protocol
has its other half in the firmware of small devices, which is not in this
repository.

Of the modelled components: joins of two runtimes and the replacement of a link
but for its effect, messages that overtake each other; the actor's state machine;
serialisation of dispatching and collecting queues; tagged queues; termination of a
connection, which drops tokens on purpose; `tunnel_destroy`, which nothing calls; a
port that is not found as it moves meanwhile; two actors that move at the same
time and meet; `replicate` and `dereplicate` themselves; leaders that do not
answer; `stop` of a runtime; storage as the proxy of another runtime.

## 8. What remains

1. The actor's life cycle, and two connected actors that move at the same time, with
   the look-ups of their ports in the registry.
2. Joining: simultaneous joins and replaced links.
3. `Storage` in front of another runtime's `Storage` (the proxy server), and what
   holds after a failed set.
