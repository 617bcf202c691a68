------------------------------- MODULE Storage -------------------------------
(***************************************************************************)
(* What a runtime does with the registry: single values and sets are       *)
(* changed in a local store and, once the storage plugin has started, in   *)
(* the registry.  What is not confirmed is flushed again when a timer      *)
(* fires.  Three kinds of keys have callbacks of their own: those of       *)
(* values, of sets (append, remove), and of indexes.                       *)
(*                                                                         *)
(* Abstracted: a single value v is the set {v}, no value is {}; the levels *)
(* of an index are one key; delays are left out, the timer fires at some   *)
(* time; the plugin does not stop; get is the only reader, for all kinds   *)
(* of keys.  No other runtime changes these keys, and the registry is      *)
(* empty when the runtime starts.  The plugin (proxy, DHT, SQL) handles    *)
(* what concerns one key in the order of the calls; it fails at most       *)
(* MaxFailures of them, and may have done what it reports to have failed.  *)
(* The definitions named _MUT are mistakes of the definition that follows  *)
(* them: the run shows that the properties tell the two apart.             *)
(***************************************************************************)
EXTENDS Naturals, Sequences

CONSTANTS
  ValueKeys,    \* keys of single values
  SetKeys,      \* keys of sets
  IndexKeys,    \* keys of indexes, their levels
  Values,       \* what is stored; not None, False, an empty list or the like
  Uses,         \* bound: sets of keys that a runtime uses together
  MaxCalls,     \* bound: changes and reads the runtime asks for
  MaxFailures   \* bound: calls of the plugin that are reported to fail

Keys == ValueKeys \cup SetKeys \cup IndexKeys
Collections == SetKeys \cup IndexKeys

ASSUME KindAssumption ==
  ValueKeys \cap Collections = {} /\ SetKeys \cap IndexKeys = {}
ASSUME StorageBoundAssumption ==
  Uses \subseteq SUBSET Keys /\ MaxCalls \in Nat /\ MaxFailures \in Nat

VARIABLES
  used,             \* the keys this runtime uses
  started,          \* the plugin has started
  localstore,       \* values to be confirmed; {} if the key is not in it
  localstore_sets,  \* additions and removals to be confirmed; both are {}
                    \* if the key is not in it
  flush_delayedcall,\* the flush timer is running
  requests,         \* calls on their way to the registry, per key
  replies,          \* answers on their way back
  registry,         \* external: what the registry holds
  wanted,           \* history: what it holds if every call succeeds
  asWanted,         \* history: the last answer to a get is what was wanted
                    \* when it was asked for
  calls, failures   \* counted for the bounds

vars == <<used, started, localstore, localstore_sets, flush_delayedcall, requests,
          replies, registry, wanted, asWanted, calls, failures>>

cache == <<localstore, localstore_sets>>

(* A call: what is sent, and the org_value its callback is given.  The     *)
(* callback of a flushed index shares the set with the local store ("live")*)
(* and sees later changes of it, until the entry is deleted ("dead").      *)
Calls == [op : {"set", "append", "remove", "delete", "get"},
          value : SUBSET Values,
          org : {"value", "none", "live", "dead"},
          wanted : SUBSET Values]

Call(op, value, org) == [op |-> op, value |-> value, org |-> org, wanted |-> {}]

Replies == [call : Calls, ok : BOOLEAN, value : SUBSET Values]

Init ==
  /\ used \in Uses
  /\ started = FALSE
  /\ localstore = [k \in ValueKeys |-> {}]
  /\ localstore_sets = [k \in Collections |-> [plus |-> {}, minus |-> {}]]
  /\ flush_delayedcall = FALSE
  /\ requests = [k \in Keys |-> <<>>]
  /\ replies = [k \in Keys |-> <<>>]
  /\ registry = [k \in Keys |-> {}]
  /\ wanted = [k \in Keys |-> {}]
  /\ asWanted = TRUE
  /\ calls = 0
  /\ failures = 0

(* The plugin is called only when it has started.                          *)
Send(k, call) ==
  requests' = IF started THEN [requests EXCEPT ![k] = Append(@, call)] ELSE requests

CountCall(k) ==
  /\ k \in used
  /\ calls < MaxCalls
  /\ calls' = calls + 1
  /\ UNCHANGED used

IsDirty(values, sets) ==
  \/ \E k \in ValueKeys : values[k] # {}
  \/ \E k \in Collections : sets[k].plus # {} \/ sets[k].minus # {}

(* Started by the callbacks, with what they leave in the local store.      *)
TriggerFlush_MUT == UNCHANGED flush_delayedcall
TriggerFlush ==
  flush_delayedcall' = (flush_delayedcall \/ IsDirty(localstore', localstore_sets'))

-----------------------------------------------------------------------------
(* What the runtime asks for.                                              *)

Set(k, v) ==
  /\ CountCall(k)
  /\ localstore' = [localstore EXCEPT ![k] = {v}]
  /\ Send(k, Call("set", {v}, "value"))
  /\ wanted' = [wanted EXCEPT ![k] = {v}]
  /\ UNCHANGED <<started, localstore_sets, flush_delayedcall, replies, registry,
                 asWanted, failures>>

(* append sends all additions to be confirmed, add_index only the new one. *)
Added_MUT(k, v) == {v}
Added(k, v) == IF k \in SetKeys THEN localstore_sets'[k].plus ELSE {v}

Removed(k, v) == IF k \in SetKeys THEN localstore_sets'[k].minus ELSE {v}

Add(k, v) ==
  /\ CountCall(k)
  /\ localstore_sets' = [localstore_sets EXCEPT ![k].plus = @ \cup {v},
                                                ![k].minus = @ \ {v}]
  /\ Send(k, Call("append", Added(k, v), "value"))
  /\ wanted' = [wanted EXCEPT ![k] = @ \cup {v}]
  /\ UNCHANGED <<started, localstore, flush_delayedcall, replies, registry,
                 asWanted, failures>>

Remove(k, v) ==
  /\ CountCall(k)
  /\ localstore_sets' = [localstore_sets EXCEPT ![k].plus = @ \ {v},
                                                ![k].minus = @ \cup {v}]
  /\ Send(k, Call("remove", Removed(k, v), "value"))
  /\ wanted' = [wanted EXCEPT ![k] = @ \ {v}]
  /\ UNCHANGED <<started, localstore, flush_delayedcall, replies, registry,
                 asWanted, failures>>

(* There is no delete for an index.  The caller's callback is the plugin's.*)
Delete(k) ==
  /\ CountCall(k)
  /\ IF k \in ValueKeys
       THEN /\ localstore' = [localstore EXCEPT ![k] = {}]
            /\ UNCHANGED localstore_sets
       ELSE /\ localstore_sets' = [localstore_sets EXCEPT ![k] = [plus |-> {}, minus |-> {}]]
            /\ UNCHANGED localstore
  /\ Send(k, Call("delete", {}, "none"))
  /\ wanted' = [wanted EXCEPT ![k] = {}]
  /\ UNCHANGED <<started, flush_delayedcall, replies, registry, asWanted, failures>>

(* A value in the local store is the answer; the additions in it are part  *)
(* of the answer for a set.  Before the start they are all of it.          *)
LocalPart_MUT(k) == {}
LocalPart(k) == IF k \in ValueKeys THEN localstore[k] ELSE localstore_sets[k].plus

Get(k) ==
  /\ CountCall(k)
  /\ LET local == LocalPart(k)
         isAnswer == ~started \/ (k \in ValueKeys /\ local # {})
         get == [op |-> "get", value |-> local, org |-> "none", wanted |-> wanted[k]]
     IN  IF isAnswer
           THEN /\ asWanted' = (local = wanted[k])
                /\ UNCHANGED requests
           ELSE /\ Send(k, get)
                /\ UNCHANGED asWanted
  /\ UNCHANGED <<started, cache, flush_delayedcall, replies, registry, wanted, failures>>

-----------------------------------------------------------------------------
(* Start-up and flushing.                                                  *)

StartedCb ==
  /\ ~started
  /\ started' = TRUE
  /\ flush_delayedcall' = (flush_delayedcall \/ IsDirty(localstore, localstore_sets))
  /\ UNCHANGED <<used, cache, requests, replies, registry, wanted, asWanted, calls, failures>>

(* What is flushed for a key; the org_value of a set is not used.          *)
Flushed(k) ==
  IF k \in ValueKeys
    THEN IF localstore[k] = {} THEN <<>> ELSE <<Call("set", localstore[k], "none")>>
    ELSE LET entry == localstore_sets[k]
             org == IF k \in IndexKeys THEN "live" ELSE "none"
             additions == IF entry.plus = {} THEN <<>>
                          ELSE <<Call("append", entry.plus, org)>>
             removals  == IF entry.minus = {} THEN <<>>
                          ELSE <<Call("remove", entry.minus, org)>>
         IN  additions \o removals

FlushLocaldata ==
  /\ flush_delayedcall
  /\ flush_delayedcall' = FALSE
  /\ requests' = [k \in Keys |-> requests[k] \o Flushed(k)]
  /\ UNCHANGED <<used, started, cache, replies, registry, wanted, asWanted, calls, failures>>

-----------------------------------------------------------------------------
(* The registry.                                                           *)

Applied(held, call) ==
  CASE call.op \in {"set", "delete"} -> call.value
    [] call.op = "append" -> held \cup call.value
    [] call.op = "remove" -> held \ call.value
    [] OTHER -> held

Handle(k) ==
  /\ requests[k] # <<>>
  /\ LET call == Head(requests[k])
         Answer(ok, value) ==
           replies' = [replies EXCEPT ![k] = Append(@, [call |-> call, ok |-> ok, value |-> value])]
     IN  \/ /\ registry' = [registry EXCEPT ![k] = Applied(@, call)]
            /\ Answer(TRUE, IF call.op = "get" THEN registry[k] ELSE {})
            /\ UNCHANGED failures
         \/ /\ failures < MaxFailures
            /\ failures' = failures + 1
            /\ registry' \in {registry, [registry EXCEPT ![k] = Applied(@, call)]}
            /\ Answer(FALSE, {})
  /\ requests' = [requests EXCEPT ![k] = Tail(@)]
  /\ UNCHANGED <<used, started, cache, flush_delayedcall, wanted, asWanted, calls>>

-----------------------------------------------------------------------------
(* The callbacks.                                                          *)

SetCb(k, reply) ==
  localstore' = [localstore EXCEPT ![k] =
                   IF reply.ok THEN {}
                   ELSE IF reply.call.org = "value" THEN reply.call.value ELSE @]

(* What an answer confirms.  For a set: all additions, or all removals,    *)
(* also those made since.                                                  *)
Confirmed_MUT(k, reply, pending) == {}
Confirmed(k, reply, pending) ==
  IF ~reply.ok \/ reply.call.org = "dead" THEN {}
  ELSE IF k \in SetKeys \/ reply.call.org = "live" THEN pending
  ELSE reply.call.value

AppendCb(k, reply) ==
  localstore_sets' = [localstore_sets EXCEPT ![k].plus = @ \ Confirmed(k, reply, @)]

RemoveCb(k, reply) ==
  localstore_sets' = [localstore_sets EXCEPT ![k].minus = @ \ Confirmed(k, reply, @)]

(* When an index is deleted from the local store, the callbacks that share *)
(* its sets keep the old ones.                                             *)
Unshared(k, call) ==
  IF /\ k \in IndexKeys
     /\ localstore_sets'[k] = [plus |-> {}, minus |-> {}]
     /\ call.org = "live"
    THEN [call EXCEPT !.org = "dead"] ELSE call

UnsharedRequests(k, s) == [i \in DOMAIN s |-> Unshared(k, s[i])]
UnsharedReplies(k, s) == [i \in DOMAIN s |-> [s[i] EXCEPT !.call = Unshared(k, s[i].call)]]

Callback(k) ==
  /\ replies[k] # <<>>
  /\ LET reply == Head(replies[k])
         op == reply.call.op
     IN  /\ \/ op = "set" /\ SetCb(k, reply) /\ UNCHANGED <<localstore_sets, asWanted>>
            \/ op = "append" /\ AppendCb(k, reply) /\ UNCHANGED <<localstore, asWanted>>
            \/ op = "remove" /\ RemoveCb(k, reply) /\ UNCHANGED <<localstore, asWanted>>
            \/ op = "delete" /\ UNCHANGED <<cache, asWanted>>
            \/ /\ op = "get"
               /\ asWanted' = (reply.value \cup reply.call.value = reply.call.wanted)
               /\ UNCHANGED cache
         /\ IF op \in {"set", "append", "remove"} THEN TriggerFlush
                                                  ELSE UNCHANGED flush_delayedcall
  /\ replies' = [replies EXCEPT ![k] = UnsharedReplies(k, Tail(@))]
  /\ requests' = [requests EXCEPT ![k] = UnsharedRequests(k, @)]
  /\ UNCHANGED <<used, started, registry, wanted, calls, failures>>

-----------------------------------------------------------------------------
Next ==
  \/ \E k \in ValueKeys, v \in Values : Set(k, v)
  \/ \E k \in Collections, v \in Values : Add(k, v) \/ Remove(k, v)
  \/ \E k \in ValueKeys \cup SetKeys : Delete(k)
  \/ \E k \in Keys : Get(k) \/ Handle(k) \/ Callback(k)
  \/ StartedCb
  \/ FlushLocaldata

Spec == Init /\ [][Next]_vars

(* The timer fires, and the plugin handles its calls and calls back.       *)
Fairness ==
  /\ WF_vars(FlushLocaldata)
  /\ \A k \in Keys : WF_vars(Handle(k)) /\ WF_vars(Callback(k))

FairSpec == Spec /\ Fairness
-----------------------------------------------------------------------------
(* The state is of the kind the code keeps: callbacks go with the kind of  *)
(* their key.                                                              *)
TypeOK ==
  /\ used \in Uses
  /\ started \in BOOLEAN
  /\ localstore \in [ValueKeys -> SUBSET Values]
  /\ localstore_sets \in [Collections -> [plus : SUBSET Values, minus : SUBSET Values]]
  /\ flush_delayedcall \in BOOLEAN
  /\ requests \in [Keys -> Seq(Calls)]
  /\ replies \in [Keys -> Seq(Replies)]
  /\ registry \in [Keys -> SUBSET Values]
  /\ wanted \in [Keys -> SUBSET Values]
  /\ asWanted \in BOOLEAN
  /\ calls \in 0..MaxCalls
  /\ failures \in 0..MaxFailures

(* An operation whose callback will look at the local store again.         *)
IsCached(call) == call.op \in {"set", "append", "remove"}
IsAwaited(k) ==
  \/ \E i \in DOMAIN requests[k] : IsCached(requests[k][i])
  \/ \E i \in DOMAIN replies[k] : IsCached(replies[k][i].call)

(* Whatever is left in the local store will be tried again: the timer runs *)
(* or an answer is awaited that starts it (trigger_flush at the end of the *)
(* callbacks; set, append and the others do not start it themselves).      *)
LeftIsTriedAgain ==
  started /\ IsDirty(localstore, localstore_sets)
    => flush_delayedcall \/ \E k \in Keys : IsAwaited(k)

(* What the registry holds of a key when it has handled the first n of the *)
(* calls s: of each value it is the last call that puts or drops it which  *)
(* counts.                                                                 *)
Puts(call, v)  == v \in Applied({}, call)
Drops(call, v) == v \notin Applied({v}, call)

HeldAfter(held, s, n) ==
  {v \in Values :
     \/ v \in held /\ \A i \in 1..n : ~Drops(s[i], v)
     \/ \E i \in 1..n : Puts(s[i], v) /\ \A j \in i + 1..n : ~Drops(s[j], v)}

(* What it will hold when it has handled all calls that are on their way,  *)
(* and those of the flush to come.                                         *)
Outcome(k) ==
  LET s == requests[k] \o Flushed(k) IN HeldAfter(registry[k], s, Len(s))

(* As long as no call fails, the registry and the local store together     *)
(* hold what the runtime asked for, however its calls, the start of the    *)
(* plugin, the flushes and the answers interleave: no flush repeats an     *)
(* older value, and no answer removes a change that is not sent.           *)
NoChangeForgotten == failures = 0 => \A k \in Keys : Outcome(k) = wanted[k]

(* As long as no call fails, a read returns what the runtime last wrote    *)
(* before it, be it in the local store, on its way or stored.              *)
ReadsOwnWrites == failures = 0 => asWanted

(* Once the plugin has started, the local store is emptied in the end: the *)
(* flushes do not stop after a failure, nor go on for ever.                *)
EventuallyFlushed == started ~> ~IsDirty(localstore, localstore_sets) /\ ~flush_delayedcall
=============================================================================
