----------------------------- MODULE StorageProofs -----------------------------
(* What TLAPS proves about Storage, for any keys and values, any number of *)
(* calls and failures: types, and that whatever is left in the local store *)
(* is tried again; as long as no call fails, that no change is forgotten   *)
(* and that a runtime reads what it wrote.  The last two rest on what the  *)
(* registry will hold by the calls that are on their way, without the next *)
(* flush, and on what each answer will take from the local store.          *)
EXTENDS Storage, SequenceTheorems, TLAPS

(* A call of a key is a call, flushed or not, shared or not.               *)
LEMMA CallType ==
  ASSUME NEW op \in {"set", "append", "remove", "delete", "get"},
         NEW value \in SUBSET Values, NEW org \in {"value", "none", "live", "dead"}
  PROVE  /\ Call(op, value, org) \in Calls
         /\ Call(op, value, org).op = op
BY DEF Call, Calls

LEMMA FlushedType ==
  ASSUME localstore \in [ValueKeys -> SUBSET Values],
         localstore_sets \in [Collections -> [plus : SUBSET Values, minus : SUBSET Values]],
         NEW k \in Keys
  PROVE  Flushed(k) \in Seq(Calls)
<1>1. CASE k \in ValueKeys
  <2>1. Call("set", localstore[k], "none") \in Calls
    BY <1>1, CallType
  <2> QED
    BY <1>1, <2>1 DEF Flushed
<1>2. CASE k \notin ValueKeys
  <2> DEFINE entry == localstore_sets[k]
             org == IF k \in IndexKeys THEN "live" ELSE "none"
             additions == IF entry.plus = {} THEN <<>> ELSE <<Call("append", entry.plus, org)>>
             removals  == IF entry.minus = {} THEN <<>> ELSE <<Call("remove", entry.minus, org)>>
  <2>1. entry \in [plus : SUBSET Values, minus : SUBSET Values]
    BY <1>2 DEF Keys, Collections
  <2>2. Call("append", entry.plus, org) \in Calls /\ Call("remove", entry.minus, org) \in Calls
    BY <2>1, CallType
  <2>3. additions \in Seq(Calls) /\ removals \in Seq(Calls)
    BY <2>2
  <2>4. additions \o removals \in Seq(Calls)
    BY <2>3, ConcatProperties
  <2> QED
    BY <1>2, <2>4 DEF Flushed
<1> QED
  BY <1>1, <1>2

(* Unsharing changes the org_value of calls alone.                         *)
LEMMA UnsharedType ==
  ASSUME NEW k, NEW call \in Calls
  PROVE  Unshared(k, call) \in Calls /\ Unshared(k, call).op = call.op
BY DEF Unshared, Calls

LEMMA UnsharedRequestsType ==
  ASSUME NEW k, NEW s \in Seq(Calls)
  PROVE  UnsharedRequests(k, s) \in Seq(Calls)
<1>1. DOMAIN s = 1..Len(s) /\ Len(s) \in Nat /\ \A i \in 1..Len(s) : s[i] \in Calls
  BY LenProperties, ElementOfSeq
<1>2. \A i \in 1..Len(s) : Unshared(k, s[i]) \in Calls
  BY <1>1, UnsharedType
<1> QED
  BY <1>1, <1>2, IsASeq DEF UnsharedRequests

LEMMA UnsharedRepliesType ==
  ASSUME NEW k, NEW s \in Seq(Replies)
  PROVE  UnsharedReplies(k, s) \in Seq(Replies)
<1>1. DOMAIN s = 1..Len(s) /\ Len(s) \in Nat /\ \A i \in 1..Len(s) : s[i] \in Replies
  BY LenProperties, ElementOfSeq
<1>2. \A i \in 1..Len(s) : s[i].call \in Calls /\ Unshared(k, s[i].call) \in Calls
  BY <1>1, UnsharedType DEF Replies
<1>3. \A i \in 1..Len(s) : [s[i] EXCEPT !.call = Unshared(k, s[i].call)] \in Replies
  BY <1>1, <1>2 DEF Replies
<1> QED
  BY <1>1, <1>3, IsASeq DEF UnsharedReplies

LEMMA AppliedType ==
  ASSUME NEW held \in SUBSET Values, NEW call \in Calls
  PROVE  Applied(held, call) \in SUBSET Values
BY DEF Applied, Calls

LEMMA SendType ==
  ASSUME requests \in [Keys -> Seq(Calls)], NEW k \in Keys, NEW call \in Calls, Send(k, call)
  PROVE  requests' \in [Keys -> Seq(Calls)]
<1>1. Append(requests[k], call) \in Seq(Calls)
  BY AppendProperties
<1> QED
  BY <1>1 DEF Send

(* The first element of a non-empty sequence, and the others.              *)
LEMMA HeadTail ==
  ASSUME NEW S, NEW s \in Seq(S), s # <<>>
  PROVE  /\ Head(s) \in S /\ Tail(s) \in Seq(S)
         /\ Head(s) = s[1]
         /\ \A i \in DOMAIN s : i = 1 \/ (i - 1 \in DOMAIN Tail(s) /\ Tail(s)[i - 1] = s[i])
<1>1. Head(s) \in S /\ Tail(s) \in Seq(S)
  BY HeadTailProperties
<1>2. DOMAIN s = 1..Len(s) /\ Len(s) \in Nat /\ Len(s) # 0
  BY EmptySeq, LenProperties
<1>3. Len(Tail(s)) = Len(s) - 1 /\ \A i \in 1..Len(Tail(s)) : Tail(s)[i] = s[i + 1]
  BY HeadTailProperties
<1>4. DOMAIN Tail(s) = 1..Len(Tail(s))
  BY <1>1, LenProperties
<1>5. \A i \in DOMAIN s : i = 1 \/ (i - 1 \in DOMAIN Tail(s) /\ Tail(s)[i - 1] = s[i])
  BY <1>2, <1>3, <1>4
<1> QED
  BY <1>1, <1>5

-----------------------------------------------------------------------------
(* The changes a runtime asks for keep the types of what they change.      *)
LEMMA ChangesType ==
  ASSUME TypeOK,
         \/ \E k \in ValueKeys, v \in Values : Set(k, v)
         \/ \E k \in Collections, v \in Values : Add(k, v) \/ Remove(k, v)
         \/ \E k \in ValueKeys \cup SetKeys : Delete(k)
         \/ \E k \in Keys : Get(k)
  PROVE  TypeOK'
<1>0. ValueKeys \subseteq Keys /\ Collections \subseteq Keys /\ SetKeys \subseteq Collections
  BY DEF Keys, Collections
<1>c. \A k : CountCall(k) => calls' \in 0..MaxCalls /\ used' = used
  BY StorageBoundAssumption DEF CountCall, TypeOK
<1>1. ASSUME NEW k \in ValueKeys, NEW v \in Values, Set(k, v) PROVE TypeOK'
  <2>1. requests' \in [Keys -> Seq(Calls)]
    BY <1>0, <1>1, CallType, SendType DEF Set, TypeOK
  <2>2. localstore' \in [ValueKeys -> SUBSET Values] /\ wanted' \in [Keys -> SUBSET Values]
    BY <1>0, <1>1 DEF Set, TypeOK
  <2> QED
    BY <1>1, <1>c, <2>1, <2>2 DEF Set, TypeOK
<1>2. ASSUME NEW k \in Collections, NEW v \in Values, Add(k, v) PROVE TypeOK'
  <2>1. localstore_sets' \in [Collections -> [plus : SUBSET Values, minus : SUBSET Values]]
    BY <1>2 DEF Add, TypeOK
  <2>2. Added(k, v) \in SUBSET Values
    BY <2>1, <1>0 DEF Added
  <2>3. requests' \in [Keys -> Seq(Calls)]
    BY <1>0, <1>2, <2>2, CallType, SendType DEF Add, TypeOK
  <2>4. wanted' \in [Keys -> SUBSET Values]
    BY <1>0, <1>2 DEF Add, TypeOK
  <2> QED
    BY <1>2, <1>c, <2>1, <2>3, <2>4 DEF Add, TypeOK
<1>3. ASSUME NEW k \in Collections, NEW v \in Values, Remove(k, v) PROVE TypeOK'
  <2>1. localstore_sets' \in [Collections -> [plus : SUBSET Values, minus : SUBSET Values]]
    BY <1>3 DEF Remove, TypeOK
  <2>2. Removed(k, v) \in SUBSET Values
    BY <2>1, <1>0 DEF Removed
  <2>3. requests' \in [Keys -> Seq(Calls)]
    BY <1>0, <1>3, <2>2, CallType, SendType DEF Remove, TypeOK
  <2>4. wanted' \in [Keys -> SUBSET Values]
    BY <1>0, <1>3 DEF Remove, TypeOK
  <2> QED
    BY <1>3, <1>c, <2>1, <2>3, <2>4 DEF Remove, TypeOK
<1>4. ASSUME NEW k \in ValueKeys \cup SetKeys, Delete(k) PROVE TypeOK'
  <2>1. localstore' \in [ValueKeys -> SUBSET Values]
    BY <1>4 DEF Delete, TypeOK
  <2>e. [plus |-> {}, minus |-> {}] \in [plus : SUBSET Values, minus : SUBSET Values]
    OBVIOUS
  <2>2. localstore_sets' \in [Collections -> [plus : SUBSET Values, minus : SUBSET Values]]
    BY <1>4, <2>e DEF Delete, TypeOK
  <2>3. requests' \in [Keys -> Seq(Calls)]
    BY <1>0, <1>4, CallType, SendType DEF Delete, TypeOK
  <2>4. wanted' \in [Keys -> SUBSET Values]
    BY <1>0, <1>4 DEF Delete, TypeOK
  <2> QED
    BY <1>4, <1>c, <2>1, <2>2, <2>3, <2>4 DEF Delete, TypeOK
<1>5. ASSUME NEW k \in Keys, Get(k) PROVE TypeOK'
  <2> DEFINE get == [op |-> "get", value |-> LocalPart(k), org |-> "none", wanted |-> wanted[k]]
  <2>1. LocalPart(k) \in SUBSET Values
    BY <1>0 DEF LocalPart, TypeOK, Keys, Collections
  <2>2. get \in Calls
    BY <2>1 DEF Calls, TypeOK
  <2>3. UNCHANGED requests \/ Send(k, get)
    BY <1>5 DEF Get
  <2>4. requests' \in [Keys -> Seq(Calls)]
    BY <2>2, <2>3, SendType DEF TypeOK
  <2>5. asWanted' \in BOOLEAN
    BY <1>5 DEF Get, TypeOK
  <2> QED
    BY <1>5, <1>c, <2>4, <2>5 DEF Get, TypeOK, cache
<1> QED
  BY <1>1, <1>2, <1>3, <1>4, <1>5

(* So do the start, the flush, and the registry.                           *)
LEMMA PluginType ==
  ASSUME TypeOK, StartedCb \/ FlushLocaldata \/ \E k \in Keys : Handle(k)
  PROVE  TypeOK'
<1>1. CASE StartedCb
  BY <1>1 DEF StartedCb, TypeOK, cache, IsDirty
<1>2. CASE FlushLocaldata
  <2>1. \A k \in Keys : requests[k] \o Flushed(k) \in Seq(Calls)
    BY FlushedType, ConcatProperties DEF TypeOK
  <2> QED
    BY <1>2, <2>1 DEF FlushLocaldata, TypeOK, cache
<1>3. ASSUME NEW k \in Keys, Handle(k) PROVE TypeOK'
  <2> DEFINE call == Head(requests[k])
             Taken(ok, value) == [call |-> call, ok |-> ok, value |-> value]
  <2>1. call \in Calls /\ Tail(requests[k]) \in Seq(Calls)
    BY <1>3, HeadTail DEF Handle, TypeOK
  <2>2. requests' \in [Keys -> Seq(Calls)]
    <3>1. requests' = [requests EXCEPT ![k] = Tail(requests[k])]
      BY <1>3 DEF Handle
    <3>2. requests \in [Keys -> Seq(Calls)]
      BY DEF TypeOK
    <3> QED
      BY <2>1, <3>1, <3>2
  <2>3. Applied(registry[k], call) \in SUBSET Values
    BY <2>1, AppliedType DEF TypeOK
  <2>4. registry' \in [Keys -> SUBSET Values]
    BY <1>3, <2>3 DEF Handle, TypeOK
  <2>5. \A ok \in BOOLEAN, value \in SUBSET Values : Append(replies[k], Taken(ok, value)) \in Seq(Replies)
    BY <2>1, AppendProperties DEF TypeOK, Replies
  <2>6. \E ok \in BOOLEAN, value \in SUBSET Values :
          replies' = [replies EXCEPT ![k] = Append(@, Taken(ok, value))]
    BY <1>3 DEF Handle, TypeOK
  <2>7. replies' \in [Keys -> Seq(Replies)]
    BY <2>5, <2>6 DEF TypeOK
  <2>8. failures' \in 0..MaxFailures
    BY <1>3, StorageBoundAssumption DEF Handle, TypeOK
  <2> QED
    BY <1>3, <2>2, <2>4, <2>7, <2>8 DEF Handle, TypeOK, cache
<1> QED
  BY <1>1, <1>2, <1>3

(* And the callbacks.                                                      *)
LEMMA CallbackType ==
  ASSUME TypeOK, NEW k \in Keys, Callback(k)
  PROVE  TypeOK'
<1> DEFINE reply == Head(replies[k])
           Entries == [plus : SUBSET Values, minus : SUBSET Values]
<1>1. reply \in Replies /\ Tail(replies[k]) \in Seq(Replies)
  BY HeadTail DEF Callback, TypeOK
<1>2. reply.call \in Calls /\ reply.call.value \in SUBSET Values
  BY <1>1 DEF Replies, Calls
<1>3. localstore' \in [ValueKeys -> SUBSET Values]
  <2>1. CASE SetCb(k, reply)
    BY <1>2, <2>1 DEF SetCb, TypeOK
  <2> QED
    BY <2>1 DEF Callback, TypeOK, cache
<1>4. localstore_sets' \in [Collections -> Entries]
  <2>1. CASE AppendCb(k, reply)
    BY <2>1 DEF AppendCb, TypeOK
  <2>2. CASE RemoveCb(k, reply)
    BY <2>2 DEF RemoveCb, TypeOK
  <2> QED
    BY <2>1, <2>2 DEF Callback, TypeOK, cache
<1>5. asWanted' \in BOOLEAN
  BY DEF Callback, TypeOK
<1>6. flush_delayedcall' \in BOOLEAN
  BY DEF Callback, TypeOK, TriggerFlush, IsDirty
<1>7. replies' \in [Keys -> Seq(Replies)]
  <2>1. UnsharedReplies(k, Tail(replies[k])) \in Seq(Replies)
    BY <1>1, UnsharedRepliesType
  <2> QED
    BY <2>1 DEF Callback, TypeOK
<1>8. requests' \in [Keys -> Seq(Calls)]
  <2>1. UnsharedRequests(k, requests[k]) \in Seq(Calls)
    BY UnsharedRequestsType DEF TypeOK
  <2> QED
    BY <2>1 DEF Callback, TypeOK
<1> QED
  BY <1>3, <1>4, <1>5, <1>6, <1>7, <1>8 DEF Callback, TypeOK

LEMMA TypeStep ==
  ASSUME TypeOK, [Next]_vars
  PROVE  TypeOK'
<1>1. CASE UNCHANGED vars
  BY <1>1 DEF vars, TypeOK
<1>2. CASE Next
  BY <1>2, ChangesType, PluginType, CallbackType DEF Next
<1> QED
  BY <1>1, <1>2

(* For any keys and values, any number of calls and of failures, the local *)
(* store, the flush timer and what is on its way keep their types.         *)
THEOREM StorageTypeCorrect == Spec => []TypeOK
<1>1. Init => TypeOK
  <2> SUFFICES ASSUME Init PROVE TypeOK
    OBVIOUS
  <2>1. <<>> \in Seq(Calls) /\ <<>> \in Seq(Replies)
    OBVIOUS
  <2>2. localstore_sets \in [Collections -> [plus : SUBSET Values, minus : SUBSET Values]]
    <3>1. [plus |-> {}, minus |-> {}] \in [plus : SUBSET Values, minus : SUBSET Values]
      OBVIOUS
    <3> QED
      BY <3>1 DEF Init
  <2>3. requests \in [Keys -> Seq(Calls)] /\ replies \in [Keys -> Seq(Replies)]
    BY <2>1 DEF Init
  <2>4. calls \in 0..MaxCalls /\ failures \in 0..MaxFailures
    BY StorageBoundAssumption DEF Init
  <2>5. localstore \in [ValueKeys -> SUBSET Values]
    BY DEF Init
  <2>6. registry \in [Keys -> SUBSET Values] /\ wanted \in [Keys -> SUBSET Values]
    BY DEF Init
  <2> QED
    BY <2>2, <2>3, <2>4, <2>5, <2>6 DEF Init, TypeOK
<1>2. TypeOK /\ [Next]_vars => TypeOK'
  BY TypeStep
<1> QED
  BY <1>1, <1>2, PTL DEF Spec

-----------------------------------------------------------------------------
(* The lemmas that follow say that no step leaves something in the local   *)
(* store without a timer or an awaited answer.  A call on its way to the   *)
(* registry is awaited until its callback.                                 *)
LEMMA SentIsAwaited ==
  ASSUME TypeOK, started, NEW k \in Keys, NEW call \in Calls, Send(k, call),
         UNCHANGED replies
  PROVE  /\ IsCached(call) => IsAwaited(k)'
         /\ \A j \in Keys : IsAwaited(j) => IsAwaited(j)'
<1> DEFINE s == requests[k]
<1>1. s \in Seq(Calls) /\ requests' = [requests EXCEPT ![k] = Append(s, call)]
  BY DEF TypeOK, Send
<1>2. /\ DOMAIN s = 1..Len(s) /\ Len(s) \in Nat
      /\ DOMAIN Append(s, call) = 1..(Len(s) + 1)
      /\ Append(s, call)[Len(s) + 1] = call
      /\ \A i \in DOMAIN s : Append(s, call)[i] = s[i]
  BY <1>1, AppendProperties, LenProperties
<1>3. requests'[k] = Append(s, call) /\ \A j \in Keys : j # k => requests'[j] = requests[j]
  BY <1>1 DEF TypeOK
<1>4. IsCached(call) => IsAwaited(k)'
  BY <1>2, <1>3 DEF IsAwaited
<1>5. ASSUME NEW j \in Keys, IsAwaited(j) PROVE IsAwaited(j)'
  <2>1. CASE j = k
    <3>1. \A i \in DOMAIN s : i \in DOMAIN requests'[k] /\ requests'[k][i] = s[i]
      BY <1>2, <1>3
    <3> QED
      BY <1>5, <2>1, <3>1 DEF IsAwaited
  <2>2. CASE j # k
    BY <1>3, <1>5, <2>2 DEF IsAwaited
  <2> QED
    BY <2>1, <2>2
<1> QED
  BY <1>4, <1>5

LEMMA ShortConcat ==
  ASSUME NEW x, NEW y
  PROVE  /\ <<x>> \o <<>> # <<>> /\ (<<x>> \o <<>>)[1] = x
         /\ <<>> \o <<y>> # <<>> /\ (<<>> \o <<y>>)[1] = y
         /\ <<x>> \o <<y>> # <<>> /\ (<<x>> \o <<y>>)[1] = x
OBVIOUS

(* A flush sends something that is awaited if anything is left.            *)
LEMMA FlushIsAwaited ==
  ASSUME TypeOK, FlushLocaldata, IsDirty(localstore, localstore_sets)
  PROVE  \E k \in Keys : IsAwaited(k)'
<1>1. PICK k \in Keys : Flushed(k) # <<>> /\ IsCached(Flushed(k)[1])
  <2>1. ASSUME NEW k \in ValueKeys, localstore[k] # {}
        PROVE  Flushed(k) # <<>> /\ IsCached(Flushed(k)[1])
    BY <2>1 DEF Flushed, Call, IsCached
  <2>2. ASSUME NEW k \in Collections,
               localstore_sets[k].plus # {} \/ localstore_sets[k].minus # {}
        PROVE  Flushed(k) # <<>> /\ IsCached(Flushed(k)[1])
    <3> DEFINE org == IF k \in IndexKeys THEN "live" ELSE "none"
               a == Call("append", localstore_sets[k].plus, org)
               r == Call("remove", localstore_sets[k].minus, org)
    <3>1. k \notin ValueKeys
      BY KindAssumption
    <3>2. Flushed(k) = (IF localstore_sets[k].plus = {} THEN <<>> ELSE <<a>>)
                       \o (IF localstore_sets[k].minus = {} THEN <<>> ELSE <<r>>)
      BY <3>1 DEF Flushed
    <3>3. Flushed(k) # <<>> /\ Flushed(k)[1] \in {a, r}
      <4> HIDE DEF a, r
      <4> QED
        BY <2>2, <3>2, ShortConcat
    <3>4. IsCached(a) /\ IsCached(r)
      BY DEF Call, IsCached
    <3> QED
      BY <3>3, <3>4
  <2> QED
    BY <2>1, <2>2 DEF IsDirty, Keys, Collections
<1> DEFINE s == requests[k]
           f == Flushed(k)
<1>2. s \in Seq(Calls) /\ f \in Seq(Calls)
  BY FlushedType DEF TypeOK
<1>3. Len(f) \in Nat /\ Len(f) # 0 /\ Len(s) \in Nat
  BY <1>1, <1>2, EmptySeq, LenProperties
<1>4. /\ Len(s \o f) = Len(s) + Len(f)
      /\ DOMAIN (s \o f) = 1..Len(s \o f)
      /\ (s \o f)[Len(s) + 1] = f[1]
  BY <1>2, <1>3, ConcatProperties, LenProperties
<1>5. requests'[k] = s \o f
  BY DEF FlushLocaldata
<1>6. Len(s) + 1 \in DOMAIN requests'[k] /\ IsCached(requests'[k][Len(s) + 1])
  BY <1>1, <1>3, <1>4, <1>5
<1> QED
  BY <1>6 DEF IsAwaited

(* What the registry handles becomes an answer that is awaited.            *)
LEMMA HandledIsAwaited ==
  ASSUME TypeOK, NEW k \in Keys, Handle(k), NEW j \in Keys, IsAwaited(j)
  PROVE  IsAwaited(j)'
<1> DEFINE s == requests[k]
           a == replies[k]
<1>1. /\ s \in Seq(Calls) /\ a \in Seq(Replies) /\ s # <<>>
      /\ requests' = [requests EXCEPT ![k] = Tail(s)]
  BY DEF TypeOK, Handle
<1>2. PICK answer : /\ answer.call = Head(s) /\ answer \in Replies
                    /\ replies' = [replies EXCEPT ![k] = Append(a, answer)]
  <2>1. PICK ok \in BOOLEAN, value \in SUBSET Values :
          replies' = [replies EXCEPT ![k] = Append(@, [call |-> Head(s), ok |-> ok, value |-> value])]
    BY DEF Handle, TypeOK
  <2>2. [call |-> Head(s), ok |-> ok, value |-> value] \in Replies
    BY <1>1, HeadTail DEF Replies
  <2> QED
    BY <2>1, <2>2
<1>3. CASE j # k
  <2>1. requests'[j] = requests[j] /\ replies'[j] = replies[j]
    BY <1>1, <1>2, <1>3 DEF TypeOK
  <2> QED
    BY <2>1 DEF IsAwaited
<1>4. CASE j = k
  <2>1. requests'[k] = Tail(s) /\ replies'[k] = Append(a, answer)
    BY <1>1, <1>2 DEF TypeOK
  <2>2. /\ DOMAIN a = 1..Len(a) /\ Len(a) \in Nat
        /\ DOMAIN Append(a, answer) = 1..(Len(a) + 1)
        /\ Append(a, answer)[Len(a) + 1] = answer
        /\ \A i \in DOMAIN a : Append(a, answer)[i] = a[i]
    BY <1>1, <1>2, AppendProperties, LenProperties
  <2>3. CASE \E i \in DOMAIN a : IsCached(a[i].call)
    <3>1. \A i \in DOMAIN a : i \in DOMAIN replies'[k] /\ replies'[k][i] = a[i]
      BY <2>1, <2>2
    <3> QED
      BY <1>4, <2>3, <3>1 DEF IsAwaited
  <2>4. ASSUME NEW i \in DOMAIN s, IsCached(s[i]) PROVE IsAwaited(j)'
    <3>1. CASE i = 1
      <4>1. IsCached(answer.call)
        BY <1>1, <1>2, <2>4, <3>1, HeadTail
      <4>2. Len(a) + 1 \in DOMAIN replies'[k] /\ replies'[k][Len(a) + 1] = answer
        BY <2>1, <2>2
      <4> QED
        BY <1>4, <4>1, <4>2 DEF IsAwaited
    <3>2. CASE i # 1
      <4>1. i - 1 \in DOMAIN Tail(s) /\ Tail(s)[i - 1] = s[i]
        BY <1>1, <3>2, HeadTail
      <4> QED
        BY <1>4, <2>1, <2>4, <4>1 DEF IsAwaited
    <3> QED
      BY <3>1, <3>2
  <2> QED
    BY <1>4, <2>3, <2>4 DEF IsAwaited
<1> QED
  BY <1>3, <1>4

(* A callback that does not look at the local store leaves the answers of  *)
(* the others awaited.                                                     *)
LEMMA CallbackLeavesAwaited ==
  ASSUME TypeOK, NEW k \in Keys, Callback(k), ~IsCached(Head(replies[k]).call),
         NEW j \in Keys, IsAwaited(j)
  PROVE  IsAwaited(j)'
<1> DEFINE s == requests[k]
           a == replies[k]
           rest == Tail(a)
<1>1. s \in Seq(Calls) /\ a \in Seq(Replies) /\ a # <<>> /\ rest \in Seq(Replies)
  BY HeadTail DEF TypeOK, Callback
<1>2. CASE j # k
  <2>1. requests'[j] = requests[j] /\ replies'[j] = replies[j]
    BY <1>2 DEF Callback, TypeOK
  <2> QED
    BY <2>1 DEF IsAwaited
<1>3. CASE j = k
  <2>1. requests'[k] = UnsharedRequests(k, s) /\ replies'[k] = UnsharedReplies(k, rest)
    BY DEF Callback, TypeOK
  <2>2. ASSUME NEW i \in DOMAIN s, IsCached(s[i]) PROVE IsAwaited(j)'
    <3>1. s[i] \in Calls
      BY <1>1, ElementOfSeq, LenProperties
    <3>2. i \in DOMAIN requests'[k] /\ requests'[k][i] = Unshared(k, s[i])
      BY <2>1 DEF UnsharedRequests
    <3>3. IsCached(requests'[k][i])
      BY <2>2, <3>1, <3>2, UnsharedType DEF IsCached
    <3> QED
      BY <1>3, <3>2, <3>3 DEF IsAwaited
  <2>3. ASSUME NEW i \in DOMAIN a, IsCached(a[i].call) PROVE IsAwaited(j)'
    <3>1. i # 1
      BY <1>1, <2>3, HeadTail
    <3>2. i - 1 \in DOMAIN rest /\ rest[i - 1] = a[i] /\ a[i] \in Replies
      BY <1>1, <3>1, HeadTail, ElementOfSeq, LenProperties
    <3>3. i - 1 \in DOMAIN replies'[k] /\ replies'[k][i - 1].call = Unshared(k, a[i].call)
      BY <2>1, <3>2 DEF UnsharedReplies, Replies
    <3>4. IsCached(replies'[k][i - 1].call)
      BY <2>3, <3>2, <3>3, UnsharedType DEF IsCached, Replies
    <3> QED
      BY <1>3, <3>3, <3>4 DEF IsAwaited
  <2> QED
    BY <1>3, <2>2, <2>3 DEF IsAwaited
<1> QED
  BY <1>2, <1>3

LEMMA RetryStep ==
  ASSUME TypeOK, LeftIsTriedAgain, [Next]_vars
  PROVE  LeftIsTriedAgain'
<1> SUFFICES ASSUME started', IsDirty(localstore', localstore_sets'), ~flush_delayedcall'
             PROVE  \E k \in Keys : IsAwaited(k)'
  BY DEF LeftIsTriedAgain, IsDirty
<1>0. ValueKeys \subseteq Keys /\ Collections \subseteq Keys /\ SetKeys \subseteq Keys
  BY DEF Keys, Collections
<1>a. ASSUME started, IsDirty(localstore, localstore_sets), ~flush_delayedcall
      PROVE  \E k \in Keys : IsAwaited(k)
  BY <1>a DEF LeftIsTriedAgain
<1>1. ASSUME NEW k \in ValueKeys, NEW v \in Values, Set(k, v)
      PROVE  \E j \in Keys : IsAwaited(j)'
  <2>1. Call("set", {v}, "value") \in Calls /\ IsCached(Call("set", {v}, "value"))
    BY CallType DEF IsCached
  <2> QED
    BY <1>0, <1>1, <2>1, SentIsAwaited DEF Set
<1>2. ASSUME NEW k \in Collections, NEW v \in Values, Add(k, v)
      PROVE  \E j \in Keys : IsAwaited(j)'
  <2>1. Added(k, v) \in SUBSET Values
    BY <1>2, <1>0, ChangesType DEF Added, TypeOK, Collections
  <2>2. Call("append", Added(k, v), "value") \in Calls /\ IsCached(Call("append", Added(k, v), "value"))
    BY <2>1, CallType DEF IsCached
  <2> QED
    BY <1>0, <1>2, <2>2, SentIsAwaited DEF Add
<1>3. ASSUME NEW k \in Collections, NEW v \in Values, Remove(k, v)
      PROVE  \E j \in Keys : IsAwaited(j)'
  <2>1. Removed(k, v) \in SUBSET Values
    BY <1>3, <1>0, ChangesType DEF Removed, TypeOK, Collections
  <2>2. Call("remove", Removed(k, v), "value") \in Calls /\ IsCached(Call("remove", Removed(k, v), "value"))
    BY <2>1, CallType DEF IsCached
  <2> QED
    BY <1>0, <1>3, <2>2, SentIsAwaited DEF Remove
<1>4. ASSUME NEW k \in ValueKeys \cup SetKeys, Delete(k)
      PROVE  \E j \in Keys : IsAwaited(j)'
  <2>0. /\ \A j \in ValueKeys : localstore'[j] # {} => localstore[j] # {}
        /\ \A j \in Collections :
             localstore_sets'[j].plus # {} \/ localstore_sets'[j].minus # {}
               => localstore_sets[j].plus # {} \/ localstore_sets[j].minus # {}
    <3>1. CASE k \in ValueKeys
      BY <1>4, <3>1 DEF Delete, TypeOK
    <3>2. CASE k \notin ValueKeys
      <4> DEFINE none == [plus |-> {}, minus |-> {}]
      <4>1. /\ UNCHANGED localstore
            /\ localstore_sets' = [localstore_sets EXCEPT ![k] = none]
        BY <1>4, <3>2 DEF Delete
      <4>2. \A j \in Collections : localstore_sets'[j] = IF j = k THEN none ELSE localstore_sets[j]
        BY <4>1 DEF TypeOK
      <4>3. none.plus = {} /\ none.minus = {}
        OBVIOUS
      <4> HIDE DEF none
      <4> QED
        BY <4>1, <4>2, <4>3
    <3> QED
      BY <3>1, <3>2
  <2>1. IsDirty(localstore, localstore_sets)
    BY <2>0 DEF IsDirty
  <2>2. \E j \in Keys : IsAwaited(j)
    BY <1>a, <1>4, <2>1 DEF Delete
  <2>3. Call("delete", {}, "none") \in Calls
    BY CallType
  <2> QED
    BY <1>0, <1>4, <2>2, <2>3, SentIsAwaited DEF Delete
<1>5. ASSUME NEW k \in Keys, Get(k)
      PROVE  \E j \in Keys : IsAwaited(j)'
  <2> DEFINE get == [op |-> "get", value |-> LocalPart(k), org |-> "none", wanted |-> wanted[k]]
  <2>1. \E j \in Keys : IsAwaited(j)
    BY <1>a, <1>5 DEF Get, cache
  <2>2. get \in Calls
    BY <1>0 DEF LocalPart, TypeOK, Keys, Collections, Calls
  <2>3. CASE UNCHANGED requests
    BY <1>5, <2>1, <2>3 DEF Get, IsAwaited
  <2>4. CASE Send(k, get)
    BY <1>5, <2>1, <2>2, <2>4, SentIsAwaited DEF Get
  <2> QED
    BY <1>5, <2>3, <2>4 DEF Get
<1>6. CASE StartedCb
  BY <1>6 DEF StartedCb, cache, TypeOK
<1>7. CASE FlushLocaldata
  <2>1. IsDirty(localstore, localstore_sets)
    BY <1>7 DEF FlushLocaldata, cache
  <2> QED
    BY <1>7, <2>1, FlushIsAwaited
<1>8. ASSUME NEW k \in Keys, Handle(k)
      PROVE  \E j \in Keys : IsAwaited(j)'
  <2>1. \E j \in Keys : IsAwaited(j)
    BY <1>a, <1>8 DEF Handle, cache
  <2> QED
    BY <1>8, <2>1, HandledIsAwaited
<1>9. ASSUME NEW k \in Keys, Callback(k)
      PROVE  \E j \in Keys : IsAwaited(j)'
  <2>1. CASE IsCached(Head(replies[k]).call)
    BY <1>9, <2>1 DEF Callback, IsCached, TriggerFlush
  <2>2. CASE ~IsCached(Head(replies[k]).call)
    <3>1. UNCHANGED cache /\ UNCHANGED flush_delayedcall /\ UNCHANGED started
      BY <1>9, <2>2 DEF Callback, IsCached
    <3>2. \E j \in Keys : IsAwaited(j)
      BY <1>a, <3>1 DEF cache
    <3> QED
      BY <1>9, <2>2, <3>2, CallbackLeavesAwaited
  <2> QED
    BY <2>1, <2>2
<1>10. CASE UNCHANGED vars
  BY <1>a, <1>10 DEF vars, IsAwaited
<1> QED
  BY <1>1, <1>2, <1>3, <1>4, <1>5, <1>6, <1>7, <1>8, <1>9, <1>10 DEF Next

(* For any keys and values, any number of calls and of failures: whatever  *)
(* is left in the local store after the start will be tried again, as the  *)
(* flush timer is running or a callback will start it.                     *)
THEOREM RetryNeverStops == Spec => []LeftIsTriedAgain
<1>1. Init => LeftIsTriedAgain
  BY DEF Init, LeftIsTriedAgain
<1>2. TypeOK /\ LeftIsTriedAgain /\ [Next]_vars => LeftIsTriedAgain'
  BY RetryStep
<1> QED
  BY <1>1, <1>2, StorageTypeCorrect, PTL DEF Spec

-----------------------------------------------------------------------------
(* The lemmas that follow are about what the registry holds after a number *)
(* of calls.  A call puts a value, drops it, or leaves it as it is.        *)
LEMMA AppliedCases ==
  ASSUME NEW call \in Calls, NEW held \in SUBSET Values, NEW v \in Values
  PROVE  v \in Applied(held, call) <=> Puts(call, v) \/ (v \in held /\ ~Drops(call, v))
<1>1. call.op \in {"set", "append", "remove", "delete", "get"}
  BY DEF Calls
<1> QED
  BY <1>1 DEF Applied, Puts, Drops

LEMMA HeldAfterType ==
  ASSUME NEW held, NEW s, NEW n
  PROVE  HeldAfter(held, s, n) \in SUBSET Values
BY DEF HeldAfter

LEMMA HeldAfterNone ==
  ASSUME NEW held \in SUBSET Values, NEW s
  PROVE  HeldAfter(held, s, 0) = held
<1>1. 1..0 = {}
  OBVIOUS
<1> QED
  BY <1>1 DEF HeldAfter

(* One call more, at the end ...                                           *)
LEMMA HeldAfterNext ==
  ASSUME NEW held \in SUBSET Values, NEW s, NEW n \in Nat, s[n + 1] \in Calls
  PROVE  HeldAfter(held, s, n + 1) = Applied(HeldAfter(held, s, n), s[n + 1])
<1> DEFINE before == HeldAfter(held, s, n)
           c == s[n + 1]
<1>1. before \in SUBSET Values /\ Applied(before, c) \in SUBSET Values
  BY HeldAfterType, AppliedType
<1> SUFFICES ASSUME NEW v \in Values
             PROVE  v \in HeldAfter(held, s, n + 1) <=> v \in Applied(before, c)
  BY <1>1, HeldAfterType
<1>2. v \in Applied(before, c) <=> Puts(c, v) \/ (v \in before /\ ~Drops(c, v))
  BY <1>1, AppliedCases
<1>3. v \in before <=>
        \/ v \in held /\ \A i \in 1..n : ~Drops(s[i], v)
        \/ \E i \in 1..n : Puts(s[i], v) /\ \A j \in i + 1..n : ~Drops(s[j], v)
  BY DEF HeldAfter
<1>4. v \in HeldAfter(held, s, n + 1) <=>
        \/ v \in held /\ \A i \in 1..n + 1 : ~Drops(s[i], v)
        \/ \E i \in 1..n + 1 : Puts(s[i], v) /\ \A j \in i + 1..n + 1 : ~Drops(s[j], v)
  BY DEF HeldAfter
<1> HIDE DEF before
<1>5. /\ \A i : i \in 1..n + 1 <=> i \in 1..n \/ i = n + 1
      /\ \A i \in 1..n : \A j : j \in i + 1..n + 1 <=> j \in i + 1..n \/ j = n + 1
      /\ \A j : j \notin (n + 1) + 1..n + 1
  OBVIOUS
<1>6. CASE Puts(c, v)
  BY <1>2, <1>4, <1>5, <1>6
<1>7. CASE ~Puts(c, v) /\ Drops(c, v)
  <2>1. v \notin Applied(before, c)
    BY <1>2, <1>7
  <2>2. ASSUME NEW i \in 1..n + 1, Puts(s[i], v), \A j \in i + 1..n + 1 : ~Drops(s[j], v)
        PROVE  FALSE
    <3>1. i \in 1..n
      BY <1>5, <1>7, <2>2
    <3> QED
      BY <1>5, <1>7, <2>2, <3>1
  <2> QED
    BY <1>4, <1>5, <1>7, <2>1, <2>2
<1>8. CASE ~Puts(c, v) /\ ~Drops(c, v)
  <2>1. v \in held /\ (\A i \in 1..n : ~Drops(s[i], v))
          <=> v \in held /\ (\A i \in 1..n + 1 : ~Drops(s[i], v))
    BY <1>5, <1>8
  <2>2. (\E i \in 1..n : Puts(s[i], v) /\ \A j \in i + 1..n : ~Drops(s[j], v))
          <=> (\E i \in 1..n + 1 : Puts(s[i], v) /\ \A j \in i + 1..n + 1 : ~Drops(s[j], v))
    <3>1. ASSUME NEW i \in 1..n
          PROVE  (\A j \in i + 1..n : ~Drops(s[j], v)) <=> (\A j \in i + 1..n + 1 : ~Drops(s[j], v))
      BY <1>5, <1>8
    <3> QED
      BY <1>5, <1>8, <3>1
  <2> QED
    BY <1>2, <1>3, <1>4, <1>8, <2>1, <2>2
<1> QED
  BY <1>6, <1>7, <1>8

(* ... or at the head.                                                     *)
LEMMA HeldAfterHead ==
  ASSUME NEW held \in SUBSET Values, NEW s \in Seq(Calls), s # <<>>,
         NEW n \in Nat, n < Len(s)
  PROVE  HeldAfter(Applied(held, Head(s)), Tail(s), n) = HeldAfter(held, s, n + 1)
<1> DEFINE t == Tail(s)
           first == Applied(held, s[1])
<1>1. /\ s[1] \in Calls /\ Head(s) = s[1]
      /\ Len(s) \in Nat /\ Len(t) = Len(s) - 1
      /\ \A i \in 1..Len(t) : t[i] = s[i + 1]
  BY HeadTailProperties, EmptySeq, ElementOfSeq, LenProperties
<1>2. \A i \in 1..n : t[i] = s[i + 1]
  BY <1>1
<1> SUFFICES HeldAfter(first, t, n) = HeldAfter(held, s, n + 1)
  BY <1>1
<1> SUFFICES ASSUME NEW v \in Values
             PROVE  v \in HeldAfter(first, t, n) <=> v \in HeldAfter(held, s, n + 1)
  <2>1. HeldAfter(first, t, n) \subseteq Values /\ HeldAfter(held, s, n + 1) \subseteq Values
    BY DEF HeldAfter
  <2> HIDE DEF first, t
  <2> QED
    BY <2>1
<1>3. v \in first <=> Puts(s[1], v) \/ (v \in held /\ ~Drops(s[1], v))
  BY <1>1, AppliedCases
<1>4. v \in HeldAfter(first, t, n) <=>
        \/ v \in first /\ \A i \in 1..n : ~Drops(t[i], v)
        \/ \E i \in 1..n : Puts(t[i], v) /\ \A j \in i + 1..n : ~Drops(t[j], v)
  BY DEF HeldAfter
<1>5. v \in HeldAfter(held, s, n + 1) <=>
        \/ v \in held /\ \A i \in 1..n + 1 : ~Drops(s[i], v)
        \/ \E i \in 1..n + 1 : Puts(s[i], v) /\ \A j \in i + 1..n + 1 : ~Drops(s[j], v)
  BY DEF HeldAfter
<1> HIDE DEF t, first
<1>6. ASSUME NEW a \in 0..n
      PROVE  (\A j \in a + 1..n : ~Drops(t[j], v))
               <=> (\A j \in (a + 1) + 1..n + 1 : ~Drops(s[j], v))
  <2>1. ASSUME \A j \in a + 1..n : ~Drops(t[j], v), NEW j \in (a + 1) + 1..n + 1
        PROVE  ~Drops(s[j], v)
    <3>1. j - 1 \in a + 1..n /\ j - 1 \in 1..n /\ (j - 1) + 1 = j
      OBVIOUS
    <3> QED
      BY <1>2, <2>1, <3>1
  <2>2. ASSUME \A j \in (a + 1) + 1..n + 1 : ~Drops(s[j], v), NEW j \in a + 1..n
        PROVE  ~Drops(t[j], v)
    <3>1. j + 1 \in (a + 1) + 1..n + 1 /\ j \in 1..n
      OBVIOUS
    <3> QED
      BY <1>2, <2>2, <3>1
  <2> QED
    BY <2>1, <2>2
<1>7. (\E i \in 1..n : Puts(t[i], v) /\ \A j \in i + 1..n : ~Drops(t[j], v))
        <=> (\E i \in 2..n + 1 : Puts(s[i], v) /\ \A j \in i + 1..n + 1 : ~Drops(s[j], v))
  <2>1. ASSUME NEW i \in 1..n, Puts(t[i], v), \A j \in i + 1..n : ~Drops(t[j], v)
        PROVE  \E l \in 2..n + 1 : Puts(s[l], v) /\ \A j \in l + 1..n + 1 : ~Drops(s[j], v)
    <3>1. i \in 0..n /\ i + 1 \in 2..n + 1 /\ t[i] = s[i + 1]
      BY <1>2
    <3> QED
      BY <1>6, <2>1, <3>1
  <2>2. ASSUME NEW l \in 2..n + 1, Puts(s[l], v), \A j \in l + 1..n + 1 : ~Drops(s[j], v)
        PROVE  \E i \in 1..n : Puts(t[i], v) /\ \A j \in i + 1..n : ~Drops(t[j], v)
    <3>1. PICK i \in 1..n : i + 1 = l /\ i \in 0..n
      <4>1. l - 1 \in 1..n /\ (l - 1) + 1 = l /\ l - 1 \in 0..n
        OBVIOUS
      <4> QED
        BY <4>1
    <3>2. Puts(t[i], v)
      BY <1>2, <2>2, <3>1
    <3>3. \A j \in i + 1..n : ~Drops(t[j], v)
      BY <1>6, <2>2, <3>1
    <3> QED
      BY <3>2, <3>3
  <2> QED
    BY <2>1, <2>2
<1>8. (\A i \in 1..n : ~Drops(t[i], v)) <=> (\A j \in 2..n + 1 : ~Drops(s[j], v))
  <2>1. 0 \in 0..n /\ 0 + 1 = 1 /\ (0 + 1) + 1 = 2
    OBVIOUS
  <2> QED
    BY <1>6, <2>1
<1>9. \A i : i \in 1..n + 1 <=> i = 1 \/ i \in 2..n + 1
  OBVIOUS
<1>10. (\E i \in 1..n + 1 : Puts(s[i], v) /\ \A j \in i + 1..n + 1 : ~Drops(s[j], v))
         <=> \/ Puts(s[1], v) /\ \A j \in 2..n + 1 : ~Drops(s[j], v)
             \/ \E i \in 2..n + 1 : Puts(s[i], v) /\ \A j \in i + 1..n + 1 : ~Drops(s[j], v)
  <2>1. 1 + 1 = 2
    OBVIOUS
  <2> QED
    BY <1>9, <2>1
<1>11. (\A i \in 1..n + 1 : ~Drops(s[i], v))
         <=> ~Drops(s[1], v) /\ \A j \in 2..n + 1 : ~Drops(s[j], v)
  BY <1>9
<1> QED
  BY <1>3, <1>4, <1>5, <1>7, <1>8, <1>10, <1>11

(* Only the operations and values count.                                   *)
LEMMA HeldAfterSame ==
  ASSUME NEW held, NEW s, NEW t, NEW n \in Nat,
         \A i \in 1..n : s[i].op = t[i].op /\ s[i].value = t[i].value
  PROVE  HeldAfter(held, s, n) = HeldAfter(held, t, n)
<1>1. ASSUME NEW i \in 1..n, NEW v
      PROVE  (Puts(s[i], v) <=> Puts(t[i], v)) /\ (Drops(s[i], v) <=> Drops(t[i], v))
  BY DEF Puts, Drops, Applied
<1>2. \A i \in 1..n : \A j \in i + 1..n : j \in 1..n
  OBVIOUS
<1> QED
  BY <1>1, <1>2 DEF HeldAfter

-----------------------------------------------------------------------------
(* Every read on its way will be answered with what was wanted when it was *)
(* sent, and has been.                                                     *)
ReadsRight(held, s) ==
  \A i \in 1..Len(s) :
    s[i].op = "get" => HeldAfter(held, s, i - 1) \cup s[i].value = s[i].wanted

AnswersRight(a) ==
  \A i \in 1..Len(a) :
    /\ a[i].ok
    /\ a[i].call.op = "get" => a[i].value \cup a[i].call.value = a[i].call.wanted

CallsOf(s) == {s[i] : i \in 1..Len(s)}

LEMMA CallSent ==
  ASSUME NEW held \in SUBSET Values, NEW s \in Seq(Calls), NEW c \in Calls,
         ReadsRight(held, s),
         c.op = "get" => HeldAfter(held, s, Len(s)) \cup c.value = c.wanted
  PROVE  LET t == Append(s, c) IN
         /\ HeldAfter(held, t, Len(t)) = Applied(HeldAfter(held, s, Len(s)), c)
         /\ ReadsRight(held, t)
         /\ CallsOf(t) = CallsOf(s) \cup {c}
<1> DEFINE t == Append(s, c)
           n == Len(s)
<1>1. /\ n \in Nat /\ Len(t) = n + 1 /\ t[n + 1] = c
      /\ \A i \in 1..n : t[i] = s[i]
  BY AppendProperties, LenProperties
<1> HIDE DEF t, n
<1>2. ASSUME NEW m \in 0..n PROVE HeldAfter(held, t, m) = HeldAfter(held, s, m)
  <2>1. m \in Nat /\ \A i \in 1..m : t[i] = s[i]
    BY <1>1
  <2> QED
    BY <2>1, HeldAfterSame
<1>3. HeldAfter(held, t, n + 1) = Applied(HeldAfter(held, t, n), t[n + 1])
  BY <1>1, HeldAfterNext
<1>4. HeldAfter(held, t, n) = HeldAfter(held, s, n)
  BY <1>1, <1>2
<1>5. ASSUME NEW i \in 1..Len(t), t[i].op = "get"
      PROVE  HeldAfter(held, t, i - 1) \cup t[i].value = t[i].wanted
  <2>1. CASE i = n + 1
    <3>1. HeldAfter(held, t, i - 1) = HeldAfter(held, s, n)
      BY <1>1, <1>4, <2>1
    <3> QED
      BY <1>1, <1>5, <2>1, <3>1 DEF n
  <2>2. CASE i \in 1..n
    <3>1. i - 1 \in 0..n
      BY <1>1, <2>2
    <3> QED
      BY <1>1, <1>2, <1>5, <2>2, <3>1 DEF ReadsRight, n
  <2> QED
    BY <1>1, <2>1, <2>2
<1>6. CallsOf(t) = CallsOf(s) \cup {c}
  <2>1. \A i : i \in 1..Len(t) <=> i \in 1..n \/ i = n + 1
    BY <1>1
  <2> QED
    BY <1>1, <2>1 DEF CallsOf, n
<1> QED
  BY <1>1, <1>3, <1>4, <1>5, <1>6 DEF ReadsRight, t, n

LEMMA CallHandled ==
  ASSUME NEW held \in SUBSET Values, NEW s \in Seq(Calls), s # <<>>, ReadsRight(held, s)
  PROVE  LET c == Head(s)
             t == Tail(s)
         IN  /\ HeldAfter(Applied(held, c), t, Len(t)) = HeldAfter(held, s, Len(s))
             /\ ReadsRight(Applied(held, c), t)
             /\ CallsOf(s) = CallsOf(t) \cup {c}
             /\ c.op = "get" => held \cup c.value = c.wanted
<1> DEFINE c == Head(s)
           t == Tail(s)
           n == Len(t)
           h == Applied(held, c)
<1>1. /\ c \in Calls /\ c = s[1]
      /\ n \in Nat /\ Len(s) = n + 1 /\ n < Len(s)
      /\ \A i \in 1..n : t[i] = s[i + 1]
  BY HeadTailProperties, EmptySeq, ElementOfSeq, LenProperties
<1>2. ASSUME NEW m \in 0..n PROVE HeldAfter(h, t, m) = HeldAfter(held, s, m + 1)
  <2>1. m \in Nat /\ m < Len(s)
    BY <1>1
  <2> QED
    BY <2>1, HeldAfterHead
<1> HIDE DEF c, t, n, h
<1>3. HeldAfter(h, t, n) = HeldAfter(held, s, Len(s))
  BY <1>1, <1>2
<1>4. ASSUME NEW i \in 1..n, t[i].op = "get"
      PROVE  HeldAfter(h, t, i - 1) \cup t[i].value = t[i].wanted
  <2>1. i - 1 \in 0..n /\ i + 1 \in 1..Len(s) /\ (i - 1) + 1 = i /\ (i + 1) - 1 = i
    BY <1>1
  <2>2. HeldAfter(h, t, i - 1) = HeldAfter(held, s, i)
    BY <1>2, <2>1
  <2>3. t[i] = s[i + 1]
    BY <1>1
  <2>4. HeldAfter(held, s, i) \cup s[i + 1].value = s[i + 1].wanted
    BY <1>4, <2>1, <2>3 DEF ReadsRight
  <2> QED
    BY <2>2, <2>3, <2>4
<1>5. CallsOf(s) = CallsOf(t) \cup {c}
  <2>1. ASSUME NEW i \in 1..Len(s) PROVE s[i] \in CallsOf(t) \cup {c}
    <3>1. i = 1 \/ (i - 1 \in 1..n /\ t[i - 1] = s[i])
      BY <1>1
    <3> QED
      BY <1>1, <3>1 DEF CallsOf, n
  <2>2. ASSUME NEW i \in 1..n PROVE t[i] \in CallsOf(s)
    <3>1. i + 1 \in 1..Len(s) /\ t[i] = s[i + 1]
      BY <1>1
    <3> QED
      BY <3>1 DEF CallsOf
  <2>3. c \in CallsOf(s)
    BY <1>1 DEF CallsOf
  <2> QED
    BY <2>1, <2>2, <2>3 DEF CallsOf, n
<1>6. c.op = "get" => held \cup c.value = c.wanted
  <2>1. 1 \in 1..Len(s) /\ 1 - 1 = 0
    BY <1>1
  <2>2. HeldAfter(held, s, 0) = held
    BY HeldAfterNone
  <2> QED
    BY <1>1, <2>1, <2>2 DEF ReadsRight
<1> QED
  BY <1>1, <1>3, <1>4, <1>5, <1>6 DEF ReadsRight, c, t, n, h

LEMMA CallsUnshared ==
  ASSUME NEW held \in SUBSET Values, NEW s \in Seq(Calls), NEW k, ReadsRight(held, s)
  PROVE  LET t == UnsharedRequests(k, s) IN
         /\ HeldAfter(held, t, Len(t)) = HeldAfter(held, s, Len(s))
         /\ ReadsRight(held, t)
         /\ \A d \in CallsOf(t) : \E c \in CallsOf(s) : d = Unshared(k, c)
<1> DEFINE t == UnsharedRequests(k, s)
<1>1. /\ t \in Seq(Calls) /\ Len(s) \in Nat /\ DOMAIN s = 1..Len(s)
      /\ \A i \in 1..Len(s) : s[i] \in Calls
  BY UnsharedRequestsType, LenProperties, ElementOfSeq
<1>2. Len(t) = Len(s) /\ \A i \in 1..Len(s) : t[i] = Unshared(k, s[i])
  <2>1. t = [i \in 1..Len(s) |-> Unshared(k, s[i])]
    BY <1>1 DEF UnsharedRequests
  <2> QED
    BY <1>1, <2>1
<1> HIDE DEF t
<1>3. ASSUME NEW i \in 1..Len(s)
      PROVE  t[i].op = s[i].op /\ t[i].value = s[i].value /\ t[i].wanted = s[i].wanted
  BY <1>1, <1>2 DEF Unshared, Calls
<1>4. ASSUME NEW m \in 0..Len(s) PROVE HeldAfter(held, t, m) = HeldAfter(held, s, m)
  <2>1. m \in Nat /\ \A i \in 1..m : i \in 1..Len(s)
    BY <1>1
  <2> QED
    BY <1>3, <2>1, HeldAfterSame
<1>5. ASSUME NEW i \in 1..Len(s), t[i].op = "get"
      PROVE  HeldAfter(held, t, i - 1) \cup t[i].value = t[i].wanted
  <2>1. i - 1 \in 0..Len(s)
    BY <1>1
  <2>2. HeldAfter(held, s, i - 1) \cup s[i].value = s[i].wanted
    BY <1>3, <1>5 DEF ReadsRight
  <2> QED
    BY <1>3, <1>4, <2>1, <2>2
<1>6. \A d \in CallsOf(t) : \E c \in CallsOf(s) : d = Unshared(k, c)
  BY <1>2 DEF CallsOf
<1>7. HeldAfter(held, t, Len(t)) = HeldAfter(held, s, Len(s))
  BY <1>1, <1>2, <1>4
<1> QED
  BY <1>2, <1>5, <1>6, <1>7 DEF ReadsRight, t

AnsweredCalls(a) == {a[i].call : i \in 1..Len(a)}

LEMMA AnswerSent ==
  ASSUME NEW a \in Seq(Replies), NEW r \in Replies, AnswersRight(a), r.ok,
         r.call.op = "get" => r.value \cup r.call.value = r.call.wanted
  PROVE  LET b == Append(a, r) IN
         AnswersRight(b) /\ AnsweredCalls(b) = AnsweredCalls(a) \cup {r.call}
<1> DEFINE b == Append(a, r)
<1>1. /\ Len(a) \in Nat /\ Len(b) = Len(a) + 1 /\ b[Len(a) + 1] = r
      /\ \A i \in 1..Len(a) : b[i] = a[i]
  BY AppendProperties, LenProperties
<1> HIDE DEF b
<1>2. \A i : i \in 1..Len(b) <=> i \in 1..Len(a) \/ i = Len(a) + 1
  BY <1>1
<1>3. AnswersRight(b)
  BY <1>1, <1>2 DEF AnswersRight
<1>4. AnsweredCalls(b) = AnsweredCalls(a) \cup {r.call}
  BY <1>1, <1>2 DEF AnsweredCalls
<1> QED
  BY <1>3, <1>4 DEF b

LEMMA AnswerTaken ==
  ASSUME NEW a \in Seq(Replies), a # <<>>, AnswersRight(a), NEW k
  PROVE  LET r == Head(a)
             b == UnsharedReplies(k, Tail(a))
         IN  /\ r.ok /\ r.call \in AnsweredCalls(a)
             /\ r.call.op = "get" => r.value \cup r.call.value = r.call.wanted
             /\ AnswersRight(b)
             /\ \A d \in AnsweredCalls(b) : \E c \in AnsweredCalls(a) : d = Unshared(k, c)
<1> DEFINE r == Head(a)
           t == Tail(a)
           b == UnsharedReplies(k, t)
<1>1. /\ r = a[1] /\ t \in Seq(Replies) /\ Len(a) \in Nat /\ Len(a) > 0
      /\ Len(t) = Len(a) - 1 /\ DOMAIN t = 1..Len(t)
      /\ \A i \in 1..Len(t) : t[i] = a[i + 1]
  BY HeadTailProperties, EmptySeq, LenProperties
<1>2. ASSUME NEW i \in 1..Len(t)
      PROVE  t[i] \in Replies /\ t[i].call \in Calls
  <2>1. t \in Seq(Replies)
    BY <1>1
  <2> HIDE DEF t
  <2>2. t[i] \in Replies
    BY <2>1, ElementOfSeq
  <2> QED
    BY <2>2 DEF Replies
<1>3. Len(b) = Len(t) /\ \A i \in 1..Len(t) : b[i] = [t[i] EXCEPT !.call = Unshared(k, t[i].call)]
  <2>1. b = [i \in 1..Len(t) |-> [t[i] EXCEPT !.call = Unshared(k, t[i].call)]]
    BY <1>1 DEF UnsharedReplies
  <2>2. Len(t) \in Nat
    BY <1>1
  <2> HIDE DEF b, t
  <2> QED
    BY <2>1, <2>2
<1>4. \A i \in 1..Len(t) : i + 1 \in 1..Len(a)
  BY <1>1
<1>5. 1 \in 1..Len(a)
  BY <1>1
<1> HIDE DEF r, t, b
<1>6. ASSUME NEW i \in 1..Len(t)
      PROVE  /\ b[i].ok = t[i].ok /\ b[i].value = t[i].value
             /\ b[i].call = Unshared(k, t[i].call)
             /\ b[i].call.op = t[i].call.op /\ b[i].call.value = t[i].call.value
             /\ b[i].call.wanted = t[i].call.wanted
  <2>1. /\ b[i].ok = t[i].ok /\ b[i].value = t[i].value
        /\ b[i].call = Unshared(k, t[i].call)
    BY <1>2, <1>3 DEF Replies
  <2>2. t[i].call \in Calls
    BY <1>2
  <2> QED
    BY <2>1, <2>2 DEF Unshared, Calls
<1>7. AnswersRight(b)
  <2>1. \A i \in 1..Len(t) :
          t[i].ok /\ (t[i].call.op = "get" => t[i].value \cup t[i].call.value = t[i].call.wanted)
    BY <1>1, <1>4 DEF AnswersRight
  <2> QED
    BY <1>3, <1>6, <2>1 DEF AnswersRight
<1>8. \A d \in AnsweredCalls(b) : \E c \in AnsweredCalls(a) : d = Unshared(k, c)
  BY <1>1, <1>3, <1>4, <1>6 DEF AnsweredCalls
<1>9. /\ r.ok /\ r.call \in AnsweredCalls(a)
      /\ r.call.op = "get" => r.value \cup r.call.value = r.call.wanted
  BY <1>1, <1>5 DEF AnswersRight, AnsweredCalls
<1> QED
  BY <1>7, <1>8, <1>9 DEF r, t, b

-----------------------------------------------------------------------------
(* The invariant, as long as no call fails.  What the registry will hold   *)
(* of a key by the calls on their way, without the flush to come:          *)
Sent(k) == HeldAfter(registry[k], requests[k], Len(requests[k]))

OnTheirWay(k) == CallsOf(requests[k]) \cup AnsweredCalls(replies[k])

(* a value in the local store is what is wanted, and if it is not what the *)
(* registry will hold, no answer on its way deletes it;                    *)
ValueKept(k) ==
  /\ localstore[k] # {} => localstore[k] = wanted[k]
  /\ \/ Sent(k) = wanted[k]
     \/ localstore[k] # {} /\ \A c \in OnTheirWay(k) : c.op # "set"

(* with the additions in the local store the registry will hold what is    *)
(* wanted, and no answer deletes one it will not hold;                     *)
Settled(k, call, pending) == Confirmed(k, [ok |-> TRUE, call |-> call], pending)

SetKept(k) ==
  LET plus == localstore_sets[k].plus  minus == localstore_sets[k].minus IN
  /\ Sent(k) \cup plus = wanted[k]
  /\ minus \cap wanted[k] = {}
  /\ \A c \in OnTheirWay(k) :
       c.op = "append" => plus \cap Settled(k, c, plus) \subseteq Sent(k)

Kept(k) ==
  /\ k \in ValueKeys => ValueKept(k)
  /\ k \in Collections => SetKept(k)
  /\ ReadsRight(registry[k], requests[k])
  /\ AnswersRight(replies[k])

(* and before the start nothing is sent.                                   *)
Unstarted ==
  /\ ~flush_delayedcall
  /\ \A k \in Keys : requests[k] = <<>> /\ replies[k] = <<>> /\ registry[k] = {}

CacheKept ==
  /\ ~started => Unstarted
  /\ \A k \in Keys : Kept(k)
  /\ asWanted

CacheInv == failures = 0 => CacheKept

(* A step leaves the other keys alone.                                     *)
SameKey(k) ==
  /\ k \in ValueKeys => localstore'[k] = localstore[k]
  /\ k \in Collections => localstore_sets'[k] = localstore_sets[k]
  /\ requests'[k] = requests[k] /\ replies'[k] = replies[k]
  /\ registry'[k] = registry[k] /\ wanted'[k] = wanted[k]

LEMMA SameKeyKept ==
  ASSUME NEW k, SameKey(k), Kept(k)
  PROVE  Kept(k)'
<1>1. Sent(k)' = Sent(k) /\ OnTheirWay(k)' = OnTheirWay(k)
  BY DEF SameKey, Sent, OnTheirWay
<1>2. k \in ValueKeys => ValueKept(k)'
  BY <1>1 DEF SameKey, Kept, ValueKept
<1>3. k \in Collections => SetKept(k)'
  BY <1>1 DEF SameKey, Kept, SetKept
<1>4. ReadsRight(registry[k], requests[k])' /\ AnswersRight(replies[k])'
  BY DEF SameKey, Kept
<1> QED
  BY <1>2, <1>3, <1>4 DEF Kept

(* A key is of one kind.                                                   *)
LEMMA OneKind ==
  ASSUME NEW k \in Keys
  PROVE  /\ k \in ValueKeys \/ k \in Collections
         /\ k \in Collections <=> k \notin ValueKeys
         /\ k \in Collections => (k \in SetKeys <=> k \notin IndexKeys)
BY KindAssumption DEF Keys, Collections

LEMMA KeyTypes ==
  ASSUME TypeOK, NEW k \in Keys
  PROVE  /\ requests[k] \in Seq(Calls) /\ replies[k] \in Seq(Replies)
         /\ registry[k] \in SUBSET Values /\ wanted[k] \in SUBSET Values
         /\ Sent(k) \in SUBSET Values
         /\ k \in ValueKeys => localstore[k] \in SUBSET Values
         /\ k \in Collections => /\ localstore_sets[k].plus \in SUBSET Values
                                 /\ localstore_sets[k].minus \in SUBSET Values
BY HeldAfterType DEF TypeOK, Sent

(* Before the start there is nothing but what is in the local store.       *)
LEMMA NothingSent ==
  ASSUME TypeOK, Unstarted, NEW k \in Keys
  PROVE  Sent(k) = {} /\ OnTheirWay(k) = {}
<1>1. requests[k] = <<>> /\ replies[k] = <<>> /\ registry[k] = {}
  BY DEF Unstarted
<1>2. Len(requests[k]) = 0 /\ Len(replies[k]) = 0 /\ 1..0 = {}
  BY <1>1
<1>3. HeldAfter(registry[k], requests[k], 0) = registry[k]
  BY KeyTypes, HeldAfterNone
<1> QED
  BY <1>1, <1>2, <1>3 DEF Sent, OnTheirWay, CallsOf, AnsweredCalls

(* A call that is sent, if the plugin has started.                         *)
LEMMA SendEffect ==
  ASSUME TypeOK, NEW k \in Keys, NEW c \in Calls, Send(k, c),
         UNCHANGED <<registry, replies>>, ReadsRight(registry[k], requests[k]),
         c.op = "get" => Sent(k) \cup c.value = c.wanted
  PROVE  /\ ReadsRight(registry[k], requests[k])'
         /\ \A j \in Keys \ {k} : requests'[j] = requests[j]
         /\ started => /\ Sent(k)' = Applied(Sent(k), c)
                       /\ OnTheirWay(k)' = OnTheirWay(k) \cup {c}
         /\ ~started => /\ UNCHANGED requests
                        /\ Sent(k)' = Sent(k) /\ OnTheirWay(k)' = OnTheirWay(k)
<1>1. CASE started
  <2> DEFINE s == requests[k]
             held == registry[k]
             t == Append(s, c)
  <2>1. requests' = [requests EXCEPT ![k] = t] /\ requests \in [Keys -> Seq(Calls)]
    BY <1>1 DEF Send, TypeOK
  <2>2. requests'[k] = t /\ \A j \in Keys \ {k} : requests'[j] = requests[j]
    BY <2>1
  <2>3. held \in SUBSET Values /\ s \in Seq(Calls) /\ ReadsRight(held, s)
        /\ (c.op = "get" => HeldAfter(held, s, Len(s)) \cup c.value = c.wanted)
    BY KeyTypes DEF Sent
  <2> HIDE DEF s, held
  <2>4. /\ HeldAfter(held, t, Len(t)) = Applied(HeldAfter(held, s, Len(s)), c)
        /\ ReadsRight(held, t)
        /\ CallsOf(t) = CallsOf(s) \cup {c}
    BY <2>3, CallSent
  <2> HIDE DEF t
  <2>5. Sent(k)' = Applied(Sent(k), c) /\ OnTheirWay(k)' = OnTheirWay(k) \cup {c}
    BY <2>2, <2>4 DEF Sent, OnTheirWay, s, held
  <2> QED
    BY <1>1, <2>2, <2>4, <2>5 DEF held
<1>2. CASE ~started
  BY <1>2 DEF Send, Sent, OnTheirWay
<1> QED
  BY <1>1, <1>2

-----------------------------------------------------------------------------
(* What the runtime asks for, one operation after the other.               *)
LEMMA SettledChanges ==
  ASSUME NEW k, NEW c, NEW p, NEW q
  PROVE  q \cap Settled(k, c, q) \subseteq (p \cap Settled(k, c, p)) \cup (q \ p)
BY DEF Settled, Confirmed

LEMMA SetKeeps ==
  ASSUME TypeOK, CacheKept, NEW k \in ValueKeys, NEW v \in Values, Set(k, v)
  PROVE  Kept(k)' /\ \A j \in Keys \ {k} : SameKey(j)
<1> DEFINE c == Call("set", {v}, "value")
<1>1. k \in Keys /\ k \notin Collections
  BY KindAssumption DEF Keys
<1>2. c \in Calls /\ c.op = "set" /\ c.value = {v}
  BY DEF Call, Calls
<1>3. /\ Send(k, c) /\ UNCHANGED <<registry, replies, localstore_sets>>
      /\ localstore'[k] = {v} /\ \A j \in ValueKeys \ {k} : localstore'[j] = localstore[j]
      /\ wanted'[k] = {v} /\ \A j \in Keys \ {k} : wanted'[j] = wanted[j]
  BY <1>1 DEF Set, TypeOK
<1> HIDE DEF c
<1>4. Kept(k)
  BY <1>1 DEF CacheKept
<1>5. /\ ReadsRight(registry[k], requests[k])'
      /\ \A j \in Keys \ {k} : requests'[j] = requests[j]
      /\ started => Sent(k)' = Applied(Sent(k), c)
      /\ ~started => OnTheirWay(k)' = OnTheirWay(k)
  BY <1>1, <1>2, <1>3, <1>4, SendEffect DEF Kept
<1>6. ValueKept(k)'
  <2>1. CASE started
    BY <1>2, <1>3, <1>5, <2>1 DEF ValueKept, Applied
  <2>2. CASE ~started
    <3>1. OnTheirWay(k)' = {}
      BY <1>1, <1>5, <2>2, NothingSent DEF CacheKept
    <3> QED
      BY <1>3, <3>1 DEF ValueKept
  <2> QED
    BY <2>1, <2>2
<1>7. AnswersRight(replies[k])'
  BY <1>3, <1>4 DEF Kept
<1>8. \A j \in Keys \ {k} : SameKey(j)
  BY <1>3, <1>5 DEF SameKey
<1> QED
  BY <1>1, <1>5, <1>6, <1>7, <1>8 DEF Kept

LEMMA AddKeeps ==
  ASSUME TypeOK, CacheKept, NEW k \in Collections, NEW v \in Values, Add(k, v)
  PROVE  Kept(k)' /\ \A j \in Keys \ {k} : SameKey(j)
<1> DEFINE plus == localstore_sets[k].plus
           minus == localstore_sets[k].minus
           c == Call("append", Added(k, v), "value")
<1>1. k \in Keys /\ k \notin ValueKeys
  BY KindAssumption DEF Keys, Collections
<1>2. /\ plus \in SUBSET Values /\ minus \in SUBSET Values /\ Sent(k) \in SUBSET Values
      /\ wanted[k] \in SUBSET Values
  BY <1>1, KeyTypes
<1>3. /\ Send(k, c) /\ UNCHANGED <<registry, replies, localstore>>
      /\ localstore_sets'[k].plus = plus \cup {v} /\ localstore_sets'[k].minus = minus \ {v}
      /\ \A j \in Collections \ {k} : localstore_sets'[j] = localstore_sets[j]
      /\ wanted'[k] = wanted[k] \cup {v} /\ \A j \in Keys \ {k} : wanted'[j] = wanted[j]
  BY <1>1 DEF Add, TypeOK
<1>4. /\ v \in Added(k, v) /\ Added(k, v) \subseteq plus \cup {v}
      /\ k \in SetKeys => Added(k, v) = plus \cup {v}
      /\ k \notin SetKeys => Added(k, v) = {v}
  BY <1>3 DEF Added
<1>5. c \in Calls /\ c.op = "append" /\ c.value = Added(k, v) /\ c.org = "value"
  BY <1>2, <1>4 DEF Call, Calls
<1> HIDE DEF c, plus, minus
<1>6. Kept(k)
  BY <1>1 DEF CacheKept
<1>7. /\ ReadsRight(registry[k], requests[k])'
      /\ \A j \in Keys \ {k} : requests'[j] = requests[j]
      /\ started => /\ Sent(k)' = Applied(Sent(k), c)
                    /\ OnTheirWay(k)' = OnTheirWay(k) \cup {c}
      /\ ~started => Sent(k)' = Sent(k) /\ OnTheirWay(k)' = OnTheirWay(k)
  BY <1>1, <1>3, <1>5, <1>6, SendEffect DEF Kept
<1>8. /\ Sent(k) \cup plus = wanted[k] /\ minus \cap wanted[k] = {}
      /\ \A d \in OnTheirWay(k) : d.op = "append" => plus \cap Settled(k, d, plus) \subseteq Sent(k)
  BY <1>6 DEF Kept, SetKept, plus, minus
<1>9. SetKept(k)'
  <2> DEFINE plusNext == plus \cup {v}
  <2>1. CASE started
    <3>1. Sent(k)' = Sent(k) \cup Added(k, v)
      BY <1>5, <1>7, <2>1 DEF Applied
    <3>2. Sent(k)' \cup plusNext = wanted[k] \cup {v}
          /\ (minus \ {v}) \cap (wanted[k] \cup {v}) = {}
      BY <1>4, <1>8, <3>1
    <3>3. ASSUME NEW d \in OnTheirWay(k), d.op = "append"
          PROVE  plusNext \cap Settled(k, d, plusNext) \subseteq Sent(k)'
      <4>1. plusNext \cap Settled(k, d, plusNext) \subseteq (plus \cap Settled(k, d, plus)) \cup {v}
        BY SettledChanges
      <4> QED
        BY <1>4, <1>8, <3>1, <3>3, <4>1
    <3>4. plusNext \cap Settled(k, c, plusNext) \subseteq Sent(k)'
      BY <1>4, <1>5, <3>1 DEF Settled, Confirmed
    <3> HIDE DEF plusNext
    <3>5. \A d \in OnTheirWay(k)' :
            d.op = "append" => plusNext \cap Settled(k, d, plusNext) \subseteq Sent(k)'
      BY <1>7, <2>1, <3>3, <3>4
    <3> QED
      BY <1>3, <3>2, <3>5 DEF SetKept, plusNext
  <2>2. CASE ~started
    <3>1. Sent(k) = {} /\ OnTheirWay(k) = {}
      BY <1>1, <2>2, NothingSent DEF CacheKept
    <3>2. Sent(k)' = {} /\ OnTheirWay(k)' = {}
      BY <1>7, <2>2, <3>1
    <3>3. {} \cup plusNext = wanted[k] \cup {v} /\ (minus \ {v}) \cap (wanted[k] \cup {v}) = {}
      BY <1>8, <3>1
    <3> QED
      BY <1>3, <3>2, <3>3 DEF SetKept
  <2> QED
    BY <2>1, <2>2
<1>10. AnswersRight(replies[k])'
  BY <1>3, <1>6 DEF Kept
<1>11. \A j \in Keys \ {k} : SameKey(j)
  BY <1>3, <1>7 DEF SameKey
<1> QED
  BY <1>1, <1>7, <1>9, <1>10, <1>11 DEF Kept

LEMMA RemoveKeeps ==
  ASSUME TypeOK, CacheKept, NEW k \in Collections, NEW v \in Values, Remove(k, v)
  PROVE  Kept(k)' /\ \A j \in Keys \ {k} : SameKey(j)
<1> DEFINE plus == localstore_sets[k].plus
           minus == localstore_sets[k].minus
           c == Call("remove", Removed(k, v), "value")
<1>1. k \in Keys /\ k \notin ValueKeys
  BY KindAssumption DEF Keys, Collections
<1>2. /\ plus \in SUBSET Values /\ minus \in SUBSET Values /\ Sent(k) \in SUBSET Values
      /\ wanted[k] \in SUBSET Values
  BY <1>1, KeyTypes
<1>3. /\ Send(k, c) /\ UNCHANGED <<registry, replies, localstore>>
      /\ localstore_sets'[k].plus = plus \ {v} /\ localstore_sets'[k].minus = minus \cup {v}
      /\ \A j \in Collections \ {k} : localstore_sets'[j] = localstore_sets[j]
      /\ wanted'[k] = wanted[k] \ {v} /\ \A j \in Keys \ {k} : wanted'[j] = wanted[j]
  BY <1>1 DEF Remove, TypeOK
<1>4. v \in Removed(k, v) /\ Removed(k, v) \subseteq minus \cup {v}
  BY <1>3 DEF Removed
<1>5. c \in Calls /\ c.op = "remove" /\ c.value = Removed(k, v)
  BY <1>2, <1>4 DEF Call, Calls
<1> HIDE DEF c, plus, minus
<1>6. Kept(k)
  BY <1>1 DEF CacheKept
<1>7. /\ ReadsRight(registry[k], requests[k])'
      /\ \A j \in Keys \ {k} : requests'[j] = requests[j]
      /\ started => /\ Sent(k)' = Applied(Sent(k), c)
                    /\ OnTheirWay(k)' = OnTheirWay(k) \cup {c}
      /\ ~started => Sent(k)' = Sent(k) /\ OnTheirWay(k)' = OnTheirWay(k)
  BY <1>1, <1>3, <1>5, <1>6, SendEffect DEF Kept
<1>8. /\ Sent(k) \cup plus = wanted[k] /\ minus \cap wanted[k] = {}
      /\ \A d \in OnTheirWay(k) : d.op = "append" => plus \cap Settled(k, d, plus) \subseteq Sent(k)
  BY <1>6 DEF Kept, SetKept, plus, minus
<1>9. SetKept(k)'
  <2> DEFINE plusNext == plus \ {v}
  <2>1. CASE started
    <3>1. Sent(k)' = Sent(k) \ Removed(k, v)
      BY <1>5, <1>7, <2>1 DEF Applied
    <3>2. Sent(k)' \cup plusNext = wanted[k] \ {v}
          /\ (minus \cup {v}) \cap (wanted[k] \ {v}) = {}
      BY <1>4, <1>8, <3>1
    <3>3. ASSUME NEW d \in OnTheirWay(k), d.op = "append"
          PROVE  plusNext \cap Settled(k, d, plusNext) \subseteq Sent(k)'
      <4>1. plusNext \cap Settled(k, d, plusNext) \subseteq plus \cap Settled(k, d, plus)
        <5>1. plusNext \cap Settled(k, d, plusNext)
                \subseteq (plus \cap Settled(k, d, plus)) \cup (plusNext \ plus)
          BY SettledChanges
        <5> QED
          BY <5>1
      <4> QED
        BY <1>4, <1>8, <3>1, <3>3, <4>1
    <3> HIDE DEF plusNext
    <3>4. \A d \in OnTheirWay(k)' :
            d.op = "append" => plusNext \cap Settled(k, d, plusNext) \subseteq Sent(k)'
      BY <1>5, <1>7, <2>1, <3>3
    <3> QED
      BY <1>3, <3>2, <3>4 DEF SetKept, plusNext
  <2>2. CASE ~started
    <3>1. Sent(k) = {} /\ OnTheirWay(k) = {}
      BY <1>1, <2>2, NothingSent DEF CacheKept
    <3>2. Sent(k)' = {} /\ OnTheirWay(k)' = {}
      BY <1>7, <2>2, <3>1
    <3>3. {} \cup plusNext = wanted[k] \ {v} /\ (minus \cup {v}) \cap (wanted[k] \ {v}) = {}
      BY <1>8, <3>1
    <3> QED
      BY <1>3, <3>2, <3>3 DEF SetKept
  <2> QED
    BY <2>1, <2>2
<1>10. AnswersRight(replies[k])'
  BY <1>3, <1>6 DEF Kept
<1>11. \A j \in Keys \ {k} : SameKey(j)
  BY <1>3, <1>7 DEF SameKey
<1> QED
  BY <1>1, <1>7, <1>9, <1>10, <1>11 DEF Kept

LEMMA DeleteKeeps ==
  ASSUME TypeOK, CacheKept, NEW k \in ValueKeys \cup SetKeys, Delete(k)
  PROVE  Kept(k)' /\ \A j \in Keys \ {k} : SameKey(j)
<1> DEFINE c == Call("delete", {}, "none")
<1>1. /\ k \in Keys
      /\ k \in ValueKeys \/ k \in Collections
      /\ k \in Collections <=> k \notin ValueKeys
  BY KindAssumption DEF Keys, Collections
<1>2. c \in Calls /\ c.op = "delete" /\ c.value = {}
  BY DEF Call, Calls
<1>3. /\ Send(k, c) /\ UNCHANGED <<registry, replies>>
      /\ k \in ValueKeys => localstore'[k] = {}
      /\ k \in Collections => localstore_sets'[k] = [plus |-> {}, minus |-> {}]
      /\ \A j \in ValueKeys \ {k} : localstore'[j] = localstore[j]
      /\ \A j \in Collections \ {k} : localstore_sets'[j] = localstore_sets[j]
      /\ wanted'[k] = {} /\ \A j \in Keys \ {k} : wanted'[j] = wanted[j]
  BY <1>1 DEF Delete, TypeOK
<1> HIDE DEF c
<1>4. Kept(k)
  BY <1>1 DEF CacheKept
<1>5. /\ ReadsRight(registry[k], requests[k])'
      /\ \A j \in Keys \ {k} : requests'[j] = requests[j]
      /\ started => Sent(k)' = Applied(Sent(k), c)
      /\ ~started => Sent(k)' = Sent(k)
  BY <1>1, <1>2, <1>3, <1>4, SendEffect DEF Kept
<1>6. Sent(k)' = {}
  <2>1. CASE started
    BY <1>2, <1>5, <2>1 DEF Applied
  <2>2. CASE ~started
    BY <1>1, <1>5, <2>2, NothingSent DEF CacheKept
  <2> QED
    BY <2>1, <2>2
<1>7. k \in ValueKeys => ValueKept(k)'
  BY <1>3, <1>6 DEF ValueKept
<1>8. k \in Collections => SetKept(k)'
  BY <1>3, <1>6 DEF SetKept
<1>9. AnswersRight(replies[k])'
  BY <1>3, <1>4 DEF Kept
<1>10. \A j \in Keys \ {k} : SameKey(j)
  BY <1>3, <1>5 DEF SameKey
<1> QED
  BY <1>5, <1>7, <1>8, <1>9, <1>10 DEF Kept

(* What a read returns, or will.                                           *)
LEMMA LocalPartRight ==
  ASSUME TypeOK, CacheKept, NEW k \in Keys
  PROVE  LET isAnswer == ~started \/ (k \in ValueKeys /\ LocalPart(k) # {}) IN
         /\ isAnswer => LocalPart(k) = wanted[k]
         /\ ~isAnswer => Sent(k) \cup LocalPart(k) = wanted[k]
<1>1. Kept(k) /\ (~started => Sent(k) = {})
  BY NothingSent DEF CacheKept
<1>2. CASE k \in ValueKeys
  <2>1. LocalPart(k) = localstore[k]
    BY <1>2 DEF LocalPart
  <2>2. localstore[k] # {} => localstore[k] = wanted[k]
    BY <1>1, <1>2 DEF Kept, ValueKept
  <2>3. localstore[k] = {} => Sent(k) = wanted[k]
    BY <1>1, <1>2 DEF Kept, ValueKept
  <2> QED
    BY <1>1, <1>2, <2>1, <2>2, <2>3
<1>3. CASE k \notin ValueKeys
  <2>1. LocalPart(k) = localstore_sets[k].plus
    BY <1>3 DEF LocalPart
  <2>2. Sent(k) \cup localstore_sets[k].plus = wanted[k]
    BY <1>1, <1>3, OneKind DEF Kept, SetKept
  <2> QED
    BY <1>1, <1>3, <2>1, <2>2
<1> QED
  BY <1>2, <1>3

LEMMA GetKeeps ==
  ASSUME TypeOK, CacheKept, NEW k \in Keys, Get(k)
  PROVE  Kept(k)' /\ asWanted' /\ \A j \in Keys \ {k} : SameKey(j)
<1> DEFINE local == LocalPart(k)
           isAnswer == ~started \/ (k \in ValueKeys /\ local # {})
           c == [op |-> "get", value |-> local, org |-> "none", wanted |-> wanted[k]]
<1>1. Kept(k) /\ asWanted
  BY DEF CacheKept
<1>2. local \in SUBSET Values
  BY KeyTypes, OneKind DEF LocalPart
<1>3. c \in Calls /\ c.op = "get" /\ c.value = local /\ c.wanted = wanted[k]
  BY <1>2, KeyTypes DEF Calls
<1>4. /\ UNCHANGED <<localstore, localstore_sets, replies, registry, wanted>>
      /\ isAnswer => asWanted' = (local = wanted[k]) /\ UNCHANGED requests
      /\ ~isAnswer => Send(k, c) /\ UNCHANGED asWanted
  BY DEF Get, cache
<1>5. /\ isAnswer => local = wanted[k]
      /\ ~isAnswer => Sent(k) \cup local = wanted[k]
  BY LocalPartRight
<1> HIDE DEF local, c
<1>6. CASE isAnswer
  <2>1. asWanted'
    BY <1>4, <1>5, <1>6
  <2>2. \A j \in Keys : SameKey(j)
    BY <1>4, <1>6 DEF SameKey
  <2> QED
    BY <1>1, <2>1, <2>2, SameKeyKept
<1>7. CASE ~isAnswer
  <2>1. started /\ Send(k, c) /\ asWanted'
    BY <1>1, <1>4, <1>7
  <2>2. Sent(k) \cup c.value = c.wanted
    BY <1>3, <1>5, <1>7
  <2> HIDE DEF isAnswer
  <2>3. /\ ReadsRight(registry[k], requests[k])'
        /\ \A j \in Keys \ {k} : requests'[j] = requests[j]
        /\ Sent(k)' = Applied(Sent(k), c) /\ OnTheirWay(k)' = OnTheirWay(k) \cup {c}
    BY <1>1, <1>3, <1>4, <2>1, <2>2, SendEffect DEF Kept
  <2>4. Sent(k)' = Sent(k)
    BY <1>3, <2>3 DEF Applied
  <2>5. k \in ValueKeys => ValueKept(k)'
    BY <1>1, <1>3, <1>4, <2>3, <2>4 DEF Kept, ValueKept
  <2>6. k \in Collections => SetKept(k)'
    BY <1>1, <1>3, <1>4, <2>3, <2>4 DEF Kept, SetKept
  <2>7. AnswersRight(replies[k])'
    BY <1>1, <1>4 DEF Kept
  <2>8. \A j \in Keys \ {k} : SameKey(j)
    BY <1>4, <2>3 DEF SameKey
  <2> QED
    BY <2>1, <2>3, <2>5, <2>6, <2>7, <2>8 DEF Kept
<1> QED
  BY <1>6, <1>7

-----------------------------------------------------------------------------
(* A flush sends what is missing.                                          *)
LEMMA CallConcatenated ==
  ASSUME NEW held \in SUBSET Values, NEW s \in Seq(Calls), NEW c \in Calls,
         ReadsRight(held, s), c.op # "get"
  PROVE  LET t == s \o <<c>> IN
         /\ t \in Seq(Calls) /\ ReadsRight(held, t)
         /\ HeldAfter(held, t, Len(t)) = Applied(HeldAfter(held, s, Len(s)), c)
<1>1. s \o <<c>> = Append(s, c) /\ Append(s, c) \in Seq(Calls)
  BY AppendIsConcat, AppendProperties
<1> QED
  BY <1>1, CallSent

LEMMA FlushSends ==
  ASSUME TypeOK, NEW k \in Keys, Kept(k)
  PROVE  LET t == requests[k] \o Flushed(k) IN
         /\ HeldAfter(registry[k], t, Len(t)) = wanted[k]
         /\ ReadsRight(registry[k], t)
<1> DEFINE s == requests[k]
           held == registry[k]
<1>1. held \in SUBSET Values /\ s \in Seq(Calls) /\ ReadsRight(held, s)
  BY KeyTypes DEF Kept
<1>2. Sent(k) = HeldAfter(held, s, Len(s))
  BY DEF Sent
<1>3. s \o <<>> = s
  BY <1>1, ConcatEmptySeq
<1> HIDE DEF s, held
<1>4. CASE k \in ValueKeys
  <2> DEFINE c == Call("set", localstore[k], "none")
  <2>1. localstore[k] \in SUBSET Values /\ ValueKept(k)
    BY <1>4, KeyTypes DEF Kept
  <2>2. CASE localstore[k] = {}
    <3>1. s \o Flushed(k) = s
      BY <1>3, <1>4, <2>2 DEF Flushed
    <3>2. Sent(k) = wanted[k]
      BY <2>1, <2>2 DEF ValueKept
    <3> QED
      BY <1>1, <1>2, <3>1, <3>2 DEF s, held
  <2>3. CASE localstore[k] # {}
    <3>1. c \in Calls /\ c.op = "set" /\ c.value = wanted[k]
      BY <2>1, <2>3 DEF Call, Calls, ValueKept
    <3>2. s \o Flushed(k) = s \o <<c>>
      BY <1>4, <2>3 DEF Flushed
    <3> HIDE DEF c
    <3>3. ReadsRight(held, s \o <<c>>)
          /\ HeldAfter(held, s \o <<c>>, Len(s \o <<c>>)) = Applied(HeldAfter(held, s, Len(s)), c)
      BY <1>1, <3>1, CallConcatenated
    <3>4. Applied(HeldAfter(held, s, Len(s)), c) = wanted[k]
      BY <3>1 DEF Applied
    <3> QED
      BY <3>2, <3>3, <3>4 DEF s, held
  <2> QED
    BY <2>2, <2>3
<1>5. CASE k \notin ValueKeys
  <2> DEFINE plus == localstore_sets[k].plus
             minus == localstore_sets[k].minus
             org == IF k \in IndexKeys THEN "live" ELSE "none"
             a == Call("append", plus, org)
             r == Call("remove", minus, org)
             additions == IF plus = {} THEN <<>> ELSE <<a>>
             removals == IF minus = {} THEN <<>> ELSE <<r>>
             u == s \o additions
             t == u \o removals
  <2>1. plus \in SUBSET Values /\ minus \in SUBSET Values /\ SetKept(k)
    BY <1>5, OneKind, KeyTypes DEF Kept
  <2>2. a \in Calls /\ a.op = "append" /\ a.value = plus
    BY <2>1 DEF Call, Calls
  <2>3. r \in Calls /\ r.op = "remove" /\ r.value = minus
    BY <2>1 DEF Call, Calls
  <2>4. additions \in Seq(Calls) /\ removals \in Seq(Calls)
    BY <2>2, <2>3
  <2>5. Flushed(k) = additions \o removals
    BY <1>5 DEF Flushed
  <2>6. s \o Flushed(k) = t
    <3> HIDE DEF additions, removals
    <3>1. (s \o additions) \o removals = s \o (additions \o removals)
      BY <1>1, <2>4, ConcatAssociative
    <3> QED
      BY <2>5, <3>1
  <2> HIDE DEF a, r
  <2>7. /\ u \in Seq(Calls) /\ ReadsRight(held, u)
        /\ HeldAfter(held, u, Len(u)) = HeldAfter(held, s, Len(s)) \cup plus
    <3>1. CASE plus = {}
      BY <1>1, <1>3, <3>1
    <3>2. CASE plus # {}
      <4>1. u = s \o <<a>>
        BY <3>2
      <4>2. /\ s \o <<a>> \in Seq(Calls) /\ ReadsRight(held, s \o <<a>>)
            /\ HeldAfter(held, s \o <<a>>, Len(s \o <<a>>)) = Applied(HeldAfter(held, s, Len(s)), a)
        BY <1>1, <2>2, CallConcatenated
      <4>3. Applied(HeldAfter(held, s, Len(s)), a) = HeldAfter(held, s, Len(s)) \cup plus
        BY <2>2 DEF Applied
      <4> QED
        BY <4>1, <4>2, <4>3
    <3> QED
      BY <3>1, <3>2
  <2> HIDE DEF u
  <2>8. /\ ReadsRight(held, t)
        /\ HeldAfter(held, t, Len(t)) = HeldAfter(held, u, Len(u)) \ minus
    <3>1. CASE minus = {}
      <4>1. t = u
        BY <2>7, <3>1, ConcatEmptySeq
      <4> QED
        BY <2>7, <3>1, <4>1
    <3>2. CASE minus # {}
      <4>1. t = u \o <<r>>
        BY <3>2
      <4>2. /\ ReadsRight(held, u \o <<r>>)
            /\ HeldAfter(held, u \o <<r>>, Len(u \o <<r>>)) = Applied(HeldAfter(held, u, Len(u)), r)
        BY <1>1, <2>3, <2>7, CallConcatenated
      <4>3. Applied(HeldAfter(held, u, Len(u)), r) = HeldAfter(held, u, Len(u)) \ minus
        BY <2>3 DEF Applied
      <4> QED
        BY <4>1, <4>2, <4>3
    <3> QED
      BY <3>1, <3>2
  <2> HIDE DEF t
  <2>9. (HeldAfter(held, s, Len(s)) \cup plus) \ minus = wanted[k]
    BY <1>2, <2>1 DEF SetKept
  <2> QED
    BY <2>6, <2>7, <2>8, <2>9 DEF s, held
<1> QED
  BY <1>4, <1>5

LEMMA FlushKeeps ==
  ASSUME TypeOK, CacheKept, FlushLocaldata, NEW k \in Keys
  PROVE  Kept(k)'
<1> DEFINE t == requests[k] \o Flushed(k)
<1>1. Kept(k)
  BY DEF CacheKept
<1>2. /\ HeldAfter(registry[k], t, Len(t)) = wanted[k]
      /\ ReadsRight(registry[k], t)
  BY <1>1, FlushSends
<1>3. /\ requests'[k] = t
      /\ UNCHANGED <<localstore, localstore_sets, replies, registry, wanted>>
  BY DEF FlushLocaldata, cache
<1> HIDE DEF t
<1>4. Sent(k)' = wanted[k] /\ ReadsRight(registry[k], requests[k])'
  BY <1>2, <1>3 DEF Sent
<1>5. AnswersRight(replies[k])'
  BY <1>1, <1>3 DEF Kept
<1>6. k \in ValueKeys => ValueKept(k)'
  BY <1>1, <1>3, <1>4 DEF Kept, ValueKept
<1>7. k \in Collections => SetKept(k)'
  <2> SUFFICES ASSUME k \in Collections PROVE SetKept(k)'
    OBVIOUS
  <2>1. localstore_sets[k].plus \subseteq wanted[k]
        /\ localstore_sets[k].minus \cap wanted[k] = {}
    BY <1>1 DEF Kept, SetKept
  <2> QED
    BY <1>3, <1>4, <2>1 DEF SetKept
<1> QED
  BY <1>4, <1>5, <1>6, <1>7 DEF Kept

-----------------------------------------------------------------------------
(* The registry handles a call, and its callback is called.                *)
LEMMA HandleKeeps ==
  ASSUME TypeOK, CacheKept, failures = 0, failures' = 0, NEW k \in Keys, Handle(k)
  PROVE  Kept(k)' /\ \A j \in Keys \ {k} : SameKey(j)
<1> DEFINE s == requests[k]
           a == replies[k]
           held == registry[k]
           c == Head(s)
           r == [call |-> c, ok |-> TRUE, value |-> IF c.op = "get" THEN held ELSE {}]
<1>1. Kept(k)
  BY DEF CacheKept
<1>2. held \in SUBSET Values /\ s \in Seq(Calls) /\ s # <<>> /\ a \in Seq(Replies)
  BY KeyTypes DEF Handle
<1>3. c \in Calls
  BY <1>2, HeadTailProperties
<1>4. r \in Replies
  BY <1>2, <1>3 DEF Replies
<1>5. /\ registry' = [registry EXCEPT ![k] = Applied(@, c)]
      /\ replies' = [replies EXCEPT ![k] = Append(@, r)]
      /\ requests' = [requests EXCEPT ![k] = Tail(@)]
      /\ UNCHANGED <<localstore, localstore_sets, wanted>>
  BY DEF Handle, cache
<1>6. /\ registry'[k] = Applied(held, c) /\ replies'[k] = Append(a, r)
      /\ requests'[k] = Tail(s)
      /\ \A j \in Keys \ {k} : /\ registry'[j] = registry[j] /\ replies'[j] = replies[j]
                               /\ requests'[j] = requests[j]
  BY <1>5 DEF TypeOK
<1>7. /\ HeldAfter(Applied(held, c), Tail(s), Len(Tail(s))) = HeldAfter(held, s, Len(s))
      /\ ReadsRight(Applied(held, c), Tail(s))
      /\ CallsOf(s) = CallsOf(Tail(s)) \cup {c}
      /\ c.op = "get" => held \cup c.value = c.wanted
  <2>1. ReadsRight(held, s)
    BY <1>1 DEF Kept
  <2> HIDE DEF s, held
  <2> QED
    BY <1>2, <2>1, CallHandled
<1>8. r.ok /\ r.call = c /\ (r.call.op = "get" => r.value \cup r.call.value = r.call.wanted)
  BY <1>7
<1> HIDE DEF r
<1>9. AnswersRight(Append(a, r)) /\ AnsweredCalls(Append(a, r)) = AnsweredCalls(a) \cup {c}
  <2>1. AnswersRight(a)
    BY <1>1 DEF Kept
  <2> HIDE DEF a, c
  <2> QED
    BY <1>2, <1>4, <1>8, <2>1, AnswerSent
<1>10. Sent(k)' = Sent(k) /\ OnTheirWay(k)' = OnTheirWay(k)
  <2> HIDE DEF c
  <2> QED
    BY <1>6, <1>7, <1>9 DEF Sent, OnTheirWay
<1>11. ReadsRight(registry[k], requests[k])' /\ AnswersRight(replies[k])'
  <2> HIDE DEF c
  <2> QED
    BY <1>6, <1>7, <1>9
<1>12. k \in ValueKeys => ValueKept(k)'
  BY <1>1, <1>5, <1>10 DEF Kept, ValueKept
<1>13. k \in Collections => SetKept(k)'
  BY <1>1, <1>5, <1>10 DEF Kept, SetKept
<1>14. \A j \in Keys \ {k} : SameKey(j)
  BY <1>5, <1>6 DEF SameKey
<1> QED
  BY <1>11, <1>12, <1>13, <1>14 DEF Kept

LEMMA OnTheirWayType ==
  ASSUME TypeOK, NEW k \in Keys, NEW c \in OnTheirWay(k)
  PROVE  c \in Calls
<1>1. requests[k] \in Seq(Calls) /\ replies[k] \in Seq(Replies)
  BY KeyTypes
<1>2. \A i \in 1..Len(requests[k]) : requests[k][i] \in Calls
  BY <1>1, ElementOfSeq
<1>3. \A i \in 1..Len(replies[k]) : replies[k][i] \in Replies
  BY <1>1, ElementOfSeq
<1> QED
  BY <1>2, <1>3 DEF OnTheirWay, CallsOf, AnsweredCalls, Replies

(* What a callback does to its key, with the reply at the head of those of *)
(* the key.                                                                *)
LEMMA CallbackEffect ==
  ASSUME TypeOK, NEW k \in Keys, Kept(k), Callback(k)
  PROVE  LET reply == Head(replies[k]) IN
         /\ reply.ok /\ reply.call \in OnTheirWay(k)
         /\ reply.call.op = "get" => reply.value \cup reply.call.value = reply.call.wanted
         /\ AnswersRight(replies[k])' /\ ReadsRight(registry[k], requests[k])'
         /\ Sent(k)' = Sent(k)
         /\ \A d \in OnTheirWay(k)' : \E c \in OnTheirWay(k) : d = Unshared(k, c)
         /\ \A j \in Keys \ {k} : requests'[j] = requests[j] /\ replies'[j] = replies[j]
<1> DEFINE s == requests[k]
           a == replies[k]
           held == registry[k]
           t == UnsharedRequests(k, s)
           b == UnsharedReplies(k, Tail(a))
           reply == Head(a)
<1>1. held \in SUBSET Values /\ s \in Seq(Calls) /\ a \in Seq(Replies) /\ a # <<>>
  BY KeyTypes DEF Callback
<1>2. ReadsRight(held, s) /\ AnswersRight(a)
  BY DEF Kept
<1>3. /\ replies' = [replies EXCEPT ![k] = b] /\ requests' = [requests EXCEPT ![k] = t]
      /\ UNCHANGED registry
  BY DEF Callback
<1> HIDE DEF t, b
<1>4. /\ replies'[k] = b /\ requests'[k] = t
      /\ \A j \in Keys \ {k} : requests'[j] = requests[j] /\ replies'[j] = replies[j]
  BY <1>3 DEF TypeOK
<1> HIDE DEF s, a, held, reply
<1>5. /\ HeldAfter(held, t, Len(t)) = HeldAfter(held, s, Len(s)) /\ ReadsRight(held, t)
      /\ \A d \in CallsOf(t) : \E c \in CallsOf(s) : d = Unshared(k, c)
  <2>1. PICK x, h : x = s /\ h = held
    OBVIOUS
  <2> DEFINE u == UnsharedRequests(k, x)
  <2>2. h \in SUBSET Values /\ x \in Seq(Calls) /\ ReadsRight(h, x)
    BY <1>1, <1>2, <2>1
  <2>3. /\ HeldAfter(h, u, Len(u)) = HeldAfter(h, x, Len(x))
        /\ ReadsRight(h, u)
        /\ \A d \in CallsOf(u) : \E c \in CallsOf(x) : d = Unshared(k, c)
    BY <2>2, CallsUnshared
  <2>4. u = t
    BY <2>1 DEF t
  <2> HIDE DEF u
  <2> QED
    BY <2>1, <2>3, <2>4
<1>6. /\ reply.ok /\ reply.call \in AnsweredCalls(a)
      /\ reply.call.op = "get" => reply.value \cup reply.call.value = reply.call.wanted
      /\ AnswersRight(b)
      /\ \A d \in AnsweredCalls(b) : \E c \in AnsweredCalls(a) : d = Unshared(k, c)
  BY <1>1, <1>2, AnswerTaken DEF b, reply
<1>7. OnTheirWay(k) = CallsOf(s) \cup AnsweredCalls(a)
  BY DEF OnTheirWay, s, a
<1>8. OnTheirWay(k)' = CallsOf(t) \cup AnsweredCalls(b)
  BY <1>4 DEF OnTheirWay
<1>9. \A d \in OnTheirWay(k)' : \E c \in OnTheirWay(k) : d = Unshared(k, c)
  BY <1>5, <1>6, <1>7, <1>8
<1>10. Sent(k)' = Sent(k) /\ ReadsRight(registry[k], requests[k])' /\ AnswersRight(replies[k])'
  BY <1>3, <1>4, <1>5, <1>6 DEF Sent, s, held
<1> QED
  BY <1>4, <1>6, <1>7, <1>9, <1>10 DEF reply, a

LEMMA CallbackKeepsValue ==
  ASSUME TypeOK, NEW k \in ValueKeys, Kept(k), Callback(k)
  PROVE  ValueKept(k)'
<1> DEFINE reply == Head(replies[k])
<1>1. k \in Keys /\ k \notin IndexKeys
  BY KindAssumption DEF Keys, Collections
<1>2. /\ reply.ok /\ reply.call \in OnTheirWay(k) /\ Sent(k)' = Sent(k)
      /\ \A d \in OnTheirWay(k)' : \E c \in OnTheirWay(k) : d = Unshared(k, c)
  BY <1>1, CallbackEffect
<1>3. \A c : Unshared(k, c) = c
  BY <1>1 DEF Unshared
<1>4. OnTheirWay(k)' \subseteq OnTheirWay(k)
  BY <1>2, <1>3
<1>5. UNCHANGED wanted
  BY DEF Callback
<1>6. ValueKept(k)
  BY DEF Kept
<1>7. CASE reply.call.op = "set"
  <2>1. localstore' = [localstore EXCEPT ![k] = {}]
    BY <1>2, <1>7 DEF Callback, SetCb
  <2>2. localstore'[k] = {}
    BY <2>1 DEF TypeOK
  <2>3. Sent(k) = wanted[k]
    BY <1>2, <1>6, <1>7 DEF ValueKept
  <2> QED
    BY <1>2, <1>5, <2>2, <2>3 DEF ValueKept
<1>8. CASE reply.call.op # "set"
  <2>1. UNCHANGED localstore
    BY <1>8 DEF Callback, cache
  <2> QED
    BY <1>2, <1>4, <1>5, <1>6, <2>1 DEF ValueKept
<1> QED
  BY <1>7, <1>8

LEMMA CallbackKeepsSet ==
  ASSUME TypeOK, NEW k \in Collections, Kept(k), Callback(k)
  PROVE  SetKept(k)'
<1> DEFINE reply == Head(replies[k])
           plus == localstore_sets[k].plus
           minus == localstore_sets[k].minus
           plusNext == localstore_sets'[k].plus
           minusNext == localstore_sets'[k].minus
<1>1. k \in Keys
  BY DEF Keys, Collections
<1>2. /\ reply.ok /\ reply.call \in OnTheirWay(k) /\ Sent(k)' = Sent(k)
      /\ \A d \in OnTheirWay(k)' : \E c \in OnTheirWay(k) : d = Unshared(k, c)
  BY <1>1, CallbackEffect
<1>3. UNCHANGED wanted
  BY DEF Callback
<1>4. /\ Sent(k) \cup plus = wanted[k] /\ minus \cap wanted[k] = {}
      /\ \A c \in OnTheirWay(k) : c.op = "append" => plus \cap Settled(k, c, plus) \subseteq Sent(k)
  BY DEF Kept, SetKept
<1>5. Confirmed(k, reply, plus) = Settled(k, reply.call, plus)
  BY <1>2 DEF Confirmed, Settled
<1>6. /\ plusNext \subseteq plus /\ plus \ plusNext \subseteq Sent(k)
      /\ minusNext \subseteq minus
  <2>1. CASE reply.call.op = "append"
    <3>1. localstore_sets' = [localstore_sets EXCEPT ![k].plus = @ \ Confirmed(k, reply, @)]
      BY <2>1 DEF Callback, AppendCb
    <3>2. plusNext = plus \ Confirmed(k, reply, plus) /\ minusNext = minus
      BY <3>1 DEF TypeOK
    <3>3. plus \cap Settled(k, reply.call, plus) \subseteq Sent(k)
      BY <1>2, <1>4, <2>1
    <3> HIDE DEF plusNext, minusNext, plus, minus, reply
    <3> QED
      BY <1>5, <3>2, <3>3
  <2>2. CASE reply.call.op = "remove"
    <3>1. localstore_sets' = [localstore_sets EXCEPT ![k].minus = @ \ Confirmed(k, reply, @)]
      BY <2>2 DEF Callback, RemoveCb
    <3>2. plusNext = plus /\ minusNext = minus \ Confirmed(k, reply, minus)
      BY <3>1 DEF TypeOK
    <3> QED
      BY <3>2
  <2>3. CASE reply.call.op \notin {"append", "remove"}
    <3>1. UNCHANGED localstore_sets
      BY <2>3 DEF Callback, cache
    <3> QED
      BY <3>1
  <2> QED
    BY <2>1, <2>2, <2>3
<1> HIDE DEF plusNext, minusNext, plus, minus, reply
<1>7. Sent(k) \cup plusNext = wanted[k] /\ minusNext \cap wanted[k] = {}
  BY <1>4, <1>6
<1>8. ASSUME NEW d \in OnTheirWay(k)', d.op = "append"
      PROVE  plusNext \cap Settled(k, d, plusNext) \subseteq Sent(k)
  <2>1. PICK c \in OnTheirWay(k) : d = Unshared(k, c)
    BY <1>2
  <2>2. c \in Calls
    BY <1>1, OnTheirWayType
  <2>3. CASE d = c
    <3>1. plus \cap Settled(k, d, plus) \subseteq Sent(k)
      BY <1>4, <1>8, <2>3
    <3>2. plusNext \cap Settled(k, d, plusNext)
            \subseteq (plus \cap Settled(k, d, plus)) \cup (plusNext \ plus)
      BY SettledChanges
    <3> QED
      BY <1>6, <3>1, <3>2
  <2>4. CASE d # c
    <3>1. d.org = "dead"
      BY <2>1, <2>2, <2>4 DEF Unshared, Calls
    <3> QED
      BY <3>1 DEF Settled, Confirmed
  <2> QED
    BY <2>3, <2>4
<1> QED
  BY <1>2, <1>3, <1>7, <1>8 DEF SetKept, plusNext, minusNext

LEMMA CallbackKeeps ==
  ASSUME TypeOK, CacheKept, NEW k \in Keys, Callback(k)
  PROVE  Kept(k)' /\ asWanted' /\ \A j \in Keys \ {k} : SameKey(j)
<1> DEFINE reply == Head(replies[k])
<1>1. Kept(k) /\ asWanted
  BY DEF CacheKept
<1>2. /\ reply.call.op = "get" => reply.value \cup reply.call.value = reply.call.wanted
      /\ AnswersRight(replies[k])' /\ ReadsRight(registry[k], requests[k])'
      /\ \A j \in Keys \ {k} : requests'[j] = requests[j] /\ replies'[j] = replies[j]
  BY <1>1, CallbackEffect
<1>3. asWanted'
  BY <1>1, <1>2 DEF Callback
<1>4. Kept(k)'
  BY <1>1, <1>2, CallbackKeepsValue, CallbackKeepsSet DEF Kept
<1>5. /\ \A j \in ValueKeys \ {k} : localstore'[j] = localstore[j]
      /\ \A j \in Collections \ {k} : localstore_sets'[j] = localstore_sets[j]
  <2>1. CASE reply.call.op = "set"
    BY <2>1 DEF Callback, SetCb, TypeOK
  <2>2. CASE reply.call.op = "append"
    BY <2>2 DEF Callback, AppendCb, TypeOK
  <2>3. CASE reply.call.op = "remove"
    BY <2>3 DEF Callback, RemoveCb, TypeOK
  <2>4. CASE reply.call.op \notin {"set", "append", "remove"}
    BY <2>4 DEF Callback, cache
  <2> QED
    BY <2>1, <2>2, <2>3, <2>4
<1>6. UNCHANGED <<registry, wanted>>
  BY DEF Callback
<1>7. \A j \in Keys \ {k} : SameKey(j)
  BY <1>2, <1>5, <1>6 DEF SameKey
<1> QED
  BY <1>3, <1>4, <1>7

-----------------------------------------------------------------------------
(* The invariant holds at the start and is kept by every step.             *)
LEMMA CacheInit ==
  ASSUME TypeOK, Init
  PROVE  CacheInv
<1> SUFFICES ASSUME NEW k \in Keys PROVE Kept(k)
  BY DEF Init, CacheInv, CacheKept, Unstarted
<1>1. Unstarted /\ wanted[k] = {}
  BY DEF Init, Unstarted
<1>2. Sent(k) = {} /\ OnTheirWay(k) = {}
  BY <1>1, NothingSent
<1>3. k \in ValueKeys => ValueKept(k)
  BY <1>1, <1>2 DEF ValueKept, Init
<1>4. k \in Collections => SetKept(k)
  BY <1>1, <1>2 DEF SetKept, Init
<1>5. ReadsRight(registry[k], requests[k]) /\ AnswersRight(replies[k])
  <2>1. Len(requests[k]) = 0 /\ Len(replies[k]) = 0 /\ 1..0 = {}
    BY <1>1 DEF Unstarted
  <2> QED
    BY <2>1 DEF ReadsRight, AnswersRight
<1> QED
  BY <1>3, <1>4, <1>5 DEF Kept

(* Calls and answers are on their way only once the plugin has started.    *)
LEMMA StartedFirst ==
  ASSUME CacheKept,
         FlushLocaldata \/ \E k \in Keys : Handle(k) \/ Callback(k)
  PROVE  started
BY DEF CacheKept, Unstarted, FlushLocaldata, Handle, Callback

LEMMA StartedStays ==
  ASSUME Next, ~started'
  PROVE  ~started
<1>1. ASSUME NEW k, NEW v, Set(k, v) \/ Add(k, v) \/ Remove(k, v) PROVE started' = started
  BY <1>1 DEF Set, Add, Remove
<1>2. ASSUME NEW k, Delete(k) \/ Get(k) PROVE started' = started
  BY <1>2 DEF Delete, Get
<1>3. ASSUME NEW k, Handle(k) \/ Callback(k) PROVE started' = started
  BY <1>3 DEF Handle, Callback
<1>4. CASE StartedCb
  BY <1>4 DEF StartedCb
<1>5. CASE FlushLocaldata
  BY <1>5 DEF FlushLocaldata
<1> QED
  BY <1>1, <1>2, <1>3, <1>4, <1>5 DEF Next

LEMMA FailuresCounted ==
  ASSUME TypeOK, [Next]_vars, failures' = 0
  PROVE  failures = 0
<1>1. ASSUME NEW k, NEW v, Set(k, v) \/ Add(k, v) \/ Remove(k, v) PROVE failures' = failures
  BY <1>1 DEF Set, Add, Remove
<1>2. ASSUME NEW k, Delete(k) \/ Get(k) PROVE failures' = failures
  BY <1>2 DEF Delete, Get
<1>3. ASSUME NEW k, Callback(k) PROVE failures' = failures
  BY <1>3 DEF Callback
<1>4. ASSUME NEW k, Handle(k) PROVE failures = 0
  <2>1. failures' = failures \/ failures' = failures + 1
    BY <1>4 DEF Handle
  <2> QED
    BY <2>1 DEF TypeOK
<1>5. CASE StartedCb
  BY <1>5 DEF StartedCb
<1>6. CASE FlushLocaldata
  BY <1>6 DEF FlushLocaldata
<1>7. CASE UNCHANGED vars
  BY <1>7 DEF vars
<1> QED
  BY <1>1, <1>2, <1>3, <1>4, <1>5, <1>6, <1>7 DEF Next

LEMMA UnstartedKept ==
  ASSUME TypeOK, CacheKept, Next, ~started'
  PROVE  Unstarted'
<1>1. ~started /\ Unstarted
  BY StartedStays DEF CacheKept
<1>2. CASE \E k \in ValueKeys, v \in Values : Set(k, v)
  BY <1>1, <1>2 DEF Set, Send, Unstarted
<1>3. CASE \E k \in Collections, v \in Values : Add(k, v) \/ Remove(k, v)
  BY <1>1, <1>3 DEF Add, Remove, Send, Unstarted
<1>4. CASE \E k \in ValueKeys \cup SetKeys : Delete(k)
  BY <1>1, <1>4 DEF Delete, Send, Unstarted
<1>5. CASE \E k \in Keys : Get(k)
  BY <1>1, <1>5 DEF Get, Send, Unstarted
<1>6. CASE StartedCb
  BY <1>6 DEF StartedCb
<1>7. CASE FlushLocaldata \/ \E k \in Keys : Handle(k) \/ Callback(k)
  BY <1>1, <1>7, StartedFirst
<1> QED
  BY <1>2, <1>3, <1>4, <1>5, <1>6, <1>7 DEF Next

LEMMA OthersKept ==
  ASSUME CacheKept, NEW k \in Keys, Kept(k)', \A j \in Keys \ {k} : SameKey(j)
  PROVE  \A j \in Keys : Kept(j)'
<1> SUFFICES ASSUME NEW j \in Keys, j # k PROVE Kept(j)'
  OBVIOUS
<1> QED
  BY SameKeyKept DEF CacheKept

LEMMA CacheStep ==
  ASSUME TypeOK, CacheInv, [Next]_vars
  PROVE  CacheInv'
<1> SUFFICES ASSUME failures' = 0 PROVE CacheKept'
  BY DEF CacheInv
<1>1. failures = 0
  BY FailuresCounted
<1>2. CacheKept
  BY <1>1 DEF CacheInv
<1>3. CASE Next
  <2>0. ValueKeys \subseteq Keys /\ Collections \subseteq Keys /\ SetKeys \subseteq Keys
    BY DEF Keys, Collections
  <2>a. ~started' => Unstarted'
    BY <1>2, <1>3, UnstartedKept
  <2>b. asWanted
    BY <1>2 DEF CacheKept
  <2>1. ASSUME NEW k \in ValueKeys, NEW v \in Values, Set(k, v) PROVE CacheKept'
    <3>1. \A j \in Keys : Kept(j)'
      BY <1>2, <2>0, <2>1, SetKeeps, OthersKept
    <3> QED
      BY <2>a, <2>b, <2>1, <3>1 DEF CacheKept, Set
  <2>2. ASSUME NEW k \in Collections, NEW v \in Values, Add(k, v) PROVE CacheKept'
    <3>1. \A j \in Keys : Kept(j)'
      BY <1>2, <2>0, <2>2, AddKeeps, OthersKept
    <3> QED
      BY <2>a, <2>b, <2>2, <3>1 DEF CacheKept, Add
  <2>3. ASSUME NEW k \in Collections, NEW v \in Values, Remove(k, v) PROVE CacheKept'
    <3>1. \A j \in Keys : Kept(j)'
      BY <1>2, <2>0, <2>3, RemoveKeeps, OthersKept
    <3> QED
      BY <2>a, <2>b, <2>3, <3>1 DEF CacheKept, Remove
  <2>4. ASSUME NEW k \in ValueKeys \cup SetKeys, Delete(k) PROVE CacheKept'
    <3>1. \A j \in Keys : Kept(j)'
      BY <1>2, <2>0, <2>4, DeleteKeeps, OthersKept
    <3> QED
      BY <2>a, <2>b, <2>4, <3>1 DEF CacheKept, Delete
  <2>5. ASSUME NEW k \in Keys, Get(k) PROVE CacheKept'
    <3>1. asWanted' /\ \A j \in Keys : Kept(j)'
      BY <1>2, <2>5, GetKeeps, OthersKept
    <3> QED
      BY <2>a, <3>1 DEF CacheKept
  <2>6. ASSUME NEW k \in Keys, Handle(k) PROVE CacheKept'
    <3>1. \A j \in Keys : Kept(j)'
      BY <1>1, <1>2, <2>6, HandleKeeps, OthersKept
    <3> QED
      BY <2>a, <2>b, <2>6, <3>1 DEF CacheKept, Handle
  <2>7. ASSUME NEW k \in Keys, Callback(k) PROVE CacheKept'
    <3>1. asWanted' /\ \A j \in Keys : Kept(j)'
      BY <1>2, <2>7, CallbackKeeps, OthersKept
    <3> QED
      BY <2>a, <3>1 DEF CacheKept
  <2>8. CASE StartedCb
    <3>1. \A j \in Keys : SameKey(j)
      BY <2>8 DEF StartedCb, SameKey, cache
    <3>2. \A j \in Keys : Kept(j)'
      BY <1>2, <3>1, SameKeyKept DEF CacheKept
    <3> QED
      BY <2>b, <2>8, <3>2 DEF CacheKept, StartedCb
  <2>9. CASE FlushLocaldata
    <3>1. \A j \in Keys : Kept(j)'
      BY <1>2, <2>9, FlushKeeps
    <3> QED
      BY <2>a, <2>b, <2>9, <3>1 DEF CacheKept, FlushLocaldata
  <2> QED
    BY <1>3, <2>1, <2>2, <2>3, <2>4, <2>5, <2>6, <2>7, <2>8, <2>9 DEF Next
<1>4. CASE UNCHANGED vars
  <2>1. \A j \in Keys : SameKey(j)
    BY <1>4 DEF SameKey, vars, cache
  <2>2. \A j \in Keys : Kept(j)'
    BY <1>2, <2>1, SameKeyKept DEF CacheKept
  <2>3. UNCHANGED <<started, flush_delayedcall, requests, replies, registry, asWanted>>
    BY <1>4 DEF vars
  <2> QED
    BY <1>2, <2>2, <2>3 DEF CacheKept, Unstarted
<1> QED
  BY <1>3, <1>4

LEMMA CacheHolds == Spec => []CacheInv
<1>1. TypeOK /\ Init => CacheInv
  BY CacheInit
<1>2. TypeOK /\ CacheInv /\ [Next]_vars => CacheInv'
  BY CacheStep
<1> QED
  BY <1>1, <1>2, StorageTypeCorrect, PTL DEF Spec

(* For any keys and values and any number of calls, as long as none fails: *)
(* with the calls on their way and what the next flush would send, the     *)
(* registry will hold exactly what the runtime asked for.                  *)
THEOREM CacheForgetsNothing == Spec => []NoChangeForgotten
<1>1. TypeOK /\ CacheInv => NoChangeForgotten
  <2> SUFFICES ASSUME TypeOK, CacheKept, NEW k \in Keys PROVE Outcome(k) = wanted[k]
    BY DEF CacheInv, NoChangeForgotten
  <2>1. Kept(k)
    BY DEF CacheKept
  <2> QED
    BY <2>1, FlushSends DEF Outcome
<1> QED
  BY <1>1, StorageTypeCorrect, CacheHolds, PTL

(* For any keys and values and any number of calls, as long as none fails: *)
(* a read is answered with what the runtime wanted the key to hold when it *)
(* asked, from the local store, the registry or both.                      *)
THEOREM OwnWritesAreRead == Spec => []ReadsOwnWrites
<1>1. CacheInv => ReadsOwnWrites
  BY DEF CacheInv, CacheKept, ReadsOwnWrites
<1> QED
  BY <1>1, CacheHolds, PTL
=============================================================================
