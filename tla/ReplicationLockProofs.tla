------------------------- MODULE ReplicationLockProofs -------------------------
(* What TLAPS proves about ReplicationLock, for any number of replications *)
(* connected in any way, and links that may be replaced.                   *)
EXTENDS ReplicationLock, SequenceTheorems, WellFoundedInduction, TLAPS

(* Taking a message from a link and putting others on links keeps the      *)
(* network one of known messages.                                          *)
NetType == [Link -> Seq(Messages)]

LEMMA TailType ==
  ASSUME NEW n \in NetType, NEW l \in Link, n[l] # <<>>
  PROVE  [n EXCEPT ![l] = Tail(@)] \in NetType
<1>1. Tail(n[l]) \in Seq(Messages)
  BY HeadTailProperties DEF NetType
<1> QED
  BY <1>1 DEF NetType

LEMMA AppendType ==
  ASSUME NEW s \in Seq(Messages), NEW m \in Messages
  PROVE  Append(s, m) \in Seq(Messages)
BY AppendProperties

LEMMA SentType ==
  ASSUME NEW n \in NetType, NEW r, NEW R, NEW m \in Messages
  PROVE  Sent(n, r, R, m) \in NetType
<1>1. \A l \in Link : n[l] \in Seq(Messages) /\ Append(n[l], m) \in Seq(Messages)
  BY AppendType DEF NetType
<1> QED
  BY <1>1 DEF Sent, NetType

LEMMA AnsweredType ==
  ASSUME net \in NetType, NEW r \in Replications, NEW p \in Replications,
         <<p, r>> \in Link, net[<<p, r>>] # <<>>, NEW m \in Messages
  PROVE  Answered(r, p, m) \in NetType
<1> DEFINE taken == [net EXCEPT ![<<p, r>>] = Tail(@)]
<1>1. taken \in NetType
  BY TailType
<1>2. p # r /\ <<r, p>> \in Link /\ <<r, p>> # <<p, r>>
  BY DEF Link
<1>3. Append(net[<<r, p>>], m) \in Seq(Messages)
  BY <1>2, AppendType DEF NetType
<1>4. Answered(r, p, m) = [taken EXCEPT ![<<r, p>>] = Append(net[<<r, p>>], m)]
  BY <1>2 DEF Answered, NetType
<1> QED
  BY <1>1, <1>3, <1>4 DEF NetType

(* Every variable keeps its type, and a callback waits exactly as long as  *)
(* some lock is asked for, whatever the order of the messages.             *)
THEOREM LockTypeCorrect == Spec => []TypeOK
<1> USE DEF NetType
<1>1. Init => TypeOK
  <2> SUFFICES ASSUME Init PROVE TypeOK
    OBVIOUS
  <2>1. net \in [Link -> Seq(Messages)]
    BY DEF Init
  <2> QED
    BY <2>1 DEF Init, TypeOK
<1>2. TypeOK /\ [Next]_vars => TypeOK'
  <2> SUFFICES ASSUME TypeOK, [Next]_vars PROVE TypeOK'
    OBVIOUS
  <2> USE DEF TypeOK
  <2>0. \A r \in Replications : peers[r] \subseteq Replications
    BY DeploymentAssumption
  <2>1. ASSUME NEW r \in Replications, Lock(r)
        PROVE  TypeOK'
    <3>1. /\ UNCHANGED <<peers, given, acquired, overtakes>>
          /\ started' \in Nat
          /\ ahead' \in [Replications -> SUBSET Replications]
          /\ phase[r] = "ready" /\ queued[r] = {}
      BY <2>0, <2>1 DEF Lock
    <3>2. CASE peers[r] = {}
      <4>1. /\ phase' = [phase EXCEPT ![r] = "replicating"]
            /\ UNCHANGED <<queued, net>>
        BY <2>1, <3>2 DEF Lock
      <4> QED
        BY <3>1, <4>1
    <3>3. CASE peers[r] # {}
      <4>1. /\ phase' = [phase EXCEPT ![r] = "locking"]
            /\ queued' = [queued EXCEPT ![r] = peers[r]]
            /\ net' = Sent(net, r, ToAsk(peers[r], acquired[r], given[r]), "lock")
        BY <2>1, <3>3 DEF Lock
      <4>2. net' \in NetType
        BY <4>1, SentType DEF Messages
      <4>3. /\ phase' \in [Replications -> {"ready", "locking", "replicating"}]
            /\ queued' \in [Replications -> SUBSET Replications]
        BY <2>0, <4>1
      <4>4. \A q \in Replications : phase'[q] = "locking" <=> queued'[q] # {}
        BY <3>3, <4>1
      <4> QED
        BY <3>1, <4>2, <4>3, <4>4
    <3> QED
      BY <3>2, <3>3
  <2>2. ASSUME NEW r \in Replications, Replicated(r)
        PROVE  TypeOK'
    <3>1. net' \in NetType
      BY <2>2, SentType DEF Replicated, Messages
    <3> QED
      BY <2>2, <3>1 DEF Replicated
  <2>3. ASSUME NEW l \in Link, Receive(l[2], l[1])
        PROVE  TypeOK'
    <3>1. PICK r \in Replications, p \in Replications :
            r # p /\ l = <<p, r>> /\ Receive(r, p)
      BY <2>3 DEF Link
    <3>2. <<p, r>> \in Link
      BY <3>1 DEF Link
    <3>3. CASE TryLock(r, p)
      <4>1. UNCHANGED <<peers, phase, acquired, queued, ahead, started, overtakes>>
        BY <3>3 DEF TryLock
      <4>2. PICK m \in Messages : net' = Answered(r, p, m)
        BY <3>3 DEF TryLock, Messages
      <4>3. net' \in NetType
        BY <3>2, <3>3, <4>2, AnsweredType DEF TryLock, IsNext
      <4>4. given' \in [Replications -> SUBSET Replications]
        <5>1. given' = given \/ given' = [given EXCEPT ![r] = @ \cup {p}]
          BY <3>3 DEF TryLock
        <5>2. [given EXCEPT ![r] = @ \cup {p}] \in [Replications -> SUBSET Replications]
          OBVIOUS
        <5> QED
          BY <5>1, <5>2
      <4> QED
        BY <4>1, <4>3, <4>4
    <3>4. CASE Granted(r, p)
      <4>1. net' \in NetType
        BY <3>2, <3>4, TailType DEF Granted, IsNext
      <4>2. queued' \in [Replications -> SUBSET Replications]
        BY <3>4 DEF Granted
      <4>3. phase' \in [Replications -> {"ready", "locking", "replicating"}]
        <5>1. phase' = phase \/ \E v \in {"ready", "locking", "replicating"} :
                                  phase' = [phase EXCEPT ![r] = v]
          BY <3>4 DEF Granted
        <5> QED
          BY <5>1
      <4>4. ASSUME NEW q \in Replications PROVE phase'[q] = "locking" <=> queued'[q] # {}
        <5>1. CASE q # r
          <6>1. phase'[q] = phase[q] /\ queued'[q] = queued[q]
            BY <3>4, <5>1 DEF Granted
          <6> QED
            BY <6>1
        <5>2. CASE q = r /\ queued[r] = {p}
          <6>1. phase'[r] = "replicating" /\ queued'[r] = {}
            BY <3>4, <5>2 DEF Granted
          <6> QED
            BY <5>2, <6>1
        <5>3. CASE q = r /\ queued[r] # {p}
          <6>1. phase'[r] = phase[r] /\ queued'[r] = queued[r] \ {p}
            BY <3>4, <5>3 DEF Granted
          <6>2. queued[r] \ {p} # {} <=> queued[r] # {}
            BY <5>3
          <6> QED
            BY <5>3, <6>1, <6>2
        <5> QED
          BY <5>1, <5>2, <5>3
      <4> QED
        BY <3>4, <4>1, <4>2, <4>3, <4>4, ZenonT(30) DEF Granted
    <3>5. CASE Refused(r, p)
      <4>1. net' \in NetType
        BY <3>2, <3>5, TailType DEF Refused, IsNext
      <4> QED
        BY <3>5, <4>1 DEF Refused
    <3>6. CASE Release(r, p)
      <4>1. Answered(r, p, "release OK") \in NetType
        BY <3>2, <3>6, AnsweredType DEF Release, IsNext, Messages
      <4>2. net' \in NetType
        BY <3>6, <4>1, SentType DEF Release, Messages
      <4> QED
        BY <3>6, <4>2 DEF Release
    <3>7. CASE Released(r, p)
      <4>1. [net EXCEPT ![<<p, r>>] = Tail(@)] \in NetType
        BY <3>2, <3>7, TailType DEF Released, IsNext
      <4>2. net' \in NetType
        BY <3>7, <4>1, SentType DEF Released, Messages
      <4> QED
        BY <3>7, <4>2 DEF Released
    <3> QED
      BY <3>1, <3>3, <3>4, <3>5, <3>6, <3>7 DEF Receive
  <2>4. ASSUME NEW l \in Link, Overtake(l)
        PROVE  TypeOK'
    <3>1. PICK i \in 1 .. Len(net[l]) - 1 :
            net' = [net EXCEPT ![l] = [@ EXCEPT ![i] = net[l][i + 1], ![i + 1] = net[l][i]]]
      BY <2>4 DEF Overtake
    <3>2. net[l] \in Seq(Messages)
      OBVIOUS
    <3>3. [net[l] EXCEPT ![i] = net[l][i + 1], ![i + 1] = net[l][i]] \in Seq(Messages)
      BY <3>2
    <3>4. net' \in NetType
      BY <3>1, <3>3
    <3> QED
      BY <2>4, <3>4, LockBoundAssumption DEF Overtake
  <2>5. CASE UNCHANGED vars
    BY <2>5 DEF vars
  <2> QED
    BY <2>1, <2>2, <2>3, <2>4, <2>5 DEF Next
<1> QED
  BY <1>1, <1>2, PTL DEF Spec
-----------------------------------------------------------------------------
(* What is on a link: a message of M; no message of N behind one of M.     *)
Has(s, M) == \E i \in 1 .. Len(s) : s[i] \in M

NoneAfter(s, M, N) ==
  \A i, j \in 1 .. Len(s) : i < j /\ s[i] \in M => s[j] \notin N

Asks == {"lock"}
Returns == {"release"}
Grants == {"lock OK"}
LockAnswers == {"lock OK", "lock UNAVAILABLE"}
ReturnAnswers == {"release OK"}

LEMMA HasAppend ==
  ASSUME NEW s \in Seq(Messages), NEW m \in Messages, NEW M
  PROVE  Has(Append(s, m), M) <=> Has(s, M) \/ m \in M
<1> DEFINE u == Append(s, m)
<1>1. /\ Len(s) \in Nat /\ Len(u) = Len(s) + 1
      /\ \A i \in 1 .. Len(s) : u[i] = s[i]
      /\ u[Len(s) + 1] = m
  BY AppendProperties, LenProperties
<1> HIDE DEF u
<1>2. 1 .. Len(u) = 1 .. Len(s) \cup {Len(s) + 1}
  BY <1>1
<1> QED
  BY <1>1, <1>2 DEF Has, u

LEMMA NoneAfterAppend ==
  ASSUME NEW s \in Seq(Messages), NEW m \in Messages, NEW M, NEW N
  PROVE  NoneAfter(Append(s, m), M, N) <=>
           NoneAfter(s, M, N) /\ (m \in N => ~ Has(s, M))
<1> DEFINE u == Append(s, m)
<1>1. /\ Len(s) \in Nat /\ Len(u) = Len(s) + 1
      /\ \A i \in 1 .. Len(s) : u[i] = s[i]
      /\ u[Len(s) + 1] = m
  BY AppendProperties, LenProperties
<1> HIDE DEF u
<1>2. 1 .. Len(u) = 1 .. Len(s) \cup {Len(s) + 1}
  BY <1>1
<1>3. ASSUME NoneAfter(u, M, N) PROVE NoneAfter(s, M, N) /\ (m \in N => ~ Has(s, M))
  <2>1. NoneAfter(s, M, N)
    BY <1>1, <1>2, <1>3 DEF NoneAfter
  <2>2. ASSUME m \in N, NEW i \in 1 .. Len(s), s[i] \in M PROVE FALSE
    BY <1>1, <1>2, <1>3, <2>2 DEF NoneAfter
  <2> QED
    BY <2>1, <2>2 DEF Has
<1>4. ASSUME NoneAfter(s, M, N), m \in N => ~ Has(s, M) PROVE NoneAfter(u, M, N)
  <2> SUFFICES ASSUME NEW i \in 1 .. Len(u), NEW j \in 1 .. Len(u), i < j, u[i] \in M
               PROVE  u[j] \notin N
    BY DEF NoneAfter
  <2>1. i \in 1 .. Len(s) /\ u[i] = s[i]
    BY <1>1, <1>2
  <2> QED
    BY <1>1, <1>2, <1>4, <2>1 DEF NoneAfter, Has
<1> QED
  BY <1>3, <1>4 DEF u

LEMMA HasTail ==
  ASSUME NEW s \in Seq(Messages), s # <<>>, NEW M
  PROVE  Has(s, M) <=> Head(s) \in M \/ Has(Tail(s), M)
<1> DEFINE u == Tail(s)
<1>1. /\ Len(s) \in Nat /\ Len(s) >= 1 /\ Len(u) = Len(s) - 1
      /\ Head(s) = s[1]
      /\ \A i \in 1 .. Len(u) : u[i] = s[i + 1]
  BY HeadTailProperties, LenProperties, EmptySeq
<1> HIDE DEF u
<1>2. ASSUME NEW i \in 1 .. Len(s), s[i] \in M, i # 1 PROVE Has(u, M)
  <2>1. i - 1 \in 1 .. Len(u) /\ (i - 1) + 1 = i
    BY <1>1, <1>2
  <2>2. u[i - 1] = s[i]
    BY <1>1, <2>1
  <2> QED
    BY <1>2, <2>1, <2>2 DEF Has
<1>3. ASSUME NEW i \in 1 .. Len(u), u[i] \in M PROVE Has(s, M)
  BY <1>1, <1>3 DEF Has
<1>4. ASSUME Head(s) \in M PROVE Has(s, M)
  BY <1>1, <1>4 DEF Has
<1>5. Has(s, M) => Head(s) \in M \/ Has(u, M)
  BY <1>1, <1>2 DEF Has
<1>6. Has(u, M) => Has(s, M)
  BY <1>3 DEF Has
<1> QED
  BY <1>4, <1>5, <1>6 DEF u

LEMMA NoneAfterTail ==
  ASSUME NEW s \in Seq(Messages), s # <<>>, NEW M, NEW N
  PROVE  NoneAfter(s, M, N) <=>
           NoneAfter(Tail(s), M, N) /\ (Head(s) \in M => ~ Has(Tail(s), N))
<1> DEFINE u == Tail(s)
<1>1. /\ Len(s) \in Nat /\ Len(s) >= 1 /\ Len(u) = Len(s) - 1
      /\ Head(s) = s[1]
      /\ \A i \in 1 .. Len(u) : u[i] = s[i + 1]
  BY HeadTailProperties, LenProperties, EmptySeq
<1> HIDE DEF u
<1>2. \A i \in 1 .. Len(u) : i + 1 \in 1 .. Len(s) /\ i + 1 > 1
  BY <1>1
<1>3. ASSUME NoneAfter(s, M, N) PROVE NoneAfter(u, M, N) /\ (Head(s) \in M => ~ Has(u, N))
  <2>1. NoneAfter(u, M, N)
    <3> SUFFICES ASSUME NEW i \in 1 .. Len(u), NEW j \in 1 .. Len(u), i < j, u[i] \in M
                 PROVE  u[j] \notin N
      BY DEF NoneAfter
    <3>1. i + 1 < j + 1
      OBVIOUS
    <3> QED
      BY <1>1, <1>2, <1>3, <3>1 DEF NoneAfter
  <2>2. ASSUME Head(s) \in M, NEW j \in 1 .. Len(u), u[j] \in N PROVE FALSE
    BY <1>1, <1>2, <1>3, <2>2 DEF NoneAfter
  <2> QED
    BY <2>1, <2>2 DEF Has
<1>4. ASSUME NoneAfter(u, M, N), Head(s) \in M => ~ Has(u, N) PROVE NoneAfter(s, M, N)
  <2> SUFFICES ASSUME NEW i \in 1 .. Len(s), NEW j \in 1 .. Len(s), i < j, s[i] \in M
               PROVE  s[j] \notin N
    BY DEF NoneAfter
  <2>1. j - 1 \in 1 .. Len(u) /\ (j - 1) + 1 = j
    BY <1>1
  <2>2. s[j] = u[j - 1]
    BY <1>1, <2>1
  <2>3. CASE i = 1
    BY <1>1, <1>4, <2>1, <2>2, <2>3 DEF Has
  <2>4. CASE i # 1
    <3>1. i - 1 \in 1 .. Len(u) /\ (i - 1) + 1 = i /\ i - 1 < j - 1
      BY <1>1, <2>4
    <3>2. s[i] = u[i - 1]
      BY <1>1, <3>1
    <3> QED
      BY <1>4, <2>1, <2>2, <3>1, <3>2 DEF NoneAfter
  <2> QED
    BY <2>3, <2>4
<1> QED
  BY <1>3, <1>4 DEF u
(* What the actions do to one link.                                        *)
LEMMA LinkOf ==
  ASSUME NEW x \in Replications, NEW y \in Replications, x # y
  PROVE  <<x, y>> \in Link
BY DEF Link

LEMMA SentOn ==
  ASSUME NEW n \in NetType, NEW r, NEW R, NEW m,
         NEW x \in Replications, NEW y \in Replications, x # y
  PROVE  Sent(n, r, R, m)[<<x, y>>] =
           IF x = r /\ y \in R THEN Append(n[<<x, y>>], m) ELSE n[<<x, y>>]
BY LinkOf DEF Sent

LEMMA TakenFrom ==
  ASSUME NEW n \in NetType, NEW l \in Link,
         NEW x \in Replications, NEW y \in Replications, x # y
  PROVE  [n EXCEPT ![l] = Tail(@)][<<x, y>>] =
           IF l = <<x, y>> THEN Tail(n[<<x, y>>]) ELSE n[<<x, y>>]
BY LinkOf DEF NetType

LEMMA AnsweredOn ==
  ASSUME net \in NetType, NEW r \in Replications, NEW p \in Replications, r # p,
         NEW m \in Messages,
         NEW x \in Replications, NEW y \in Replications, x # y
  PROVE  Answered(r, p, m)[<<x, y>>] =
           IF x = p /\ y = r THEN Tail(net[<<x, y>>])
           ELSE IF x = r /\ y = p THEN Append(net[<<x, y>>], m)
           ELSE net[<<x, y>>]
BY LinkOf DEF NetType, Answered

LEMMA AnsweredPair ==
  ASSUME net \in NetType, NEW r \in Replications, NEW p \in Replications, r # p,
         NEW m \in Messages
  PROVE  /\ Answered(r, p, m)[<<r, p>>] = Append(net[<<r, p>>], m)
         /\ Answered(r, p, m)[<<p, r>>] = Tail(net[<<p, r>>])
BY LinkOf DEF NetType, Answered

(* What a link t carries of the sender's requests, and s of the answers.   *)
SameRequests(t, u) ==
  /\ Has(u, Asks) <=> Has(t, Asks)
  /\ Has(u, Returns) <=> Has(t, Returns)
  /\ NoneAfter(u, Asks, Returns) <=> NoneAfter(t, Asks, Returns)
  /\ NoneAfter(u, Returns, Asks) <=> NoneAfter(t, Returns, Asks)

SameAnswers(s, u) ==
  /\ Has(u, LockAnswers) <=> Has(s, LockAnswers)
  /\ Has(u, Grants) <=> Has(s, Grants)
  /\ Has(u, ReturnAnswers) <=> Has(s, ReturnAnswers)
  /\ NoneAfter(u, LockAnswers, ReturnAnswers) <=> NoneAfter(s, LockAnswers, ReturnAnswers)
  /\ NoneAfter(u, ReturnAnswers, LockAnswers) <=> NoneAfter(s, ReturnAnswers, LockAnswers)

Requests == {"lock", "release"}
Answers == {"lock OK", "lock UNAVAILABLE", "release OK"}

LEMMA AnswerIsNoRequest ==
  ASSUME NEW t \in Seq(Messages), NEW m \in Answers
  PROVE  SameRequests(t, Append(t, m))
<1>1. m \in Messages /\ m \notin Asks /\ m \notin Returns
  BY DEF Answers, Messages, Asks, Returns
<1> QED
  BY <1>1, HasAppend, NoneAfterAppend DEF SameRequests

LEMMA RequestIsNoAnswer ==
  ASSUME NEW s \in Seq(Messages), NEW m \in Requests
  PROVE  SameAnswers(s, Append(s, m))
<1>1. m \in Messages /\ m \notin LockAnswers /\ m \notin Grants /\ m \notin ReturnAnswers
  BY DEF Requests, Messages, LockAnswers, Grants, ReturnAnswers
<1> QED
  BY <1>1, HasAppend, NoneAfterAppend DEF SameAnswers

LEMMA AnswerTaken ==
  ASSUME NEW t \in Seq(Messages), t # <<>>, Head(t) \in Answers
  PROVE  SameRequests(t, Tail(t))
<1>1. Head(t) \notin Asks /\ Head(t) \notin Returns
  BY DEF Answers, Asks, Returns
<1> QED
  BY <1>1, HasTail, NoneAfterTail DEF SameRequests

LEMMA RequestTaken ==
  ASSUME NEW s \in Seq(Messages), s # <<>>, Head(s) \in Requests
  PROVE  SameAnswers(s, Tail(s))
<1>1. /\ Head(s) \notin LockAnswers /\ Head(s) \notin Grants
      /\ Head(s) \notin ReturnAnswers
  BY DEF Requests, LockAnswers, Grants, ReturnAnswers
<1> QED
  BY <1>1, HasTail, NoneAfterTail DEF SameAnswers

LEMMA SameLink == ASSUME NEW t PROVE SameRequests(t, t) /\ SameAnswers(t, t)
BY DEF SameRequests, SameAnswers

LEMMA EmptyHasNone ==
  ASSUME NEW M, NEW N
  PROVE  ~ Has(<<>>, M) /\ NoneAfter(<<>>, M, N)
BY DEF Has, NoneAfter

-----------------------------------------------------------------------------
(* On FIFO links, what is under way of the requests of r to p, and of the  *)
(* answers to them, goes one way: while r holds p's lock, what there is of *)
(* lock is ahead of what there is of release; else behind it.              *)
OneWay(n, acq, r, p) ==
  /\ p \in acq[r] =>
       /\ NoneAfter(n[<<r, p>>], Returns, Asks)
       /\ NoneAfter(n[<<p, r>>], ReturnAnswers, LockAnswers)
       /\ ~ (Has(n[<<p, r>>], ReturnAnswers) /\ Has(n[<<r, p>>], Asks))
  /\ p \notin acq[r] =>
       /\ NoneAfter(n[<<r, p>>], Asks, Returns)
       /\ NoneAfter(n[<<p, r>>], LockAnswers, ReturnAnswers)
       /\ ~ (Has(n[<<p, r>>], LockAnswers) /\ Has(n[<<r, p>>], Returns))

(* p knows what r will once the answers under way have arrived.            *)
Agreed(n, acq, giv, r, p) ==
  /\ p \in acq[r] => (r \in giv[p] <=> ~ Has(n[<<p, r>>], ReturnAnswers))
  /\ p \notin acq[r] => (r \in giv[p] <=> Has(n[<<p, r>>], Grants))

(* A lock that is not needed any more is on its way back ...               *)
Returning(n, acq, pha, r, p) ==
  pha[r] = "ready" /\ p \in acq[r] =>
    Has(n[<<r, p>>], Returns) \/ Has(n[<<p, r>>], ReturnAnswers)

(* ... and none is asked for that is not needed.                           *)
Wanted(n, acq, que, r, p) ==
  p \notin acq[r] /\ p \notin que[r] =>
    ~ Has(n[<<r, p>>], Asks) /\ ~ Has(n[<<p, r>>], LockAnswers)

Loaned(n, pha, giv, acq, que, r, p) ==
  /\ OneWay(n, acq, r, p)
  /\ Agreed(n, acq, giv, r, p)
  /\ Returning(n, acq, pha, r, p)
  /\ Wanted(n, acq, que, r, p)

LocksInOrder ==
  overtakes = 0 =>
    \A r, p \in Replications : r # p => Loaned(net, phase, given, acquired, queued, r, p)

(* What r has lent of p is as it was when neither of them has changed it.  *)
LEMMA LoanKept ==
  ASSUME NEW r, NEW p, NEW n, NEW pha, NEW giv, NEW acq, NEW que,
         NEW n1, NEW pha1, NEW giv1, NEW acq1, NEW que1,
         Loaned(n, pha, giv, acq, que, r, p),
         SameRequests(n[<<r, p>>], n1[<<r, p>>]),
         SameAnswers(n[<<p, r>>], n1[<<p, r>>]),
         p \in acq1[r] <=> p \in acq[r],
         r \in giv1[p] <=> r \in giv[p],
         p \in que[r] => p \in que1[r],
         pha1[r] = "ready" /\ p \in acq[r] => pha[r] = "ready"
  PROVE  Loaned(n1, pha1, giv1, acq1, que1, r, p)
BY DEF Loaned, OneWay, Agreed, Returning, Wanted, SameRequests, SameAnswers

(* A replication may always ask for a lock it wants and has not got.       *)
LEMMA LoanAsked ==
  ASSUME NEW n \in NetType, NEW pha, NEW giv, NEW acq, NEW que,
         NEW q, NEW R, \A z \in R : z \in que[q] /\ z \notin acq[q],
         NEW r \in Replications, NEW p \in Replications, r # p,
         Loaned(n, pha, giv, acq, que, r, p)
  PROVE  Loaned(Sent(n, q, R, "lock"), pha, giv, acq, que, r, p)
<1> DEFINE n1 == Sent(n, q, R, "lock")
<1>1. /\ n1[<<r, p>>] = IF r = q /\ p \in R THEN Append(n[<<r, p>>], "lock") ELSE n[<<r, p>>]
      /\ n1[<<p, r>>] = IF p = q /\ r \in R THEN Append(n[<<p, r>>], "lock") ELSE n[<<p, r>>]
  BY SentOn
<1>2. n[<<r, p>>] \in Seq(Messages) /\ n[<<p, r>>] \in Seq(Messages)
  BY LinkOf DEF NetType
<1> SUFFICES Loaned(n1, pha, giv, acq, que, r, p)
  OBVIOUS
<1> HIDE DEF n1
<1>3. SameAnswers(n[<<p, r>>], n1[<<p, r>>])
  BY <1>1, <1>2, SameLink, RequestIsNoAnswer DEF Requests
<1>4. CASE r = q /\ p \in R
  <2>1. n1[<<r, p>>] = Append(n[<<r, p>>], "lock") /\ p \in que[r] /\ p \notin acq[r]
    BY <1>1, <1>4
  <2>2. "lock" \in Messages /\ "lock" \in Asks /\ "lock" \notin Returns
    BY DEF Messages, Asks, Returns
  <2>3. /\ Has(n1[<<r, p>>], Returns) <=> Has(n[<<r, p>>], Returns)
        /\ NoneAfter(n1[<<r, p>>], Asks, Returns) <=> NoneAfter(n[<<r, p>>], Asks, Returns)
    BY <1>2, <2>1, <2>2, HasAppend, NoneAfterAppend
  <2> QED
    BY <1>3, <2>1, <2>3 DEF Loaned, OneWay, Agreed, Returning, Wanted, SameAnswers
<1>5. CASE ~ (r = q /\ p \in R)
  <2>1. n1[<<r, p>>] = n[<<r, p>>]
    BY <1>1, <1>5
  <2> QED
    BY <1>3, <2>1, SameLink, LoanKept
<1> QED
  BY <1>4, <1>5
-----------------------------------------------------------------------------
(* The loans after each action, for any two replications x and y.          *)
Loans == \A x, y \in Replications : x # y => Loaned(net, phase, given, acquired, queued, x, y)

LEMMA LockKeepsLoans ==
  ASSUME TypeOK, Loans, NEW r \in Replications, Lock(r)
  PROVE  Loans'
<1> SUFFICES ASSUME NEW x \in Replications, NEW y \in Replications, x # y
             PROVE  Loaned(net', phase', given', acquired', queued', x, y)
  BY DEF Loans
<1> DEFINE R == ToAsk(peers[r], acquired[r], given[r])
<1>1. net \in NetType /\ Loaned(net, phase, given, acquired, queued, x, y)
  BY DEF TypeOK, NetType, Loans
<1>2. /\ phase \in [Replications -> {"ready", "locking", "replicating"}]
      /\ queued \in [Replications -> SUBSET Replications]
      /\ queued[r] = {} /\ phase[r] = "ready"
      /\ UNCHANGED <<given, acquired>>
  BY DEF TypeOK, Lock
<1>3. \/ net' = net
      \/ net' = Sent(net, r, R, "lock") /\ \A q \in R : q \in queued'[r]
  BY <1>2 DEF Lock, ToAsk
<1>4. /\ \A q \in R : q \notin acquired'[r]
      /\ phase'[x] = "ready" => phase[x] = "ready"
      /\ y \in queued[x] => y \in queued'[x]
  BY <1>2 DEF Lock, ToAsk
<1>5. Loaned(net, phase', given', acquired', queued', x, y)
  BY <1>1, <1>2, <1>4, SameLink, LoanKept
<1> QED
  BY <1>1, <1>3, <1>4, <1>5, LoanAsked

LEMMA ReplicatedKeepsLoans ==
  ASSUME TypeOK, Loans, NEW r \in Replications, Replicated(r)
  PROVE  Loans'
<1> SUFFICES ASSUME NEW x \in Replications, NEW y \in Replications, x # y
             PROVE  Loaned(net', phase', given', acquired', queued', x, y)
  BY DEF Loans
<1>1. net \in NetType /\ Loaned(net, phase, given, acquired, queued, x, y)
  BY DEF TypeOK, NetType, Loans
<1>2. net[<<x, y>>] \in Seq(Messages) /\ net[<<y, x>>] \in Seq(Messages)
  BY <1>1, LinkOf DEF NetType
<1>3. /\ net'[<<x, y>>] = IF x = r /\ y \in acquired[r]
                          THEN Append(net[<<x, y>>], "release") ELSE net[<<x, y>>]
      /\ net'[<<y, x>>] = IF y = r /\ x \in acquired[r]
                          THEN Append(net[<<y, x>>], "release") ELSE net[<<y, x>>]
  BY <1>1, SentOn DEF Replicated
<1>4. /\ UNCHANGED <<given, acquired, queued>>
      /\ phase \in [Replications -> {"ready", "locking", "replicating"}]
      /\ phase' = [phase EXCEPT ![r] = "ready"]
  BY DEF Replicated, TypeOK
<1>5. SameAnswers(net[<<y, x>>], net'[<<y, x>>])
  BY <1>2, <1>3, SameLink, RequestIsNoAnswer DEF Requests
<1>6. CASE x = r /\ y \in acquired[r]
  <2>1. "release" \in Messages /\ "release" \in Returns /\ "release" \notin Asks
    BY DEF Messages, Asks, Returns
  <2>2. net'[<<x, y>>] = Append(net[<<x, y>>], "release")
    BY <1>3, <1>6
  <2>3. /\ Has(net'[<<x, y>>], Returns)
        /\ Has(net'[<<x, y>>], Asks) <=> Has(net[<<x, y>>], Asks)
        /\ NoneAfter(net'[<<x, y>>], Returns, Asks) <=> NoneAfter(net[<<x, y>>], Returns, Asks)
    BY <1>2, <2>1, <2>2, HasAppend, NoneAfterAppend
  <2> QED
    BY <1>1, <1>4, <1>5, <1>6, <2>3
    DEF Loaned, OneWay, Agreed, Returning, Wanted, SameAnswers
<1>7. CASE ~ (x = r /\ y \in acquired[r])
  <2>1. net'[<<x, y>>] = net[<<x, y>>]
    BY <1>3, <1>7
  <2>2. phase'[x] = "ready" /\ y \in acquired[x] => phase[x] = "ready"
    BY <1>4, <1>7
  <2> QED
    BY <1>1, <1>4, <1>5, <2>1, <2>2, SameLink, LoanKept
<1> QED
  BY <1>6, <1>7

LEMMA TryLockKeepsLoans ==
  ASSUME TypeOK, Loans, NEW r \in Replications, NEW p \in Replications, r # p, TryLock(r, p)
  PROVE  Loans'
<1> SUFFICES ASSUME NEW x \in Replications, NEW y \in Replications, x # y
             PROVE  Loaned(net', phase', given', acquired', queued', x, y)
  BY DEF Loans
<1>1. net \in NetType /\ Loaned(net, phase, given, acquired, queued, x, y)
  BY DEF TypeOK, NetType, Loans
<1>2. net[<<x, y>>] \in Seq(Messages) /\ net[<<y, x>>] \in Seq(Messages)
  BY <1>1, LinkOf DEF NetType
<1>3. /\ net[<<p, r>>] # <<>> /\ Head(net[<<p, r>>]) = "lock"
      /\ UNCHANGED <<phase, acquired, queued>>
      /\ given \in [Replications -> SUBSET Replications]
  BY DEF TryLock, IsNext, TypeOK
<1>4. PICK m \in LockAnswers :
        /\ net' = Answered(r, p, m)
        /\ given' = IF m = "lock OK" THEN [given EXCEPT ![r] = @ \cup {p}] ELSE given
  BY DEF TryLock, LockAnswers
<1>5. m \in Answers /\ m \in Messages
  BY DEF LockAnswers, Answers, Messages
<1>6. /\ net'[<<x, y>>] = IF x = p /\ y = r THEN Tail(net[<<x, y>>])
                          ELSE IF x = r /\ y = p THEN Append(net[<<x, y>>], m)
                          ELSE net[<<x, y>>]
      /\ net'[<<y, x>>] = IF y = p /\ x = r THEN Tail(net[<<y, x>>])
                          ELSE IF y = r /\ x = p THEN Append(net[<<y, x>>], m)
                          ELSE net[<<y, x>>]
  <2>1. net \in NetType /\ m \in Messages /\ net' = Answered(r, p, m) /\ y # x
    BY <1>1, <1>4, <1>5
  <2>2. net'[<<x, y>>] = IF x = p /\ y = r THEN Tail(net[<<x, y>>])
                         ELSE IF x = r /\ y = p THEN Append(net[<<x, y>>], m)
                         ELSE net[<<x, y>>]
    BY <2>1, AnsweredOn
  <2>3. net'[<<y, x>>] = IF y = p /\ x = r THEN Tail(net[<<y, x>>])
                          ELSE IF y = r /\ x = p THEN Append(net[<<y, x>>], m)
                          ELSE net[<<y, x>>]
    BY <2>1, AnsweredOn
  <2> QED
    BY <2>2, <2>3
<1>7. CASE x = p /\ y = r
  <2> DEFINE t == net[<<x, y>>]
             s == net[<<y, x>>]
  <2>1. net'[<<x, y>>] = Tail(t) /\ net'[<<y, x>>] = Append(s, m)
    BY <1>6, <1>7
  <2>2. /\ t # <<>> /\ Head(t) \in Asks /\ Head(t) \notin Returns
        /\ m \in LockAnswers /\ m \notin ReturnAnswers /\ (m \in Grants <=> m = "lock OK")
    BY <1>3, <1>7 DEF Asks, Returns, LockAnswers, ReturnAnswers, Grants
  <2>3. x \in given'[y] <=> x \in given[y] \/ m \in Grants
    BY <1>3, <1>4, <1>7, <2>2
  <2>4. t \in Seq(Messages) /\ s \in Seq(Messages)
    BY <1>2
  <2> HIDE DEF t, s
  <2>5. /\ Has(t, Asks)
        /\ Has(t, Returns) <=> Has(Tail(t), Returns)
        /\ NoneAfter(t, Asks, Returns) <=>
             NoneAfter(Tail(t), Asks, Returns) /\ ~ Has(Tail(t), Returns)
        /\ NoneAfter(t, Returns, Asks) <=> NoneAfter(Tail(t), Returns, Asks)
    BY <2>2, <2>4, HasTail, NoneAfterTail
  <2>6. /\ Has(Append(s, m), LockAnswers)
        /\ Has(Append(s, m), Grants) <=> Has(s, Grants) \/ m \in Grants
        /\ Has(Append(s, m), ReturnAnswers) <=> Has(s, ReturnAnswers)
        /\ NoneAfter(Append(s, m), LockAnswers, ReturnAnswers)
             <=> NoneAfter(s, LockAnswers, ReturnAnswers)
        /\ NoneAfter(Append(s, m), ReturnAnswers, LockAnswers)
             <=> NoneAfter(s, ReturnAnswers, LockAnswers) /\ ~ Has(s, ReturnAnswers)
    BY <1>5, <2>2, <2>4, HasAppend, NoneAfterAppend
  <2> QED
    BY <1>1, <1>3, <2>1, <2>3, <2>5, <2>6
    DEF Loaned, OneWay, Agreed, Returning, Wanted, t, s
<1>8. CASE ~ (x = p /\ y = r)
  <2>1. SameRequests(net[<<x, y>>], net'[<<x, y>>])
    BY <1>2, <1>5, <1>6, <1>8, SameLink, AnswerIsNoRequest
  <2>2. SameAnswers(net[<<y, x>>], net'[<<y, x>>])
    BY <1>2, <1>3, <1>6, <1>8, SameLink, RequestTaken DEF Requests
  <2>3. x \in given'[y] <=> x \in given[y]
    BY <1>3, <1>4, <1>8
  <2> QED
    BY <1>1, <1>3, <2>1, <2>2, <2>3, LoanKept
<1> QED
  BY <1>7, <1>8
LEMMA GrantedKeepsLoans ==
  ASSUME TypeOK, Loans, NEW r \in Replications, NEW p \in Replications, r # p, Granted(r, p)
  PROVE  Loans'
<1> SUFFICES ASSUME NEW x \in Replications, NEW y \in Replications, x # y
             PROVE  Loaned(net', phase', given', acquired', queued', x, y)
  BY DEF Loans
<1>1. net \in NetType /\ Loaned(net, phase, given, acquired, queued, x, y)
  BY DEF TypeOK, NetType, Loans
<1>2. net[<<x, y>>] \in Seq(Messages) /\ net[<<y, x>>] \in Seq(Messages)
  BY <1>1, LinkOf DEF NetType
<1>3. /\ net[<<p, r>>] # <<>> /\ Head(net[<<p, r>>]) = "lock OK"
      /\ given' = given
      /\ acquired \in [Replications -> SUBSET Replications]
      /\ queued \in [Replications -> SUBSET Replications]
      /\ phase \in [Replications -> {"ready", "locking", "replicating"}]
      /\ acquired' = [acquired EXCEPT ![r] = @ \cup {p}]
      /\ queued' = [queued EXCEPT ![r] = @ \ {p}]
      /\ phase' = phase \/ phase' = [phase EXCEPT ![r] = "replicating"]
      /\ phase[r] = "ready" => queued[r] = {} /\ phase' = phase
  BY DEF Granted, IsNext, TypeOK
<1>4. <<p, r>> \in Link
  BY LinkOf
<1>5. net' = [net EXCEPT ![<<p, r>>] = Tail(@)]
  BY DEF Granted
<1>6. /\ net'[<<x, y>>] = IF x = p /\ y = r THEN Tail(net[<<x, y>>]) ELSE net[<<x, y>>]
      /\ net'[<<y, x>>] = IF y = p /\ x = r THEN Tail(net[<<y, x>>]) ELSE net[<<y, x>>]
  BY <1>1, <1>4, <1>5, LinkOf DEF NetType
<1>7. CASE x = r /\ y = p
  <2> DEFINE s == net[<<y, x>>]
  <2>1. /\ net'[<<x, y>>] = net[<<x, y>>]
        /\ net'[<<y, x>>] = Tail(s)
    BY <1>6, <1>7
  <2>2. /\ s # <<>> /\ Head(s) \in LockAnswers /\ Head(s) \in Grants
        /\ Head(s) \notin ReturnAnswers
    BY <1>3, <1>7 DEF LockAnswers, ReturnAnswers, Grants
  <2>3. s \in Seq(Messages)
    BY <1>2
  <2>4. y \in acquired'[x] /\ phase'[x] = "ready" => phase[x] = "ready"
    BY <1>3, <1>7
  <2>5. phase[x] = "ready" => y \notin queued[x]
    BY <1>3, <1>7
  <2>6. y \in acquired'[x]
    BY <1>3, <1>7
  <2> HIDE DEF s
  <2>7. /\ Has(s, LockAnswers) /\ Has(s, Grants)
        /\ Has(s, ReturnAnswers) <=> Has(Tail(s), ReturnAnswers)
        /\ NoneAfter(s, LockAnswers, ReturnAnswers) <=>
             NoneAfter(Tail(s), LockAnswers, ReturnAnswers) /\ ~ Has(Tail(s), ReturnAnswers)
        /\ NoneAfter(s, ReturnAnswers, LockAnswers)
             <=> NoneAfter(Tail(s), ReturnAnswers, LockAnswers)
    BY <2>2, <2>3, HasTail, NoneAfterTail
  <2>8. Has(net[<<x, y>>], Returns) => y \in acquired[x]
    BY <1>1, <2>7 DEF Loaned, OneWay, s
  <2>9. CASE y \in acquired[x]
    BY <1>1, <1>3, <2>1, <2>4, <2>6, <2>7, <2>9
    DEF Loaned, OneWay, Agreed, Returning, Wanted, s
  <2>10. CASE y \notin acquired[x]
    <3>1. y \in queued[x] /\ phase'[x] # "ready"
      BY <1>1, <2>4, <2>5, <2>6, <2>7, <2>10 DEF Loaned, Wanted, s
    <3>2. /\ ~ Has(Tail(s), ReturnAnswers) /\ ~ Has(net[<<x, y>>], Returns)
          /\ x \in given[y]
      BY <1>1, <2>7, <2>8, <2>10 DEF Loaned, OneWay, Agreed, s
    <3>3. NoneAfter(net[<<x, y>>], Returns, Asks) /\ NoneAfter(Tail(s), ReturnAnswers, LockAnswers)
      BY <3>2 DEF NoneAfter, Has
    <3> QED
      BY <1>3, <2>1, <2>6, <3>1, <3>2, <3>3
      DEF Loaned, OneWay, Agreed, Returning, Wanted
  <2> QED
    BY <2>9, <2>10
<1>8. CASE ~ (x = r /\ y = p)
  <2>1. SameRequests(net[<<x, y>>], net'[<<x, y>>])
    BY <1>2, <1>3, <1>6, SameLink, AnswerTaken DEF Answers
  <2>2. SameAnswers(net[<<y, x>>], net'[<<y, x>>])
    BY <1>6, <1>8, SameLink
  <2>3. /\ y \in acquired'[x] <=> y \in acquired[x]
        /\ y \in queued'[x] <=> y \in queued[x]
    BY <1>3, <1>8
  <2>4. phase'[x] = "ready" => phase[x] = "ready"
    BY <1>3
  <2>5. /\ Loaned(net, phase, given, acquired, queued, x, y)
        /\ x \in given'[y] <=> x \in given[y]
        /\ y \in queued[x] => y \in queued'[x]
        /\ phase'[x] = "ready" /\ y \in acquired[x] => phase[x] = "ready"
    BY <1>1, <1>3, <2>3, <2>4
  <2> QED
    BY <2>1, <2>2, <2>3, <2>5, LoanKept
<1> QED
  BY <1>7, <1>8

LEMMA RefusedKeepsLoans ==
  ASSUME TypeOK, Loans, NEW r \in Replications, NEW p \in Replications, r # p, Refused(r, p)
  PROVE  Loans'
<1> SUFFICES ASSUME NEW x \in Replications, NEW y \in Replications, x # y
             PROVE  Loaned(net', phase', given', acquired', queued', x, y)
  BY DEF Loans
<1>1. net \in NetType /\ Loaned(net, phase, given, acquired, queued, x, y)
  BY DEF TypeOK, NetType, Loans
<1>2. net[<<x, y>>] \in Seq(Messages) /\ net[<<y, x>>] \in Seq(Messages)
  BY <1>1, LinkOf DEF NetType
<1>3. /\ net[<<p, r>>] # <<>> /\ Head(net[<<p, r>>]) = "lock UNAVAILABLE"
      /\ UNCHANGED <<phase, given, acquired, queued>>
      /\ net' = [net EXCEPT ![<<p, r>>] = Tail(@)]
  BY DEF Refused, IsNext
<1>4. <<p, r>> \in Link
  BY LinkOf
<1>5. /\ net'[<<x, y>>] = IF x = p /\ y = r THEN Tail(net[<<x, y>>]) ELSE net[<<x, y>>]
      /\ net'[<<y, x>>] = IF y = p /\ x = r THEN Tail(net[<<y, x>>]) ELSE net[<<y, x>>]
  BY <1>1, <1>3, <1>4, LinkOf DEF NetType
<1>6. CASE x = r /\ y = p
  <2> DEFINE s == net[<<y, x>>]
  <2>1. net'[<<x, y>>] = net[<<x, y>>] /\ net'[<<y, x>>] = Tail(s)
    BY <1>5, <1>6
  <2>2. /\ s # <<>> /\ Head(s) \in LockAnswers /\ Head(s) \notin Grants
        /\ Head(s) \notin ReturnAnswers /\ s \in Seq(Messages)
    BY <1>2, <1>3, <1>6 DEF LockAnswers, ReturnAnswers, Grants
  <2> HIDE DEF s
  <2>3. /\ Has(s, LockAnswers)
        /\ Has(s, Grants) <=> Has(Tail(s), Grants)
        /\ Has(s, ReturnAnswers) <=> Has(Tail(s), ReturnAnswers)
        /\ NoneAfter(s, LockAnswers, ReturnAnswers) <=>
             NoneAfter(Tail(s), LockAnswers, ReturnAnswers) /\ ~ Has(Tail(s), ReturnAnswers)
        /\ NoneAfter(s, ReturnAnswers, LockAnswers)
             <=> NoneAfter(Tail(s), ReturnAnswers, LockAnswers)
    BY <2>2, HasTail, NoneAfterTail
  <2> QED
    BY <1>1, <1>3, <2>1, <2>3 DEF Loaned, OneWay, Agreed, Returning, Wanted, s
<1>7. CASE ~ (x = r /\ y = p)
  <2>1. SameRequests(net[<<x, y>>], net'[<<x, y>>])
    BY <1>2, <1>3, <1>5, SameLink, AnswerTaken DEF Answers
  <2>2. SameAnswers(net[<<y, x>>], net'[<<y, x>>])
    BY <1>5, <1>7, SameLink
  <2>3. /\ Loaned(net, phase, given, acquired, queued, x, y)
        /\ y \in acquired'[x] <=> y \in acquired[x]
        /\ x \in given'[y] <=> x \in given[y]
        /\ y \in queued[x] => y \in queued'[x]
        /\ phase'[x] = "ready" /\ y \in acquired[x] => phase[x] = "ready"
    BY <1>1, <1>3
  <2> QED
    BY <2>1, <2>2, <2>3, LoanKept
<1> QED
  BY <1>6, <1>7
LEMMA ReleaseKeepsLoans ==
  ASSUME TypeOK, Loans, NEW r \in Replications, NEW p \in Replications, r # p, Release(r, p)
  PROVE  Loans'
<1> SUFFICES ASSUME NEW x \in Replications, NEW y \in Replications, x # y
             PROVE  Loaned(net', phase', given', acquired', queued', x, y)
  BY DEF Loans
<1> DEFINE n1 == Answered(r, p, "release OK")
           R == ToAsk(queued[r], acquired[r], given'[r])
<1>1. net \in NetType /\ Loaned(net, phase, given, acquired, queued, x, y)
  BY DEF TypeOK, NetType, Loans
<1>2. net[<<x, y>>] \in Seq(Messages) /\ net[<<y, x>>] \in Seq(Messages)
  BY <1>1, LinkOf DEF NetType
<1>3. /\ net[<<p, r>>] # <<>> /\ Head(net[<<p, r>>]) = "release"
      /\ UNCHANGED <<phase, acquired, queued>>
      /\ given \in [Replications -> SUBSET Replications]
      /\ given' = [given EXCEPT ![r] = @ \ {p}]
      /\ net' = n1 \/ net' = Sent(n1, r, R, "lock")
  BY DEF Release, IsNext, TypeOK
<1>4. "release OK" \in Answers /\ "release OK" \in Messages
  BY DEF Answers, Messages
<1>5. n1 \in NetType
  BY <1>1, <1>3, <1>4, LinkOf, AnsweredType
<1>6. /\ n1[<<x, y>>] = IF x = p /\ y = r THEN Tail(net[<<x, y>>])
                        ELSE IF x = r /\ y = p THEN Append(net[<<x, y>>], "release OK")
                        ELSE net[<<x, y>>]
      /\ n1[<<y, x>>] = IF y = p /\ x = r THEN Tail(net[<<y, x>>])
                        ELSE IF y = r /\ x = p THEN Append(net[<<y, x>>], "release OK")
                        ELSE net[<<y, x>>]
  <2> HIDE DEF n1, R
  <2>1. PICK m \in Messages : m = "release OK"
    BY <1>4
  <2>2. net \in NetType /\ y # x
    BY <1>1
  <2>3. Answered(r, p, m)[<<x, y>>] = IF x = p /\ y = r THEN Tail(net[<<x, y>>])
                       ELSE IF x = r /\ y = p THEN Append(net[<<x, y>>], m)
                       ELSE net[<<x, y>>]
    BY <2>2, AnsweredOn
  <2>4. Answered(r, p, m)[<<y, x>>] = IF y = p /\ x = r THEN Tail(net[<<y, x>>])
                       ELSE IF y = r /\ x = p THEN Append(net[<<y, x>>], m)
                       ELSE net[<<y, x>>]
    BY <2>2, AnsweredOn
  <2> QED
    BY <2>1, <2>3, <2>4 DEF n1
<1>7. \A q \in R : q \in queued'[r] /\ q \notin acquired'[r]
  BY <1>3 DEF ToAsk
<1> HIDE DEF n1, R
<1>8. Loaned(n1, phase', given', acquired', queued', x, y)
  <2>1. CASE x = p /\ y = r
    <3> DEFINE t == net[<<x, y>>]
               s == net[<<y, x>>]
               m == "release OK"
    <3>1. n1[<<x, y>>] = Tail(t) /\ n1[<<y, x>>] = Append(s, m)
      BY <1>6, <2>1
    <3>2. /\ t # <<>> /\ Head(t) \in Returns /\ Head(t) \notin Asks
          /\ m \in ReturnAnswers /\ m \notin LockAnswers /\ m \notin Grants
          /\ t \in Seq(Messages) /\ s \in Seq(Messages) /\ m \in Messages
      BY <1>2, <1>3, <1>4, <2>1 DEF Asks, Returns, LockAnswers, ReturnAnswers, Grants
    <3>3. x \notin given'[y]
      BY <1>3, <2>1
    <3> HIDE DEF t, s, m
    <3>4. /\ Has(t, Returns)
          /\ Has(t, Asks) <=> Has(Tail(t), Asks)
          /\ NoneAfter(t, Returns, Asks) <=>
               NoneAfter(Tail(t), Returns, Asks) /\ ~ Has(Tail(t), Asks)
          /\ NoneAfter(t, Asks, Returns) <=> NoneAfter(Tail(t), Asks, Returns)
      BY <3>2, HasTail, NoneAfterTail
    <3>5. /\ Has(Append(s, m), ReturnAnswers)
          /\ Has(Append(s, m), Grants) <=> Has(s, Grants)
          /\ Has(Append(s, m), LockAnswers) <=> Has(s, LockAnswers)
          /\ NoneAfter(Append(s, m), LockAnswers, ReturnAnswers)
               <=> NoneAfter(s, LockAnswers, ReturnAnswers) /\ ~ Has(s, LockAnswers)
          /\ NoneAfter(Append(s, m), ReturnAnswers, LockAnswers)
               <=> NoneAfter(s, ReturnAnswers, LockAnswers)
      BY <3>2, HasAppend, NoneAfterAppend
    <3>6. Has(s, Grants) => Has(s, LockAnswers)
      BY DEF Has, Grants, LockAnswers
    <3> QED
      BY <1>1, <1>3, <3>1, <3>3, <3>4, <3>5, <3>6
      DEF Loaned, OneWay, Agreed, Returning, Wanted, t, s
  <2>2. CASE ~ (x = p /\ y = r)
    <3>1. SameRequests(net[<<x, y>>], n1[<<x, y>>])
      BY <1>2, <1>4, <1>6, <2>2, SameLink, AnswerIsNoRequest
    <3>2. SameAnswers(net[<<y, x>>], n1[<<y, x>>])
      BY <1>2, <1>3, <1>6, <2>2, SameLink, RequestTaken DEF Requests
    <3>3. x \in given'[y] <=> x \in given[y]
      BY <1>3, <2>2
    <3>4. /\ y \in acquired'[x] <=> y \in acquired[x]
          /\ y \in queued[x] => y \in queued'[x]
          /\ phase'[x] = "ready" /\ y \in acquired[x] => phase[x] = "ready"
      BY <1>3
    <3> QED
      BY <1>1, <3>1, <3>2, <3>3, <3>4, LoanKept
  <2> QED
    BY <2>1, <2>2
<1>9. Loaned(Sent(n1, r, R, "lock"), phase', given', acquired', queued', x, y)
  BY <1>5, <1>7, <1>8, LoanAsked
<1> QED
  BY <1>3, <1>8, <1>9

LEMMA ReleasedKeepsLoans ==
  ASSUME TypeOK, Loans, NEW r \in Replications, NEW p \in Replications, r # p, Released(r, p)
  PROVE  Loans'
<1> SUFFICES ASSUME NEW x \in Replications, NEW y \in Replications, x # y
             PROVE  Loaned(net', phase', given', acquired', queued', x, y)
  BY DEF Loans
<1> DEFINE n1 == [net EXCEPT ![<<p, r>>] = Tail(@)]
           R == ToAsk(queued[r], acquired'[r], given[r])
<1>1. net \in NetType /\ Loaned(net, phase, given, acquired, queued, x, y)
  BY DEF TypeOK, NetType, Loans
<1>2. net[<<x, y>>] \in Seq(Messages) /\ net[<<y, x>>] \in Seq(Messages)
  BY <1>1, LinkOf DEF NetType
<1>3. /\ net[<<p, r>>] # <<>> /\ Head(net[<<p, r>>]) = "release OK"
      /\ UNCHANGED <<phase, given, queued>>
      /\ acquired \in [Replications -> SUBSET Replications]
      /\ acquired' = [acquired EXCEPT ![r] = @ \ {p}]
      /\ net' = n1 \/ net' = Sent(n1, r, R, "lock")
  BY DEF Released, IsNext, TypeOK
<1>4. <<p, r>> \in Link
  BY LinkOf
<1>5. n1 \in NetType
  BY <1>1, <1>3, <1>4, TailType
<1>6. /\ n1[<<x, y>>] = IF x = p /\ y = r THEN Tail(net[<<x, y>>]) ELSE net[<<x, y>>]
      /\ n1[<<y, x>>] = IF y = p /\ x = r THEN Tail(net[<<y, x>>]) ELSE net[<<y, x>>]
  BY <1>1, <1>4, LinkOf DEF NetType
<1>7. \A q \in R : q \in queued'[r] /\ q \notin acquired'[r]
  BY <1>3 DEF ToAsk
<1> HIDE DEF n1, R
<1>8. Loaned(n1, phase', given', acquired', queued', x, y)
  <2>1. CASE x = r /\ y = p
    <3> DEFINE s == net[<<y, x>>]
    <3>1. n1[<<x, y>>] = net[<<x, y>>] /\ n1[<<y, x>>] = Tail(s)
      BY <1>6, <2>1
    <3>2. /\ s # <<>> /\ Head(s) \in ReturnAnswers
          /\ Head(s) \notin LockAnswers /\ Head(s) \notin Grants /\ s \in Seq(Messages)
      BY <1>2, <1>3, <2>1 DEF LockAnswers, ReturnAnswers, Grants
    <3>3. y \notin acquired'[x]
      BY <1>3, <2>1
    <3> HIDE DEF s
    <3>4. /\ Has(s, ReturnAnswers)
          /\ Has(s, Grants) <=> Has(Tail(s), Grants)
          /\ Has(s, LockAnswers) <=> Has(Tail(s), LockAnswers)
          /\ NoneAfter(s, ReturnAnswers, LockAnswers) <=>
               NoneAfter(Tail(s), ReturnAnswers, LockAnswers) /\ ~ Has(Tail(s), LockAnswers)
          /\ NoneAfter(s, LockAnswers, ReturnAnswers)
               <=> NoneAfter(Tail(s), LockAnswers, ReturnAnswers)
      BY <3>2, HasTail, NoneAfterTail
    <3>5. Has(s, Grants) => Has(s, LockAnswers)
      BY DEF Has, Grants, LockAnswers
    <3>6. CASE y \in acquired[x]
      <4>1. /\ ~ Has(net[<<x, y>>], Asks) /\ ~ Has(Tail(s), LockAnswers)
            /\ ~ Has(s, Grants) /\ x \notin given[y]
        BY <1>1, <3>4, <3>5, <3>6 DEF Loaned, OneWay, Agreed, s
      <4>2. NoneAfter(net[<<x, y>>], Asks, Returns) /\ NoneAfter(Tail(s), LockAnswers, ReturnAnswers)
        BY <4>1 DEF NoneAfter, Has
      <4> QED
        BY <1>3, <3>1, <3>3, <3>4, <4>1, <4>2 DEF Loaned, OneWay, Agreed, Returning, Wanted
    <3>7. CASE y \notin acquired[x]
      BY <1>1, <1>3, <3>1, <3>3, <3>4, <3>7
      DEF Loaned, OneWay, Agreed, Returning, Wanted, s
    <3> QED
      BY <3>6, <3>7
  <2>2. CASE ~ (x = r /\ y = p)
    <3>1. SameRequests(net[<<x, y>>], n1[<<x, y>>])
      BY <1>2, <1>3, <1>6, SameLink, AnswerTaken DEF Answers
    <3>2. SameAnswers(net[<<y, x>>], n1[<<y, x>>])
      BY <1>6, <2>2, SameLink
    <3>3. y \in acquired'[x] <=> y \in acquired[x]
      BY <1>3, <2>2
    <3>4. /\ x \in given'[y] <=> x \in given[y]
          /\ y \in queued[x] => y \in queued'[x]
          /\ phase'[x] = "ready" /\ y \in acquired[x] => phase[x] = "ready"
      BY <1>3
    <3> QED
      BY <1>1, <3>1, <3>2, <3>3, <3>4, LoanKept
  <2> QED
    BY <2>1, <2>2
<1>9. Loaned(Sent(n1, r, R, "lock"), phase', given', acquired', queued', x, y)
  BY <1>5, <1>7, <1>8, LoanAsked
<1> QED
  BY <1>3, <1>8, <1>9
-----------------------------------------------------------------------------
(* Locks and messages are a matter among peers, on any links.              *)
OnPeers(n) == \A x, y \in Replications : x # y /\ n[<<x, y>>] # <<>> => y \in peers[x]

AmongPeers ==
  /\ \A x \in Replications :
       /\ acquired[x] \subseteq peers[x]
       /\ given[x] \subseteq peers[x]
       /\ queued[x] \subseteq peers[x]
       /\ ahead[x] \subseteq peers[x]
  /\ OnPeers(net)

LEMMA PeersAssumed ==
  ASSUME TypeOK
  PROVE  /\ peers \in [Replications -> SUBSET Replications]
         /\ \A r \in Replications : r \notin peers[r] /\ \A p \in peers[r] : r \in peers[p]
BY DeploymentAssumption DEF TypeOK

LEMMA SentOnPeers ==
  ASSUME NEW n \in NetType, OnPeers(n), NEW r \in Replications, NEW R, R \subseteq peers[r],
         NEW m
  PROVE  OnPeers(Sent(n, r, R, m))
<1> SUFFICES ASSUME NEW x \in Replications, NEW y \in Replications, x # y,
                    Sent(n, r, R, m)[<<x, y>>] # <<>>
             PROVE  y \in peers[x]
  BY DEF OnPeers
<1>1. Sent(n, r, R, m)[<<x, y>>] =
        IF x = r /\ y \in R THEN Append(n[<<x, y>>], m) ELSE n[<<x, y>>]
  BY SentOn
<1> QED
  BY <1>1 DEF OnPeers

LEMMA TakenOnPeers ==
  ASSUME NEW n \in NetType, OnPeers(n), NEW p \in Replications, NEW r \in Replications, r # p,
         n[<<p, r>>] # <<>>
  PROVE  OnPeers([n EXCEPT ![<<p, r>>] = Tail(@)])
<1> SUFFICES ASSUME NEW x \in Replications, NEW y \in Replications, x # y,
                    [n EXCEPT ![<<p, r>>] = Tail(@)][<<x, y>>] # <<>>
             PROVE  y \in peers[x]
  BY DEF OnPeers
<1>1. CASE x = p /\ y = r
  BY <1>1 DEF OnPeers
<1>2. CASE ~ (x = p /\ y = r)
  <2>1. [n EXCEPT ![<<p, r>>] = Tail(@)][<<x, y>>] = n[<<x, y>>]
    BY <1>2, LinkOf DEF NetType
  <2> QED
    BY <2>1 DEF OnPeers
<1> QED
  BY <1>1, <1>2

LEMMA AnsweredOnPeers ==
  ASSUME TypeOK, OnPeers(net), NEW p \in Replications, NEW r \in Replications, r # p,
         net[<<p, r>>] # <<>>, NEW m \in Messages
  PROVE  OnPeers(Answered(r, p, m))
<1> SUFFICES ASSUME NEW x \in Replications, NEW y \in Replications, x # y,
                    Answered(r, p, m)[<<x, y>>] # <<>>
             PROVE  y \in peers[x]
  BY DEF OnPeers
<1>1. r \in peers[p] /\ p \in peers[r]
  BY PeersAssumed DEF OnPeers
<1>2. CASE ~ (x = p /\ y = r) /\ ~ (x = r /\ y = p)
  <2>1. net \in NetType
    BY DEF TypeOK, NetType
  <2>2. Answered(r, p, m)[<<x, y>>] = IF x = p /\ y = r THEN Tail(net[<<x, y>>])
                       ELSE IF x = r /\ y = p THEN Append(net[<<x, y>>], m)
                       ELSE net[<<x, y>>]
    BY <2>1, AnsweredOn
  <2> QED
    BY <1>2, <2>2 DEF OnPeers
<1> QED
  BY <1>1, <1>2

LEMMA PeersKept ==
  ASSUME TypeOK, AmongPeers, [Next]_vars
  PROVE  AmongPeers'
<1> USE DEF AmongPeers
<1>0. /\ net \in NetType /\ peers' = peers
      /\ given \in [Replications -> SUBSET Replications]
      /\ acquired \in [Replications -> SUBSET Replications]
      /\ queued \in [Replications -> SUBSET Replications]
      /\ ahead \in [Replications -> SUBSET Replications]
  BY DEF TypeOK, NetType, Next, vars, Lock, Replicated, Receive, TryLock, Granted, Refused,
         Release, Released, Overtake
<1>a. ASSUME OnPeers(net') PROVE OnPeers(net)'
  BY <1>0, <1>a DEF OnPeers
<1>1. ASSUME NEW r \in Replications, Lock(r) PROVE AmongPeers'
  <2>1. OnPeers(net')
    <3>1. ToAsk(peers[r], acquired[r], given[r]) \subseteq peers[r]
      BY DEF ToAsk
    <3> QED
      BY <1>0, <1>1, <3>1, SentOnPeers DEF Lock
  <2>2. /\ acquired' = acquired /\ given' = given
        /\ queued' = queued \/ queued' = [queued EXCEPT ![r] = peers[r]]
        /\ ahead' = [ahead EXCEPT ![r] = {p \in peers[r] : phase[p] = "replicating"}]
    BY <1>1 DEF Lock
  <2> QED
    BY <1>0, <1>a, <2>1, <2>2
<1>2. ASSUME NEW r \in Replications, Replicated(r) PROVE AmongPeers'
  <2>1. OnPeers(net')
    BY <1>0, <1>2, SentOnPeers DEF Replicated
  <2>2. /\ UNCHANGED <<acquired, given, queued>>
        /\ ahead' = [p \in Replications |-> ahead[p] \ {r}]
    BY <1>2 DEF Replicated
  <2> QED
    BY <1>0, <1>a, <2>1, <2>2
<1>3. ASSUME NEW r \in Replications, NEW p \in Replications, r # p, Receive(r, p)
      PROVE  AmongPeers'
  <2>1. net[<<p, r>>] # <<>>
    BY <1>3 DEF Receive, TryLock, Granted, Refused, Release, Released, IsNext
  <2>2. p \in peers[r]
    BY <1>3, <2>1, PeersAssumed DEF OnPeers
  <2>3. \A x \in Replications :
          /\ acquired'[x] \subseteq peers[x]
          /\ given'[x] \subseteq peers[x]
          /\ queued'[x] \subseteq peers[x]
          /\ ahead'[x] \subseteq peers[x]
    <3>1. CASE TryLock(r, p)
      <4>1. UNCHANGED <<acquired, queued, ahead>>
        BY <3>1 DEF TryLock
      <4>2. given' = given \/ given' = [given EXCEPT ![r] = @ \cup {p}]
        BY <3>1 DEF TryLock
      <4> QED
        BY <1>0, <2>2, <4>1, <4>2
    <3>2. CASE Granted(r, p)
      <4>1. /\ UNCHANGED <<given, ahead>>
            /\ acquired' = [acquired EXCEPT ![r] = @ \cup {p}]
            /\ queued' = [queued EXCEPT ![r] = @ \ {p}]
        BY <3>2 DEF Granted
      <4> QED
        BY <1>0, <2>2, <4>1
    <3>3. CASE Refused(r, p)
      BY <1>0, <3>3 DEF Refused
    <3>4. CASE Release(r, p)
      BY <1>0, <3>4 DEF Release
    <3>5. CASE Released(r, p)
      BY <1>0, <3>5 DEF Released
    <3> QED
      BY <1>3, <3>1, <3>2, <3>3, <3>4, <3>5 DEF Receive
  <2>4. OnPeers([net EXCEPT ![<<p, r>>] = Tail(@)]) /\ [net EXCEPT ![<<p, r>>] = Tail(@)] \in NetType
    BY <1>0, <1>3, <2>1, LinkOf, TailType, TakenOnPeers
  <2>5. \A m \in Messages : OnPeers(Answered(r, p, m)) /\ Answered(r, p, m) \in NetType
    BY <1>0, <1>3, <2>1, LinkOf, AnsweredType, AnsweredOnPeers
  <2>6. OnPeers(net')
    <3>1. CASE TryLock(r, p)
      <4>1. \E m \in Messages : net' = Answered(r, p, m)
        BY <3>1 DEF TryLock, Messages
      <4> QED
        BY <2>5, <4>1
    <3>2. CASE Granted(r, p) \/ Refused(r, p)
      BY <2>4, <3>2 DEF Granted, Refused
    <3>3. CASE Release(r, p)
      <4>1. ToAsk(queued[r], acquired[r], given'[r]) \subseteq peers[r]
        BY <1>3 DEF ToAsk
      <4>2. "release OK" \in Messages
        BY DEF Messages
      <4> QED
        BY <1>3, <2>5, <3>3, <4>1, <4>2, SentOnPeers DEF Release
    <3>4. CASE Released(r, p)
      <4>1. ToAsk(queued[r], acquired'[r], given[r]) \subseteq peers[r]
        BY <1>3 DEF ToAsk
      <4> QED
        BY <1>3, <2>4, <3>4, <4>1, SentOnPeers DEF Released
    <3> QED
      BY <1>3, <3>1, <3>2, <3>3, <3>4 DEF Receive
  <2> QED
    BY <1>0, <1>a, <2>3, <2>6
<1>4. ASSUME NEW l \in Link, Overtake(l) PROVE AmongPeers'
  <2>1. \A x, y \in Replications : x # y /\ net'[<<x, y>>] # <<>> => net[<<x, y>>] # <<>>
    <3> SUFFICES ASSUME NEW x \in Replications, NEW y \in Replications, x # y,
                        net[<<x, y>>] = <<>>
                 PROVE  net'[<<x, y>>] = <<>>
      OBVIOUS
    <3>1. PICK i \in 1 .. Len(net[l]) - 1 :
            net' = [net EXCEPT ![l] = [@ EXCEPT ![i] = net[l][i + 1], ![i + 1] = net[l][i]]]
      BY <1>4 DEF Overtake
    <3>2. Len(net[l]) # 0
      BY <1>0, <3>1, LenProperties DEF NetType
    <3>3. net[l] # <<>>
      BY <3>2, EmptySeq
    <3>4. <<x, y>> # l
      BY <3>3
    <3> QED
      BY <1>0, <3>1, <3>4, LinkOf DEF NetType
  <2>2. UNCHANGED <<acquired, given, queued, ahead>>
    BY <1>4 DEF Overtake
  <2> QED
    BY <1>0, <1>a, <2>1, <2>2 DEF OnPeers
<1>5. CASE UNCHANGED vars
  BY <1>5 DEF vars, OnPeers
<1>6. ASSUME NEW l \in Link, Receive(l[2], l[1]) PROVE AmongPeers'
  <2>1. l[1] \in Replications /\ l[2] \in Replications /\ l[2] # l[1]
    BY DEF Link
  <2> QED
    BY <1>3, <1>6, <2>1
<1> QED
  BY <1>1, <1>2, <1>4, <1>5, <1>6 DEF Next
-----------------------------------------------------------------------------
(* On FIFO links the loans stay in order.                                  *)
LEMMA LoansKept ==
  ASSUME TypeOK, LocksInOrder, [Next]_vars
  PROVE  LocksInOrder'
<1> SUFFICES ASSUME overtakes' = 0 PROVE Loans'
  BY DEF LocksInOrder, Loans
<1>1. overtakes \in Nat
  BY DEF TypeOK
<1>2. CASE overtakes # 0
  <2>1. overtakes' = overtakes \/ overtakes' = overtakes + 1
    BY DEF Next, vars, Lock, Replicated, Receive, TryLock, Granted, Refused, Release,
           Released, Overtake
  <2> QED
    BY <1>1, <1>2, <2>1
<1>3. CASE overtakes = 0
  <2>1. Loans
    BY <1>3 DEF LocksInOrder, Loans
  <2>2. CASE UNCHANGED vars
    BY <2>1, <2>2 DEF vars, Loans, Loaned, OneWay, Agreed, Returning, Wanted
  <2>3. ASSUME NEW r \in Replications, Lock(r) \/ Replicated(r) PROVE Loans'
    BY <2>1, <2>3, LockKeepsLoans, ReplicatedKeepsLoans
  <2>4. ASSUME NEW l \in Link, Receive(l[2], l[1]) PROVE Loans'
    <3>1. l[1] \in Replications /\ l[2] \in Replications /\ l[2] # l[1]
      BY DEF Link
    <3> QED
      BY <2>1, <2>4, <3>1, TryLockKeepsLoans, GrantedKeepsLoans, RefusedKeepsLoans,
         ReleaseKeepsLoans, ReleasedKeepsLoans DEF Receive
  <2>5. ASSUME NEW l \in Link, Overtake(l) PROVE FALSE
    BY <1>1, <2>5 DEF Overtake
  <2> QED
    BY <2>2, <2>3, <2>4, <2>5 DEF Next
<1> QED
  BY <1>2, <1>3

LEMMA FirstLoans ==
  ASSUME Init
  PROVE  Loans /\ AmongPeers
<1>1. Loans
  <2> SUFFICES ASSUME NEW x \in Replications, NEW y \in Replications, x # y
               PROVE  Loaned(net, phase, given, acquired, queued, x, y)
    BY DEF Loans
  <2>1. net[<<x, y>>] = <<>> /\ net[<<y, x>>] = <<>>
    BY LinkOf DEF Init
  <2>2. acquired[x] = {} /\ given[y] = {} /\ queued[x] = {}
    BY DEF Init
  <2> QED
    BY <2>1, <2>2, EmptyHasNone DEF Loaned, OneWay, Agreed, Returning, Wanted
<1>2. AmongPeers
  BY LinkOf DEF Init, AmongPeers, OnPeers
<1> QED
  BY <1>1, <1>2

(* Whatever the deployment, its size and the interleaving of the requests: *)
(* on FIFO links no lock is left behind with release_peer_replication.     *)
THEOREM LocksReturnedCorrect == Spec => []LocksReturned
<1> DEFINE Inv == LocksInOrder /\ AmongPeers
<1>1. Init => Inv
  BY FirstLoans DEF LocksInOrder, Loans
<1>2. Inv /\ TypeOK /\ [Next]_vars => Inv'
  BY LoansKept, PeersKept
<1>3. Inv /\ TypeOK => LocksReturned
  <2> SUFFICES ASSUME LocksInOrder, AmongPeers, TypeOK, overtakes = 0,
                      \A l \in Link : net[l] = <<>>,
                      \A r \in Replications : phase[r] = "ready",
                      NEW x \in Replications
               PROVE  acquired[x] = {} /\ given[x] = {}
    BY DEF LocksReturned, TypeOK
  <2>1. ASSUME NEW r \in Replications, NEW p \in Replications, r # p
        PROVE  p \notin acquired[r] /\ r \notin given[p]
    <3>1. net[<<r, p>>] = <<>> /\ net[<<p, r>>] = <<>>
      BY <2>1, LinkOf
    <3>2. Loaned(net, phase, given, acquired, queued, r, p) /\ phase[r] = "ready"
      BY <2>1 DEF LocksInOrder
    <3> QED
      BY <3>1, <3>2, EmptyHasNone DEF Loaned, Agreed, Returning
  <2>2. x \notin peers[x] /\ acquired[x] \subseteq peers[x] /\ given[x] \subseteq peers[x]
        /\ peers[x] \subseteq Replications
    BY PeersAssumed DEF AmongPeers
  <2> QED
    BY <2>1, <2>2
<1> QED
  BY <1>1, <1>2, <1>3, LockTypeCorrect, PTL DEF Spec
-----------------------------------------------------------------------------
(* Pairs on FIFO links.  Between two peers at most one request of r to p,  *)
(* or its answer, is under way; r knows that it has the lock.              *)
Single(n, acq, r, p) ==
  /\ p \in acq[r] => ~ Has(n[<<r, p>>], Asks) /\ ~ Has(n[<<p, r>>], LockAnswers)
  /\ p \notin acq[r] => ~ Has(n[<<r, p>>], Returns) /\ ~ Has(n[<<p, r>>], ReturnAnswers)
  /\ ~ (Has(n[<<r, p>>], Requests) /\ Has(n[<<p, r>>], Answers))
  /\ NoneAfter(n[<<r, p>>], Requests, Requests)
  /\ NoneAfter(n[<<p, r>>], Answers, Answers)

(* Who replicates has the lock, and has not begun to return it.            *)
Holding(n, pha, acq, r, p) ==
  pha[r] = "replicating" =>
    p \in acq[r] /\ ~ Has(n[<<r, p>>], Returns) /\ ~ Has(n[<<p, r>>], ReturnAnswers)

(* Who has given its lock has not asked for the other one since; what it   *)
(* has asked for before is answered before the lock comes back.            *)
Barred(n, giv, r, p) ==
  p \in giv[r] =>
    /\ NoneAfter(n[<<r, p>>], Grants, Asks)
    /\ Has(n[<<r, p>>], Grants) \/ ~ Has(n[<<r, p>>], Asks)

AnsweredFirst(n, r, p) == NoneAfter(n[<<r, p>>], Returns, LockAnswers)

(* Who found its peer replicating waits, and is not granted a lock.        *)
Behind(n, pha, que, ahe, r, p) ==
  p \in ahe[r] =>
    /\ pha[p] = "replicating" /\ p \in que[r]
    /\ ~ Has(n[<<r, p>>], Asks) /\ ~ Has(n[<<p, r>>], LockAnswers)

Paired(n, pha, giv, acq, que, ahe, r, p) ==
  /\ Single(n, acq, r, p)
  /\ Holding(n, pha, acq, r, p)
  /\ Barred(n, giv, r, p)
  /\ AnsweredFirst(n, r, p)
  /\ Behind(n, pha, que, ahe, r, p)

PairsInOrder ==
  Pairs /\ overtakes = 0 =>
    \A r \in Replications : \A p \in peers[r] :
      Paired(net, phase, given, acquired, queued, ahead, r, p)

LEMMA Kinds ==
  /\ "lock" \in Messages /\ "lock OK" \in Messages /\ "lock UNAVAILABLE" \in Messages
  /\ "release" \in Messages /\ "release OK" \in Messages
  /\ \A m : /\ m \in Asks <=> m = "lock"
            /\ m \in Returns <=> m = "release"
            /\ m \in Grants <=> m = "lock OK"
            /\ m \in LockAnswers <=> m \in {"lock OK", "lock UNAVAILABLE"}
            /\ m \in ReturnAnswers <=> m = "release OK"
            /\ m \in Requests <=> m \in {"lock", "release"}
            /\ m \in Answers <=> m \in {"lock OK", "lock UNAVAILABLE", "release OK"}
BY DEF Messages, Asks, Returns, Grants, LockAnswers, ReturnAnswers, Requests, Answers

LEMMA HasKinds ==
  ASSUME NEW s
  PROVE  /\ Has(s, Requests) <=> Has(s, Asks) \/ Has(s, Returns)
         /\ Has(s, Answers) <=> Has(s, LockAnswers) \/ Has(s, ReturnAnswers)
         /\ Has(s, Grants) => Has(s, LockAnswers)
         /\ ~ Has(s, Grants) => NoneAfter(s, Grants, Asks)
BY DEF Has, NoneAfter, Asks, Returns, Grants, LockAnswers, ReturnAnswers, Requests, Answers

(* What a message adds to a link at its end, and its head takes away.      *)
LEMMA KindsAppended ==
  ASSUME NEW s \in Seq(Messages), NEW m \in Messages, NEW u, u = Append(s, m)
  PROVE  /\ Has(u, Asks) <=> Has(s, Asks) \/ m \in Asks
         /\ Has(u, Returns) <=> Has(s, Returns) \/ m \in Returns
         /\ Has(u, Grants) <=> Has(s, Grants) \/ m \in Grants
         /\ Has(u, LockAnswers) <=> Has(s, LockAnswers) \/ m \in LockAnswers
         /\ Has(u, ReturnAnswers) <=> Has(s, ReturnAnswers) \/ m \in ReturnAnswers
         /\ NoneAfter(u, Requests, Requests) <=>
              NoneAfter(s, Requests, Requests) /\ (m \in Requests => ~ Has(s, Requests))
         /\ NoneAfter(u, Answers, Answers) <=>
              NoneAfter(s, Answers, Answers) /\ (m \in Answers => ~ Has(s, Answers))
         /\ NoneAfter(u, Grants, Asks) <=>
              NoneAfter(s, Grants, Asks) /\ (m \in Asks => ~ Has(s, Grants))
         /\ NoneAfter(u, Returns, LockAnswers) <=>
              NoneAfter(s, Returns, LockAnswers) /\ (m \in LockAnswers => ~ Has(s, Returns))
BY HasAppend, NoneAfterAppend

LEMMA KindsTaken ==
  ASSUME NEW s \in Seq(Messages), s # <<>>, NEW m, m = Head(s), NEW u, u = Tail(s)
  PROVE  /\ Has(s, Asks) <=> m \in Asks \/ Has(u, Asks)
         /\ Has(s, Returns) <=> m \in Returns \/ Has(u, Returns)
         /\ Has(s, Grants) <=> m \in Grants \/ Has(u, Grants)
         /\ Has(s, LockAnswers) <=> m \in LockAnswers \/ Has(u, LockAnswers)
         /\ Has(s, ReturnAnswers) <=> m \in ReturnAnswers \/ Has(u, ReturnAnswers)
         /\ NoneAfter(s, Requests, Requests) <=>
              NoneAfter(u, Requests, Requests) /\ (m \in Requests => ~ Has(u, Requests))
         /\ NoneAfter(s, Answers, Answers) <=>
              NoneAfter(u, Answers, Answers) /\ (m \in Answers => ~ Has(u, Answers))
         /\ NoneAfter(s, Grants, Asks) <=>
              NoneAfter(u, Grants, Asks) /\ (m \in Grants => ~ Has(u, Asks))
         /\ NoneAfter(s, Returns, LockAnswers) <=>
              NoneAfter(u, Returns, LockAnswers) /\ (m \in Returns => ~ Has(u, LockAnswers))
BY HasTail, NoneAfterTail

(* In pairs a peer has only that peer.                                     *)
LEMMA OnePeer ==
  ASSUME TypeOK, Pairs, NEW r \in Replications, NEW p \in peers[r]
  PROVE  peers[r] = {p} /\ p \in Replications /\ r # p /\ r \in peers[p]
<1>1. /\ peers \in [Replications -> SUBSET Replications]
      /\ r \notin peers[r] /\ r \in peers[p]
  BY PeersAssumed
<1>2. \A q \in peers[r] : q = p
  BY DEF Pairs
<1> QED
  BY <1>1, <1>2

(* A lock that is asked for when nothing is under way.                     *)
LEMMA PairAsked ==
  ASSUME NEW n \in NetType, NEW pha, NEW giv, NEW acq, NEW que, NEW ahe,
         NEW q \in Replications, NEW R,
         \A z \in R : /\ z \notin acq[q] /\ z \notin giv[q] /\ z \notin ahe[q]
                      /\ z \in Replications /\ z # q
                      /\ ~ Has(n[<<q, z>>], Asks) /\ ~ Has(n[<<q, z>>], Returns)
                      /\ ~ Has(n[<<z, q>>], LockAnswers) /\ ~ Has(n[<<z, q>>], ReturnAnswers),
         NEW r \in Replications, NEW p \in Replications, r # p,
         Paired(n, pha, giv, acq, que, ahe, r, p)
  PROVE  Paired(Sent(n, q, R, "lock"), pha, giv, acq, que, ahe, r, p)
<1> DEFINE n1 == Sent(n, q, R, "lock")
           u == n[<<r, p>>]
           v == n[<<p, r>>]
<1>1. /\ n1[<<r, p>>] = IF r = q /\ p \in R THEN Append(n[<<r, p>>], "lock") ELSE n[<<r, p>>]
      /\ n1[<<p, r>>] = IF p = q /\ r \in R THEN Append(n[<<p, r>>], "lock") ELSE n[<<p, r>>]
  BY SentOn
<1>2. u \in Seq(Messages) /\ v \in Seq(Messages)
  BY LinkOf DEF NetType
<1> SUFFICES Paired(n1, pha, giv, acq, que, ahe, r, p)
  OBVIOUS
<1> HIDE DEF n1
<1>3. CASE r = q /\ p \in R
  <2>1. n1[<<r, p>>] = Append(u, "lock") /\ n1[<<p, r>>] = v
    BY <1>1, <1>3
  <2>2. /\ p \notin acq[r] /\ p \notin giv[r] /\ p \notin ahe[r]
        /\ ~ Has(u, Asks) /\ ~ Has(u, Returns) /\ ~ Has(v, LockAnswers) /\ ~ Has(v, ReturnAnswers)
    BY <1>3
  <2>3. Paired(n, pha, giv, acq, que, ahe, r, p)
    OBVIOUS
  <2> HIDE DEF u, v
  <2>4. ~ Has(u, Requests) /\ ~ Has(v, Answers)
    BY <2>2, HasKinds
  <2>5. /\ ~ Has(n1[<<r, p>>], Returns)
        /\ NoneAfter(n1[<<r, p>>], Requests, Requests) <=> NoneAfter(u, Requests, Requests)
        /\ NoneAfter(n1[<<r, p>>], Returns, LockAnswers) <=> NoneAfter(u, Returns, LockAnswers)
    BY <1>2, <2>1, <2>2, <2>4, Kinds, KindsAppended
  <2> QED
    BY <2>1, <2>2, <2>3, <2>4, <2>5
    DEF Paired, Single, Holding, Barred, AnsweredFirst, Behind, u, v
<1>4. CASE p = q /\ r \in R
  <2>1. n1[<<r, p>>] = u /\ n1[<<p, r>>] = Append(v, "lock")
    BY <1>1, <1>4
  <2>2. Paired(n, pha, giv, acq, que, ahe, r, p)
    OBVIOUS
  <2> HIDE DEF u, v
  <2>3. /\ Has(n1[<<p, r>>], LockAnswers) <=> Has(v, LockAnswers)
        /\ Has(n1[<<p, r>>], ReturnAnswers) <=> Has(v, ReturnAnswers)
        /\ NoneAfter(n1[<<p, r>>], Answers, Answers) <=> NoneAfter(v, Answers, Answers)
    BY <1>2, <2>1, Kinds, KindsAppended
  <2>4. Has(n1[<<p, r>>], Answers) <=> Has(v, Answers)
    BY <2>3, HasKinds
  <2> QED
    BY <2>1, <2>2, <2>3, <2>4
    DEF Paired, Single, Holding, Barred, AnsweredFirst, Behind, u, v
<1>5. CASE ~ (r = q /\ p \in R) /\ ~ (p = q /\ r \in R)
  <2>1. n1[<<r, p>>] = u /\ n1[<<p, r>>] = v
    BY <1>1, <1>5
  <2>2. Paired(n, pha, giv, acq, que, ahe, r, p)
    OBVIOUS
  <2> QED
    BY <2>1, <2>2 DEF Paired, Single, Holding, Barred, AnsweredFirst, Behind
<1> QED
  BY <1>3, <1>4, <1>5
-----------------------------------------------------------------------------
PairLoans ==
  \A x \in Replications : \A y \in peers[x] :
    Paired(net, phase, given, acquired, queued, ahead, x, y)

LEMMA PairUntouched ==
  ASSUME NEW x, NEW y, NEW n, NEW pha, NEW giv, NEW acq, NEW que, NEW ahe,
         NEW n1, NEW pha1, NEW giv1, NEW acq1, NEW que1, NEW ahe1,
         Paired(n, pha, giv, acq, que, ahe, x, y),
         n1[<<x, y>>] = n[<<x, y>>], n1[<<y, x>>] = n[<<y, x>>],
         pha1[x] = pha[x], pha1[y] = pha[y], giv1[x] = giv[x], acq1[x] = acq[x],
         que1[x] = que[x], y \in ahe1[x] => y \in ahe[x]
  PROVE  Paired(n1, pha1, giv1, acq1, que1, ahe1, x, y)
BY DEF Paired, Single, Holding, Barred, AnsweredFirst, Behind

(* A peer that replicates has the lock: it is not asked for.               *)
LEMMA ReplicatingIsGiven ==
  ASSUME TypeOK, Loans, Pairs, PairLoans,
         NEW r \in Replications, NEW p \in peers[r], phase[p] = "replicating"
  PROVE  p \in given[r]
<1>1. p \in Replications /\ r # p /\ r \in peers[p]
  BY OnePeer
<1>2. /\ Loaned(net, phase, given, acquired, queued, p, r)
      /\ Paired(net, phase, given, acquired, queued, ahead, p, r)
  BY <1>1 DEF Loans, PairLoans
<1> QED
  BY <1>2 DEF Loaned, Agreed, Paired, Holding

LEMMA LockKeepsPairs ==
  ASSUME TypeOK, Loans, Pairs, PairLoans, NEW r \in Replications, Lock(r)
  PROVE  PairLoans'
<1>0. peers' = peers
  BY DEF Lock
<1> SUFFICES ASSUME NEW x \in Replications, NEW y \in peers[x]
             PROVE  Paired(net', phase', given', acquired', queued', ahead', x, y)
  BY <1>0 DEF PairLoans
<1> DEFINE R == ToAsk(peers[r], acquired[r], given[r])
<1>1. /\ y \in Replications /\ x # y /\ x \in peers[y]
      /\ peers[x] = {y} /\ peers[y] = {x}
  BY OnePeer
<1>2. /\ net \in NetType
      /\ Loaned(net, phase, given, acquired, queued, x, y)
      /\ Loaned(net, phase, given, acquired, queued, y, x)
      /\ Paired(net, phase, given, acquired, queued, ahead, x, y)
  BY <1>1 DEF TypeOK, NetType, Loans, PairLoans
<1>3. /\ phase \in [Replications -> {"ready", "locking", "replicating"}]
      /\ queued \in [Replications -> SUBSET Replications]
      /\ ahead \in [Replications -> SUBSET Replications]
      /\ queued[r] = {} /\ phase[r] = "ready"
      /\ UNCHANGED <<given, acquired>>
      /\ ahead' = [ahead EXCEPT ![r] = {p \in peers[r] : phase[p] = "replicating"}]
  BY DEF TypeOK, Lock
<1>4. CASE x # r /\ y # r
  <2>1. net' = net \/ net' = Sent(net, r, R, "lock")
    BY DEF Lock
  <2>2. net'[<<x, y>>] = net[<<x, y>>] /\ net'[<<y, x>>] = net[<<y, x>>]
    <3> HIDE DEF R
    <3>1. Sent(net, r, R, "lock")[<<x, y>>] = net[<<x, y>>]
      BY <1>1, <1>2, <1>4, SentOn
    <3>2. Sent(net, r, R, "lock")[<<y, x>>] = net[<<y, x>>]
      BY <1>1, <1>2, <1>4, SentOn
    <3> QED
      BY <2>1, <3>1, <3>2
  <2>3. /\ phase'[x] = phase[x] /\ phase'[y] = phase[y] /\ queued'[x] = queued[x]
        /\ ahead'[x] = ahead[x]
    BY <1>1, <1>3, <1>4 DEF Lock
  <2>4. /\ given'[x] = given[x] /\ acquired'[x] = acquired[x]
        /\ y \in ahead'[x] => y \in ahead[x]
        /\ Paired(net, phase, given, acquired, queued, ahead, x, y)
    BY <1>2, <1>3, <2>3
  <2> QED
    BY <2>2, <2>3, <2>4, PairUntouched
<1>5. CASE x = r \/ y = r
  <2>1. peers[r] # {}
    BY <1>1, <1>5
  <2>2. /\ phase' = [phase EXCEPT ![r] = "locking"]
        /\ queued' = [queued EXCEPT ![r] = peers[r]]
        /\ net' = Sent(net, r, R, "lock")
    BY <2>1 DEF Lock
  <2> HIDE DEF R
  <2>3. Paired(net, phase', given', acquired', queued', ahead', x, y)
    <3>1. CASE x = r
      <4>1. y \notin acquired[x] => ~ Has(net[<<x, y>>], Asks) /\ ~ Has(net[<<y, x>>], LockAnswers)
        BY <1>2, <1>3, <3>1 DEF Loaned, Wanted
      <4>2. /\ phase'[x] # "replicating" /\ y \in queued'[x]
            /\ y \in ahead'[x] => phase'[y] = "replicating"
        BY <1>1, <1>3, <2>2, <3>1
      <4> QED
        BY <1>2, <1>3, <4>1, <4>2 DEF Paired, Single, Holding, Barred, AnsweredFirst, Behind
    <3>2. CASE y = r
      <4>1. phase[y] # "replicating" /\ phase'[x] = phase[x] /\ ahead'[x] = ahead[x]
        BY <1>1, <1>3, <2>2, <3>2
      <4> QED
        BY <1>2, <1>3, <4>1 DEF Paired, Single, Holding, Barred, AnsweredFirst, Behind
    <3> QED
      BY <1>5, <3>1, <3>2
  <2>4. ASSUME NEW z \in R
        PROVE  /\ z \notin acquired'[r] /\ z \notin given'[r] /\ z \notin ahead'[r]
               /\ z \in Replications /\ z # r
               /\ ~ Has(net[<<r, z>>], Asks) /\ ~ Has(net[<<r, z>>], Returns)
               /\ ~ Has(net[<<z, r>>], LockAnswers) /\ ~ Has(net[<<z, r>>], ReturnAnswers)
    <3>1. z \in peers[r] /\ z \notin acquired[r] /\ z \notin given[r]
      BY DEF R, ToAsk
    <3>2. z \in Replications /\ r # z
      BY <3>1, OnePeer
    <3>3. phase[z] # "replicating"
      BY <3>1, ReplicatingIsGiven
    <3>4. z \notin ahead'[r]
      BY <1>3, <3>3
    <3>5. /\ Loaned(net, phase, given, acquired, queued, r, z)
          /\ Paired(net, phase, given, acquired, queued, ahead, r, z)
      BY <3>1, <3>2 DEF Loans, PairLoans
    <3> QED
      BY <1>3, <3>1, <3>2, <3>4, <3>5 DEF Loaned, Wanted, Paired, Single
  <2>5. Paired(Sent(net, r, R, "lock"), phase', given', acquired', queued', ahead', x, y)
    BY <1>1, <1>2, <2>3, <2>4, PairAsked
  <2> QED
    BY <2>2, <2>5
<1> QED
  BY <1>4, <1>5

LEMMA ReplicatedKeepsPairs ==
  ASSUME TypeOK, Loans, Pairs, PairLoans, AmongPeers, NEW r \in Replications, Replicated(r)
  PROVE  PairLoans'
<1>0. peers' = peers
  BY DEF Replicated
<1> SUFFICES ASSUME NEW x \in Replications, NEW y \in peers[x]
             PROVE  Paired(net', phase', given', acquired', queued', ahead', x, y)
  BY <1>0 DEF PairLoans
<1> DEFINE u == net[<<x, y>>]
           v == net[<<y, x>>]
<1>1. /\ y \in Replications /\ x # y /\ x \in peers[y]
      /\ peers[x] = {y} /\ peers[y] = {x}
  BY OnePeer
<1>2. /\ net \in NetType
      /\ Paired(net, phase, given, acquired, queued, ahead, x, y)
      /\ Paired(net, phase, given, acquired, queued, ahead, y, x)
  BY <1>1 DEF TypeOK, NetType, PairLoans
<1>3. /\ phase[r] = "replicating"
      /\ phase \in [Replications -> {"ready", "locking", "replicating"}]
      /\ phase' = [phase EXCEPT ![r] = "ready"]
      /\ UNCHANGED <<given, acquired, queued>>
      /\ ahead' = [p \in Replications |-> ahead[p] \ {r}]
  BY DEF TypeOK, Replicated
<1>4. /\ net'[<<x, y>>] = IF x = r /\ y \in acquired[r] THEN Append(u, "release") ELSE u
      /\ net'[<<y, x>>] = IF y = r /\ x \in acquired[r] THEN Append(v, "release") ELSE v
  BY <1>1, <1>2, SentOn DEF Replicated
<1>5. u \in Seq(Messages) /\ v \in Seq(Messages)
  BY <1>1, <1>2, LinkOf DEF NetType
<1>6. y \in ahead'[x] => y \in ahead[x] /\ y # r
  BY <1>3
<1>7. CASE x = r
  <2>1. y \in acquired[x] /\ ~ Has(u, Returns) /\ ~ Has(v, ReturnAnswers)
    BY <1>2, <1>3, <1>7 DEF Paired, Holding
  <2>2. ~ Has(u, Asks) /\ ~ Has(v, LockAnswers)
    BY <1>2, <2>1 DEF Paired, Single
  <2>3. net'[<<x, y>>] = Append(u, "release") /\ net'[<<y, x>>] = v
    BY <1>1, <1>4, <1>7, <2>1
  <2>4. phase'[x] = "ready" /\ phase'[y] = phase[y]
    BY <1>1, <1>3, <1>7
  <2> HIDE DEF u, v
  <2>5. ~ Has(u, Requests) /\ ~ Has(v, Answers)
    BY <2>1, <2>2, HasKinds
  <2>6. /\ ~ Has(net'[<<x, y>>], Asks)
        /\ Has(net'[<<x, y>>], Grants) <=> Has(u, Grants)
        /\ NoneAfter(net'[<<x, y>>], Requests, Requests) <=> NoneAfter(u, Requests, Requests)
        /\ NoneAfter(net'[<<x, y>>], Grants, Asks) <=> NoneAfter(u, Grants, Asks)
        /\ NoneAfter(net'[<<x, y>>], Returns, LockAnswers) <=> NoneAfter(u, Returns, LockAnswers)
    BY <1>5, <2>2, <2>3, <2>5, Kinds, KindsAppended
  <2>7. Paired(net, phase, given, acquired, queued, ahead, x, y)
    BY <1>2
  <2> QED
    BY <1>3, <1>6, <2>1, <2>2, <2>3, <2>4, <2>5, <2>6, <2>7
    DEF Paired, Single, Holding, Barred, AnsweredFirst, Behind, u, v
<1>8. CASE y = r
  <2>1. net'[<<x, y>>] = u
    BY <1>1, <1>4, <1>8
  <2>2. y \notin ahead'[x] /\ phase'[x] = phase[x]
    BY <1>1, <1>3, <1>8
  <2>3. net'[<<y, x>>] = v \/ net'[<<y, x>>] = Append(v, "release")
    BY <1>4
  <2>4. Paired(net, phase, given, acquired, queued, ahead, x, y)
    BY <1>2
  <2> HIDE DEF u, v
  <2>5. /\ Has(net'[<<y, x>>], LockAnswers) <=> Has(v, LockAnswers)
        /\ Has(net'[<<y, x>>], ReturnAnswers) <=> Has(v, ReturnAnswers)
        /\ NoneAfter(net'[<<y, x>>], Answers, Answers) <=> NoneAfter(v, Answers, Answers)
    BY <1>5, <2>3, Kinds, KindsAppended
  <2>6. Has(net'[<<y, x>>], Answers) <=> Has(v, Answers)
    BY <2>5, HasKinds
  <2> QED
    BY <1>3, <2>1, <2>2, <2>4, <2>5, <2>6
    DEF Paired, Single, Holding, Barred, AnsweredFirst, Behind, u, v
<1>9. CASE x # r /\ y # r
  <2>1. phase'[x] = phase[x] /\ phase'[y] = phase[y]
    BY <1>1, <1>3, <1>9
  <2>2. net'[<<x, y>>] = net[<<x, y>>] /\ net'[<<y, x>>] = net[<<y, x>>]
    BY <1>4, <1>9
  <2> QED
    BY <1>2, <1>3, <1>6, <2>1, <2>2, PairUntouched
<1> QED
  BY <1>7, <1>8, <1>9
(* A message is a matter of the two peers.                                 *)
LEMMA PeersOfMessage ==
  ASSUME TypeOK, Loans, Pairs, PairLoans, AmongPeers,
         NEW r \in Replications, NEW p \in Replications, r # p, net[<<p, r>>] # <<>>
  PROVE  /\ peers[r] = {p} /\ peers[p] = {r}
         /\ Loaned(net, phase, given, acquired, queued, r, p)
         /\ Loaned(net, phase, given, acquired, queued, p, r)
         /\ Paired(net, phase, given, acquired, queued, ahead, r, p)
         /\ Paired(net, phase, given, acquired, queued, ahead, p, r)
         /\ net \in NetType
         /\ net[<<r, p>>] \in Seq(Messages) /\ net[<<p, r>>] \in Seq(Messages)
<1>1. r \in peers[p]
  BY DEF AmongPeers, OnPeers
<1>2. peers[p] = {r} /\ p \in peers[r]
  BY <1>1, OnePeer
<1>3. peers[r] = {p}
  BY <1>2, OnePeer
<1>4. net \in NetType
  BY DEF TypeOK, NetType
<1>5. net[<<r, p>>] \in Seq(Messages) /\ net[<<p, r>>] \in Seq(Messages)
  BY <1>4, LinkOf DEF NetType
<1> QED
  BY <1>2, <1>3, <1>4, <1>5 DEF Loans, PairLoans

LEMMA ReceiveElsewhere ==
  ASSUME TypeOK, Loans, Pairs, PairLoans, AmongPeers,
         NEW r \in Replications, NEW p \in Replications, r # p, Receive(r, p),
         Paired(net', phase', given', acquired', queued', ahead', r, p),
         Paired(net', phase', given', acquired', queued', ahead', p, r)
  PROVE  PairLoans'
<1>1. net[<<p, r>>] # <<>> /\ peers' = peers /\ ahead' = ahead
  BY DEF Receive, TryLock, Granted, Refused, Release, Released, IsNext
<1>2. peers[r] = {p} /\ peers[p] = {r} /\ net \in NetType
  BY <1>1, PeersOfMessage
<1> SUFFICES ASSUME NEW x \in Replications, NEW y \in peers[x]
             PROVE  Paired(net', phase', given', acquired', queued', ahead', x, y)
  BY <1>1 DEF PairLoans
<1>3. /\ y \in Replications /\ x # y /\ peers[x] = {y} /\ peers[y] = {x}
  BY OnePeer
<1>4. CASE x = r \/ y = r
  BY <1>2, <1>3, <1>4
<1>5. CASE x # r /\ y # r
  <2>1. x # p /\ y # p
    BY <1>2, <1>3, <1>5
  <2>2. /\ phase \in [Replications -> {"ready", "locking", "replicating"}]
        /\ given \in [Replications -> SUBSET Replications]
        /\ acquired \in [Replications -> SUBSET Replications]
        /\ queued \in [Replications -> SUBSET Replications]
    BY DEF TypeOK
  <2>3. <<p, r>> \in Link /\ <<r, p>> \in Link
    BY LinkOf
  <2> DEFINE n1 == [net EXCEPT ![<<p, r>>] = Tail(@)]
  <2>4. n1 \in NetType /\ n1[<<x, y>>] = net[<<x, y>>] /\ n1[<<y, x>>] = net[<<y, x>>]
    <3>1. n1 \in NetType
      BY <1>1, <1>2, <2>3, TailType
    <3> QED
      BY <1>2, <1>3, <1>5, <2>3, <3>1, LinkOf DEF NetType
  <2>5. ASSUME NEW m \in Messages
        PROVE  /\ Answered(r, p, m) \in NetType
               /\ Answered(r, p, m)[<<x, y>>] = net[<<x, y>>]
               /\ Answered(r, p, m)[<<y, x>>] = net[<<y, x>>]
    <3>1. Answered(r, p, m) \in NetType
      BY <1>1, <1>2, <2>3, AnsweredType
    <3>2. Answered(r, p, m)[<<x, y>>] = IF x = p /\ y = r THEN Tail(net[<<x, y>>])
                       ELSE IF x = r /\ y = p THEN Append(net[<<x, y>>], m)
                       ELSE net[<<x, y>>]
      BY <1>2, <1>3, AnsweredOn
    <3>3. Answered(r, p, m)[<<y, x>>] = IF y = p /\ x = r THEN Tail(net[<<y, x>>])
                       ELSE IF y = r /\ x = p THEN Append(net[<<y, x>>], m)
                       ELSE net[<<y, x>>]
      BY <1>2, <1>3, AnsweredOn
    <3> QED
      BY <1>5, <3>1, <3>2, <3>3
  <2>6. ASSUME NEW n \in NetType, NEW R
        PROVE  /\ Sent(n, r, R, "lock")[<<x, y>>] = n[<<x, y>>]
               /\ Sent(n, r, R, "lock")[<<y, x>>] = n[<<y, x>>]
    <3>1. Sent(n, r, R, "lock")[<<x, y>>] = n[<<x, y>>]
      BY <1>3, <1>5, SentOn
    <3>2. Sent(n, r, R, "lock")[<<y, x>>] = n[<<y, x>>]
      BY <1>3, <1>5, SentOn
    <3> QED
      BY <3>1, <3>2
  <2>7. net'[<<x, y>>] = net[<<x, y>>] /\ net'[<<y, x>>] = net[<<y, x>>]
    <3>1. CASE TryLock(r, p)
      <4>1. PICK m \in Messages : net' = Answered(r, p, m)
        BY <3>1 DEF TryLock, Messages
      <4> QED
        BY <2>5, <4>1
    <3>2. CASE Granted(r, p) \/ Refused(r, p)
      BY <2>4, <3>2 DEF Granted, Refused
    <3>3. CASE Release(r, p)
      <4>1. PICK m \in Messages : m = "release OK"
        BY DEF Messages
      <4>2. \/ net' = Answered(r, p, m)
            \/ net' = Sent(Answered(r, p, m), r, ToAsk(queued[r], acquired[r], given'[r]), "lock")
        BY <3>3, <4>1 DEF Release
      <4>3. /\ Answered(r, p, m) \in NetType
            /\ Answered(r, p, m)[<<x, y>>] = net[<<x, y>>]
            /\ Answered(r, p, m)[<<y, x>>] = net[<<y, x>>]
        BY <2>5
      <4> QED
        BY <2>6, <4>2, <4>3
    <3>4. CASE Released(r, p)
      <4>1. \/ net' = n1
            \/ net' = Sent(n1, r, ToAsk(queued[r], acquired'[r], given[r]), "lock")
        BY <3>4 DEF Released
      <4> HIDE DEF n1
      <4> QED
        BY <2>4, <2>6, <4>1
    <3> QED
      BY <3>1, <3>2, <3>3, <3>4 DEF Receive
  <2>8. /\ phase'[x] = phase[x] /\ phase'[y] = phase[y] /\ given'[x] = given[x]
        /\ acquired'[x] = acquired[x] /\ queued'[x] = queued[x]
    BY <1>3, <1>5, <2>2 DEF Receive, TryLock, Granted, Refused, Release, Released
  <2>9. Paired(net, phase, given, acquired, queued, ahead, x, y) /\ ahead'[x] = ahead[x]
    BY <1>1 DEF PairLoans
  <2> QED
    BY <2>7, <2>8, <2>9, PairUntouched
<1> QED
  BY <1>4, <1>5
LEMMA TryLockKeepsPairs ==
  ASSUME TypeOK, Loans, Pairs, PairLoans, AmongPeers,
         NEW r \in Replications, NEW p \in Replications, r # p, TryLock(r, p)
  PROVE  PairLoans'
<1> DEFINE u == net[<<r, p>>]
           v == net[<<p, r>>]
           u1 == net'[<<r, p>>]
           v1 == net'[<<p, r>>]
<1>1. /\ v # <<>> /\ Head(v) = "lock"
      /\ UNCHANGED <<phase, acquired, queued, ahead>>
      /\ given \in [Replications -> SUBSET Replications]
  BY DEF TryLock, IsNext, TypeOK
<1>2. PICK m \in LockAnswers :
        /\ net' = Answered(r, p, m)
        /\ given' = IF m = "lock OK" THEN [given EXCEPT ![r] = @ \cup {p}] ELSE given
  BY DEF TryLock, LockAnswers
<1>3. m \in Messages /\ m \in Answers
  BY DEF LockAnswers, Answers, Messages
<1>4. /\ Loaned(net, phase, given, acquired, queued, r, p)
      /\ Paired(net, phase, given, acquired, queued, ahead, r, p)
      /\ Paired(net, phase, given, acquired, queued, ahead, p, r)
      /\ u \in Seq(Messages) /\ v \in Seq(Messages) /\ net \in NetType
  BY <1>1, PeersOfMessage
<1>5. u1 = Append(u, m) /\ v1 = Tail(v)
  <2>1. /\ Answered(r, p, m)[<<r, p>>] = Append(net[<<r, p>>], m)
        /\ Answered(r, p, m)[<<p, r>>] = Tail(net[<<p, r>>])
    BY <1>3, <1>4, AnsweredPair
  <2> QED
    BY <1>2, <2>1
<1>6. given'[p] = given[p] /\ (p \in given'[r] => p \in given[r] \/ m \in Grants)
  BY <1>1, <1>2, Kinds
<1> HIDE DEF u, v, u1, v1
<1>7. /\ ~ Has(v, Requests) \/ ~ Has(v1, Requests)
      /\ Has(v, Asks)
      /\ Has(v, Returns) <=> Has(v1, Returns)
      /\ Has(v, Grants) <=> Has(v1, Grants)
      /\ Has(v, LockAnswers) <=> Has(v1, LockAnswers)
      /\ Has(v, ReturnAnswers) <=> Has(v1, ReturnAnswers)
      /\ NoneAfter(v, Requests, Requests) => NoneAfter(v1, Requests, Requests) /\ ~ Has(v1, Requests)
      /\ NoneAfter(v, Answers, Answers) <=> NoneAfter(v1, Answers, Answers)
      /\ NoneAfter(v, Grants, Asks) <=> NoneAfter(v1, Grants, Asks)
      /\ NoneAfter(v, Returns, LockAnswers) <=> NoneAfter(v1, Returns, LockAnswers)
  <2>1. NoneAfter(v, Requests, Requests)
    BY <1>4 DEF Paired, Single, v
  <2> QED
    BY <1>1, <1>4, <1>5, <2>1, Kinds, KindsTaken
<1>8. /\ Has(u1, Asks) <=> Has(u, Asks)
      /\ Has(u1, Returns) <=> Has(u, Returns)
      /\ Has(u1, Grants) <=> Has(u, Grants) \/ m \in Grants
      /\ Has(u1, LockAnswers)
      /\ Has(u1, ReturnAnswers) <=> Has(u, ReturnAnswers)
      /\ NoneAfter(u1, Requests, Requests) <=> NoneAfter(u, Requests, Requests)
      /\ NoneAfter(u1, Answers, Answers) <=> NoneAfter(u, Answers, Answers) /\ ~ Has(u, Answers)
      /\ NoneAfter(u1, Grants, Asks) <=> NoneAfter(u, Grants, Asks)
      /\ NoneAfter(u1, Returns, LockAnswers) <=>
           NoneAfter(u, Returns, LockAnswers) /\ ~ Has(u, Returns)
  BY <1>3, <1>4, <1>5, Kinds, KindsAppended
<1>9. /\ Has(u, Requests) <=> Has(u, Asks) \/ Has(u, Returns)
      /\ Has(u1, Requests) <=> Has(u1, Asks) \/ Has(u1, Returns)
      /\ Has(v, Requests) <=> Has(v, Asks) \/ Has(v, Returns)
      /\ Has(v1, Requests) <=> Has(v1, Asks) \/ Has(v1, Returns)
      /\ Has(u, Answers) <=> Has(u, LockAnswers) \/ Has(u, ReturnAnswers)
      /\ Has(v, Answers) <=> Has(v, LockAnswers) \/ Has(v, ReturnAnswers)
      /\ Has(v1, Answers) <=> Has(v1, LockAnswers) \/ Has(v1, ReturnAnswers)
      /\ Has(u, Grants) => Has(u, LockAnswers)
      /\ Has(v, Grants) => Has(v, LockAnswers)
      /\ ~ Has(u, Grants) => NoneAfter(u, Grants, Asks)
  BY HasKinds
<1>10. /\ r \notin acquired[p] /\ ~ Has(v, Returns)
       /\ ~ Has(u, Answers) /\ ~ Has(v1, Requests) /\ r \notin ahead[p]
  BY <1>4, <1>7, <1>9 DEF Paired, Single, Behind, u, v
<1>11. ~ Has(u, Returns)
  <2> SUFFICES ASSUME Has(u, Returns) PROVE FALSE
    OBVIOUS
  <2>1. p \in acquired[r] /\ ~ Has(v, Answers)
    BY <1>4, <1>9 DEF Paired, Single, u, v
  <2>2. r \in given[p]
    BY <1>4, <1>9, <2>1 DEF Loaned, Agreed, v
  <2>3. Has(v, Grants)
    BY <1>4, <1>7, <2>2 DEF Paired, Barred, v
  <2> QED
    BY <1>9, <2>1, <2>3
<1>12. Paired(net', phase', given', acquired', queued', ahead', p, r)
  BY <1>1, <1>4, <1>6, <1>7, <1>8, <1>9, <1>10
  DEF Paired, Single, Holding, Barred, AnsweredFirst, Behind, u, v, u1, v1
<1>13. Paired(net', phase', given', acquired', queued', ahead', r, p)
  BY <1>1, <1>4, <1>6, <1>7, <1>8, <1>9, <1>10, <1>11
  DEF Paired, Single, Holding, Barred, AnsweredFirst, Behind, u, v, u1, v1
<1> QED
  BY <1>12, <1>13, ReceiveElsewhere DEF Receive

LEMMA GrantedKeepsPairs ==
  ASSUME TypeOK, Loans, Pairs, PairLoans, AmongPeers,
         NEW r \in Replications, NEW p \in Replications, r # p,
         Granted(r, p) \/ Refused(r, p)
  PROVE  PairLoans'
<1> DEFINE u == net[<<r, p>>]
           v == net[<<p, r>>]
           u1 == net'[<<r, p>>]
           v1 == net'[<<p, r>>]
<1>1. /\ v # <<>> /\ Head(v) \in LockAnswers
      /\ net' = [net EXCEPT ![<<p, r>>] = Tail(@)]
      /\ UNCHANGED <<given, ahead>>
  BY DEF Granted, Refused, IsNext, LockAnswers
<1>2. /\ acquired'[p] = acquired[p] /\ queued'[p] = queued[p]
      /\ phase'[p] = phase[p]
      /\ phase[r] = "replicating" => phase'[r] = "replicating"
      /\ \/ p \in acquired'[r]
         \/ acquired'[r] = acquired[r] /\ phase'[r] = phase[r]
  <2>1. /\ acquired \in [Replications -> SUBSET Replications]
        /\ queued \in [Replications -> SUBSET Replications]
        /\ phase \in [Replications -> {"ready", "locking", "replicating"}]
    BY DEF TypeOK
  <2>2. CASE Granted(r, p)
    <3>1. /\ acquired' = [acquired EXCEPT ![r] = @ \cup {p}]
          /\ queued' = [queued EXCEPT ![r] = @ \ {p}]
          /\ phase' = phase \/ phase' = [phase EXCEPT ![r] = "replicating"]
      BY <2>2 DEF Granted
    <3> QED
      BY <2>1, <3>1
  <2>3. CASE Refused(r, p)
    BY <2>3 DEF Refused
  <2> QED
    BY <2>2, <2>3
<1>3. /\ Paired(net, phase, given, acquired, queued, ahead, r, p)
      /\ Paired(net, phase, given, acquired, queued, ahead, p, r)
      /\ u \in Seq(Messages) /\ v \in Seq(Messages) /\ net \in NetType
  BY <1>1, PeersOfMessage
<1>4. u1 = u /\ v1 = Tail(v)
  BY <1>1, <1>3, LinkOf DEF NetType
<1> HIDE DEF u, v, u1, v1
<1>5. /\ Has(v, LockAnswers)
      /\ Has(v, Asks) <=> Has(v1, Asks)
      /\ Has(v, Returns) <=> Has(v1, Returns)
      /\ Has(v, Grants) <=> Has(v1, Grants) \/ Head(v) \in Grants
      /\ Has(v, ReturnAnswers) <=> Has(v1, ReturnAnswers)
      /\ NoneAfter(v, Requests, Requests) <=> NoneAfter(v1, Requests, Requests)
      /\ NoneAfter(v, Answers, Answers) <=>
           NoneAfter(v1, Answers, Answers) /\ ~ Has(v1, Answers)
      /\ NoneAfter(v, Grants, Asks) <=>
           NoneAfter(v1, Grants, Asks) /\ (Head(v) \in Grants => ~ Has(v1, Asks))
      /\ NoneAfter(v, Returns, LockAnswers) <=> NoneAfter(v1, Returns, LockAnswers)
  BY <1>1, <1>3, <1>4, Kinds, KindsTaken
<1>6. /\ Has(u, Requests) <=> Has(u, Asks) \/ Has(u, Returns)
      /\ Has(v, Requests) <=> Has(v, Asks) \/ Has(v, Returns)
      /\ Has(v1, Requests) <=> Has(v1, Asks) \/ Has(v1, Returns)
      /\ Has(v, Answers) <=> Has(v, LockAnswers) \/ Has(v, ReturnAnswers)
      /\ Has(v1, Answers) <=> Has(v1, LockAnswers) \/ Has(v1, ReturnAnswers)
  BY HasKinds
<1>7. /\ p \notin acquired[r] /\ ~ Has(u, Requests) /\ ~ Has(v1, Answers)
      /\ p \notin ahead[r]
  BY <1>3, <1>5, <1>6 DEF Paired, Single, Behind, u, v
<1>8. Paired(net', phase', given', acquired', queued', ahead', r, p)
  BY <1>1, <1>2, <1>3, <1>4, <1>5, <1>6, <1>7
  DEF Paired, Single, Holding, Barred, AnsweredFirst, Behind, u, v, u1, v1
<1>9. Paired(net', phase', given', acquired', queued', ahead', p, r)
  BY <1>1, <1>2, <1>3, <1>4, <1>5, <1>6
  DEF Paired, Single, Holding, Barred, AnsweredFirst, Behind, u, v, u1, v1
<1> QED
  BY <1>8, <1>9, ReceiveElsewhere DEF Receive
LEMMA ReleaseKeepsPairs ==
  ASSUME TypeOK, Loans, Pairs, PairLoans, AmongPeers,
         NEW r \in Replications, NEW p \in Replications, r # p, Release(r, p)
  PROVE  PairLoans'
<1> DEFINE n1 == Answered(r, p, "release OK")
           R == ToAsk(queued[r], acquired[r], given'[r])
           u == net[<<r, p>>]
           v == net[<<p, r>>]
           u1 == n1[<<r, p>>]
           v1 == n1[<<p, r>>]
           m == "release OK"
<1>1. /\ v # <<>> /\ Head(v) = "release"
      /\ UNCHANGED <<phase, acquired, queued, ahead>>
      /\ given \in [Replications -> SUBSET Replications]
      /\ queued[r] \subseteq peers[r]
      /\ given' = [given EXCEPT ![r] = @ \ {p}]
      /\ net' = IF p \in given[r] THEN Sent(n1, r, R, "lock") ELSE n1
  BY DEF Release, IsNext, TypeOK, AmongPeers
<1>2. m \in Messages
  BY Kinds
<1>3. /\ peers[r] = {p}
      /\ Paired(net, phase, given, acquired, queued, ahead, r, p)
      /\ Paired(net, phase, given, acquired, queued, ahead, p, r)
      /\ u \in Seq(Messages) /\ v \in Seq(Messages) /\ net \in NetType
  BY <1>1, PeersOfMessage
<1>4. n1 \in NetType
  BY <1>1, <1>2, <1>3, LinkOf, AnsweredType
<1>5. u1 = Append(u, m) /\ v1 = Tail(v)
  BY <1>2, <1>3, AnsweredPair
<1>6. given'[p] = given[p] /\ p \notin given'[r]
  BY <1>1
<1> HIDE DEF n1, u, v, u1, v1, R, m
<1>7. /\ Has(v, Returns)
      /\ Has(v, Asks) <=> Has(v1, Asks)
      /\ Has(v, Grants) <=> Has(v1, Grants)
      /\ Has(v, LockAnswers) <=> Has(v1, LockAnswers)
      /\ Has(v, ReturnAnswers) <=> Has(v1, ReturnAnswers)
      /\ NoneAfter(v, Requests, Requests) <=>
           NoneAfter(v1, Requests, Requests) /\ ~ Has(v1, Requests)
      /\ NoneAfter(v, Answers, Answers) <=> NoneAfter(v1, Answers, Answers)
      /\ NoneAfter(v, Grants, Asks) <=> NoneAfter(v1, Grants, Asks)
      /\ NoneAfter(v, Returns, LockAnswers) <=>
           NoneAfter(v1, Returns, LockAnswers) /\ ~ Has(v1, LockAnswers)
  BY <1>1, <1>3, <1>5, Kinds, KindsTaken
<1>8. /\ Has(u1, Asks) <=> Has(u, Asks)
      /\ Has(u1, Returns) <=> Has(u, Returns)
      /\ Has(u1, Grants) <=> Has(u, Grants)
      /\ Has(u1, LockAnswers) <=> Has(u, LockAnswers)
      /\ Has(u1, ReturnAnswers)
      /\ NoneAfter(u1, Requests, Requests) <=> NoneAfter(u, Requests, Requests)
      /\ NoneAfter(u1, Answers, Answers) <=> NoneAfter(u, Answers, Answers) /\ ~ Has(u, Answers)
      /\ NoneAfter(u1, Returns, LockAnswers) <=> NoneAfter(u, Returns, LockAnswers)
  BY <1>2, <1>3, <1>5, Kinds, KindsAppended DEF m
<1>9. /\ Has(u, Requests) <=> Has(u, Asks) \/ Has(u, Returns)
      /\ Has(u1, Requests) <=> Has(u1, Asks) \/ Has(u1, Returns)
      /\ Has(v, Requests) <=> Has(v, Asks) \/ Has(v, Returns)
      /\ Has(v1, Requests) <=> Has(v1, Asks) \/ Has(v1, Returns)
      /\ Has(u, Answers) <=> Has(u, LockAnswers) \/ Has(u, ReturnAnswers)
      /\ Has(u1, Answers) <=> Has(u1, LockAnswers) \/ Has(u1, ReturnAnswers)
      /\ Has(v, Answers) <=> Has(v, LockAnswers) \/ Has(v, ReturnAnswers)
      /\ Has(v1, Answers) <=> Has(v1, LockAnswers) \/ Has(v1, ReturnAnswers)
      /\ Has(u, Grants) => Has(u, LockAnswers)
  BY HasKinds
<1>10. /\ r \in acquired[p] /\ ~ Has(v1, Requests) /\ ~ Has(u, Answers)
       /\ phase[p] # "replicating" /\ p \notin ahead[r]
  BY <1>3, <1>7, <1>9 DEF Paired, Single, Holding, Behind, u, v
<1>11. Paired(n1, phase', given', acquired', queued', ahead', p, r)
  BY <1>1, <1>3, <1>6, <1>7, <1>8, <1>9, <1>10
  DEF Paired, Single, Holding, Barred, AnsweredFirst, Behind, u, v, u1, v1
<1>12. Paired(n1, phase', given', acquired', queued', ahead', r, p)
  BY <1>1, <1>3, <1>6, <1>7, <1>8, <1>9, <1>10
  DEF Paired, Single, Holding, Barred, AnsweredFirst, Behind, u, v, u1, v1
<1>13. CASE p \notin given[r]
  BY <1>1, <1>11, <1>12, <1>13, ReceiveElsewhere DEF Receive
<1>14. CASE p \in given[r]
  <2>1. /\ ~ Has(u, Asks) /\ ~ Has(v1, LockAnswers)
        /\ p \notin acquired[r] => ~ Has(u, Returns) /\ ~ Has(v, ReturnAnswers)
    BY <1>3, <1>7, <1>9, <1>10, <1>14
    DEF Paired, Single, Barred, AnsweredFirst, u, v
  <2>2. ASSUME NEW z \in R
        PROVE  /\ z \notin acquired'[r] /\ z \notin given'[r] /\ z \notin ahead'[r]
               /\ z \in Replications /\ z # r
               /\ ~ Has(n1[<<r, z>>], Asks) /\ ~ Has(n1[<<r, z>>], Returns)
               /\ ~ Has(n1[<<z, r>>], LockAnswers) /\ ~ Has(n1[<<z, r>>], ReturnAnswers)
    <3>1. z = p /\ z \notin acquired[r]
      BY <1>1, <1>3 DEF R, ToAsk
    <3> QED
      BY <1>1, <1>6, <1>7, <1>8, <1>10, <2>1, <3>1 DEF u1, v1
  <2>3. Paired(Sent(n1, r, R, "lock"), phase', given', acquired', queued', ahead', r, p)
    BY <1>4, <1>12, <2>2, PairAsked
  <2>4. Paired(Sent(n1, r, R, "lock"), phase', given', acquired', queued', ahead', p, r)
    BY <1>4, <1>11, <2>2, PairAsked
  <2> QED
    BY <1>1, <1>14, <2>3, <2>4, ReceiveElsewhere DEF Receive
<1> QED
  BY <1>13, <1>14

LEMMA ReleasedKeepsPairs ==
  ASSUME TypeOK, Loans, Pairs, PairLoans, AmongPeers,
         NEW r \in Replications, NEW p \in Replications, r # p, Released(r, p)
  PROVE  PairLoans'
<1> DEFINE n1 == [net EXCEPT ![<<p, r>>] = Tail(@)]
           R == ToAsk(queued[r], acquired'[r], given[r])
           u == net[<<r, p>>]
           v == net[<<p, r>>]
           v1 == n1[<<p, r>>]
<1>1. /\ v # <<>> /\ Head(v) = "release OK"
      /\ UNCHANGED <<phase, given, queued, ahead>>
      /\ acquired \in [Replications -> SUBSET Replications]
      /\ queued[r] \subseteq peers[r]
      /\ acquired' = [acquired EXCEPT ![r] = @ \ {p}]
      /\ net' = n1 \/ net' = Sent(n1, r, R, "lock")
  BY DEF Released, IsNext, TypeOK, AmongPeers
<1>2. /\ peers[r] = {p}
      /\ Loaned(net, phase, given, acquired, queued, p, r)
      /\ Paired(net, phase, given, acquired, queued, ahead, r, p)
      /\ Paired(net, phase, given, acquired, queued, ahead, p, r)
      /\ u \in Seq(Messages) /\ v \in Seq(Messages) /\ net \in NetType
  BY <1>1, PeersOfMessage
<1>3. n1 \in NetType
  BY <1>1, <1>2, LinkOf, TailType
<1>4. n1[<<r, p>>] = u /\ v1 = Tail(v)
  BY <1>2, LinkOf DEF NetType
<1>5. acquired'[p] = acquired[p] /\ p \notin acquired'[r]
  BY <1>1
<1> HIDE DEF n1, u, v, v1, R
<1>6. /\ Has(v, ReturnAnswers)
      /\ Has(v, Asks) <=> Has(v1, Asks)
      /\ Has(v, Returns) <=> Has(v1, Returns)
      /\ Has(v, Grants) <=> Has(v1, Grants)
      /\ Has(v, LockAnswers) <=> Has(v1, LockAnswers)
      /\ NoneAfter(v, Requests, Requests) <=> NoneAfter(v1, Requests, Requests)
      /\ NoneAfter(v, Answers, Answers) <=>
           NoneAfter(v1, Answers, Answers) /\ ~ Has(v1, Answers)
      /\ NoneAfter(v, Grants, Asks) <=> NoneAfter(v1, Grants, Asks)
      /\ NoneAfter(v, Returns, LockAnswers) <=> NoneAfter(v1, Returns, LockAnswers)
  BY <1>1, <1>2, <1>4, Kinds, KindsTaken
<1>7. /\ Has(u, Requests) <=> Has(u, Asks) \/ Has(u, Returns)
      /\ Has(v, Requests) <=> Has(v, Asks) \/ Has(v, Returns)
      /\ Has(v1, Requests) <=> Has(v1, Asks) \/ Has(v1, Returns)
      /\ Has(v, Answers) <=> Has(v, LockAnswers) \/ Has(v, ReturnAnswers)
      /\ Has(v1, Answers) <=> Has(v1, LockAnswers) \/ Has(v1, ReturnAnswers)
  BY HasKinds
<1>8. /\ p \in acquired[r] /\ ~ Has(u, Requests) /\ ~ Has(v1, Answers)
      /\ phase[r] # "replicating"
  BY <1>2, <1>6, <1>7 DEF Paired, Single, Holding, u, v
<1>9. Paired(n1, phase', given', acquired', queued', ahead', r, p)
  BY <1>1, <1>2, <1>4, <1>5, <1>6, <1>7, <1>8
  DEF Paired, Single, Holding, Barred, AnsweredFirst, Behind, u, v, v1
<1>10. Paired(n1, phase', given', acquired', queued', ahead', p, r)
  BY <1>1, <1>2, <1>4, <1>5, <1>6, <1>7
  DEF Paired, Single, Holding, Barred, AnsweredFirst, Behind, u, v, v1
<1>11. CASE net' = n1
  BY <1>9, <1>10, <1>11, ReceiveElsewhere DEF Receive
<1>12. CASE net' = Sent(n1, r, R, "lock")
  <2>1. phase[p] = "replicating" => p \in given[r]
    BY <1>2, ReplicatingIsGiven
  <2>2. ASSUME NEW z \in R
        PROVE  /\ z \notin acquired'[r] /\ z \notin given'[r] /\ z \notin ahead'[r]
               /\ z \in Replications /\ z # r
               /\ ~ Has(n1[<<r, z>>], Asks) /\ ~ Has(n1[<<r, z>>], Returns)
               /\ ~ Has(n1[<<z, r>>], LockAnswers) /\ ~ Has(n1[<<z, r>>], ReturnAnswers)
    <3>1. z = p /\ z \notin given[r]
      BY <1>1, <1>2 DEF R, ToAsk
    <3>2. p \notin ahead[r]
      BY <1>2, <2>1, <3>1 DEF Paired, Behind
    <3> QED
      BY <1>1, <1>4, <1>5, <1>7, <1>8, <3>1, <3>2 DEF v1
  <2>3. Paired(Sent(n1, r, R, "lock"), phase', given', acquired', queued', ahead', r, p)
    BY <1>3, <1>9, <2>2, PairAsked
  <2>4. Paired(Sent(n1, r, R, "lock"), phase', given', acquired', queued', ahead', p, r)
    BY <1>3, <1>10, <2>2, PairAsked
  <2> QED
    BY <1>12, <2>3, <2>4, ReceiveElsewhere DEF Receive
<1> QED
  BY <1>1, <1>11, <1>12

LEMMA PairsKept ==
  ASSUME TypeOK, AmongPeers, LocksInOrder, PairsInOrder, [Next]_vars
  PROVE  PairsInOrder'
<1>1. peers' = peers /\ overtakes \in Nat
  BY DEF TypeOK, Next, vars, Lock, Replicated, Receive, TryLock, Granted, Refused, Release,
         Released, Overtake
<1> SUFFICES ASSUME Pairs, overtakes' = 0 PROVE PairLoans'
  BY <1>1 DEF PairsInOrder, PairLoans, Pairs
<1>2. CASE overtakes # 0
  <2>1. overtakes' = overtakes \/ overtakes' = overtakes + 1
    BY DEF Next, vars, Lock, Replicated, Receive, TryLock, Granted, Refused, Release,
           Released, Overtake
  <2> QED
    BY <1>1, <1>2, <2>1
<1>3. CASE overtakes = 0
  <2>1. Loans /\ PairLoans
    BY <1>3 DEF LocksInOrder, Loans, PairsInOrder, PairLoans
  <2>2. CASE UNCHANGED vars
    <3>1. /\ net' = net /\ phase' = phase /\ given' = given /\ acquired' = acquired
          /\ queued' = queued /\ ahead' = ahead
      BY <2>2 DEF vars
    <3> SUFFICES ASSUME NEW x \in Replications, NEW y \in peers[x]
                 PROVE  Paired(net', phase', given', acquired', queued', ahead', x, y)
      BY <1>1 DEF PairLoans
    <3>2. Paired(net, phase, given, acquired, queued, ahead, x, y)
      BY <2>1 DEF PairLoans
    <3> QED
      BY <3>1, <3>2
  <2>3. ASSUME NEW r \in Replications, Lock(r) \/ Replicated(r) PROVE PairLoans'
    BY <2>1, <2>3, LockKeepsPairs, ReplicatedKeepsPairs
  <2>4. ASSUME NEW l \in Link, Receive(l[2], l[1]) PROVE PairLoans'
    <3>1. l[1] \in Replications /\ l[2] \in Replications /\ l[2] # l[1]
      BY DEF Link
    <3> QED
      BY <2>1, <2>4, <3>1, TryLockKeepsPairs, GrantedKeepsPairs, ReleaseKeepsPairs,
         ReleasedKeepsPairs DEF Receive
  <2>5. ASSUME NEW l \in Link, Overtake(l) PROVE FALSE
    BY <1>1, <2>5 DEF Overtake
  <2> QED
    BY <2>2, <2>3, <2>4, <2>5 DEF Next
<1> QED
  BY <1>2, <1>3

LEMMA FirstPairs ==
  ASSUME Init, TypeOK
  PROVE  PairLoans
<1> SUFFICES ASSUME NEW x \in Replications, NEW y \in peers[x]
             PROVE  Paired(net, phase, given, acquired, queued, ahead, x, y)
  BY DEF PairLoans
<1>1. y \in Replications /\ x # y
  BY PeersAssumed
<1>2. net[<<x, y>>] = <<>> /\ net[<<y, x>>] = <<>>
  BY <1>1, LinkOf DEF Init
<1>3. acquired[x] = {} /\ given[x] = {} /\ ahead[x] = {} /\ phase[x] = "ready"
  BY DEF Init
<1> QED
  BY <1>2, <1>3, EmptyHasNone DEF Paired, Single, Holding, Barred, AnsweredFirst, Behind

(* What the three properties of the run rest on, as one inductive          *)
(* invariant.                                                              *)
LockInvariant == TypeOK /\ AmongPeers /\ LocksInOrder /\ PairsInOrder

LEMMA LockInvariantCorrect == Spec => []LockInvariant
<1>1. Init /\ TypeOK => AmongPeers /\ LocksInOrder /\ PairsInOrder
  BY FirstLoans, FirstPairs DEF LocksInOrder, Loans, PairsInOrder, PairLoans
<1>2. TypeOK /\ AmongPeers /\ LocksInOrder /\ PairsInOrder /\ [Next]_vars
        => AmongPeers' /\ LocksInOrder' /\ PairsInOrder'
  BY PeersKept, LoansKept, PairsKept
<1> QED
  BY <1>1, <1>2, LockTypeCorrect, PTL DEF Spec, LockInvariant

(* In a pair, on FIFO links, _replicate runs with the lock of the peer,    *)
(* and the peer knows it: lock_peer_replication and _try_replication_lock  *)
(* agree, whatever else is under way between them.                         *)
THEOREM PairReplicatesLocked == Spec => []ReplicatesLockedInPairs
<1>1. LockInvariant => ReplicatesLockedInPairs
  <2> SUFFICES ASSUME LockInvariant, Pairs, overtakes = 0,
                      NEW r \in Replications, phase[r] = "replicating"
               PROVE  acquired[r] = peers[r] /\ \A p \in peers[r] : r \in given[p]
    BY DEF ReplicatesLockedInPairs, ReplicatesLocked, HasLocks
  <2>1. acquired[r] \subseteq peers[r]
    BY DEF LockInvariant, AmongPeers
  <2>2. ASSUME NEW p \in peers[r] PROVE p \in acquired[r] /\ r \in given[p]
    <3>1. p \in Replications /\ r # p
      BY OnePeer DEF LockInvariant
    <3>2. /\ Loaned(net, phase, given, acquired, queued, r, p)
          /\ Paired(net, phase, given, acquired, queued, ahead, r, p)
      BY <3>1 DEF LockInvariant, LocksInOrder, PairsInOrder
    <3> QED
      BY <3>2 DEF Loaned, Agreed, Paired, Holding
  <2> QED
    BY <2>1, <2>2
<1> QED
  BY <1>1, LockInvariantCorrect, PTL

(* In a pair, on FIFO links, a replication that asked while its peer was   *)
(* replicating does not begin before the peer is done.                     *)
THEOREM PairWaits == Spec => []WaitsForPeer
<1>1. LockInvariant => WaitsForPeer
  <2> SUFFICES ASSUME LockInvariant, Pairs, overtakes = 0,
                      NEW r \in Replications, phase[r] = "replicating", NEW p \in ahead[r]
               PROVE  FALSE
    BY DEF WaitsForPeer
  <2>1. p \in peers[r]
    BY DEF LockInvariant, AmongPeers
  <2>2. Paired(net, phase, given, acquired, queued, ahead, r, p)
    BY <2>1 DEF LockInvariant, PairsInOrder
  <2>3. p \in queued[r]
    BY <2>2 DEF Paired, Behind
  <2> QED
    BY <2>3 DEF LockInvariant, TypeOK
<1> QED
  BY <1>1, LockInvariantCorrect, PTL
-----------------------------------------------------------------------------
(* No circle of replications that wait for each other.                     *)
Refusals == {"lock UNAVAILABLE"}

(* Each message of M is behind one of N.                                   *)
EachBehind(s, M, N) ==
  \A j \in 1 .. Len(s) : s[j] \in M => \E i \in 1 .. Len(s) : i < j /\ s[i] \in N

LEMMA EachBehindAppend ==
  ASSUME NEW s \in Seq(Messages), NEW m \in Messages, NEW M, NEW N,
         EachBehind(s, M, N), m \in M => Has(s, N)
  PROVE  EachBehind(Append(s, m), M, N)
<1> DEFINE u == Append(s, m)
<1>1. /\ Len(s) \in Nat /\ Len(u) = Len(s) + 1
      /\ \A i \in 1 .. Len(s) : u[i] = s[i]
      /\ u[Len(s) + 1] = m
  BY AppendProperties, LenProperties
<1> HIDE DEF u
<1>2. 1 .. Len(u) = 1 .. Len(s) \cup {Len(s) + 1}
  BY <1>1
<1> SUFFICES ASSUME NEW j \in 1 .. Len(u), u[j] \in M
             PROVE  \E i \in 1 .. Len(u) : i < j /\ u[i] \in N
  BY DEF EachBehind, u
<1>3. CASE j \in 1 .. Len(s)
  BY <1>1, <1>2, <1>3 DEF EachBehind
<1>4. CASE j = Len(s) + 1
  <2>1. PICK i \in 1 .. Len(s) : s[i] \in N
    BY <1>1, <1>4 DEF Has
  <2>2. i \in 1 .. Len(u) /\ i < j /\ u[i] \in N
    BY <1>1, <1>2, <1>4, <2>1
  <2> QED
    BY <2>2
<1> QED
  BY <1>2, <1>3, <1>4

LEMMA EachBehindTail ==
  ASSUME NEW s \in Seq(Messages), s # <<>>, NEW M, NEW N, EachBehind(s, M, N)
  PROVE  Head(s) \notin M /\ (Head(s) \notin N => EachBehind(Tail(s), M, N))
<1> DEFINE u == Tail(s)
<1>1. /\ Len(s) \in Nat /\ Len(s) >= 1 /\ Len(u) = Len(s) - 1
      /\ Head(s) = s[1]
      /\ \A i \in 1 .. Len(u) : u[i] = s[i + 1]
  BY HeadTailProperties, LenProperties, EmptySeq
<1> HIDE DEF u
<1>2. ASSUME Head(s) \in M PROVE FALSE
  <2>1. PICK i \in 1 .. Len(s) : i < 1 /\ s[i] \in N
    BY <1>1, <1>2 DEF EachBehind
  <2> QED
    BY <1>1, <2>1
<1>3. ASSUME Head(s) \notin N, NEW j \in 1 .. Len(u), u[j] \in M
      PROVE  \E i \in 1 .. Len(u) : i < j /\ u[i] \in N
  <2>1. j + 1 \in 1 .. Len(s) /\ s[j + 1] \in M
    BY <1>1, <1>3
  <2>2. PICK i \in 1 .. Len(s) : i < j + 1 /\ s[i] \in N
    BY <2>1 DEF EachBehind
  <2>3. i # 1
    BY <1>1, <1>3, <2>2
  <2>4. i - 1 \in 1 .. Len(u) /\ i - 1 < j /\ (i - 1) + 1 = i
    BY <1>1, <2>2, <2>3
  <2>5. u[i - 1] \in N
    BY <1>1, <2>2, <2>4
  <2> QED
    BY <2>4, <2>5
<1> QED
  BY <1>2, <1>3 DEF EachBehind, u

LEMMA NoneIsBehind ==
  ASSUME NEW s, NEW M, NEW N, ~ Has(s, M)
  PROVE  EachBehind(s, M, N) /\ NoneAfter(s, N, M)
BY DEF Has, EachBehind, NoneAfter

(* Who wants a lock has asked for it, or has given its own in return ...   *)
Eager(n, giv, acq, que, r, p) ==
  p \in que[r] /\ p \notin acq[r] =>
    Has(n[<<r, p>>], Asks) \/ Has(n[<<p, r>>], LockAnswers) \/ p \in giv[r]

(* ... or has not got rid of it since it had it before.                    *)
Again(n, acq, que, r, p) ==
  p \in que[r] /\ p \in acq[r] =>
    Has(n[<<r, p>>], Returns) \/ Has(n[<<p, r>>], ReturnAnswers)

(* No request is refused: a replication asks a peer only when it has       *)
(* returned the peer's lock, and what it sends arrives in that order.      *)
Heeded(n, acq, r, p) ==
  /\ r \in acq[p] => EachBehind(n[<<r, p>>], Asks, ReturnAnswers)
  /\ r \notin acq[p] => NoneAfter(n[<<r, p>>], Grants, Asks)
  /\ ~ Has(n[<<r, p>>], Refusals)

(* r does not ask p as it has given p its own lock ...                     *)
Blocked(n, giv, acq, que, r, p) ==
  /\ p \in que[r]
  /\ p \in giv[r]
  /\ p \in acq[r] \/ (~ Has(n[<<r, p>>], Asks) /\ ~ Has(n[<<p, r>>], LockAnswers))

(* ... which p has for a replication that it began before.                 *)
Served(n, pha, giv, acq, que, rank, r, p) ==
  Blocked(n, giv, acq, que, r, p) /\ pha[p] = "locking" /\ ~ Has(n[<<p, r>>], Returns)
    => rank[p] < rank[r]

Patient(n, pha, giv, acq, que, rank, r, p) ==
  /\ Again(n, acq, que, r, p)
  /\ Heeded(n, acq, r, p)
  /\ Served(n, pha, giv, acq, que, rank, r, p)

EagerAll == \A x, y \in Replications : x # y => Eager(net, given, acquired, queued, x, y)

PatientAll(rank) ==
  \A x, y \in Replications :
    x # y => Patient(net, phase, given, acquired, queued, rank, x, y)

Ranks == [Replications -> 0 .. started]

Patience == EagerAll /\ \E rank \in Ranks : PatientAll(rank)

WaitsInOrder == overtakes = 0 => Patience

SameWaits(t, t1, s, s1) ==
  /\ Has(t1, Asks) <=> Has(t, Asks)
  /\ Has(t, Returns) => Has(t1, Returns)
  /\ EachBehind(t, Asks, ReturnAnswers) => EachBehind(t1, Asks, ReturnAnswers)
  /\ NoneAfter(t, Grants, Asks) => NoneAfter(t1, Grants, Asks)
  /\ Has(t1, Refusals) => Has(t, Refusals)
  /\ Has(s1, LockAnswers) <=> Has(s, LockAnswers)
  /\ Has(s, ReturnAnswers) => Has(s1, ReturnAnswers)
  /\ Has(s, Returns) => Has(s1, Returns)

LEMMA WaitsKept ==
  ASSUME NEW r, NEW p, NEW n, NEW pha, NEW giv, NEW acq, NEW que, NEW rank,
         NEW n1, NEW pha1, NEW giv1, NEW acq1, NEW que1,
         Patient(n, pha, giv, acq, que, rank, r, p),
         SameWaits(n[<<r, p>>], n1[<<r, p>>], n[<<p, r>>], n1[<<p, r>>]),
         p \in acq1[r] <=> p \in acq[r],
         r \in acq1[p] <=> r \in acq[p],
         p \in giv1[r] => p \in giv[r],
         p \in que1[r] => p \in que[r],
         pha1[p] = "locking" => pha[p] = "locking"
  PROVE  Patient(n1, pha1, giv1, acq1, que1, rank, r, p)
BY DEF Patient, Again, Heeded, Served, Blocked, SameWaits

LEMMA SameNoLess == ASSUME NEW t, NEW s PROVE SameWaits(t, t, s, s)
BY DEF SameWaits

(* What follows from a message put on a link or taken from it.             *)
Extended(s, m, u) ==
  /\ \A M : Has(u, M) <=> Has(s, M) \/ m \in M
  /\ (m \in Asks => Has(s, ReturnAnswers)) /\ EachBehind(s, Asks, ReturnAnswers)
       => EachBehind(u, Asks, ReturnAnswers)
  /\ (m \in Asks => ~ Has(s, Grants)) /\ NoneAfter(s, Grants, Asks) => NoneAfter(u, Grants, Asks)

Shortened(s, u) ==
  /\ \A M : Has(s, M) <=> Head(s) \in M \/ Has(u, M)
  /\ EachBehind(s, Asks, ReturnAnswers) =>
       /\ Head(s) \notin Asks
       /\ Head(s) \notin ReturnAnswers => EachBehind(u, Asks, ReturnAnswers)
  /\ NoneAfter(s, Grants, Asks) =>
       /\ NoneAfter(u, Grants, Asks)
       /\ Head(s) \in Grants => ~ Has(u, Asks)
  /\ NoneAfter(s, ReturnAnswers, LockAnswers) /\ Head(s) \in ReturnAnswers => ~ Has(u, LockAnswers)

LEMMA AppendExtends ==
  ASSUME NEW s \in Seq(Messages), NEW m \in Messages
  PROVE  Extended(s, m, Append(s, m))
BY HasAppend, NoneAfterAppend, EachBehindAppend DEF Extended

LEMMA TailShortens ==
  ASSUME NEW s \in Seq(Messages), s # <<>>
  PROVE  Shortened(s, Tail(s))
BY HasTail, NoneAfterTail, EachBehindTail DEF Shortened

-----------------------------------------------------------------------------
(* A replication asks only peers whose locks it has returned.              *)
LEMMA PatientAsked ==
  ASSUME NEW n \in NetType, NEW pha, NEW giv, NEW acq, NEW que, NEW rank,
         NEW q, NEW R, \A z \in R : z \notin giv[q],
         NEW x \in Replications, NEW y \in Replications, x # y,
         Patient(n, pha, giv, acq, que, rank, x, y),
         Agreed(Sent(n, q, R, "lock"), acq, giv, y, x)
  PROVE  Patient(Sent(n, q, R, "lock"), pha, giv, acq, que, rank, x, y)
<1> DEFINE n1 == Sent(n, q, R, "lock")
           t == n[<<x, y>>]
           s == n[<<y, x>>]
<1>1. /\ n1[<<x, y>>] = IF x = q /\ y \in R THEN Append(t, "lock") ELSE t
      /\ n1[<<y, x>>] = IF y = q /\ x \in R THEN Append(s, "lock") ELSE s
  BY SentOn
<1>2. t \in Seq(Messages) /\ s \in Seq(Messages) /\ "lock" \in Messages
  BY LinkOf DEF NetType, Messages
<1>3. Extended(t, "lock", Append(t, "lock")) /\ Extended(s, "lock", Append(s, "lock"))
  BY <1>2, AppendExtends
<1>4. Patient(n, pha, giv, acq, que, rank, x, y) /\ Agreed(n1, acq, giv, y, x)
  OBVIOUS
<1>5. /\ "lock" \in Asks /\ "lock" \notin Returns /\ "lock" \notin LockAnswers
      /\ "lock" \notin ReturnAnswers /\ "lock" \notin Grants /\ "lock" \notin Refusals
  BY DEF Asks, Returns, LockAnswers, ReturnAnswers, Grants, Refusals
<1> SUFFICES Patient(n1, pha, giv, acq, que, rank, x, y)
  OBVIOUS
<1> HIDE DEF n1
<1>6. /\ Has(n1[<<y, x>>], LockAnswers) <=> Has(s, LockAnswers)
      /\ Has(n1[<<y, x>>], ReturnAnswers) <=> Has(s, ReturnAnswers)
      /\ Has(n1[<<y, x>>], Returns) <=> Has(s, Returns)
  BY <1>1, <1>3, <1>5 DEF Extended
<1>7. CASE x = q /\ y \in R
  <2>1. y \notin giv[x] /\ n1[<<x, y>>] = Append(t, "lock")
    BY <1>1, <1>7
  <2>2. /\ Has(n1[<<x, y>>], Returns) <=> Has(t, Returns)
        /\ Has(n1[<<x, y>>], ReturnAnswers) <=> Has(t, ReturnAnswers)
        /\ Has(n1[<<x, y>>], Grants) <=> Has(t, Grants)
        /\ Has(n1[<<x, y>>], Refusals) <=> Has(t, Refusals)
    BY <1>3, <1>5, <2>1 DEF Extended
  <2>3. x \in acq[y] => Has(t, ReturnAnswers)
    BY <1>4, <2>1, <2>2 DEF Agreed
  <2>4. x \notin acq[y] => ~ Has(t, Grants)
    BY <1>4, <2>1, <2>2 DEF Agreed
  <2>5. Heeded(n1, acq, x, y)
    BY <1>3, <1>4, <2>1, <2>2, <2>3, <2>4 DEF Patient, Heeded, Extended
  <2>6. Again(n1, acq, que, x, y)
    BY <1>4, <1>6, <2>2 DEF Patient, Again
  <2>7. Served(n1, pha, giv, acq, que, rank, x, y)
    BY <2>1 DEF Served, Blocked
  <2> QED
    BY <2>5, <2>6, <2>7 DEF Patient
<1>8. CASE ~ (x = q /\ y \in R)
  <2>1. n1[<<x, y>>] = t
    BY <1>1, <1>8
  <2> QED
    BY <1>4, <1>6, <2>1 DEF Patient, Again, Heeded, Served, Blocked
<1> QED
  BY <1>7, <1>8

(* Requests do not make anyone less eager.                                 *)
LEMMA EagerAsked ==
  ASSUME NEW n \in NetType, NEW giv, NEW acq, NEW que, NEW q, NEW R,
         NEW m \in Messages,
         NEW x \in Replications, NEW y \in Replications, x # y,
         Eager(n, giv, acq, que, x, y)
  PROVE  Eager(Sent(n, q, R, m), giv, acq, que, x, y)
<1> DEFINE n1 == Sent(n, q, R, m)
           t == n[<<x, y>>]
           s == n[<<y, x>>]
<1>1. /\ n1[<<x, y>>] = t \/ n1[<<x, y>>] = Append(t, m)
      /\ n1[<<y, x>>] = s \/ n1[<<y, x>>] = Append(s, m)
  <2>1. /\ n1[<<x, y>>] = IF x = q /\ y \in R THEN Append(n[<<x, y>>], m) ELSE n[<<x, y>>]
        /\ n1[<<y, x>>] = IF y = q /\ x \in R THEN Append(n[<<y, x>>], m) ELSE n[<<y, x>>]
    BY SentOn
  <2> QED
    BY <2>1
<1>2. t \in Seq(Messages) /\ s \in Seq(Messages)
  BY LinkOf DEF NetType
<1>3. /\ Has(Append(t, m), Asks) <=> Has(t, Asks) \/ m \in Asks
      /\ Has(Append(s, m), LockAnswers) <=> Has(s, LockAnswers) \/ m \in LockAnswers
  BY <1>2, HasAppend
<1>4. Eager(n, giv, acq, que, x, y)
  OBVIOUS
<1> SUFFICES Eager(n1, giv, acq, que, x, y)
  OBVIOUS
<1> HIDE DEF n1
<1> QED
  BY <1>1, <1>3, <1>4 DEF Eager
-----------------------------------------------------------------------------
LEMMA ReplicatedKeepsPatience ==
  ASSUME TypeOK, EagerAll, NEW rank, PatientAll(rank), NEW r \in Replications, Replicated(r)
  PROVE  EagerAll' /\ PatientAll(rank)'
<1> SUFFICES ASSUME NEW x \in Replications, NEW y \in Replications, x # y
             PROVE  /\ Eager(net', given', acquired', queued', x, y)
                    /\ Patient(net', phase', given', acquired', queued', rank, x, y)
  BY DEF EagerAll, PatientAll
<1>1. /\ net \in NetType
      /\ Eager(net, given, acquired, queued, x, y)
      /\ Patient(net, phase, given, acquired, queued, rank, x, y)
  BY DEF TypeOK, NetType, EagerAll, PatientAll
<1> DEFINE t == net[<<x, y>>]
           s == net[<<y, x>>]
           m == "release"
<1>2. t \in Seq(Messages) /\ s \in Seq(Messages)
  BY <1>1, LinkOf DEF NetType
<1>3. /\ net'[<<x, y>>] = t \/ net'[<<x, y>>] = Append(t, m)
      /\ net'[<<y, x>>] = s \/ net'[<<y, x>>] = Append(s, m)
  <2>1. /\ net'[<<x, y>>] = IF x = r /\ y \in acquired[r]
                            THEN Append(net[<<x, y>>], m) ELSE net[<<x, y>>]
        /\ net'[<<y, x>>] = IF y = r /\ x \in acquired[r]
                            THEN Append(net[<<y, x>>], m) ELSE net[<<y, x>>]
    BY <1>1, SentOn DEF Replicated
  <2> QED
    BY <2>1
<1>4. /\ UNCHANGED <<given, acquired, queued>>
      /\ phase \in [Replications -> {"ready", "locking", "replicating"}]
      /\ phase' = [phase EXCEPT ![r] = "ready"]
  BY DEF Replicated, TypeOK
<1>5. /\ m \in Messages /\ m \in Returns /\ m \notin Asks /\ m \notin LockAnswers
      /\ m \notin ReturnAnswers /\ m \notin Grants /\ m \notin Refusals
  BY DEF Messages, Asks, Returns, LockAnswers, ReturnAnswers, Grants, Refusals
<1> HIDE DEF t, s, m
<1>6. Extended(t, m, Append(t, m)) /\ Extended(s, m, Append(s, m))
  BY <1>2, <1>5, AppendExtends
<1>7. SameWaits(t, net'[<<x, y>>], s, net'[<<y, x>>])
  BY <1>3, <1>5, <1>6 DEF SameWaits, Extended
<1>8. phase'[y] = "locking" => phase[y] = "locking"
  BY <1>4
<1>9. Patient(net', phase', given', acquired', queued', rank, x, y)
  <2>1. /\ Patient(net, phase, given, acquired, queued, rank, x, y)
        /\ SameWaits(net[<<x, y>>], net'[<<x, y>>], net[<<y, x>>], net'[<<y, x>>])
        /\ y \in acquired'[x] <=> y \in acquired[x]
        /\ x \in acquired'[y] <=> x \in acquired[y]
        /\ y \in given'[x] => y \in given[x]
        /\ y \in queued'[x] => y \in queued[x]
        /\ phase'[y] = "locking" => phase[y] = "locking"
    BY <1>1, <1>4, <1>7, <1>8 DEF t, s
  <2> QED
    BY <2>1, WaitsKept
<1>10. Eager(net', given', acquired', queued', x, y)
  BY <1>1, <1>4, <1>7 DEF Eager, SameWaits, t, s
<1> QED
  BY <1>9, <1>10

(* The kinds a message belongs to.                                         *)
LEMMA KindOf ==
  /\ "lock" \in Asks /\ "lock" \notin Returns /\ "lock" \notin LockAnswers
  /\ "lock" \notin ReturnAnswers /\ "lock" \notin Grants /\ "lock" \notin Refusals
  /\ "lock OK" \notin Asks /\ "lock OK" \notin Returns /\ "lock OK" \in LockAnswers
  /\ "lock OK" \notin ReturnAnswers /\ "lock OK" \in Grants /\ "lock OK" \notin Refusals
  /\ "lock UNAVAILABLE" \in Refusals
  /\ "release" \notin Asks /\ "release" \in Returns /\ "release" \notin LockAnswers
  /\ "release" \notin ReturnAnswers /\ "release" \notin Grants /\ "release" \notin Refusals
  /\ "release OK" \notin Asks /\ "release OK" \notin Returns /\ "release OK" \notin LockAnswers
  /\ "release OK" \in ReturnAnswers /\ "release OK" \notin Grants /\ "release OK" \notin Refusals
BY DEF Asks, Returns, LockAnswers, ReturnAnswers, Grants, Refusals

(* The next message of p to r is a request of a peer that has returned r's *)
(* lock, and no refusal.                                                   *)
LEMMA TryLockKeepsPatience ==
  ASSUME TypeOK, EagerAll, NEW rank, PatientAll(rank),
         NEW r \in Replications, NEW p \in Replications, r # p, TryLock(r, p)
  PROVE  EagerAll' /\ PatientAll(rank)'
<1> DEFINE h == net[<<p, r>>]
           b == net[<<r, p>>]
<1>1. net \in NetType /\ h \in Seq(Messages) /\ b \in Seq(Messages)
  BY LinkOf DEF TypeOK, NetType
<1>2. h # <<>> /\ Head(h) = "lock" /\ UNCHANGED <<phase, acquired, queued>>
  BY DEF TryLock, IsNext
<1>3. Shortened(h, Tail(h)) /\ Extended(b, "lock OK", Append(b, "lock OK"))
  <2>1. "lock OK" \in Messages
    BY DEF Messages
  <2> QED
    BY <1>1, <1>2, <2>1, TailShortens, AppendExtends
<1>4. p \notin acquired[r]
  <2>1. Heeded(net, acquired, p, r)
    BY DEF PatientAll, Patient
  <2> QED
    BY <1>2, <1>3, <2>1, KindOf DEF Heeded, Shortened
<1>5. net' = Answered(r, p, "lock OK") /\ given' = [given EXCEPT ![r] = @ \cup {p}]
  BY <1>4 DEF TryLock
<1>6. /\ net'[<<p, r>>] = Tail(h)
      /\ net'[<<r, p>>] = Append(b, "lock OK")
  <2>1. "lock OK" \in Messages
    BY DEF Messages
  <2> QED
    BY <1>1, <1>5, <2>1, AnsweredPair
<1> SUFFICES ASSUME NEW x \in Replications, NEW y \in Replications, x # y
             PROVE  /\ Eager(net', given', acquired', queued', x, y)
                    /\ Patient(net', phase', given', acquired', queued', rank, x, y)
  BY DEF EagerAll, PatientAll
<1>7. /\ Eager(net, given, acquired, queued, x, y)
      /\ Patient(net, phase, given, acquired, queued, rank, x, y)
  BY DEF EagerAll, PatientAll
<1>8. /\ given \in [Replications -> SUBSET Replications]
      /\ y \in given'[x] <=> y \in given[x] \/ (x = r /\ y = p)
  BY <1>5 DEF TypeOK
<1>9. CASE x = p /\ y = r
  <2>1. /\ net[<<x, y>>] = h /\ net[<<y, x>>] = b
        /\ net'[<<x, y>>] = Tail(h) /\ net'[<<y, x>>] = Append(b, "lock OK")
        /\ x \notin acquired[y] /\ (y \in given'[x] <=> y \in given[x])
    BY <1>4, <1>6, <1>8, <1>9
  <2> HIDE DEF h, b
  <2>2. Eager(net', given', acquired', queued', x, y)
    BY <1>3, <2>1, KindOf DEF Eager, Extended
  <2>3. Again(net', acquired', queued', x, y)
    BY <1>2, <1>3, <1>7, <2>1, KindOf DEF Patient, Again, Extended, Shortened
  <2>4. Heeded(net', acquired', x, y)
    BY <1>2, <1>3, <1>7, <2>1, KindOf DEF Patient, Heeded, Shortened
  <2>5. Served(net', phase', given', acquired', queued', rank, x, y)
    <3>1. Has(net'[<<y, x>>], LockAnswers) /\ (Has(net[<<y, x>>], Returns) => Has(net'[<<y, x>>], Returns))
      BY <1>3, <2>1, KindOf DEF Extended
    <3> QED
      BY <1>2, <1>7, <2>1, <3>1 DEF Patient, Served, Blocked
  <2> QED
    BY <2>2, <2>3, <2>4, <2>5 DEF Patient
<1>10. CASE x = r /\ y = p
  <2>1. /\ net[<<x, y>>] = b /\ net[<<y, x>>] = h
        /\ net'[<<x, y>>] = Append(b, "lock OK") /\ net'[<<y, x>>] = Tail(h)
    BY <1>6, <1>10
  <2> HIDE DEF h, b
  <2>2. SameWaits(net[<<x, y>>], net'[<<x, y>>], net[<<y, x>>], net'[<<y, x>>])
    BY <1>2, <1>3, <2>1, KindOf DEF SameWaits, Extended, Shortened
  <2>3. Eager(net', given', acquired', queued', x, y)
    BY <1>2, <1>7, <1>8, <2>2 DEF Eager, SameWaits
  <2>4. Patient(net', phase', given, acquired', queued', rank, x, y)
    BY <1>2, <1>7, <2>2, WaitsKept
  <2>5. Blocked(net', given', acquired', queued', x, y) => Blocked(net', given, acquired', queued', x, y)
    BY <1>2, <1>4, <1>7, <1>10, <2>2 DEF Eager, Blocked, SameWaits
  <2>6. Served(net', phase', given', acquired', queued', rank, x, y)
    BY <2>4, <2>5 DEF Patient, Served
  <2> QED
    BY <2>3, <2>4, <2>6 DEF Patient
<1>11. CASE ~ (x = p /\ y = r) /\ ~ (x = r /\ y = p)
  <2>1. net'[<<x, y>>] = net[<<x, y>>] /\ net'[<<y, x>>] = net[<<y, x>>]
    BY <1>1, <1>5, <1>11, LinkOf DEF NetType, Answered
  <2>2. SameWaits(net[<<x, y>>], net'[<<x, y>>], net[<<y, x>>], net'[<<y, x>>])
    BY <2>1, SameNoLess
  <2>3. y \in given'[x] <=> y \in given[x]
    BY <1>8, <1>11
  <2>4. Patient(net', phase', given', acquired', queued', rank, x, y)
    BY <1>2, <1>7, <2>2, <2>3, WaitsKept
  <2> QED
    BY <1>2, <1>7, <2>1, <2>3, <2>4 DEF Eager
<1> QED
  BY <1>9, <1>10, <1>11

LEMMA NeverRefused ==
  ASSUME TypeOK, NEW rank, PatientAll(rank),
         NEW r \in Replications, NEW p \in Replications, r # p, Refused(r, p)
  PROVE  FALSE
<1>1. net[<<p, r>>] \in Seq(Messages) /\ net[<<p, r>>] # <<>> /\ Head(net[<<p, r>>]) \in Refusals
  BY LinkOf, KindOf DEF TypeOK, Refused, IsNext
<1>2. Has(net[<<p, r>>], Refusals)
  BY <1>1, HasTail
<1> QED
  BY <1>2 DEF PatientAll, Patient, Heeded

LEMMA GrantedKeepsPatience ==
  ASSUME TypeOK, EagerAll, NEW rank, PatientAll(rank),
         NEW r \in Replications, NEW p \in Replications, r # p, Granted(r, p)
  PROVE  EagerAll' /\ PatientAll(rank)'
<1> DEFINE h == net[<<p, r>>]
<1>1. net \in NetType /\ h \in Seq(Messages)
  BY LinkOf DEF TypeOK, NetType
<1>2. /\ h # <<>> /\ Head(h) = "lock OK" /\ given' = given
      /\ net' = [net EXCEPT ![<<p, r>>] = Tail(@)]
  BY DEF Granted, IsNext
<1>3. Shortened(h, Tail(h))
  BY <1>1, <1>2, TailShortens
<1> SUFFICES ASSUME NEW x \in Replications, NEW y \in Replications, x # y
             PROVE  /\ Eager(net', given', acquired', queued', x, y)
                    /\ Patient(net', phase', given', acquired', queued', rank, x, y)
  BY DEF EagerAll, PatientAll
<1>4. /\ Eager(net, given, acquired, queued, x, y)
      /\ Patient(net, phase, given, acquired, queued, rank, x, y)
  BY DEF EagerAll, PatientAll
<1>5. /\ y \in acquired'[x] <=> y \in acquired[x] \/ (x = r /\ y = p)
      /\ x \in acquired'[y] <=> x \in acquired[y] \/ (y = r /\ x = p)
      /\ y \in queued'[x] <=> y \in queued[x] /\ ~ (x = r /\ y = p)
      /\ phase'[y] = "locking" => phase[y] = "locking"
  BY DEF Granted, TypeOK
<1>6. /\ net'[<<x, y>>] = IF x = p /\ y = r THEN Tail(net[<<x, y>>]) ELSE net[<<x, y>>]
      /\ net'[<<y, x>>] = IF y = p /\ x = r THEN Tail(net[<<y, x>>]) ELSE net[<<y, x>>]
  BY <1>1, <1>2, LinkOf DEF NetType
<1>7. CASE x = p /\ y = r
  <2>1. /\ net[<<x, y>>] = h /\ net'[<<x, y>>] = Tail(h) /\ net'[<<y, x>>] = net[<<y, x>>]
        /\ y \in acquired'[x] <=> y \in acquired[x]
        /\ y \in queued'[x] <=> y \in queued[x]
        /\ x \in acquired'[y]
    BY <1>5, <1>6, <1>7
  <2> HIDE DEF h
  <2>2. /\ Has(h, Asks) <=> Has(Tail(h), Asks)
        /\ Has(h, Returns) <=> Has(Tail(h), Returns)
        /\ Has(Tail(h), Refusals) => Has(h, Refusals)
    BY <1>2, <1>3, KindOf DEF Shortened
  <2>3. EachBehind(Tail(h), Asks, ReturnAnswers)
    <3>1. CASE x \in acquired[y]
      BY <1>2, <1>3, <1>4, <2>1, <3>1, KindOf DEF Patient, Heeded, Shortened
    <3>2. CASE x \notin acquired[y]
      <4>1. ~ Has(Tail(h), Asks)
        BY <1>2, <1>3, <1>4, <2>1, <3>2, KindOf DEF Patient, Heeded, Shortened
      <4> QED
        BY <4>1, NoneIsBehind
    <3> QED
      BY <3>1, <3>2
  <2>4. Heeded(net', acquired', x, y)
    BY <1>4, <2>1, <2>2, <2>3 DEF Patient, Heeded
  <2>5. Again(net', acquired', queued', x, y) /\ Eager(net', given', acquired', queued', x, y)
    BY <1>2, <1>4, <2>1, <2>2 DEF Patient, Again, Eager
  <2>6. Served(net', phase', given', acquired', queued', rank, x, y)
    BY <1>2, <1>4, <1>5, <2>1, <2>2 DEF Patient, Served, Blocked
  <2> QED
    BY <2>4, <2>5, <2>6 DEF Patient
<1>8. CASE x = r /\ y = p
  <2>1. net'[<<x, y>>] = net[<<x, y>>] /\ y \notin queued'[x] /\ (x \in acquired'[y] <=> x \in acquired[y])
    BY <1>5, <1>6, <1>8
  <2> QED
    BY <1>4, <2>1 DEF Eager, Patient, Again, Heeded, Served, Blocked
<1>9. CASE ~ (x = p /\ y = r) /\ ~ (x = r /\ y = p)
  <2>1. net'[<<x, y>>] = net[<<x, y>>] /\ net'[<<y, x>>] = net[<<y, x>>]
    BY <1>6, <1>9
  <2>2. SameWaits(net[<<x, y>>], net'[<<x, y>>], net[<<y, x>>], net'[<<y, x>>])
    BY <2>1, SameNoLess
  <2>3. /\ y \in acquired'[x] <=> y \in acquired[x]
        /\ x \in acquired'[y] <=> x \in acquired[y]
        /\ y \in queued'[x] <=> y \in queued[x]
        /\ y \in given'[x] => y \in given[x]
        /\ phase'[y] = "locking" => phase[y] = "locking"
    BY <1>2, <1>5, <1>9
  <2>4. Patient(net', phase', given', acquired', queued', rank, x, y)
    BY <1>4, <2>2, <2>3, WaitsKept
  <2> QED
    BY <1>2, <1>4, <2>1, <2>3, <2>4 DEF Eager
<1> QED
  BY <1>7, <1>8, <1>9

LEMMA ReleaseKeepsPatience ==
  ASSUME TypeOK, EagerAll, Loans', NEW rank, PatientAll(rank),
         NEW r \in Replications, NEW p \in Replications, r # p, Release(r, p)
  PROVE  EagerAll' /\ PatientAll(rank)'
<1> DEFINE h == net[<<p, r>>]
           b == net[<<r, p>>]
           n1 == Answered(r, p, "release OK")
           R == ToAsk(queued[r], acquired[r], given'[r])
<1>1. net \in NetType /\ h \in Seq(Messages) /\ b \in Seq(Messages) /\ "release OK" \in Messages
  BY LinkOf DEF TypeOK, NetType, Messages
<1>2. /\ h # <<>> /\ Head(h) = "release" /\ UNCHANGED <<phase, acquired, queued>>
      /\ net' = IF p \in given[r] THEN Sent(n1, r, R, "lock") ELSE n1
      /\ given \in [Replications -> SUBSET Replications]
      /\ given' = [given EXCEPT ![r] = @ \ {p}]
  BY DEF Release, IsNext, TypeOK
<1>3. Shortened(h, Tail(h)) /\ Extended(b, "release OK", Append(b, "release OK"))
  BY <1>1, <1>2, TailShortens, AppendExtends
<1>4. /\ n1[<<p, r>>] = Tail(h)
      /\ n1[<<r, p>>] = Append(b, "release OK")
  BY <1>1, AnsweredPair
<1>5. n1 \in NetType
  BY <1>1, <1>2, LinkOf, AnsweredType
<1>6. (\A q \in R : q \notin given'[r]) /\ (p \in queued[r] /\ p \notin acquired[r] => p \in R)
  BY <1>2 DEF ToAsk
<1> SUFFICES ASSUME NEW x \in Replications, NEW y \in Replications, x # y
             PROVE  /\ Eager(net', given', acquired', queued', x, y)
                    /\ Patient(net', phase', given', acquired', queued', rank, x, y)
  BY DEF EagerAll, PatientAll
<1>7. /\ Eager(net, given, acquired, queued, x, y)
      /\ Patient(net, phase, given, acquired, queued, rank, x, y)
      /\ Agreed(net', acquired', given', y, x)
  BY DEF EagerAll, PatientAll, Loans, Loaned
<1>8. y \in given'[x] <=> y \in given[x] /\ ~ (x = r /\ y = p)
  BY <1>2
<1>9. ~ (x = p /\ y = r) /\ ~ (x = r /\ y = p) =>
        n1[<<x, y>>] = net[<<x, y>>] /\ n1[<<y, x>>] = net[<<y, x>>]
  BY <1>1, LinkOf DEF NetType, Answered
<1> HIDE DEF n1, R
<1>10. Patient(n1, phase', given', acquired', queued', rank, x, y)
  <2>1. CASE x = p /\ y = r
    <3>1. /\ net[<<x, y>>] = h /\ net[<<y, x>>] = b
          /\ n1[<<x, y>>] = Tail(h) /\ n1[<<y, x>>] = Append(b, "release OK")
          /\ (y \in given'[x] <=> y \in given[x])
      BY <1>4, <1>8, <2>1
    <3> HIDE DEF h, b
    <3>2. Again(n1, acquired', queued', x, y)
      BY <1>3, <3>1, KindOf DEF Again, Extended
    <3>3. Heeded(n1, acquired', x, y)
      BY <1>2, <1>3, <1>7, <3>1, KindOf DEF Patient, Heeded, Shortened
    <3>4. /\ Has(n1[<<x, y>>], Asks) <=> Has(net[<<x, y>>], Asks)
          /\ Has(n1[<<y, x>>], LockAnswers) <=> Has(net[<<y, x>>], LockAnswers)
          /\ Has(n1[<<y, x>>], Returns) <=> Has(net[<<y, x>>], Returns)
      BY <1>2, <1>3, <3>1, KindOf DEF Extended, Shortened
    <3>5. Served(n1, phase', given', acquired', queued', rank, x, y)
      BY <1>2, <1>7, <3>1, <3>4 DEF Patient, Served, Blocked
    <3> QED
      BY <3>2, <3>3, <3>5 DEF Patient
  <2>2. CASE x = r /\ y = p
    <3>1. /\ net[<<x, y>>] = b /\ net[<<y, x>>] = h
          /\ n1[<<x, y>>] = Append(b, "release OK") /\ n1[<<y, x>>] = Tail(h)
          /\ y \notin given'[x]
      BY <1>4, <1>8, <2>2
    <3> HIDE DEF h, b
    <3>2. Again(n1, acquired', queued', x, y)
      BY <1>2, <1>3, <1>7, <3>1, KindOf DEF Patient, Again, Extended, Shortened
    <3>3. Heeded(n1, acquired', x, y)
      BY <1>2, <1>3, <1>7, <3>1, KindOf DEF Patient, Heeded, Extended
    <3>4. Served(n1, phase', given', acquired', queued', rank, x, y)
      BY <3>1 DEF Served, Blocked
    <3> QED
      BY <3>2, <3>3, <3>4 DEF Patient
  <2>3. CASE ~ (x = p /\ y = r) /\ ~ (x = r /\ y = p)
    <3>1. SameWaits(net[<<x, y>>], n1[<<x, y>>], net[<<y, x>>], n1[<<y, x>>])
      BY <1>9, <2>3, SameNoLess
    <3>2. /\ y \in acquired'[x] <=> y \in acquired[x]
          /\ x \in acquired'[y] <=> x \in acquired[y]
          /\ y \in given'[x] => y \in given[x]
          /\ y \in queued'[x] => y \in queued[x]
          /\ phase'[y] = "locking" => phase[y] = "locking"
      BY <1>2, <1>8
    <3> QED
      BY <1>7, <3>1, <3>2, WaitsKept
  <2> QED
    BY <2>1, <2>2, <2>3
<1>11. Patient(net', phase', given', acquired', queued', rank, x, y)
  <2>1. CASE p \in given[r]
    <3>1. net' = Sent(n1, r, R, "lock")
      BY <1>2, <2>1
    <3>2. Agreed(Sent(n1, r, R, "lock"), acquired', given', y, x)
      BY <1>7, <3>1
    <3>3. Patient(Sent(n1, r, R, "lock"), phase', given', acquired', queued', rank, x, y)
      BY <1>5, <1>6, <1>10, <3>2, PatientAsked
    <3> QED
      BY <3>1, <3>3
  <2>2. CASE p \notin given[r]
    BY <1>2, <1>10, <2>2
  <2> QED
    BY <2>1, <2>2
<1>12. Eager(net', given', acquired', queued', x, y)
  <2>1. CASE x = r /\ y = p /\ p \in given[r]
    <3>1. /\ net'[<<x, y>>] = IF x = r /\ y \in R THEN Append(n1[<<x, y>>], "lock") ELSE n1[<<x, y>>]
          /\ n1[<<x, y>>] \in Seq(Messages) /\ "lock" \in Messages
      <4>1. Sent(n1, r, R, "lock")[<<x, y>>] =
              IF x = r /\ y \in R THEN Append(n1[<<x, y>>], "lock") ELSE n1[<<x, y>>]
        BY <1>5, SentOn
      <4> QED
        BY <1>2, <1>5, <2>1, <4>1, LinkOf DEF NetType, Messages
    <3>2. p \in R => Has(net'[<<x, y>>], Asks)
      <4>1. Extended(n1[<<x, y>>], "lock", Append(n1[<<x, y>>], "lock"))
        BY <3>1, AppendExtends
      <4>2. Has(Append(n1[<<x, y>>], "lock"), Asks)
        BY <4>1, KindOf DEF Extended
      <4> QED
        BY <2>1, <3>1, <4>2
    <3> QED
      BY <1>2, <1>6, <2>1, <3>2 DEF Eager
  <2>2. CASE ~ (x = r /\ y = p /\ p \in given[r])
    <3>1. y \in given'[x] <=> y \in given[x]
      BY <1>8, <2>2
    <3>2. /\ Has(n1[<<x, y>>], Asks) <=> Has(net[<<x, y>>], Asks)
          /\ Has(n1[<<y, x>>], LockAnswers) <=> Has(net[<<y, x>>], LockAnswers)
      BY <1>2, <1>3, <1>4, <1>9, KindOf DEF Extended, Shortened
    <3>3. Eager(n1, given', acquired', queued', x, y)
      BY <1>2, <1>7, <3>1, <3>2 DEF Eager
    <3>4. "lock" \in Messages
      BY DEF Messages
    <3>5. Eager(Sent(n1, r, R, "lock"), given', acquired', queued', x, y)
      BY <1>5, <3>3, <3>4, EagerAsked
    <3> QED
      BY <1>2, <3>3, <3>5
  <2> QED
    BY <2>1, <2>2
<1> QED
  BY <1>11, <1>12

LEMMA ReleasedKeepsPatience ==
  ASSUME TypeOK, EagerAll, Loans, Loans', NEW rank, PatientAll(rank),
         NEW r \in Replications, NEW p \in Replications, r # p, Released(r, p)
  PROVE  EagerAll' /\ PatientAll(rank)'
<1> DEFINE h == net[<<p, r>>]
           n1 == [net EXCEPT ![<<p, r>>] = Tail(@)]
           R == ToAsk(queued[r], acquired'[r], given[r])
           again == p \in acquired[r] /\ p \in queued[r]
<1>1. net \in NetType /\ h \in Seq(Messages) /\ <<p, r>> \in Link
  BY LinkOf DEF TypeOK, NetType
<1>2. /\ h # <<>> /\ Head(h) = "release OK" /\ UNCHANGED <<phase, given, queued>>
      /\ net' = IF again THEN Sent(n1, r, R, "lock") ELSE n1
      /\ acquired \in [Replications -> SUBSET Replications]
      /\ acquired' = [acquired EXCEPT ![r] = @ \ {p}]
  BY DEF Released, IsNext, TypeOK
<1>3. Shortened(h, Tail(h))
  BY <1>1, <1>2, TailShortens
<1>5. n1 \in NetType
  BY <1>1, <1>2, TailType
<1>6. (\A q \in R : q \notin given'[r]) /\ (p \in queued[r] /\ p \notin given[r] => p \in R)
  BY <1>2 DEF ToAsk
<1> SUFFICES ASSUME NEW x \in Replications, NEW y \in Replications, x # y
             PROVE  /\ Eager(net', given', acquired', queued', x, y)
                    /\ Patient(net', phase', given', acquired', queued', rank, x, y)
  BY DEF EagerAll, PatientAll
<1>7. /\ Eager(net, given, acquired, queued, x, y)
      /\ Patient(net, phase, given, acquired, queued, rank, x, y)
      /\ Agreed(net', acquired', given', y, x)
      /\ OneWay(net, acquired, y, x)
  BY DEF EagerAll, PatientAll, Loans, Loaned
<1>8. /\ y \in acquired'[x] <=> y \in acquired[x] /\ ~ (x = r /\ y = p)
      /\ x \in acquired'[y] <=> x \in acquired[y] /\ ~ (y = r /\ x = p)
  BY <1>2
<1>9. /\ n1[<<x, y>>] = IF x = p /\ y = r THEN Tail(net[<<x, y>>]) ELSE net[<<x, y>>]
      /\ n1[<<y, x>>] = IF y = p /\ x = r THEN Tail(net[<<y, x>>]) ELSE net[<<y, x>>]
  BY <1>1, LinkOf DEF NetType
<1> HIDE DEF n1, R
<1>10. Patient(n1, phase', given', acquired', queued', rank, x, y)
  <2>1. CASE x = p /\ y = r
    <3>1. /\ net[<<x, y>>] = h /\ n1[<<x, y>>] = Tail(h) /\ n1[<<y, x>>] = net[<<y, x>>]
          /\ x \notin acquired'[y] /\ (y \in acquired'[x] <=> y \in acquired[x])
      BY <1>8, <1>9, <2>1
    <3> HIDE DEF h
    <3>2. NoneAfter(Tail(h), Grants, Asks)
      <4>1. CASE x \notin acquired[y]
        BY <1>3, <1>7, <3>1, <4>1 DEF Patient, Heeded, Shortened
      <4>2. CASE x \in acquired[y]
        <5>1. ~ Has(Tail(h), LockAnswers)
          BY <1>2, <1>3, <1>7, <3>1, <4>2, KindOf DEF OneWay, Shortened
        <5>2. ~ Has(Tail(h), Grants)
          BY <5>1 DEF Has, Grants, LockAnswers
        <5> QED
          BY <5>2 DEF Has, NoneAfter
      <4> QED
        BY <4>1, <4>2
    <3>3. /\ Has(h, Asks) <=> Has(Tail(h), Asks)
          /\ Has(h, Returns) <=> Has(Tail(h), Returns)
          /\ Has(Tail(h), Refusals) => Has(h, Refusals)
      BY <1>2, <1>3, KindOf DEF Shortened
    <3>4. Heeded(n1, acquired', x, y)
      BY <1>7, <3>1, <3>2, <3>3 DEF Patient, Heeded
    <3>5. Again(n1, acquired', queued', x, y)
      BY <1>2, <1>7, <3>1, <3>3 DEF Patient, Again
    <3>6. Served(n1, phase', given', acquired', queued', rank, x, y)
      BY <1>2, <1>7, <3>1, <3>3 DEF Patient, Served, Blocked
    <3> QED
      BY <3>4, <3>5, <3>6 DEF Patient
  <2>2. CASE x = r /\ y = p
    <3>1. /\ net[<<y, x>>] = h /\ n1[<<y, x>>] = Tail(h) /\ n1[<<x, y>>] = net[<<x, y>>]
          /\ y \notin acquired'[x] /\ (x \in acquired'[y] <=> x \in acquired[y])
      BY <1>8, <1>9, <2>2
    <3> HIDE DEF h
    <3>2. /\ Has(h, LockAnswers) <=> Has(Tail(h), LockAnswers)
          /\ Has(h, Returns) <=> Has(Tail(h), Returns)
      BY <1>2, <1>3, KindOf DEF Shortened
    <3>3. Heeded(n1, acquired', x, y)
      BY <1>7, <3>1 DEF Patient, Heeded
    <3>4. Again(n1, acquired', queued', x, y)
      BY <3>1 DEF Again
    <3>5. Served(n1, phase', given', acquired', queued', rank, x, y)
      BY <1>2, <1>7, <3>1, <3>2 DEF Patient, Served, Blocked
    <3> QED
      BY <3>3, <3>4, <3>5 DEF Patient
  <2>3. CASE ~ (x = p /\ y = r) /\ ~ (x = r /\ y = p)
    <3>1. SameWaits(net[<<x, y>>], n1[<<x, y>>], net[<<y, x>>], n1[<<y, x>>])
      BY <1>9, <2>3, SameNoLess
    <3>2. /\ y \in acquired'[x] <=> y \in acquired[x]
          /\ x \in acquired'[y] <=> x \in acquired[y]
          /\ y \in given'[x] => y \in given[x]
          /\ y \in queued'[x] => y \in queued[x]
          /\ phase'[y] = "locking" => phase[y] = "locking"
      BY <1>2, <1>8, <2>3
    <3> QED
      BY <1>7, <3>1, <3>2, WaitsKept
  <2> QED
    BY <2>1, <2>2, <2>3
<1>11. Patient(net', phase', given', acquired', queued', rank, x, y)
  <2>1. CASE again
    <3>1. net' = Sent(n1, r, R, "lock")
      BY <1>2, <2>1
    <3>2. Agreed(Sent(n1, r, R, "lock"), acquired', given', y, x)
      BY <1>7, <3>1
    <3>3. Patient(Sent(n1, r, R, "lock"), phase', given', acquired', queued', rank, x, y)
      BY <1>5, <1>6, <1>10, <3>2, PatientAsked
    <3> QED
      BY <3>1, <3>3
  <2>2. CASE ~ again
    BY <1>2, <1>10, <2>2
  <2> QED
    BY <2>1, <2>2
<1>12. Eager(net', given', acquired', queued', x, y)
  <2>1. CASE x = r /\ y = p /\ again
    <3>1. /\ net'[<<x, y>>] = IF x = r /\ y \in R THEN Append(n1[<<x, y>>], "lock") ELSE n1[<<x, y>>]
          /\ n1[<<x, y>>] \in Seq(Messages) /\ "lock" \in Messages
      <4>1. Sent(n1, r, R, "lock")[<<x, y>>] =
              IF x = r /\ y \in R THEN Append(n1[<<x, y>>], "lock") ELSE n1[<<x, y>>]
        BY <1>5, SentOn
      <4> QED
        BY <1>2, <1>5, <2>1, <4>1, LinkOf DEF NetType, Messages
    <3>2. p \in R => Has(net'[<<x, y>>], Asks)
      <4>1. Extended(n1[<<x, y>>], "lock", Append(n1[<<x, y>>], "lock"))
        BY <3>1, AppendExtends
      <4>2. Has(Append(n1[<<x, y>>], "lock"), Asks)
        BY <4>1, KindOf DEF Extended
      <4> QED
        BY <2>1, <3>1, <4>2
    <3> QED
      BY <1>2, <1>6, <2>1, <3>2 DEF Eager
  <2>2. CASE ~ (x = r /\ y = p /\ again)
    <3>1. y \in queued'[x] => (y \in acquired'[x] <=> y \in acquired[x])
      BY <1>2, <1>8, <2>2
    <3>2. /\ Has(n1[<<x, y>>], Asks) <=> Has(net[<<x, y>>], Asks)
          /\ Has(n1[<<y, x>>], LockAnswers) <=> Has(net[<<y, x>>], LockAnswers)
      BY <1>2, <1>3, <1>9, KindOf DEF Shortened
    <3>3. Eager(n1, given', acquired', queued', x, y)
      BY <1>2, <1>7, <3>1, <3>2 DEF Eager
    <3>4. "lock" \in Messages
      BY DEF Messages
    <3>5. Eager(Sent(n1, r, R, "lock"), given', acquired', queued', x, y)
      BY <1>5, <3>3, <3>4, EagerAsked
    <3> QED
      BY <1>2, <3>3, <3>5
  <2> QED
    BY <2>1, <2>2
<1> QED
  BY <1>11, <1>12

(* A replication that begins is the last one; the locks its peers have     *)
(* still given it are on their way back.                                   *)
LEMMA LockKeepsPatience ==
  ASSUME TypeOK, EagerAll, Loans, Loans', NEW rank \in Ranks, PatientAll(rank),
         NEW r \in Replications, Lock(r),
         NEW later, later = [rank EXCEPT ![r] = started + 1]
  PROVE  EagerAll' /\ PatientAll(later)'
<1> DEFINE R == ToAsk(peers[r], acquired[r], given[r])
<1>1. /\ net \in NetType /\ started \in Nat
      /\ rank \in [Replications -> 0 .. started]
  BY DEF TypeOK, NetType, Ranks
<1>2. /\ phase[r] = "ready" /\ UNCHANGED <<given, acquired>>
      /\ peers \in [Replications -> SUBSET Replications]
      /\ \/ /\ net' = net /\ queued' = queued
            /\ phase' = [phase EXCEPT ![r] = "replicating"]
         \/ /\ net' = Sent(net, r, R, "lock")
            /\ queued' = [queued EXCEPT ![r] = peers[r]]
            /\ phase' = [phase EXCEPT ![r] = "locking"]
  BY PeersAssumed DEF Lock
<1>3. /\ phase \in [Replications -> {"ready", "locking", "replicating"}]
      /\ queued \in [Replications -> SUBSET Replications]
      /\ queued[r] = {}
  BY <1>2 DEF TypeOK
<1>4. (\A q \in R : q \notin given[r]) /\ (\A q \in peers[r] : q \in acquired[r] \cup given[r] \cup R)
  BY DEF ToAsk
<1> SUFFICES ASSUME NEW x \in Replications, NEW y \in Replications, x # y
             PROVE  /\ Eager(net', given', acquired', queued', x, y)
                    /\ Patient(net', phase', given', acquired', queued', later, x, y)
  BY DEF EagerAll, PatientAll
<1>5. /\ Eager(net, given, acquired, queued, x, y)
      /\ Patient(net, phase, given, acquired, queued, rank, x, y)
      /\ Loaned(net, phase, given, acquired, queued, x, y)
      /\ Loaned(net, phase, given, acquired, queued, y, x)
      /\ Agreed(net', acquired', given', y, x)
  BY DEF EagerAll, PatientAll, Loans, Loaned
<1>6. later[x] = (IF x = r THEN started + 1 ELSE rank[x]) /\ later[y] = (IF y = r THEN started + 1 ELSE rank[y])
  BY <1>1
<1> HIDE DEF R
<1>7. Patient(net, phase', given', acquired', queued', later, x, y)
  <2>1. Heeded(net, acquired', x, y)
    BY <1>2, <1>5 DEF Patient
  <2>2. Again(net, acquired', queued', x, y)
    <3>1. CASE x = r
      BY <1>2, <1>5, <3>1 DEF Loaned, Returning, Again
    <3>2. CASE x # r
      BY <1>2, <1>3, <1>5, <3>2 DEF Patient, Again
    <3> QED
      BY <3>1, <3>2
  <2>3. Served(net, phase', given', acquired', queued', later, x, y)
    <3>1. CASE x = r
      <4>1. later[y] < later[x]
        BY <1>1, <1>6, <3>1
      <4> QED
        BY <4>1 DEF Served
    <3>2. CASE y = r
      <4>1. y \in given[x] => Has(net[<<y, x>>], Returns)
        <5>1. CASE x \in acquired[y]
          BY <1>2, <1>5, <3>2, <5>1 DEF Loaned, Agreed, Returning
        <5>2. CASE x \notin acquired[y]
          <6>1. ~ Has(net[<<x, y>>], LockAnswers)
            BY <1>3, <1>5, <3>2, <5>2 DEF Loaned, Wanted
          <6>2. ~ Has(net[<<x, y>>], Grants)
            BY <6>1 DEF Has, Grants, LockAnswers
          <6> QED
            BY <1>5, <5>2, <6>2 DEF Loaned, Agreed
        <5> QED
          BY <5>1, <5>2
      <4> QED
        BY <1>2, <4>1 DEF Served, Blocked
    <3>3. CASE x # r /\ y # r
      <4>1. /\ later[x] = rank[x] /\ later[y] = rank[y]
            /\ queued'[x] = queued[x] /\ phase'[y] = phase[y]
        BY <1>2, <1>3, <1>6, <3>3
      <4> QED
        BY <1>2, <1>5, <4>1 DEF Patient, Served, Blocked
    <3> QED
      BY <3>1, <3>2, <3>3
  <2> QED
    BY <2>1, <2>2, <2>3 DEF Patient
<1>8. Patient(net', phase', given', acquired', queued', later, x, y)
  <2>1. CASE net' = net
    BY <1>7, <2>1
  <2>2. CASE net' = Sent(net, r, R, "lock")
    <3>1. Agreed(Sent(net, r, R, "lock"), acquired', given', y, x)
      BY <1>5, <2>2
    <3>2. \A q \in R : q \notin given'[r]
      BY <1>2, <1>4
    <3>3. Patient(Sent(net, r, R, "lock"), phase', given', acquired', queued', later, x, y)
      BY <1>1, <1>7, <3>1, <3>2, PatientAsked
    <3> QED
      BY <2>2, <3>3
  <2> QED
    BY <1>2, <2>1, <2>2
<1>9. Eager(net', given', acquired', queued', x, y)
  <2>1. CASE net' = net /\ queued' = queued
    BY <1>2, <1>5, <2>1 DEF Eager
  <2>2. CASE net' = Sent(net, r, R, "lock") /\ queued' = [queued EXCEPT ![r] = peers[r]]
    <3>1. CASE x = r
      <4>1. y \in R => Has(net'[<<x, y>>], Asks)
        <5>1. net[<<x, y>>] \in Seq(Messages) /\ "lock" \in Messages
          BY <1>1, LinkOf DEF NetType, Messages
        <5>2. Extended(net[<<x, y>>], "lock", Append(net[<<x, y>>], "lock"))
          BY <5>1, AppendExtends
        <5>3. Has(Append(net[<<x, y>>], "lock"), Asks)
          BY <5>2, KindOf DEF Extended
        <5>4. Sent(net, r, R, "lock")[<<x, y>>] =
                IF x = r /\ y \in R THEN Append(net[<<x, y>>], "lock") ELSE net[<<x, y>>]
          BY <1>1, SentOn
        <5> QED
          BY <2>2, <3>1, <5>3, <5>4
      <4>2. y \in queued'[x] => y \in peers[r]
        BY <1>3, <2>2, <3>1
      <4> QED
        BY <1>2, <1>4, <3>1, <4>1, <4>2 DEF Eager
    <3>2. CASE x # r
      <4>1. Eager(net, given', acquired', queued', x, y)
        BY <1>2, <1>3, <1>5, <2>2, <3>2 DEF Eager
      <4>2. "lock" \in Messages
        BY DEF Messages
      <4>3. Eager(Sent(net, r, R, "lock"), given', acquired', queued', x, y)
        BY <1>1, <4>1, <4>2, EagerAsked
      <4> QED
        BY <2>2, <4>3
    <3> QED
      BY <3>1, <3>2
  <2> QED
    BY <1>2, <2>1, <2>2
<1> QED
  BY <1>8, <1>9

-----------------------------------------------------------------------------
LEMMA WaitsStayInOrder ==
  ASSUME TypeOK, LocksInOrder, LocksInOrder', WaitsInOrder, [Next]_vars
  PROVE  WaitsInOrder'
<1> SUFFICES ASSUME overtakes' = 0 PROVE Patience'
  BY DEF WaitsInOrder
<1>1. overtakes \in Nat /\ started \in Nat
  BY DEF TypeOK
<1>2. overtakes = 0
  <2>1. overtakes' = overtakes \/ overtakes' = overtakes + 1
    BY DEF Next, vars, Lock, Replicated, Receive, TryLock, Granted, Refused, Release,
           Released, Overtake
  <2> QED
    BY <1>1, <2>1
<1>3. EagerAll /\ Loans /\ Loans'
  BY <1>2 DEF WaitsInOrder, Patience, LocksInOrder, Loans
<1>4. PICK rank \in Ranks : PatientAll(rank)
  BY <1>2 DEF WaitsInOrder, Patience
<1>5. ASSUME started' = started, EagerAll', PatientAll(rank)' PROVE Patience'
  <2>1. rank \in Ranks'
    BY <1>5 DEF Ranks
  <2> QED
    BY <1>5, <2>1 DEF Patience
<1>6. CASE UNCHANGED vars
  BY <1>3, <1>4, <1>5, <1>6 DEF vars, EagerAll, Eager, PatientAll, Patient, Again, Heeded,
     Served, Blocked
<1>7. ASSUME NEW r \in Replications, Lock(r) PROVE Patience'
  <2>1. PICK later : later = [rank EXCEPT ![r] = started + 1]
    OBVIOUS
  <2>2. EagerAll' /\ PatientAll(later)'
    BY <1>3, <1>4, <1>7, <2>1, LockKeepsPatience
  <2>3. started' = started + 1
    BY <1>7 DEF Lock
  <2>4. later \in Ranks'
    BY <1>1, <2>1, <2>3 DEF Ranks
  <2> QED
    BY <2>2, <2>4 DEF Patience
<1>8. ASSUME NEW r \in Replications, Replicated(r) PROVE Patience'
  <2>1. started' = started
    BY <1>8 DEF Replicated
  <2> QED
    BY <1>3, <1>4, <1>5, <1>8, <2>1, ReplicatedKeepsPatience
<1>9. ASSUME NEW r \in Replications, NEW p \in Replications, r # p, Receive(r, p) PROVE Patience'
  <2>1. started' = started
    BY <1>9 DEF Receive, TryLock, Granted, Refused, Release, Released
  <2>2. EagerAll' /\ PatientAll(rank)'
    BY <1>3, <1>4, <1>9, TryLockKeepsPatience, GrantedKeepsPatience, NeverRefused,
       ReleaseKeepsPatience, ReleasedKeepsPatience DEF Receive
  <2> QED
    BY <1>5, <2>1, <2>2
<1>10. ASSUME NEW l \in Link, Receive(l[2], l[1]) PROVE Patience'
  <2>1. l[1] \in Replications /\ l[2] \in Replications /\ l[2] # l[1]
    BY DEF Link
  <2> QED
    BY <1>9, <1>10, <2>1
<1>11. ASSUME NEW l \in Link, Overtake(l) PROVE FALSE
  BY <1>1, <1>2, <1>11 DEF Overtake
<1> QED
  BY <1>6, <1>7, <1>8, <1>10, <1>11 DEF Next

LEMMA FirstWaits ==
  ASSUME Init
  PROVE  WaitsInOrder
<1>1. PICK rank : rank = [r \in Replications |-> 0]
  OBVIOUS
<1>2. rank \in Ranks
  BY <1>1 DEF Init, Ranks
<1>3. ASSUME NEW x \in Replications, NEW y \in Replications, x # y
      PROVE  /\ Eager(net, given, acquired, queued, x, y)
             /\ Patient(net, phase, given, acquired, queued, rank, x, y)
  <2>1. net[<<x, y>>] = <<>> /\ net[<<y, x>>] = <<>>
    BY <1>3, LinkOf DEF Init
  <2>2. acquired[x] = {} /\ acquired[y] = {} /\ queued[x] = {}
    BY DEF Init
  <2>3. ~ Has(<<>>, Refusals) /\ NoneAfter(<<>>, Grants, Asks)
    BY EmptyHasNone
  <2> QED
    BY <2>1, <2>2, <2>3 DEF Eager, Patient, Again, Heeded, Served, Blocked
<1> QED
  BY <1>2, <1>3 DEF WaitsInOrder, Patience, EagerAll, PatientAll

(* Among waiting replications one waits for none of them: the one that has *)
(* begun first.                                                            *)
LEMMA OneIsFirst ==
  ASSUME NEW rank \in [Replications -> Nat], NEW D \in SUBSET Replications, D # {}
  PROVE  \E r \in D : \A p \in D : ~ (rank[p] < rank[r])
<1> DEFINE T == {rank[r] : r \in D}
<1>1. T \subseteq Nat /\ T # {}
  OBVIOUS
<1>2. \E n \in T : \A m \in T : <<m, n>> \notin OpToRel(<, Nat)
  BY <1>1, NatLessThanWellFounded, WFMin
<1>3. PICK r \in D : \A p \in D : <<rank[p], rank[r]>> \notin OpToRel(<, Nat)
  BY <1>2
<1> QED
  BY <1>3 DEF OpToRel

LEMMA StuckIsBlocked ==
  ASSUME LockInvariant, WaitsInOrder, overtakes = 0,
         NEW r \in Replications, NEW p \in Replications, Stuck(r, p)
  PROVE  /\ r # p
         /\ Blocked(net, given, acquired, queued, r, p)
         /\ ~ Has(net[<<p, r>>], Returns)
         /\ phase[p] # "ready"
<1>1. r # p /\ p \in queued[r]
  BY PeersAssumed DEF LockInvariant, AmongPeers, Stuck
<1>2. /\ Eager(net, given, acquired, queued, r, p)
      /\ Again(net, acquired, queued, r, p)
  BY <1>1 DEF WaitsInOrder, Patience, EagerAll, PatientAll, Patient
<1>3. /\ Loaned(net, phase, given, acquired, queued, p, r)
      /\ Loaned(net, phase, given, acquired, queued, r, p)
  BY <1>1 DEF LockInvariant, LocksInOrder
<1>4. \A M : ~ Has(net[<<r, p>>], M) /\ ~ Has(net[<<p, r>>], M)
  BY EmptyHasNone DEF Stuck
<1>5. p \notin acquired[r] /\ p \in given[r]
  BY <1>1, <1>2, <1>4 DEF Eager, Again
<1>6. r \in acquired[p] /\ phase[p] # "ready"
  BY <1>3, <1>4, <1>5 DEF Loaned, Agreed, Returning
<1> QED
  BY <1>1, <1>4, <1>5, <1>6 DEF Blocked

(* "FIXME could get into deadlock if 3 parts or more in a circle": with    *)
(* any number of parts connected in any way none does, as long as links    *)
(* keep the order.  Who waits with nothing under way has not asked, since  *)
(* it has given its own lock to one that is busy, and that began before it *)
(* did (cont_lock_peer_replication).                                       *)
THEOREM NoCircleWaits == Spec => []NoDeadlock
<1>1. Init => WaitsInOrder
  BY FirstWaits
<1>2. LockInvariant /\ LockInvariant' /\ WaitsInOrder /\ [Next]_vars => WaitsInOrder'
  BY WaitsStayInOrder DEF LockInvariant
<1>3. LockInvariant /\ WaitsInOrder => NoDeadlock
  <2> SUFFICES ASSUME LockInvariant, WaitsInOrder, overtakes = 0 PROVE
                 /\ \A r, p \in Replications : Stuck(r, p) => phase[p] # "ready"
                 /\ \A D \in (SUBSET Replications) \ {{}} :
                      \E r \in D : \A p \in D : ~ Stuck(r, p)
    BY DEF NoDeadlock
  <2>1. \A r, p \in Replications : Stuck(r, p) => phase[p] # "ready"
    BY StuckIsBlocked
  <2>2. ASSUME NEW D \in SUBSET Replications, D # {}, \A r \in D : \E p \in D : Stuck(r, p)
        PROVE  FALSE
    <3>1. PICK rank \in Ranks : PatientAll(rank)
      BY DEF WaitsInOrder, Patience
    <3>2. rank \in [Replications -> Nat]
      BY <3>1 DEF Ranks, LockInvariant, TypeOK
    <3>3. PICK r \in D : \A p \in D : ~ (rank[p] < rank[r])
      BY <2>2, <3>2, OneIsFirst
    <3>4. PICK p \in D : Stuck(r, p)
      BY <2>2
    <3>5. phase[p] = "locking"
      <4>1. queued[p] # {}
        BY <2>2 DEF Stuck
      <4> QED
        BY <4>1 DEF LockInvariant, TypeOK
    <3>6. rank[p] < rank[r]
      <4>1. /\ r # p /\ Blocked(net, given, acquired, queued, r, p)
            /\ ~ Has(net[<<p, r>>], Returns)
        BY <3>4, StuckIsBlocked
      <4>2. Served(net, phase, given, acquired, queued, rank, r, p)
        BY <3>1, <4>1 DEF PatientAll, Patient
      <4> QED
        BY <3>5, <4>1, <4>2 DEF Served
    <3> QED
      BY <3>3, <3>6
  <2> QED
    BY <2>1, <2>2
<1> QED
  BY <1>1, <1>2, <1>3, LockInvariantCorrect, PTL DEF Spec
=============================================================================
