------------------------- MODULE TokenTransportProofs -------------------------
(***************************************************************************)
(* Theorems about TokenTransport, for every number of readers, every queue *)
(* length and every transport, also one that reorders its messages: first  *)
(* lemmas about the queue operators of FanoutFIFO, then the transport.     *)
(***************************************************************************)
EXTENDS TokenTransport, FiniteSetTheorems, SequenceTheorems, TLAPS

(* A set of naturals has a least element.                                  *)
LEMMA MinExists ==
  ASSUME NEW S \in SUBSET Nat, S # {}
  PROVE  \E x \in S : \A y \in S : x <= y
<1> DEFINE T == {0..x : x \in S}
<1>1. T \subseteq FiniteSubsetsOf(Nat) /\ T # {}
  <2>1. ASSUME NEW x \in S PROVE 0..x \in FiniteSubsetsOf(Nat)
    <3>1. x \in Nat /\ 0 \in Int /\ x \in Int
      OBVIOUS
    <3>2. IsFiniteSet(0..x)
      BY <3>1, FS_Interval
    <3>3. 0..x \in SUBSET Nat
      BY <3>1
    <3> QED
      BY <3>2, <3>3 DEF FiniteSubsetsOf
  <2> QED
    BY <2>1
<1>2. PICK t \in T : \A u \in T : ~ (<<u, t>> \in StrictSubsetOrdering(Nat))
  <2> HIDE DEF T
  <2> QED
    BY <1>1, WFMin, FS_StrictSubsetOrderingWellFounded
<1>3. PICK x \in S : t = 0..x
  OBVIOUS
<1>4. ASSUME NEW y \in S PROVE x <= y
  <2> SUFFICES ASSUME y < x PROVE FALSE
    OBVIOUS
  <2>1. 0..y \subseteq 0..x /\ x \notin 0..y /\ x \in 0..x
    OBVIOUS
  <2>2. <<0..y, 0..x>> \in StrictSubsetOrdering(Nat)
    BY <2>1 DEF StrictSubsetOrdering
  <2> QED
    BY <1>2, <1>3, <2>2
<1> QED
  BY <1>3, <1>4

LEMMA MinProperty ==
  ASSUME NEW S \in SUBSET Nat, S # {}
  PROVE  Min(S) \in S /\ \A y \in S : Min(S) <= y
BY MinExists DEF Min

(* Two positions less than a ring apart have different slots.              *)
LEMMA MultipleAtLeast ==
  ASSUME NEW N \in Nat \ {0}, NEW k \in Int, N * k > 0
  PROVE  N * k >= N
<1>1. CASE k <= 0
  <2>1. N * k <= 0
    BY <1>1
  <2> QED
    BY <2>1
<1>2. CASE k >= 1
  <2>1. N * k >= N * 1
    BY <1>2
  <2> QED
    BY <2>1
<1> QED
  BY <1>1, <1>2

LEMMA SlotsDistinct ==
  ASSUME NEW N \in Nat \ {0}, NEW p \in Nat, NEW q \in Nat, p < q, q - p < N
  PROVE  p % N # q % N
<1> SUFFICES ASSUME p % N = q % N PROVE FALSE
  OBVIOUS
<1>1. p = N * (p \div N) + (p % N) /\ q = N * (q \div N) + (q % N)
  OBVIOUS
<1>2. p \div N \in Int /\ q \div N \in Int /\ p % N \in Int /\ q % N \in Int
  OBVIOUS
<1>3. q - p = N * ((q \div N) - (p \div N))
  BY <1>1, <1>2
<1>4. (q \div N) - (p \div N) \in Int
  BY <1>2
<1>5. N * ((q \div N) - (p \div N)) >= N
  BY <1>3, <1>4, MultipleAtLeast
<1> QED
  BY <1>3, <1>5

LEMMA SlotInRing ==
  ASSUME NEW N \in Nat \ {0}, NEW p \in Nat
  PROVE  p % N \in 0 .. N - 1
OBVIOUS

(* last_readpos is the position of some reader, and no reader is behind it. *)
LEMMA SlowestReader ==
  ASSUME NEW length \in Nat, NEW readers, readers # {}, NEW tokens,
         NEW q \in Queue(length, readers, tokens)
  PROVE  /\ \E r \in readers : last_readpos(q) = q.read_pos[r]
         /\ \A r \in readers : last_readpos(q) <= q.read_pos[r]
<1> DEFINE S == {q.read_pos[r] : r \in DOMAIN q.read_pos}
<1>1. q.read_pos \in [readers -> Nat]
  BY DEF Queue
<1>2. S \in SUBSET Nat /\ S # {}
  BY <1>1
<1>3. Min(S) \in S /\ \A y \in S : Min(S) <= y
  <2> HIDE DEF S
  <2> QED
    BY <1>2, MinProperty
<1>4. last_readpos(q) = Min(S)
  BY DEF last_readpos
<1> QED
  BY <1>1, <1>3, <1>4

(* A free slot means that every reader is less than a queue length behind: *)
(* the slot written next is not one a reader still has to read.            *)
LEMMA FreeSlot ==
  ASSUME NEW length \in Nat, NEW readers, readers # {}, NEW tokens,
         NEW q \in Queue(length, readers, tokens),
         \A r \in readers : /\ q.read_pos[r] <= q.write_pos
                            /\ q.write_pos - q.read_pos[r] <= length
  PROVE  /\ slots_available(q, 1) => \A r \in readers : q.write_pos - q.read_pos[r] < length
         /\ ~slots_available(q, 1) => \E r \in readers : q.write_pos - q.read_pos[r] = length
<1> DEFINE last == last_readpos(q)
           d == q.write_pos - last
<1>1. q.N = length + 1 /\ q.write_pos \in Nat /\ q.read_pos \in [readers -> Nat]
  BY DEF Queue
<1>2. PICK r \in readers : last = q.read_pos[r]
  BY SlowestReader
<1>3. \A s \in readers : last <= q.read_pos[s]
  BY SlowestReader
<1>4. last \in Nat /\ d \in 0..length
  BY <1>1, <1>2
<1>5. d % q.N = d
  BY <1>1, <1>4
<1>6. slots_available(q, 1) <=> q.N - d - 1 >= 1
  BY <1>5 DEF slots_available
<1>7. slots_available(q, 1) <=> d < length
  BY <1>1, <1>4, <1>6
<1>8. ASSUME d < length, NEW s \in readers PROVE q.write_pos - q.read_pos[s] < length
  BY <1>1, <1>3, <1>4, <1>8
<1>9. ASSUME ~(d < length) PROVE q.write_pos - q.read_pos[r] = length
  BY <1>2, <1>4, <1>9
<1> QED
  BY <1>7, <1>8, <1>9

(* Writing leaves the slots of all tokens in use as they are.              *)
LEMMA WriteKeepsRing ==
  ASSUME NEW length \in Nat, NEW readers, NEW tokens, NEW t \in tokens,
         NEW q \in Queue(length, readers, tokens),
         NEW p \in Nat, p <= q.write_pos, q.write_pos - p <= length
  PROVE  /\ write(q, t) \in Queue(length, readers, tokens)
         /\ write(q, t).write_pos = q.write_pos + 1
         /\ write(q, t).N = q.N
         /\ write(q, t).read_pos = q.read_pos
         /\ write(q, t).tentative_read_pos = q.tentative_read_pos
         /\ write(q, t).reader_offset = q.reader_offset
         /\ write(q, t).fifo[p % q.N] = IF p = q.write_pos THEN t ELSE q.fifo[p % q.N]
<1>1. /\ q.N = length + 1 /\ q.N \in Nat \ {0}
      /\ q.write_pos \in Nat /\ q.fifo \in [0..length -> tokens]
  BY DEF Queue
<1>2. q.write_pos % q.N \in 0..length /\ p % q.N \in 0..length
  <2>1. q.write_pos % q.N \in 0..q.N - 1 /\ p % q.N \in 0..q.N - 1
    BY <1>1, SlotInRing
  <2>2. q.N - 1 = length
    BY <1>1
  <2> QED
    BY <2>1, <2>2
<1>3. write(q, t).fifo = [q.fifo EXCEPT ![q.write_pos % q.N] = t]
  BY DEF write, Queue
<1>4. /\ write(q, t).write_pos = q.write_pos + 1
      /\ write(q, t).N = q.N
      /\ write(q, t).read_pos = q.read_pos
      /\ write(q, t).tentative_read_pos = q.tentative_read_pos
      /\ write(q, t).reader_offset = q.reader_offset
  BY DEF write, Queue
<1>5. write(q, t).fifo \in [0..length -> tokens]
  BY <1>1, <1>3
<1>6. write(q, t) \in Queue(length, readers, tokens)
  <2>1. [q.fifo EXCEPT ![q.write_pos % q.N] = t] \in [0..length -> tokens]
    BY <1>3, <1>5
  <2>2. q.write_pos + 1 \in Nat
    BY <1>1
  <2> QED
    BY <2>1, <2>2 DEF write, Queue
<1>7. write(q, t).fifo[p % q.N] = IF p = q.write_pos THEN t ELSE q.fifo[p % q.N]
  <2>1. CASE p = q.write_pos
    BY <1>1, <1>2, <1>3, <2>1
  <2>2. CASE p < q.write_pos
    <3>1. q.write_pos - p < q.N
      BY <1>1, <2>2
    <3>2. p % q.N # q.write_pos % q.N
      BY <1>1, <2>2, <3>1, SlotsDistinct
    <3> QED
      BY <1>1, <1>2, <1>3, <2>2, <3>2
  <2> QED
    BY <1>1, <2>1, <2>2
<1> QED
  BY <1>4, <1>6, <1>7

(* Assigning to a position changes nothing else.                           *)
LEMMA SetTentative ==
  ASSUME NEW length, NEW readers, NEW tokens, NEW r \in readers, NEW pos \in Nat,
         NEW q \in Queue(length, readers, tokens)
  PROVE  /\ set_tentative(q, r, pos) \in Queue(length, readers, tokens)
         /\ set_tentative(q, r, pos).N = q.N
         /\ set_tentative(q, r, pos).fifo = q.fifo
         /\ set_tentative(q, r, pos).write_pos = q.write_pos
         /\ set_tentative(q, r, pos).read_pos = q.read_pos
         /\ set_tentative(q, r, pos).reader_offset = q.reader_offset
         /\ \A s \in readers : set_tentative(q, r, pos).tentative_read_pos[s] =
              IF s = r THEN pos ELSE q.tentative_read_pos[s]
BY DEF set_tentative, Queue

LEMMA SetCommitted ==
  ASSUME NEW length, NEW readers, NEW tokens, NEW r \in readers, NEW pos \in Nat,
         NEW q \in Queue(length, readers, tokens)
  PROVE  /\ set_committed(q, r, pos) \in Queue(length, readers, tokens)
         /\ set_committed(q, r, pos).N = q.N
         /\ set_committed(q, r, pos).fifo = q.fifo
         /\ set_committed(q, r, pos).write_pos = q.write_pos
         /\ set_committed(q, r, pos).tentative_read_pos = q.tentative_read_pos
         /\ set_committed(q, r, pos).reader_offset = q.reader_offset
         /\ \A s \in readers : set_committed(q, r, pos).read_pos[s] =
              IF s = r THEN pos ELSE q.read_pos[s]
BY DEF set_committed, Queue

(* A token read is the one in the slot of the tentative position, and both *)
(* positions are then behind it.                                           *)
LEMMA PeekCommit ==
  ASSUME NEW length \in Nat, NEW readers, NEW tokens, NEW r \in readers,
         NEW q \in Queue(length, readers, tokens)
  PROVE  LET c == commit(peek(q, r), r) IN
         /\ peeked(q, r) \in tokens
         /\ c \in Queue(length, readers, tokens)
         /\ c.N = q.N /\ c.fifo = q.fifo /\ c.write_pos = q.write_pos
         /\ c.tentative_read_pos[r] = q.tentative_read_pos[r] + 1
         /\ c.read_pos[r] = q.tentative_read_pos[r] + 1
<1> DEFINE pos == q.tentative_read_pos[r]
           p == set_tentative(q, r, pos + 1)
           c == set_committed(p, r, pos + 1)
<1>1. /\ pos \in Nat /\ pos + 1 \in Nat
      /\ q.N = length + 1 /\ q.fifo \in [0..length -> tokens]
  BY DEF Queue
<1>2. q.N \in Nat \ {0} /\ q.N - 1 = length
  BY <1>1
<1>3. pos % q.N \in 0..length
  BY <1>1, <1>2, SlotInRing
<1>4. peeked(q, r) \in tokens
  BY <1>1, <1>3 DEF peeked
<1>5. /\ p \in Queue(length, readers, tokens) /\ p.N = q.N /\ p.fifo = q.fifo
      /\ p.write_pos = q.write_pos /\ p.tentative_read_pos[r] = pos + 1
  BY <1>1, SetTentative
<1>6. commit(peek(q, r), r) = c
  BY <1>5 DEF commit, peek
<1>7. /\ c \in Queue(length, readers, tokens) /\ c.N = q.N /\ c.fifo = q.fifo
      /\ c.write_pos = q.write_pos /\ c.tentative_read_pos[r] = pos + 1
      /\ c.read_pos[r] = pos + 1
  <2> HIDE DEF p
  <2> QED
    BY <1>1, <1>5, SetCommitted
<1> QED
  BY <1>4, <1>6, <1>7
-----------------------------------------------------------------------------
(* The elements of a channel when a message is added, taken or overtaken.  *)
LEMMA RangeAppend ==
  ASSUME NEW S, NEW s \in Seq(S), NEW e \in S
  PROVE  Append(s, e) \in Seq(S) /\ Range(Append(s, e)) = Range(s) \cup {e}
<1>1. Append(s, e) \in Seq(S)
  BY AppendProperties
<1>2. DOMAIN s = 1..Len(s) /\ Len(s) \in Nat /\ DOMAIN Append(s, e) = 1..(Len(s) + 1)
  BY <1>1, AppendProperties, LenProperties
<1>3. /\ \A i \in DOMAIN s : Append(s, e)[i] = s[i]
      /\ Append(s, e)[Len(s) + 1] = e
  BY <1>2, AppendProperties
<1>4. \A i \in DOMAIN Append(s, e) : i \in DOMAIN s \/ i = Len(s) + 1
  BY <1>2
<1>5. DOMAIN s \subseteq DOMAIN Append(s, e) /\ Len(s) + 1 \in DOMAIN Append(s, e)
  BY <1>2
<1> QED
  BY <1>1, <1>3, <1>4, <1>5, Zenon DEF Range

LEMMA RangeConcat ==
  ASSUME NEW S, NEW s \in Seq(S), NEW t \in Seq(S)
  PROVE  s \o t \in Seq(S) /\ Range(s \o t) \subseteq Range(s) \cup Range(t)
<1>1. s \o t \in Seq(S) /\ Len(s \o t) = Len(s) + Len(t)
  BY ConcatProperties
<1>2. /\ DOMAIN s = 1..Len(s) /\ DOMAIN t = 1..Len(t) /\ DOMAIN (s \o t) = 1..Len(s \o t)
      /\ Len(s) \in Nat /\ Len(t) \in Nat
  BY <1>1, LenProperties
<1>3. ASSUME NEW i \in DOMAIN (s \o t)
      PROVE  \/ i \in DOMAIN s /\ (s \o t)[i] = s[i]
             \/ i - Len(s) \in DOMAIN t /\ (s \o t)[i] = t[i - Len(s)]
  BY <1>1, <1>2, ConcatProperties
<1> QED
  BY <1>1, <1>3, Zenon DEF Range

LEMMA RangeTail ==
  ASSUME NEW S, NEW s \in Seq(S), s # <<>>
  PROVE  /\ Tail(s) \in Seq(S) /\ Range(Tail(s)) \subseteq Range(s)
         /\ Head(s) \in S /\ Head(s) \in Range(s)
BY HeadTailProperties DEF Range

LEMMA RangeSwapped ==
  ASSUME NEW S, NEW s \in Seq(S), NEW i \in 1 .. Len(s) - 1
  PROVE  Swapped(s, i) \in Seq(S) /\ Range(Swapped(s, i)) \subseteq Range(s)
<1>1. i \in 1..Len(s) /\ i + 1 \in 1..Len(s) /\ s[i] \in S /\ s[i + 1] \in S
  BY ElementOfSeq
<1>2. /\ [s EXCEPT ![i] = s[i + 1]] \in Seq(S)
      /\ Len([s EXCEPT ![i] = s[i + 1]]) = Len(s)
  BY <1>1, ExceptSeq
<1>3. Swapped(s, i) = [[s EXCEPT ![i] = s[i + 1]] EXCEPT ![i + 1] = s[i]]
  BY DEF Swapped
<1>4. Swapped(s, i) \in Seq(S) /\ Len(Swapped(s, i)) = Len(s)
  BY <1>1, <1>2, <1>3, ExceptSeq
<1>5. \A j \in 1..Len(s) : Swapped(s, i)[j] \in {s[k] : k \in 1..Len(s)}
  BY <1>1 DEF Swapped
<1> QED
  BY <1>4, <1>5 DEF Range

(* The channels of all readers when a message is added or taken for one.   *)
LEMMA ChannelAppend ==
  ASSUME NEW S, NEW c \in [Readers -> Seq(S)], NEW r \in Readers, NEW e \in S
  PROVE  /\ [c EXCEPT ![r] = Append(@, e)] \in [Readers -> Seq(S)]
         /\ \A s \in Readers :
              Range([c EXCEPT ![r] = Append(@, e)][s]) \subseteq Range(c[s]) \cup {e}
<1>1. Append(c[r], e) \in Seq(S) /\ Range(Append(c[r], e)) = Range(c[r]) \cup {e}
  BY RangeAppend
<1> QED
  BY <1>1

LEMMA ChannelTail ==
  ASSUME NEW S, NEW c \in [Readers -> Seq(S)], NEW r \in Readers, c[r] # <<>>
  PROVE  /\ [c EXCEPT ![r] = Tail(@)] \in [Readers -> Seq(S)]
         /\ \A s \in Readers : Range([c EXCEPT ![r] = Tail(@)][s]) \subseteq Range(c[s])
<1>1. Tail(c[r]) \in Seq(S) /\ Range(Tail(c[r])) \subseteq Range(c[r])
  BY RangeTail
<1> QED
  BY <1>1

LEMMA ChannelSwapped ==
  ASSUME NEW S, NEW c \in [Readers -> Seq(S)], NEW r \in Readers,
         NEW i \in 1 .. Len(c[r]) - 1
  PROVE  /\ [c EXCEPT ![r] = Swapped(@, i)] \in [Readers -> Seq(S)]
         /\ \A s \in Readers :
              Range([c EXCEPT ![r] = Swapped(@, i)][s]) \subseteq Range(c[s])
<1>1. Swapped(c[r], i) \in Seq(S) /\ Range(Swapped(c[r], i)) \subseteq Range(c[r])
  BY RangeSwapped
<1> QED
  BY <1>1

LEMMA ChannelAppendAll ==
  ASSUME NEW S, NEW c \in [Readers -> Seq(S)], NEW e \in S
  PROVE  /\ [r \in Readers |-> Append(c[r], e)] \in [Readers -> Seq(S)]
         /\ \A s \in Readers :
              Range([r \in Readers |-> Append(c[r], e)][s]) \subseteq Range(c[s]) \cup {e}
<1>1. \A r \in Readers : /\ Append(c[r], e) \in Seq(S)
                         /\ Range(Append(c[r], e)) = Range(c[r]) \cup {e}
  BY RangeAppend
<1> QED
  BY <1>1

(* The position up to which an ACK commits: from the read position up to,  *)
(* at most, the tentative one, and every position passed is acknowledged.  *)
LEMMA FirstUnackedProperty ==
  ASSUME NEW length, NEW readers, NEW tokens, NEW r \in readers, NEW seqs,
         NEW q \in Queue(length, readers, tokens)
  PROVE  /\ FirstUnacked(q, r, seqs) \in Nat
         /\ q.read_pos[r] <= FirstUnacked(q, r, seqs)
         /\ FirstUnacked(q, r, seqs) > q.read_pos[r] =>
              /\ FirstUnacked(q, r, seqs) <= q.tentative_read_pos[r]
              /\ \A p \in q.read_pos[r] .. FirstUnacked(q, r, seqs) - 1 :
                   p - q.reader_offset[r] \in seqs
<1> DEFINE from == q.read_pos[r]
           to == q.tentative_read_pos[r]
           S == {p \in from..to : p = to \/ p - q.reader_offset[r] \notin seqs}
<1>1. from \in Nat /\ to \in Nat
  BY DEF Queue
<1>2. CASE from >= to
  BY <1>1, <1>2 DEF FirstUnacked
<1>3. CASE from < to
  <2>1. S \in SUBSET Nat /\ S # {}
    BY <1>1, <1>3
  <2>2. Min(S) \in S /\ \A y \in S : Min(S) <= y
    <3> HIDE DEF S
    <3> QED
      BY <2>1, MinProperty
  <2>3. FirstUnacked(q, r, seqs) = Min(S)
    BY <1>1, <1>3 DEF FirstUnacked
  <2>4. Min(S) \in from..to
    BY <2>2
  <2>5. ASSUME NEW p \in from .. Min(S) - 1 PROVE p - q.reader_offset[r] \in seqs
    BY <1>1, <2>2, <2>4
  <2> HIDE DEF S
  <2> QED
    BY <1>1, <2>3, <2>4, <2>5
<1> QED
  BY <1>1, <1>2, <1>3

-----------------------------------------------------------------------------
LEMMA OutgoingProperty ==
  ASSUME TypeOK, NEW r \in Readers, SendCount(r) > 0
  PROVE  /\ SendCount(r) \in Nat
         /\ SendCount(r) <= outq.write_pos - outq.tentative_read_pos[r]
         /\ Outgoing(r, SendCount(r)) \in Seq(InMessage)
         /\ \A m \in Range(Outgoing(r, SendCount(r))) :
              \E p \in outq.tentative_read_pos[r] .. outq.write_pos - 1 :
                m = TokenMessage(p, outq.fifo[p % outq.N])
<1> DEFINE n == SendCount(r)
           from == outq.tentative_read_pos[r]
<1>1. /\ from \in Nat /\ outq.write_pos \in Nat /\ outq.reader_offset[r] = 0
      /\ outq.N = OutLength + 1 /\ outq.fifo \in [0..OutLength -> Token]
  BY DEF TypeOK, Queue
<1>2. n \in Nat /\ n <= outq.write_pos - from
  BY <1>1 DEF SendCount
<1>3. ASSUME NEW i \in 1..n
      PROVE  /\ from + i - 1 \in from .. outq.write_pos - 1
             /\ Outgoing(r, n)[i] =
                  TokenMessage(from + i - 1, outq.fifo[(from + i - 1) % outq.N])
             /\ Outgoing(r, n)[i] \in InMessage
  <2>1. from + i - 1 \in from .. outq.write_pos - 1 /\ from + i - 1 \in Nat
    BY <1>1, <1>2
  <2>2. Outgoing(r, n)[i] =
          TokenMessage(from + i - 1, outq.fifo[(from + i - 1) % outq.N])
    BY <1>1, <1>2, <2>1 DEF Outgoing
  <2>3. outq.N \in Nat \ {0} /\ outq.N - 1 = OutLength
    BY <1>1, LengthAssumption
  <2>4. (from + i - 1) % outq.N \in 0..OutLength
    BY <2>1, <2>3, SlotInRing
  <2>5. outq.fifo[(from + i - 1) % outq.N] \in Token
    BY <1>1, <2>4
  <2> QED
    BY <2>1, <2>2, <2>5 DEF TokenMessage, InMessage
<1>4. Outgoing(r, n) \in [1..n -> InMessage] /\ DOMAIN Outgoing(r, n) = 1..n
  BY <1>3 DEF Outgoing
<1>5. Outgoing(r, n) \in Seq(InMessage)
  BY <1>2, <1>4, SeqDef
<1> QED
  BY <1>2, <1>3, <1>4, <1>5 DEF Range

LEMMA InitType == Init => TypeOK
<1> SUFFICES ASSUME Init PROVE TypeOK
  OBVIOUS
<1> DEFINE blank == CHOOSE t \in Token : TRUE
<1>1. blank \in Token
  BY TokenAssumption
<1>2. ASSUME NEW length \in Nat, NEW readers
      PROVE  /\ NewQueue(length, readers, blank) \in Queue(length, readers, Token)
             /\ NewQueue(length, readers, blank).reader_offset = [r \in readers |-> 0]
  BY <1>1 DEF NewQueue, Queue
<1>3. outq \in Queue(OutLength, Readers, Token)
      /\ outq.reader_offset = [r \in Readers |-> 0]
  BY <1>2, LengthAssumption DEF Init
<1>4. inq = [r \in Readers |-> NewQueue(InLength, {r}, blank)]
  BY DEF Init
<1>5. inq = [r \in Readers |-> inq[r]] /\ \A r \in Readers : inq[r] \in Queue(InLength, {r}, Token)
  <2> HIDE DEF blank
  <2> QED
    BY <1>2, <1>4, LengthAssumption
<1> QED
  BY <1>3, <1>5, BoundAssumption DEF Init, TypeOK

LEMMA ControlType ==
  \A c \in Commands : Control(c) \in InMessage /\ Control(c) \in OutMessage
BY DEF Control, InMessage, OutMessage

(* Detaching cancels tentative reads and does nothing else to the queue.   *)
LEMMA DetachOutProperty ==
  ASSUME TypeOK, NEW R, DetachOut(R)
  PROVE  /\ outq' \in Queue(OutLength, Readers, Token)
         /\ outq'.N = outq.N /\ outq'.fifo = outq.fifo
         /\ outq'.write_pos = outq.write_pos
         /\ outq'.read_pos = outq.read_pos
         /\ outq'.reader_offset = outq.reader_offset
         /\ \A r \in Readers : outq'.tentative_read_pos[r] =
              IF r \in R THEN outq.read_pos[r] ELSE outq.tentative_read_pos[r]
<1>1. outq \in Queue(OutLength, Readers, Token)
  BY DEF TypeOK
<1> DEFINE f == [r \in Readers |-> IF r \in R THEN outq.read_pos[r]
                                  ELSE outq.tentative_read_pos[r]]
<1>2. f \in [Readers -> Nat]
  BY <1>1 DEF Queue
<1>3. outq' = [outq EXCEPT !.tentative_read_pos = f]
  BY DEF DetachOut
<1>4. outq'.tentative_read_pos = f
  BY <1>1, <1>3 DEF Queue
<1>5. /\ outq'.N = outq.N /\ outq'.fifo = outq.fifo
      /\ outq'.write_pos = outq.write_pos
      /\ outq'.read_pos = outq.read_pos
      /\ outq'.reader_offset = outq.reader_offset
  BY <1>1, <1>3 DEF Queue
<1>6. outq' \in Queue(OutLength, Readers, Token)
  <2> HIDE DEF f
  <2> QED
    BY <1>1, <1>2, <1>3 DEF Queue
<1> QED
  BY <1>4, <1>5, <1>6

LEMMA DetachOutType ==
  ASSUME TypeOK, NEW R, DetachOut(R)
  PROVE  /\ outq' \in Queue(OutLength, Readers, Token)
         /\ outq'.reader_offset = [r \in Readers |-> 0]
         /\ out_enabled' \in BOOLEAN
         /\ out_endpoint' \in [Readers -> BOOLEAN]
         /\ bulk' \in [Readers -> BOOLEAN]
         /\ acked' \in [Readers -> SUBSET Nat]
         /\ backoff' \in [Readers -> BOOLEAN]
<1>1. /\ outq' \in Queue(OutLength, Readers, Token)
      /\ outq'.reader_offset = [r \in Readers |-> 0]
  BY DetachOutProperty DEF TypeOK
<1>2. /\ out_endpoint' \in [Readers -> BOOLEAN]
      /\ bulk' \in [Readers -> BOOLEAN]
      /\ acked' \in [Readers -> SUBSET Nat]
      /\ backoff' \in [Readers -> BOOLEAN]
      /\ out_enabled' \in BOOLEAN
  BY DEF TypeOK, DetachOut
<1> QED
  BY <1>1, <1>2

LEMMA TransportType ==
  ASSUME TypeOK, NEW r \in Readers, Transport(r)
  PROVE  TypeOK'
<1>0. outq \in Queue(OutLength, Readers, Token) /\ inq[r] \in Queue(InLength, {r}, Token)
  BY DEF TypeOK
<1>1. CASE Communicate(r)
  <2>1. SendCount(r) > 0
    BY <1>1 DEF Communicate
  <2>2. /\ SendCount(r) \in Nat
        /\ Outgoing(r, SendCount(r)) \in Seq(InMessage)
    BY <2>1, OutgoingProperty
  <2>3. to_in' \in [Readers -> Seq(InMessage)]
    BY <1>1, <2>2, RangeConcat DEF Communicate, TypeOK
  <2>4. outq.tentative_read_pos[r] + SendCount(r) \in Nat
    BY <1>0, <2>2 DEF Queue
  <2>5. outq' \in Queue(OutLength, Readers, Token) /\ outq'.reader_offset = outq.reader_offset
    BY <1>0, <1>1, <2>4, SetTentative DEF Communicate
  <2> QED
    BY <1>1, <2>3, <2>5 DEF Communicate, TypeOK, queues, endpoints, phases
<1>2. CASE BackoffExpires(r)
  BY <1>2 DEF BackoffExpires, TypeOK, queues, phases
<1>3. CASE ReceiveToken(r)
  <2> DEFINE m == Head(to_in[r])
             resp == com_write_response(inq[r], m.seq)
  <2>1. /\ m \in InMessage /\ m.cmd = "TOKEN"
        /\ to_in' = [to_in EXCEPT ![r] = Tail(@)] /\ Tail(to_in[r]) \in Seq(InMessage)
    BY <1>3, RangeTail DEF ReceiveToken, IsNext, TypeOK
  <2>2. m.seq \in Nat /\ m.token \in Token
    BY <2>1 DEF InMessage, Commands
  <2>3. write(inq[r], m.token) \in Queue(InLength, {r}, Token)
    <3>1. inq[r].write_pos \in Nat /\ inq[r].write_pos - inq[r].write_pos <= InLength
      BY <1>0, LengthAssumption DEF Queue
    <3> QED
      BY <1>0, <2>2, <3>1, LengthAssumption, WriteKeepsRing
  <2>4. \/ inq' = inq \/ inq' = [inq EXCEPT ![r] = write(inq[r], m.token)]
    BY <1>3 DEF ReceiveToken
  <2>5. inq' = [s \in Readers |-> inq'[s]]
        /\ \A s \in Readers : inq'[s] \in Queue(InLength, {s}, Token)
    BY <2>3, <2>4 DEF TypeOK
  <2>6. TokenReply(m.seq, IF resp \in {"handled", "unhandled"} THEN "ACK" ELSE "NACK") \in OutMessage
    BY <2>2 DEF TokenReply, OutMessage
  <2>7. to_out' \in [Readers -> Seq(OutMessage)]
    <3>1. \/ to_out' = to_out
          \/ \E e \in OutMessage : to_out' = [to_out EXCEPT ![r] = Append(to_out[r], e)]
      BY <1>3, <2>6 DEF ReceiveToken
    <3>2. to_out \in [Readers -> Seq(OutMessage)]
      BY DEF TypeOK
    <3>3. ASSUME NEW e \in OutMessage
          PROVE  [to_out EXCEPT ![r] = Append(to_out[r], e)] \in [Readers -> Seq(OutMessage)]
      BY <3>2, ChannelAppend
    <3> QED
      BY <3>1, <3>2, <3>3
  <2> QED
    BY <1>3, <2>1, <2>5, <2>7 DEF ReceiveToken, TypeOK, endpoints, phases
<1>4. CASE ReceiveAck(r)
  <2> DEFINE seq == Head(to_out[r]).seq
             seqs == acked[r] \cup {seq}
  <2>1. /\ Head(to_out[r]) \in OutMessage /\ Head(to_out[r]).cmd = "TOKEN_REPLY"
        /\ to_out' \in [Readers -> Seq(OutMessage)]
    BY <1>4, RangeTail DEF ReceiveAck, IsNext, TypeOK
  <2>2. seq \in Nat
    BY <2>1 DEF OutMessage, Commands
  <2>3. /\ com_commit(outq, r, seq) \in Queue(OutLength, Readers, Token)
        /\ com_commit(outq, r, seq).reader_offset = outq.reader_offset
    <3>1. outq.read_pos[r] + 1 \in Nat
      BY <1>0 DEF Queue
    <3> QED
      BY <1>0, <3>1, SetCommitted DEF com_commit
  <2>4. /\ Drained(outq, r, seqs) \in Queue(OutLength, Readers, Token)
        /\ Drained(outq, r, seqs).reader_offset = outq.reader_offset
    <3>1. FirstUnacked(outq, r, seqs) \in Nat
      BY <1>0, FirstUnackedProperty
    <3> QED
      BY <1>0, <3>1, SetCommitted DEF Drained
  <2>5. Kept(outq, r, seqs) \in SUBSET Nat
    BY <2>2 DEF Kept, TypeOK
  <2>6. outq' \in Queue(OutLength, Readers, Token) /\ outq'.reader_offset = outq.reader_offset
    BY <1>0, <1>4, <2>3, <2>4 DEF ReceiveAck
  <2>7. acked' \in [Readers -> SUBSET Nat]
    BY <1>4, <2>5 DEF ReceiveAck, TypeOK
  <2>8. bulk' \in [Readers -> BOOLEAN] /\ backoff' \in [Readers -> BOOLEAN]
    BY <1>4 DEF ReceiveAck, TypeOK
  <2> QED
    BY <1>4, <2>1, <2>6, <2>7, <2>8 DEF ReceiveAck, TypeOK, phases
<1>5. CASE ReceiveNack(r)
  <2> DEFINE seq == Head(to_out[r]).seq
  <2>1. /\ Head(to_out[r]) \in OutMessage /\ Head(to_out[r]).cmd = "TOKEN_REPLY"
        /\ to_out' \in [Readers -> Seq(OutMessage)]
    BY <1>5, RangeTail DEF ReceiveNack, IsNext, TypeOK
  <2>2. seq \in Nat
    BY <2>1 DEF OutMessage, Commands
  <2>3. /\ com_cancel(outq, r, seq) \in Queue(OutLength, Readers, Token)
        /\ com_cancel(outq, r, seq).reader_offset = outq.reader_offset
    <3>1. seq + outq.reader_offset[r] \in Nat
      BY <1>0, <2>2 DEF Queue
    <3> QED
      BY <1>0, <3>1, SetTentative DEF com_cancel
  <2>4. outq' \in Queue(OutLength, Readers, Token) /\ outq'.reader_offset = outq.reader_offset
    BY <1>0, <1>5, <2>3 DEF ReceiveNack
  <2>5. acked' \in [Readers -> SUBSET Nat]
    <3>1. acked' = acked \/ acked' = [acked EXCEPT ![r] = {n \in acked[r] : n < seq}]
      BY <1>5 DEF ReceiveNack
    <3>2. {n \in acked[r] : n < seq} \in SUBSET Nat
      BY DEF TypeOK
    <3> QED
      BY <3>1, <3>2 DEF TypeOK
  <2>6. bulk' \in [Readers -> BOOLEAN] /\ backoff' \in [Readers -> BOOLEAN]
    BY <1>5 DEF ReceiveNack, TypeOK
  <2> QED
    BY <1>5, <2>1, <2>4, <2>5, <2>6 DEF ReceiveNack, TypeOK, phases
<1> QED
  BY <1>1, <1>2, <1>3, <1>4, <1>5 DEF Transport

(* Every step of a migration: messages come and go, endpoints change, and  *)
(* the outport's queue at most cancels.                                    *)
MigrationStep ==
  /\ UNCHANGED <<written, delivered, inq, overtakes>>
  /\ outq' \in Queue(OutLength, Readers, Token)
  /\ outq'.N = outq.N /\ outq'.fifo = outq.fifo
  /\ outq'.write_pos = outq.write_pos
  /\ outq'.read_pos = outq.read_pos
  /\ outq'.reader_offset = outq.reader_offset
  /\ \A r \in Readers :
       outq'.tentative_read_pos[r] \in {outq.read_pos[r], outq.tentative_read_pos[r]}
  /\ to_in' \in [Readers -> Seq(InMessage)]
  /\ to_out' \in [Readers -> Seq(OutMessage)]
  /\ \A r \in Readers :
       /\ Range(to_in'[r]) \subseteq Range(to_in[r]) \cup {Control(c) : c \in Commands}
       /\ Range(to_out'[r]) \subseteq Range(to_out[r]) \cup {Control(c) : c \in Commands}
  /\ acked' \in [Readers -> SUBSET Nat]
  /\ \A r \in Readers : acked'[r] \subseteq acked[r]
  /\ out_enabled' \in BOOLEAN
  /\ out_endpoint' \in [Readers -> BOOLEAN]
  /\ in_endpoint' \in [Readers -> BOOLEAN]
  /\ bulk' \in [Readers -> BOOLEAN]
  /\ backoff' \in [Readers -> BOOLEAN]
  /\ out_phase' \in {"stay", "leaving", "arriving"}
  /\ in_phase' \in [Readers -> {"stay", "leaving", "arriving"}]
  /\ pending' \subseteq Readers
  /\ moves' \in Nat

Migration(r) == LeaveIn(r) \/ Reconnection(r)

(* What the steps of a migration do to the channels.                       *)
LEMMA ControlIn ==
  ASSUME TypeOK, NEW r \in Readers, NEW cmd \in Commands,
         \/ to_in' = to_in
         \/ to_in' = [to_in EXCEPT ![r] = Append(@, Control(cmd))]
         \/ to_in' = [s \in Readers |-> Append(to_in[s], Control(cmd))]
         \/ to_in[r] # <<>> /\ to_in' = [to_in EXCEPT ![r] = Tail(@)]
  PROVE  /\ to_in' \in [Readers -> Seq(InMessage)]
         /\ \A s \in Readers :
              Range(to_in'[s]) \subseteq Range(to_in[s]) \cup {Control(c) : c \in Commands}
<1>1. to_in \in [Readers -> Seq(InMessage)] /\ Control(cmd) \in InMessage
  BY ControlType DEF TypeOK
<1>2. CASE to_in' = to_in
  BY <1>1, <1>2
<1>3. CASE to_in' = [to_in EXCEPT ![r] = Append(@, Control(cmd))]
  <2>1. /\ [to_in EXCEPT ![r] = Append(@, Control(cmd))] \in [Readers -> Seq(InMessage)]
        /\ \A s \in Readers :
             Range([to_in EXCEPT ![r] = Append(@, Control(cmd))][s])
               \subseteq Range(to_in[s]) \cup {Control(cmd)}
    BY <1>1, ChannelAppend
  <2> QED
    BY <1>3, <2>1
<1>4. CASE to_in' = [s \in Readers |-> Append(to_in[s], Control(cmd))]
  <2>1. /\ [s \in Readers |-> Append(to_in[s], Control(cmd))] \in [Readers -> Seq(InMessage)]
        /\ \A s \in Readers :
             Range([t \in Readers |-> Append(to_in[t], Control(cmd))][s])
               \subseteq Range(to_in[s]) \cup {Control(cmd)}
    BY <1>1, ChannelAppendAll
  <2> QED
    BY <1>4, <2>1
<1>5. CASE to_in[r] # <<>> /\ to_in' = [to_in EXCEPT ![r] = Tail(@)]
  <2>1. /\ [to_in EXCEPT ![r] = Tail(@)] \in [Readers -> Seq(InMessage)]
        /\ \A s \in Readers :
             Range([to_in EXCEPT ![r] = Tail(@)][s]) \subseteq Range(to_in[s])
    BY <1>1, <1>5, ChannelTail
  <2> QED
    BY <1>5, <2>1
<1> QED
  BY <1>2, <1>3, <1>4, <1>5

LEMMA ControlOut ==
  ASSUME TypeOK, NEW r \in Readers, NEW cmd \in Commands,
         \/ to_out' = to_out
         \/ to_out' = [to_out EXCEPT ![r] = Append(@, Control(cmd))]
         \/ to_out[r] # <<>> /\ to_out' = [to_out EXCEPT ![r] = Tail(@)]
  PROVE  /\ to_out' \in [Readers -> Seq(OutMessage)]
         /\ \A s \in Readers :
              Range(to_out'[s]) \subseteq Range(to_out[s]) \cup {Control(c) : c \in Commands}
<1>1. to_out \in [Readers -> Seq(OutMessage)] /\ Control(cmd) \in OutMessage
  BY ControlType DEF TypeOK
<1>2. CASE to_out' = to_out
  BY <1>1, <1>2
<1>3. CASE to_out' = [to_out EXCEPT ![r] = Append(@, Control(cmd))]
  <2>1. /\ [to_out EXCEPT ![r] = Append(@, Control(cmd))] \in [Readers -> Seq(OutMessage)]
        /\ \A s \in Readers :
             Range([to_out EXCEPT ![r] = Append(@, Control(cmd))][s])
               \subseteq Range(to_out[s]) \cup {Control(cmd)}
    BY <1>1, ChannelAppend
  <2> QED
    BY <1>3, <2>1
<1>4. CASE to_out[r] # <<>> /\ to_out' = [to_out EXCEPT ![r] = Tail(@)]
  <2>1. /\ [to_out EXCEPT ![r] = Tail(@)] \in [Readers -> Seq(OutMessage)]
        /\ \A s \in Readers :
             Range([to_out EXCEPT ![r] = Tail(@)][s]) \subseteq Range(to_out[s])
    BY <1>1, <1>4, ChannelTail
  <2> QED
    BY <1>4, <2>1
<1> QED
  BY <1>2, <1>3, <1>4

LEMMA LeaveIsMigrationStep ==
  ASSUME TypeOK, LeaveOut \/ ArriveOut
  PROVE  MigrationStep
<1>1. CASE LeaveOut
  <2>1. DetachOut(Readers)
    BY <1>1 DEF LeaveOut
  <2>2. /\ to_in' \in [Readers -> Seq(InMessage)]
        /\ \A r \in Readers : Range(to_in'[r]) \subseteq Range(to_in[r]) \cup {Control(c) : c \in Commands}
    BY <1>1, ControlIn, ReadersAssumption DEF LeaveOut, Commands
  <2>3. \A r \in Readers : acked'[r] \subseteq acked[r]
    BY <2>1 DEF DetachOut
  <2> QED
    BY <1>1, <2>1, <2>2, <2>3, DetachOutProperty, DetachOutType
    DEF LeaveOut, TypeOK, MigrationStep
<1>2. CASE ArriveOut
  <2>1. /\ to_in' \in [Readers -> Seq(InMessage)]
        /\ \A r \in Readers : Range(to_in'[r]) \subseteq Range(to_in[r]) \cup {Control(c) : c \in Commands}
    BY <1>2, ControlIn, ReadersAssumption DEF ArriveOut, Commands
  <2> QED
    BY <1>2, <2>1 DEF ArriveOut, TypeOK, MigrationStep, queues, endpoints
<1> QED
  BY <1>1, <1>2

LEMMA DetachIsMigrationStep ==
  ASSUME TypeOK, NEW R, DetachOut(R)
  PROVE  /\ outq' \in Queue(OutLength, Readers, Token)
         /\ outq'.N = outq.N /\ outq'.fifo = outq.fifo
         /\ outq'.write_pos = outq.write_pos
         /\ outq'.read_pos = outq.read_pos
         /\ outq'.reader_offset = outq.reader_offset
         /\ \A r \in Readers :
              outq'.tentative_read_pos[r] \in {outq.read_pos[r], outq.tentative_read_pos[r]}
         /\ acked' \in [Readers -> SUBSET Nat]
         /\ \A r \in Readers : acked'[r] \subseteq acked[r]
         /\ out_enabled' \in BOOLEAN
         /\ out_endpoint' \in [Readers -> BOOLEAN]
         /\ bulk' \in [Readers -> BOOLEAN]
         /\ backoff' \in [Readers -> BOOLEAN]
<1>1. \A r \in Readers : acked'[r] \subseteq acked[r]
  BY DEF DetachOut
<1> QED
  BY <1>1, DetachOutProperty, DetachOutType

LEMMA MigrationIsMigrationStep ==
  ASSUME TypeOK, NEW r \in Readers, Migration(r)
  PROVE  MigrationStep
<1> DEFINE InOK == /\ to_in' \in [Readers -> Seq(InMessage)]
                   /\ \A s \in Readers : Range(to_in'[s]) \subseteq
                        Range(to_in[s]) \cup {Control(c) : c \in Commands}
           OutOK == /\ to_out' \in [Readers -> Seq(OutMessage)]
                    /\ \A s \in Readers : Range(to_out'[s]) \subseteq
                         Range(to_out[s]) \cup {Control(c) : c \in Commands}
<1>1. CASE LeaveIn(r)
  <2>1. InOK /\ OutOK
    BY <1>1, ControlIn, ControlOut DEF LeaveIn, Commands
  <2> QED
    BY <1>1, <2>1 DEF LeaveIn, TypeOK, MigrationStep, queues
<1>2. CASE DisconnectRequestOut(r)
  <2>1. InOK /\ OutOK
    BY <1>2, ControlIn, ControlOut DEF DisconnectRequestOut, IsNext, Commands
  <2>2. DetachOut({r})
    BY <1>2 DEF DisconnectRequestOut
  <2> QED
    BY <1>2, <2>1, <2>2, DetachIsMigrationStep
    DEF DisconnectRequestOut, TypeOK, MigrationStep, phases
<1>3. CASE DisconnectRequestIn(r)
  <2>1. InOK /\ OutOK
    BY <1>3, ControlIn, ControlOut DEF DisconnectRequestIn, IsNext, Commands
  <2> QED
    BY <1>3, <2>1 DEF DisconnectRequestIn, TypeOK, MigrationStep, queues, phases
<1>4. CASE DisconnectReplyIn(r)
  <2>1. InOK /\ OutOK
    BY <1>4, ControlIn, ControlOut DEF DisconnectReplyIn, IsNext, Commands
  <2> QED
    BY <1>4, <2>1 DEF DisconnectReplyIn, TypeOK, MigrationStep, queues, endpoints
<1>5. CASE DisconnectReplyOut(r)
  <2>1. InOK /\ OutOK
    BY <1>5, ControlIn, ControlOut DEF DisconnectReplyOut, IsNext, Commands
  <2> QED
    BY <1>5, <2>1 DEF DisconnectReplyOut, TypeOK, MigrationStep, queues, endpoints
<1>6. CASE ArriveIn(r)
  <2>1. InOK /\ OutOK
    BY <1>6, ControlIn, ControlOut DEF ArriveIn, Commands
  <2> QED
    BY <1>6, <2>1 DEF ArriveIn, TypeOK, MigrationStep, queues, endpoints
<1>7. CASE ConnectRequestOut(r)
  <2>1. InOK /\ OutOK
    BY <1>7, ControlIn, ControlOut DEF ConnectRequestOut, IsNext, Commands
  <2> QED
    BY <1>7, <2>1 DEF ConnectRequestOut, AttachOut, TypeOK, MigrationStep, phases
<1>8. CASE ConnectRequestIn(r)
  <2>1. InOK /\ OutOK
    BY <1>8, ControlIn, ControlOut DEF ConnectRequestIn, IsNext, Commands
  <2> QED
    BY <1>8, <2>1 DEF ConnectRequestIn, TypeOK, MigrationStep, queues, phases
<1>9. CASE ConnectReplyIn(r)
  <2>1. InOK /\ OutOK
    BY <1>9, ControlIn, ControlOut DEF ConnectReplyIn, IsNext, Commands
  <2> QED
    BY <1>9, <2>1 DEF ConnectReplyIn, TypeOK, MigrationStep, queues
<1>10. CASE ConnectReplyOut(r)
  <2>1. InOK /\ OutOK
    BY <1>10, ControlIn, ControlOut DEF ConnectReplyOut, IsNext, Commands
  <2> QED
    BY <1>10, <2>1 DEF ConnectReplyOut, AttachOut, TypeOK, MigrationStep
<1> QED
  BY <1>1, <1>2, <1>3, <1>4, <1>5, <1>6, <1>7, <1>8, <1>9, <1>10
  DEF Migration, Reconnection

LEMMA OvertakeType ==
  ASSUME TypeOK, NEW r \in Readers, OvertakeIn(r) \/ OvertakeOut(r)
  PROVE  /\ TypeOK'
         /\ \A s \in Readers : /\ Range(to_in'[s]) \subseteq Range(to_in[s])
                                /\ Range(to_out'[s]) \subseteq Range(to_out[s])
<1>1. /\ to_in \in [Readers -> Seq(InMessage)] /\ to_out \in [Readers -> Seq(OutMessage)]
      /\ overtakes + 1 \in Nat
  BY DEF TypeOK
<1>2. CASE OvertakeIn(r)
  <2>1. PICK i \in 1 .. Len(to_in[r]) - 1 : to_in' = [to_in EXCEPT ![r] = Swapped(@, i)]
    BY <1>2 DEF OvertakeIn
  <2>2. /\ [to_in EXCEPT ![r] = Swapped(@, i)] \in [Readers -> Seq(InMessage)]
        /\ \A s \in Readers :
             Range([to_in EXCEPT ![r] = Swapped(@, i)][s]) \subseteq Range(to_in[s])
    BY <1>1, ChannelSwapped
  <2> QED
    BY <1>1, <1>2, <2>1, <2>2 DEF OvertakeIn, TypeOK, queues, endpoints, phases
<1>3. CASE OvertakeOut(r)
  <2>1. PICK i \in 1 .. Len(to_out[r]) - 1 : to_out' = [to_out EXCEPT ![r] = Swapped(@, i)]
    BY <1>3 DEF OvertakeOut
  <2>2. /\ [to_out EXCEPT ![r] = Swapped(@, i)] \in [Readers -> Seq(OutMessage)]
        /\ \A s \in Readers :
             Range([to_out EXCEPT ![r] = Swapped(@, i)][s]) \subseteq Range(to_out[s])
    BY <1>1, ChannelSwapped
  <2> QED
    BY <1>1, <1>3, <2>1, <2>2 DEF OvertakeOut, TypeOK, queues, endpoints, phases
<1> QED
  BY <1>2, <1>3

LEMMA WriteType ==
  ASSUME TypeOK, NEW t \in Token, Write(t)
  PROVE  TypeOK'
<1>1. outq \in Queue(OutLength, Readers, Token) /\ written \in Seq(Token)
  BY DEF TypeOK
<1>2. outq.write_pos \in Nat /\ outq.write_pos - outq.write_pos <= OutLength
  BY <1>1, LengthAssumption DEF Queue
<1>3. /\ write(outq, t) \in Queue(OutLength, Readers, Token)
      /\ write(outq, t).reader_offset = outq.reader_offset
  BY <1>1, <1>2, LengthAssumption, WriteKeepsRing
<1> QED
  BY <1>1, <1>3 DEF Write, TypeOK, endpoints, phases

LEMMA ReadProperty ==
  ASSUME TypeOK, NEW r \in Readers, Read(r)
  PROVE  /\ peeked(inq[r], r) \in Token
         /\ delivered' = [delivered EXCEPT ![r] = Append(@, peeked(inq[r], r))]
         /\ inq' = [s \in Readers |-> inq'[s]]
         /\ \A s \in Readers : s # r => inq'[s] = inq[s]
         /\ inq'[r] \in Queue(InLength, {r}, Token)
         /\ inq'[r].N = inq[r].N /\ inq'[r].fifo = inq[r].fifo
         /\ inq'[r].write_pos = inq[r].write_pos
         /\ inq'[r].tentative_read_pos[r] = inq[r].tentative_read_pos[r] + 1
         /\ inq'[r].read_pos[r] = inq[r].tentative_read_pos[r] + 1
<1> DEFINE c == commit(peek(inq[r], r), r)
<1>1. inq[r] \in Queue(InLength, {r}, Token) /\ r \in {r} /\ InLength \in Nat
  BY LengthAssumption DEF TypeOK
<1>2. /\ peeked(inq[r], r) \in Token
      /\ c \in Queue(InLength, {r}, Token)
      /\ c.N = inq[r].N /\ c.fifo = inq[r].fifo /\ c.write_pos = inq[r].write_pos
      /\ c.tentative_read_pos[r] = inq[r].tentative_read_pos[r] + 1
      /\ c.read_pos[r] = inq[r].tentative_read_pos[r] + 1
  BY <1>1, PeekCommit
<1>3. inq' = [inq EXCEPT ![r] = c] /\ inq = [s \in Readers |-> inq[s]]
  BY DEF Read, TypeOK
<1> HIDE DEF c
<1>4. /\ inq' = [s \in Readers |-> inq'[s]]
      /\ \A s \in Readers : s # r => inq'[s] = inq[s]
      /\ inq'[r] = c
  BY <1>3
<1>5. delivered' = [delivered EXCEPT ![r] = Append(@, peeked(inq[r], r))]
  BY DEF Read
<1> QED
  BY <1>2, <1>4, <1>5

LEMMA ReadType ==
  ASSUME TypeOK, NEW r \in Readers, Read(r)
  PROVE  TypeOK'
<1>1. delivered' \in [Readers -> Seq(Token)]
  <2>1. delivered \in [Readers -> Seq(Token)] /\ peeked(inq[r], r) \in Token
    BY ReadProperty DEF TypeOK
  <2>2. Append(delivered[r], peeked(inq[r], r)) \in Seq(Token)
    BY <2>1
  <2>3. delivered' = [delivered EXCEPT ![r] = Append(@, peeked(inq[r], r))]
    BY ReadProperty
  <2> QED
    BY <2>1, <2>2, <2>3
<1>2. inq' = [s \in Readers |-> inq'[s]] /\ \A s \in Readers : inq'[s] \in Queue(InLength, {s}, Token)
  BY ReadProperty DEF TypeOK
<1> QED
  BY <1>1, <1>2 DEF Read, TypeOK, endpoints, phases

LEMMA MigrationType ==
  ASSUME TypeOK, MigrationStep
  PROVE  TypeOK'
BY DEF TypeOK, MigrationStep

LEMMA NextType == TypeOK /\ [Next]_vars => TypeOK'
<1> SUFFICES ASSUME TypeOK, [Next]_vars PROVE TypeOK'
  OBVIOUS
<1>1. CASE \E t \in Token : Write(t)
  BY <1>1, WriteType
<1>2. CASE LeaveOut \/ ArriveOut
  BY <1>2, LeaveIsMigrationStep, MigrationType
<1>3. ASSUME NEW r \in Readers, Read(r) PROVE TypeOK'
  BY <1>3, ReadType
<1>4. ASSUME NEW r \in Readers, Transport(r) PROVE TypeOK'
  BY <1>4, TransportType
<1>5. ASSUME NEW r \in Readers, Migration(r) PROVE TypeOK'
  BY <1>5, MigrationIsMigrationStep, MigrationType
<1>6. ASSUME NEW r \in Readers, OvertakeIn(r) \/ OvertakeOut(r) PROVE TypeOK'
  BY <1>6, OvertakeType
<1>7. CASE UNCHANGED vars
  BY <1>7 DEF TypeOK, vars, queues, endpoints, phases
<1> QED
  BY <1>1, <1>2, <1>3, <1>4, <1>5, <1>6, <1>7 DEF Next, Migration

(* Type correctness: every variable keeps to its kind, whatever arrives in *)
(* whatever order; no handler makes a position negative or writes outside  *)
(* the ring.                                                               *)
THEOREM TypeCorrect == Spec => []TypeOK
<1>1. Init => TypeOK
  BY InitType
<1>2. TypeOK /\ [Next]_vars => TypeOK'
  BY NextType
<1> QED
  BY <1>1, <1>2, PTL DEF Spec

-----------------------------------------------------------------------------
(* What the types say about the numbers the invariant compares.            *)
NumbersOK ==
  /\ OutLength \in Nat \ {0} /\ InLength \in Nat \ {0}
  /\ written \in Seq(Token) /\ Len(written) \in Nat
  /\ outq \in Queue(OutLength, Readers, Token)
  /\ outq.N = OutLength + 1 /\ outq.write_pos \in Nat
  /\ \A r \in Readers :
       /\ outq.read_pos[r] \in Nat
       /\ outq.tentative_read_pos[r] \in Nat
       /\ outq.reader_offset[r] = 0
       /\ inq[r] \in Queue(InLength, {r}, Token)
       /\ inq[r].N = InLength + 1
       /\ inq[r].write_pos \in Nat
       /\ inq[r].read_pos[r] \in Nat
       /\ inq[r].tentative_read_pos[r] \in Nat
       /\ delivered[r] \in Seq(Token) /\ Len(delivered[r]) \in Nat
       /\ to_in[r] \in Seq(InMessage) /\ Range(to_in[r]) \subseteq InMessage
       /\ to_out[r] \in Seq(OutMessage) /\ Range(to_out[r]) \subseteq OutMessage
       /\ acked[r] \subseteq Nat

LEMMA Numbers == TypeOK => NumbersOK
<1> SUFFICES ASSUME TypeOK PROVE NumbersOK
  OBVIOUS
<1>1. /\ OutLength \in Nat \ {0} /\ InLength \in Nat \ {0}
      /\ written \in Seq(Token) /\ Len(written) \in Nat
      /\ outq \in Queue(OutLength, Readers, Token)
  BY LengthAssumption DEF TypeOK
<1>2. outq.N = OutLength + 1 /\ outq.write_pos \in Nat
  BY <1>1 DEF Queue
<1>3. ASSUME NEW r \in Readers
      PROVE  /\ outq.read_pos[r] \in Nat
             /\ outq.tentative_read_pos[r] \in Nat
             /\ outq.reader_offset[r] = 0
  BY <1>1 DEF Queue, TypeOK
<1>4. ASSUME NEW r \in Readers
      PROVE  /\ inq[r] \in Queue(InLength, {r}, Token)
             /\ inq[r].N = InLength + 1
             /\ inq[r].write_pos \in Nat
             /\ inq[r].read_pos[r] \in Nat
             /\ inq[r].tentative_read_pos[r] \in Nat
  <2>1. inq[r] \in Queue(InLength, {r}, Token)
    BY DEF TypeOK
  <2>2. /\ inq[r].N = InLength + 1 /\ inq[r].write_pos \in Nat
        /\ inq[r].read_pos \in [{r} -> Nat] /\ inq[r].tentative_read_pos \in [{r} -> Nat]
    BY <2>1 DEF Queue
  <2> QED
    BY <2>1, <2>2
<1>5. ASSUME NEW r \in Readers
      PROVE  /\ delivered[r] \in Seq(Token) /\ Len(delivered[r]) \in Nat
             /\ to_in[r] \in Seq(InMessage) /\ Range(to_in[r]) \subseteq InMessage
             /\ to_out[r] \in Seq(OutMessage) /\ Range(to_out[r]) \subseteq OutMessage
             /\ acked[r] \subseteq Nat
  BY DEF TypeOK, Range
<1> QED
  BY <1>1, <1>2, <1>3, <1>4, <1>5 DEF NumbersOK

LEMMA InitInv == Init => TransportInv
<1> SUFFICES ASSUME Init PROVE TransportInv
  OBVIOUS
<1> USE LengthAssumption
<1>1. /\ outq.write_pos = 0 /\ outq.read_pos = [r \in Readers |-> 0]
      /\ outq.tentative_read_pos = [r \in Readers |-> 0]
  BY DEF Init, NewQueue
<1>2. \A r \in Readers :
        /\ inq[r].write_pos = 0 /\ inq[r].read_pos[r] = 0
        /\ inq[r].tentative_read_pos[r] = 0
  BY DEF Init, NewQueue
<1>3. written = <<>> /\ \A r \in Readers : /\ delivered[r] = <<>> /\ acked[r] = {}
                                           /\ to_in[r] = <<>> /\ to_out[r] = <<>>
  BY DEF Init
<1>4. Range(<<>>) = {}
  BY DEF Range
<1>5. OutQueueInv
  BY <1>1, <1>3 DEF OutQueueInv
<1>6. InQueueInv
  BY <1>1, <1>2, <1>3 DEF InQueueInv
<1>7. TokensInFlight /\ AcksInFlight
  BY <1>3, <1>4 DEF TokensInFlight, AcksInFlight
<1>8. KeptAcksStored /\ AckedImpliesStored /\ DeliveryPrefix
  BY <1>1, <1>2, <1>3 DEF KeptAcksStored, AckedImpliesStored, DeliveryPrefix
<1> QED
  BY <1>5, <1>6, <1>7, <1>8 DEF TransportInv

LEMMA WriteInv ==
  ASSUME TypeOK, TransportInv, NEW t \in Token, Write(t)
  PROVE  TransportInv'
<1>0. NumbersOK
  BY Numbers
<1> USE <1>0 DEF NumbersOK
<1>1. /\ slots_available(outq, 1) /\ outq' = write(outq, t)
      /\ written' = Append(written, t)
      /\ UNCHANGED <<delivered, inq, acked, to_in, to_out>>
  BY DEF Write, endpoints
<1>2. /\ OutQueueInv /\ InQueueInv /\ TokensInFlight /\ AcksInFlight
      /\ KeptAcksStored /\ AckedImpliesStored /\ DeliveryPrefix
  BY DEF TransportInv
<1>3. outq.write_pos = Len(written)
  BY <1>2 DEF OutQueueInv
<1>4. /\ \A i \in 1..Len(written) : written'[i] = written[i]
      /\ Len(written') = Len(written) + 1
      /\ written'[Len(written) + 1] = t
  BY <1>1
<1>5. \A r \in Readers : outq.write_pos - outq.read_pos[r] < OutLength
  BY <1>1, <1>2, FreeSlot, ReadersAssumption DEF OutQueueInv
<1>6. /\ outq'.write_pos = outq.write_pos + 1 /\ outq'.N = outq.N
      /\ outq'.read_pos = outq.read_pos
      /\ outq'.tentative_read_pos = outq.tentative_read_pos
  <2>1. outq.write_pos - outq.write_pos <= OutLength
    OBVIOUS
  <2> QED
    BY <1>1, <2>1, WriteKeepsRing
<1>7. OutQueueInv'
  <2>1. outq'.write_pos = Len(written')
    BY <1>3, <1>4, <1>6
  <2>2. ASSUME NEW r \in Readers
        PROVE  /\ outq'.read_pos[r] <= outq'.write_pos
               /\ outq'.write_pos - outq'.read_pos[r] <= OutLength
               /\ outq'.tentative_read_pos[r] <= outq'.write_pos
    <3>1. outq.write_pos - outq.read_pos[r] < OutLength
      BY <1>5
    <3>2. outq.read_pos[r] <= outq.write_pos /\ outq.tentative_read_pos[r] <= outq.write_pos
      BY <1>2 DEF OutQueueInv
    <3>3. outq.read_pos[r] \in Nat /\ outq.tentative_read_pos[r] \in Nat
      OBVIOUS
    <3> QED
      BY <1>6, <3>1, <3>2, <3>3
  <2>3. ASSUME NEW r \in Readers, NEW p \in outq'.read_pos[r] .. outq'.write_pos - 1
        PROVE  Holds(outq, p)'
    <3>1. p \in Nat /\ p <= outq.write_pos /\ outq.write_pos - p <= OutLength
      <4>1. outq.write_pos - outq.read_pos[r] < OutLength
        BY <1>5
      <4>2. outq.read_pos[r] \in Nat
        OBVIOUS
      <4>3. p \in outq.read_pos[r] .. outq.write_pos
        BY <1>6
      <4> QED
        BY <4>1, <4>2, <4>3
    <3>2. outq'.fifo[p % outq.N] = IF p = outq.write_pos THEN t ELSE outq.fifo[p % outq.N]
      BY <1>1, <3>1, WriteKeepsRing, SMTT(30)
    <3>3. CASE p = outq.write_pos
      BY <1>3, <1>4, <1>6, <3>2, <3>3 DEF Holds
    <3>4. CASE p < outq.write_pos
      <4>1. Holds(outq, p)
        BY <1>2, <1>6, <3>1, <3>4 DEF OutQueueInv
      <4>2. written'[p + 1] = written[p + 1]
        BY <1>3, <1>4, <3>1, <3>4
      <4> QED
        BY <1>6, <3>2, <3>4, <4>1, <4>2 DEF Holds
    <3> QED
      BY <3>1, <3>3, <3>4
  <2> QED
    BY <2>1, <2>2, <2>3 DEF OutQueueInv
<1>8. InQueueInv'
  <2>1. ASSUME NEW r \in Readers, NEW p \in inq[r].read_pos[r] .. inq[r].write_pos - 1
        PROVE  inq[r].fifo[p % inq[r].N] = written'[p + 1]
    <3>1. p + 1 \in 1..Len(written)
      <4>1. inq[r].write_pos <= outq.write_pos
        BY <1>2 DEF InQueueInv
      <4>2. inq[r].read_pos[r] \in Nat /\ inq[r].write_pos \in Nat
        OBVIOUS
      <4> QED
        BY <1>3, <4>1, <4>2
    <3> QED
      BY <1>2, <1>4, <3>1 DEF InQueueInv, Holds
  <2>2. ASSUME NEW r \in Readers
        PROVE  inq[r].write_pos <= outq'.write_pos
    <3>1. inq[r].write_pos <= outq.write_pos /\ inq[r].write_pos \in Nat
      BY <1>2 DEF InQueueInv
    <3> QED
      BY <1>6, <3>1
  <2> QED
    BY <1>1, <1>2, <2>1, <2>2 DEF InQueueInv, Holds
<1>9. TokensInFlight'
  <2> SUFFICES ASSUME NEW r \in Readers, NEW m \in Range(to_in[r]), m.cmd = "TOKEN"
               PROVE  /\ m.seq < outq'.write_pos
                      /\ m.seq >= inq[r].write_pos => m.token = written'[m.seq + 1]
    BY <1>1 DEF TokensInFlight
  <2>1. m.seq \in Nat
    BY DEF InMessage, Commands
  <2>2. m.seq < outq.write_pos
    BY <1>2 DEF TokensInFlight
  <2>3. m.seq >= inq[r].write_pos => m.token = written[m.seq + 1]
    BY <1>2 DEF TokensInFlight
  <2> QED
    BY <1>3, <1>4, <1>6, <2>1, <2>2, <2>3
<1>10. DeliveryPrefix'
  BY <1>1, <1>2, <1>4 DEF DeliveryPrefix
<1>11. AcksInFlight' /\ KeptAcksStored' /\ AckedImpliesStored'
  BY <1>1, <1>2, <1>6 DEF AcksInFlight, KeptAcksStored, AckedImpliesStored
<1> QED
  BY <1>7, <1>8, <1>9, <1>10, <1>11 DEF TransportInv

(* An actor reads the token that was written next after those it has.      *)
LEMMA ReadsNext ==
  ASSUME TypeOK, TransportInv, NEW r \in Readers, Read(r)
  PROVE  /\ Len(delivered[r]) < Len(written)
         /\ peeked(inq[r], r) = written[Len(delivered[r]) + 1]
<1>0. NumbersOK
  BY Numbers
<1> USE <1>0 DEF NumbersOK
<1> DEFINE q == inq[r]
           pos == q.read_pos[r]
<1>1. tokens_available(q, 1, r)
  BY DEF Read
<1>2. /\ q.tentative_read_pos[r] = pos /\ pos = Len(delivered[r])
      /\ q.write_pos <= outq.write_pos /\ outq.write_pos = Len(written)
      /\ \A p \in pos .. q.write_pos - 1 : Holds(q, p)
  BY DEF TransportInv, InQueueInv, OutQueueInv
<1>3. pos \in Nat /\ q.write_pos \in Nat /\ outq.write_pos \in Nat
  OBVIOUS
<1>4. pos < q.write_pos
  BY <1>1, <1>2, <1>3 DEF tokens_available
<1>5. pos \in pos .. q.write_pos - 1
  BY <1>3, <1>4
<1>6. Holds(q, pos)
  BY <1>2, <1>5
<1>7. peeked(q, r) = written[pos + 1]
  BY <1>2, <1>6 DEF peeked, Holds
<1> QED
  BY <1>2, <1>3, <1>4, <1>7

LEMMA ReadInv ==
  ASSUME TypeOK, TransportInv, NEW r \in Readers, Read(r)
  PROVE  TransportInv'
<1>0. NumbersOK
  BY Numbers
<1> USE <1>0 DEF NumbersOK
<1> DEFINE q == inq[r]
           pos == q.read_pos[r]
<1>1. /\ tokens_available(q, 1, r)
      /\ UNCHANGED <<written, outq, acked, to_in, to_out>>
  BY DEF Read, endpoints
<1>2. /\ OutQueueInv /\ InQueueInv /\ TokensInFlight /\ AcksInFlight
      /\ KeptAcksStored /\ AckedImpliesStored /\ DeliveryPrefix
  BY DEF TransportInv
<1>3. /\ q.tentative_read_pos[r] = pos /\ pos = Len(delivered[r])
      /\ pos <= q.write_pos /\ q.write_pos - pos <= InLength
      /\ q.write_pos <= outq.write_pos
      /\ \A p \in pos .. q.write_pos - 1 : Holds(q, p)
  BY <1>2 DEF InQueueInv
<1>4. pos \in Nat /\ q.write_pos \in Nat
  OBVIOUS
<1>5. pos < q.write_pos
  BY <1>1, <1>3, <1>4 DEF tokens_available
<1>6. /\ delivered' = [delivered EXCEPT ![r] = Append(@, peeked(q, r))]
      /\ \A s \in Readers : s # r => inq'[s] = inq[s]
      /\ inq'[r].N = q.N /\ inq'[r].fifo = q.fifo
      /\ inq'[r].write_pos = q.write_pos
      /\ inq'[r].tentative_read_pos[r] = pos + 1
      /\ inq'[r].read_pos[r] = pos + 1
  BY <1>3, ReadProperty
<1>7. /\ delivered'[r] = Append(delivered[r], peeked(q, r))
      /\ \A s \in Readers : s # r => delivered'[s] = delivered[s]
      /\ Len(delivered'[r]) = pos + 1
  <2>1. delivered \in [Readers -> Seq(Token)] /\ peeked(q, r) \in Token
    BY ReadProperty DEF TypeOK
  <2> QED
    BY <1>3, <1>6, <2>1
<1>8. \A s \in Readers : inq'[s].write_pos = inq[s].write_pos
  BY <1>6
<1>9. peeked(q, r) = written[pos + 1]
  BY <1>3, ReadsNext
<1>10. InQueueInv'
  <2>1. ASSUME NEW p \in pos + 1 .. q.write_pos - 1 PROVE Holds(q, p)
    BY <1>3, <1>4
  <2> SUFFICES ASSUME NEW s \in Readers
      PROVE  (/\ inq[s].read_pos[s] = Len(delivered[s])
              /\ inq[s].tentative_read_pos[s] = inq[s].read_pos[s]
              /\ inq[s].read_pos[s] <= inq[s].write_pos
              /\ inq[s].write_pos - inq[s].read_pos[s] <= InLength
              /\ inq[s].write_pos <= outq.write_pos
              /\ \A p \in inq[s].read_pos[s] .. inq[s].write_pos - 1 : Holds(inq[s], p))'
    BY DEF InQueueInv
  <2>2. CASE s = r
    <3>1. pos + 1 <= q.write_pos /\ q.write_pos - (pos + 1) <= InLength
      BY <1>3, <1>4, <1>5
    <3> QED
      BY <1>1, <1>3, <1>6, <1>7, <2>1, <2>2, <3>1 DEF Holds
  <2>3. CASE s # r
    BY <1>1, <1>2, <1>6, <1>7, <2>3 DEF InQueueInv, Holds
  <2> QED
    BY <2>2, <2>3
<1>11. DeliveryPrefix'
  <2> SUFFICES ASSUME NEW s \in Readers, NEW i \in 1 .. Len(delivered'[s])
               PROVE  i <= Len(written) /\ delivered'[s][i] = written[i]
    BY <1>1 DEF DeliveryPrefix
  <2>1. CASE s # r
    BY <1>2, <1>7, <2>1 DEF DeliveryPrefix
  <2>2. CASE s = r /\ i <= pos
    <3>1. i \in 1 .. Len(delivered[r])
      BY <1>3, <1>4, <2>2
    <3>2. delivered'[s][i] = delivered[r][i]
      BY <1>3, <1>7, <2>2, <3>1
    <3> QED
      BY <1>2, <2>2, <3>1, <3>2 DEF DeliveryPrefix
  <2>3. CASE s = r /\ i = pos + 1
    <3>1. outq.write_pos = Len(written)
      BY <1>2 DEF OutQueueInv
    <3>2. i <= Len(written)
      BY <1>3, <1>4, <1>5, <2>3, <3>1
    <3>3. delivered'[s][i] = peeked(q, r)
      BY <1>3, <1>4, <1>7, <2>3
    <3> QED
      BY <1>9, <2>3, <3>2, <3>3
  <2>4. s = r => i <= pos \/ i = pos + 1
    BY <1>4, <1>7, SMTT(30)
  <2> QED
    BY <2>1, <2>2, <2>3, <2>4
<1>12. OutQueueInv'
  BY <1>1, <1>2 DEF OutQueueInv, Holds
<1>13. TokensInFlight' /\ AcksInFlight' /\ KeptAcksStored' /\ AckedImpliesStored'
  <2>1. TokensInFlight'
    BY <1>1, <1>2, <1>8 DEF TokensInFlight
  <2>2. AcksInFlight'
    BY <1>1, <1>2, <1>8 DEF AcksInFlight
  <2>3. KeptAcksStored' /\ AckedImpliesStored'
    BY <1>1, <1>2, <1>8 DEF KeptAcksStored, AckedImpliesStored
  <2> QED
    BY <2>1, <2>2, <2>3
<1> QED
  BY <1>10, <1>11, <1>12, <1>13 DEF TransportInv

LEMMA CommunicateInv ==
  ASSUME TypeOK, TransportInv, NEW r \in Readers, Communicate(r)
  PROVE  TransportInv'
<1>0. NumbersOK
  BY Numbers
<1> USE <1>0 DEF NumbersOK
<1> DEFINE n == SendCount(r)
           out == Outgoing(r, n)
           from == outq.tentative_read_pos[r]
<1>1. /\ n > 0 /\ to_in' = [to_in EXCEPT ![r] = @ \o out]
      /\ outq' = set_tentative(outq, r, from + n)
      /\ UNCHANGED <<written, delivered, inq, acked, to_out>>
  BY DEF Communicate, endpoints
<1>2. /\ OutQueueInv /\ InQueueInv /\ TokensInFlight /\ AcksInFlight
      /\ KeptAcksStored /\ AckedImpliesStored /\ DeliveryPrefix
  BY DEF TransportInv
<1>3. /\ n \in Nat /\ n <= outq.write_pos - from /\ out \in Seq(InMessage)
      /\ \A m \in Range(out) : \E p \in from .. outq.write_pos - 1 :
           m = TokenMessage(p, outq.fifo[p % outq.N])
  BY <1>1, OutgoingProperty
<1>4. /\ from \in Nat /\ from + n \in Nat /\ from + n <= outq.write_pos
      /\ outq.write_pos \in Nat
  <2>1. from \in Nat /\ outq.write_pos \in Nat
    OBVIOUS
  <2> HIDE DEF n, from
  <2> QED
    BY <1>3, <2>1
<1>5. /\ outq'.N = outq.N /\ outq'.fifo = outq.fifo /\ outq'.write_pos = outq.write_pos
      /\ outq'.read_pos = outq.read_pos
      /\ \A s \in Readers : outq'.tentative_read_pos[s] =
           IF s = r THEN from + n ELSE outq.tentative_read_pos[s]
  BY <1>1, <1>4, SetTentative
<1> HIDE DEF n, out, from
<1>6. OutQueueInv'
  BY <1>1, <1>2, <1>4, <1>5 DEF OutQueueInv, Holds
<1>7. ASSUME NEW m \in Range(out)
      PROVE  /\ m.seq < outq.write_pos
             /\ m.seq >= inq[r].write_pos => m.token = written[m.seq + 1]
  <2>1. PICK p \in from .. outq.write_pos - 1 : m = TokenMessage(p, outq.fifo[p % outq.N])
    BY <1>3
  <2>2. p \in Nat /\ p < outq.write_pos
    BY <1>4, <2>1
  <2>3. m.seq = p /\ m.token = outq.fifo[p % outq.N]
    BY <2>1 DEF TokenMessage
  <2>4. ASSUME p >= inq[r].write_pos PROVE Holds(outq, p)
    <3>1. outq.read_pos[r] <= inq[r].write_pos
      BY <1>2 DEF AckedImpliesStored
    <3>2. outq.read_pos[r] \in Nat /\ inq[r].write_pos \in Nat
      OBVIOUS
    <3>3. p \in outq.read_pos[r] .. outq.write_pos - 1
      BY <1>4, <2>2, <2>4, <3>1, <3>2
    <3> QED
      BY <1>2, <3>3 DEF OutQueueInv
  <2> QED
    BY <2>2, <2>3, <2>4 DEF Holds
<1>8. TokensInFlight'
  <2> SUFFICES ASSUME NEW s \in Readers, NEW m \in Range(to_in'[s]), m.cmd = "TOKEN"
               PROVE  /\ m.seq < outq.write_pos
                      /\ m.seq >= inq[s].write_pos => m.token = written[m.seq + 1]
    BY <1>1, <1>5 DEF TokensInFlight
  <2>1. CASE m \in Range(to_in[s])
    BY <1>2, <2>1 DEF TokensInFlight
  <2>2. CASE s = r /\ m \in Range(out)
    BY <1>7, <2>2
  <2>3. m \in Range(to_in[s]) \/ (s = r /\ m \in Range(out))
    <3>1. Range(to_in[r] \o out) \subseteq Range(to_in[r]) \cup Range(out)
      BY <1>3, RangeConcat
    <3>2. to_in \in [Readers -> Seq(InMessage)]
      BY DEF TypeOK
    <3> QED
      BY <1>1, <3>1, <3>2
  <2> QED
    BY <2>1, <2>2, <2>3
<1>9. InQueueInv'
  BY <1>1, <1>2, <1>5 DEF InQueueInv, Holds
<1>10. AcksInFlight' /\ KeptAcksStored' /\ AckedImpliesStored' /\ DeliveryPrefix'
  BY <1>1, <1>2, <1>5 DEF AcksInFlight, KeptAcksStored, AckedImpliesStored, DeliveryPrefix
<1> QED
  BY <1>6, <1>8, <1>9, <1>10 DEF TransportInv

LEMMA ReceiveTokenInv ==
  ASSUME TypeOK, TransportInv, NEW r \in Readers, ReceiveToken(r)
  PROVE  TransportInv'
<1>0. NumbersOK
  BY Numbers
<1> USE <1>0 DEF NumbersOK
<1> DEFINE q == inq[r]
           m == Head(to_in[r])
           resp == com_write_response(q, m.seq)
           reply == TokenReply(m.seq, IF resp \in {"handled", "unhandled"}
                                      THEN "ACK" ELSE "NACK")
<1>1. /\ to_in[r] # <<>> /\ m.cmd = "TOKEN"
      /\ to_in' = [to_in EXCEPT ![r] = Tail(@)]
      /\ UNCHANGED <<written, delivered, outq, acked>>
  BY DEF ReceiveToken, IsNext, endpoints
<1>2. \/ inq' = inq /\ to_out' = to_out
      \/ /\ inq' = IF resp = "handled" THEN [inq EXCEPT ![r] = write(@, m.token)] ELSE inq
         /\ to_out' = [to_out EXCEPT ![r] = Append(@, reply)]
  BY DEF ReceiveToken
<1>3. /\ OutQueueInv /\ InQueueInv /\ TokensInFlight /\ AcksInFlight
      /\ KeptAcksStored /\ AckedImpliesStored /\ DeliveryPrefix
  BY DEF TransportInv
<1>4. m \in InMessage /\ m \in Range(to_in[r]) /\ m.seq \in Nat /\ m.token \in Token
  <2>1. m \in InMessage /\ m \in Range(to_in[r])
    BY <1>1, RangeTail
  <2> QED
    BY <1>1, <2>1 DEF InMessage, Commands
<1>5. m.seq < outq.write_pos /\ (m.seq >= q.write_pos => m.token = written[m.seq + 1])
  BY <1>1, <1>3, <1>4 DEF TokensInFlight
<1>6. \A s \in Readers : Range(to_in'[s]) \subseteq Range(to_in[s])
  <2>1. to_in \in [Readers -> Seq(InMessage)]
    BY DEF TypeOK
  <2> QED
    BY <1>1, <2>1, ChannelTail
<1>7. q.write_pos \in Nat /\ q.read_pos[r] \in Nat /\ outq.write_pos \in Nat
      /\ q \in Queue(InLength, {r}, Token) /\ q.N = InLength + 1
  OBVIOUS
<1>8. /\ q.read_pos[r] = Len(delivered[r])
      /\ q.tentative_read_pos[r] = q.read_pos[r]
      /\ q.read_pos[r] <= q.write_pos
      /\ q.write_pos - q.read_pos[r] <= InLength
      /\ q.write_pos <= outq.write_pos
      /\ \A p \in q.read_pos[r] .. q.write_pos - 1 : Holds(q, p)
  BY <1>3 DEF InQueueInv
<1>9. reply \in OutMessage
  BY <1>4 DEF TokenReply, OutMessage
<1> HIDE DEF q, m, resp, reply
<1>10. \A s \in Readers : inq'[s] = inq[s] \/ /\ s = r /\ resp = "handled"
                                               /\ inq'[s] = write(q, m.token)
                                               /\ to_out' = [to_out EXCEPT ![r] = Append(@, reply)]
  <2>1. inq = [s \in Readers |-> inq[s]]
    BY DEF TypeOK
  <2> QED
    BY <1>2, <2>1 DEF q
(* A token that is stored is the next one written.                         *)
<1>11. ASSUME resp = "handled"
       PROVE  /\ m.seq = q.write_pos /\ q.write_pos - q.read_pos[r] < InLength
              /\ m.token = written[q.write_pos + 1]
  <2>1. m.seq = q.write_pos /\ slots_available(q, 1)
    BY <1>11 DEF resp, com_write_response
  <2>2. \A x \in {r} : q.read_pos[x] <= q.write_pos /\ q.write_pos - q.read_pos[x] <= InLength
    BY <1>8
  <2>3. q.write_pos - q.read_pos[r] < InLength
    BY <1>7, <2>1, <2>2, FreeSlot
  <2>4. m.token = written[q.write_pos + 1]
    BY <1>5, <1>7, <2>1
  <2> QED
    BY <2>1, <2>3, <2>4
<1>12. ASSUME resp = "handled"
       PROVE  LET w == write(q, m.token) IN
              /\ w.read_pos = q.read_pos /\ w.tentative_read_pos = q.tentative_read_pos
              /\ w.write_pos = q.write_pos + 1
              /\ w.write_pos - w.read_pos[r] <= InLength
              /\ w.write_pos <= outq.write_pos
              /\ \A p \in w.read_pos[r] .. w.write_pos - 1 : Holds(w, p)
  <2> DEFINE w == write(q, m.token)
  <2>1. q.write_pos - q.write_pos <= InLength
    BY <1>7
  <2>2. /\ w.read_pos = q.read_pos /\ w.tentative_read_pos = q.tentative_read_pos
        /\ w.write_pos = q.write_pos + 1 /\ w.N = q.N
    BY <1>4, <1>7, <2>1, WriteKeepsRing
  <2>3. ASSUME NEW p \in q.read_pos[r] .. q.write_pos PROVE Holds(w, p)
    <3>1. p \in Nat /\ p <= q.write_pos /\ q.write_pos - p <= InLength
      BY <1>7, <1>8
    <3>2. w.fifo[p % q.N] = IF p = q.write_pos THEN m.token ELSE q.fifo[p % q.N]
      BY <1>4, <1>7, <3>1, WriteKeepsRing
    <3>3. p < q.write_pos => Holds(q, p)
      BY <1>7, <1>8
    <3> HIDE DEF w
    <3>4. CASE p = q.write_pos
      BY <1>11, <1>12, <2>2, <3>2, <3>4 DEF Holds
    <3>5. CASE p < q.write_pos
      BY <2>2, <3>1, <3>2, <3>3, <3>5 DEF Holds
    <3> QED
      BY <1>7, <3>1, <3>4, <3>5
  <2> HIDE DEF w
  <2>4. w.write_pos - w.read_pos[r] <= InLength /\ w.write_pos <= outq.write_pos
    BY <1>5, <1>7, <1>11, <1>12, <2>2
  <2>5. \A p \in w.read_pos[r] .. w.write_pos - 1 : Holds(w, p)
    BY <1>7, <2>2, <2>3
  <2> QED
    BY <2>2, <2>4, <2>5 DEF w
<1>13. \A s \in Readers : inq[s].write_pos <= inq'[s].write_pos /\ inq'[s].write_pos \in Nat
  <2> SUFFICES ASSUME NEW s \in Readers
               PROVE  inq[s].write_pos <= inq'[s].write_pos /\ inq'[s].write_pos \in Nat
    OBVIOUS
  <2>1. inq[s].write_pos \in Nat
    OBVIOUS
  <2>2. CASE inq'[s] = inq[s]
    BY <2>1, <2>2
  <2>3. CASE s = r /\ resp = "handled" /\ inq'[s] = write(q, m.token)
    <3>1. inq'[s].write_pos = q.write_pos + 1
      BY <1>12, <2>3
    <3> QED
      BY <1>7, <2>3, <3>1 DEF q
  <2> QED
    BY <1>10, <2>2, <2>3
<1>14. InQueueInv'
  <2> SUFFICES ASSUME NEW s \in Readers
      PROVE  (/\ inq[s].read_pos[s] = Len(delivered[s])
              /\ inq[s].tentative_read_pos[s] = inq[s].read_pos[s]
              /\ inq[s].read_pos[s] <= inq[s].write_pos
              /\ inq[s].write_pos - inq[s].read_pos[s] <= InLength
              /\ inq[s].write_pos <= outq.write_pos
              /\ \A p \in inq[s].read_pos[s] .. inq[s].write_pos - 1 : Holds(inq[s], p))'
    BY DEF InQueueInv
  <2>1. CASE inq'[s] = inq[s]
    BY <1>1, <1>3, <2>1 DEF InQueueInv, Holds
  <2>2. CASE s = r /\ resp = "handled" /\ inq'[s] = write(q, m.token)
    <3>1. q.read_pos[r] <= q.write_pos + 1
      BY <1>7, <1>8
    <3> QED
      BY <1>1, <1>8, <1>12, <2>2, <3>1 DEF Holds
  <2> QED
    BY <1>10, <2>1, <2>2
<1>15. TokensInFlight'
  <2> SUFFICES ASSUME NEW s \in Readers, NEW x \in Range(to_in'[s]), x.cmd = "TOKEN"
               PROVE  /\ x.seq < outq.write_pos
                      /\ x.seq >= inq'[s].write_pos => x.token = written[x.seq + 1]
    BY <1>1 DEF TokensInFlight
  <2>1. x \in Range(to_in[s])
    BY <1>6
  <2>2. x.seq \in Nat
    BY <2>1 DEF InMessage, Commands
  <2>3. /\ x.seq < outq.write_pos
        /\ x.seq >= inq[s].write_pos => x.token = written[x.seq + 1]
    BY <1>3, <2>1 DEF TokensInFlight
  <2>4. inq[s].write_pos \in Nat /\ inq[s].write_pos <= inq'[s].write_pos
        /\ inq'[s].write_pos \in Nat
    BY <1>13
  <2> QED
    BY <2>2, <2>3, <2>4
<1>16. AcksInFlight'
  <2> SUFFICES ASSUME NEW s \in Readers, NEW x \in Range(to_out'[s]),
                      x.cmd = "TOKEN_REPLY", x.value = "ACK"
               PROVE  x.seq < inq'[s].write_pos
    BY DEF AcksInFlight
  <2>1. CASE x \in Range(to_out[s])
    <3>1. x.seq \in Nat /\ x.seq < inq[s].write_pos
      BY <1>3, <2>1 DEF AcksInFlight, OutMessage, Commands
    <3>2. inq[s].write_pos \in Nat /\ inq[s].write_pos <= inq'[s].write_pos
          /\ inq'[s].write_pos \in Nat
      BY <1>13
    <3> QED
      BY <3>1, <3>2
  <2>2. CASE /\ s = r /\ x = reply
             /\ inq' = IF resp = "handled" THEN [inq EXCEPT ![r] = write(@, m.token)] ELSE inq
    <3>1. x.seq = m.seq /\ resp \in {"handled", "unhandled"}
      BY <2>2 DEF reply, TokenReply
    <3>2. CASE resp = "unhandled"
      <4>1. m.seq < q.write_pos
        BY <3>2 DEF resp, com_write_response
      <4>2. inq'[s] = q
        BY <2>2, <3>2 DEF q
      <4> QED
        BY <3>1, <4>1, <4>2
    <3>3. CASE resp = "handled"
      <4>1. inq'[r] = write(q, m.token)
        BY <2>2, <3>3 DEF q, TypeOK
      <4>2. inq'[s].write_pos = q.write_pos + 1
        BY <1>12, <2>2, <3>3, <4>1
      <4>3. m.seq = q.write_pos
        BY <1>11, <3>3
      <4> QED
        BY <1>7, <3>1, <4>2, <4>3
    <3> QED
      BY <3>1, <3>2, <3>3
  <2>3. to_out \in [Readers -> Seq(OutMessage)]
    BY DEF TypeOK
  <2>4. \A z \in Readers : Range([to_out EXCEPT ![r] = Append(@, reply)][z])
                             \subseteq Range(to_out[z]) \cup {reply}
    BY <1>9, <2>3, ChannelAppend
  <2>5. CASE s # r
    BY <1>2, <2>1, <2>3, <2>5
  <2>6. CASE s = r
    <3>1. CASE to_out' = to_out
      BY <2>1, <3>1
    <3>2. CASE /\ to_out' = [to_out EXCEPT ![r] = Append(@, reply)]
               /\ inq' = IF resp = "handled" THEN [inq EXCEPT ![r] = write(@, m.token)] ELSE inq
      <4>1. Range(to_out'[s]) \subseteq Range(to_out[s]) \cup {reply}
        BY <2>4, <3>2
      <4>2. x \in Range(to_out[s]) \/ x = reply
        BY <4>1
      <4> QED
        BY <2>1, <2>2, <2>6, <3>2, <4>2
    <3> QED
      BY <1>2, <3>1, <3>2
  <2> QED
    BY <2>5, <2>6
<1>17. KeptAcksStored'
  <2> SUFFICES ASSUME NEW s \in Readers, NEW n \in acked[s] PROVE n < inq'[s].write_pos
    BY <1>1 DEF KeptAcksStored
  <2>1. n \in Nat /\ n < inq[s].write_pos /\ inq[s].write_pos \in Nat
    BY <1>3 DEF KeptAcksStored
  <2> QED
    BY <1>13, <2>1
<1>18. AckedImpliesStored'
  <2> SUFFICES ASSUME NEW s \in Readers PROVE outq.read_pos[s] <= inq'[s].write_pos
    BY <1>1 DEF AckedImpliesStored
  <2>1. /\ outq.read_pos[s] \in Nat /\ inq[s].write_pos \in Nat
        /\ outq.read_pos[s] <= inq[s].write_pos
    BY <1>3 DEF AckedImpliesStored
  <2> QED
    BY <1>13, <2>1
<1>19. OutQueueInv' /\ DeliveryPrefix'
  BY <1>1, <1>3 DEF OutQueueInv, Holds, DeliveryPrefix
<1> QED
  BY <1>14, <1>15, <1>16, <1>17, <1>18, <1>19 DEF TransportInv

(* Steps that leave the inports and the actors alone: they keep the        *)
(* invariant if they commit only what is stored.                           *)
QuietStep ==
  /\ UNCHANGED <<written, delivered, inq>>
  /\ outq'.N = outq.N /\ outq'.fifo = outq.fifo /\ outq'.write_pos = outq.write_pos
  /\ \A r \in Readers :
       /\ outq'.read_pos[r] \in Nat
       /\ outq.read_pos[r] <= outq'.read_pos[r]
       /\ outq'.read_pos[r] <= inq[r].write_pos
       /\ outq'.tentative_read_pos[r] <= outq.write_pos
       /\ \A m \in Range(to_in'[r]) : m.cmd = "TOKEN" => m \in Range(to_in[r])
       /\ \A m \in Range(to_out'[r]) : m.cmd = "TOKEN_REPLY" => m \in Range(to_out[r])
       /\ \A n \in acked'[r] : n < inq[r].write_pos

LEMMA QuietInv ==
  ASSUME TypeOK, TransportInv, QuietStep
  PROVE  TransportInv'
<1>0. NumbersOK
  BY Numbers
<1> USE <1>0 DEF NumbersOK
<1>1. /\ OutQueueInv /\ InQueueInv /\ TokensInFlight /\ AcksInFlight
      /\ KeptAcksStored /\ AckedImpliesStored /\ DeliveryPrefix
  BY DEF TransportInv
<1>2. OutQueueInv'
  <2>1. ASSUME NEW r \in Readers
        PROVE  /\ outq'.read_pos[r] <= outq'.write_pos
               /\ outq'.write_pos - outq'.read_pos[r] <= OutLength
               /\ outq'.tentative_read_pos[r] <= outq'.write_pos
               /\ \A p \in outq'.read_pos[r] .. outq'.write_pos - 1 : Holds(outq, p)'
    <3>1. /\ outq'.read_pos[r] \in Nat /\ outq.read_pos[r] <= outq'.read_pos[r]
          /\ outq'.read_pos[r] <= inq[r].write_pos
          /\ outq'.tentative_read_pos[r] <= outq'.write_pos
          /\ outq'.write_pos = outq.write_pos
      BY DEF QuietStep
    <3>2. /\ inq[r].write_pos <= outq.write_pos
          /\ outq.write_pos - outq.read_pos[r] <= OutLength
      BY <1>1 DEF InQueueInv, OutQueueInv
    <3>3. inq[r].write_pos \in Nat /\ outq.write_pos \in Nat /\ outq.read_pos[r] \in Nat
      OBVIOUS
    <3>4. ASSUME NEW p \in outq'.read_pos[r] .. outq'.write_pos - 1 PROVE Holds(outq, p)'
      <4>1. p \in outq.read_pos[r] .. outq.write_pos - 1
        BY <3>1, <3>3
      <4>2. Holds(outq, p)
        BY <1>1, <4>1 DEF OutQueueInv
      <4> QED
        BY <4>2 DEF Holds, QuietStep
    <3> QED
      BY <3>1, <3>2, <3>3, <3>4
  <2> QED
    BY <1>1, <2>1 DEF OutQueueInv, QuietStep
<1>3. InQueueInv' /\ DeliveryPrefix'
  BY <1>1 DEF InQueueInv, Holds, DeliveryPrefix, QuietStep
<1>4. TokensInFlight' /\ AcksInFlight'
  BY <1>1 DEF TokensInFlight, AcksInFlight, QuietStep
<1>5. KeptAcksStored' /\ AckedImpliesStored'
  BY DEF KeptAcksStored, AckedImpliesStored, QuietStep
<1> QED
  BY <1>1, <1>2, <1>3, <1>4, <1>5 DEF TransportInv

(* An ACK commits the token it acknowledges, or those up to the first one  *)
(* that is not acknowledged: all of them are stored.                       *)
LEMMA ReceiveAckInv ==
  ASSUME TypeOK, TransportInv, NEW r \in Readers, ReceiveAck(r)
  PROVE  TransportInv'
<1>0. NumbersOK
  BY Numbers
<1> USE <1>0 DEF NumbersOK
<1> DEFINE m == Head(to_out[r])
           seq == m.seq
           resp == com_commit_response(outq, r, seq)
           seqs == acked[r] \cup {seq}
           first == FirstUnacked(outq, r, seqs)
<1>1. /\ to_out[r] # <<>> /\ m.cmd = "TOKEN_REPLY" /\ m.value = "ACK"
      /\ to_out' = [to_out EXCEPT ![r] = Tail(@)]
      /\ UNCHANGED <<written, delivered, inq, to_in>>
  BY DEF ReceiveAck, IsNext
<1>2. \/ outq' = outq /\ acked' = acked
      \/ resp = "handled" /\ outq' = com_commit(outq, r, seq) /\ acked' = acked
      \/ outq' = Drained(outq, r, seqs) /\ acked' = [acked EXCEPT ![r] = Kept(outq, r, seqs)]
  BY DEF ReceiveAck, com_commit
<1>3. /\ OutQueueInv /\ AcksInFlight /\ KeptAcksStored /\ AckedImpliesStored
  BY DEF TransportInv
<1>4. m \in Range(to_out[r]) /\ seq \in Nat /\ seq < inq[r].write_pos
  <2>1. m \in OutMessage /\ m \in Range(to_out[r])
    BY <1>1, RangeTail
  <2>2. seq \in Nat
    BY <1>1, <2>1 DEF OutMessage, Commands
  <2> QED
    BY <1>1, <1>3, <2>1, <2>2 DEF AcksInFlight
<1>5. /\ outq \in Queue(OutLength, Readers, Token) /\ outq.reader_offset[r] = 0
      /\ outq.read_pos[r] \in Nat /\ outq.tentative_read_pos[r] \in Nat
      /\ inq[r].write_pos \in Nat /\ outq.write_pos \in Nat
  OBVIOUS
<1>6. \A s \in Readers : Range(to_out'[s]) \subseteq Range(to_out[s])
  <2>1. to_out \in [Readers -> Seq(OutMessage)]
    BY DEF TypeOK
  <2> QED
    BY <1>1, <2>1, ChannelTail
<1>7. \A n \in seqs : n \in Nat /\ n < inq[r].write_pos
  BY <1>3, <1>4 DEF KeptAcksStored
<1>8. /\ first \in Nat /\ outq.read_pos[r] <= first
      /\ first <= inq[r].write_pos
  <2>1. /\ first \in Nat /\ outq.read_pos[r] <= first
        /\ first > outq.read_pos[r] =>
             \A p \in outq.read_pos[r] .. first - 1 : p - outq.reader_offset[r] \in seqs
    BY <1>5, FirstUnackedProperty
  <2> HIDE DEF first, seqs
  <2>2. CASE first = outq.read_pos[r]
    BY <1>3, <2>1, <2>2 DEF AckedImpliesStored
  <2>3. CASE first > outq.read_pos[r]
    <3>1. first - 1 \in outq.read_pos[r] .. first - 1
      BY <1>5, <2>1, <2>3
    <3>2. (first - 1) - outq.reader_offset[r] \in seqs
      BY <2>1, <2>3, <3>1
    <3>3. first - 1 \in seqs
      BY <1>5, <2>1, <3>2
    <3> QED
      BY <1>5, <1>7, <2>1, <3>3
  <2> QED
    BY <1>5, <2>1, <2>2, <2>3
(* The read position moves up to a position of which all before are stored. *)
<1>9. \E pos \in Nat : /\ outq.read_pos[r] <= pos /\ pos <= inq[r].write_pos
                       /\ outq' = set_committed(outq, r, pos) \/ (outq' = outq /\ pos = outq.read_pos[r])
  <2> HIDE DEF first, seqs
  <2>1. CASE outq' = outq
    BY <1>3, <1>5, <2>1 DEF AckedImpliesStored
  <2>2. CASE resp = "handled" /\ outq' = com_commit(outq, r, seq)
    <3>1. seq = outq.read_pos[r]
      BY <1>4, <1>5, <2>2 DEF com_commit_response
    <3>2. outq' = set_committed(outq, r, outq.read_pos[r] + 1)
      BY <2>2 DEF com_commit
    <3>3. outq.read_pos[r] + 1 \in Nat /\ outq.read_pos[r] + 1 <= inq[r].write_pos
      BY <1>4, <1>5, <3>1
    <3> QED
      BY <1>5, <3>2, <3>3
  <2>3. CASE outq' = Drained(outq, r, seqs)
    BY <1>8, <2>3 DEF Drained, first
  <2> QED
    BY <1>2, <2>1, <2>2, <2>3
<1>10. PICK pos \in Nat : /\ outq.read_pos[r] <= pos /\ pos <= inq[r].write_pos
                         /\ \/ outq' = set_committed(outq, r, pos)
                            \/ outq' = outq /\ pos = outq.read_pos[r]
  BY <1>9
<1>11. /\ outq'.N = outq.N /\ outq'.fifo = outq.fifo /\ outq'.write_pos = outq.write_pos
       /\ outq'.tentative_read_pos = outq.tentative_read_pos
       /\ \A s \in Readers : outq'.read_pos[s] = IF s = r THEN pos ELSE outq.read_pos[s]
  BY <1>5, <1>10, SetCommitted
<1>12. \A s \in Readers : \A n \in acked'[s] : n < inq[s].write_pos
  <2>1. \A n \in Kept(outq, r, seqs) : n < inq[r].write_pos
    BY <1>7 DEF Kept
  <2>2. \A s \in Readers : \A n \in acked[s] : n < inq[s].write_pos
    BY <1>3 DEF KeptAcksStored
  <2>3. acked \in [Readers -> SUBSET Nat]
    BY DEF TypeOK
  <2> HIDE DEF seqs
  <2> QED
    BY <1>2, <2>1, <2>2, <2>3
<1> HIDE DEF m, seq, resp, seqs, first
<1>13. QuietStep
  <2> SUFFICES ASSUME NEW s \in Readers
      PROVE  /\ outq'.read_pos[s] \in Nat
             /\ outq.read_pos[s] <= outq'.read_pos[s]
             /\ outq'.read_pos[s] <= inq[s].write_pos
             /\ outq'.tentative_read_pos[s] <= outq.write_pos
    BY <1>1, <1>6, <1>11, <1>12 DEF QuietStep
  <2>1. /\ outq.read_pos[s] \in Nat /\ outq.read_pos[s] <= inq[s].write_pos
        /\ outq.tentative_read_pos[s] <= outq.write_pos
    BY <1>3 DEF OutQueueInv, AckedImpliesStored
  <2> QED
    BY <1>10, <1>11, <2>1
<1> QED
  BY <1>13, QuietInv

(* A NACK only takes back what was sent tentatively.                       *)
LEMMA ReceiveNackInv ==
  ASSUME TypeOK, TransportInv, NEW r \in Readers, ReceiveNack(r)
  PROVE  TransportInv'
<1>0. NumbersOK
  BY Numbers
<1> USE <1>0 DEF NumbersOK
<1> DEFINE m == Head(to_out[r])
           seq == m.seq
<1>1. /\ to_out[r] # <<>> /\ m.cmd = "TOKEN_REPLY"
      /\ to_out' = [to_out EXCEPT ![r] = Tail(@)]
      /\ UNCHANGED <<written, delivered, inq, to_in>>
  BY DEF ReceiveNack, IsNext
<1>2. /\ outq' = outq \/ outq' = com_cancel(outq, r, seq)
      /\ acked' = acked \/ acked' = [acked EXCEPT ![r] = {n \in @ : n < seq}]
  BY DEF ReceiveNack
<1>3. /\ OutQueueInv /\ KeptAcksStored /\ AckedImpliesStored
  BY DEF TransportInv
<1>4. seq \in Nat
  <2>1. m \in OutMessage
    BY <1>1, RangeTail
  <2> QED
    BY <1>1, <2>1 DEF OutMessage, Commands
<1>5. /\ outq \in Queue(OutLength, Readers, Token) /\ outq.reader_offset[r] = 0
      /\ outq.tentative_read_pos[r] \in Nat /\ outq.write_pos \in Nat
      /\ outq.tentative_read_pos[r] <= outq.write_pos
  BY <1>3 DEF OutQueueInv
<1>6. \A s \in Readers : Range(to_out'[s]) \subseteq Range(to_out[s])
  <2>1. to_out \in [Readers -> Seq(OutMessage)]
    BY DEF TypeOK
  <2> QED
    BY <1>1, <2>1, ChannelTail
<1>7. /\ outq'.N = outq.N /\ outq'.fifo = outq.fifo /\ outq'.write_pos = outq.write_pos
      /\ outq'.read_pos = outq.read_pos
      /\ \A s \in Readers : outq'.tentative_read_pos[s] <= outq.write_pos
  <2>1. \A s \in Readers : outq.tentative_read_pos[s] <= outq.write_pos
    BY <1>3 DEF OutQueueInv
  <2>2. CASE outq' = outq
    BY <2>1, <2>2
  <2>3. CASE outq' = set_tentative(outq, r, seq) /\ seq < outq.tentative_read_pos[r]
    <3> HIDE DEF m, seq
    <3> QED
      BY <1>4, <1>5, <2>1, <2>3, SetTentative
  <2>4. com_cancel(outq, r, seq) = outq \/
          (com_cancel(outq, r, seq) = set_tentative(outq, r, seq)
             /\ seq < outq.tentative_read_pos[r])
    BY <1>4, <1>5 DEF com_cancel, com_cancel_raises
  <2> QED
    BY <1>2, <2>2, <2>3, <2>4
<1>8. \A s \in Readers : \A n \in acked'[s] : n < inq[s].write_pos
  <2>1. \A s \in Readers : \A n \in acked[s] : n < inq[s].write_pos
    BY <1>3 DEF KeptAcksStored
  <2>2. acked \in [Readers -> SUBSET Nat]
    BY DEF TypeOK
  <2> QED
    BY <1>2, <2>1, <2>2
<1>9. ASSUME NEW s \in Readers
      PROVE  /\ outq'.read_pos[s] \in Nat
             /\ outq.read_pos[s] <= outq'.read_pos[s]
             /\ outq'.read_pos[s] <= inq[s].write_pos
  <2>1. outq.read_pos[s] \in Nat /\ outq.read_pos[s] <= inq[s].write_pos
    BY <1>3 DEF AckedImpliesStored
  <2> QED
    BY <1>7, <2>1
<1>10. ASSUME NEW s \in Readers
       PROVE  /\ \A x \in Range(to_in'[s]) : x.cmd = "TOKEN" => x \in Range(to_in[s])
              /\ \A x \in Range(to_out'[s]) : x.cmd = "TOKEN_REPLY" => x \in Range(to_out[s])
  BY <1>1, <1>6
<1>11. QuietStep
  BY <1>1, <1>7, <1>8, <1>9, <1>10 DEF QuietStep
<1> QED
  BY <1>11, QuietInv

(* The other steps commit nothing.                                         *)
LEMMA MigrationInv ==
  ASSUME TypeOK, TransportInv, MigrationStep
  PROVE  TransportInv'
<1>0. NumbersOK
  BY Numbers
<1> USE <1>0 DEF NumbersOK
<1>1. \A c \in Commands : Control(c).cmd \notin {"TOKEN", "TOKEN_REPLY"}
  BY DEF Control, Commands
<1>2. OutQueueInv /\ KeptAcksStored /\ AckedImpliesStored
  BY DEF TransportInv
<1>3. ASSUME NEW r \in Readers
      PROVE  /\ \A m \in Range(to_in'[r]) : m.cmd = "TOKEN" => m \in Range(to_in[r])
             /\ \A m \in Range(to_out'[r]) : m.cmd = "TOKEN_REPLY" => m \in Range(to_out[r])
  BY <1>1 DEF MigrationStep
<1>4. ASSUME NEW r \in Readers
      PROVE  outq'.tentative_read_pos[r] <= outq.write_pos
  BY <1>2 DEF MigrationStep, OutQueueInv
<1>5. ASSUME NEW r \in Readers
      PROVE  /\ outq'.read_pos[r] = outq.read_pos[r]
             /\ outq.read_pos[r] \in Nat
             /\ outq.read_pos[r] <= outq.read_pos[r]
             /\ outq.read_pos[r] <= inq[r].write_pos
             /\ \A n \in acked'[r] : n < inq[r].write_pos
  <2>1. outq.read_pos[r] \in Nat
    OBVIOUS
  <2>2. outq'.read_pos[r] = outq.read_pos[r]
    BY DEF MigrationStep
  <2>3. outq.read_pos[r] <= outq.read_pos[r]
    BY <2>1
  <2>4. outq.read_pos[r] <= inq[r].write_pos
    BY <1>2 DEF AckedImpliesStored
  <2>5. \A n \in acked'[r] : n < inq[r].write_pos
    <3>1. \A n \in acked[r] : n < inq[r].write_pos
      BY <1>2 DEF KeptAcksStored
    <3> QED
      BY <3>1 DEF MigrationStep
  <2> QED
    BY <2>1, <2>2, <2>3, <2>4, <2>5
<1>6. QuietStep
  <2>1. /\ UNCHANGED <<written, delivered, inq>>
        /\ outq'.N = outq.N /\ outq'.fifo = outq.fifo /\ outq'.write_pos = outq.write_pos
    BY DEF MigrationStep
  <2> QED
    BY <1>3, <1>4, <1>5, <2>1 DEF QuietStep
<1> QED
  BY <1>6, QuietInv

LEMMA OvertakeInv ==
  ASSUME TypeOK, TransportInv,
         \/ \E r \in Readers : OvertakeIn(r) \/ OvertakeOut(r)
         \/ \E r \in Readers : BackoffExpires(r)
         \/ UNCHANGED vars
  PROVE  TransportInv'
<1>0. NumbersOK
  BY Numbers
<1> USE <1>0 DEF NumbersOK
<1>1. \A r \in Readers : /\ Range(to_in'[r]) \subseteq Range(to_in[r])
                         /\ Range(to_out'[r]) \subseteq Range(to_out[r])
  <2>1. CASE \E r \in Readers : OvertakeIn(r) \/ OvertakeOut(r)
    BY <2>1, OvertakeType
  <2>2. CASE \E r \in Readers : BackoffExpires(r)
    BY <2>2 DEF BackoffExpires
  <2>3. CASE UNCHANGED vars
    BY <2>3 DEF vars
  <2> QED
    BY <2>1, <2>2, <2>3
<1>2. UNCHANGED <<written, delivered, inq, outq, acked>>
  BY DEF OvertakeIn, OvertakeOut, BackoffExpires, vars, queues, endpoints
<1>3. ASSUME NEW r \in Readers
      PROVE  outq.read_pos[r] \in Nat /\ outq.read_pos[r] <= outq.read_pos[r]
  <2>1. outq.read_pos[r] \in Nat
    OBVIOUS
  <2> QED
    BY <2>1
<1>4. QuietStep
  BY <1>1, <1>2, <1>3
  DEF QuietStep, TransportInv, OutQueueInv, AckedImpliesStored, KeptAcksStored
<1> QED
  BY <1>4, QuietInv

LEMMA NextInv == TypeOK /\ TransportInv /\ [Next]_vars => TransportInv'
<1> SUFFICES ASSUME TypeOK, TransportInv, [Next]_vars PROVE TransportInv'
  OBVIOUS
<1>1. CASE \E t \in Token : Write(t)
  BY <1>1, WriteInv
<1>2. CASE LeaveOut \/ ArriveOut
  BY <1>2, LeaveIsMigrationStep, MigrationInv
<1>3. ASSUME NEW r \in Readers, Read(r) PROVE TransportInv'
  BY <1>3, ReadInv
<1>4. ASSUME NEW r \in Readers, Transport(r) PROVE TransportInv'
  <2>1. CASE Communicate(r)
    BY <2>1, CommunicateInv
  <2>2. CASE BackoffExpires(r)
    BY <2>2, OvertakeInv
  <2>3. CASE ReceiveToken(r)
    BY <2>3, ReceiveTokenInv
  <2>4. CASE ReceiveAck(r)
    BY <2>4, ReceiveAckInv
  <2>5. CASE ReceiveNack(r)
    BY <2>5, ReceiveNackInv
  <2> QED
    BY <1>4, <2>1, <2>2, <2>3, <2>4, <2>5 DEF Transport
<1>5. ASSUME NEW r \in Readers, Migration(r) PROVE TransportInv'
  BY <1>5, MigrationIsMigrationStep, MigrationInv
<1>6. ASSUME NEW r \in Readers, OvertakeIn(r) \/ OvertakeOut(r) PROVE TransportInv'
  BY <1>6, OvertakeInv
<1>7. CASE UNCHANGED vars
  BY <1>7, OvertakeInv
<1> QED
  BY <1>1, <1>2, <1>3, <1>4, <1>5, <1>6, <1>7 DEF Next, Migration

(* The inductive invariant: slots in use hold the tokens of their          *)
(* positions, and only stored tokens are acknowledged and committed.       *)
THEOREM InvariantHolds == Spec => []TransportInv
<1>1. Init => TypeOK /\ TransportInv
  BY InitType, InitInv
<1>2. TypeOK /\ TransportInv /\ [Next]_vars => (TypeOK /\ TransportInv)'
  BY NextType, NextInv
<1> QED
  BY <1>1, <1>2, PTL DEF Spec

(* What an actor reads is what the other actor wrote, in order, without    *)
(* loss or repetition, through migrations and over any transport.          *)
THEOREM DeliveryCorrect == Spec => []DeliveryPrefix
<1>1. TransportInv => DeliveryPrefix
  BY DEF TransportInv
<1> QED
  BY <1>1, InvariantHolds, PTL

(* The outport never forgets a token that its reader has not stored.       *)
THEOREM NothingForgotten == Spec => []AckedImpliesStored
<1>1. TransportInv => AckedImpliesStored
  BY DEF TransportInv
<1> QED
  BY <1>1, InvariantHolds, PTL

-----------------------------------------------------------------------------
(* The refinement: writing sends, reading receives, and every other step   *)
(* of queues, endpoints and tunnels is invisible to the actors.            *)
LEMMA WriteSends ==
  ASSUME TypeOK, TransportInv, NEW t \in Token, Write(t)
  PROVE  RC!Send(t)
<1>0. NumbersOK
  BY Numbers
<1> USE <1>0 DEF NumbersOK
<1>1. /\ slots_available(outq, 1) /\ written' = Append(written, t)
      /\ UNCHANGED delivered
  BY DEF Write
<1>2. \A r \in Readers : outq.write_pos - outq.read_pos[r] < OutLength
  BY <1>1, FreeSlot, ReadersAssumption DEF TransportInv, OutQueueInv
<1>3. ASSUME NEW r \in Readers
      PROVE  Len(written) - Len(delivered[r]) < OutLength + InLength
  <2>1. /\ outq.write_pos = Len(written)
        /\ outq.read_pos[r] <= inq[r].write_pos
        /\ inq[r].write_pos - inq[r].read_pos[r] <= InLength
        /\ inq[r].read_pos[r] = Len(delivered[r])
    BY DEF TransportInv, OutQueueInv, InQueueInv, AckedImpliesStored
  <2>2. /\ outq.read_pos[r] \in Nat /\ inq[r].write_pos \in Nat
        /\ inq[r].read_pos[r] \in Nat /\ outq.write_pos \in Nat
        /\ OutLength \in Nat /\ InLength \in Nat
    OBVIOUS
  <2>3. outq.write_pos - outq.read_pos[r] < OutLength
    BY <1>2
  <2> QED
    BY ONLY <2>1, <2>2, <2>3
<1> QED
  BY <1>1, <1>3 DEF RC!Send

LEMMA StepRefines == TypeOK /\ TransportInv /\ [Next]_vars => [RC!Next]_RC!vars
<1> SUFFICES ASSUME TypeOK, TransportInv, [Next]_vars PROVE [RC!Next]_RC!vars
  OBVIOUS
<1>1. ASSUME NEW t \in Token, Write(t) PROVE RC!Next
  BY <1>1, WriteSends DEF RC!Next
<1>2. CASE LeaveOut \/ ArriveOut
  BY <1>2 DEF LeaveOut, ArriveOut, queues, RC!vars
<1>3. ASSUME NEW r \in Readers, Read(r) PROVE RC!Next
  <2>1. /\ Len(delivered[r]) < Len(written)
        /\ peeked(inq[r], r) = written[Len(delivered[r]) + 1]
    BY <1>3, ReadsNext
  <2>2. RC!Receive(r)
    BY <1>3, <2>1 DEF Read, RC!Receive
  <2> QED
    BY <2>2 DEF RC!Next
<1>4. ASSUME NEW r \in Readers, Transport(r) PROVE UNCHANGED RC!vars
  BY <1>4 DEF Transport, Communicate, BackoffExpires, ReceiveToken, ReceiveAck,
              ReceiveNack, queues, RC!vars
<1>5. ASSUME NEW r \in Readers, Migration(r) PROVE UNCHANGED RC!vars
  <2>1. MigrationStep
    BY <1>5, MigrationIsMigrationStep
  <2> QED
    BY <2>1 DEF MigrationStep, RC!vars
<1>6. ASSUME NEW r \in Readers, OvertakeIn(r) \/ OvertakeOut(r) PROVE UNCHANGED RC!vars
  BY <1>6 DEF OvertakeIn, OvertakeOut, queues, RC!vars
<1>7. CASE UNCHANGED vars
  BY <1>7 DEF vars, queues, RC!vars
<1> QED
  BY <1>1, <1>2, <1>3, <1>4, <1>5, <1>6, <1>7 DEF Next, Migration

(* The token transport implements the reliable channel: a fan-out of FIFO  *)
(* channels with the capacity of the two queues.                           *)
THEOREM RefinesChannel == Spec => ImplementsChannel
<1>1. Init => RC!Init
  BY DEF Init, RC!Init
<1>2. TypeOK /\ TransportInv /\ [Next]_vars => [RC!Next]_RC!vars
  BY StepRefines
<1> QED
  BY <1>1, <1>2, TypeCorrect, InvariantHolds, PTL DEF Spec, ImplementsChannel, RC!Spec

-----------------------------------------------------------------------------
(* On FIFO links, as long as no message has overtaken another: the replies *)
(* come in the order of the tokens, and a migration hands over ports that  *)
(* nothing is on its way to.                                               *)

(* What is on its way to and from a reader, whose replies are o and whose  *)
(* tokens are i: replies and tokens together are in the order in which the *)
(* tokens were sent.  First the stale ones, sent before the sender took    *)
(* back what it had sent ...                                               *)
Stale(o, i, read, tent) == Len(o) + Len(i) - (tent - read)

(* ... which the reader refuses or has refused, being short of the token   *)
(* at the read position; then one for each position that is not committed. *)
(* Once one of these has been refused all that follow are.                 *)
Streams(o, i, read, tent, stored) ==
  LET s == Stale(o, i, read, tent) IN
  /\ read <= tent /\ s >= 0
  /\ s > 0 => tent <= read + 1
  /\ \A k \in 1 .. Len(o) :
       /\ k <= s => o[k].value = "NACK" /\ o[k].seq > read
       /\ k > s => o[k].seq = read + k - s - 1
  /\ \A k \in 1 .. Len(i) :
       /\ Len(o) + k <= s => i[k].seq > read /\ i[k].seq > stored
       /\ Len(o) + k > s => i[k].seq = read + Len(o) + k - s - 1
  /\ \A k \in 1 .. Len(o) :
       k > s /\ o[k].value = "NACK" =>
         stored <= o[k].seq /\ \A l \in k .. Len(o) : o[l].value = "NACK"

LEMMA NothingStreams ==
  ASSUME NEW p \in Nat, NEW stored \in Nat
  PROVE  Streams(<<>>, <<>>, p, p, stored) /\ Stale(<<>>, <<>>, p, p) = 0
BY DEF Streams, Stale

LEMMA EmptyIsCommitted ==
  ASSUME NEW read \in Nat, NEW tent \in Nat, NEW stored \in Nat,
         Streams(<<>>, <<>>, read, tent, stored)
  PROVE  tent = read
BY DEF Streams, Stale

(* Tokens are sent: all there are, or one when everything is committed.    *)
LEMMA TokensSent ==
  ASSUME NEW o \in Seq(OutMessage), NEW i \in Seq(InMessage), NEW d \in Seq(InMessage),
         NEW read \in Nat, NEW tent \in Nat, NEW stored \in Nat,
         Streams(o, i, read, tent, stored),
         \A k \in 1 .. Len(d) : d[k].seq = tent + k - 1,
         Stale(o, i, read, tent) > 0 => Len(d) <= 1 /\ tent = read
  PROVE  /\ Streams(o, i \o d, read, tent + Len(d), stored)
         /\ Stale(o, i \o d, read, tent + Len(d)) = Stale(o, i, read, tent)
<1> DEFINE s == Stale(o, i, read, tent)
           j == i \o d
<1>1. /\ Len(o) \in Nat /\ Len(i) \in Nat /\ Len(d) \in Nat
      /\ Len(j) = Len(i) + Len(d)
      /\ \A k \in 1 .. Len(i) : j[k] = i[k]
      /\ \A k \in Len(i) + 1 .. Len(i) + Len(d) : j[k] = d[k - Len(i)]
  BY ConcatProperties, LenProperties
<1>2. Stale(o, j, read, tent + Len(d)) = s /\ s \in Int
  BY <1>1 DEF Stale
<1>3. /\ s >= 0 /\ read <= tent
      /\ \A k \in 1 .. Len(o) :
           /\ k <= s => o[k].value = "NACK" /\ o[k].seq > read
           /\ k > s => o[k].seq = read + k - s - 1
           /\ k > s /\ o[k].value = "NACK" =>
                stored <= o[k].seq /\ \A l \in k .. Len(o) : o[l].value = "NACK"
      /\ \A k \in 1 .. Len(i) :
           /\ Len(o) + k <= s => i[k].seq > read /\ i[k].seq > stored
           /\ Len(o) + k > s => i[k].seq = read + Len(o) + k - s - 1
  BY DEF Streams
<1>4. s = Len(o) + Len(i) - (tent - read)
  BY DEF Stale
<1>5. s > 0 => tent + Len(d) <= read + 1
  BY <1>1, <1>3
<1>6. ASSUME NEW k \in 1 .. Len(j)
      PROVE  /\ Len(o) + k <= s => j[k].seq > read /\ j[k].seq > stored
             /\ Len(o) + k > s => j[k].seq = read + Len(o) + k - s - 1
  <2> HIDE DEF s, j
  <2>1. CASE k \in 1 .. Len(i)
    BY <1>1, <1>3, <2>1
  <2>2. CASE k \in Len(i) + 1 .. Len(i) + Len(d)
    <3>1. j[k] = d[k - Len(i)] /\ k - Len(i) \in 1 .. Len(d)
      BY <1>1, <2>2
    <3>2. j[k].seq = tent + (k - Len(i)) - 1
      BY <3>1
    <3>3. Len(o) + k > s
      BY <1>1, <1>3, <1>4, <2>2
    <3>4. /\ Len(o) \in Nat /\ Len(i) \in Nat /\ Len(d) \in Nat /\ k \in Nat /\ s \in Int
      BY <1>1, <1>2, <2>2
    <3>5. j[k].seq = read + Len(o) + k - s - 1
      BY <1>4, <3>2, <3>4
    <3> QED
      BY <3>3, <3>4, <3>5
  <2> QED
    BY <1>1, <2>1, <2>2
<1> HIDE DEF s, j
<1>7. tent + Len(d) \in Nat /\ read <= tent + Len(d)
  BY <1>1, <1>3
<1> QED
  BY <1>1, <1>2, <1>3, <1>5, <1>6, <1>7 DEF Streams, s, j

(* A token is received and answered; stored counts what the reader has.    *)
Answers(value, seq, stored, after) ==
  \/ value = "ACK" /\ seq = stored /\ after = stored + 1
  \/ value = "ACK" /\ seq < stored /\ after = stored
  \/ value = "NACK" /\ seq >= stored /\ after = stored

LEMMA TokenAnswered ==
  ASSUME NEW o \in Seq(OutMessage), NEW i \in Seq(InMessage), i # <<>>, NEW value,
         NEW read \in Nat, NEW tent \in Nat, NEW stored \in Nat, NEW after \in Nat,
         Streams(o, i, read, tent, stored),
         NEW x \in Nat, x = Head(i).seq, Answers(value, x, stored, after),
         NEW e \in OutMessage, e.seq = x, e.value = value
  PROVE  /\ Streams(Append(o, e), Tail(i), read, tent, after)
         /\ Stale(Append(o, e), Tail(i), read, tent) = Stale(o, i, read, tent)
<1> DEFINE s == Stale(o, i, read, tent)
           p == Append(o, e)
           j == Tail(i)
<1>1. /\ Len(o) \in Nat /\ Len(i) \in Nat /\ Len(i) > 0 /\ Head(i) = i[1]
      /\ Len(j) = Len(i) - 1
      /\ \A k \in 1 .. Len(i) - 1 : j[k] = i[k + 1]
      /\ Len(p) = Len(o) + 1 /\ p[Len(o) + 1] = e
      /\ \A k \in 1 .. Len(o) : p[k] = o[k]
  BY HeadTailProperties, AppendProperties, LenProperties, EmptySeq
<1>2. Stale(p, j, read, tent) = s /\ s \in Int
  BY <1>1 DEF Stale
<1>3. /\ s >= 0 /\ read <= tent /\ (s > 0 => tent <= read + 1)
      /\ \A k \in 1 .. Len(o) :
           /\ k <= s => o[k].value = "NACK" /\ o[k].seq > read
           /\ k > s => o[k].seq = read + k - s - 1
           /\ k > s /\ o[k].value = "NACK" =>
                stored <= o[k].seq /\ \A l \in k .. Len(o) : o[l].value = "NACK"
      /\ \A k \in 1 .. Len(i) :
           /\ Len(o) + k <= s => i[k].seq > read /\ i[k].seq > stored
           /\ Len(o) + k > s => i[k].seq = read + Len(o) + k - s - 1
  BY DEF Streams
<1>0. Answers(value, e.seq, stored, after) /\ e.seq \in Nat
  OBVIOUS
<1> HIDE DEF s, p, j
<1> USE DEF Answers
<1>4. /\ Len(o) + 1 <= s => e.seq > read /\ e.seq > stored
      /\ Len(o) + 1 > s => e.seq = read + Len(o) - s
  BY <1>1, <1>2, <1>3
(* An acknowledged token follows no refused one, nor a stale one.          *)
<1>5. ASSUME value = "ACK"
      PROVE  Len(o) + 1 > s /\ \A k \in 1 .. Len(o) : k > s => o[k].value # "NACK"
  <2>1. e.seq <= stored
    BY <1>0, <1>5
  <2>2. Len(o) + 1 > s
    BY <1>2, <1>1, <1>4, <2>1
  <2>3. ASSUME NEW k \in 1 .. Len(o), k > s, o[k].value = "NACK" PROVE FALSE
    <3>1. stored <= o[k].seq /\ o[k].seq = read + k - s - 1
      BY <1>3, <2>3
    <3>2. e.seq = read + Len(o) - s
      BY <1>4, <2>2
    <3> QED
      BY <1>1, <1>2, <2>1, <2>3, <3>1, <3>2
  <2> QED
    BY <2>2, <2>3
<1>6. ASSUME NEW k \in 1 .. Len(p)
      PROVE  /\ k <= s => p[k].value = "NACK" /\ p[k].seq > read
             /\ k > s => p[k].seq = read + k - s - 1
  <2>1. CASE k \in 1 .. Len(o)
    BY <1>1, <1>3, <2>1
  <2>2. CASE k = Len(o) + 1
    BY <1>0, <1>1, <1>2, <1>4, <1>5, <2>2
  <2> QED
    BY <1>1, <2>1, <2>2
<1>7. ASSUME NEW k \in 1 .. Len(j)
      PROVE  /\ Len(p) + k <= s => j[k].seq > read /\ j[k].seq > after
             /\ Len(p) + k > s => j[k].seq = read + Len(p) + k - s - 1
  <2>1. k + 1 \in 1 .. Len(i) /\ j[k] = i[k + 1]
    BY <1>1
  <2>2. /\ Len(o) + (k + 1) <= s => i[k + 1].seq > read /\ i[k + 1].seq > stored
        /\ Len(o) + (k + 1) > s => i[k + 1].seq = read + Len(o) + (k + 1) - s - 1
    BY <1>3, <2>1
  <2>3. Len(p) + k <= s => after = stored
    BY <1>0, <1>1, <1>2, <1>5
  <2> QED
    BY <1>1, <1>2, <2>1, <2>2, <2>3
<1>8. ASSUME NEW k \in 1 .. Len(p), k > s, p[k].value = "NACK"
      PROVE  after <= p[k].seq /\ \A l \in k .. Len(p) : p[l].value = "NACK"
  <2>1. value = "NACK" /\ after = stored /\ e.seq >= stored
    <3>1. CASE k \in 1 .. Len(o)
      <4>1. p[k] = o[k]
        BY <1>1, <3>1
      <4>2. value # "ACK"
        BY <1>5, <1>8, <3>1, <4>1
      <4> QED
        BY <1>0, <4>2
    <3>2. CASE k = Len(o) + 1
      <4>1. value = "NACK"
        BY <1>1, <1>8, <3>2
      <4> QED
        BY <1>0, <4>1
    <3> QED
      BY <1>1, <3>1, <3>2
  <2>2. CASE k \in 1 .. Len(o)
    <3>1. stored <= o[k].seq /\ \A l \in k .. Len(o) : o[l].value = "NACK"
      BY <1>1, <1>3, <1>8, <2>2
    <3>2. ASSUME NEW l \in k .. Len(p) PROVE p[l].value = "NACK"
      <4>1. CASE l = Len(o) + 1
        BY <1>1, <2>1, <4>1
      <4>2. CASE l # Len(o) + 1
        <5>1. Len(o) \in Nat /\ Len(p) = Len(o) + 1
          BY <1>1
        <5>2. l \in k .. Len(o) /\ l \in 1 .. Len(o)
          BY <2>2, <4>2, <5>1
        <5> QED
          BY <1>1, <3>1, <5>2
      <4> QED
        BY <4>1, <4>2
    <3> QED
      BY <1>1, <2>1, <2>2, <3>1, <3>2
  <2>3. CASE k = Len(o) + 1
    BY <1>1, <2>1, <2>3
  <2> QED
    BY <1>1, <2>2, <2>3
<1> QED
  BY <1>1, <1>2, <1>3, <1>6, <1>7, <1>8 DEF Streams, s, p, j

(* The sender takes an ACK: it is for the first token not committed.       *)
LEMMA AckInOrder ==
  ASSUME NEW o \in Seq(OutMessage), NEW i \in Seq(InMessage),
         o # <<>>, Head(o).value = "ACK", Head(o).seq \in Nat,
         NEW read \in Nat, NEW tent \in Nat, NEW stored \in Nat,
         Streams(o, i, read, tent, stored)
  PROVE  /\ Head(o).seq = read /\ read < tent
         /\ Stale(o, i, read, tent) = 0
         /\ Streams(Tail(o), i, read + 1, tent, stored)
         /\ Stale(Tail(o), i, read + 1, tent) = 0
<1> DEFINE s == Stale(o, i, read, tent)
           p == Tail(o)
<1>1. /\ Len(o) \in Nat /\ Len(i) \in Nat /\ Len(o) > 0 /\ Head(o) = o[1]
      /\ Len(p) = Len(o) - 1
      /\ \A k \in 1 .. Len(o) - 1 : p[k] = o[k + 1]
  BY HeadTailProperties, LenProperties, EmptySeq
<1>2. /\ s >= 0 /\ read <= tent
      /\ \A k \in 1 .. Len(o) :
           /\ k <= s => o[k].value = "NACK" /\ o[k].seq > read
           /\ k > s => o[k].seq = read + k - s - 1
           /\ k > s /\ o[k].value = "NACK" =>
                stored <= o[k].seq /\ \A l \in k .. Len(o) : o[l].value = "NACK"
      /\ \A k \in 1 .. Len(i) :
           Len(o) + k > s => i[k].seq = read + Len(o) + k - s - 1
  BY DEF Streams
<1>3. s = Len(o) + Len(i) - (tent - read) /\ s \in Int
  BY <1>1 DEF Stale
<1>4. s = 0 /\ o[1].seq = read /\ read < tent
  <2> HIDE DEF s
  <2> QED
    BY <1>1, <1>2, <1>3
<1>5. Stale(p, i, read + 1, tent) = 0
  BY <1>1, <1>3, <1>4 DEF Stale
<1> HIDE DEF s, p
<1>6. ASSUME NEW k \in 1 .. Len(p)
      PROVE  /\ p[k].seq = (read + 1) + k - 1
             /\ p[k].value = "NACK" =>
                  stored <= p[k].seq /\ \A l \in k .. Len(p) : p[l].value = "NACK"
  <2>1. k + 1 \in 1 .. Len(o) /\ p[k] = o[k + 1]
    BY <1>1
  <2>2. p[k].seq = (read + 1) + k - 1
    BY <1>2, <1>3, <1>4, <2>1
  <2>3. ASSUME p[k].value = "NACK", NEW l \in k .. Len(p) PROVE p[l].value = "NACK"
    <3>1. l + 1 \in k + 1 .. Len(o) /\ p[l] = o[l + 1]
      BY <1>1
    <3>2. k + 1 > s /\ o[k + 1].value = "NACK"
      BY <1>4, <2>1, <2>3
    <3>3. \A m \in k + 1 .. Len(o) : o[m].value = "NACK"
      BY <1>2, <2>1, <3>2
    <3> QED
      BY <3>1, <3>3
  <2> QED
    BY <1>2, <1>3, <1>4, <2>1, <2>2, <2>3
<1>7. ASSUME NEW k \in 1 .. Len(i)
      PROVE  i[k].seq = (read + 1) + Len(p) + k - 1
  <2>1. Len(o) + k > s
    BY <1>1, <1>4
  <2>2. i[k].seq = read + Len(o) + k - s - 1
    BY <1>2, <2>1
  <2> QED
    BY <1>1, <1>4, <2>2
<1>8. Streams(p, i, read + 1, tent, stored)
  <2>1. PICK n \in Nat : n = read + 1
    OBVIOUS
  <2>2. /\ Len(p) \in Nat /\ Len(i) \in Nat /\ n <= tent
        /\ Stale(p, i, n, tent) = 0
    BY <1>1, <1>4, <1>5, <2>1
  <2>3. ASSUME NEW k \in 1 .. Len(p)
        PROVE  /\ k > 0 /\ p[k].seq = n + k - 0 - 1
               /\ p[k].value = "NACK" =>
                    stored <= p[k].seq /\ \A l \in k .. Len(p) : p[l].value = "NACK"
    BY <1>6, <2>1, <2>2
  <2>4. ASSUME NEW k \in 1 .. Len(i)
        PROVE  Len(p) + k > 0 /\ i[k].seq = n + Len(p) + k - 0 - 1
    BY <1>7, <2>1, <2>2
  <2>5. Streams(p, i, n, tent, stored)
    BY <2>2, <2>3, <2>4 DEF Streams
  <2> QED
    BY <2>1, <2>5
<1> QED
  BY <1>1, <1>4, <1>5, <1>8 DEF s, p

(* The sender takes a NACK: a stale one, of a token it has taken back, or  *)
(* one that makes it take back all that it has sent, which is then stale.  *)
LEMMA NackInOrder ==
  ASSUME NEW o \in Seq(OutMessage), NEW i \in Seq(InMessage),
         o # <<>>, Head(o).value = "NACK", Head(o).seq \in Nat,
         NEW read \in Nat, NEW tent \in Nat, NEW stored \in Nat,
         Streams(o, i, read, tent, stored)
  PROVE  \/ Head(o).seq >= tent /\ Streams(Tail(o), i, read, tent, stored)
         \/ /\ Head(o).seq = read /\ read < tent
            /\ Streams(Tail(o), i, read, read, stored)
<1> DEFINE s == Stale(o, i, read, tent)
           p == Tail(o)
<1>1. /\ Len(o) \in Nat /\ Len(i) \in Nat /\ Len(o) > 0 /\ Head(o) = o[1]
      /\ Len(p) = Len(o) - 1
      /\ \A k \in 1 .. Len(o) - 1 : p[k] = o[k + 1]
  BY HeadTailProperties, LenProperties, EmptySeq
<1>2. /\ s >= 0 /\ read <= tent /\ (s > 0 => tent <= read + 1)
      /\ \A k \in 1 .. Len(o) :
           /\ k <= s => o[k].value = "NACK" /\ o[k].seq > read
           /\ k > s => o[k].seq = read + k - s - 1
           /\ k > s /\ o[k].value = "NACK" =>
                stored <= o[k].seq /\ \A l \in k .. Len(o) : o[l].value = "NACK"
      /\ \A k \in 1 .. Len(i) :
           /\ Len(o) + k <= s => i[k].seq > read /\ i[k].seq > stored
           /\ Len(o) + k > s => i[k].seq = read + Len(o) + k - s - 1
  BY DEF Streams
<1>3. s = Len(o) + Len(i) - (tent - read) /\ s \in Int
  BY <1>1 DEF Stale
<1> HIDE DEF s, p
<1>4. CASE s > 0
  <2>1. o[1].seq > read /\ o[1].seq >= tent
    BY <1>1, <1>2, <1>3, <1>4
  <2>2. Stale(p, i, read, tent) = s - 1
    BY <1>1, <1>3 DEF Stale
  <2>3. ASSUME NEW k \in 1 .. Len(p)
        PROVE  /\ k <= s - 1 => p[k].value = "NACK" /\ p[k].seq > read
               /\ k > s - 1 => p[k].seq = read + k - (s - 1) - 1
               /\ k > s - 1 /\ p[k].value = "NACK" =>
                    stored <= p[k].seq /\ \A l \in k .. Len(p) : p[l].value = "NACK"
    <3>1. k + 1 \in 1 .. Len(o) /\ p[k] = o[k + 1]
      BY <1>1
    <3>2. ASSUME k > s - 1, p[k].value = "NACK", NEW l \in k .. Len(p)
          PROVE  p[l].value = "NACK"
      <4>1. l + 1 \in k + 1 .. Len(o) /\ p[l] = o[l + 1]
        BY <1>1
      <4>2. k + 1 > s /\ o[k + 1].value = "NACK"
        BY <1>3, <3>1, <3>2
      <4>3. \A m \in k + 1 .. Len(o) : o[m].value = "NACK"
        BY <1>2, <3>1, <4>2
      <4> QED
        BY <4>1, <4>3
    <3>3. /\ k <= s - 1 => p[k].value = "NACK" /\ p[k].seq > read
          /\ k > s - 1 => p[k].seq = read + k - (s - 1) - 1
      <4>1. /\ k + 1 <= s => o[k + 1].value = "NACK" /\ o[k + 1].seq > read
            /\ k + 1 > s => o[k + 1].seq = read + (k + 1) - s - 1
        BY <1>2, <3>1
      <4> QED
        BY <1>3, <3>1, <4>1
    <3>4. k > s - 1 /\ p[k].value = "NACK" => stored <= p[k].seq
      <4>1. k + 1 > s /\ o[k + 1].value = "NACK" => stored <= o[k + 1].seq
        BY <1>2, <3>1
      <4> QED
        BY <1>3, <3>1, <4>1
    <3> QED
      BY <3>2, <3>3, <3>4
  <2>4. ASSUME NEW k \in 1 .. Len(i)
        PROVE  /\ Len(p) + k <= s - 1 => i[k].seq > read /\ i[k].seq > stored
               /\ Len(p) + k > s - 1 => i[k].seq = read + Len(p) + k - (s - 1) - 1
    <3>1. /\ Len(o) + k <= s => i[k].seq > read /\ i[k].seq > stored
          /\ Len(o) + k > s => i[k].seq = read + Len(o) + k - s - 1
      BY <1>2
    <3>2. /\ Len(o) \in Nat /\ Len(p) = Len(o) - 1 /\ Len(i) \in Nat /\ s \in Int
          /\ k \in Nat
      BY <1>1, <1>3
    <3>3. /\ Len(o) + k <= s <=> Len(p) + k <= s - 1
          /\ Len(o) + k > s <=> Len(p) + k > s - 1
          /\ read + Len(o) + k - s - 1 = read + Len(p) + k - (s - 1) - 1
      BY <3>2
    <3> QED
      BY <3>1, <3>3
  <2>5. Streams(p, i, read, tent, stored)
    BY <1>2, <1>3, <1>4, <2>2, <2>3, <2>4 DEF Streams
  <2> QED
    BY <1>1, <2>1, <2>5 DEF p
<1>5. CASE s = 0
  <2>1. o[1].seq = read /\ read < tent /\ stored <= read
    BY <1>1, <1>2, <1>3, <1>5
  <2>2. Stale(p, i, read, read) = Len(p) + Len(i)
    BY <1>1 DEF Stale
  <2>3. ASSUME NEW k \in 1 .. Len(p)
        PROVE  p[k].value = "NACK" /\ p[k].seq > read
    <3>1. k + 1 \in 1 .. Len(o) /\ p[k] = o[k + 1]
      BY <1>1
    <3>2. \A m \in 1 .. Len(o) : o[m].value = "NACK"
      BY <1>1, <1>2, <1>5
    <3>3. o[k + 1].seq = read + (k + 1) - 0 - 1
      <4>1. k + 1 > s => o[k + 1].seq = read + (k + 1) - s - 1
        BY <1>2, <3>1
      <4>2. k \in Nat /\ k + 1 > s /\ s = 0
        BY <1>1, <1>5
      <4>3. read + (k + 1) - s - 1 = read + (k + 1) - 0 - 1
        BY <4>2
      <4> QED
        BY <4>1, <4>2, <4>3
    <3>4. read + (k + 1) - 0 - 1 > read
      OBVIOUS
    <3> QED
      BY <3>1, <3>2, <3>3, <3>4
  <2>4. ASSUME NEW k \in 1 .. Len(i)
        PROVE  i[k].seq > read /\ i[k].seq > stored
    <3>1. Len(o) + k > s
      BY <1>1, <1>5
    <3>2. i[k].seq = read + Len(o) + k - 0 - 1
      BY <1>2, <1>5, <3>1
    <3> QED
      BY <1>1, <2>1, <3>2
  <2>5. Streams(p, i, read, read, stored)
    BY <1>1, <2>2, <2>3, <2>4 DEF Streams
  <2> QED
    BY <1>1, <2>1, <2>5 DEF p
<1> QED
  BY <1>2, <1>3, <1>4, <1>5

-----------------------------------------------------------------------------
(* A channel with tokens or replies only, one that such a message ends, or *)
(* one that it starts.                                                     *)
NoControl(c) == \A k \in 1 .. Len(c) : c[k].cmd \notin Commands

EndsWith(c, cmd) ==
  /\ c # <<>> /\ c[Len(c)] = Control(cmd)
  /\ \A k \in 1 .. Len(c) - 1 : c[k].cmd \notin Commands

StartsWith(c, cmd) == c # <<>> /\ Head(c) = Control(cmd) /\ NoControl(Tail(c))

LEMMA EmptyHasNoControl == NoControl(<<>>)
BY DEF NoControl

LEMMA NoControlAppend ==
  ASSUME NEW S, NEW c \in Seq(S), NEW e \in S, NoControl(c)
  PROVE  /\ e.cmd \notin Commands => NoControl(Append(c, e))
         /\ \A cmd : e = Control(cmd) => EndsWith(Append(c, e), cmd)
<1>1. /\ Len(c) \in Nat /\ Len(Append(c, e)) = Len(c) + 1
      /\ Append(c, e)[Len(c) + 1] = e
      /\ \A k \in 1 .. Len(c) : Append(c, e)[k] = c[k]
      /\ Append(c, e) # <<>>
  BY AppendProperties, LenProperties
<1>2. e.cmd \notin Commands => NoControl(Append(c, e))
  BY <1>1 DEF NoControl
<1>3. ASSUME NEW cmd, e = Control(cmd) PROVE EndsWith(Append(c, e), cmd)
  BY <1>1, <1>3 DEF NoControl, EndsWith
<1> QED
  BY <1>2, <1>3

LEMMA NoControlConcat ==
  ASSUME NEW S, NEW c \in Seq(S), NEW d \in Seq(S), NoControl(c), NoControl(d)
  PROVE  NoControl(c \o d)
<1>1. /\ Len(c) \in Nat /\ Len(d) \in Nat /\ Len(c \o d) = Len(c) + Len(d)
      /\ \A k \in 1 .. Len(c) : (c \o d)[k] = c[k]
      /\ \A k \in Len(c) + 1 .. Len(c) + Len(d) : (c \o d)[k] = d[k - Len(c)]
  BY ConcatProperties, LenProperties
<1>2. SUFFICES ASSUME NEW k \in 1 .. Len(c) + Len(d) PROVE (c \o d)[k].cmd \notin Commands
  BY <1>1 DEF NoControl
<1>3. CASE k \in 1 .. Len(c)
  BY <1>1, <1>3 DEF NoControl
<1>4. CASE k \notin 1 .. Len(c)
  <2>1. k \in Len(c) + 1 .. Len(c) + Len(d) /\ k - Len(c) \in 1 .. Len(d)
    BY <1>1, <1>4
  <2> QED
    BY <1>1, <2>1 DEF NoControl
<1> QED
  BY <1>3, <1>4

LEMMA NoControlTail ==
  ASSUME NEW S, NEW c \in Seq(S), c # <<>>, NoControl(c)
  PROVE  Head(c).cmd \notin Commands /\ NoControl(Tail(c))
<1>1. /\ Len(c) \in Nat /\ Len(c) > 0 /\ Head(c) = c[1] /\ Len(Tail(c)) = Len(c) - 1
      /\ \A k \in 1 .. Len(c) - 1 : Tail(c)[k] = c[k + 1]
  BY HeadTailProperties, LenProperties, EmptySeq
<1> QED
  BY <1>1 DEF NoControl

LEMMA EndsWithTail ==
  ASSUME NEW S, NEW c \in Seq(S), NEW cmd \in Commands, EndsWith(c, cmd)
  PROVE  /\ c # <<>>
         /\ Head(c).cmd \in Commands => Head(c).cmd = cmd /\ Tail(c) = <<>>
         /\ Head(c).cmd \notin Commands => EndsWith(Tail(c), cmd)
<1>1. /\ c # <<>> /\ c[Len(c)] = Control(cmd)
      /\ \A k \in 1 .. Len(c) - 1 : c[k].cmd \notin Commands
  BY DEF EndsWith
<1>2. /\ Len(c) \in Nat /\ Len(c) > 0 /\ Head(c) = c[1] /\ Len(Tail(c)) = Len(c) - 1
      /\ \A k \in 1 .. Len(c) - 1 : Tail(c)[k] = c[k + 1]
      /\ Tail(c) \in Seq(S)
  BY <1>1, HeadTailProperties, LenProperties, EmptySeq
<1>3. /\ Control(cmd).cmd = cmd
      /\ Len(Tail(c)) = 0 <=> Tail(c) = <<>>
  <2>1. /\ Len(<<>>) = 0
        /\ Tail(c) # <<>> => Len(Tail(c)) \in Nat \ {0}
    BY <1>2, EmptySeq
  <2> QED
    BY <2>1 DEF Control
<1>4. CASE Len(c) = 1
  <2>1. Tail(c) = <<>>
    BY <1>2, <1>3, <1>4
  <2>2. Head(c).cmd = cmd
    BY <1>1, <1>2, <1>3, <1>4
  <2> QED
    BY <1>1, <2>1, <2>2
<1>5. CASE Len(c) > 1
  <2>1. Head(c).cmd \notin Commands
    BY <1>1, <1>2, <1>5
  <2>2. Tail(c) # <<>> /\ Tail(c)[Len(Tail(c))] = Control(cmd)
    <3>1. Len(c) - 1 \in 1 .. Len(c) - 1 /\ (Len(c) - 1) + 1 = Len(c)
      BY <1>2, <1>5
    <3> QED
      BY <1>1, <1>2, <1>3, <1>5, <3>1
  <2>3. \A k \in 1 .. Len(Tail(c)) - 1 : Tail(c)[k].cmd \notin Commands
    BY <1>1, <1>2, <1>5
  <2> QED
    BY <1>1, <2>1, <2>2, <2>3 DEF EndsWith
<1> QED
  BY <1>2, <1>4, <1>5

LEMMA StartsWithConcat ==
  ASSUME NEW S, NEW c \in Seq(S), NEW d \in Seq(S), NEW cmd,
         StartsWith(c, cmd), NoControl(d)
  PROVE  StartsWith(c \o d, cmd) /\ Tail(c \o d) = Tail(c) \o d
<1>1. /\ c # <<>> /\ Head(c) = Control(cmd) /\ NoControl(Tail(c)) /\ Tail(c) \in Seq(S)
  BY HeadTailProperties DEF StartsWith
<1>2. /\ Len(c) \in Nat /\ Len(d) \in Nat /\ Len(c) > 0 /\ c \o d \in Seq(S)
      /\ Len(c \o d) = Len(c) + Len(d) /\ (c \o d)[1] = c[1] /\ c \o d # <<>>
  BY <1>1, ConcatProperties, LenProperties, EmptySeq
<1>3. Head(c \o d) = Control(cmd)
  BY <1>1, <1>2, HeadTailProperties
<1>4. Tail(c \o d) = Tail(c) \o d
  <2> DEFINE u == Tail(c \o d)
             v == Tail(c) \o d
  <2>1. /\ u \in Seq(S) /\ Len(u) = Len(c) + Len(d) - 1
        /\ \A k \in 1 .. Len(c) + Len(d) - 1 : u[k] = (c \o d)[k + 1]
    BY <1>2, HeadTailProperties
  <2>2. /\ Len(Tail(c)) = Len(c) - 1
        /\ \A k \in 1 .. Len(c) - 1 : Tail(c)[k] = c[k + 1]
    BY <1>1, HeadTailProperties
  <2>3. /\ v \in Seq(S) /\ Len(v) = Len(c) - 1 + Len(d)
        /\ \A k \in 1 .. Len(c) - 1 : v[k] = Tail(c)[k]
        /\ \A k \in Len(c) .. Len(c) - 1 + Len(d) : v[k] = d[k - (Len(c) - 1)]
    BY <1>1, <1>2, <2>2, ConcatProperties
  <2>4. /\ \A k \in 1 .. Len(c) : (c \o d)[k] = c[k]
        /\ \A k \in Len(c) + 1 .. Len(c) + Len(d) : (c \o d)[k] = d[k - Len(c)]
    BY ConcatProperties
  <2> HIDE DEF u, v
  <2>5. ASSUME NEW k \in 1 .. Len(u) PROVE u[k] = v[k]
    <3>1. CASE k \in 1 .. Len(c) - 1
      BY <1>2, <2>1, <2>2, <2>3, <2>4, <3>1
    <3>2. CASE k \in Len(c) .. Len(c) - 1 + Len(d)
      <4>1. /\ k + 1 \in Len(c) + 1 .. Len(c) + Len(d)
            /\ (k + 1) - Len(c) = k - (Len(c) - 1)
        BY <1>2, <3>2
      <4> QED
        BY <1>2, <2>1, <2>3, <2>4, <3>2, <4>1
    <3> QED
      BY <1>2, <2>1, <3>1, <3>2
  <2>6. u = v
    BY <2>1, <2>3, <2>5, <1>2, SeqEqual
  <2> QED
    BY <2>6 DEF u, v
<1>5. NoControl(Tail(c) \o d)
  BY <1>1, NoControlConcat
<1> QED
  BY <1>2, <1>3, <1>4, <1>5 DEF StartsWith

LEMMA OnlyControl ==
  ASSUME NEW cmd
  PROVE  LET c == <<Control(cmd)>> IN
         /\ c # <<>> /\ Head(c).cmd = cmd /\ Tail(c) = <<>>
         /\ StartsWith(c, cmd)
BY EmptyHasNoControl DEF Control, StartsWith

-----------------------------------------------------------------------------
(* Of a reader's connection: the tokens on their way to it are i, and no   *)
(* ACK is kept for later; with stale tokens the sender is throttled.       *)
Flow(r, i) ==
  LET read == outq.read_pos[r]  tent == outq.tentative_read_pos[r] IN
  /\ acked[r] = {}
  /\ Streams(to_out[r], i, read, tent, inq[r].write_pos)
  /\ Stale(to_out[r], i, read, tent) > 0 => ~bulk[r]

(* The outport has no endpoint for it, and has taken back what it sent.    *)
Detached(r) ==
  /\ ~out_endpoint[r]
  /\ acked[r] = {}
  /\ outq.tentative_read_pos[r] = outq.read_pos[r]

(* The stages of a connection.  Both ends are attached; or the reader ...  *)
Connected(r) ==
  /\ in_phase[r] = "stay" /\ out_phase # "leaving" /\ r \notin pending
  /\ in_endpoint[r] /\ out_endpoint[r]
  /\ NoControl(to_in[r]) /\ NoControl(to_out[r])
  /\ Flow(r, to_in[r])

(* ... has asked the outport to disconnect,                                *)
InLeaves(r) ==
  /\ in_phase[r] = "leaving" /\ out_phase = "stay" /\ r \in pending
  /\ ~in_endpoint[r] /\ out_endpoint[r]
  /\ NoControl(to_in[r]) /\ EndsWith(to_out[r], "PORT_DISCONNECT")

(* ... will learn that it has,                                             *)
InMayGo(r) ==
  /\ in_phase[r] = "leaving" /\ out_phase = "stay" /\ r \in pending
  /\ ~in_endpoint[r] /\ Detached(r)
  /\ EndsWith(to_in[r], "PORT_DISCONNECT_REPLY") /\ to_out[r] = <<>>

(* ... has learnt it, and its state may be handed over,                    *)
InGone(r) ==
  /\ in_phase[r] = "leaving" /\ out_phase = "stay" /\ r \notin pending
  /\ ~in_endpoint[r] /\ Detached(r)
  /\ to_in[r] = <<>> /\ to_out[r] = <<>>

(* ... has asked the outport to connect again,                             *)
InArrives(r) ==
  /\ in_phase[r] = "arriving" /\ out_phase = "stay" /\ r \in pending
  /\ ~in_endpoint[r] /\ Detached(r)
  /\ to_in[r] = <<>> /\ to_out[r] = <<Control("PORT_CONNECT")>>

(* ... will learn that it has; tokens may follow;                          *)
InMayStay(r) ==
  /\ in_phase[r] = "arriving" /\ out_phase = "stay" /\ r \in pending
  /\ ~in_endpoint[r] /\ out_endpoint[r]
  /\ StartsWith(to_in[r], "PORT_CONNECT_REPLY") /\ to_out[r] = <<>>
  /\ Flow(r, Tail(to_in[r]))

(* or so has the outport.                                                  *)
OutLeaves(r) ==
  /\ in_phase[r] = "stay" /\ out_phase = "leaving" /\ r \in pending
  /\ in_endpoint[r] /\ Detached(r)
  /\ EndsWith(to_in[r], "PORT_DISCONNECT") /\ NoControl(to_out[r])

OutMayGo(r) ==
  /\ in_phase[r] = "stay" /\ out_phase = "leaving" /\ r \in pending
  /\ ~in_endpoint[r] /\ Detached(r)
  /\ to_in[r] = <<>> /\ EndsWith(to_out[r], "PORT_DISCONNECT_REPLY")

OutGone(r) ==
  /\ in_phase[r] = "stay" /\ out_phase = "leaving" /\ r \notin pending
  /\ ~in_endpoint[r] /\ Detached(r)
  /\ to_in[r] = <<>> /\ to_out[r] = <<>>

OutArrives(r) ==
  /\ in_phase[r] = "stay" /\ out_phase = "arriving" /\ r \in pending
  /\ ~in_endpoint[r] /\ Detached(r)
  /\ to_in[r] = <<Control("PORT_CONNECT")>> /\ to_out[r] = <<>>

OutMayStay(r) ==
  /\ in_phase[r] = "stay" /\ out_phase = "arriving" /\ r \in pending
  /\ in_endpoint[r] /\ Detached(r)
  /\ to_in[r] = <<>> /\ to_out[r] = <<Control("PORT_CONNECT_REPLY")>>

Stage(r) ==
  \/ Connected(r)
  \/ InLeaves(r) \/ InMayGo(r) \/ InGone(r) \/ InArrives(r) \/ InMayStay(r)
  \/ OutLeaves(r) \/ OutMayGo(r) \/ OutGone(r) \/ OutArrives(r) \/ OutMayStay(r)

(* Nothing of the connection of r changes.                                 *)
SameConnection(r) ==
  /\ outq'.read_pos[r] = outq.read_pos[r]
  /\ outq'.tentative_read_pos[r] = outq.tentative_read_pos[r]
  /\ inq'[r].write_pos = inq[r].write_pos
  /\ out_endpoint'[r] = out_endpoint[r] /\ in_endpoint'[r] = in_endpoint[r]
  /\ bulk'[r] = bulk[r] /\ acked'[r] = acked[r]
  /\ to_in'[r] = to_in[r] /\ to_out'[r] = to_out[r]
  /\ in_phase'[r] = in_phase[r]
  /\ r \in pending' <=> r \in pending

LEMMA StageKept ==
  ASSUME NEW r \in Readers, Stage(r), SameConnection(r),
         \/ out_phase' = out_phase
         \/ Connected(r) /\ out_phase' = "stay"
  PROVE  Stage(r)'
<1> USE DEF SameConnection
<1>1. /\ \A i : Flow(r, i) => Flow(r, i)'
      /\ Detached(r) => Detached(r)'
  BY DEF Flow, Detached
<1> HIDE DEF SameConnection
<1>2. /\ out_endpoint'[r] = out_endpoint[r] /\ in_endpoint'[r] = in_endpoint[r]
      /\ to_in'[r] = to_in[r] /\ to_out'[r] = to_out[r]
      /\ in_phase'[r] = in_phase[r]
      /\ r \in pending' <=> r \in pending
  BY DEF SameConnection
<1>3. CASE Connected(r)
  BY <1>1, <1>2, <1>3 DEF Connected, Stage
<1>4. CASE InLeaves(r)
  BY <1>1, <1>2, <1>4 DEF InLeaves, Connected, Stage
<1>5. CASE InMayGo(r)
  BY <1>1, <1>2, <1>5 DEF InMayGo, Connected, Stage
<1>6. CASE InGone(r)
  BY <1>1, <1>2, <1>6 DEF InGone, Connected, Stage
<1>7. CASE InArrives(r)
  BY <1>1, <1>2, <1>7 DEF InArrives, Connected, Stage
<1>8. CASE InMayStay(r)
  BY <1>1, <1>2, <1>8 DEF InMayStay, Connected, Stage
<1>9. CASE OutLeaves(r)
  BY <1>1, <1>2, <1>9 DEF OutLeaves, Connected, Stage
<1>10. CASE OutMayGo(r)
  BY <1>1, <1>2, <1>10 DEF OutMayGo, Connected, Stage
<1>11. CASE OutGone(r)
  BY <1>1, <1>2, <1>11 DEF OutGone, Connected, Stage
<1>12. CASE OutArrives(r)
  BY <1>1, <1>2, <1>12 DEF OutArrives, Connected, Stage
<1>13. CASE OutMayStay(r)
  BY <1>1, <1>2, <1>13 DEF OutMayStay, Connected, Stage
<1> QED
  BY <1>3, <1>4, <1>5, <1>6, <1>7, <1>8, <1>9, <1>10, <1>11, <1>12, <1>13 DEF Stage

(* What the first message on a channel says of the stage.                  *)
LEMMA FirstOut ==
  ASSUME TypeOK, NEW r \in Readers, Stage(r), to_out[r] # <<>>
  PROVE  LET cmd == Head(to_out[r]).cmd IN
         /\ cmd = "PORT_DISCONNECT" => InLeaves(r) /\ Tail(to_out[r]) = <<>>
         /\ cmd = "PORT_DISCONNECT_REPLY" => OutMayGo(r) /\ Tail(to_out[r]) = <<>>
         /\ cmd = "PORT_CONNECT" => InArrives(r) /\ Tail(to_out[r]) = <<>>
         /\ cmd = "PORT_CONNECT_REPLY" => OutMayStay(r) /\ Tail(to_out[r]) = <<>>
         /\ cmd = "TOKEN_REPLY" =>
              Connected(r) \/ InLeaves(r) \/ OutLeaves(r) \/ OutMayGo(r)
<1> DEFINE cmd == Head(to_out[r]).cmd
<1>0. to_out[r] \in Seq(OutMessage)
  BY DEF TypeOK
<1>1. CASE Connected(r) \/ OutLeaves(r)
  <2>1. NoControl(to_out[r])
    BY <1>1 DEF Connected, OutLeaves
  <2>2. cmd \notin Commands
    BY <1>0, <2>1, NoControlTail
  <2> QED
    BY <1>1, <2>2 DEF Commands
<1>2. CASE InLeaves(r)
  <2>1. EndsWith(to_out[r], "PORT_DISCONNECT") /\ "PORT_DISCONNECT" \in Commands
    BY <1>2 DEF InLeaves, Commands
  <2>2. cmd \in Commands => cmd = "PORT_DISCONNECT" /\ Tail(to_out[r]) = <<>>
    BY <1>0, <2>1, EndsWithTail
  <2> QED
    BY <1>2, <2>2 DEF Commands
<1>3. CASE OutMayGo(r)
  <2>1. EndsWith(to_out[r], "PORT_DISCONNECT_REPLY") /\ "PORT_DISCONNECT_REPLY" \in Commands
    BY <1>3 DEF OutMayGo, Commands
  <2>2. cmd \in Commands => cmd = "PORT_DISCONNECT_REPLY" /\ Tail(to_out[r]) = <<>>
    BY <1>0, <2>1, EndsWithTail
  <2> QED
    BY <1>3, <2>2 DEF Commands
<1>4. CASE InArrives(r)
  <2>1. to_out[r] = <<Control("PORT_CONNECT")>>
    BY <1>4 DEF InArrives
  <2>2. cmd = "PORT_CONNECT" /\ Tail(to_out[r]) = <<>>
    BY <2>1, OnlyControl
  <2> QED
    BY <1>4, <2>2
<1>5. CASE OutMayStay(r)
  <2>1. to_out[r] = <<Control("PORT_CONNECT_REPLY")>>
    BY <1>5 DEF OutMayStay
  <2>2. cmd = "PORT_CONNECT_REPLY" /\ Tail(to_out[r]) = <<>>
    BY <2>1, OnlyControl
  <2> QED
    BY <1>5, <2>2
<1> QED
  BY <1>1, <1>2, <1>3, <1>4, <1>5
  DEF Stage, InMayGo, InGone, InMayStay, OutGone, OutArrives

LEMMA FirstIn ==
  ASSUME TypeOK, NEW r \in Readers, Stage(r), to_in[r] # <<>>
  PROVE  LET cmd == Head(to_in[r]).cmd IN
         /\ cmd = "PORT_DISCONNECT" => OutLeaves(r) /\ Tail(to_in[r]) = <<>>
         /\ cmd = "PORT_DISCONNECT_REPLY" => InMayGo(r) /\ Tail(to_in[r]) = <<>>
         /\ cmd = "PORT_CONNECT" => OutArrives(r) /\ Tail(to_in[r]) = <<>>
         /\ cmd = "PORT_CONNECT_REPLY" => InMayStay(r)
         /\ cmd = "TOKEN" => Connected(r) \/ InLeaves(r) \/ InMayGo(r) \/ OutLeaves(r)
<1> DEFINE cmd == Head(to_in[r]).cmd
<1>0. to_in[r] \in Seq(InMessage)
  BY DEF TypeOK
<1>1. CASE Connected(r) \/ InLeaves(r)
  <2>1. NoControl(to_in[r])
    BY <1>1 DEF Connected, InLeaves
  <2>2. cmd \notin Commands
    BY <1>0, <2>1, NoControlTail
  <2> QED
    BY <1>1, <2>2 DEF Commands
<1>2. CASE OutLeaves(r)
  <2>1. EndsWith(to_in[r], "PORT_DISCONNECT") /\ "PORT_DISCONNECT" \in Commands
    BY <1>2 DEF OutLeaves, Commands
  <2>2. cmd \in Commands => cmd = "PORT_DISCONNECT" /\ Tail(to_in[r]) = <<>>
    BY <1>0, <2>1, EndsWithTail
  <2> QED
    BY <1>2, <2>2 DEF Commands
<1>3. CASE InMayGo(r)
  <2>1. EndsWith(to_in[r], "PORT_DISCONNECT_REPLY") /\ "PORT_DISCONNECT_REPLY" \in Commands
    BY <1>3 DEF InMayGo, Commands
  <2>2. cmd \in Commands => cmd = "PORT_DISCONNECT_REPLY" /\ Tail(to_in[r]) = <<>>
    BY <1>0, <2>1, EndsWithTail
  <2> QED
    BY <1>3, <2>2 DEF Commands
<1>4. CASE OutArrives(r)
  <2>1. to_in[r] = <<Control("PORT_CONNECT")>>
    BY <1>4 DEF OutArrives
  <2>2. cmd = "PORT_CONNECT" /\ Tail(to_in[r]) = <<>>
    BY <2>1, OnlyControl
  <2> QED
    BY <1>4, <2>2
<1>5. CASE InMayStay(r)
  <2>1. Head(to_in[r]) = Control("PORT_CONNECT_REPLY")
    BY <1>5 DEF InMayStay, StartsWith
  <2>2. cmd = "PORT_CONNECT_REPLY"
    BY <2>1 DEF Control
  <2> QED
    BY <1>5, <2>2
<1> QED
  BY <1>1, <1>2, <1>3, <1>4, <1>5
  DEF Stage, InGone, InArrives, OutMayGo, OutGone, OutMayStay

-----------------------------------------------------------------------------
(* A step keeps the connections in their stages: a lemma for each action.  *)
Stages == \A r \in Readers : Stage(r)

LEMMA OthersKept ==
  ASSUME Stages, NEW r \in Readers, Stage(r)', out_phase' = out_phase,
         \A s \in Readers \ {r} : SameConnection(s)
  PROVE  Stages'
<1> SUFFICES ASSUME NEW s \in Readers PROVE Stage(s)'
  BY DEF Stages
<1>1. CASE s = r
  BY <1>1
<1>2. CASE s # r
  <2>1. Stage(s) /\ SameConnection(s)
    BY <1>2 DEF Stages
  <2> QED
    BY <2>1, StageKept
<1> QED
  BY <1>1, <1>2

(* The functions of a connection's state, to change them for a reader.     *)
LEMMA ConnectionType ==
  ASSUME TypeOK
  PROVE  /\ to_in \in [Readers -> Seq(InMessage)]
         /\ to_out \in [Readers -> Seq(OutMessage)]
         /\ out_endpoint \in [Readers -> BOOLEAN]
         /\ in_endpoint \in [Readers -> BOOLEAN]
         /\ bulk \in [Readers -> BOOLEAN]
         /\ acked \in [Readers -> SUBSET Nat]
         /\ in_phase \in [Readers -> {"stay", "leaving", "arriving"}]
         /\ \A c \in Commands : Control(c) \in InMessage /\ Control(c) \in OutMessage
BY ControlType DEF TypeOK

(* A control message at the end of a channel of tokens or of nothing.      *)
LEMMA ControlEnds ==
  ASSUME NEW S, NEW c \in Seq(S), NEW cmd, Control(cmd) \in S, NoControl(c)
  PROVE  EndsWith(Append(c, Control(cmd)), cmd)
BY NoControlAppend

LEMMA ControlAlone ==
  ASSUME NEW c, c = <<>>, NEW cmd
  PROVE  Append(c, Control(cmd)) = <<Control(cmd)>>
OBVIOUS

(* The reader begins to leave.                                             *)
LEMMA LeaveInStages ==
  ASSUME TypeOK, Stages, NEW r \in Readers, LeaveIn(r)
  PROVE  Stages'
<1>0. in_phase[r] = "stay" /\ out_phase = "stay" /\ Stage(r)
  BY DEF LeaveIn, Stages
<1>1. Connected(r)
  BY <1>0 DEF Stage, InLeaves, InMayGo, InGone, InArrives, InMayStay, OutLeaves,
              OutMayGo, OutGone, OutArrives, OutMayStay
<1>2. /\ in_phase' = [in_phase EXCEPT ![r] = "leaving"]
      /\ in_endpoint' = [in_endpoint EXCEPT ![r] = FALSE]
      /\ to_out' = [to_out EXCEPT ![r] = Append(@, Control("PORT_DISCONNECT"))]
      /\ pending' = pending \cup {r}
      /\ UNCHANGED <<outq, inq, out_endpoint, bulk, acked, to_in, out_phase>>
  BY DEF LeaveIn, queues
<1>3. EndsWith(Append(to_out[r], Control("PORT_DISCONNECT")), "PORT_DISCONNECT")
  <2>1. /\ to_out[r] \in Seq(OutMessage) /\ Control("PORT_DISCONNECT") \in OutMessage
        /\ NoControl(to_out[r])
    BY <1>1, ConnectionType DEF Commands, Connected
  <2> QED
    BY <2>1, ControlEnds
<1>4. InLeaves(r)'
  BY <1>0, <1>1, <1>2, <1>3, ConnectionType DEF Connected, InLeaves
<1>5. \A s \in Readers \ {r} : SameConnection(s)
  BY <1>2, ConnectionType DEF SameConnection
<1> QED
  BY <1>2, <1>4, <1>5, OthersKept DEF Stage

(* The outport's runtime detaches, for a reader that leaves.               *)
LEMMA DisconnectRequestOutStages ==
  ASSUME TypeOK, Stages, NEW r \in Readers, DisconnectRequestOut(r)
  PROVE  Stages'
<1>1. InLeaves(r) /\ Tail(to_out[r]) = <<>>
  BY FirstOut DEF Stages, DisconnectRequestOut, IsNext
<1>2. /\ DetachOut({r})
      /\ to_out' = [to_out EXCEPT ![r] = Tail(@)]
      /\ to_in' = [to_in EXCEPT ![r] = Append(@, Control("PORT_DISCONNECT_REPLY"))]
      /\ UNCHANGED <<inq, in_endpoint, out_phase, in_phase, pending>>
  BY DEF DisconnectRequestOut, phases
<1>3. /\ outq'.read_pos = outq.read_pos
      /\ \A s \in Readers : outq'.tentative_read_pos[s] =
           IF s \in {r} THEN outq.read_pos[s] ELSE outq.tentative_read_pos[s]
  BY <1>2, DetachOutProperty
<1>4. /\ out_endpoint' = [s \in Readers |-> out_endpoint[s] /\ s \notin {r}]
      /\ bulk' = [s \in Readers |-> bulk[s] \/ s \in {r}]
      /\ acked' = [s \in Readers |-> IF s \in {r} THEN {} ELSE acked[s]]
  BY <1>2 DEF DetachOut
<1>5. EndsWith(Append(to_in[r], Control("PORT_DISCONNECT_REPLY")), "PORT_DISCONNECT_REPLY")
  <2>1. /\ to_in[r] \in Seq(InMessage) /\ Control("PORT_DISCONNECT_REPLY") \in InMessage
        /\ NoControl(to_in[r])
    BY <1>1, ConnectionType DEF Commands, InLeaves
  <2> QED
    BY <2>1, ControlEnds
<1>6. Detached(r)'
  BY <1>3, <1>4 DEF Detached
<1>7. InMayGo(r)'
  BY <1>1, <1>2, <1>5, <1>6, ConnectionType DEF InLeaves, InMayGo
<1>8. ASSUME NEW s \in Readers \ {r} PROVE SameConnection(s)
  <2>1. /\ out_endpoint'[s] = out_endpoint[s] /\ bulk'[s] = bulk[s] /\ acked'[s] = acked[s]
    BY <1>4, ConnectionType
  <2>2. to_in'[s] = to_in[s] /\ to_out'[s] = to_out[s]
    BY <1>2, ConnectionType
  <2> QED
    BY <1>2, <1>3, <2>1, <2>2 DEF SameConnection
<1> QED
  BY <1>2, <1>7, <1>8, OthersKept DEF Stage

(* The reader's runtime detaches, as the outport leaves.                   *)
LEMMA DisconnectRequestInStages ==
  ASSUME TypeOK, Stages, NEW r \in Readers, DisconnectRequestIn(r)
  PROVE  Stages'
<1>1. OutLeaves(r) /\ Tail(to_in[r]) = <<>>
  BY FirstIn DEF Stages, DisconnectRequestIn, IsNext
<1>2. /\ in_endpoint' = [in_endpoint EXCEPT ![r] = FALSE]
      /\ to_in' = [to_in EXCEPT ![r] = Tail(@)]
      /\ to_out' = [to_out EXCEPT ![r] = Append(@, Control("PORT_DISCONNECT_REPLY"))]
      /\ UNCHANGED <<outq, inq, out_endpoint, bulk, acked, out_phase, in_phase, pending>>
  BY DEF DisconnectRequestIn, phases, queues
<1>3. EndsWith(Append(to_out[r], Control("PORT_DISCONNECT_REPLY")), "PORT_DISCONNECT_REPLY")
  <2>1. /\ to_out[r] \in Seq(OutMessage) /\ Control("PORT_DISCONNECT_REPLY") \in OutMessage
        /\ NoControl(to_out[r])
    BY <1>1, ConnectionType DEF Commands, OutLeaves
  <2> QED
    BY <2>1, ControlEnds
<1>4. Detached(r)'
  BY <1>1, <1>2 DEF Detached, OutLeaves
<1>5. OutMayGo(r)'
  BY <1>1, <1>2, <1>3, <1>4, ConnectionType DEF OutLeaves, OutMayGo
<1>6. \A s \in Readers \ {r} : SameConnection(s)
  BY <1>2, ConnectionType DEF SameConnection
<1> QED
  BY <1>2, <1>5, <1>6, OthersKept DEF Stage

(* The reader learns that the outport has detached.                        *)
LEMMA DisconnectReplyInStages ==
  ASSUME TypeOK, Stages, NEW r \in Readers, DisconnectReplyIn(r)
  PROVE  Stages'
<1>1. InMayGo(r) /\ Tail(to_in[r]) = <<>>
  BY FirstIn DEF Stages, DisconnectReplyIn, IsNext
<1>2. /\ to_in' = [to_in EXCEPT ![r] = Tail(@)]
      /\ pending' = pending \ {r}
      /\ UNCHANGED <<outq, inq, out_endpoint, in_endpoint, bulk, acked, to_out, out_phase,
                     in_phase>>
  BY DEF DisconnectReplyIn, queues, endpoints
<1>3. Detached(r)'
  BY <1>1, <1>2 DEF Detached, InMayGo
<1>4. InGone(r)'
  BY <1>1, <1>2, <1>3, ConnectionType DEF InMayGo, InGone
<1>5. \A s \in Readers \ {r} : SameConnection(s)
  BY <1>2, ConnectionType DEF SameConnection
<1> QED
  BY <1>2, <1>4, <1>5, OthersKept DEF Stage

(* The outport learns that the reader has detached.                        *)
LEMMA DisconnectReplyOutStages ==
  ASSUME TypeOK, Stages, NEW r \in Readers, DisconnectReplyOut(r)
  PROVE  Stages'
<1>1. OutMayGo(r) /\ Tail(to_out[r]) = <<>>
  BY FirstOut DEF Stages, DisconnectReplyOut, IsNext
<1>2. /\ to_out' = [to_out EXCEPT ![r] = Tail(@)]
      /\ pending' = pending \ {r}
      /\ UNCHANGED <<outq, inq, out_endpoint, in_endpoint, bulk, acked, to_in, out_phase, in_phase>>
  BY DEF DisconnectReplyOut, queues, endpoints
<1>3. Detached(r)'
  BY <1>1, <1>2 DEF Detached, OutMayGo
<1>4. OutGone(r)'
  BY <1>1, <1>2, <1>3, ConnectionType DEF OutMayGo, OutGone
<1>5. \A s \in Readers \ {r} : SameConnection(s)
  BY <1>2, ConnectionType DEF SameConnection
<1> QED
  BY <1>2, <1>4, <1>5, OthersKept DEF Stage

(* The reader has arrived, and asks the outport to connect.                *)
LEMMA ArriveInStages ==
  ASSUME TypeOK, Stages, NEW r \in Readers, ArriveIn(r)
  PROVE  Stages'
<1>0. in_phase[r] = "leaving" /\ r \notin pending /\ Stage(r)
  BY DEF ArriveIn, Stages
<1>1. InGone(r)
  BY <1>0 DEF Stage, Connected, InLeaves, InMayGo, InArrives, InMayStay, OutLeaves,
              OutMayGo, OutGone, OutArrives, OutMayStay
<1>2. /\ in_phase' = [in_phase EXCEPT ![r] = "arriving"]
      /\ to_out' = [to_out EXCEPT ![r] = Append(@, Control("PORT_CONNECT"))]
      /\ pending' = pending \cup {r}
      /\ UNCHANGED <<outq, inq, out_endpoint, in_endpoint, bulk, acked, to_in, out_phase>>
  BY DEF ArriveIn, queues, endpoints
<1>3. Append(to_out[r], Control("PORT_CONNECT")) = <<Control("PORT_CONNECT")>>
  BY <1>1, ControlAlone DEF InGone
<1>4. Detached(r)'
  BY <1>1, <1>2 DEF Detached, InGone
<1>5. InArrives(r)'
  BY <1>1, <1>2, <1>3, <1>4, ConnectionType DEF InGone, InArrives
<1>6. \A s \in Readers \ {r} : SameConnection(s)
  BY <1>2, ConnectionType DEF SameConnection
<1> QED
  BY <1>2, <1>5, <1>6, OthersKept DEF Stage

(* A connection that is set up anew begins without tokens and replies.     *)
LEMMA NewFlow ==
  ASSUME TypeOK, NEW r \in Readers, Detached(r), to_out'[r] = <<>>,
         UNCHANGED <<outq, inq, acked>>
  PROVE  Flow(r, <<>>)'
<1>1. /\ outq.read_pos[r] \in Nat /\ inq[r].write_pos \in Nat
      /\ outq.tentative_read_pos[r] = outq.read_pos[r] /\ acked[r] = {}
  BY Numbers DEF NumbersOK, Detached
<1>2. /\ Streams(<<>>, <<>>, outq.read_pos[r], outq.read_pos[r], inq[r].write_pos)
      /\ Stale(<<>>, <<>>, outq.read_pos[r], outq.read_pos[r]) = 0
  BY <1>1, NothingStreams
<1> QED
  BY <1>1, <1>2 DEF Flow

(* The outport's runtime attaches, for a reader that has arrived.          *)
LEMMA ConnectRequestOutStages ==
  ASSUME TypeOK, Stages, NEW r \in Readers, ConnectRequestOut(r)
  PROVE  Stages'
<1>1. InArrives(r) /\ Tail(to_out[r]) = <<>>
  BY FirstOut DEF Stages, ConnectRequestOut, IsNext
<1>2. /\ out_endpoint' = [out_endpoint EXCEPT ![r] = TRUE]
      /\ to_out' = [to_out EXCEPT ![r] = Tail(@)]
      /\ to_in' = [to_in EXCEPT ![r] = Append(@, Control("PORT_CONNECT_REPLY"))]
      /\ UNCHANGED <<outq, inq, bulk, acked, in_endpoint, out_phase, in_phase, pending>>
  BY DEF ConnectRequestOut, AttachOut, phases
<1>3. /\ to_in'[r] = <<Control("PORT_CONNECT_REPLY")>> /\ to_out'[r] = <<>>
      /\ out_endpoint'[r]
  <2>1. Append(to_in[r], Control("PORT_CONNECT_REPLY")) = <<Control("PORT_CONNECT_REPLY")>>
    BY <1>1, ControlAlone DEF InArrives
  <2> QED
    BY <1>1, <1>2, <2>1, ConnectionType
<1>4. StartsWith(to_in'[r], "PORT_CONNECT_REPLY") /\ Tail(to_in'[r]) = <<>>
  BY <1>3, OnlyControl
<1>5. Flow(r, <<>>)'
  BY <1>1, <1>2, <1>3, NewFlow DEF InArrives
<1>6. InMayStay(r)'
  BY <1>1, <1>2, <1>3, <1>4, <1>5 DEF InArrives, InMayStay
<1>7. \A s \in Readers \ {r} : SameConnection(s)
  BY <1>2, ConnectionType DEF SameConnection
<1> QED
  BY <1>2, <1>6, <1>7, OthersKept DEF Stage

(* The reader's runtime attaches, as the outport has arrived.              *)
LEMMA ConnectRequestInStages ==
  ASSUME TypeOK, Stages, NEW r \in Readers, ConnectRequestIn(r)
  PROVE  Stages'
<1>1. OutArrives(r) /\ Tail(to_in[r]) = <<>>
  BY FirstIn DEF Stages, ConnectRequestIn, IsNext
<1>2. /\ in_endpoint' = [in_endpoint EXCEPT ![r] = TRUE]
      /\ to_in' = [to_in EXCEPT ![r] = Tail(@)]
      /\ to_out' = [to_out EXCEPT ![r] = Append(@, Control("PORT_CONNECT_REPLY"))]
      /\ UNCHANGED <<outq, inq, out_endpoint, bulk, acked, out_phase, in_phase, pending>>
  BY DEF ConnectRequestIn, phases, queues
<1>3. Append(to_out[r], Control("PORT_CONNECT_REPLY")) = <<Control("PORT_CONNECT_REPLY")>>
  BY <1>1, ControlAlone DEF OutArrives
<1>4. Detached(r)'
  BY <1>1, <1>2 DEF Detached, OutArrives
<1>5. OutMayStay(r)'
  BY <1>1, <1>2, <1>3, <1>4, ConnectionType DEF OutArrives, OutMayStay
<1>6. \A s \in Readers \ {r} : SameConnection(s)
  BY <1>2, ConnectionType DEF SameConnection
<1> QED
  BY <1>2, <1>5, <1>6, OthersKept DEF Stage

(* The reader learns that the outport has attached.                        *)
LEMMA ConnectReplyInStages ==
  ASSUME TypeOK, Stages, NEW r \in Readers, ConnectReplyIn(r)
  PROVE  Stages'
<1>1. InMayStay(r)
  BY FirstIn DEF Stages, ConnectReplyIn, IsNext
<1>2. /\ in_endpoint' = [in_endpoint EXCEPT ![r] = TRUE]
      /\ in_phase' = [in_phase EXCEPT ![r] = "stay"]
      /\ to_in' = [to_in EXCEPT ![r] = Tail(@)]
      /\ pending' = pending \ {r}
      /\ UNCHANGED <<outq, inq, out_endpoint, bulk, acked, to_out, out_phase>>
  BY DEF ConnectReplyIn, queues
<1>3. /\ to_in'[r] = Tail(to_in[r]) /\ to_out'[r] = <<>>
      /\ in_endpoint'[r] /\ in_phase'[r] = "stay"
  BY <1>1, <1>2, ConnectionType DEF InMayStay
<1>4. NoControl(to_in'[r]) /\ NoControl(to_out'[r])
  BY <1>1, <1>3, EmptyHasNoControl DEF InMayStay, StartsWith
<1>5. Flow(r, to_in[r])'
  BY <1>1, <1>2, <1>3 DEF Flow, InMayStay
<1>6. Connected(r)'
  BY <1>1, <1>2, <1>3, <1>4, <1>5 DEF InMayStay, Connected
<1>7. \A s \in Readers \ {r} : SameConnection(s)
  BY <1>2, ConnectionType DEF SameConnection
<1> QED
  BY <1>2, <1>6, <1>7, OthersKept DEF Stage

(* The outport learns that a reader has attached; with the last one it     *)
(* stays, and the others are connected already.                            *)
LEMMA ConnectReplyOutStages ==
  ASSUME TypeOK, Stages, NEW r \in Readers, ConnectReplyOut(r)
  PROVE  Stages'
<1>1. OutMayStay(r) /\ Tail(to_out[r]) = <<>>
  BY FirstOut DEF Stages, ConnectReplyOut, IsNext
<1>2. /\ out_endpoint' = [out_endpoint EXCEPT ![r] = TRUE]
      /\ to_out' = [to_out EXCEPT ![r] = Tail(@)]
      /\ pending' = pending \ {r}
      /\ out_phase' = IF pending' = {} THEN "stay" ELSE out_phase
      /\ UNCHANGED <<outq, inq, bulk, acked, in_endpoint, to_in, in_phase>>
  BY DEF ConnectReplyOut, AttachOut
<1>3. /\ to_in'[r] = <<>> /\ to_out'[r] = <<>> /\ out_endpoint'[r] /\ in_endpoint'[r]
      /\ out_phase = "arriving" /\ in_phase'[r] = "stay" /\ r \notin pending'
  BY <1>1, <1>2, ConnectionType DEF OutMayStay
<1>4. NoControl(to_in'[r]) /\ NoControl(to_out'[r])
  BY <1>3, EmptyHasNoControl
<1>5. Flow(r, to_in[r])'
  <2>1. Flow(r, <<>>)'
    BY <1>1, <1>2, <1>3, NewFlow DEF OutMayStay
  <2> QED
    BY <1>3, <2>1 DEF Flow
<1>6. out_phase' \in {"stay", "arriving"}
  BY <1>2, <1>3
<1>7. Connected(r)'
  BY <1>3, <1>4, <1>5, <1>6 DEF Connected
<1>8. ASSUME NEW s \in Readers, s # r PROVE Stage(s)'
  <2>1. SameConnection(s)
    BY <1>2, <1>8, ConnectionType DEF SameConnection
  <2>2. Stage(s)
    BY DEF Stages
  <2>3. CASE out_phase' = out_phase
    BY <2>1, <2>2, <2>3, StageKept
  <2>4. CASE pending' = {}
    <3>1. s \notin pending
      BY <1>2, <1>8, <2>4
    <3>2. Connected(s)
      BY <1>3, <2>2, <3>1 DEF Stage, InLeaves, InMayGo, InGone, InArrives, InMayStay,
         OutLeaves, OutMayGo, OutGone, OutArrives, OutMayStay
    <3>3. out_phase' = "stay"
      BY <1>2, <2>4
    <3> QED
      BY <2>1, <2>2, <3>2, <3>3, StageKept
  <2> QED
    BY <1>2, <2>3, <2>4
<1> QED
  BY <1>7, <1>8 DEF Stages, Stage

(* The outport begins to leave: all its connections do.                    *)
LEMMA LeaveOutStages ==
  ASSUME TypeOK, Stages, LeaveOut
  PROVE  Stages'
<1> SUFFICES ASSUME NEW r \in Readers PROVE OutLeaves(r)'
  BY DEF Stages, Stage
<1>1. /\ out_phase = "stay" /\ in_phase[r] = "stay" /\ Stage(r)
      /\ out_phase' = "leaving" /\ DetachOut(Readers) /\ pending' = Readers
      /\ to_in' = [s \in Readers |-> Append(to_in[s], Control("PORT_DISCONNECT"))]
      /\ UNCHANGED <<in_endpoint, to_out, in_phase>>
  BY DEF LeaveOut, Stages
<1>2. Connected(r)
  BY <1>1 DEF Stage, InLeaves, InMayGo, InGone, InArrives, InMayStay, OutLeaves,
              OutMayGo, OutGone, OutArrives, OutMayStay
<1>3. /\ outq'.read_pos = outq.read_pos
      /\ \A s \in Readers : outq'.tentative_read_pos[s] =
           IF s \in Readers THEN outq.read_pos[s] ELSE outq.tentative_read_pos[s]
  BY <1>1, DetachOutProperty
<1>4. /\ out_endpoint' = [s \in Readers |-> out_endpoint[s] /\ s \notin Readers]
      /\ acked' = [s \in Readers |-> IF s \in Readers THEN {} ELSE acked[s]]
  BY <1>1 DEF DetachOut
<1>5. EndsWith(to_in'[r], "PORT_DISCONNECT")
  <2>1. /\ to_in[r] \in Seq(InMessage) /\ Control("PORT_DISCONNECT") \in InMessage
        /\ NoControl(to_in[r])
    BY <1>2, ConnectionType DEF Commands, Connected
  <2>2. EndsWith(Append(to_in[r], Control("PORT_DISCONNECT")), "PORT_DISCONNECT")
    BY <2>1, ControlEnds
  <2> QED
    BY <1>1, <2>2
<1>6. Detached(r)'
  BY <1>3, <1>4 DEF Detached
<1> QED
  BY <1>1, <1>2, <1>5, <1>6 DEF Connected, OutLeaves

(* The outport has arrived, and asks all readers to connect.               *)
LEMMA ArriveOutStages ==
  ASSUME TypeOK, Stages, ArriveOut
  PROVE  Stages'
<1> SUFFICES ASSUME NEW r \in Readers PROVE OutArrives(r)'
  BY DEF Stages, Stage
<1>1. /\ out_phase = "leaving" /\ pending = {} /\ Stage(r)
      /\ out_phase' = "arriving" /\ pending' = Readers
      /\ to_in' = [s \in Readers |-> Append(to_in[s], Control("PORT_CONNECT"))]
      /\ UNCHANGED <<outq, out_endpoint, in_endpoint, acked, to_out, in_phase>>
  BY DEF ArriveOut, Stages, queues, endpoints
<1>2. OutGone(r)
  BY <1>1 DEF Stage, Connected, InLeaves, InMayGo, InGone, InArrives, InMayStay, OutLeaves,
              OutMayGo, OutArrives, OutMayStay
<1>3. Append(to_in[r], Control("PORT_CONNECT")) = <<Control("PORT_CONNECT")>>
  BY <1>2, ControlAlone DEF OutGone
<1>4. Detached(r)'
  BY <1>1, <1>2 DEF Detached, OutGone
<1> QED
  BY <1>1, <1>2, <1>3, <1>4 DEF OutGone, OutArrives

-----------------------------------------------------------------------------
(* The tokens and their replies.                                           *)

LEMMA SendCountCases ==
  ASSUME TypeOK, NEW r \in Readers, SendCount(r) > 0, ~bulk[r]
  PROVE  SendCount(r) = 1 /\ outq.tentative_read_pos[r] = outq.read_pos[r]
BY DEF SendCount, com_is_committed

LEMMA OutgoingOrder ==
  ASSUME TypeOK, NEW r \in Readers, NEW n \in Nat
  PROVE  /\ Len(Outgoing(r, n)) = n
         /\ \A k \in 1 .. n :
              /\ Outgoing(r, n)[k].seq = outq.tentative_read_pos[r] + k - 1
              /\ Outgoing(r, n)[k].cmd = "TOKEN"
<1>1. outq.reader_offset[r] = 0 /\ outq.tentative_read_pos[r] \in Nat
  BY Numbers DEF NumbersOK
<1>2. DOMAIN Outgoing(r, n) = 1 .. n
  BY DEF Outgoing
<1>3. Len(Outgoing(r, n)) = n
  BY <1>2, Outgoing(r, n) = [k \in 1 .. n |-> Outgoing(r, n)[k]] DEF Outgoing
<1>4. ASSUME NEW k \in 1 .. n
      PROVE  /\ Outgoing(r, n)[k].seq = outq.tentative_read_pos[r] + k - 1
             /\ Outgoing(r, n)[k].cmd = "TOKEN"
  BY <1>1 DEF Outgoing, TokenMessage
<1> QED
  BY <1>3, <1>4

LEMMA CommunicateStages ==
  ASSUME TypeOK, Stages, NEW r \in Readers, Communicate(r)
  PROVE  Stages'
<1> DEFINE n == SendCount(r)
           d == Outgoing(r, n)
           read == outq.read_pos[r]
           tent == outq.tentative_read_pos[r]
           stored == inq[r].write_pos
<1>1. /\ out_endpoint[r] /\ n > 0
      /\ to_in' = [to_in EXCEPT ![r] = @ \o d]
      /\ outq' = set_tentative(outq, r, tent + n)
      /\ UNCHANGED <<inq, out_endpoint, in_endpoint, bulk, acked, to_out,
                     out_phase, in_phase, pending>>
  BY DEF Communicate, endpoints, phases
<1>2. Connected(r) \/ InLeaves(r) \/ InMayStay(r)
  BY <1>1 DEF Stages, Stage, InMayGo, InGone, InArrives, OutLeaves, OutMayGo, OutGone,
              OutArrives, OutMayStay, Detached
<1>3. /\ n \in Nat /\ d \in Seq(InMessage) /\ Len(d) = n
      /\ \A k \in 1 .. Len(d) : d[k].seq = tent + k - 1
      /\ NoControl(d)
  <2>1. n \in Nat /\ d \in Seq(InMessage)
    BY <1>1, OutgoingProperty
  <2>2. /\ Len(d) = n
        /\ \A k \in 1 .. n : d[k].seq = tent + k - 1 /\ d[k].cmd = "TOKEN"
    BY <2>1, OutgoingOrder
  <2> HIDE DEF n, d, tent
  <2> QED
    BY <2>1, <2>2 DEF NoControl, Commands
<1>4. /\ outq \in Queue(OutLength, Readers, Token)
      /\ read \in Nat /\ tent \in Nat /\ stored \in Nat
      /\ to_in[r] \in Seq(InMessage) /\ to_out[r] \in Seq(OutMessage)
  BY Numbers, ConnectionType DEF NumbersOK
<1>5. ~bulk[r] => n = 1 /\ tent = read
  BY <1>1, SendCountCases
<1> HIDE DEF n, d, read, tent, stored
<1>6. /\ outq'.read_pos = outq.read_pos
      /\ \A s \in Readers : outq'.tentative_read_pos[s] =
           IF s = r THEN tent + n ELSE outq.tentative_read_pos[s]
  <2>1. tent + n \in Nat
    BY <1>3, <1>4
  <2> QED
    BY <1>1, <1>4, <2>1, SetTentative
<1>7. to_in'[r] = to_in[r] \o d
  BY <1>1, ConnectionType
(* The tokens follow those before them, in all stages but one.             *)
<1>8. ASSUME NEW i \in Seq(InMessage), Flow(r, i)
      PROVE  /\ acked'[r] = {}
             /\ Streams(to_out'[r], i \o d, outq'.read_pos[r],
                        outq'.tentative_read_pos[r], inq'[r].write_pos)
             /\ Stale(to_out'[r], i \o d, outq'.read_pos[r],
                      outq'.tentative_read_pos[r]) > 0 => ~bulk'[r]
  <2> DEFINE o == to_out[r]
  <2>1. /\ acked[r] = {} /\ Streams(o, i, read, tent, stored)
        /\ Stale(o, i, read, tent) > 0 => ~bulk[r]
    BY <1>8 DEF Flow, read, tent, stored
  <2>2. /\ outq'.read_pos[r] = read /\ outq'.tentative_read_pos[r] = tent + Len(d)
        /\ inq'[r].write_pos = stored
        /\ to_out'[r] = o /\ acked'[r] = acked[r] /\ bulk'[r] = bulk[r]
    BY <1>1, <1>3, <1>6 DEF read, stored
  <2>3. /\ o \in Seq(OutMessage) /\ i \in Seq(InMessage) /\ d \in Seq(InMessage)
        /\ read \in Nat /\ tent \in Nat /\ stored \in Nat
        /\ \A k \in 1 .. Len(d) : d[k].seq = tent + k - 1
        /\ Stale(o, i, read, tent) > 0 => Len(d) <= 1 /\ tent = read
    BY <1>3, <1>4, <1>5, <2>1
  <2> HIDE DEF o
  <2>4. /\ Streams(o, i \o d, read, tent + Len(d), stored)
        /\ Stale(o, i \o d, read, tent + Len(d)) = Stale(o, i, read, tent)
    BY <2>1, <2>3, TokensSent
  <2> QED
    BY <2>1, <2>2, <2>4
<1>9. Stage(r)'
  <2>1. CASE Connected(r)
    <3>1. NoControl(to_in[r] \o d)
      BY <1>3, <1>4, <2>1, NoControlConcat DEF Connected
    <3>2. Flow(r, to_in[r])
      BY <2>1 DEF Connected
    <3>3. Flow(r, to_in[r])'
      BY <1>4, <1>7, <1>8, <3>2 DEF Flow
    <3>4. Connected(r)'
      BY <1>1, <1>7, <2>1, <3>1, <3>3 DEF Connected
    <3> QED
      BY <3>4 DEF Stage
  <2>2. CASE InLeaves(r)
    <3>1. NoControl(to_in[r] \o d)
      BY <1>3, <1>4, <2>2, NoControlConcat DEF InLeaves
    <3>2. InLeaves(r)'
      BY <1>1, <1>7, <2>2, <3>1 DEF InLeaves
    <3> QED
      BY <3>2 DEF Stage
  <2>3. CASE InMayStay(r)
    <3>1. /\ StartsWith(to_in[r] \o d, "PORT_CONNECT_REPLY")
          /\ Tail(to_in[r] \o d) = Tail(to_in[r]) \o d
      BY <1>3, <1>4, <2>3, StartsWithConcat DEF InMayStay
    <3>2. Tail(to_in[r]) \in Seq(InMessage)
      BY <1>4, <2>3, HeadTailProperties DEF InMayStay, StartsWith
    <3>3. Flow(r, Tail(to_in[r]))
      BY <2>3 DEF InMayStay
    <3>4. Flow(r, Tail(to_in[r]))'
      BY <1>7, <1>8, <3>1, <3>2, <3>3 DEF Flow
    <3>5. InMayStay(r)'
      BY <1>1, <1>7, <2>3, <3>1, <3>4 DEF InMayStay
    <3> QED
      BY <3>5 DEF Stage
  <2> QED
    BY <1>2, <2>1, <2>2, <2>3
<1>10. ASSUME NEW s \in Readers \ {r} PROVE SameConnection(s)
  <2>1. to_in'[s] = to_in[s]
    BY <1>1, ConnectionType
  <2> QED
    BY <1>1, <1>6, <2>1 DEF SameConnection
<1> QED
  BY <1>1, <1>9, <1>10, OthersKept

(* What the reader's answer says of the token, and what it then has.       *)
LEMMA AnswerCases ==
  ASSUME TypeOK, NEW r \in Readers, IsNext(to_in[r], "TOKEN"), NEW q,
         LET m == Head(to_in[r])
             resp == com_write_response(inq[r], m.seq)
         IN  q = IF resp = "handled" THEN [inq EXCEPT ![r] = write(@, m.token)] ELSE inq
  PROVE  LET m == Head(to_in[r])
             resp == com_write_response(inq[r], m.seq)
             value == IF resp \in {"handled", "unhandled"} THEN "ACK" ELSE "NACK"
             stored == inq[r].write_pos
             after == q[r].write_pos
         IN  /\ m.seq \in Nat /\ stored \in Nat /\ after \in Nat
             /\ TokenReply(m.seq, value) \in OutMessage
             /\ Answers(value, m.seq, stored, after)
             /\ \A s \in Readers \ {r} : q[s] = inq[s]
<1> DEFINE m == Head(to_in[r])
           resp == com_write_response(inq[r], m.seq)
           value == IF resp \in {"handled", "unhandled"} THEN "ACK" ELSE "NACK"
           stored == inq[r].write_pos
           after == q[r].write_pos
<1>1. m \in InMessage /\ m.cmd = "TOKEN"
  BY RangeTail DEF IsNext, TypeOK
<1>2. m.seq \in Nat /\ m.token \in Token
  BY <1>1 DEF InMessage, Commands
<1>3. inq[r] \in Queue(InLength, {r}, Token) /\ stored \in Nat /\ InLength \in Nat
  BY Numbers DEF NumbersOK
<1>4. write(inq[r], m.token).write_pos = stored + 1
  BY <1>3 DEF write, Queue
<1>5. inq = [s \in Readers |-> inq[s]]
  BY DEF TypeOK
<1>6. /\ resp = "handled" => m.seq = stored
      /\ resp = "unhandled" => m.seq < stored
      /\ resp \notin {"handled", "unhandled"} => m.seq >= stored
  BY <1>2, <1>3 DEF com_write_response
<1>7. /\ resp = "handled" => q[r] = write(inq[r], m.token)
      /\ resp # "handled" => q[r] = inq[r]
      /\ \A s \in Readers \ {r} : q[s] = inq[s]
  BY <1>5
<1>8. TokenReply(m.seq, value) \in OutMessage
  BY <1>2 DEF TokenReply, OutMessage
<1> HIDE DEF m, resp
<1> QED
  BY <1>2, <1>3, <1>4, <1>6, <1>7, <1>8 DEF m, resp, Answers

LEMMA ReceiveTokenStages ==
  ASSUME TypeOK, Stages, NEW r \in Readers, ReceiveToken(r)
  PROVE  Stages'
<1> DEFINE m == Head(to_in[r])
           resp == com_write_response(inq[r], m.seq)
           value == IF resp \in {"handled", "unhandled"} THEN "ACK" ELSE "NACK"
           e == TokenReply(m.seq, value)
           read == outq.read_pos[r]
           tent == outq.tentative_read_pos[r]
           stored == inq[r].write_pos
           after == inq'[r].write_pos
<1>1. /\ IsNext(to_in[r], "TOKEN") /\ to_in[r] # <<>> /\ m.cmd = "TOKEN"
      /\ to_in' = [to_in EXCEPT ![r] = Tail(@)]
      /\ UNCHANGED <<outq, out_endpoint, in_endpoint, bulk, acked, out_phase, in_phase, pending>>
  BY DEF ReceiveToken, IsNext, endpoints, phases
<1>2. \/ ~in_endpoint[r] /\ UNCHANGED <<inq, to_out>>
      \/ /\ in_endpoint[r]
         /\ inq' = IF resp = "handled" THEN [inq EXCEPT ![r] = write(@, m.token)] ELSE inq
         /\ to_out' = [to_out EXCEPT ![r] = Append(@, e)]
  BY DEF ReceiveToken
<1>3. Connected(r) \/ InLeaves(r) \/ InMayGo(r) \/ OutLeaves(r)
  BY <1>1, FirstIn DEF Stages
<1>4. /\ to_in[r] \in Seq(InMessage) /\ to_out[r] \in Seq(OutMessage)
      /\ read \in Nat /\ tent \in Nat /\ stored \in Nat
      /\ to_in'[r] = Tail(to_in[r])
  BY <1>1, Numbers, ConnectionType DEF NumbersOK
<1>5. ASSUME in_endpoint[r]
      PROVE  /\ m.seq \in Nat /\ after \in Nat /\ e \in OutMessage
             /\ e.seq = m.seq /\ e.value = value /\ e.cmd \notin Commands
             /\ Answers(value, m.seq, stored, after)
             /\ \A s \in Readers \ {r} : inq'[s] = inq[s]
             /\ to_out'[r] = Append(to_out[r], e)
  <2>1. /\ inq' = IF resp = "handled" THEN [inq EXCEPT ![r] = write(@, m.token)] ELSE inq
        /\ to_out' = [to_out EXCEPT ![r] = Append(@, e)]
    BY <1>2, <1>5
  <2>2. to_out'[r] = Append(to_out[r], e)
    BY <2>1, ConnectionType
  <2>3. e.seq = m.seq /\ e.value = value /\ e.cmd \notin Commands
    BY DEF TokenReply, Commands
  <2>4. /\ m.seq \in Nat /\ after \in Nat /\ e \in OutMessage
        /\ Answers(value, m.seq, stored, after)
        /\ \A s \in Readers \ {r} : inq'[s] = inq[s]
    BY <1>1, <2>1, AnswerCases
  <2> QED
    BY <2>2, <2>3, <2>4
<1> HIDE DEF m, resp, value, e, read, tent, stored, after
<1>6. Stage(r)'
  <2>1. CASE Connected(r)
    <3>1. /\ in_endpoint[r] /\ Flow(r, to_in[r])
          /\ NoControl(to_in[r]) /\ NoControl(to_out[r])
      BY <2>1 DEF Connected
    <3>2. /\ acked[r] = {} /\ Streams(to_out[r], to_in[r], read, tent, stored)
          /\ Stale(to_out[r], to_in[r], read, tent) > 0 => ~bulk[r]
      BY <3>1 DEF Flow, read, tent, stored
    <3>3. /\ Streams(Append(to_out[r], e), Tail(to_in[r]), read, tent, after)
          /\ Stale(Append(to_out[r], e), Tail(to_in[r]), read, tent)
               = Stale(to_out[r], to_in[r], read, tent)
      <4> DEFINE o == to_out[r]
                 i == to_in[r]
                 x == Head(i).seq
      <4>1. /\ o \in Seq(OutMessage) /\ i \in Seq(InMessage) /\ i # <<>>
            /\ read \in Nat /\ tent \in Nat /\ stored \in Nat /\ after \in Nat
            /\ Streams(o, i, read, tent, stored)
            /\ x \in Nat /\ x = Head(i).seq /\ Answers(value, x, stored, after)
            /\ e \in OutMessage /\ e.seq = x /\ e.value = value
        BY <1>1, <1>4, <1>5, <3>1, <3>2 DEF m
      <4> HIDE DEF o, i, x
      <4>2. PICK n : n = after
        OBVIOUS
      <4>3. /\ o \in Seq(OutMessage) /\ i \in Seq(InMessage) /\ i # <<>>
            /\ read \in Nat /\ tent \in Nat /\ stored \in Nat /\ n \in Nat
            /\ Streams(o, i, read, tent, stored)
            /\ x \in Nat /\ x = Head(i).seq /\ Answers(value, x, stored, n)
            /\ e \in OutMessage /\ e.seq = x /\ e.value = value
        BY <4>1, <4>2
      <4>4. /\ Streams(Append(o, e), Tail(i), read, tent, n)
            /\ Stale(Append(o, e), Tail(i), read, tent) = Stale(o, i, read, tent)
        BY <4>3, TokenAnswered
      <4> QED
        BY <4>2, <4>4 DEF o, i
    <3>4. NoControl(Append(to_out[r], e)) /\ NoControl(Tail(to_in[r]))
      BY <1>1, <1>4, <1>5, <3>1, NoControlAppend, NoControlTail
    <3>5. Flow(r, to_in[r])'
      BY <1>1, <1>4, <1>5, <3>1, <3>2, <3>3 DEF Flow, read, tent, after
    <3>6. Connected(r)'
      BY <1>1, <1>4, <1>5, <2>1, <3>1, <3>4, <3>5 DEF Connected
    <3> QED
      BY <3>6 DEF Stage
  <2>2. CASE InLeaves(r)
    <3>1. UNCHANGED to_out /\ NoControl(Tail(to_in[r]))
      BY <1>1, <1>2, <1>4, <2>2, NoControlTail DEF InLeaves
    <3>2. InLeaves(r)'
      BY <1>1, <1>4, <2>2, <3>1 DEF InLeaves
    <3> QED
      BY <3>2 DEF Stage
  <2>3. CASE InMayGo(r)
    <3>1. UNCHANGED to_out /\ EndsWith(Tail(to_in[r]), "PORT_DISCONNECT_REPLY")
      <4>1. /\ EndsWith(to_in[r], "PORT_DISCONNECT_REPLY") /\ "PORT_DISCONNECT_REPLY" \in Commands
            /\ Head(to_in[r]).cmd \notin Commands
        BY <1>1, <2>3 DEF InMayGo, Commands, m
      <4>2. EndsWith(Tail(to_in[r]), "PORT_DISCONNECT_REPLY")
        BY <1>4, <4>1, EndsWithTail
      <4> QED
        BY <1>2, <2>3, <4>2 DEF InMayGo
    <3>2. Detached(r)'
      BY <1>1, <2>3 DEF InMayGo, Detached
    <3>3. InMayGo(r)'
      BY <1>1, <1>4, <2>3, <3>1, <3>2 DEF InMayGo
    <3> QED
      BY <3>3 DEF Stage
  <2>4. CASE OutLeaves(r)
    <3>1. in_endpoint[r] /\ NoControl(to_out[r])
      BY <2>4 DEF OutLeaves
    <3>2. NoControl(Append(to_out[r], e))
      BY <1>4, <1>5, <3>1, NoControlAppend
    <3>3. EndsWith(Tail(to_in[r]), "PORT_DISCONNECT")
      <4>1. /\ EndsWith(to_in[r], "PORT_DISCONNECT") /\ "PORT_DISCONNECT" \in Commands
            /\ Head(to_in[r]).cmd \notin Commands
        BY <1>1, <2>4 DEF OutLeaves, Commands, m
      <4> QED
        BY <1>4, <4>1, EndsWithTail
    <3>4. Detached(r)'
      BY <1>1, <2>4 DEF OutLeaves, Detached
    <3>5. OutLeaves(r)'
      BY <1>1, <1>4, <1>5, <2>4, <3>1, <3>2, <3>3, <3>4 DEF OutLeaves
    <3> QED
      BY <3>5 DEF Stage
  <2> QED
    BY <1>3, <2>1, <2>2, <2>3, <2>4
<1>7. ASSUME NEW s \in Readers \ {r} PROVE SameConnection(s)
  <2>1. to_in'[s] = to_in[s] /\ to_out'[s] = to_out[s]
    BY <1>1, <1>2, ConnectionType
  <2>2. inq'[s] = inq[s]
    BY <1>2, <1>5
  <2> QED
    BY <1>1, <2>1, <2>2 DEF SameConnection
<1> QED
  BY <1>1, <1>6, <1>7, OthersKept

(* What a reply does to the outport's queue, for the other readers.        *)
LEMMA ReplyLeavesOthers ==
  ASSUME TypeOK, NEW r \in Readers,
         \/ outq' = outq
         \/ \E p \in Nat : outq' = set_committed(outq, r, p)
         \/ \E p \in Nat : outq' = set_tentative(outq, r, p)
  PROVE  \A s \in Readers \ {r} :
           /\ outq'.read_pos[s] = outq.read_pos[s]
           /\ outq'.tentative_read_pos[s] = outq.tentative_read_pos[s]
<1>1. outq \in Queue(OutLength, Readers, Token)
  BY DEF TypeOK
<1>2. CASE \E p \in Nat : outq' = set_committed(outq, r, p)
  BY <1>1, <1>2, SetCommitted
<1>3. CASE \E p \in Nat : outq' = set_tentative(outq, r, p)
  BY <1>1, <1>3, SetTentative
<1> QED
  BY <1>2, <1>3

LEMMA AckEffect ==
  ASSUME TypeOK, NEW r \in Readers, ReceiveAck(r)
  PROVE  LET seq == Head(to_out[r]).seq IN
         /\ IsNext(to_out[r], "TOKEN_REPLY") /\ Head(to_out[r]).value = "ACK"
         /\ seq \in Nat
         /\ to_out' = [to_out EXCEPT ![r] = Tail(@)]
         /\ UNCHANGED <<inq, out_endpoint, in_endpoint, to_in, out_phase, in_phase, pending>>
         /\ ~out_endpoint[r] => UNCHANGED <<outq, bulk, acked>>
         /\ \A s \in Readers \ {r} :
              /\ outq'.read_pos[s] = outq.read_pos[s]
              /\ outq'.tentative_read_pos[s] = outq.tentative_read_pos[s]
              /\ bulk'[s] = bulk[s] /\ acked'[s] = acked[s] /\ to_out'[s] = to_out[s]
         /\ out_endpoint[r] /\ seq = outq.read_pos[r] /\ seq < outq.tentative_read_pos[r] =>
              /\ outq'.read_pos[r] = outq.read_pos[r] + 1
              /\ outq'.tentative_read_pos[r] = outq.tentative_read_pos[r]
              /\ acked'[r] = acked[r]
<1> DEFINE seq == Head(to_out[r]).seq
           resp == com_commit_response(outq, r, seq)
           seqs == acked[r] \cup {seq}
<1>1. /\ IsNext(to_out[r], "TOKEN_REPLY") /\ Head(to_out[r]).value = "ACK"
      /\ to_out' = [to_out EXCEPT ![r] = Tail(@)]
      /\ UNCHANGED <<inq, out_endpoint, in_endpoint, to_in, out_phase, in_phase, pending>>
  BY DEF ReceiveAck, phases
<1>2. seq \in Nat
  <2>1. Head(to_out[r]) \in OutMessage /\ Head(to_out[r]).cmd = "TOKEN_REPLY"
    BY <1>1, RangeTail DEF IsNext, TypeOK
  <2> QED
    BY <2>1 DEF OutMessage, Commands
<1>3. \/ ~out_endpoint[r] /\ UNCHANGED <<outq, bulk, acked>>
      \/ /\ out_endpoint[r]
         /\ bulk' = [bulk EXCEPT ![r] = TRUE]
         /\ \/ /\ resp \in {"handled", "invalid"}
               /\ outq' = com_commit(outq, r, seq)
               /\ UNCHANGED acked
            \/ /\ resp \in {"unhandled", "none"}
               /\ outq' = Drained(outq, r, seqs)
               /\ acked' = [acked EXCEPT ![r] = Kept(outq, r, seqs)]
  BY DEF ReceiveAck
<1>4. /\ outq \in Queue(OutLength, Readers, Token) /\ outq.reader_offset[r] = 0
      /\ outq.read_pos[r] \in Nat /\ outq.tentative_read_pos[r] \in Nat
  BY Numbers DEF NumbersOK
<1>5. outq' = outq \/ \E p \in Nat : outq' = set_committed(outq, r, p)
  <2>1. FirstUnacked(outq, r, seqs) \in Nat
    BY <1>4, FirstUnackedProperty
  <2>2. com_commit(outq, r, seq) \in {outq, set_committed(outq, r, outq.read_pos[r] + 1)}
    BY DEF com_commit
  <2>3. Drained(outq, r, seqs) = set_committed(outq, r, FirstUnacked(outq, r, seqs))
    BY DEF Drained
  <2>4. outq.read_pos[r] + 1 \in Nat
    BY <1>4
  <2> HIDE DEF seq, seqs, resp
  <2> QED
    BY <1>3, <2>1, <2>2, <2>3, <2>4
<1>6. ASSUME NEW s \in Readers \ {r}
      PROVE  /\ outq'.read_pos[s] = outq.read_pos[s]
             /\ outq'.tentative_read_pos[s] = outq.tentative_read_pos[s]
             /\ bulk'[s] = bulk[s] /\ acked'[s] = acked[s] /\ to_out'[s] = to_out[s]
  <2>1. /\ outq'.read_pos[s] = outq.read_pos[s]
        /\ outq'.tentative_read_pos[s] = outq.tentative_read_pos[s]
    BY <1>5, ReplyLeavesOthers
  <2>2. bulk'[s] = bulk[s]
    BY <1>3, ConnectionType
  <2>3. acked'[s] = acked[s]
    <3> HIDE DEF seq, seqs, resp
    <3> QED
      BY <1>3, ConnectionType
  <2>4. to_out'[s] = to_out[s]
    BY <1>1, ConnectionType
  <2> QED
    BY <2>1, <2>2, <2>3, <2>4
<1>7. ASSUME out_endpoint[r], seq = outq.read_pos[r], seq < outq.tentative_read_pos[r]
      PROVE  /\ outq'.read_pos[r] = outq.read_pos[r] + 1
             /\ outq'.tentative_read_pos[r] = outq.tentative_read_pos[r]
             /\ acked'[r] = acked[r]
  <2>1. resp = "handled"
    BY <1>2, <1>4, <1>7 DEF com_commit_response
  <2>2. outq' = com_commit(outq, r, seq) /\ acked' = acked
    BY <1>3, <1>7, <2>1
  <2>3. outq' = set_committed(outq, r, outq.read_pos[r] + 1)
    BY <2>1, <2>2 DEF com_commit
  <2>4. outq.read_pos[r] + 1 \in Nat
    BY <1>4
  <2> QED
    BY <1>4, <2>2, <2>3, <2>4, SetCommitted
<1> QED
  BY <1>1, <1>2, <1>3, <1>6, <1>7

LEMMA NackEffect ==
  ASSUME TypeOK, NEW r \in Readers, ReceiveNack(r)
  PROVE  LET seq == Head(to_out[r]).seq IN
         /\ IsNext(to_out[r], "TOKEN_REPLY") /\ Head(to_out[r]).value = "NACK"
         /\ seq \in Nat
         /\ to_out' = [to_out EXCEPT ![r] = Tail(@)]
         /\ UNCHANGED <<inq, out_endpoint, in_endpoint, to_in, out_phase, in_phase, pending>>
         /\ ~out_endpoint[r] => UNCHANGED <<outq, bulk, acked>>
         /\ \A s \in Readers \ {r} :
              /\ outq'.read_pos[s] = outq.read_pos[s]
              /\ outq'.tentative_read_pos[s] = outq.tentative_read_pos[s]
              /\ bulk'[s] = bulk[s] /\ acked'[s] = acked[s] /\ to_out'[s] = to_out[s]
         /\ out_endpoint[r] =>
              /\ ~bulk'[r] /\ acked'[r] \subseteq acked[r]
              /\ outq'.read_pos[r] = outq.read_pos[r]
              /\ outq'.tentative_read_pos[r] =
                   IF seq < outq.tentative_read_pos[r] THEN seq
                   ELSE outq.tentative_read_pos[r]
<1> DEFINE seq == Head(to_out[r]).seq
<1>1. /\ IsNext(to_out[r], "TOKEN_REPLY") /\ Head(to_out[r]).value = "NACK"
      /\ to_out' = [to_out EXCEPT ![r] = Tail(@)]
      /\ UNCHANGED <<inq, out_endpoint, in_endpoint, to_in, out_phase, in_phase, pending>>
  BY DEF ReceiveNack, phases
<1>2. seq \in Nat
  <2>1. Head(to_out[r]) \in OutMessage /\ Head(to_out[r]).cmd = "TOKEN_REPLY"
    BY <1>1, RangeTail DEF IsNext, TypeOK
  <2> QED
    BY <2>1 DEF OutMessage, Commands
<1>3. \/ ~out_endpoint[r] /\ UNCHANGED <<outq, bulk, acked>>
      \/ /\ out_endpoint[r]
         /\ bulk' = [bulk EXCEPT ![r] = FALSE]
         /\ outq' = com_cancel(outq, r, seq)
         /\ \/ acked' = acked
            \/ acked' = [acked EXCEPT ![r] = {n \in @ : n < seq}]
  BY DEF ReceiveNack
<1>4. /\ outq \in Queue(OutLength, Readers, Token) /\ outq.reader_offset[r] = 0
      /\ outq.read_pos[r] \in Nat /\ outq.tentative_read_pos[r] \in Nat
  BY Numbers DEF NumbersOK
<1> HIDE DEF seq
<1>5. com_cancel(outq, r, seq) =
        IF seq < outq.tentative_read_pos[r] THEN set_tentative(outq, r, seq) ELSE outq
  BY <1>2, <1>4 DEF com_cancel, com_cancel_raises
<1>6. ASSUME NEW s \in Readers \ {r}
      PROVE  /\ outq'.read_pos[s] = outq.read_pos[s]
             /\ outq'.tentative_read_pos[s] = outq.tentative_read_pos[s]
             /\ bulk'[s] = bulk[s] /\ acked'[s] = acked[s] /\ to_out'[s] = to_out[s]
  <2>1. outq' = outq \/ \E p \in Nat : outq' = set_tentative(outq, r, p)
    BY <1>2, <1>3, <1>5
  <2>2. /\ outq'.read_pos[s] = outq.read_pos[s]
        /\ outq'.tentative_read_pos[s] = outq.tentative_read_pos[s]
    BY <2>1, ReplyLeavesOthers
  <2>3. bulk'[s] = bulk[s] /\ acked'[s] = acked[s]
    BY <1>3, ConnectionType
  <2>4. to_out'[s] = to_out[s]
    BY <1>1, ConnectionType
  <2> QED
    BY <2>2, <2>3, <2>4
<1>7. ASSUME out_endpoint[r]
      PROVE  /\ ~bulk'[r] /\ acked'[r] \subseteq acked[r]
             /\ outq'.read_pos[r] = outq.read_pos[r]
             /\ outq'.tentative_read_pos[r] =
                  IF seq < outq.tentative_read_pos[r] THEN seq
                  ELSE outq.tentative_read_pos[r]
  <2>1. ~bulk'[r] /\ acked'[r] \subseteq acked[r]
    BY <1>3, <1>7, ConnectionType
  <2>2. CASE seq < outq.tentative_read_pos[r]
    <3>1. outq' = set_tentative(outq, r, seq)
      BY <1>3, <1>5, <1>7, <2>2
    <3>2. outq'.tentative_read_pos[r] = seq /\ outq'.read_pos[r] = outq.read_pos[r]
      BY <1>2, <1>4, <3>1, SetTentative
    <3> QED
      BY <2>1, <2>2, <3>2
  <2>3. CASE ~ (seq < outq.tentative_read_pos[r])
    BY <1>3, <1>5, <1>7, <2>1, <2>3
  <2> QED
    BY <2>2, <2>3
<1> QED
  BY <1>1, <1>2, <1>3, <1>6, <1>7 DEF seq

(* Replies after the endpoints have begun to detach change nothing else.   *)
LEMMA LateReply ==
  ASSUME TypeOK, NEW r \in Readers, InLeaves(r) \/ OutLeaves(r) \/ OutMayGo(r),
         IsNext(to_out[r], "TOKEN_REPLY"),
         to_out' = [to_out EXCEPT ![r] = Tail(@)],
         UNCHANGED <<in_endpoint, out_endpoint, to_in, out_phase, in_phase, pending>>,
         ~out_endpoint[r] => UNCHANGED <<outq, bulk, acked>>
  PROVE  Stage(r)'
<1>1. /\ to_out[r] \in Seq(OutMessage) /\ to_out[r] # <<>>
      /\ to_out'[r] = Tail(to_out[r]) /\ Head(to_out[r]).cmd \notin Commands
  BY ConnectionType DEF IsNext, Commands
<1>2. "PORT_DISCONNECT" \in Commands /\ "PORT_DISCONNECT_REPLY" \in Commands
  BY DEF Commands
<1>3. CASE InLeaves(r)
  <2>1. EndsWith(to_out[r], "PORT_DISCONNECT")
    BY <1>3 DEF InLeaves
  <2>2. EndsWith(Tail(to_out[r]), "PORT_DISCONNECT")
    BY <1>1, <1>2, <2>1, EndsWithTail
  <2>3. InLeaves(r)'
    BY <1>1, <1>3, <2>2 DEF InLeaves
  <2> QED
    BY <2>3 DEF Stage
<1>4. CASE OutLeaves(r)
  <2>1. NoControl(to_out[r]) /\ Detached(r)
    BY <1>4 DEF OutLeaves
  <2>2. NoControl(Tail(to_out[r]))
    BY <1>1, <2>1, NoControlTail
  <2>3. Detached(r)'
    BY <2>1 DEF Detached
  <2>4. OutLeaves(r)'
    BY <1>1, <1>4, <2>2, <2>3 DEF OutLeaves
  <2> QED
    BY <2>4 DEF Stage
<1>5. CASE OutMayGo(r)
  <2>1. EndsWith(to_out[r], "PORT_DISCONNECT_REPLY") /\ Detached(r)
    BY <1>5 DEF OutMayGo
  <2>2. EndsWith(Tail(to_out[r]), "PORT_DISCONNECT_REPLY")
    BY <1>1, <1>2, <2>1, EndsWithTail
  <2>3. Detached(r)'
    BY <2>1 DEF Detached
  <2>4. OutMayGo(r)'
    BY <1>1, <1>5, <2>2, <2>3 DEF OutMayGo
  <2> QED
    BY <2>4 DEF Stage
<1> QED
  BY <1>3, <1>4, <1>5

(* The reader was connected and still is; its flow is what has changed.    *)
LEMMA ReplyInStages ==
  ASSUME TypeOK, Stages, NEW r \in Readers, IsNext(to_out[r], "TOKEN_REPLY"),
         to_out' = [to_out EXCEPT ![r] = Tail(@)],
         UNCHANGED <<inq, in_endpoint, out_endpoint, to_in, out_phase, in_phase, pending>>,
         ~out_endpoint[r] => UNCHANGED <<outq, bulk, acked>>,
         \A s \in Readers \ {r} :
           /\ outq'.read_pos[s] = outq.read_pos[s]
           /\ outq'.tentative_read_pos[s] = outq.tentative_read_pos[s]
           /\ bulk'[s] = bulk[s] /\ acked'[s] = acked[s] /\ to_out'[s] = to_out[s],
         Connected(r) => Flow(r, to_in[r])'
  PROVE  Stages'
<1>1. to_out[r] # <<>> /\ Head(to_out[r]).cmd = "TOKEN_REPLY"
  BY DEF IsNext
<1>2. Connected(r) \/ InLeaves(r) \/ OutLeaves(r) \/ OutMayGo(r)
  BY <1>1, FirstOut DEF Stages
<1>3. Stage(r)'
  <2>1. CASE Connected(r)
    <3>1. to_out[r] \in Seq(OutMessage) /\ to_out'[r] = Tail(to_out[r])
      BY ConnectionType
    <3>2. NoControl(to_out[r])
      BY <2>1 DEF Connected
    <3>3. NoControl(Tail(to_out[r]))
      BY <1>1, <3>1, <3>2, NoControlTail
    <3>4. Connected(r)'
      BY <2>1, <3>1, <3>3 DEF Connected
    <3> QED
      BY <3>4 DEF Stage
  <2>2. CASE InLeaves(r) \/ OutLeaves(r) \/ OutMayGo(r)
    BY <2>2, LateReply
  <2> QED
    BY <1>2, <2>1, <2>2
<1>4. ASSUME NEW s \in Readers \ {r} PROVE SameConnection(s)
  BY DEF SameConnection
<1> QED
  BY <1>3, <1>4, OthersKept

LEMMA ReceiveAckStages ==
  ASSUME TypeOK, Stages, NEW r \in Readers, ReceiveAck(r)
  PROVE  Stages'
<1> DEFINE o == to_out[r]
           i == to_in[r]
           read == outq.read_pos[r]
           tent == outq.tentative_read_pos[r]
           stored == inq[r].write_pos
<1>1. /\ IsNext(o, "TOKEN_REPLY") /\ Head(o).value = "ACK" /\ o # <<>>
      /\ to_out' = [to_out EXCEPT ![r] = Tail(@)] /\ Head(o).seq \in Nat
      /\ UNCHANGED <<inq, out_endpoint, in_endpoint, to_in, out_phase, in_phase, pending>>
  BY AckEffect DEF IsNext
<1>2. /\ o \in Seq(OutMessage) /\ i \in Seq(InMessage) /\ to_out'[r] = Tail(o)
      /\ read \in Nat /\ tent \in Nat /\ stored \in Nat
  BY <1>1, Numbers, ConnectionType DEF NumbersOK
<1>3. ASSUME Connected(r) PROVE Flow(r, to_in[r])'
  <2>1. out_endpoint[r] /\ acked[r] = {} /\ Streams(o, i, read, tent, stored)
    BY <1>3 DEF Connected, Flow
  <2> HIDE DEF o, i, read, tent, stored
  <2>2. /\ Head(o).seq = read /\ read < tent
        /\ Streams(Tail(o), i, read + 1, tent, stored)
        /\ Stale(Tail(o), i, read + 1, tent) = 0
    BY <1>1, <1>2, <2>1, AckInOrder
  <2>3. /\ outq'.read_pos[r] = read + 1
        /\ outq'.tentative_read_pos[r] = tent
        /\ acked'[r] = acked[r]
    BY <2>1, <2>2, AckEffect DEF o, read, tent
  <2>4. to_in'[r] = i /\ inq'[r].write_pos = stored
    BY <1>1 DEF i, stored
  <2> QED
    BY <1>2, <2>1, <2>2, <2>3, <2>4 DEF Flow
<1>4. /\ ~out_endpoint[r] => UNCHANGED <<outq, bulk, acked>>
      /\ \A s \in Readers \ {r} :
           /\ outq'.read_pos[s] = outq.read_pos[s]
           /\ outq'.tentative_read_pos[s] = outq.tentative_read_pos[s]
           /\ bulk'[s] = bulk[s] /\ acked'[s] = acked[s] /\ to_out'[s] = to_out[s]
  BY AckEffect
<1> QED
  BY <1>1, <1>3, <1>4, ReplyInStages

LEMMA ReceiveNackStages ==
  ASSUME TypeOK, Stages, NEW r \in Readers, ReceiveNack(r)
  PROVE  Stages'
<1> DEFINE o == to_out[r]
           i == to_in[r]
           x == Head(o).seq
           read == outq.read_pos[r]
           tent == outq.tentative_read_pos[r]
           stored == inq[r].write_pos
<1>1. /\ IsNext(o, "TOKEN_REPLY") /\ Head(o).value = "NACK" /\ o # <<>>
      /\ to_out' = [to_out EXCEPT ![r] = Tail(@)] /\ x \in Nat
      /\ UNCHANGED <<inq, out_endpoint, in_endpoint, to_in, out_phase, in_phase, pending>>
  BY NackEffect DEF IsNext
<1>2. /\ o \in Seq(OutMessage) /\ i \in Seq(InMessage) /\ to_out'[r] = Tail(o)
      /\ read \in Nat /\ tent \in Nat /\ stored \in Nat
  BY <1>1, Numbers, ConnectionType DEF NumbersOK
<1>3. ASSUME Connected(r) PROVE Flow(r, to_in[r])'
  <2>1. out_endpoint[r] /\ acked[r] = {} /\ Streams(o, i, read, tent, stored)
    BY <1>3 DEF Connected, Flow
  <2>2. /\ ~bulk'[r] /\ acked'[r] \subseteq acked[r]
        /\ outq'.read_pos[r] = read
        /\ outq'.tentative_read_pos[r] = IF x < tent THEN x ELSE tent
    BY <2>1, NackEffect
  <2>3. to_in'[r] = i /\ inq'[r].write_pos = stored
    BY <1>1
  <2> HIDE DEF o, i, x, read, tent, stored
  <2>4. \/ x >= tent /\ Streams(Tail(o), i, read, tent, stored)
        \/ x = read /\ read < tent /\ Streams(Tail(o), i, read, read, stored)
    BY <1>1, <1>2, <2>1, NackInOrder DEF x
  <2>5. Streams(Tail(o), i, read, outq'.tentative_read_pos[r], stored)
    BY <1>1, <1>2, <2>2, <2>4
  <2> QED
    BY <1>2, <2>1, <2>2, <2>3, <2>5 DEF Flow
<1>4. /\ ~out_endpoint[r] => UNCHANGED <<outq, bulk, acked>>
      /\ \A s \in Readers \ {r} :
           /\ outq'.read_pos[s] = outq.read_pos[s]
           /\ outq'.tentative_read_pos[s] = outq.tentative_read_pos[s]
           /\ bulk'[s] = bulk[s] /\ acked'[s] = acked[s] /\ to_out'[s] = to_out[s]
  BY NackEffect
<1> QED
  BY <1>1, <1>3, <1>4, ReplyInStages

(* The other steps leave every connection as it is: the actors use only    *)
(* their own ends of the queues.                                           *)
LEMMA QuietStages ==
  ASSUME Stages, out_phase' = out_phase, \A r \in Readers : SameConnection(r)
  PROVE  Stages'
BY StageKept DEF Stages

LEMMA WriteStages ==
  ASSUME TypeOK, Stages, NEW t \in Token, Write(t)
  PROVE  Stages'
<1>1. outq \in Queue(OutLength, Readers, Token)
  BY DEF TypeOK
<1>2. /\ outq'.read_pos = outq.read_pos
      /\ outq'.tentative_read_pos = outq.tentative_read_pos
      /\ UNCHANGED <<inq, out_endpoint, in_endpoint, bulk, acked, to_in, to_out,
                     out_phase, in_phase, pending>>
  BY <1>1 DEF Write, write, Queue, endpoints, phases
<1> QED
  BY <1>2, QuietStages DEF SameConnection

LEMMA ReadStages ==
  ASSUME TypeOK, Stages, NEW r \in Readers, Read(r)
  PROVE  Stages'
<1>1. \A s \in Readers : inq'[s].write_pos = inq[s].write_pos
  BY ReadProperty
<1>2. UNCHANGED <<outq, out_endpoint, in_endpoint, bulk, acked, to_in, to_out,
                  out_phase, in_phase, pending>>
  BY DEF Read, endpoints, phases
<1> QED
  BY <1>1, <1>2, QuietStages DEF SameConnection

LEMMA BackoffExpiresStages ==
  ASSUME Stages, NEW r \in Readers, BackoffExpires(r)
  PROVE  Stages'
BY QuietStages DEF BackoffExpires, SameConnection, queues, phases

LEMMA UnchangedStages ==
  ASSUME Stages, UNCHANGED vars
  PROVE  Stages'
BY QuietStages DEF vars, SameConnection, queues, endpoints, phases

LEMMA TransportStages ==
  ASSUME TypeOK, Stages, NEW r \in Readers, Transport(r)
  PROVE  Stages'
BY CommunicateStages, BackoffExpiresStages, ReceiveTokenStages, ReceiveAckStages,
   ReceiveNackStages DEF Transport

LEMMA ReconnectionStages ==
  ASSUME TypeOK, Stages, NEW r \in Readers, Reconnection(r)
  PROVE  Stages'
BY DisconnectRequestOutStages, DisconnectRequestInStages, DisconnectReplyInStages,
   DisconnectReplyOutStages, ArriveInStages, ConnectRequestOutStages,
   ConnectRequestInStages, ConnectReplyInStages, ConnectReplyOutStages
DEF Reconnection

-----------------------------------------------------------------------------
(* The invariant: until a message overtakes another, every connection is   *)
(* in one of its stages.                                                   *)
Handover == overtakes = 0 => Stages

LEMMA InitStages == Init => Stages
<1> SUFFICES ASSUME Init, NEW r \in Readers PROVE Connected(r)
  BY DEF Stages, Stage
<1>1. /\ to_in[r] = <<>> /\ to_out[r] = <<>> /\ acked[r] = {} /\ bulk[r]
      /\ in_phase[r] = "stay" /\ out_phase = "stay" /\ pending = {}
      /\ in_endpoint[r] /\ out_endpoint[r]
      /\ outq.read_pos[r] = 0 /\ outq.tentative_read_pos[r] = 0 /\ inq[r].write_pos = 0
  BY DEF Init, NewQueue
<1>2. /\ Streams(to_out[r], to_in[r], 0, 0, 0)
      /\ Stale(to_out[r], to_in[r], 0, 0) = 0
  BY <1>1, NothingStreams
<1>3. Flow(r, to_in[r])
  BY <1>1, <1>2 DEF Flow
<1> QED
  BY <1>1, <1>3, EmptyHasNoControl DEF Connected

LEMMA NextHandover == TypeOK /\ Handover /\ [Next]_vars => Handover'
<1> SUFFICES ASSUME TypeOK, Handover, [Next]_vars, overtakes' = 0
             PROVE  Stages'
  BY DEF Handover
<1>1. overtakes \in Nat
  BY DEF TypeOK
<1>2. ASSUME NEW r \in Readers, OvertakeIn(r) \/ OvertakeOut(r) PROVE FALSE
  BY <1>1, <1>2 DEF OvertakeIn, OvertakeOut
<1>3. overtakes = 0 => Stages
  BY DEF Handover
<1>4. CASE \E t \in Token : Write(t)
  <2>1. Stages
    BY <1>3, <1>4 DEF Write
  <2> QED
    BY <1>4, <2>1, WriteStages
<1>5. CASE LeaveOut
  <2>1. Stages
    BY <1>3, <1>5 DEF LeaveOut
  <2> QED
    BY <1>5, <2>1, LeaveOutStages
<1>6. CASE ArriveOut
  <2>1. Stages
    BY <1>3, <1>6 DEF ArriveOut
  <2> QED
    BY <1>6, <2>1, ArriveOutStages
<1>7. ASSUME NEW r \in Readers, Read(r) PROVE Stages'
  <2>1. Stages
    BY <1>3, <1>7 DEF Read
  <2> QED
    BY <1>7, <2>1, ReadStages
<1>8. ASSUME NEW r \in Readers, Transport(r) PROVE Stages'
  <2>1. Stages
    BY <1>3, <1>8 DEF Transport, Communicate, BackoffExpires, ReceiveToken, ReceiveAck, ReceiveNack
  <2> QED
    BY <1>8, <2>1, TransportStages
<1>9. ASSUME NEW r \in Readers, LeaveIn(r) PROVE Stages'
  <2>1. Stages
    BY <1>3, <1>9 DEF LeaveIn
  <2> QED
    BY <1>9, <2>1, LeaveInStages
<1>10. ASSUME NEW r \in Readers, Reconnection(r) PROVE Stages'
  <2>1. Stages
    BY <1>3, <1>10 DEF Reconnection, DisconnectRequestOut, DisconnectRequestIn,
       DisconnectReplyIn, DisconnectReplyOut, ArriveIn, ConnectRequestOut,
       ConnectRequestIn, ConnectReplyIn, ConnectReplyOut, phases
  <2> QED
    BY <1>10, <2>1, ReconnectionStages
<1>11. CASE UNCHANGED vars
  <2>1. Stages
    BY <1>3, <1>11 DEF vars, phases
  <2> QED
    BY <1>11, <2>1, UnchangedStages
<1> QED
  BY <1>2, <1>4, <1>5, <1>6, <1>7, <1>8, <1>9, <1>10, <1>11 DEF Next

(* Every connection between the queues of an outport and its readers goes  *)
(* through the stages of disconnection and reconnection, with its replies  *)
(* in the order of its tokens, for as long as the links are FIFO.          *)
THEOREM HandoverHolds == Spec => []Handover
<1>1. Init => Handover
  BY InitStages DEF Handover
<1>2. TypeOK /\ Handover /\ [Next]_vars => Handover'
  BY NextHandover
<1> QED
  BY <1>1, <1>2, TypeCorrect, PTL DEF Spec

(* While no message has overtaken another, a mover whose peers have all    *)
(* answered hands over a queue that nothing is on its way to or from.      *)
THEOREM HandoverIsClean == Spec => [](overtakes = 0 => CleanHandover)
<1>1. Handover => (overtakes = 0 => CleanHandover)
  <2> SUFFICES ASSUME Stages, NEW r \in Readers, r \notin pending,
                      "leaving" \in {out_phase, in_phase[r]}
               PROVE  /\ ~out_endpoint[r] /\ ~in_endpoint[r]
                      /\ com_is_committed(outq, r)
                      /\ to_in[r] = <<>> /\ to_out[r] = <<>>
    BY DEF Handover, CleanHandover
  <2>1. InGone(r) \/ OutGone(r)
    BY DEF Stages, Stage, Connected, InLeaves, InMayGo, InArrives, InMayStay,
           OutLeaves, OutMayGo, OutArrives, OutMayStay
  <2> QED
    BY <2>1 DEF InGone, OutGone, Detached, com_is_committed
<1> QED
  BY <1>1, HandoverHolds, PTL

(* While no message has overtaken another, what the outport has sent is    *)
(* committed when nothing is on its way: a throttled endpoint sends again. *)
THEOREM AnsweredAreCommitted == Spec => [](overtakes = 0 => AnsweredIsCommitted)
<1>1. TypeOK /\ Handover => (overtakes = 0 => AnsweredIsCommitted)
  <2> SUFFICES ASSUME TypeOK, Stages, NEW r \in Readers, out_endpoint[r],
                      to_in[r] = <<>>, to_out[r] = <<>>
               PROVE  com_is_committed(outq, r)
    BY DEF Handover, AnsweredIsCommitted
  <2>1. Connected(r)
    BY DEF Stages, Stage, InLeaves, InMayGo, InGone, InArrives, InMayStay,
           OutLeaves, OutMayGo, OutGone, OutArrives, OutMayStay, Detached,
           EndsWith, StartsWith
  <2>2. Streams(<<>>, <<>>, outq.read_pos[r], outq.tentative_read_pos[r], inq[r].write_pos)
    BY <2>1 DEF Connected, Flow
  <2>3. /\ outq.read_pos[r] \in Nat /\ outq.tentative_read_pos[r] \in Nat
        /\ inq[r].write_pos \in Nat
    BY Numbers DEF NumbersOK
  <2> QED
    BY <2>2, <2>3, EmptyIsCommitted DEF com_is_committed
<1> QED
  BY <1>1, HandoverHolds, TypeCorrect, PTL
=============================================================================
