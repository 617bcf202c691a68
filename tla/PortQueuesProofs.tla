--------------------------- MODULE PortQueuesProofs ---------------------------
(***************************************************************************)
(* Theorems about PortQueues, for any ports, lengths of queues and numbers *)
(* of tokens.                                                              *)
(***************************************************************************)
EXTENDS PortQueues, FunctionTheorems, FiniteSetTheorems, SequenceTheorems, TLAPS

-----------------------------------------------------------------------------
(* Lists of ports in the order of their ids.                               *)
IsAscending(s, S) ==
  /\ s \in [1 .. Cardinality(S) -> S]
  /\ \A j, k \in 1 .. Cardinality(S) : j < k => s[j] < s[k]

(* Every finite set of naturals has such a list: each of its elements has  *)
(* as its index the number of those that are not greater.                  *)
LEMMA AscendingExists ==
  ASSUME NEW S \in SUBSET Nat, IsFiniteSet(S)
  PROVE  \E s : IsAscending(s, S)
<1> DEFINE Below(x) == {y \in S : y <= x}
           n == Cardinality(S)
           rank == [x \in S |-> Cardinality(Below(x))]
<1>1. n \in Nat /\ IsFiniteSet(1 .. n) /\ Cardinality(1 .. n) = n
  <2>1. n \in Nat
    BY FS_CardinalityType
  <2>2. 1 \in Int /\ n \in Int
    BY <2>1
  <2>3. IsFiniteSet(1 .. n) /\ Cardinality(1 .. n) = IF 1 > n THEN 0 ELSE n - 1 + 1
    BY ONLY <2>2, FS_Interval
  <2> QED
    BY <2>1, <2>3
<1>2. ASSUME NEW x \in S
      PROVE  IsFiniteSet(Below(x)) /\ rank[x] \in 1 .. n
  <2>1. Below(x) \in SUBSET S /\ x \in Below(x)
    OBVIOUS
  <2>2. IsFiniteSet(Below(x)) /\ Cardinality(Below(x)) <= n
    BY <2>1, FS_Subset
  <2>3. Cardinality(Below(x)) \in Nat
    BY <2>2, FS_CardinalityType
  <2>4. Cardinality(Below(x)) # 0
    BY <2>1, <2>2, FS_EmptySet
  <2> QED
    BY <1>1, <2>2, <2>3, <2>4
<1>3. ASSUME NEW x \in S, NEW y \in S, x < y
      PROVE  rank[x] < rank[y]
  <2>0. x \in Nat /\ y \in Nat /\ \A z \in S : z \in Nat
    OBVIOUS
  <2>1. Below(x) \in SUBSET Below(y) /\ y \in Below(y) /\ y \notin Below(x)
    <3>1. \A z \in S : z <= x => z <= y
      BY <1>3, <2>0
    <3>2. y <= y /\ ~(y <= x)
      BY <1>3, <2>0
    <3> QED
      BY <3>1, <3>2, Zenon
  <2>2. IsFiniteSet(Below(x)) /\ IsFiniteSet(Below(y))
    BY <1>2
  <2>3. /\ Cardinality(Below(x)) <= Cardinality(Below(y))
        /\ Cardinality(Below(y)) = Cardinality(Below(x)) => Below(y) = Below(x)
    BY <2>1, <2>2, FS_Subset
  <2>4. Cardinality(Below(x)) \in Nat /\ Cardinality(Below(y)) \in Nat
    BY <2>2, FS_CardinalityType
  <2> QED
    BY <2>1, <2>3, <2>4
<1> HIDE DEF rank, n
<1>4. rank \in [S -> 1 .. n]
  BY <1>2 DEF rank
<1>5. \A x, y \in S : rank[x] = rank[y] => x = y
  <2> SUFFICES ASSUME NEW x \in S, NEW y \in S, rank[x] = rank[y], x # y
               PROVE  FALSE
    OBVIOUS
  <2>1. x \in Nat /\ y \in Nat /\ rank[x] \in Int
    BY <1>4, <1>1
  <2> QED
    BY <1>3, <2>1
<1>6. rank \in Injection(S, 1 .. n)
  BY <1>4, <1>5, Fun_IsInj
<1>7. rank \in Surjection(S, 1 .. n)
  <2>1. Cardinality(S) = Cardinality(1 .. n) <=> rank \in Surjection(S, 1 .. n)
    BY ONLY <1>1, <1>6, FS_Injection
  <2> QED
    BY <2>1, <1>1 DEF n
<1>8. \A k \in 1 .. n : \E x \in S : rank[x] = k
  BY <1>7, Fun_SurjectionProperties
<1> DEFINE s == [k \in 1 .. n |-> CHOOSE x \in S : rank[x] = k]
<1>9. ASSUME NEW k \in 1 .. n PROVE s[k] \in S /\ rank[s[k]] = k
  BY <1>8
<1>10. ASSUME NEW j \in 1 .. n, NEW k \in 1 .. n, j < k
       PROVE  s[j] < s[k]
  <2>1. s[j] \in S /\ rank[s[j]] = j /\ s[k] \in S /\ rank[s[k]] = k
    BY <1>9
  <2> HIDE DEF s
  <2>2. s[j] \in Nat /\ s[k] \in Nat
    BY <2>1, Zenon
  <2>3. s[j] # s[k]
    BY <2>1, <2>2, <1>10
  <2>4. ~(s[k] < s[j])
    <3>1. SUFFICES ASSUME s[k] < s[j] PROVE FALSE
      OBVIOUS
    <3>2. k < j
      BY <2>1, <3>1, <1>3
    <3> QED
      BY <1>1, <1>10, <3>2
  <2> QED
    BY <2>2, <2>3, <2>4
<1>11. s \in [1 .. n -> S]
  BY <1>9
<1> HIDE DEF s
<1>12. IsAscending(s, S)
  BY <1>10, <1>11 DEF IsAscending, n
<1> QED
  BY <1>12

(* Its entries differ, and are the elements of the set.                    *)
LEMMA AscendingList ==
  ASSUME NEW S \in SUBSET Nat, IsFiniteSet(S), NEW s, IsAscending(s, S)
  PROVE  /\ s \in Seq(Nat) /\ Len(s) = Cardinality(S) /\ Len(s) \in Nat
         /\ {s[k] : k \in DOMAIN s} = S
         /\ \A j, k \in DOMAIN s : s[j] = s[k] => j = k
<1> DEFINE n == Cardinality(S)
<1>1. n \in Nat
  BY FS_CardinalityType
<1>2. s \in [1 .. n -> S] /\ \A j, k \in 1 .. n : j < k => s[j] < s[k]
  BY DEF IsAscending
<1> HIDE DEF n
<1>3. s \in Seq(Nat) /\ Len(s) = n /\ DOMAIN s = 1 .. n
  <2>1. s \in [1 .. n -> Nat]
    BY <1>2
  <2> QED
    BY <2>1, <1>1
<1>4. \A j, k \in 1 .. n : s[j] = s[k] => j = k
  <2> SUFFICES ASSUME NEW j \in 1 .. n, NEW k \in 1 .. n, s[j] = s[k], j < k
               PROVE  FALSE
    BY <1>1
  <2>1. s[j] < s[k] /\ s[j] \in Nat
    BY <1>2
  <2> QED
    BY <2>1
<1>5. s \in Surjection(1 .. n, S)
  <2>1. s \in Injection(1 .. n, S)
    BY <1>2, <1>4, Fun_IsInj
  <2>2. Cardinality(1 .. n) = n
    <3>1. 1 \in Int /\ n \in Int
      BY <1>1
    <3>2. Cardinality(1 .. n) = IF 1 > n THEN 0 ELSE n - 1 + 1
      BY ONLY <3>1, FS_Interval
    <3> QED
      BY <1>1, <3>2
  <2>3. Cardinality(1 .. n) = Cardinality(S) <=> s \in Surjection(1 .. n, S)
    BY ONLY <2>1, IsFiniteSet(S), FS_Injection
  <2> QED
    BY <2>2, <2>3 DEF n
<1>6. {s[k] : k \in 1 .. n} = S
  <2>1. \A x \in S : \E k \in 1 .. n : s[k] = x
    BY <1>5 DEF Surjection
  <2> QED
    BY <2>1, <1>2
<1> QED
  BY <1>1, <1>3, <1>4, <1>6 DEF n

LEMMA OutAscending ==
  ASSUME NEW S \in SUBSET Nat, IsFiniteSet(S)
  PROVE  IsAscending(Out!Ascending(S), S)
<1>1. \A T : Out!Cardinality(T) = Cardinality(T)
  BY DEF Out!Cardinality, Cardinality
<1> QED
  BY <1>1, AscendingExists DEF Out!Ascending, IsAscending

LEMMA InAscending ==
  ASSUME NEW S \in SUBSET Nat, IsFiniteSet(S)
  PROVE  IsAscending(In!Ascending(S), S)
<1>1. \A T : In!Cardinality(T) = Cardinality(T)
  BY DEF In!Cardinality, Cardinality
<1> QED
  BY <1>1, AscendingExists DEF In!Ascending, IsAscending

-----------------------------------------------------------------------------
(* Positions in a ring.                                                    *)
LEMMA MultipleAtLeast ==
  ASSUME NEW n \in Nat \ {0}, NEW k \in Int, k # 0
  PROVE  n * k >= n \/ n * k <= -n
<1>1. CASE k <= -1
  <2>1. n * k <= n * (-1)
    BY <1>1
  <2> QED
    BY <2>1
<1>2. CASE k >= 1
  <2>1. n * k >= n * 1
    BY <1>2
  <2> QED
    BY <2>1
<1> QED
  BY <1>1, <1>2

LEMMA ModIs ==
  ASSUME NEW n \in Nat \ {0}, NEW x \in Int, NEW d \in Int, NEW r \in 0 .. n - 1,
         x = n * d + r
  PROVE  x % n = r
<1>1. x = n * (x \div n) + (x % n) /\ x \div n \in Int /\ x % n \in 0 .. n - 1
  OBVIOUS
<1>2. n * (d - (x \div n)) = (x % n) - r
  BY <1>1
<1>3. d - (x \div n) \in Int
  BY <1>1
<1>4. (x % n) - r < n /\ (x % n) - r > -n
  BY <1>1
<1>5. ~(d - (x \div n) # 0)
  BY <1>2, <1>3, <1>4, MultipleAtLeast
<1> QED
  BY <1>1, <1>2, <1>3, <1>5

LEMMA ModRange ==
  ASSUME NEW n \in Nat \ {0}, NEW x \in Int
  PROVE  x % n \in 0 .. n - 1
OBVIOUS

LEMMA ModPlus ==
  ASSUME NEW n \in Nat \ {0}, NEW x \in Int
  PROVE  (x + n) % n = x % n
<1>1. x = n * (x \div n) + (x % n) /\ x \div n \in Int /\ x % n \in 0 .. n - 1
  OBVIOUS
<1>2. x + n = n * ((x \div n) + 1) + (x % n) /\ (x \div n) + 1 \in Int /\ x + n \in Int
  BY <1>1
<1> QED
  BY <1>1, <1>2, ModIs

LEMMA ModNext ==
  ASSUME NEW n \in Nat \ {0}, NEW x \in Int
  PROVE  (x + 1) % n = ((x % n) + 1) % n
<1> DEFINE d == x \div n
           r == x % n
<1>1. x = n * d + r /\ d \in Int /\ r \in 0 .. n - 1
  OBVIOUS
<1> HIDE DEF d, r
<1>2. CASE r + 1 < n
  <2>1. r + 1 \in 0 .. n - 1 /\ x + 1 = n * d + (r + 1) /\ r + 1 = n * 0 + (r + 1)
    BY <1>1, <1>2
  <2>2. (x + 1) % n = r + 1
    BY <1>1, <2>1, ModIs
  <2>3. (r + 1) % n = r + 1
    BY <1>1, <2>1, ModIs
  <2> QED
    BY <2>2, <2>3 DEF r
<1>3. CASE r + 1 = n
  <2>1. 0 \in 0 .. n - 1 /\ x + 1 = n * (d + 1) + 0 /\ r + 1 = n * 1 + 0
    BY <1>1, <1>3
  <2>2. (x + 1) % n = 0
    BY <1>1, <2>1, ModIs
  <2>3. (r + 1) % n = 0
    BY <1>1, <2>1, ModIs
  <2> QED
    BY <2>2, <2>3 DEF r
<1> QED
  BY <1>1, <1>2, <1>3

LEMMA ModAdds ==
  ASSUME NEW n \in Nat \ {0}, NEW x \in Int, NEW y \in Int
  PROVE  ((x % n) + y) % n = (x + y) % n
<1> DEFINE d == x \div n
           r == x % n
           e == (r + y) \div n
           s == (r + y) % n
<1>1. x = n * d + r /\ d \in Int /\ r \in 0 .. n - 1
  OBVIOUS
<1> HIDE DEF d, r
<1>2. r + y = n * e + s /\ e \in Int /\ s \in 0 .. n - 1
  BY <1>1
<1> HIDE DEF e, s
<1>3. x + y = n * (d + e) + s /\ d + e \in Int /\ x + y \in Int
  <2>1. n * (d + e) = n * d + n * e
    BY <1>1, <1>2
  <2>2. n * d \in Int /\ n * e \in Int
    BY <1>1, <1>2
  <2> QED
    BY <1>1, <1>2, <2>1, <2>2
<1>4. (x + y) % n = s
  BY <1>2, <1>3, ModIs
<1> QED
  BY <1>4 DEF s, r

LEMMA ModSmall ==
  ASSUME NEW n \in Nat \ {0}, NEW x \in 0 .. n - 1
  PROVE  x % n = x
<1>1. x = n * 0 + x
  OBVIOUS
<1> QED
  BY <1>1, ModIs

(* Two positions less than a ring apart have different slots.              *)
LEMMA SlotsDistinct ==
  ASSUME NEW n \in Nat \ {0}, NEW x \in Int, NEW y \in Int, x < y, y - x < n
  PROVE  x % n # y % n
<1> SUFFICES ASSUME x % n = y % n PROVE FALSE
  OBVIOUS
<1>1. /\ x = n * (x \div n) + (x % n) /\ y = n * (y \div n) + (y % n)
      /\ x \div n \in Int /\ y \div n \in Int /\ x % n \in Int
  OBVIOUS
<1>2. n * ((y \div n) - (x \div n)) = y - x /\ (y \div n) - (x \div n) \in Int
  BY <1>1
<1>3. (y \div n) - (x \div n) # 0
  BY <1>2
<1> QED
  BY <1>2, <1>3, MultipleAtLeast

-----------------------------------------------------------------------------
(* Turns: the schedule of an ordered or round-robin queue.                 *)
OutFields == {"kind", "readers", "reader_turn", "turn_pos", "fifo", "write_pos",
              "read_pos", "tentative_read_pos", "reader_offset"}

HasReaders(q) ==
  /\ DOMAIN q = OutFields
  /\ Out!ReaderSet(q) \in SUBSET Nat
  /\ IsFiniteSet(Out!ReaderSet(q))
  /\ IsAscending(q.readers, Out!ReaderSet(q))

(* The schedule is a list of readers.  One that was cut too short stays    *)
(* where it is, as writing raises.                                         *)
Timetable(q) ==
  LET n == Len(q.readers)
  IN  /\ q.turn_pos \in Nat
      /\ q.reader_turn \in Seq(0 .. n - 1)
      /\ n > 0 => q.reader_turn # <<>>
      /\ Len(q.reader_turn) <= OutN
      /\ Len(q.reader_turn) < OutN => q.turn_pos = 0

(* Its entries from the turn's position on, all around the ring, count the *)
(* readers one after the other.                                            *)
Schedule(q) ==
  /\ Timetable(q)
  /\ Len(q.reader_turn) = OutN =>
       \A j \in q.turn_pos .. q.turn_pos + OutN - 2 :
         Out!TurnAt(q, j + 1) = (Out!TurnAt(q, j) + 1) % Len(q.readers)

(* The turns that were taken follow each other in the list of readers, and *)
(* the next one follows the last.                                          *)
ByTurn(readers, next, taken) ==
  LET n == Len(readers)
  IN  /\ taken \in Seq(Nat)
      /\ \A k \in 1 .. Len(taken) - 1 : \E i \in 1 .. n :
           taken[k] = readers[i] /\ taken[k + 1] = readers[(i % n) + 1]
      /\ taken # <<>> => \E i \in 1 .. n :
           taken[Len(taken)] = readers[i] /\ next = i % n

TurnsTaken(q, taken) == ByTurn(q.readers, Out!TurnAt(q, q.turn_pos), taken)

LEMMA TurnTaken ==
  ASSUME NEW q, HasReaders(q), Schedule(q), NEW taken, TurnsTaken(q, taken),
         q.kind \in {"ordered", "round-robin"}, ~Out!TurnRaises(q),
         NEW p, p \in Out!Turned(q)
  PROVE  /\ p = [q EXCEPT !.reader_turn = p.reader_turn, !.turn_pos = p.turn_pos]
         /\ Schedule(p)
         /\ Out!NextReader(q) \in Out!ReaderSet(q) => TurnsTaken(p, Append(taken, Out!NextReader(q)))
<1> DEFINE n == Len(q.readers)
           N == OutN
           t == q.turn_pos
           r == q.reader_turn
           v == (Out!TurnAt(q, t - 1) + 1) % n
<1>1. N \in Nat \ {0} /\ N >= 2 /\ t \in Nat /\ n \in Nat /\ r \in Seq(0 .. n - 1)
  <2>1. n \in Nat
    BY AscendingList DEF HasReaders
  <2> QED
    BY <2>1, LengthAssumption DEF Schedule, Timetable
<1>2. Len(r) = N
  <2>1. ((t - 1) % N) + 1 \in DOMAIN r
    BY DEF Out!TurnRaises
  <2>2. CASE t = 0
    <3>0. t - 1 \in Int /\ N \in Nat \ {0} /\ N - 1 \in 0 .. N - 1 /\ t - 1 + N = N - 1
      BY <1>1, <2>2
    <3>1. (t - 1 + N) % N = (t - 1) % N
      BY ONLY <3>0, ModPlus
    <3>2. (N - 1) % N = N - 1
      BY ONLY <3>0, ModSmall
    <3>4. (t - 1) % N = N - 1 /\ N - 1 + 1 = N
      BY <3>0, <3>1, <3>2
    <3>3. N \in DOMAIN r
      BY ONLY <2>1, <3>4
    <3> QED
      BY <3>3, <1>1 DEF Schedule, Timetable
  <2>3. CASE t # 0
    BY <2>3, <1>1 DEF Schedule, Timetable
  <2> QED
    BY <2>2, <2>3
<1>3. \A x \in Int : x % N \in 0 .. N - 1 /\ Out!TurnAt(q, x) \in 0 .. n - 1
  <2>1. ASSUME NEW x \in Int
        PROVE  x % N \in 0 .. N - 1 /\ Out!TurnAt(q, x) \in 0 .. n - 1
    <3>1. x % N \in 0 .. N - 1
      BY <1>1, ModRange
    <3>2. (x % N) + 1 \in 1 .. Len(r)
      BY <3>1, <1>1, <1>2
    <3> QED
      BY <3>1, <3>2, <1>1 DEF Out!TurnAt
  <2> QED
    BY <2>1
<1>4. n > 0
  <2>1. Out!TurnAt(q, 0) \in 0 .. n - 1
    BY <1>3
  <2> QED
    BY <2>1, <1>1
<1>5. v \in 0 .. n - 1
  <2>0. t - 1 \in Int
    BY <1>1
  <2>1. Out!TurnAt(q, t - 1) \in 0 .. n - 1
    BY ONLY <2>0, <1>3
  <2>2. Out!TurnAt(q, t - 1) + 1 \in Int /\ n \in Nat \ {0}
    BY ONLY <2>1, <1>1, <1>4
  <2> QED
    BY ONLY <2>2, ModRange DEF v
<1>6. p = [q EXCEPT !.reader_turn[(t % N) + 1] = v, !.turn_pos = @ + 1]
  BY DEF Out!Turned, Out!TurnKinds
<1> HIDE DEF v
<1>7. /\ p.reader_turn = [r EXCEPT ![(t % N) + 1] = v] /\ p.turn_pos = t + 1
      /\ p.readers = q.readers
      /\ p = [q EXCEPT !.reader_turn = p.reader_turn, !.turn_pos = p.turn_pos]
  BY <1>6 DEF HasReaders, OutFields
<1> HIDE DEF r, t, n
<1>8. p.reader_turn \in Seq(0 .. n - 1) /\ Len(p.reader_turn) = N
  BY <1>1, <1>2, <1>5, <1>7
<1>9. ASSUME NEW x \in Int
      PROVE  Out!TurnAt(p, x) = IF x % N = t % N THEN v ELSE Out!TurnAt(q, x)
  <2>0. t \in Int /\ DOMAIN r = 1 .. N
    BY <1>1, <1>2
  <2>1. x % N \in 0 .. N - 1 /\ t % N \in 0 .. N - 1
    BY ONLY <2>0, <1>3, x \in Int
  <2>2. (x % N) + 1 \in 1 .. N /\ ((x % N) + 1 = (t % N) + 1 <=> x % N = t % N)
    BY ONLY <2>1, <1>1
  <2>3. p.reader_turn[(x % N) + 1] = IF x % N = t % N THEN v ELSE r[(x % N) + 1]
    BY ONLY <2>0, <2>2, <1>7
  <2> QED
    BY <2>3 DEF Out!TurnAt, r
<1>10. ASSUME NEW j \in t .. t + N - 2
       PROVE  Out!TurnAt(q, j + 1) = (Out!TurnAt(q, j) + 1) % n
  BY <1>2, <1>10 DEF Schedule, Timetable, t, r, n
<1>11. ASSUME NEW x \in t + 1 .. t + N - 1
       PROVE  Out!TurnAt(p, x) = Out!TurnAt(q, x)
  <2>1. x \in Int /\ t \in Int /\ t < x /\ x - t < N
    BY <1>1
  <2>2. t % N # x % N
    BY <2>1, <1>1, SlotsDistinct
  <2> QED
    BY <2>1, <2>2, <1>9
<1>12. ASSUME NEW j \in t + 1 .. t + N - 1
       PROVE  Out!TurnAt(p, j + 1) = (Out!TurnAt(p, j) + 1) % n
  <2>1. CASE j < t + N - 1
    <3>1. j \in t .. t + N - 2 /\ j + 1 \in t + 1 .. t + N - 1
      BY <2>1, <1>1
    <3> QED
      BY <3>1, <1>10, <1>11
  <2>2. CASE j = t + N - 1
    <3>0. N \in Nat \ {0} /\ t \in Int /\ t - 1 \in Int
      BY <1>1
    <3>1. (t + N) % N = t % N /\ (t - 1 + N) % N = (t - 1) % N
      BY ONLY <3>0, ModPlus
    <3>2. j + 1 = t + N /\ j = t - 1 + N /\ t + N \in Int
      BY <2>2, <1>1
    <3>3. Out!TurnAt(p, j + 1) = v
      BY <3>1, <3>2, <1>9
    <3>4. Out!TurnAt(q, j) = Out!TurnAt(q, t - 1)
      BY <3>1, <3>2 DEF Out!TurnAt
    <3> QED
      BY <3>3, <3>4, <1>11 DEF v
  <2> QED
    BY <1>1, <2>1, <2>2
<1>13. Schedule(p)
  <2>1. Len(p.readers) = n /\ t + 1 \in Nat /\ p.reader_turn # <<>>
    BY <1>7, <1>8, <1>1 DEF n
  <2>2. t + 1 + N - 2 = t + N - 1
    BY <1>1
  <2>3. \A j \in p.turn_pos .. p.turn_pos + N - 2 :
          Out!TurnAt(p, j + 1) = (Out!TurnAt(p, j) + 1) % n
    BY ONLY <1>7, <1>12, <2>2
  <2>4. p.turn_pos \in Nat /\ N <= OutN
    BY <1>7, <2>1, <1>1
  <2> HIDE DEF N
  <2>5. Len(p.reader_turn) <= OutN /\ ~(Len(p.reader_turn) < OutN)
    BY ONLY <1>8, <2>4, <1>1, LengthAssumption DEF N
  <2> QED
    BY ONLY <1>8, <2>1, <2>3, <2>4, <2>5 DEF Schedule, Timetable, N
<1>14. ASSUME Out!NextReader(q) \in Out!ReaderSet(q)
       PROVE  TurnsTaken(p, Append(taken, Out!NextReader(q)))
  <2> DEFINE a == Out!TurnAt(q, t)
             next == Out!NextReader(q)
             new == Append(taken, next)
  <2>1. a \in 0 .. n - 1 /\ next = q.readers[a + 1] /\ a + 1 \in 1 .. n
    <3>1. a \in 0 .. n - 1
      <4>1. t \in Int
        BY <1>1
      <4> QED
        BY ONLY <4>1, <1>3
    <3>2. next = q.readers[a + 1]
      BY DEF Out!NextReader, t
    <3> QED
      BY <3>1, <3>2, <1>1
  <2>2. next \in Nat
    BY <1>14 DEF HasReaders
  <2>3. taken \in Seq(Nat) /\ Len(taken) \in Nat
    BY DEF TurnsTaken, ByTurn
  <2>4. new \in Seq(Nat) /\ Len(new) = Len(taken) + 1 /\ new[Len(new)] = next /\ new # <<>>
        /\ \A k \in 1 .. Len(taken) : new[k] = taken[k]
    BY <2>2, <2>3
  <2>5. Out!TurnAt(p, t + 1) = (a + 1) % n
    <3>1. t + 1 \in t + 1 .. t + N - 1 /\ t \in t .. t + N - 2
      BY <1>1
    <3> QED
      BY <3>1, <1>10, <1>11
  <2> HIDE DEF a, next, new
  <2>6. ASSUME NEW k \in 1 .. Len(new) - 1
        PROVE  \E i \in 1 .. n : new[k] = q.readers[i] /\ new[k + 1] = q.readers[(i % n) + 1]
    <3>1. CASE k < Len(taken)
      <4>1. k \in 1 .. Len(taken) - 1 /\ k \in 1 .. Len(taken) /\ k + 1 \in 1 .. Len(taken)
        BY <3>1, <2>3
      <4>2. \E i \in 1 .. n : taken[k] = q.readers[i] /\ taken[k + 1] = q.readers[(i % n) + 1]
        BY <4>1 DEF TurnsTaken, ByTurn, n
      <4> QED
        BY <4>1, <4>2, <2>4
    <3>2. CASE k = Len(taken)
      <4>1. taken # <<>> /\ k \in 1 .. Len(taken) /\ k + 1 = Len(new)
        BY <3>2, <2>3, <2>4
      <4>2. PICK i \in 1 .. n : taken[Len(taken)] = q.readers[i] /\ a = i % n
        BY <4>1 DEF TurnsTaken, ByTurn, n, a, t
      <4>3. new[k] = q.readers[i] /\ new[k + 1] = q.readers[(i % n) + 1]
        BY <3>2, <4>1, <4>2, <2>1, <2>4
      <4> QED
        BY <4>3
    <3> QED
      BY <2>3, <2>4, <3>1, <3>2
  <2>7. \E i \in 1 .. n : new[Len(new)] = q.readers[i] /\ Out!TurnAt(p, t + 1) = i % n
    BY <2>1, <2>4, <2>5
  <2>8. TurnsTaken(p, new)
    BY <2>4, <2>6, <2>7, <1>7 DEF TurnsTaken, ByTurn, n
  <2> QED
    BY <2>8 DEF new, next
<1> QED
  BY <1>7, <1>13, <1>14

LEMMA IsList ==
  ASSUME NEW S, NEW m \in Nat, NEW f \in [1 .. m -> S]
  PROVE  f \in Seq(S) /\ Len(f) = m /\ DOMAIN f = 1 .. m
OBVIOUS

(* The list of readers of a queue that has just been made, or changed.     *)
LEMMA ReadersListed ==
  ASSUME NEW p, DOMAIN p = OutFields, NEW S \in SUBSET Nat, IsFiniteSet(S),
         p.readers = Out!Ascending(S)
  PROVE  /\ HasReaders(p) /\ Out!ReaderSet(p) = S
         /\ Len(p.readers) = Cardinality(S) /\ Cardinality(S) \in Nat
<1>1. IsAscending(p.readers, S)
  BY OutAscending
<1>2. /\ {p.readers[k] : k \in DOMAIN p.readers} = S
      /\ Len(p.readers) = Cardinality(S) /\ Cardinality(S) \in Nat
  BY <1>1, AscendingList, FS_CardinalityType
<1>3. Out!ReaderSet(p) = S
  BY <1>2 DEF Out!ReaderSet
<1> QED
  BY <1>1, <1>2, <1>3 DEF HasReaders

(* A schedule that alternates from a position on.                          *)
Alternates(p, n, len, pos) ==
  /\ n \in Nat /\ n = Len(p.readers) /\ n > 0 /\ p.turn_pos = 0
  /\ len \in 1 .. OutN /\ pos \in Nat
  /\ p.reader_turn = [k \in 1 .. len |-> (pos + k - 1) % n]

LEMMA AlternatingSchedule ==
  ASSUME NEW p, NEW n, NEW len, NEW pos, Alternates(p, n, len, pos)
  PROVE  Schedule(p) /\ TurnsTaken(p, <<>>)
<1> USE DEF Alternates
<1>0. OutN \in Nat \ {0} /\ OutN >= 2 /\ n \in Nat \ {0} /\ len \in Nat /\ 0 \in Nat
  BY LengthAssumption
<1>1. ASSUME NEW x \in Int PROVE x % n \in 0 .. n - 1
  BY <1>0, ModRange
<1>2. p.reader_turn \in Seq(0 .. n - 1) /\ Len(p.reader_turn) = len /\ p.reader_turn # <<>>
  <2>1. \A k \in 1 .. len : (pos + k - 1) % n \in 0 .. n - 1
    <3> SUFFICES ASSUME NEW k \in 1 .. len PROVE (pos + k - 1) % n \in 0 .. n - 1
      OBVIOUS
    <3>1. pos + k - 1 \in Int
      OBVIOUS
    <3> QED
      BY <3>1, <1>1
  <2>2. p.reader_turn \in [1 .. len -> 0 .. n - 1]
    BY <2>1
  <2>3. p.reader_turn \in Seq(0 .. n - 1) /\ Len(p.reader_turn) = len
    BY ONLY <2>2, <1>0, IsList
  <2>4. len > 0
    OBVIOUS
  <2> HIDE DEF Alternates
  <2> QED
    BY ONLY <2>3, <2>4, Len(<<>>) = 0
<1>3. ASSUME len = OutN, NEW j \in 0 .. OutN - 1
      PROVE  Out!TurnAt(p, j) = (pos + j) % n
  <2>1. j % OutN = j
    BY <1>0, ModSmall
  <2>2. j + 1 \in 1 .. len /\ pos + (j + 1) - 1 = pos + j
    BY <1>3, <1>0
  <2>3. Out!TurnAt(p, j) = p.reader_turn[j + 1]
    BY ONLY <2>1 DEF Out!TurnAt
  <2> QED
    BY ONLY <2>2, <2>3, p.reader_turn = [k \in 1 .. len |-> (pos + k - 1) % n]
<1>4. ASSUME len = OutN, NEW j \in 0 .. OutN - 2
      PROVE  Out!TurnAt(p, j + 1) = (Out!TurnAt(p, j) + 1) % n
  <2>1. j \in 0 .. OutN - 1 /\ j + 1 \in 0 .. OutN - 1 /\ pos + (j + 1) = pos + j + 1 /\ pos + j \in Int
    BY <1>0
  <2>2. (pos + j + 1) % n = (((pos + j) % n) + 1) % n
    BY ONLY <2>1, <1>0, ModNext
  <2>3. Out!TurnAt(p, j) = (pos + j) % n /\ Out!TurnAt(p, j + 1) = (pos + (j + 1)) % n
    BY <2>1, <1>3, <1>4
  <2> QED
    BY <2>1, <2>2, <2>3
<1>5. Schedule(p)
  <2>1. Len(p.reader_turn) = OutN =>
          \A j \in p.turn_pos .. p.turn_pos + OutN - 2 :
            Out!TurnAt(p, j + 1) = (Out!TurnAt(p, j) + 1) % n
    <3>1. p.turn_pos .. p.turn_pos + OutN - 2 = 0 .. OutN - 2
      BY <1>0
    <3> QED
      BY <3>1, <1>2, <1>4
  <2>2. len <= OutN
    BY <1>0
  <2> QED
    BY ONLY <2>1, <2>2, <1>2, <1>0, n = Len(p.readers), p.turn_pos = 0 DEF Schedule, Timetable
<1>6. TurnsTaken(p, <<>>)
  BY DEF TurnsTaken, ByTurn
<1> QED
  BY <1>5, <1>6

(* A queue with no readers left has no schedule.                           *)
LEMMA NoSchedule ==
  ASSUME NEW p, Len(p.readers) = 0, p.turn_pos = 0, p.reader_turn = <<>>
  PROVE  Schedule(p) /\ TurnsTaken(p, <<>>)
BY LengthAssumption DEF Schedule, Timetable, TurnsTaken, ByTurn

LEMMA ReaderRemoved ==
  ASSUME NEW q, HasReaders(q), NEW r \in Out!ReaderSet(q), NEW p \in Out!remove_reader(q, r)
  PROVE  /\ HasReaders(p) /\ p.kind = q.kind
         /\ Out!ReaderSet(p) = Out!ReaderSet(q) \ {r}
         /\ Len(p.readers) = Len(q.readers) - 1
         /\ Len(p.readers) \in Nat
         /\ p.fifo = Out!Without(q.fifo, {r})
         /\ p.write_pos = Out!Without(q.write_pos, {r})
         /\ p.read_pos = Out!Without(q.read_pos, {r})
         /\ p.tentative_read_pos = Out!Without(q.tentative_read_pos, {r})
         /\ p.reader_offset = Out!Without(q.reader_offset, {r})
         /\ p.reader_turn \in Out!ResetTurns(q, Len(q.readers) - 1)
         /\ p.turn_pos = IF q.kind \in Out!TurnKinds THEN 0 ELSE q.turn_pos
<1> DEFINE S == Out!ReaderSet(q) \ {r}
<1>1. PICK turn \in Out!ResetTurns(q, Len(q.readers) - 1) :
        p = [q EXCEPT !.readers = Out!Ascending(Out!ReaderSet(q) \ {r}),
                      !.fifo = Out!Without(@, {r}),
                      !.write_pos = Out!Without(@, {r}),
                      !.read_pos = Out!Without(@, {r}),
                      !.tentative_read_pos = Out!Without(@, {r}),
                      !.reader_offset = Out!Without(@, {r}),
                      !.reader_turn = turn,
                      !.turn_pos = IF q.kind \in Out!TurnKinds THEN 0 ELSE @]
  BY DEF Out!remove_reader
<1>2. /\ DOMAIN p = OutFields /\ p.kind = q.kind
      /\ p.readers = Out!Ascending(S)
      /\ p.fifo = Out!Without(q.fifo, {r})
      /\ p.write_pos = Out!Without(q.write_pos, {r})
      /\ p.read_pos = Out!Without(q.read_pos, {r})
      /\ p.tentative_read_pos = Out!Without(q.tentative_read_pos, {r})
      /\ p.reader_offset = Out!Without(q.reader_offset, {r})
      /\ p.reader_turn = turn
      /\ p.turn_pos = IF q.kind \in Out!TurnKinds THEN 0 ELSE q.turn_pos
  BY <1>1 DEF HasReaders, OutFields
<1>3. IsFiniteSet(Out!ReaderSet(q)) /\ IsAscending(q.readers, Out!ReaderSet(q))
      /\ Out!ReaderSet(q) \in SUBSET Nat
  BY DEF HasReaders
<1>4. S \in SUBSET Nat /\ IsFiniteSet(S) /\ Cardinality(S) = Cardinality(Out!ReaderSet(q)) - 1
  BY <1>3, FS_RemoveElement
<1>5. Len(q.readers) = Cardinality(Out!ReaderSet(q))
  BY <1>3, AscendingList
<1> HIDE DEF S
<1>6. HasReaders(p) /\ Out!ReaderSet(p) = S /\ Len(p.readers) = Cardinality(S) /\ Cardinality(S) \in Nat
  BY <1>2, <1>4, ReadersListed
<1> QED
  BY <1>2, <1>4, <1>5, <1>6 DEF S

LEMMA TurnsReset ==
  ASSUME NEW q, HasReaders(q), Timetable(q), q.kind \in {"ordered", "round-robin"},
         NEW r \in Out!ReaderSet(q), NEW p \in Out!remove_reader(q, r)
  PROVE  Schedule(p) /\ TurnsTaken(p, <<>>)
<1> DEFINE n == Len(p.readers)
           N == OutN
           pos == Out!TurnAt(q, q.turn_pos)
           end == IF N + pos < N * n THEN N + pos ELSE N * n
<1>1. /\ n \in Nat /\ n = Len(q.readers) - 1 /\ p.turn_pos = 0
      /\ p.reader_turn = SubSeq(Out!Alternating(n, N * n), pos + 1, end)
  <2>1. p.reader_turn \in Out!ResetTurns(q, Len(q.readers) - 1)
    BY ReaderRemoved
  <2>0. /\ n \in Nat /\ n = Len(q.readers) - 1
        /\ p.turn_pos = IF q.kind \in Out!TurnKinds THEN 0 ELSE q.turn_pos
    BY ReaderRemoved
  <2>2. n \in Nat /\ n = Len(q.readers) - 1 /\ p.turn_pos = 0
    BY <2>0 DEF Out!TurnKinds
  <2>3. p.reader_turn \in Out!ResetTurns(q, n)
    BY <2>1, <2>2
  <2> HIDE DEF n
  <2>4. p.reader_turn = SubSeq(Out!Alternating(n, N * n), pos + 1, end)
    BY <2>3 DEF Out!ResetTurns
  <2> QED
    BY <2>2, <2>4
<1>0. n \in Nat
  BY ReaderRemoved
<1>2. pos \in 0 .. n
  <2>1. Len(q.readers) > 0 /\ q.reader_turn # <<>> /\ q.reader_turn \in Seq(0 .. n)
    BY <1>1 DEF Timetable
  <2>2. (q.turn_pos % N) + 1 \in 1 .. Len(q.reader_turn)
    <3>1. N \in Nat \ {0} /\ q.turn_pos \in Nat /\ Len(q.reader_turn) <= N
          /\ (Len(q.reader_turn) < N => q.turn_pos = 0) /\ Len(q.reader_turn) \in Nat /\ Len(q.reader_turn) > 0
      BY <2>1, LengthAssumption DEF Timetable
    <3>0. q.turn_pos \in Int /\ OutN \in Nat \ {0}
      BY <3>1
    <3>2. q.turn_pos % N \in 0 .. N - 1
      BY ONLY <3>0, ModRange
    <3>3. 0 \in 0 .. N - 1
      BY <3>1
    <3>4. 0 % N = 0
      BY <3>1, <3>3, ModSmall
    <3> QED
      BY <3>1, <3>2, <3>4
  <2> QED
    BY <2>1, <2>2 DEF Out!TurnAt
<1> HIDE DEF n, pos
<1>3. N \in Nat /\ N >= 2 /\ N * n \in Nat
  BY <1>1, LengthAssumption
<1>4. ASSUME n > 0
      PROVE
         Out!Alternating(n, N * n) \in Seq(Int) /\ Len(Out!Alternating(n, N * n)) = N * n
      /\ \A k \in 1 .. N * n : Out!Alternating(n, N * n)[k] = (k - 1) % n
  <2> DEFINE M == N * n
  <2>1. M \in Nat
    BY <1>3
  <2> HIDE DEF M
  <2>2. Out!Alternating(n, M) = [k \in 1 .. M |-> (k - 1) % n]
    BY DEF Out!Alternating
  <2>3. \A k \in 1 .. M : (k - 1) % n \in Int
    <3>1. n \in Nat \ {0}
      BY ONLY <1>0, <1>4
    <3> SUFFICES ASSUME NEW k \in 1 .. M PROVE (k - 1) % n \in Int
      OBVIOUS
    <3>2. k - 1 \in Int
      OBVIOUS
    <3>3. (k - 1) % n \in 0 .. n - 1
      BY ONLY <3>1, <3>2, ModRange
    <3> QED
      BY <3>1, <3>3
  <2>4. Out!Alternating(n, M) \in [1 .. M -> Int]
    BY <2>2, <2>3
  <2>5. Out!Alternating(n, M) \in Seq(Int) /\ Len(Out!Alternating(n, M)) = M
    BY ONLY <2>1, <2>4, IsList
  <2> QED
    BY <2>2, <2>5 DEF M
<1>5. CASE n = 0
  <2>1. N * n = 0 /\ end = 0 /\ pos = 0
    BY <1>2, <1>3, <1>5
  <2>2. p.reader_turn = <<>>
    <3>1. pos + 1 \in Int /\ 0 \in Int /\ 0 < pos + 1
      BY <2>1
    <3>2. SubSeq(Out!Alternating(n, N * n), pos + 1, 0) = <<>>
      BY ONLY <3>1, SubSeqEmpty
    <3> QED
      BY ONLY <1>1, <2>1, <3>2
  <2> QED
    BY <1>1, <1>5, <2>2, NoSchedule DEF n
<1>6. CASE n > 0
  <2>1. N * n >= n + n
    BY <1>1, <1>3, <1>6
  <2> DEFINE len == end - pos
  <2>2. len \in 1 .. N /\ end \in 0 .. N * n /\ pos + len = end
    BY <1>1, <1>2, <1>3, <1>6, <2>1
  <2> HIDE DEF end, len
  <2>3. p.reader_turn = [k \in 1 .. len |-> (pos + k - 1) % n]
    <3>1. p.reader_turn = [k \in 1 .. len |-> Out!Alternating(n, N * n)[pos + k]]
      BY <1>1, <1>2, <1>3, <1>4, <1>6, <2>2
    <3>2. \A k \in 1 .. len : pos + k \in 1 .. N * n
      BY <1>1, <1>2, <1>3, <2>2
    <3>3. \A k \in 1 .. len : Out!Alternating(n, N * n)[pos + k] = (pos + k - 1) % n
      <4>1. \A k \in 1 .. N * n : Out!Alternating(n, N * n)[k] = (k - 1) % n
        BY ONLY <1>4, <1>6
      <4> HIDE DEF N
      <4> SUFFICES ASSUME NEW k \in 1 .. len
                   PROVE  Out!Alternating(n, N * n)[pos + k] = (pos + k - 1) % n
        OBVIOUS
      <4>2. Out!Alternating(n, N * n)[pos + k] = ((pos + k) - 1) % n
        BY ONLY <3>2, <4>1, k \in 1 .. len
      <4>3. (pos + k) - 1 = pos + k - 1
        BY ONLY <1>0, <1>2, <2>2, k \in 1 .. len
      <4> QED
        BY <4>2, <4>3
    <3> QED
      BY ONLY <3>1, <3>3
  <2>4. pos \in Nat
    BY <1>1, <1>2
  <2> QED
    <3>1. n = Len(p.readers) /\ n \in Nat /\ len \in 1 .. OutN /\ p.turn_pos = 0
      BY <1>1, <2>2 DEF n
    <3>2. Alternates(p, n, len, pos)
      BY ONLY <3>1, <1>6, <2>3, <2>4 DEF Alternates
    <3> QED
      BY ONLY <3>2, AlternatingSchedule
<1>7. n = 0 \/ n > 0
  BY ONLY <1>0
<1> QED
  BY <1>5, <1>6, <1>7, Zenon

(* What leaves the list of readers and the schedule as they are.           *)
SameReaders(p, q) ==
  /\ DOMAIN p = DOMAIN q /\ p.kind = q.kind /\ p.readers = q.readers
  /\ p.reader_turn = q.reader_turn /\ p.turn_pos = q.turn_pos

LEMMA SameReadersKeeps ==
  ASSUME NEW p, NEW q, SameReaders(p, q)
  PROVE  /\ HasReaders(q) => HasReaders(p)
         /\ Out!ReaderSet(p) = Out!ReaderSet(q)
         /\ Schedule(q) => Schedule(p)
         /\ \A taken : TurnsTaken(q, taken) => TurnsTaken(p, taken)
<1>1. Out!ReaderSet(p) = Out!ReaderSet(q)
  BY DEF SameReaders, Out!ReaderSet
<1>2. \A x : Out!TurnAt(p, x) = Out!TurnAt(q, x)
  BY DEF SameReaders, Out!TurnAt
<1>3. HasReaders(q) => HasReaders(p)
  BY <1>1 DEF SameReaders, HasReaders
<1>4. Schedule(q) => Schedule(p)
  BY <1>2 DEF SameReaders, Schedule, Timetable
<1>5. ASSUME NEW taken, TurnsTaken(q, taken) PROVE TurnsTaken(p, taken)
  <2>1. p.readers = q.readers /\ Out!TurnAt(p, p.turn_pos) = Out!TurnAt(q, q.turn_pos)
    BY <1>2 DEF SameReaders
  <2> QED
    BY ONLY <2>1, <1>5 DEF TurnsTaken
<1> QED
  BY <1>1, <1>3, <1>4, <1>5

LEMMA CommunicatingSameReaders ==
  ASSUME NEW q, DOMAIN q = OutFields, NEW r, NEW k, NEW to, NEW token
  PROVE  /\ SameReaders(Out!Peeked(q, r, k), q)
         /\ SameReaders(Out!Moved(q, r, k), q)
         /\ SameReaders(Out!com_commit(q, r, k), q)
         /\ SameReaders(Out!com_cancel(q, r, k), q)
         /\ SameReaders(Out!Put(q, to, token), q)
BY DEF SameReaders, OutFields, Out!Peeked, Out!Moved, Out!com_commit, Out!com_cancel, Out!Put

-----------------------------------------------------------------------------
(* The ports and their readers in every state.                             *)
ReadersInv ==
  /\ conf \in Scenarios
  /\ DOMAIN outq = Outs
  /\ DOMAIN turns = Outs
  /\ out_endpoint \subseteq Links
  /\ unjoined \subseteq conf.late
  /\ \A o \in Outs : HasReaders(outq[o]) /\ outq[o].kind = conf.out
  /\ \A l \in out_endpoint : l[2] \in Out!ReaderSet(outq[l[1]])

ByTurns == conf.out \in {"ordered", "round-robin"} /\ conf.late = {}

TurnInv ==
  ByTurns => \A o \in Outs : Schedule(outq[o]) /\ TurnsTaken(outq[o], turns[o])

LEMMA LinkEnds ==
  ASSUME conf \in Scenarios, NEW l \in Links
  PROVE  l[1] \in Outs /\ l[2] \in Ins /\ l[1] \in Nat /\ l[2] \in Nat /\ l = <<l[1], l[2]>>
BY ScenarioAssumption DEF Links, Outs, Ins

LEMMA ReadersFinite ==
  ASSUME conf \in Scenarios, NEW links \in SUBSET Links, NEW o
  PROVE  ReadersOf(links, o) \in SUBSET Nat /\ IsFiniteSet(ReadersOf(links, o))
<1>1. IsFiniteSet(links)
  BY FS_Subset, ScenarioAssumption DEF Links
<1>2. IsFiniteSet({l \in links : l[1] = o})
  BY <1>1, FS_Subset
<1> DEFINE S == {l \in links : l[1] = o}
           f == [l \in S |-> l[2]]
<1>3. f \in Surjection(S, ReadersOf(links, o))
  <2>1. f \in [S -> ReadersOf(links, o)] /\ \A r \in ReadersOf(links, o) : \E l \in S : f[l] = r
    BY DEF ReadersOf
  <2> QED
    BY <2>1, Fun_IsSurj
<1>4. IsFiniteSet(ReadersOf(links, o))
  BY <1>2, <1>3, FS_Surjection
<1> QED
  BY <1>4, LinkEnds DEF ReadersOf

LEMMA ReadersInit ==
  ASSUME Init
  PROVE  /\ ReadersInv /\ TurnInv
         /\ conf.out \in {"ordered", "round-robin"} => \A o \in Outs : Schedule(outq[o])
<1> DEFINE first == conf.links \ conf.late
<1>1. /\ conf \in Scenarios /\ DOMAIN outq = Outs /\ out_endpoint = first
      /\ turns = [o \in Outs |-> <<>>] /\ unjoined = conf.late
      /\ first \in SUBSET Links
  BY DEF Init, Links
<1>2. ASSUME NEW o \in Outs
      PROVE  /\ HasReaders(outq[o]) /\ outq[o].kind = conf.out
             /\ Out!ReaderSet(outq[o]) = ReadersOf(first, o)
             /\ conf.out \in {"ordered", "round-robin"} =>
                  Schedule(outq[o]) /\ TurnsTaken(outq[o], turns[o])
  <2> DEFINE q == outq[o]
  <2>1. Out!ReaderSet(q) = ReadersOf(first, o)
    BY DEF Init
  <2>2. PICK p \in Outs : q \in Out!NewOutQueues(conf.out, ReadersOf(first, p))
    <3>1. outq \in [Outs -> UNION {Out!NewOutQueues(conf.out, ReadersOf(first, p)) : p \in Outs}]
      BY DEF Init
    <3>2. q \in UNION {Out!NewOutQueues(conf.out, ReadersOf(first, p)) : p \in Outs}
      BY ONLY <3>1, o \in Outs
    <3> QED
      BY ONLY <3>2
  <2> DEFINE R == ReadersOf(first, p)
             n == Cardinality(R)
  <2>3. R \in SUBSET Nat /\ IsFiniteSet(R)
    BY <1>1, ReadersFinite
  <2>4. PICK turn \in Out!FirstTurns(conf.out, n) :
          /\ DOMAIN q = OutFields /\ q.kind = conf.out /\ q.readers = Out!Ascending(R)
          /\ q.reader_turn = turn /\ q.turn_pos = 0
    <3>1. \A T : Out!Cardinality(T) = Cardinality(T)
      BY DEF Out!Cardinality, Cardinality
    <3>2. PICK turn \in Out!FirstTurns(conf.out, n) :
            q = [kind |-> conf.out, readers |-> Out!Ascending(R), reader_turn |-> turn,
                 turn_pos |-> 0,
                 fifo |-> [r \in R |-> Out!EmptyRing],
                 write_pos |-> [r \in R |-> 0],
                 read_pos |-> [r \in R |-> 0],
                 tentative_read_pos |-> [r \in R |-> 0],
                 reader_offset |-> [r \in R |-> 0]]
      BY <2>2, <3>1 DEF Out!NewOutQueues
    <3> HIDE DEF q, R
    <3> QED
      BY <3>2 DEF OutFields
  <2> HIDE DEF q, R
  <2>5. HasReaders(q) /\ Out!ReaderSet(q) = R /\ Len(q.readers) = n /\ n \in Nat
    BY <2>3, <2>4, ReadersListed
  <2>6. ASSUME conf.out \in {"ordered", "round-robin"}
        PROVE  Schedule(q) /\ TurnsTaken(q, <<>>)
    <3>1. q.reader_turn = Out!Alternating(n, OutN)
      BY <2>4, <2>6 DEF Out!FirstTurns
    <3>2. R # {}
      <4>1. PICK l \in conf.links : l[1] = o
        BY DEF Outs, Links
      <4>2. PICK m \in first : m[1] = o
        BY <1>1, <4>1, ScenarioAssumption
      <4> QED
        BY <4>2, <2>1, <2>5 DEF ReadersOf
    <3>3. n > 0
      <4>1. n # 0
        BY <3>2, <2>3, FS_EmptySet
      <4> QED
        BY <4>1, <2>5
    <3>4. q.reader_turn = [k \in 1 .. OutN |-> (0 + k - 1) % n]
      BY <3>1 DEF Out!Alternating
    <3>5. OutN \in 1 .. OutN /\ 0 \in Nat
      BY LengthAssumption
    <3>6. Alternates(q, n, OutN, 0)
      BY ONLY <2>4, <2>5, <3>3, <3>4, <3>5 DEF Alternates
    <3> QED
      BY ONLY <3>6, AlternatingSchedule
  <2> QED
    BY <1>1, <2>1, <2>4, <2>5, <2>6 DEF q, R
<1>3. \A l \in out_endpoint : l[2] \in Out!ReaderSet(outq[l[1]])
  BY <1>1, <1>2, LinkEnds DEF ReadersOf
<1> QED
  BY <1>1, <1>2, <1>3 DEF ReadersInv, TurnInv, ByTurns

-----------------------------------------------------------------------------
LEMMA WrittenReaders ==
  ASSUME NEW q, HasReaders(q), NEW to, NEW token, NEW w \in Out!write(q, to, token)
  PROVE  /\ HasReaders(w) /\ Out!ReaderSet(w) = Out!ReaderSet(q) /\ w.kind = q.kind
         /\ \E p \in Out!Turned(q) : w = Out!Put(p, to, token)
<1>1. PICK p \in Out!Turned(q) : w = Out!Put(p, to, token)
  BY DEF Out!write
<1>2. p.readers = q.readers /\ DOMAIN p = OutFields /\ p.kind = q.kind
  BY DEF Out!Turned, HasReaders, OutFields
<1>3. Out!ReaderSet(p) = Out!ReaderSet(q)
  BY <1>2 DEF Out!ReaderSet
<1>4. HasReaders(p)
  BY <1>2, <1>3 DEF HasReaders
<1> QED
  BY <1>1, <1>2, <1>3, <1>4, CommunicatingSameReaders, SameReadersKeeps DEF SameReaders

LEMMA ReaderAdded ==
  ASSUME NEW q, HasReaders(q), NEW r \in Nat
  PROVE  /\ HasReaders(Out!add_reader(q, r)) /\ Out!add_reader(q, r).kind = q.kind
         /\ Out!ReaderSet(Out!add_reader(q, r)) = Out!ReaderSet(q) \cup {r}
<1> DEFINE p == Out!add_reader(q, r)
           S == Out!ReaderSet(q) \cup {r}
<1>1. DOMAIN p = OutFields /\ p.kind = q.kind /\ p.readers = Out!Ascending(S)
  BY DEF Out!add_reader, HasReaders, OutFields
<1>2. S \in SUBSET Nat /\ IsFiniteSet(S)
  BY FS_AddElement DEF HasReaders
<1> HIDE DEF p, S
<1>3. HasReaders(p) /\ Out!ReaderSet(p) = S
  BY <1>1, <1>2, ReadersListed
<1> QED
  BY <1>1, <1>3 DEF p, S

(* Steps that leave the readers and the turns of every queue as they are.  *)
QueuesKeepReaders ==
  /\ UNCHANGED <<conf, out_endpoint, unjoined, turns>>
  /\ DOMAIN outq' = DOMAIN outq
  /\ \A o \in Outs : outq'[o] = outq[o] \/ SameReaders(outq'[o], outq[o])

LEMMA KeepReaders ==
  ASSUME ReadersInv, TurnInv, QueuesKeepReaders
  PROVE  ReadersInv' /\ TurnInv'
<1>1. Outs' = Outs /\ Links' = Links /\ ByTurns' = ByTurns
  BY DEF QueuesKeepReaders, Outs, Links, ByTurns
<1>2. ASSUME NEW o \in Outs
      PROVE  /\ HasReaders(outq'[o]) /\ outq'[o].kind = conf.out
             /\ Out!ReaderSet(outq'[o]) = Out!ReaderSet(outq[o])
             /\ ByTurns => Schedule(outq'[o]) /\ TurnsTaken(outq'[o], turns[o])
  <2>1. HasReaders(outq[o]) /\ outq[o].kind = conf.out
        /\ (ByTurns => Schedule(outq[o]) /\ TurnsTaken(outq[o], turns[o]))
    BY DEF ReadersInv, TurnInv
  <2>2. CASE outq'[o] = outq[o]
    BY <2>1, <2>2
  <2>3. CASE SameReaders(outq'[o], outq[o])
    <3>1. outq'[o].kind = outq[o].kind
      BY <2>3 DEF SameReaders
    <3> QED
      BY <2>1, <2>3, <3>1, SameReadersKeeps
  <2> QED
    BY <2>2, <2>3 DEF QueuesKeepReaders
<1>3. ReadersInv'
  <2>1. \A l \in out_endpoint : l[1] \in Outs
    BY LinkEnds DEF ReadersInv
  <2> QED
    BY <1>1, <1>2, <2>1 DEF ReadersInv, QueuesKeepReaders
<1>4. TurnInv'
  BY <1>1, <1>2 DEF TurnInv, QueuesKeepReaders
<1> QED
  BY <1>3, <1>4

LEMMA ProduceTurns ==
  ASSUME ReadersInv, TurnInv, NEW o \in Outs, Produce(o)
  PROVE  ReadersInv' /\ TurnInv'
<1>1. UNCHANGED <<conf, out_endpoint, unjoined>>
  BY DEF Produce, ends
<1>2. PICK token \in {serial'} \cup (IF conf.exceptions THEN {-serial'} ELSE {}),
           to \in Out!Destinations(outq[o], ReadersOf(Links, o)) :
       IF Out!TurnRaises(outq[o]) \/ ~(to \subseteq Out!ReaderSet(outq[o]))
       THEN UNCHANGED <<outq, dispatched, turns>>
       ELSE /\ \E q \in Out!write(outq[o], to, token) : outq' = [outq EXCEPT ![o] = q]
            /\ dispatched' = [l \in Links |-> IF l[1] = o /\ l[2] \in to
                                              THEN Append(dispatched[l], token)
                                              ELSE dispatched[l]]
            /\ turns' = IF conf.out \in Out!TurnKinds
                        THEN [turns EXCEPT ![o] = Append(@, CHOOSE r \in to : TRUE)]
                        ELSE turns
  BY DEF Produce
<1>3. CASE UNCHANGED <<outq, turns>>
  <2>1. QueuesKeepReaders
    BY <1>1, <1>3 DEF QueuesKeepReaders
  <2> QED
    BY <2>1, KeepReaders
<1>4. CASE ~Out!TurnRaises(outq[o]) /\ to \subseteq Out!ReaderSet(outq[o])
  <2>1. PICK w \in Out!write(outq[o], to, token) : outq' = [outq EXCEPT ![o] = w]
    BY <1>2, <1>4
  <2>2. HasReaders(outq[o]) /\ outq[o].kind = conf.out
    BY DEF ReadersInv
  <2>3. /\ HasReaders(w) /\ Out!ReaderSet(w) = Out!ReaderSet(outq[o]) /\ w.kind = conf.out
        /\ \E p \in Out!Turned(outq[o]) : w = Out!Put(p, to, token)
    BY <2>2, WrittenReaders
  <2>4. Outs' = Outs /\ Links' = Links /\ ByTurns' = ByTurns
    BY <1>1 DEF Outs, Links, ByTurns
  <2>5. DOMAIN outq' = Outs /\ \A p \in Outs : outq'[p] = IF p = o THEN w ELSE outq[p]
    BY <2>1 DEF ReadersInv
  <2>6. DOMAIN turns' = Outs
    BY <1>2, <1>4 DEF ReadersInv
  <2>7. ReadersInv'
    <3>1. \A p \in Outs : HasReaders(outq'[p]) /\ outq'[p].kind = conf.out
          /\ Out!ReaderSet(outq'[p]) = Out!ReaderSet(outq[p])
      BY <2>3, <2>5 DEF ReadersInv
    <3>2. \A l \in out_endpoint : l[1] \in Outs
      BY LinkEnds DEF ReadersInv
    <3> QED
      BY <1>1, <2>4, <2>5, <2>6, <3>1, <3>2 DEF ReadersInv
  <2>8. ASSUME ByTurns PROVE Schedule(w) /\ TurnsTaken(w, turns'[o])
    <3> DEFINE next == Out!NextReader(outq[o])
    <3>1. to = {next}
      BY <2>2, <2>8 DEF Out!Destinations, Out!TurnKinds, ByTurns
    <3>2. (CHOOSE r \in to : TRUE) = next /\ next \in Out!ReaderSet(outq[o])
      BY <3>1, <1>4
    <3> HIDE DEF next
    <3>3. turns'[o] = Append(turns[o], next)
      BY <1>2, <1>4, <2>8, <3>2 DEF ReadersInv, ByTurns, Out!TurnKinds
    <3>4. PICK p \in Out!Turned(outq[o]) : w = Out!Put(p, to, token)
      BY <2>3
    <3>5. Schedule(outq[o]) /\ TurnsTaken(outq[o], turns[o])
          /\ outq[o].kind \in {"ordered", "round-robin"}
      BY <2>2, <2>8 DEF TurnInv, ByTurns
    <3>6. /\ p = [outq[o] EXCEPT !.reader_turn = p.reader_turn, !.turn_pos = p.turn_pos]
          /\ Schedule(p) /\ TurnsTaken(p, Append(turns[o], next))
      BY <2>2, <3>2, <3>4, <3>5, <1>4, TurnTaken DEF next
    <3>7. DOMAIN p = OutFields
      BY ONLY <3>6, <2>2 DEF HasReaders
    <3>8. SameReaders(w, p)
      BY <3>4, <3>7, CommunicatingSameReaders
    <3> QED
      BY <3>3, <3>6, <3>8, SameReadersKeeps
  <2>9. ASSUME NEW p \in Outs, p # o PROVE turns'[p] = turns[p]
    BY <1>2, <1>4, <2>9 DEF ReadersInv
  <2>10. TurnInv'
    BY <1>1, <2>4, <2>5, <2>8, <2>9 DEF TurnInv
  <2> QED
    BY <2>7, <2>10
<1> QED
  BY <1>2, <1>3, <1>4

LEMMA DetachTurns ==
  ASSUME ReadersInv, TurnInv, NEW l \in out_endpoint, DetachOut(l),
         UNCHANGED <<conf, unjoined>>
  PROVE  ReadersInv' /\ TurnInv'
<1> DEFINE o == l[1]
<1>1. o \in Outs /\ HasReaders(outq[o]) /\ outq[o].kind = conf.out
      /\ l[2] \in Out!ReaderSet(outq[o]) /\ l \in Links
  BY LinkEnds DEF ReadersInv
<1>2. PICK w \in Out!remove_reader(outq[o], l[2]) : outq' = [outq EXCEPT ![o] = w]
  BY DEF DetachOut
<1>3. HasReaders(w) /\ w.kind = conf.out /\ Out!ReaderSet(w) = Out!ReaderSet(outq[o]) \ {l[2]}
  <2>1. ASSUME NEW q, HasReaders(q), NEW r \in Out!ReaderSet(q), NEW p \in Out!remove_reader(q, r)
        PROVE  HasReaders(p) /\ p.kind = q.kind /\ Out!ReaderSet(p) = Out!ReaderSet(q) \ {r}
    BY <2>1, ReaderRemoved
  <2> QED
    BY <1>1, <2>1
<1>4. Outs' = Outs /\ Links' = Links /\ ByTurns' = ByTurns
  BY DEF Outs, Links, ByTurns
<1>5. /\ DOMAIN outq' = Outs /\ \A p \in Outs : outq'[p] = IF p = o THEN w ELSE outq[p]
      /\ DOMAIN turns' = Outs /\ \A p \in Outs : turns'[p] = IF p = o THEN <<>> ELSE turns[p]
  BY <1>1, <1>2 DEF ReadersInv, DetachOut
<1> HIDE DEF o
<1>6. ReadersInv'
  <2>1. \A m \in out_endpoint' : m[2] \in Out!ReaderSet(outq'[m[1]])
    <3> SUFFICES ASSUME NEW m \in out_endpoint' PROVE m[2] \in Out!ReaderSet(outq'[m[1]])
      OBVIOUS
    <3>1. m \in out_endpoint /\ m # l /\ m \in Links
      BY DEF DetachOut, ReadersInv
    <3>2. m[1] \in Outs /\ m = <<m[1], m[2]>> /\ l = <<l[1], l[2]>> /\ m[2] \in Out!ReaderSet(outq[m[1]])
      BY <1>1, <3>1, LinkEnds DEF ReadersInv
    <3>3. m[1] = o => m[2] # l[2]
      BY <3>1, <3>2 DEF o
    <3> QED
      BY <1>3, <1>5, <3>2, <3>3
  <2>2. out_endpoint' \subseteq Links
    BY DEF DetachOut, ReadersInv
  <2> QED
    BY <1>3, <1>4, <1>5, <2>1, <2>2 DEF ReadersInv
<1>7. ASSUME ByTurns PROVE Schedule(w) /\ TurnsTaken(w, <<>>)
  <2>1. Timetable(outq[o]) /\ outq[o].kind \in {"ordered", "round-robin"}
    BY <1>1, <1>7 DEF TurnInv, ByTurns, Schedule
  <2> QED
    BY <1>1, <2>1, TurnsReset
<1>8. TurnInv'
  BY <1>4, <1>5, <1>7 DEF TurnInv
<1> QED
  BY <1>6, <1>8

LEMMA JoinTurns ==
  ASSUME ReadersInv, TurnInv, NEW l \in Links, Join(l)
  PROVE  ReadersInv' /\ TurnInv'
<1> DEFINE o == l[1]
           w == Out!add_reader(outq[o], l[2])
<1>1. o \in Outs /\ l[2] \in Nat /\ HasReaders(outq[o]) /\ outq[o].kind = conf.out
  BY LinkEnds DEF ReadersInv
<1>2. outq' = [outq EXCEPT ![o] = w]
  BY DEF Join
<1>3. HasReaders(w) /\ w.kind = conf.out /\ Out!ReaderSet(w) = Out!ReaderSet(outq[o]) \cup {l[2]}
  BY <1>1, ReaderAdded
<1>4. conf' = conf /\ Outs' = Outs /\ Links' = Links /\ ByTurns' = ByTurns
  BY DEF Join, Outs, Links, ByTurns
<1> HIDE DEF w
<1>5. DOMAIN outq' = Outs /\ (\A p \in Outs : outq'[p] = IF p = o THEN w ELSE outq[p])
      /\ DOMAIN turns' = Outs
  BY <1>1, <1>2 DEF ReadersInv, Join
<1> HIDE DEF o
<1>6. ReadersInv'
  <2>1. out_endpoint' = out_endpoint \cup {l} /\ unjoined' \subseteq unjoined
    BY DEF Join
  <2>2. \A m \in out_endpoint' : m[2] \in Out!ReaderSet(outq'[m[1]])
    <3> SUFFICES ASSUME NEW m \in out_endpoint' PROVE m[2] \in Out!ReaderSet(outq'[m[1]])
      OBVIOUS
    <3>1. CASE m = l
      BY <1>1, <1>3, <1>5, <3>1 DEF o
    <3>2. CASE m \in out_endpoint
      <4>1. m[1] \in Outs /\ m[2] \in Out!ReaderSet(outq[m[1]])
        BY <3>2, LinkEnds DEF ReadersInv
      <4> QED
        BY <1>3, <1>5, <4>1
    <3> QED
      BY <2>1, <3>1, <3>2
  <2> QED
    BY <1>3, <1>4, <1>5, <2>1, <2>2 DEF ReadersInv
<1>7. ~ByTurns
  BY DEF Join, ReadersInv, ByTurns
<1>8. TurnInv'
  BY <1>4, <1>7 DEF TurnInv
<1> QED
  BY <1>6, <1>8

LEMMA ReadersNext ==
  ASSUME ReadersInv, TurnInv, [Next]_vars
  PROVE  ReadersInv' /\ TurnInv'
<1> DEFINE Kept == UNCHANGED <<conf, out_endpoint, unjoined, turns>>
           ChangeAt(l, q) == outq' = [outq EXCEPT ![l[1]] = q] /\ SameReaders(q, outq[l[1]])
<1>1. ASSUME Kept, UNCHANGED outq PROVE ReadersInv' /\ TurnInv'
  <2>1. QueuesKeepReaders
    BY <1>1 DEF QueuesKeepReaders
  <2> QED
    BY <2>1, KeepReaders
<1>2. ASSUME NEW l \in Links, NEW q, Kept, ChangeAt(l, q) PROVE ReadersInv' /\ TurnInv'
  <2>1. QueuesKeepReaders
    BY <1>2 DEF QueuesKeepReaders, ReadersInv
  <2> QED
    BY <2>1, KeepReaders
<1>3. ASSUME NEW l \in Links PROVE DOMAIN outq[l[1]] = OutFields
  BY LinkEnds DEF ReadersInv, HasReaders
<1>4. CASE UNCHANGED vars
  BY <1>1, <1>4 DEF vars, queues, ends
<1>5. ASSUME NEW o \in Outs, Produce(o) PROVE ReadersInv' /\ TurnInv'
  BY <1>5, ProduceTurns
<1>6. ASSUME NEW i \in Ins, Consume(i) PROVE ReadersInv' /\ TurnInv'
  BY <1>1, <1>6 DEF Consume, ends
<1>7. ASSUME NEW l \in Links, Communicate(l) PROVE ReadersInv' /\ TurnInv'
  <2>1. PICK k : outq' = [outq EXCEPT ![l[1]] = Out!Peeked(outq[l[1]], l[2], k)]
    BY <1>7 DEF Communicate
  <2>2. Kept
    BY <1>7 DEF Communicate, ends
  <2> QED
    BY <2>1, <2>2, <1>2, <1>3, CommunicatingSameReaders
<1>8. ASSUME NEW l \in Links, CommunicateLocal(l) PROVE ReadersInv' /\ TurnInv'
  <2>1. PICK k : outq' = [outq EXCEPT ![l[1]] = Out!Moved(outq[l[1]], l[2], k)]
    BY <1>8 DEF CommunicateLocal
  <2>2. Kept
    BY <1>8 DEF CommunicateLocal, ends
  <2> QED
    BY <2>1, <2>2, <1>2, <1>3, CommunicatingSameReaders
<1>9. ASSUME NEW l \in Links, ReceiveReply(l) PROVE ReadersInv' /\ TurnInv'
  <2>1. Kept
    BY <1>9 DEF ReceiveReply
  <2>2. UNCHANGED outq \/ \E q : outq' = [outq EXCEPT ![l[1]] = q]
          /\ \E k : q = Out!com_commit(outq[l[1]], l[2], k) \/ q = Out!com_cancel(outq[l[1]], l[2], k)
    BY <1>9 DEF ReceiveReply
  <2> QED
    BY <2>1, <2>2, <1>1, <1>2, <1>3, CommunicatingSameReaders
<1>10. ASSUME NEW l \in Links, ReceiveToken(l) PROVE ReadersInv' /\ TurnInv'
  BY <1>1, <1>10 DEF ReceiveToken, ends
<1>11. ASSUME NEW l \in Links,
              DisconnectionRequestIn(l) \/ DisconnectedPeerIn(l) \/ ExhaustIn(l)
       PROVE  ReadersInv' /\ TurnInv'
  BY <1>1, <1>11 DEF DisconnectionRequestIn, DisconnectedPeerIn, ExhaustIn
<1>12. ASSUME NEW l \in Links, DisconnectedPeerOut(l) PROVE ReadersInv' /\ TurnInv'
  BY <1>1, <1>12 DEF DisconnectedPeerOut, ends, queues
<1>13. ASSUME NEW l \in Links, ExhaustOut(l) \/ ExhaustLocal(l)
       PROVE  ReadersInv' /\ TurnInv'
  <2>1. l \in out_endpoint /\ DetachOut(l) /\ UNCHANGED <<conf, unjoined>>
    BY <1>13 DEF ExhaustOut, ExhaustLocal
  <2> QED
    BY <2>1, DetachTurns
<1>14. ASSUME NEW l \in Links, DisconnectionRequestOut(l) PROVE ReadersInv' /\ TurnInv'
  <2>1. CASE l \in out_endpoint
    <3>1. DetachOut(l) /\ UNCHANGED <<conf, unjoined>>
      BY <1>14, <2>1 DEF DisconnectionRequestOut
    <3> QED
      BY <2>1, <3>1, DetachTurns
  <2>2. CASE l \notin out_endpoint
    BY <1>1, <1>14, <2>2 DEF DisconnectionRequestOut
  <2> QED
    BY <2>1, <2>2
<1>15. ASSUME NEW l \in Links, Join(l) PROVE ReadersInv' /\ TurnInv'
  BY <1>15, JoinTurns
<1> QED
  BY <1>4, <1>5, <1>6, <1>7, <1>8, <1>9, <1>10, <1>11, <1>12, <1>13, <1>14, <1>15
     DEF Next, Transmit, ArriveIn, ArriveOut

(* A queue that goes by turns gives them to its readers one after the      *)
(* other, all around: FanoutOrderedFIFO._ordered and _reset_turn, as long  *)
(* as no replica joins, which has no place in the schedule.                *)
THEOREM TurnsInOrder == Spec => [](conf.late = {} => InTurn)
<1>1. Init => ReadersInv /\ TurnInv
  BY ReadersInit
<1>2. ReadersInv /\ TurnInv /\ [Next]_vars => (ReadersInv /\ TurnInv)'
  BY ReadersNext
<1>3. ReadersInv /\ TurnInv => (conf.late = {} => InTurn)
  <2> SUFFICES ASSUME ReadersInv, TurnInv, ByTurns, NEW o \in Outs,
                      NEW k \in 1 .. Len(turns[o]) - 1
               PROVE  LET readers == outq[o].readers
                          Index(r) == CHOOSE j \in DOMAIN readers : readers[j] = r
                      IN  Index(turns[o][k + 1]) = (Index(turns[o][k]) % Len(readers)) + 1
    BY DEF InTurn, ByTurns
  <2> DEFINE readers == outq[o].readers
             n == Len(readers)
             Index(r) == CHOOSE j \in DOMAIN readers : readers[j] = r
  <2> SUFFICES Index(turns[o][k + 1]) = (Index(turns[o][k]) % n) + 1
    OBVIOUS
  <2>1. PICK i \in 1 .. n :
          turns[o][k] = readers[i] /\ turns[o][k + 1] = readers[(i % n) + 1]
    BY DEF TurnInv, TurnsTaken, ByTurn
  <2>2. /\ \A j, m \in DOMAIN readers : readers[j] = readers[m] => j = m
        /\ n \in Nat /\ readers \in Seq(Nat)
    BY AscendingList DEF ReadersInv, HasReaders
  <2> HIDE DEF readers, n
  <2>3. i \in DOMAIN readers /\ (i % n) + 1 \in DOMAIN readers
    <3>1. n \in Nat \ {0} /\ i \in Int /\ DOMAIN readers = 1 .. n
      BY <2>2 DEF n
    <3>2. i % n \in 0 .. n - 1
      BY ONLY <3>1, ModRange
    <3> QED
      BY <3>1, <3>2
  <2>4. ASSUME NEW j \in DOMAIN readers PROVE Index(readers[j]) = j
    <3>1. \A m \in DOMAIN readers : readers[m] = readers[j] => m = j
      BY <2>2, <2>4
    <3> QED
      BY <3>1, <2>4
  <2>5. Index(readers[i]) = i /\ Index(readers[(i % n) + 1]) = (i % n) + 1
    BY <2>3, <2>4
  <2> HIDE DEF Index
  <2> QED
    BY ONLY <2>1, <2>5
<1> QED
  BY <1>1, <1>2, <1>3, PTL DEF Spec

(* The items of D with the numbers from a on: what remains of a link.      *)
Rest(items, D, a, count) ==
  items = [k \in 1 .. count |-> [seq |-> a + k - 1, token |-> D[a + k]]]

(* A ring holds the tokens of D between two positions.                     *)
Holds(ring, D, from, to) == \A k \in from .. to - 1 : ring[k % InN] = D[k + 1]

Item == [seq : Nat, token : Token]

IsInRing(ring) == ring \in [0 .. InN - 1 -> Token \cup {NoToken}]

LEMMA RestItems ==
  ASSUME NEW D \in Seq(Token), NEW a \in Nat, NEW count \in Nat, a + count <= Len(D),
         NEW items, Rest(items, D, a, count)
  PROVE  items \in Seq(Item) /\ Len(items) = count
<1>1. ASSUME NEW k \in 1 .. count PROVE [seq |-> a + k - 1, token |-> D[a + k]] \in Item
  <2>1. a + k \in 1 .. Len(D) /\ a + k - 1 \in Nat
    OBVIOUS
  <2>2. D[a + k] \in Token
    BY <2>1, ElementOfSeq
  <2> QED
    BY <2>1, <2>2 DEF Item
<1>2. items \in [1 .. count -> Item]
  BY <1>1 DEF Rest
<1> QED
  BY ONLY <1>2, IsList, count \in Nat

LEMMA NewItems ==
  ASSUME NEW D \in Seq(Token), NEW a \in Nat, NEW count \in Nat, a + count <= Len(D),
         NEW items, Rest(items, D, a, count), NEW pos \in Nat, a <= pos
  PROVE  LET new == In!New(pos, items)
             len == IF pos < a + count THEN a + count - pos ELSE 0
         IN  /\ new \in Seq(Item) /\ Len(new) = len
             /\ \A k \in 1 .. len : new[k] = [seq |-> pos + k - 1, token |-> D[pos + k]]
<1> DEFINE new == In!New(pos, items)
           len == IF pos < a + count THEN a + count - pos ELSE 0
<1> SUFFICES /\ new \in Seq(Item) /\ Len(new) = len
             /\ \A k \in 1 .. len : new[k] = [seq |-> pos + k - 1, token |-> D[pos + k]]
  OBVIOUS
<1>1. items \in Seq(Item) /\ Len(items) = count
  BY RestItems
<1>2. \A k \in 1 .. count : items[k] = [seq |-> a + k - 1, token |-> D[a + k]] /\ items[k].seq = a + k - 1
  BY DEF Rest
<1>3. CASE pos < a + count
  <2>1. count >= 1 /\ items # <<>>
    BY <1>3, <1>1, EmptySeq
  <2>2. items[1].seq = a
    <3>1. 1 \in 1 .. count /\ a + 1 - 1 = a
      BY <2>1
    <3> QED
      BY ONLY <3>1, <1>2
  <2>3. new = SubSeq(items, pos - a + 1, count)
    BY <1>1, <1>3, <2>1, <2>2 DEF In!New
  <2>4. \A k \in pos - a + 1 .. count : items[k] \in Item
    BY <1>1, ElementOfSeq
  <2>5. pos - a + 1 \in Int /\ count \in Int
    OBVIOUS
  <2>6. /\ new \in Seq(Item)
        /\ Len(new) = IF pos - a + 1 <= count THEN count - (pos - a + 1) + 1 ELSE 0
        /\ \A k \in 1 .. count - (pos - a + 1) + 1 : new[k] = items[(pos - a + 1) + k - 1]
    BY ONLY <2>3, <2>4, <2>5, SubSeqProperties
  <2> HIDE DEF new
  <2>7. Len(new) = a + count - pos
    BY <2>6, <1>3
  <2>8. ASSUME NEW k \in 1 .. a + count - pos
        PROVE  new[k] = [seq |-> pos + k - 1, token |-> D[pos + k]]
    <3>1. k \in 1 .. count - (pos - a + 1) + 1 /\ (pos - a + 1) + k - 1 = pos - a + k
      OBVIOUS
    <3>2. pos - a + k \in 1 .. count /\ a + (pos - a + k) = pos + k
          /\ a + (pos - a + k) - 1 = pos + k - 1
      OBVIOUS
    <3> QED
      BY ONLY <3>1, <3>2, <2>6, <1>2
  <2> QED
    BY <1>3, <2>6, <2>7, <2>8
<1>4. CASE ~(pos < a + count)
  <2>1. new = <<>>
    <3>1. CASE items # <<>> /\ pos - items[1].seq \in 0 .. Len(items)
      <4>1. count >= 1
        BY <3>1, <1>1, EmptySeq
      <4>2. items[1].seq = a
        <5>1. 1 \in 1 .. count /\ a + 1 - 1 = a
          BY <4>1
        <5> QED
          BY ONLY <5>1, <1>2
      <4>3. pos - a = count
        BY <3>1, <4>2, <1>1, <1>4
      <4>4. new = SubSeq(items, count + 1, count)
        BY <3>1, <4>2, <4>3, <1>1 DEF In!New
      <4> QED
        BY <4>4, SubSeqEmpty
    <3>2. CASE ~(items # <<>> /\ pos - items[1].seq \in 0 .. Len(items))
      BY <3>2 DEF In!New
    <3> QED
      BY <3>1, <3>2
  <2>2. <<>> \in Seq(Item) /\ Len(<<>>) = 0
    BY EmptySeq
  <2> HIDE DEF new
  <2> QED
    BY <1>4, <2>1, <2>2
<1> QED
  BY <1>3, <1>4

(* Writing them one after the other extends what the ring holds.           *)
LEMMA FilledHolds ==
  ASSUME NEW D \in Seq(Token), NEW a \in Nat, NEW count \in Nat, a + count <= Len(D),
         NEW items, Rest(items, D, a, count), NEW pos \in Nat, a <= pos,
         NEW from \in Nat, from <= pos,
         NEW ring, IsInRing(ring), Holds(ring, D, from, pos),
         NEW to \in Nat, to = pos + Len(In!New(pos, items)), to - from <= InN - 1
  PROVE  IsInRing(In!Filled(ring, pos, items)) /\ Holds(In!Filled(ring, pos, items), D, from, to)
<1> DEFINE new == In!New(pos, items)
           At(s) == {k \in DOMAIN new : (pos + k - 1) % InN = s}
           p == In!Filled(ring, pos, items)
<1>0. InN \in Nat \ {0} /\ InN - 1 \in Nat
  BY LengthAssumption
<1>1. /\ new \in Seq(Item) /\ DOMAIN new = 1 .. Len(new) /\ Len(new) \in Nat
      /\ \A k \in 1 .. Len(new) : new[k] = [seq |-> pos + k - 1, token |-> D[pos + k]]
  <2>1. new \in Seq(Item)
    BY NewItems
  <2> QED
    BY <2>1, NewItems, LenProperties
<1>2. p = [s \in 0 .. InN - 1 |-> IF At(s) = {} THEN ring[s] ELSE new[CHOOSE k \in At(s) : TRUE].token]
  BY DEF In!Filled, In!Slots
<1> HIDE DEF new, p
<1>3. Len(new) <= InN - 1 /\ to = pos + Len(new)
  BY <1>1, <1>0 DEF new
<1>4. IsInRing(p)
  <2>1. ASSUME NEW s \in 0 .. InN - 1 PROVE p[s] \in Token \cup {NoToken}
    <3>1. CASE At(s) = {}
      BY <1>2, <3>1 DEF IsInRing
    <3>2. CASE At(s) # {}
      <4>1. (CHOOSE k \in At(s) : TRUE) \in 1 .. Len(new)
        BY <3>2, <1>1
      <4>2. new[CHOOSE k \in At(s) : TRUE] \in Item
        BY ONLY <4>1, <1>1, ElementOfSeq
      <4> QED
        BY <1>2, <3>2, <4>2 DEF Item
    <3> QED
      BY <3>1, <3>2
  <2> QED
    BY <2>1, <1>2 DEF IsInRing
<1>5. ASSUME NEW k \in from .. pos - 1 PROVE p[k % InN] = D[k + 1]
  <2>0. k \in Int
    OBVIOUS
  <2>1. k % InN \in 0 .. InN - 1
    BY ONLY <2>0, <1>0, ModRange
  <2>2. ASSUME NEW j \in At(k % InN) PROVE FALSE
    <3>1. j \in 1 .. Len(new) /\ (pos + j - 1) % InN = k % InN
      BY <1>1
    <3>2. k < pos + j - 1 /\ (pos + j - 1) - k < InN /\ k \in Int /\ pos + j - 1 \in Int
      <4>1. j >= 1 /\ j <= Len(new) /\ k >= from /\ k <= pos - 1 /\ j \in Int /\ k \in Int
            /\ Len(new) \in Int /\ InN \in Int
        BY ONLY <3>1, <1>1, <1>0, from \in Nat, pos \in Nat, k \in from .. pos - 1
      <4>2. Len(new) <= InN - 1 /\ to - from <= InN - 1 /\ to = pos + Len(new)
        BY <1>3
      <4> QED
        BY ONLY <4>1, <4>2, from \in Nat, pos \in Nat, to \in Nat
    <3> QED
      BY ONLY <3>1, <3>2, <1>0, SlotsDistinct
  <2>3. p[k % InN] = ring[k % InN]
    BY <2>1, <2>2, <1>2
  <2> QED
    BY <2>3 DEF Holds
<1>6. ASSUME NEW k \in pos .. to - 1 PROVE p[k % InN] = D[k + 1]
  <2>0. k \in Int
    OBVIOUS
  <2>1. k % InN \in 0 .. InN - 1
    BY ONLY <2>0, <1>0, ModRange
  <2> DEFINE j == k - pos + 1
  <2>2. j \in 1 .. Len(new) /\ pos + j - 1 = k
    BY <1>3
  <2>3. j \in At(k % InN)
    BY <2>2, <1>1
  <2>4. ASSUME NEW m \in At(k % InN) PROVE m = j
    <3>1. m \in 1 .. Len(new) /\ (pos + m - 1) % InN = k % InN
      BY <1>1
    <3> DEFINE x == pos + m - 1
    <3>2. x \in Int /\ k \in Int /\ x - k < InN /\ k - x < InN /\ m \in Int /\ x = pos + m - 1
      <4>1. m >= 1 /\ m <= Len(new) /\ k >= pos /\ k <= to - 1 /\ m \in Int /\ k \in Int
            /\ Len(new) \in Int /\ InN \in Int
        BY ONLY <3>1, <1>1, <1>0, pos \in Nat, to \in Nat, k \in pos .. to - 1
      <4>2. Len(new) <= InN - 1 /\ to = pos + Len(new)
        BY <1>3
      <4> QED
        BY ONLY <4>1, <4>2, pos \in Nat, to \in Nat
    <3>3. x % InN = k % InN
      BY <3>1
    <3> HIDE DEF x
    <3>4. ~(k < x) /\ ~(x < k)
      BY ONLY <3>2, <3>3, <1>0, SlotsDistinct
    <3>5. x = k
      BY ONLY <3>2, <3>4
    <3> QED
      BY ONLY <3>2, <3>5, pos \in Nat
  <2>5. (CHOOSE m \in At(k % InN) : TRUE) = j
    BY <2>3, <2>4
  <2>6. p[k % InN] = new[j].token
    BY <2>1, <2>3, <2>5, <1>2
  <2>7. new[j] = [seq |-> pos + j - 1, token |-> D[pos + j]]
    BY ONLY <1>1, <2>2
  <2>8. pos + j = k + 1
    BY ONLY <2>0, pos \in Nat
  <2> QED
    BY ONLY <2>6, <2>7, <2>8
<1>7. Holds(p, D, from, to)
  <2>1. ASSUME NEW k \in from .. to - 1 PROVE k \in from .. pos - 1 \/ k \in pos .. to - 1
    OBVIOUS
  <2> QED
    BY <2>1, <1>5, <1>6 DEF Holds
<1> QED
  BY <1>4, <1>7 DEF p

InFields == {"kind", "writers", "fifo", "write_pos", "read_pos", "turn_pos",
             "exhausted_tokens", "termination"}

InShape(q) ==
  /\ DOMAIN q = InFields
  /\ In!WriterSet(q) \in SUBSET Nat
  /\ IsFiniteSet(In!WriterSet(q))
  /\ IsAscending(q.writers, In!WriterSet(q))
  /\ DOMAIN q.fifo = In!WriterSet(q)
  /\ DOMAIN q.write_pos = In!WriterSet(q)
  /\ DOMAIN q.read_pos = In!WriterSet(q)
  /\ q.turn_pos \in Nat

(* What is read from writer w and what is in its ring, of the tokens D     *)
(* that were sent.                                                         *)
Stores(q, w, D, V) ==
  /\ q.read_pos[w] = Len(V)
  /\ q.write_pos[w] \in Nat
  /\ Len(V) <= q.write_pos[w] /\ q.write_pos[w] <= Len(D)
  /\ q.write_pos[w] - Len(V) <= InN - 1
  /\ \A k \in 1 .. Len(V) : V[k] = D[k]
  /\ IsInRing(q.fifo[w])
  /\ Holds(q.fifo[w], D, Len(V), q.write_pos[w])

(* All that is not stored of D, and perhaps more.                          *)
Rests(items, D, pos) == \E a \in 0 .. pos : Rest(items, D, a, Len(D) - a)

Drained(q, w, D) ==
  IF w \in DOMAIN q.exhausted_tokens
  THEN Rests(q.exhausted_tokens[w], D, q.write_pos[w])
  ELSE q.write_pos[w] = Len(D)

LEMMA RestSplits ==
  ASSUME NEW D \in Seq(Token), NEW a \in Nat, NEW count \in Nat, a + count <= Len(D),
         NEW items, Rest(items, D, a, count), NEW used \in 0 .. count
  PROVE  /\ Rest(SubSeq(items, 1, used), D, a, used)
         /\ Rest(SubSeq(items, used + 1, count), D, a + used, count - used)
<1>1. items \in Seq(Item) /\ Len(items) = count
  BY RestItems
<1>2. \A k \in 1 .. count : items[k] = [seq |-> a + k - 1, token |-> D[a + k]]
  BY DEF Rest
<1>3. \A k \in 1 .. count : items[k] \in Item
  BY <1>1, ElementOfSeq
<1> DEFINE s == SubSeq(items, 1, used)
           t == SubSeq(items, used + 1, count)
<1>4. s \in Seq(Item) /\ Len(s) = used /\ \A k \in 1 .. used : s[k] = items[k]
  <2>1. 1 \in Int /\ used \in Int /\ \A k \in 1 .. used : items[k] \in Item
    BY <1>3
  <2>2. /\ s \in Seq(Item) /\ Len(s) = IF 1 <= used THEN (used - 1) + 1 ELSE 0
        /\ \A k \in 1 .. (used - 1) + 1 : s[k] = items[1 + k - 1]
    BY ONLY <2>1, SubSeqProperties
  <2> HIDE DEF s
  <2>3. Len(s) = used
    BY <2>2
  <2>4. ASSUME NEW k \in 1 .. used PROVE s[k] = items[k]
    <3>1. k \in 1 .. (used - 1) + 1 /\ 1 + k - 1 = k
      OBVIOUS
    <3> QED
      BY ONLY <3>1, <2>2
  <2> QED
    BY <2>2, <2>3, <2>4
<1>5. t \in Seq(Item) /\ Len(t) = count - used
      /\ \A k \in 1 .. count - used : t[k] = items[used + k]
  <2>1. used + 1 \in Int /\ count \in Int /\ \A k \in used + 1 .. count : items[k] \in Item
    BY <1>3
  <2>2. /\ t \in Seq(Item) /\ Len(t) = IF used + 1 <= count THEN (count - (used + 1)) + 1 ELSE 0
        /\ \A k \in 1 .. (count - (used + 1)) + 1 : t[k] = items[(used + 1) + k - 1]
    BY ONLY <2>1, SubSeqProperties
  <2> HIDE DEF t
  <2>3. Len(t) = count - used
    BY <2>2
  <2>4. ASSUME NEW k \in 1 .. count - used PROVE t[k] = items[used + k]
    <3>1. k \in 1 .. (count - (used + 1)) + 1 /\ (used + 1) + k - 1 = used + k
      OBVIOUS
    <3> QED
      BY ONLY <3>1, <2>2
  <2> QED
    BY <2>2, <2>3, <2>4
<1> HIDE DEF s, t
<1>6. s = [k \in 1 .. used |-> [seq |-> a + k - 1, token |-> D[a + k]]]
  <2>1. ASSUME NEW k \in 1 .. used PROVE s[k] = [seq |-> a + k - 1, token |-> D[a + k]]
    <3>1. k \in 1 .. count
      OBVIOUS
    <3> QED
      BY ONLY <3>1, <1>2, <1>4, k \in 1 .. used
  <2>2. DOMAIN s = 1 .. used /\ s = [k \in 1 .. used |-> s[k]]
    BY <1>4, LenProperties
  <2> QED
    BY ONLY <2>1, <2>2
<1>7. t = [k \in 1 .. count - used |-> [seq |-> (a + used) + k - 1, token |-> D[(a + used) + k]]]
  <2>1. ASSUME NEW k \in 1 .. count - used
        PROVE  t[k] = [seq |-> (a + used) + k - 1, token |-> D[(a + used) + k]]
    <3>1. used + k \in 1 .. count /\ a + (used + k) - 1 = (a + used) + k - 1
          /\ a + (used + k) = (a + used) + k
      OBVIOUS
    <3> QED
      BY ONLY <3>1, <1>2, <1>5, k \in 1 .. count - used
  <2>2. DOMAIN t = 1 .. count - used /\ t = [k \in 1 .. count - used |-> t[k]]
    BY <1>5, LenProperties
  <2> QED
    BY ONLY <2>1, <2>2
<1> QED
  BY <1>6, <1>7 DEF Rest, s, t

(* _transfer_exhaust_tokens of one list.                                   *)
LEMMA ListTransferred ==
  ASSUME NEW q, NEW w, NEW D \in Seq(Token), NEW V \in Seq(Token), Stores(q, w, D, V),
         Rests(q.exhausted_tokens[w], D, q.write_pos[w]),
         NEW p, p.read_pos[w] = q.read_pos[w],
         p.fifo[w] = In!Filled(q.fifo[w], q.write_pos[w], In!Transferred(q, w)),
         p.write_pos[w] = q.write_pos[w] + Len(In!New(q.write_pos[w], In!Transferred(q, w)))
  PROVE  /\ Stores(p, w, D, V)
         /\ q.write_pos[w] <= p.write_pos[w]
         /\ Rests(In!Left(q, w), D, p.write_pos[w])
         /\ In!Left(q, w) = <<>> => p.write_pos[w] = Len(D)
         /\ p.write_pos[w] <= Len(V) => In!Left(q, w) = <<>>
<1> DEFINE items == q.exhausted_tokens[w]
           pos == q.write_pos[w]
           from == Len(V)
           room == (InN - 1) - (pos - from)
           used == In!Used(q, w)
           L == Len(D)
<1>0. InN \in Nat /\ InN >= 2 /\ L \in Nat /\ from \in Nat
  BY LengthAssumption, LenProperties
<1>1. PICK a \in 0 .. pos : Rest(items, D, a, L - a)
  BY DEF Rests
<1> DEFINE count == L - a
<1>2. /\ pos \in Nat /\ from <= pos /\ pos <= L /\ room >= 0 /\ room \in Int
      /\ a \in Nat /\ a <= pos /\ count \in Nat /\ a + count = L
  <2>1. pos \in Nat /\ from <= pos /\ pos <= L /\ pos - from <= InN - 1
    BY DEF Stores
  <2> HIDE DEF pos, from, L
  <2> QED
    BY ONLY <2>1, <1>0, a \in 0 .. pos
<1>3. items \in Seq(Item) /\ Len(items) = count
  BY <1>1, <1>2, RestItems
<1>4. In!InFree(q, w) = room
  BY DEF In!InFree, In!Room, Stores
<1>5. items # <<>> => count >= 1 /\ items[1].seq = a
  <2> SUFFICES ASSUME items # <<>> PROVE count >= 1 /\ items[1].seq = a
    OBVIOUS
  <2>1. count >= 1
    BY <1>3, EmptySeq
  <2>2. 1 \in 1 .. count /\ a + 1 - 1 = a
    BY <2>1, <1>2
  <2>3. items = [k \in 1 .. count |-> [seq |-> a + k - 1, token |-> D[a + k]]]
    BY <1>1 DEF Rest
  <2> QED
    BY ONLY <2>1, <2>2, <2>3
<1>6. items = <<>> => count = 0
  BY <1>3, EmptySeq
<1>7. used = IF items = <<>> \/ room = 0 THEN 0
             ELSE IF (pos - items[1].seq) >= 0 /\ (pos - items[1].seq) + room < count
                  THEN (pos - items[1].seq) + room
             ELSE count
  BY <1>3, <1>4 DEF In!Used
<1>8. \/ used = 0 /\ (count = 0 \/ room = 0)
      \/ used = (pos - a) + room /\ used < count /\ room >= 1
      \/ used = count /\ (pos - a) + room >= count /\ room >= 1
  <2>1. CASE items = <<>> \/ room = 0
    BY <2>1, <1>6, <1>7
  <2>2. CASE ~(items = <<>> \/ room = 0)
    <3>1. pos - items[1].seq = pos - a /\ pos - a >= 0 /\ room >= 1 /\ pos - a \in Int
      BY <2>2, <1>5, <1>2
    <3> HIDE DEF room, items, pos, count
    <3> QED
      BY ONLY <1>7, <2>2, <3>1, <1>2
  <2> QED
    BY <2>1, <2>2
<1> DEFINE given == In!Transferred(q, w)
           left == In!Left(q, w)
           len == Len(In!New(pos, given))
           to == pos + len
<1> HIDE DEF used, room
<1>9. used \in 0 .. count
  <2>1. pos - a >= 0 /\ pos - a \in Int /\ room \in Int /\ count \in Nat
    BY <1>2 DEF room
  <2> HIDE DEF pos, count
  <2> QED
    BY ONLY <1>8, <2>1
<1>10. Rest(given, D, a, used) /\ Rest(left, D, a + used, count - used)
  <2>1. given = SubSeq(items, 1, used) /\ left = SubSeq(items, used + 1, count)
    BY <1>3 DEF In!Transferred, In!Left, used
  <2>2. a + count <= Len(D) /\ a \in Nat /\ count \in Nat /\ used \in 0 .. count
    BY <1>2, <1>9
  <2>3. Rest(items, D, a, count)
    BY <1>1
  <2> HIDE DEF given, left, items, count
  <2> QED
    BY <2>1, <2>2, <2>3, RestSplits
<1>11. a + used <= L /\ used \in Nat /\ a \in Nat /\ a <= pos /\ pos \in Nat
  BY <1>2, <1>9
<1>12. len = IF pos < a + used THEN (a + used) - pos ELSE 0
  <2>1. a + used <= Len(D) /\ used \in Nat /\ a \in Nat /\ pos \in Nat /\ a <= pos
    BY <1>11
  <2>2. Rest(given, D, a, used)
    BY <1>10
  <2> HIDE DEF given, pos
  <2> QED
    BY <2>1, <2>2, NewItems
<1> HIDE DEF given, left, len, count, pos, from, L, items
<1>13. /\ to \in Nat /\ to - from <= InN - 1 /\ pos <= to /\ to <= L /\ from <= to
       /\ a + used <= to
       /\ used = count => to = L
       /\ to <= from => used = count
  <2>1. room = (InN - 1) - (pos - from)
    BY DEF room
  <2> QED
    BY ONLY <1>8, <1>9, <1>12, <1>2, <1>0, <2>1
<1>14. IsInRing(p.fifo[w]) /\ Holds(p.fifo[w], D, from, to)
  <2>1. IsInRing(q.fifo[w]) /\ Holds(q.fifo[w], D, from, pos)
    BY DEF Stores, from, pos
  <2>2. p.fifo[w] = In!Filled(q.fifo[w], pos, given)
    BY DEF pos, given
  <2>3. to = pos + Len(In!New(pos, given)) /\ a + used <= Len(D) /\ from \in Nat /\ from <= pos
    BY <1>11, <1>2, <1>0 DEF len, L
  <2> QED
    BY ONLY <2>1, <2>2, <2>3, <1>10, <1>11, <1>13, FilledHolds
<1>15. p.write_pos[w] = to
  BY DEF pos, len, given
<1>16. Stores(p, w, D, V)
  BY <1>13, <1>14, <1>15 DEF Stores, from, L
<1>17. (a + used) + (count - used) = L /\ count - used \in Nat /\ a + used \in 0 .. to
  BY <1>2, <1>9, <1>11, <1>13
<1>18. left \in Seq(Item) /\ Len(left) = count - used
  <2> DEFINE b == a + used
             c == count - used
  <2>1. b \in Nat /\ c \in Nat /\ b + c <= Len(D) /\ Rest(left, D, b, c)
    BY <1>10, <1>17, <1>11 DEF L
  <2> HIDE DEF b, c
  <2>2. left \in Seq(Item) /\ Len(left) = c
    BY <2>1, RestItems
  <2> QED
    BY <2>2 DEF c
<1>19. left = <<>> <=> used = count
  <2>1. left = <<>> <=> Len(left) = 0
    BY <1>18, EmptySeq
  <2>2. used \in Int /\ count \in Int
    BY <1>9, <1>2 DEF count, L
  <2> QED
    BY ONLY <1>18, <2>1, <2>2
<1>20. Rests(left, D, to)
  <2>1. Rest(left, D, a + used, L - (a + used))
    <3>1. L - (a + used) = count - used
      BY <1>17, <1>11, <1>9, <1>2
    <3> QED
      BY <1>10, <3>1
  <2> QED
    BY <1>17, <2>1 DEF Rests, L
<1> QED
  BY <1>13, <1>15, <1>16, <1>19, <1>20 DEF left, pos, from, L

(* An inport's queue and one of its writers: more tokens may come from the *)
(* writer; all that is left of it is here; it has been removed.            *)
IsOpen(q, w, D, V) ==
  /\ w \in In!WriterSet(q)
  /\ w \notin DOMAIN q.exhausted_tokens
  /\ w \in DOMAIN q.termination => q.termination[w] = FALSE
  /\ Stores(q, w, D, V)

IsClosing(q, w, D, V) ==
  /\ w \in In!WriterSet(q)
  /\ w \in DOMAIN q.termination /\ q.termination[w] = TRUE
  /\ Stores(q, w, D, V)
  /\ Drained(q, w, D)

IsGone(q, w, D, V) ==
  /\ w \notin In!WriterSet(q)
  /\ w \notin DOMAIN q.exhausted_tokens
  /\ w \notin DOMAIN q.termination
  /\ V = D

IsSettled(q, w, D, V) == IsClosing(q, w, D, V) \/ IsGone(q, w, D, V)

(* What happens to other writers leaves one where it is.                   *)
Keeps(p, q, w) ==
  \A D, V \in Seq(Token) :
    /\ IsOpen(q, w, D, V) =>
         /\ IsOpen(p, w, D, V) /\ p.write_pos[w] = q.write_pos[w]
         /\ w \in DOMAIN p.termination <=> w \in DOMAIN q.termination
    /\ IsSettled(q, w, D, V) => IsSettled(p, w, D, V)

Settle(q, S) ==
  LET moved == In!TransferAll(q) IN In!Removed(moved, In!Finished(moved, S))

LEMMA Moving ==
  ASSUME NEW q, InShape(q), NEW p, p = In!TransferAll(q)
  PROVE  /\ InShape(p) /\ In!WriterSet(p) = In!WriterSet(q) /\ p.termination = q.termination
         /\ p.writers = q.writers /\ p.turn_pos = q.turn_pos /\ p.read_pos = q.read_pos
         /\ \A w : \A D, V \in Seq(Token) :
              /\ IsOpen(q, w, D, V) => IsOpen(p, w, D, V) /\ p.write_pos[w] = q.write_pos[w]
              /\ IsClosing(q, w, D, V) =>
                   /\ IsClosing(p, w, D, V) /\ q.write_pos[w] <= p.write_pos[w]
                   /\ p.write_pos[w] <= Len(V) => V = D /\ w \notin DOMAIN p.exhausted_tokens
              /\ IsGone(q, w, D, V) => IsGone(p, w, D, V)
<1> DEFINE W == In!WriterSet(q)
           moving == DOMAIN q.exhausted_tokens \cap W
<1>1. /\ DOMAIN p = InFields /\ p.writers = q.writers /\ p.read_pos = q.read_pos
      /\ p.termination = q.termination /\ p.turn_pos = q.turn_pos /\ p.kind = q.kind
      /\ p.fifo = [w \in DOMAIN q.fifo |-> IF w \in moving
                     THEN In!Filled(q.fifo[w], q.write_pos[w], In!Transferred(q, w)) ELSE q.fifo[w]]
      /\ p.write_pos = [w \in DOMAIN q.write_pos |-> IF w \in moving
                          THEN q.write_pos[w] + Len(In!New(q.write_pos[w], In!Transferred(q, w)))
                          ELSE q.write_pos[w]]
      /\ p.exhausted_tokens = [w \in {w \in moving : In!Left(q, w) # <<>>} |-> In!Left(q, w)]
  BY DEF In!TransferAll, InShape, InFields
<1>2. In!WriterSet(p) = W
  BY <1>1 DEF In!WriterSet
<1> HIDE DEF W
<1>3. InShape(p)
  BY <1>1, <1>2 DEF InShape, W
<1>4. DOMAIN q.fifo = W /\ DOMAIN q.write_pos = W
  BY DEF InShape, W
<1>5. ASSUME NEW w \in W \ moving
      PROVE  p.fifo[w] = q.fifo[w] /\ p.write_pos[w] = q.write_pos[w]
             /\ w \notin DOMAIN p.exhausted_tokens
  BY <1>1, <1>4
<1>6. ASSUME NEW w \in W \ moving, NEW D, NEW V, Stores(q, w, D, V)
      PROVE  Stores(p, w, D, V)
  BY <1>1, <1>5, <1>6 DEF Stores
<1>7. ASSUME NEW w, NEW D \in Seq(Token), NEW V \in Seq(Token), IsOpen(q, w, D, V)
      PROVE  IsOpen(p, w, D, V) /\ p.write_pos[w] = q.write_pos[w]
  <2>1. w \in W \ moving
    BY <1>7 DEF IsOpen, W
  <2> QED
    BY <2>1, <1>1, <1>2, <1>5, <1>6, <1>7 DEF IsOpen
<1>8. ASSUME NEW w, NEW D \in Seq(Token), NEW V \in Seq(Token), IsClosing(q, w, D, V)
      PROVE  /\ IsClosing(p, w, D, V) /\ q.write_pos[w] <= p.write_pos[w]
             /\ p.write_pos[w] <= Len(V) => V = D /\ w \notin DOMAIN p.exhausted_tokens
  <2>0. w \in W /\ Stores(q, w, D, V) /\ Drained(q, w, D)
    BY <1>8 DEF IsClosing, W
  <2>1. CASE w \notin moving
    <3>1. Stores(p, w, D, V) /\ p.write_pos[w] = Len(D) /\ w \notin DOMAIN p.exhausted_tokens
      BY <2>0, <2>1, <1>5, <1>6 DEF Drained
    <3>2. Drained(p, w, D)
      BY <3>1 DEF Drained
    <3>3. p.write_pos[w] <= Len(V) => Len(V) = Len(D)
      BY <3>1, LenProperties DEF Stores
    <3>4. p.write_pos[w] <= Len(V) => V = D
      BY <3>1, <3>3, SeqEqual DEF Stores
    <3>5. q.write_pos[w] <= p.write_pos[w]
      BY <2>0, <2>1, <1>5 DEF Stores
    <3> QED
      BY <3>1, <3>2, <3>4, <3>5, <2>0, <1>1, <1>2, <1>8 DEF IsClosing
  <2>2. CASE w \in moving
    <3>1. p.fifo[w] = In!Filled(q.fifo[w], q.write_pos[w], In!Transferred(q, w))
          /\ p.write_pos[w] = q.write_pos[w] + Len(In!New(q.write_pos[w], In!Transferred(q, w)))
          /\ p.read_pos[w] = q.read_pos[w]
      BY <2>0, <2>2, <1>1, <1>4
    <3>2. Rests(q.exhausted_tokens[w], D, q.write_pos[w])
      BY <2>0, <2>2 DEF Drained
    <3>3. /\ Stores(p, w, D, V)
          /\ q.write_pos[w] <= p.write_pos[w]
          /\ Rests(In!Left(q, w), D, p.write_pos[w])
          /\ In!Left(q, w) = <<>> => p.write_pos[w] = Len(D)
          /\ p.write_pos[w] <= Len(V) => In!Left(q, w) = <<>>
      BY <2>0, <3>1, <3>2, ListTransferred
    <3>4. w \in DOMAIN p.exhausted_tokens <=> In!Left(q, w) # <<>>
      BY <1>1, <2>2
    <3>5. w \in DOMAIN p.exhausted_tokens => p.exhausted_tokens[w] = In!Left(q, w)
      BY <1>1, <2>2
    <3>6. Drained(p, w, D)
      BY <3>3, <3>4, <3>5 DEF Drained
    <3>7. p.write_pos[w] <= Len(V) => Len(V) = Len(D)
      BY <3>3, LenProperties DEF Stores
    <3>8. p.write_pos[w] <= Len(V) => V = D
      BY <3>3, <3>7, SeqEqual DEF Stores
    <3> QED
      BY <3>3, <3>4, <3>6, <3>8, <2>0, <1>1, <1>2, <1>8 DEF IsClosing
  <2> QED
    BY <2>1, <2>2
<1>9. ASSUME NEW w, NEW D, NEW V, IsGone(q, w, D, V) PROVE IsGone(p, w, D, V)
  <2>1. DOMAIN p.exhausted_tokens \subseteq DOMAIN q.exhausted_tokens
    BY <1>1
  <2> QED
    BY <2>1, <1>1, <1>2, <1>9 DEF IsGone, W
<1> QED
  BY <1>1, <1>2, <1>3, <1>7, <1>8, <1>9 DEF W

LEMMA Removing ==
  ASSUME NEW q, InShape(q), NEW S, NEW p, p = In!Removed(q, In!Finished(q, S))
  PROVE  /\ InShape(p) /\ In!WriterSet(p) = In!WriterSet(q) \ In!Finished(q, S)
         /\ p.writers = In!Ascending(In!WriterSet(p)) /\ p.turn_pos = q.turn_pos
         /\ DOMAIN p.termination = DOMAIN q.termination \ In!Finished(q, S)
         /\ p.exhausted_tokens = q.exhausted_tokens
         /\ \A w \in In!WriterSet(p) :
              /\ p.fifo[w] = q.fifo[w] /\ p.write_pos[w] = q.write_pos[w]
              /\ p.read_pos[w] = q.read_pos[w]
              /\ w \in DOMAIN p.termination => p.termination[w] = q.termination[w]
<1> DEFINE F == In!Finished(q, S)
           W == In!WriterSet(q) \ F
<1>1. F \subseteq In!WriterSet(q)
  BY DEF In!Finished
<1>2. /\ DOMAIN p = InFields /\ p.writers = In!Ascending(W)
      /\ p.fifo = [w \in DOMAIN q.fifo \ F |-> q.fifo[w]]
      /\ p.write_pos = [w \in DOMAIN q.write_pos \ F |-> q.write_pos[w]]
      /\ p.read_pos = [w \in DOMAIN q.read_pos \ F |-> q.read_pos[w]]
      /\ p.termination = [w \in DOMAIN q.termination \ F |-> q.termination[w]]
      /\ p.exhausted_tokens = q.exhausted_tokens /\ p.turn_pos = q.turn_pos
  BY DEF In!Removed, In!Without, InShape, InFields
<1>3. W \in SUBSET Nat /\ IsFiniteSet(W)
  <2>1. In!WriterSet(q) \in SUBSET Nat /\ IsFiniteSet(In!WriterSet(q))
    BY DEF InShape
  <2> QED
    BY <2>1, FS_Subset
<1> HIDE DEF F, W
<1>4. IsAscending(p.writers, W)
  BY <1>2, <1>3, InAscending
<1>5. In!WriterSet(p) = W
  BY <1>3, <1>4, AscendingList DEF In!WriterSet
<1>6. InShape(p)
  <2>1. DOMAIN q.fifo = In!WriterSet(q) /\ DOMAIN q.write_pos = In!WriterSet(q)
        /\ DOMAIN q.read_pos = In!WriterSet(q) /\ q.turn_pos \in Nat
    BY DEF InShape
  <2> QED
    BY <2>1, <1>2, <1>3, <1>4, <1>5 DEF InShape, W
<1>7. DOMAIN q.fifo = In!WriterSet(q) /\ DOMAIN q.write_pos = In!WriterSet(q)
      /\ DOMAIN q.read_pos = In!WriterSet(q)
  BY DEF InShape
<1> QED
  BY <1>2, <1>5, <1>6, <1>7 DEF F, W

LEMMA Settling ==
  ASSUME NEW q, InShape(q), NEW S, NEW p, p = Settle(q, S)
  PROVE  /\ InShape(p) /\ In!WriterSet(p) \subseteq In!WriterSet(q)
         /\ \A w : Keeps(p, q, w)
<1> DEFINE m == In!TransferAll(q)
           F == In!Finished(m, S)
<1>1. p = In!Removed(m, F)
  BY DEF Settle
<1>2. /\ InShape(m) /\ In!WriterSet(m) = In!WriterSet(q) /\ m.termination = q.termination
      /\ \A w : \A D, V \in Seq(Token) :
              /\ IsOpen(q, w, D, V) => IsOpen(m, w, D, V) /\ m.write_pos[w] = q.write_pos[w]
              /\ IsClosing(q, w, D, V) =>
                   IsClosing(m, w, D, V) /\ (m.write_pos[w] <= Len(V) => V = D /\ w \notin DOMAIN m.exhausted_tokens)
              /\ IsGone(q, w, D, V) => IsGone(m, w, D, V)
  BY Moving
<1> HIDE DEF m
<1>3. /\ InShape(p) /\ In!WriterSet(p) = In!WriterSet(m) \ F
      /\ DOMAIN p.termination = DOMAIN m.termination \ F
      /\ p.exhausted_tokens = m.exhausted_tokens
      /\ \A w \in In!WriterSet(p) :
           /\ p.fifo[w] = m.fifo[w] /\ p.write_pos[w] = m.write_pos[w]
           /\ p.read_pos[w] = m.read_pos[w]
           /\ w \in DOMAIN p.termination => p.termination[w] = m.termination[w]
  BY <1>1, <1>2, Removing
<1>4. \A w \in F : w \in DOMAIN m.termination /\ m.termination[w]
                    /\ ~(m.write_pos[w] > m.read_pos[w])
  BY DEF In!Finished, In!Waiting
<1> HIDE DEF F
<1>5. ASSUME NEW w, NEW D \in Seq(Token), NEW V \in Seq(Token), w \notin F,
             w \in In!WriterSet(m), Stores(m, w, D, V)
      PROVE  Stores(p, w, D, V)
  BY <1>3, <1>5 DEF Stores
<1>6. ASSUME NEW w, NEW D \in Seq(Token), NEW V \in Seq(Token), IsOpen(q, w, D, V)
      PROVE  /\ IsOpen(p, w, D, V) /\ p.write_pos[w] = q.write_pos[w]
             /\ w \in DOMAIN p.termination <=> w \in DOMAIN q.termination
  <2>1. IsOpen(m, w, D, V) /\ m.write_pos[w] = q.write_pos[w]
    BY <1>2, <1>6
  <2>2. w \notin F
    BY <2>1, <1>4 DEF IsOpen
  <2>3. Stores(p, w, D, V)
    BY <2>1, <2>2, <1>5 DEF IsOpen
  <2> QED
    BY <2>1, <2>2, <2>3, <1>2, <1>3 DEF IsOpen
<1>7. ASSUME NEW w, NEW D \in Seq(Token), NEW V \in Seq(Token), IsClosing(q, w, D, V)
      PROVE  IsSettled(p, w, D, V)
  <2>1. IsClosing(m, w, D, V) /\ (m.write_pos[w] <= Len(V) => V = D /\ w \notin DOMAIN m.exhausted_tokens)
    BY <1>2, <1>7
  <2>2. CASE w \notin F
    <3>1. Stores(p, w, D, V)
      BY <2>1, <2>2, <1>5 DEF IsClosing
    <3>2. w \in In!WriterSet(p) /\ w \in DOMAIN p.termination
      BY <2>1, <2>2, <1>3 DEF IsClosing
    <3>3. Drained(p, w, D)
      BY <2>1, <3>2, <1>3 DEF IsClosing, Drained
    <3> QED
      BY <2>1, <3>1, <3>2, <3>3, <1>3 DEF IsClosing, IsSettled
  <2>3. CASE w \in F
    <3>1. m.write_pos[w] <= Len(V) /\ m.write_pos[w] = Len(V)
      BY <2>1, <2>3, <1>4 DEF IsClosing, Stores
    <3>2. V = D /\ w \notin DOMAIN m.exhausted_tokens
      BY <2>1, <3>1
    <3> QED
      BY <2>3, <3>2, <1>3 DEF IsSettled, IsGone
  <2> QED
    BY <2>2, <2>3
<1>8. ASSUME NEW w, NEW D, NEW V \in Seq(Token), IsGone(m, w, D, V)
      PROVE  IsGone(p, w, D, V)
  BY <1>3, <1>8 DEF IsGone
<1> QED
  BY <1>2, <1>3, <1>6, <1>7, <1>8 DEF IsSettled, Keeps

(* Nothing that waits is lost from the rings when a queue is settled.      *)
LEMMA SettlingGrows ==
  ASSUME NEW q, InShape(q), NEW S, NEW p, p = Settle(q, S)
  PROVE  /\ p.writers = In!Ascending(In!WriterSet(p)) /\ p.turn_pos = q.turn_pos
         /\ \A w \in In!WriterSet(p) :
              /\ p.read_pos[w] = q.read_pos[w]
              /\ \A D, V \in Seq(Token) :
                   IsOpen(q, w, D, V) \/ IsClosing(q, w, D, V) => q.write_pos[w] <= p.write_pos[w]
<1> DEFINE m == In!TransferAll(q)
<1>1. p = In!Removed(m, In!Finished(m, S))
  BY DEF Settle
<1>2. /\ InShape(m) /\ m.turn_pos = q.turn_pos /\ m.read_pos = q.read_pos
      /\ \A w : \A D, V \in Seq(Token) :
           /\ IsOpen(q, w, D, V) => IsOpen(m, w, D, V) /\ m.write_pos[w] = q.write_pos[w]
           /\ IsClosing(q, w, D, V) => q.write_pos[w] <= m.write_pos[w]
  BY Moving
<1> HIDE DEF m
<1>3. /\ p.writers = In!Ascending(In!WriterSet(p)) /\ p.turn_pos = m.turn_pos
      /\ \A w \in In!WriterSet(p) :
           p.write_pos[w] = m.write_pos[w] /\ p.read_pos[w] = m.read_pos[w]
  BY <1>1, <1>2, Removing
<1>4. ASSUME NEW w \in In!WriterSet(p), NEW D \in Seq(Token), NEW V \in Seq(Token),
             IsOpen(q, w, D, V)
      PROVE  q.write_pos[w] <= p.write_pos[w]
  BY <1>2, <1>3, <1>4 DEF IsOpen, Stores
<1> QED
  BY <1>2, <1>3, <1>4

SameWriter(p, q, w) ==
  /\ w \in In!WriterSet(p) <=> w \in In!WriterSet(q)
  /\ w \in In!WriterSet(q) =>
       p.fifo[w] = q.fifo[w] /\ p.write_pos[w] = q.write_pos[w] /\ p.read_pos[w] = q.read_pos[w]
  /\ w \in DOMAIN p.exhausted_tokens <=> w \in DOMAIN q.exhausted_tokens
  /\ w \in DOMAIN q.exhausted_tokens => p.exhausted_tokens[w] = q.exhausted_tokens[w]
  /\ w \in DOMAIN p.termination <=> w \in DOMAIN q.termination
  /\ w \in DOMAIN q.termination => p.termination[w] = q.termination[w]

LEMMA SameWriterKeeps ==
  ASSUME NEW p, NEW q, NEW w, SameWriter(p, q, w)
  PROVE  Keeps(p, q, w)
<1>1. ASSUME NEW D, NEW V, w \in In!WriterSet(q), Stores(q, w, D, V) PROVE Stores(p, w, D, V)
  BY <1>1 DEF SameWriter, Stores
<1>2. ASSUME NEW D, w \in In!WriterSet(q), Drained(q, w, D) PROVE Drained(p, w, D)
  BY <1>2 DEF SameWriter, Drained
<1>3. ASSUME NEW D \in Seq(Token), NEW V \in Seq(Token), IsOpen(q, w, D, V)
      PROVE  /\ IsOpen(p, w, D, V) /\ p.write_pos[w] = q.write_pos[w]
             /\ w \in DOMAIN p.termination <=> w \in DOMAIN q.termination
  BY <1>1, <1>3 DEF IsOpen, SameWriter
<1>4. ASSUME NEW D \in Seq(Token), NEW V \in Seq(Token), IsClosing(q, w, D, V)
      PROVE  IsClosing(p, w, D, V)
  BY <1>1, <1>2, <1>4 DEF IsClosing, SameWriter
<1>5. ASSUME NEW D \in Seq(Token), NEW V \in Seq(Token), IsGone(q, w, D, V)
      PROVE  IsGone(p, w, D, V)
  BY <1>5 DEF IsGone, SameWriter
<1> QED
  BY <1>3, <1>4, <1>5 DEF Keeps, IsSettled

LEMMA KeepsTwice ==
  ASSUME NEW p, NEW q, NEW m, NEW w, Keeps(p, m, w), Keeps(m, q, w)
  PROVE  Keeps(p, q, w)
BY DEF Keeps

WrittenTo(p, q, w, D, V, to) ==
  /\ InShape(p) /\ In!WriterSet(p) = In!WriterSet(q)
  /\ IsOpen(p, w, D, V) /\ p.write_pos[w] = to
  /\ w \in DOMAIN p.termination <=> w \in DOMAIN q.termination
  /\ \A v : v # w => SameWriter(p, q, v)

(* The ring of one writer gets more of what was sent.                      *)
LEMMA Written ==
  ASSUME NEW q, InShape(q), NEW w, NEW D \in Seq(Token), NEW V \in Seq(Token),
         IsOpen(q, w, D, V),
         NEW to, to \in q.write_pos[w] .. Len(D), to - Len(V) <= InN - 1,
         NEW ring, IsInRing(ring), Holds(ring, D, Len(V), to),
         NEW p, p = [q EXCEPT !.fifo[w] = ring, !.write_pos[w] = to]
  PROVE  WrittenTo(p, q, w, D, V, to)
<1>0. w \in In!WriterSet(q)
  BY DEF IsOpen
<1>1. /\ DOMAIN p = InFields /\ p.writers = q.writers /\ p.read_pos = q.read_pos
      /\ p.fifo = [q.fifo EXCEPT ![w] = ring] /\ p.write_pos = [q.write_pos EXCEPT ![w] = to]
      /\ p.termination = q.termination /\ p.exhausted_tokens = q.exhausted_tokens
      /\ p.turn_pos = q.turn_pos
  BY DEF InShape, InFields
<1>2. In!WriterSet(p) = In!WriterSet(q)
  BY <1>1 DEF In!WriterSet
<1>3. DOMAIN q.fifo = In!WriterSet(q) /\ DOMAIN q.write_pos = In!WriterSet(q)
  BY DEF InShape
<1>4. InShape(p)
  BY <1>1, <1>2 DEF InShape
<1>5. p.fifo[w] = ring /\ p.write_pos[w] = to
  BY <1>0, <1>1, <1>3
<1>6. ASSUME NEW v, v # w PROVE SameWriter(p, q, v)
  BY <1>1, <1>2, <1>3, <1>6 DEF SameWriter
<1>7. IsOpen(p, w, D, V)
  <2>1. Stores(q, w, D, V) /\ Len(V) \in Nat /\ Len(D) \in Nat
    BY LenProperties DEF IsOpen
  <2>2. to \in Nat /\ Len(V) <= to /\ to <= Len(D)
    BY <2>1 DEF Stores
  <2>3. Stores(p, w, D, V)
    BY <1>1, <1>5, <2>1, <2>2 DEF Stores
  <2> QED
    BY <2>3, <1>1, <1>2 DEF IsOpen
<1> QED
  BY <1>1, <1>2, <1>4, <1>5, <1>6, <1>7 DEF WrittenTo

LEMMA OneWritten ==
  ASSUME NEW q, InShape(q), NEW w, NEW D \in Seq(Token), NEW V \in Seq(Token),
         IsOpen(q, w, D, V), In!InFree(q, w) > 0,
         NEW item, item.seq = q.write_pos[w], item.seq < Len(D), item.token = D[item.seq + 1],
         NEW p, p = In!com_write(q, w, item)
  PROVE  WrittenTo(p, q, w, D, V, q.write_pos[w] + 1)
<1> DEFINE pos == q.write_pos[w]
           ring == [q.fifo[w] EXCEPT ![pos % InN] = item.token]
<1>1. /\ w \in In!WriterSet(q) /\ pos \in Nat /\ Len(V) <= pos /\ pos < Len(D)
      /\ Len(V) \in Nat /\ Len(D) \in Nat /\ q.read_pos[w] = Len(V)
      /\ IsInRing(q.fifo[w]) /\ Holds(q.fifo[w], D, Len(V), pos)
  BY LenProperties DEF IsOpen, Stores
<1>2. InN \in Nat \ {0} /\ pos - Len(V) < InN - 1
  BY <1>1, LengthAssumption DEF In!InFree, In!Room
<1>3. p = [q EXCEPT !.fifo[w] = ring, !.write_pos[w] = pos + 1]
  BY DEF In!com_write
<1> HIDE DEF pos
<1>4. item.token \in Token /\ item.token = D[pos + 1]
  <2>1. item.seq = pos /\ pos + 1 \in 1 .. Len(D)
    BY <1>1 DEF pos
  <2> QED
    BY <2>1, ElementOfSeq
<1>5. pos % InN \in 0 .. InN - 1
  <2>1. pos \in Int
    BY <1>1
  <2> QED
    BY ONLY <2>1, <1>2, ModRange
<1>6. IsInRing(ring) /\ ring[pos % InN] = item.token
      /\ \A s \in 0 .. InN - 1 : s # pos % InN => ring[s] = q.fifo[w][s]
  BY <1>1, <1>4, <1>5 DEF IsInRing
<1> HIDE DEF ring
<1>7. ASSUME NEW k \in Len(V) .. pos PROVE ring[k % InN] = D[k + 1]
  <2>1. CASE k = pos
    BY <2>1, <1>4, <1>6
  <2>2. CASE k < pos
    <3>1. k \in Int /\ pos \in Int /\ pos - k < InN /\ k \in Len(V) .. pos - 1
      BY <2>2, <1>1, <1>2
    <3>2. k % InN # pos % InN
      BY ONLY <2>2, <3>1, <1>2, SlotsDistinct
    <3>3. k % InN \in 0 .. InN - 1
      BY ONLY <3>1, <1>2, ModRange
    <3>4. q.fifo[w][k % InN] = D[k + 1]
      BY <3>1, <1>1 DEF Holds
    <3> QED
      BY <3>2, <3>3, <3>4, <1>6
  <2>3. k = pos \/ k < pos
    BY <1>1
  <2> QED
    BY <2>1, <2>2, <2>3
<1>8. Holds(ring, D, Len(V), pos + 1)
  <2>1. (pos + 1) - 1 = pos
    BY <1>1
  <2> QED
    BY <2>1, <1>7 DEF Holds
<1>9. pos + 1 \in q.write_pos[w] .. Len(D) /\ (pos + 1) - Len(V) <= InN - 1
  BY <1>1, <1>2 DEF pos
<1> QED
  <2>1. p = [q EXCEPT !.fifo[w] = ring, !.write_pos[w] = q.write_pos[w] + 1]
        /\ Holds(ring, D, Len(V), q.write_pos[w] + 1) /\ IsInRing(ring)
        /\ (q.write_pos[w] + 1) \in q.write_pos[w] .. Len(D)
        /\ (q.write_pos[w] + 1) - Len(V) <= InN - 1
    BY <1>3, <1>6, <1>8, <1>9 DEF pos
  <2> QED
    BY ONLY <2>1, InShape(q), IsOpen(q, w, D, V), D \in Seq(Token), V \in Seq(Token), Written

LEMMA AllWritten ==
  ASSUME NEW q, InShape(q), NEW w, NEW D \in Seq(Token), NEW V \in Seq(Token),
         IsOpen(q, w, D, V), NEW count \in Nat, count <= In!InFree(q, w),
         q.write_pos[w] + count <= Len(D),
         NEW items, Rest(items, D, q.write_pos[w], count),
         NEW p, p = In!com_write_all(q, w, items)
  PROVE  WrittenTo(p, q, w, D, V, q.write_pos[w] + count)
<1> DEFINE pos == q.write_pos[w]
           ring == In!Filled(q.fifo[w], pos, items)
           to == pos + Len(In!New(pos, items))
<1>1. /\ w \in In!WriterSet(q) /\ pos \in Nat /\ Len(V) <= pos
      /\ Len(V) \in Nat /\ Len(D) \in Nat /\ q.read_pos[w] = Len(V)
      /\ IsInRing(q.fifo[w]) /\ Holds(q.fifo[w], D, Len(V), pos)
  BY LenProperties DEF IsOpen, Stores
<1>2. (pos + count) - Len(V) <= InN - 1
  BY <1>1, LengthAssumption DEF In!InFree, In!Room
<1>3. p = [q EXCEPT !.fifo[w] = ring, !.write_pos[w] = to]
  <2>1. DOMAIN q.fifo = In!WriterSet(q) /\ DOMAIN q.write_pos = In!WriterSet(q)
    BY DEF InShape
  <2> QED
    BY <2>1, <1>1 DEF In!com_write_all
<1>4. Rest(items, D, pos, count) /\ pos + count <= Len(D)
  OBVIOUS
<1> HIDE DEF pos
<1>5. Len(In!New(pos, items)) = count
  <2>1. pos <= pos /\ (IF pos < pos + count THEN pos + count - pos ELSE 0) = count
    BY <1>1
  <2>2. Len(In!New(pos, items)) = IF pos < pos + count THEN pos + count - pos ELSE 0
    BY <1>1, <1>4, <2>1, NewItems
  <2> QED
    BY ONLY <2>1, <2>2
<1>6. to = pos + count /\ to \in Nat
  BY <1>1, <1>5
<1>7. IsInRing(ring) /\ Holds(ring, D, Len(V), to)
  <2>1. pos <= pos /\ to - Len(V) <= InN - 1
    BY <1>1, <1>2, <1>6
  <2> HIDE DEF to
  <2>2. to = pos + Len(In!New(pos, items))
    BY DEF to
  <2> QED
    BY ONLY <1>1, <1>4, <1>6, <2>1, <2>2, count \in Nat, D \in Seq(Token), FilledHolds
<1>8. to \in q.write_pos[w] .. Len(D) /\ to - Len(V) <= InN - 1
  BY <1>1, <1>2, <1>4, <1>6 DEF pos
<1>9. WrittenTo(p, q, w, D, V, to)
  <2> HIDE DEF to, ring
  <2> QED
    BY ONLY <1>3, <1>7, <1>8, InShape(q), IsOpen(q, w, D, V), D \in Seq(Token), V \in Seq(Token), Written
<1> QED
  BY <1>6, <1>9 DEF pos

LEMMA Exhausting ==
  ASSUME NEW q, InShape(q), NEW w \in In!WriterSet(q), NEW p, p = In!exhaust(q, w)
  PROVE  /\ InShape(p) /\ In!WriterSet(p) = In!WriterSet(q)
         /\ \A v : v # w => SameWriter(p, q, v)
         /\ w \in DOMAIN p.termination
         /\ \A D, V : IsOpen(q, w, D, V) => IsOpen(p, w, D, V) /\ p.write_pos[w] = q.write_pos[w]
<1>1. /\ DOMAIN p = InFields /\ p.writers = q.writers /\ p.read_pos = q.read_pos
      /\ p.fifo = q.fifo /\ p.write_pos = q.write_pos /\ p.turn_pos = q.turn_pos
      /\ p.exhausted_tokens = q.exhausted_tokens
      /\ p.termination = [v \in DOMAIN q.termination \cup {w} |->
                            IF v = w THEN FALSE ELSE q.termination[v]]
  BY DEF In!exhaust, In!With, InShape, InFields
<1>2. In!WriterSet(p) = In!WriterSet(q)
  BY <1>1 DEF In!WriterSet
<1>3. InShape(p)
  BY <1>1, <1>2 DEF InShape
<1>4. ASSUME NEW v, v # w PROVE SameWriter(p, q, v)
  BY <1>1, <1>2, <1>4 DEF SameWriter
<1>5. ASSUME NEW D, NEW V, IsOpen(q, w, D, V)
      PROVE  IsOpen(p, w, D, V) /\ p.write_pos[w] = q.write_pos[w]
  <2>1. Stores(p, w, D, V)
    BY <1>1, <1>5 DEF IsOpen, Stores
  <2> QED
    BY <2>1, <1>1, <1>2, <1>5 DEF IsOpen
<1> QED
  BY <1>1, <1>2, <1>3, <1>4, <1>5

LEMMA Adding ==
  ASSUME NEW q, InShape(q), NEW w \in Nat, IsGone(q, w, <<>>, <<>>),
         NEW D \in Seq(Token), NEW p, p = In!add_writer(q, w)
  PROVE  /\ InShape(p) /\ In!WriterSet(p) = In!WriterSet(q) \cup {w}
         /\ \A v : v # w => SameWriter(p, q, v)
         /\ IsOpen(p, w, D, <<>>) /\ p.write_pos[w] = 0
         /\ p.writers = In!Ascending(In!WriterSet(p))
<1> DEFINE S == In!WriterSet(q) \cup {w}
<1>1. /\ DOMAIN p = InFields /\ p.writers = In!Ascending(S) /\ p.turn_pos = q.turn_pos
      /\ p.exhausted_tokens = q.exhausted_tokens /\ p.termination = q.termination
      /\ p.fifo = [v \in DOMAIN q.fifo \cup {w} |-> IF v = w THEN In!EmptyRing ELSE q.fifo[v]]
      /\ p.write_pos = [v \in DOMAIN q.write_pos \cup {w} |-> IF v = w THEN 0 ELSE q.write_pos[v]]
      /\ p.read_pos = [v \in DOMAIN q.read_pos \cup {w} |-> IF v = w THEN 0 ELSE q.read_pos[v]]
  BY DEF In!add_writer, In!With, InShape, InFields
<1>2. S \in SUBSET Nat /\ IsFiniteSet(S)
  BY FS_AddElement DEF InShape
<1> HIDE DEF S
<1>3. IsAscending(p.writers, S)
  BY <1>1, <1>2, InAscending
<1>4. In!WriterSet(p) = S
  BY <1>2, <1>3, AscendingList DEF In!WriterSet
<1>5. DOMAIN q.fifo = In!WriterSet(q) /\ DOMAIN q.write_pos = In!WriterSet(q)
      /\ DOMAIN q.read_pos = In!WriterSet(q) /\ q.turn_pos \in Nat
  BY DEF InShape
<1>6. InShape(p)
  BY <1>1, <1>2, <1>3, <1>4, <1>5 DEF InShape, S
<1>7. ASSUME NEW v, v # w PROVE SameWriter(p, q, v)
  BY <1>1, <1>4, <1>5, <1>7 DEF SameWriter, S
<1>8. IsOpen(p, w, D, <<>>)
  <2>1. w \in In!WriterSet(p) /\ w \notin DOMAIN p.exhausted_tokens /\ w \notin DOMAIN p.termination
    BY <1>1, <1>4 DEF S, IsGone
  <2>2. p.fifo[w] = In!EmptyRing /\ p.write_pos[w] = 0 /\ p.read_pos[w] = 0
    BY <1>1
  <2>3. Len(<<>>) = 0 /\ Len(D) \in Nat /\ InN - 1 \in Nat
    BY LengthAssumption, LenProperties
  <2>4. IsInRing(p.fifo[w])
    BY <2>2 DEF IsInRing, In!EmptyRing, In!Slots
  <2>5. Holds(p.fifo[w], D, 0, 0)
    BY DEF Holds
  <2>6. Stores(p, w, D, <<>>)
    BY <2>2, <2>3, <2>4, <2>5 DEF Stores
  <2> QED
    BY <2>1, <2>6 DEF IsOpen
<1> QED
  BY <1>1, <1>4, <1>6, <1>7, <1>8 DEF S

(* The queue with the remaining tokens of a peer in its list, before any   *)
(* of them is transferred.                                                 *)
Filed(q, tokens) ==
  LET got == DOMAIN tokens
      Old(v) == IF v \in DOMAIN q.exhausted_tokens THEN q.exhausted_tokens[v] ELSE <<>>
  IN  [q EXCEPT !.exhausted_tokens =
                   [v \in DOMAIN @ \cup got |-> IF v \in got THEN Old(v) \o tokens[v] ELSE @[v]],
                !.termination =
                   [v \in DOMAIN @ |-> IF v \in got THEN TRUE ELSE @[v]]]

LEMMA TokensFiled ==
  ASSUME NEW q, InShape(q), NEW w, NEW tokens,
         DOMAIN tokens = {} \/ DOMAIN tokens = {w},
         w \in DOMAIN tokens =>
           /\ w \in DOMAIN q.termination /\ tokens[w] \in Seq(Item),
         NEW p, p = Filed(q, tokens)
  PROVE  /\ In!set_exhausted_tokens(q, tokens) = Settle(p, DOMAIN tokens)
         /\ InShape(p) /\ In!WriterSet(p) = In!WriterSet(q)
         /\ p.writers = q.writers /\ p.turn_pos = q.turn_pos
         /\ p.read_pos = q.read_pos /\ p.write_pos = q.write_pos
         /\ \A v : v \notin DOMAIN tokens => SameWriter(p, q, v)
         /\ w \in DOMAIN tokens =>
              \A D, V \in Seq(Token) :
                IsOpen(q, w, D, V) /\ Rests(tokens[w], D, q.write_pos[w]) => IsClosing(p, w, D, V)
<1> DEFINE got == DOMAIN tokens
           Old(v) == IF v \in DOMAIN q.exhausted_tokens THEN q.exhausted_tokens[v] ELSE <<>>
<1>1. In!set_exhausted_tokens(q, tokens) = Settle(p, got)
  BY DEF In!set_exhausted_tokens, Settle, Filed
<1>2. /\ DOMAIN p = InFields /\ p.writers = q.writers /\ p.read_pos = q.read_pos
      /\ p.fifo = q.fifo /\ p.write_pos = q.write_pos /\ p.turn_pos = q.turn_pos
      /\ p.exhausted_tokens = [v \in DOMAIN q.exhausted_tokens \cup got |->
                           IF v \in got THEN Old(v) \o tokens[v] ELSE q.exhausted_tokens[v]]
      /\ p.termination = [v \in DOMAIN q.termination |->
                            IF v \in got THEN TRUE ELSE q.termination[v]]
  BY DEF InShape, InFields, Filed
<1>3. In!WriterSet(p) = In!WriterSet(q)
  BY <1>2 DEF In!WriterSet
<1>4. InShape(p)
  BY <1>2, <1>3 DEF InShape
<1>5. ASSUME NEW v, v \notin got PROVE SameWriter(p, q, v)
  BY <1>2, <1>3, <1>5 DEF SameWriter
<1>6. ASSUME w \in got, NEW D \in Seq(Token), NEW V \in Seq(Token), IsOpen(q, w, D, V),
             Rests(tokens[w], D, q.write_pos[w])
      PROVE  IsClosing(p, w, D, V)
  <2>1. p.exhausted_tokens[w] = tokens[w] /\ w \in DOMAIN p.exhausted_tokens
    <3>1. p.exhausted_tokens[w] = <<>> \o tokens[w]
      BY <1>2, <1>6 DEF IsOpen
    <3> QED
      BY <3>1, <1>2, <1>6, ConcatEmptySeq
  <2>2. w \in DOMAIN p.termination /\ p.termination[w] = TRUE
    BY <1>2, <1>6
  <2>3. Stores(p, w, D, V) /\ w \in In!WriterSet(p) /\ p.write_pos[w] = q.write_pos[w]
    BY <1>2, <1>3, <1>6 DEF IsOpen, Stores
  <2>4. Drained(p, w, D)
    BY <2>1, <2>3, <1>6 DEF Drained
  <2> QED
    BY <2>2, <2>3, <2>4 DEF IsClosing
<1> QED
  BY <1>1, <1>2, <1>3, <1>4, <1>5, <1>6

(* A writer's remaining tokens arrive, or none at all.                     *)
LEMMA TokensSet ==
  ASSUME NEW q, InShape(q), NEW w, NEW tokens,
         DOMAIN tokens = {} \/ DOMAIN tokens = {w},
         w \in DOMAIN tokens =>
           /\ w \in DOMAIN q.termination /\ tokens[w] \in Seq(Item),
         NEW p, p = In!set_exhausted_tokens(q, tokens)
  PROVE  /\ InShape(p) /\ In!WriterSet(p) \subseteq In!WriterSet(q)
         /\ \A v : v \notin DOMAIN tokens => Keeps(p, q, v)
         /\ w \in DOMAIN tokens =>
              \A D, V \in Seq(Token) :
                IsOpen(q, w, D, V) /\ Rests(tokens[w], D, q.write_pos[w]) => IsSettled(p, w, D, V)
<1> DEFINE got == DOMAIN tokens
           filed == Filed(q, tokens)
<1>1. /\ p = Settle(filed, got)
      /\ InShape(filed) /\ In!WriterSet(filed) = In!WriterSet(q)
      /\ \A v : v \notin got => SameWriter(filed, q, v)
      /\ w \in got =>
           \A D, V \in Seq(Token) :
             IsOpen(q, w, D, V) /\ Rests(tokens[w], D, q.write_pos[w]) => IsClosing(filed, w, D, V)
  BY TokensFiled
<1> HIDE DEF filed
<1>2. /\ InShape(p) /\ In!WriterSet(p) \subseteq In!WriterSet(q)
      /\ \A v : Keeps(p, filed, v)
  BY <1>1, Settling
<1>3. ASSUME NEW v, v \notin got PROVE Keeps(p, q, v)
  BY <1>1, <1>2, <1>3, SameWriterKeeps, KeepsTwice
<1>4. ASSUME w \in got, NEW D \in Seq(Token), NEW V \in Seq(Token), IsOpen(q, w, D, V),
             Rests(tokens[w], D, q.write_pos[w])
      PROVE  IsSettled(p, w, D, V)
  BY <1>1, <1>2, <1>4 DEF Keeps, IsSettled
<1> QED
  BY <1>2, <1>3, <1>4

(* The same writers in the same turn, and those that wait go on waiting.   *)
StaysInTurn(p, q) ==
  /\ p.writers = q.writers /\ p.turn_pos = q.turn_pos
  /\ \A w \in In!WriterSet(q) : In!Waiting(q, w) => In!Waiting(p, w)

LEMMA SameWritersListed ==
  ASSUME NEW p, NEW q, p.writers = q.writers
  PROVE  In!WriterSet(p) = In!WriterSet(q)
BY DEF In!WriterSet

(* What writes to the ring of one writer.                                  *)
LEMMA WrittenInTurn ==
  ASSUME NEW p, NEW q, InShape(q), NEW w, NEW D, NEW V, NEW to, WrittenTo(p, q, w, D, V, to),
         p.writers = q.writers, p.turn_pos = q.turn_pos, IsOpen(q, w, D, V),
         q.write_pos[w] <= to
  PROVE  StaysInTurn(p, q)
<1>1. Stores(q, w, D, V) /\ Stores(p, w, D, V) /\ p.write_pos[w] = to
  BY DEF WrittenTo, IsOpen
<1>2. ASSUME NEW v \in In!WriterSet(q), v # w, In!Waiting(q, v) PROVE In!Waiting(p, v)
  BY <1>2 DEF WrittenTo, SameWriter, In!Waiting
<1>3. ASSUME In!Waiting(q, w) PROVE In!Waiting(p, w)
  <2>1. /\ q.read_pos[w] = Len(V) /\ p.read_pos[w] = Len(V)
        /\ q.write_pos[w] \in Nat /\ p.write_pos[w] \in Nat /\ q.write_pos[w] <= p.write_pos[w]
    BY <1>1 DEF Stores
  <2> QED
    BY <2>1, <1>3 DEF In!Waiting
<1> QED
  BY <1>2, <1>3 DEF StaysInTurn

LEMMA TurnKept ==
  ASSUME NEW q, DOMAIN q = InFields, NEW w
  PROVE  /\ \A item : /\ In!com_write(q, w, item).writers = q.writers
                      /\ In!com_write(q, w, item).turn_pos = q.turn_pos
         /\ \A items : /\ In!com_write_all(q, w, items).writers = q.writers
                       /\ In!com_write_all(q, w, items).turn_pos = q.turn_pos
<1>1. \A item : /\ In!com_write(q, w, item).writers = q.writers
                /\ In!com_write(q, w, item).turn_pos = q.turn_pos
  BY DEF In!com_write, InFields
<1>2. \A items : /\ In!com_write_all(q, w, items).writers = q.writers
                 /\ In!com_write_all(q, w, items).turn_pos = q.turn_pos
  BY DEF In!com_write_all, InFields
<1> QED
  BY <1>1, <1>2

LEMMA ExhaustedInTurn ==
  ASSUME NEW q, DOMAIN q = InFields, NEW w
  PROVE  StaysInTurn(In!exhaust(q, w), q)
<1> DEFINE p == In!exhaust(q, w)
<1>1. /\ p.writers = q.writers /\ p.turn_pos = q.turn_pos
      /\ p.write_pos = q.write_pos /\ p.read_pos = q.read_pos
  BY DEF In!exhaust, InFields
<1> QED
  BY <1>1 DEF StaysInTurn, In!Waiting
(* Every writer's tokens are where they should be.                         *)
Filling(q) ==
  \A w \in In!WriterSet(q) :
    \E D, V \in Seq(Token) : IsOpen(q, w, D, V) \/ IsClosing(q, w, D, V)

(* Settling a queue that loses no writer by it.                            *)
LEMMA SettledInTurn ==
  ASSUME NEW q, InShape(q), Filling(q), NEW S, NEW p, p = Settle(q, S)
  PROVE  /\ p.writers = In!Ascending(In!WriterSet(p))
         /\ q.writers = In!Ascending(In!WriterSet(q))
              /\ In!WriterSet(p) = In!WriterSet(q) => StaysInTurn(p, q)
<1>1. /\ p.writers = In!Ascending(In!WriterSet(p)) /\ p.turn_pos = q.turn_pos
      /\ \A w \in In!WriterSet(p) :
           /\ p.read_pos[w] = q.read_pos[w]
           /\ \A D, V \in Seq(Token) :
                IsOpen(q, w, D, V) \/ IsClosing(q, w, D, V) => q.write_pos[w] <= p.write_pos[w]
  BY SettlingGrows
<1>2. \A w : Keeps(p, q, w)
  BY Settling
<1>3. ASSUME NEW w \in In!WriterSet(q), w \in In!WriterSet(p), In!Waiting(q, w)
      PROVE  In!Waiting(p, w)
  <2>1. PICK D \in Seq(Token), V \in Seq(Token) : IsOpen(q, w, D, V) \/ IsClosing(q, w, D, V)
    BY DEF Filling
  <2>2. IsOpen(p, w, D, V) \/ IsClosing(p, w, D, V)
    BY <1>2, <1>3, <2>1 DEF Keeps, IsSettled, IsGone
  <2>3. Stores(q, w, D, V) /\ Stores(p, w, D, V)
    BY <2>1, <2>2 DEF IsOpen, IsClosing
  <2>4. /\ q.read_pos[w] = Len(V) /\ p.read_pos[w] = Len(V)
        /\ q.write_pos[w] \in Nat /\ p.write_pos[w] \in Nat /\ Len(V) \in Nat
    BY <2>3, LenProperties DEF Stores
  <2>5. q.write_pos[w] <= p.write_pos[w]
    BY <1>1, <1>3, <2>1
  <2> QED
    BY <1>3, <2>4, <2>5 DEF In!Waiting
<1> QED
  BY <1>1, <1>3 DEF StaysInTurn

(* set_exhausted_tokens, perhaps on a queue that has just been exhausted.  *)
Remains(before, w, q, tokens) ==
  /\ InShape(before) /\ Filling(before)
  /\ q = before \/ (q = In!exhaust(before, w) /\ w \in In!WriterSet(before))
  /\ \/ DOMAIN tokens = {} /\ q = before
     \/ /\ DOMAIN tokens = {w}
        /\ w \in DOMAIN q.termination /\ tokens[w] \in Seq(Item)
        /\ \E D, V \in Seq(Token) :
             IsOpen(before, w, D, V) /\ Rests(tokens[w], D, before.write_pos[w])

LEMMA RemainingInTurn ==
  ASSUME NEW before, NEW w, NEW q, NEW tokens, Remains(before, w, q, tokens),
         NEW p, p = In!set_exhausted_tokens(q, tokens)
  PROVE  /\ p.writers = In!Ascending(In!WriterSet(p))
         /\ before.writers = In!Ascending(In!WriterSet(before))
              /\ In!WriterSet(p) = In!WriterSet(before) => StaysInTurn(p, before)
<1> DEFINE f == Filed(q, tokens)
<1>0. /\ InShape(before) /\ Filling(before)
      /\ q = before \/ (q = In!exhaust(before, w) /\ w \in In!WriterSet(before))
      /\ DOMAIN tokens = {} \/ DOMAIN tokens = {w}
      /\ w \notin DOMAIN tokens => q = before
      /\ w \in DOMAIN tokens =>
           /\ w \in DOMAIN q.termination /\ tokens[w] \in Seq(Item)
           /\ \E D, V \in Seq(Token) :
                IsOpen(before, w, D, V) /\ Rests(tokens[w], D, before.write_pos[w])
  BY DEF Remains
<1>1. DOMAIN before = InFields
  BY <1>0 DEF InShape
<1>2. /\ InShape(q) /\ In!WriterSet(q) = In!WriterSet(before)
      /\ \A v : v # w => SameWriter(q, before, v)
      /\ \A D, V : IsOpen(before, w, D, V) =>
           IsOpen(q, w, D, V) /\ q.write_pos[w] = before.write_pos[w]
      /\ StaysInTurn(q, before)
  <2>1. CASE q = before
    BY <1>0, <2>1 DEF SameWriter, StaysInTurn
  <2>2. CASE q = In!exhaust(before, w) /\ w \in In!WriterSet(before)
    <3>1. /\ InShape(q) /\ In!WriterSet(q) = In!WriterSet(before)
          /\ \A v : v # w => SameWriter(q, before, v)
          /\ \A E, W : IsOpen(before, w, E, W) =>
               IsOpen(q, w, E, W) /\ q.write_pos[w] = before.write_pos[w]
      BY ONLY <1>0, <2>2, Exhausting
    <3>2. StaysInTurn(q, before)
      BY ONLY <1>1, <2>2, ExhaustedInTurn
    <3> QED
      BY <3>1, <3>2
  <2> QED
    BY <1>0, <2>1, <2>2
<1>3. /\ p = Settle(f, DOMAIN tokens)
      /\ InShape(f) /\ In!WriterSet(f) = In!WriterSet(q)
      /\ f.writers = q.writers /\ f.turn_pos = q.turn_pos
      /\ f.read_pos = q.read_pos /\ f.write_pos = q.write_pos
      /\ \A v : v \notin DOMAIN tokens => SameWriter(f, q, v)
      /\ w \in DOMAIN tokens =>
           \A E, W \in Seq(Token) :
             IsOpen(q, w, E, W) /\ Rests(tokens[w], E, q.write_pos[w]) => IsClosing(f, w, E, W)
  <2>1. /\ InShape(q) /\ f = Filed(q, tokens)
        /\ DOMAIN tokens = {} \/ DOMAIN tokens = {w}
        /\ w \in DOMAIN tokens => w \in DOMAIN q.termination /\ tokens[w] \in Seq(Item)
    BY <1>0, <1>2
  <2>2. /\ In!set_exhausted_tokens(q, tokens) = Settle(f, DOMAIN tokens)
        /\ InShape(f) /\ In!WriterSet(f) = In!WriterSet(q)
        /\ f.writers = q.writers /\ f.turn_pos = q.turn_pos
        /\ f.read_pos = q.read_pos /\ f.write_pos = q.write_pos
        /\ \A v : v \notin DOMAIN tokens => SameWriter(f, q, v)
        /\ w \in DOMAIN tokens =>
             \A E, W \in Seq(Token) :
               IsOpen(q, w, E, W) /\ Rests(tokens[w], E, q.write_pos[w]) => IsClosing(f, w, E, W)
    BY ONLY <2>1, TokensFiled
  <2> QED
    BY ONLY <2>2, p = In!set_exhausted_tokens(q, tokens)
<1> HIDE DEF f
<1>4. Filling(f)
  <2> SUFFICES ASSUME NEW v \in In!WriterSet(before)
               PROVE  \E E, W \in Seq(Token) : IsOpen(f, v, E, W) \/ IsClosing(f, v, E, W)
    BY <1>2, <1>3 DEF Filling
  <2>1. CASE v \in DOMAIN tokens
    BY <2>1, <1>0, <1>2, <1>3
  <2>2. CASE v \notin DOMAIN tokens
    <3>1. PICK E \in Seq(Token), W \in Seq(Token) : IsOpen(before, v, E, W) \/ IsClosing(before, v, E, W)
      BY <1>0 DEF Filling
    <3>2. Keeps(f, q, v)
      BY <2>2, <1>3, SameWriterKeeps
    <3>3. Keeps(q, before, v)
      <4>1. SameWriter(q, before, v)
        BY <1>0, <1>2, <2>2 DEF SameWriter
      <4> QED
        BY <4>1, SameWriterKeeps
    <3>4. IsOpen(f, v, E, W) \/ IsSettled(f, v, E, W)
      BY <3>1, <3>2, <3>3 DEF Keeps, IsSettled
    <3> QED
      BY <3>4, <1>2, <1>3 DEF IsSettled, IsGone
  <2> QED
    BY <2>1, <2>2
<1>5. /\ p.writers = In!Ascending(In!WriterSet(p))
      /\ f.writers = In!Ascending(In!WriterSet(f))
           /\ In!WriterSet(p) = In!WriterSet(f) => StaysInTurn(p, f)
  BY <1>3, <1>4, SettledInTurn
<1>6. StaysInTurn(f, before)
  BY <1>2, <1>3 DEF StaysInTurn, In!Waiting
<1> QED
  BY <1>2, <1>3, <1>5, <1>6 DEF StaysInTurn
LEMMA LeastExists ==
  ASSUME NEW S \in SUBSET Nat, IsFiniteSet(S), S # {}
  PROVE  (\E m \in S : \A x \in S : m <= x) /\ (\E m \in S : \A x \in S : x <= m)
<1>1. PICK s : IsAscending(s, S)
  BY AscendingExists
<1> DEFINE n == Cardinality(S)
<1>2. n \in Nat /\ n # 0
  BY FS_CardinalityType, FS_EmptySet
<1>3. s \in [1 .. n -> S] /\ \A j, k \in 1 .. n : j < k => s[j] < s[k]
  BY <1>1 DEF IsAscending
<1>4. \A x \in S : \E k \in 1 .. n : s[k] = x
  <2>1. {s[k] : k \in DOMAIN s} = S
    BY <1>1, AscendingList
  <2>2. DOMAIN s = 1 .. n
    BY <1>3
  <2> QED
    BY <2>1, <2>2
<1> HIDE DEF n
<1>5. 1 \in 1 .. n /\ n \in 1 .. n
  BY <1>2
<1>6. ASSUME NEW x \in S PROVE s[1] <= x /\ x <= s[n]
  <2>1. PICK k \in 1 .. n : s[k] = x
    BY <1>4
  <2>2. s[1] \in Nat /\ s[n] \in Nat /\ x \in Nat
    BY <1>3, <1>5
  <2>3. (k = 1 \/ 1 < k) /\ (k = n \/ k < n)
    BY <1>2
  <2> QED
    BY <1>3, <1>5, <2>1, <2>2, <2>3
<1> QED
  BY <1>3, <1>5, <1>6

(* Going round, one comes to every entry.                                  *)
LEMMA ModReaches ==
  ASSUME NEW n \in Nat \ {0}, NEW t \in Int, NEW r \in 0 .. n - 1
  PROVE  \E k \in 0 .. n - 1 : (t + k) % n = r
<1> DEFINE x == r - t
           k == x % n
           d == x \div n
<1>1. x = n * d + k /\ d \in Int /\ k \in 0 .. n - 1
  OBVIOUS
<1>2. t + k = n * (-d) + r /\ -d \in Int /\ t + k \in Int
  <2>1. n * (-d) = -(n * d)
    BY <1>1
  <2>2. n * d \in Int /\ x \in Int
    BY <1>1
  <2> HIDE DEF k, d
  <2> QED
    BY <1>1, <2>1, <2>2
<1>3. (t + k) % n = r
  <2> HIDE DEF k, d
  <2> QED
    BY <1>2, ModIs
<1> QED
  BY <1>1, <1>3

(* One token of each writer in S has been taken.                           *)
Took(p, q, S) ==
  /\ DOMAIN p = InFields
  /\ p = [q EXCEPT !.read_pos = p.read_pos, !.turn_pos = p.turn_pos]
  /\ p.read_pos = [w \in DOMAIN q.read_pos |->
                     IF w \in S THEN q.read_pos[w] + 1 ELSE q.read_pos[w]]
  /\ p.turn_pos \in Nat

LEMMA ServedWaits ==
  ASSUME NEW q, InShape(q), \E w \in In!WriterSet(q) : In!Waiting(q, w)
  PROVE  LET n == Len(q.writers)
         IN  /\ n \in Nat \ {0}
             /\ \E k \in 0 .. n - 1 :
                  /\ In!Served(q) = ((q.turn_pos + k) % n) + 1
                  /\ In!Served(q) \in 1 .. n
                  /\ In!Waiting(q, q.writers[In!Served(q)])
                  /\ \A j \in 0 .. k - 1 :
                       ~In!Waiting(q, q.writers[((q.turn_pos + j) % n) + 1])
<1> DEFINE n == Len(q.writers)
           At(i) == ((q.turn_pos + i) % n) + 1
           K == {k \in 0 .. n - 1 : In!Waiting(q, q.writers[At(k)])}
<1>1. /\ n \in Nat /\ DOMAIN q.writers = 1 .. n /\ q.turn_pos \in Nat
      /\ In!WriterSet(q) = {q.writers[k] : k \in 1 .. n}
  <2>1. q.writers \in Seq(Nat) /\ q.turn_pos \in Nat
    BY AscendingList DEF InShape
  <2>2. DOMAIN q.writers = 1 .. n /\ n \in Nat
    BY <2>1, LenProperties
  <2> QED
    BY <2>1, <2>2 DEF In!WriterSet
<1>2. PICK j \in 1 .. n : In!Waiting(q, q.writers[j])
  BY <1>1
<1>3. n \in Nat \ {0}
  BY <1>1
<1> HIDE DEF n
<1>4. \E k \in 0 .. n - 1 : (q.turn_pos + k) % n = j - 1
  <2>1. j - 1 \in 0 .. n - 1 /\ q.turn_pos \in Int
    BY <1>1
  <2> QED
    BY ONLY <2>1, <1>3, ModReaches
<1>5. K # {}
  <2>1. PICK k \in 0 .. n - 1 : (q.turn_pos + k) % n = j - 1
    BY <1>4
  <2>2. (j - 1) + 1 = j
    BY <1>1
  <2>3. At(k) = j
    BY <2>1, <2>2
  <2> QED
    BY <2>3, <1>2
<1>6. K \in SUBSET Nat /\ IsFiniteSet(K)
  <2>1. 0 \in Int /\ n - 1 \in Int
    BY <1>3
  <2>2. IsFiniteSet(0 .. n - 1)
    BY ONLY <2>1, FS_Interval
  <2>3. K \in SUBSET (0 .. n - 1) /\ 0 .. n - 1 \subseteq Nat
    BY <1>3
  <2> HIDE DEF K
  <2> QED
    BY <2>2, <2>3, FS_Subset
<1>7. PICK m \in K : \A x \in K : m <= x
  BY <1>5, <1>6, LeastExists
<1>8. \A i \in 0 .. m - 1 : ~In!Waiting(q, q.writers[At(i)])
  BY <1>3, <1>7
<1> DEFINE First(k) == /\ In!Waiting(q, q.writers[At(k)])
                       /\ \A i \in 0 .. k - 1 : ~In!Waiting(q, q.writers[At(i)])
           first == CHOOSE k \in 0 .. n - 1 : First(k)
<1>9. first \in 0 .. n - 1 /\ First(first)
  <2>1. m \in 0 .. n - 1 /\ First(m)
    BY <1>7, <1>8
  <2> HIDE DEF First
  <2> QED
    BY <2>1
<1>10. In!Served(q) = At(first)
  BY DEF In!Served, n
<1>11. At(first) \in 1 .. n
  <2>1. q.turn_pos + first \in Int
    <3>1. q.turn_pos \in Nat /\ first \in 0 .. n - 1 /\ n \in Nat
      BY <1>1, <1>9
    <3> HIDE DEF first
    <3> QED
      BY ONLY <3>1
  <2>2. (q.turn_pos + first) % n \in 0 .. n - 1
    BY ONLY <2>1, <1>3, ModRange
  <2> QED
    BY <2>2, <1>3
<1> HIDE DEF first
<1> QED
  BY <1>3, <1>9, <1>10, <1>11 DEF n

LEMMA PeekTakes ==
  ASSUME NEW q, InShape(q), q.kind \in In!InKinds, q.writers # <<>>, In!tokens_available(q),
         q.kind = "any" => In!Excepting(q) = {}
  PROVE  /\ \A w \in In!peek(q).taken : w \in In!WriterSet(q) /\ In!Waiting(q, w)
         /\ Took(In!peek(q).queue, q, In!peek(q).taken)
<1>0. /\ DOMAIN q = InFields /\ q.turn_pos \in Nat /\ DOMAIN q.writers = 1 .. Len(q.writers)
      /\ Len(q.writers) \in Nat /\ q.writers \in Seq(Nat)
  <2>1. q.writers \in Seq(Nat)
    BY AscendingList DEF InShape
  <2> QED
    BY <2>1, LenProperties DEF InShape
<1>1. ASSUME NEW S
      PROVE  Took(In!Advanced(q, S), q, S) /\ In!Advanced(q, S).turn_pos = q.turn_pos
  BY <1>0 DEF Took, In!Advanced, InFields
<1>2. CASE q.kind = "unordered"
  <2> DEFINE k == In!Served(q)
             w == q.writers[k]
             p == [In!Advanced(q, {w}) EXCEPT !.turn_pos = k % Len(q.writers)]
  <2>1. k \in 1 .. Len(q.writers) /\ In!Waiting(q, w) /\ Len(q.writers) \in Nat \ {0}
    <3>1. \E v \in In!WriterSet(q) : In!Waiting(q, v)
      BY <1>2 DEF In!tokens_available
    <3> QED
      BY <3>1, ServedWaits
  <2>2. In!peek(q).taken = {w} /\ In!peek(q).queue = p
    BY <1>2 DEF In!peek
  <2> HIDE DEF k
  <2>3. w \in In!WriterSet(q)
    BY <1>0, <2>1 DEF In!WriterSet
  <2>4. k % Len(q.writers) \in Nat
    <3>1. k \in Int
      BY <2>1
    <3>2. k % Len(q.writers) \in 0 .. Len(q.writers) - 1
      BY ONLY <3>1, <2>1, ModRange
    <3> QED
      BY <3>2, <1>0
  <2>5. Took(p, q, {w})
    <3> DEFINE A == In!Advanced(q, {w})
               t == k % Len(q.writers)
    <3>1. Took(A, q, {w})
      BY <1>1
    <3> HIDE DEF A, t
    <3>2. Took([A EXCEPT !.turn_pos = t], q, {w})
      <4>1. t \in Nat
        BY <2>4 DEF t
      <4>2. DOMAIN A = InFields /\ A = [q EXCEPT !.read_pos = A.read_pos, !.turn_pos = A.turn_pos]
        BY <3>1 DEF Took
      <4>3. [A EXCEPT !.turn_pos = t] = [q EXCEPT !.read_pos = A.read_pos, !.turn_pos = t]
        BY ONLY <4>2, <1>0 DEF InFields
      <4> QED
        BY <4>1, <4>2, <4>3, <1>0, <3>1 DEF Took, InFields
    <3> QED
      BY <3>2 DEF A, t
  <2> QED
    BY <2>1, <2>2, <2>3, <2>5
<1>3. CASE q.kind = "synced" /\ In!Excepting(q) # {}
  <2> DEFINE k == In!FirstExcepting(q)
             w == q.writers[k]
             back == {q.writers[j] : j \in {j \in 1 .. k - 1 : ~In!Waiting(q, q.writers[j])}}
  <2>1. In!Excepting(q) \in SUBSET Nat /\ IsFiniteSet(In!Excepting(q))
        /\ In!Excepting(q) \subseteq 1 .. Len(q.writers)
    <3>1. In!Excepting(q) \subseteq 1 .. Len(q.writers)
      BY <1>0 DEF In!Excepting
    <3>2. 1 \in Int /\ Len(q.writers) \in Int
      BY <1>0
    <3>3. IsFiniteSet(1 .. Len(q.writers))
      BY ONLY <3>2, FS_Interval
    <3> QED
      BY <3>1, <3>3, FS_Subset
  <2>2. \E m \in In!Excepting(q) : \A j \in In!Excepting(q) : m <= j
    BY <1>3, <2>1, LeastExists
  <2>3. k \in In!Excepting(q)
    BY <2>2 DEF In!FirstExcepting
  <2>4. In!peek(q) = In!Alone(q)
    BY <1>3 DEF In!peek
  <2>5. In!Alone(q) = [taken |-> {w},
            queue |-> [In!Advanced(q, {w}) EXCEPT
                    !.read_pos = [v \in DOMAIN @ |-> IF v \in back THEN @[v] - 1 ELSE @[v]]]]
    BY DEF In!Alone
  <2> HIDE DEF k
  <2>6. w \in In!WriterSet(q) /\ In!Waiting(q, w) /\ k \in 1 .. Len(q.writers)
    BY <1>0, <2>1, <2>3 DEF In!Excepting, In!WriterSet
  <2>7. back = {}
    <3> SUFFICES ASSUME NEW j \in 1 .. k - 1 PROVE In!Waiting(q, q.writers[j])
      OBVIOUS
    <3>1. j \in DOMAIN q.writers
      BY <1>0, <2>6
    <3>2. \A v \in In!WriterSet(q) : In!Waiting(q, v)
      BY <1>3 DEF In!tokens_available
    <3> QED
      BY <3>1, <3>2 DEF In!WriterSet
  <2> HIDE DEF back
  <2>8. In!Alone(q).taken = {w} /\ Took(In!Alone(q).queue, q, {w})
    <3> DEFINE A == In!Advanced(q, {w})
               B == [A EXCEPT !.read_pos =
                       [v \in DOMAIN @ |-> IF v \in back THEN @[v] - 1 ELSE @[v]]]
    <3>1. Took(A, q, {w})
      BY <1>1
    <3>2. In!Alone(q).taken = {w} /\ In!Alone(q).queue = B
      BY <2>5
    <3> HIDE DEF A
    <3>3. B = A
      <4>1. DOMAIN A = InFields /\ A.read_pos = [v \in DOMAIN q.read_pos |->
                     IF v \in {w} THEN q.read_pos[v] + 1 ELSE q.read_pos[v]]
        BY <3>1 DEF Took
      <4>2. [v \in DOMAIN A.read_pos |-> IF v \in back THEN A.read_pos[v] - 1 ELSE A.read_pos[v]]
              = A.read_pos
        BY ONLY <4>1, <2>7
      <4>3. A = [A EXCEPT !.read_pos = A.read_pos]
        <5>1. A = [q EXCEPT !.read_pos = A.read_pos, !.turn_pos = A.turn_pos]
          BY <3>1 DEF Took
        <5> DEFINE a == A.read_pos
                   b == A.turn_pos
        <5> HIDE DEF a, b
        <5>2. A = [q EXCEPT !.read_pos = a, !.turn_pos = b]
          BY <5>1 DEF a, b
        <5>3. A = [A EXCEPT !.read_pos = a]
          BY ONLY <5>2, <1>0 DEF InFields
        <5> QED
          BY <5>3 DEF a
      <4> QED
        BY <4>2, <4>3
    <3> QED
      BY <3>1, <3>2, <3>3
  <2> QED
    BY <2>4, <2>6, <2>8
<1>4. CASE q.kind # "unordered" /\ In!Excepting(q) = {}
  <2> DEFINE S == {w \in In!WriterSet(q) : In!Waiting(q, w)}
  <2>1. In!peek(q) = [taken |-> S, queue |-> In!Advanced(q, S)]
    BY <1>4 DEF In!peek
  <2> QED
    BY <2>1, <1>1
<1> QED
  BY <1>2, <1>3, <1>4 DEF In!InKinds

(* What is taken of a writer is what was sent next.                        *)
LEMMA TokenTaken ==
  ASSUME NEW q, InShape(q), NEW S, \A w \in S : w \in In!WriterSet(q) /\ In!Waiting(q, w),
         NEW p, Took(p, q, S)
  PROVE  /\ InShape(p) /\ In!WriterSet(p) = In!WriterSet(q)
         /\ p.kind = q.kind /\ p.writers = q.writers
         /\ p.write_pos = q.write_pos /\ p.termination = q.termination
         /\ \A w : w \notin S => Keeps(p, q, w)
         /\ \A w \in S : \A D, V \in Seq(Token) :
              LET next == Append(V, In!TokenOf(q, w))
              IN  /\ IsOpen(q, w, D, V) => next \in Seq(Token) /\ IsOpen(p, w, D, next)
                  /\ IsClosing(q, w, D, V) => next \in Seq(Token) /\ IsClosing(p, w, D, next)
<1>1. /\ DOMAIN p = InFields /\ p.writers = q.writers /\ p.kind = q.kind
      /\ p.fifo = q.fifo /\ p.write_pos = q.write_pos /\ p.turn_pos \in Nat
      /\ p.exhausted_tokens = q.exhausted_tokens /\ p.termination = q.termination
      /\ p.read_pos = [w \in DOMAIN q.read_pos |->
                         IF w \in S THEN q.read_pos[w] + 1 ELSE q.read_pos[w]]
  <2>1. p = [q EXCEPT !.read_pos = p.read_pos, !.turn_pos = p.turn_pos] /\ DOMAIN q = InFields
    BY DEF Took, InShape
  <2>2. /\ p.writers = q.writers /\ p.kind = q.kind
        /\ p.fifo = q.fifo /\ p.write_pos = q.write_pos
        /\ p.exhausted_tokens = q.exhausted_tokens /\ p.termination = q.termination
    BY ONLY <2>1 DEF InFields
  <2> QED
    BY <2>2 DEF Took
<1>2. In!WriterSet(p) = In!WriterSet(q) /\ DOMAIN q.read_pos = In!WriterSet(q)
  BY <1>1 DEF In!WriterSet, InShape
<1>3. InShape(p)
  BY <1>1, <1>2 DEF InShape
<1>4. ASSUME NEW w, w \notin S PROVE Keeps(p, q, w)
  <2>1. SameWriter(p, q, w)
    BY <1>1, <1>2, <1>4 DEF SameWriter
  <2> QED
    BY <2>1, SameWriterKeeps
<1>5. ASSUME NEW w \in S, NEW D \in Seq(Token), NEW V \in Seq(Token), Stores(q, w, D, V)
      PROVE  Append(V, In!TokenOf(q, w)) \in Seq(Token) /\ Stores(p, w, D, Append(V, In!TokenOf(q, w)))
  <2> DEFINE t == In!TokenOf(q, w)
             U == Append(V, t)
             n == Len(V)
             pos == q.write_pos[w]
  <2>1. /\ n \in Nat /\ Len(D) \in Nat /\ pos \in Nat /\ q.read_pos[w] = n /\ n <= pos /\ pos <= Len(D)
        /\ pos - n <= InN - 1 /\ \A k \in 1 .. n : V[k] = D[k]
        /\ IsInRing(q.fifo[w]) /\ Holds(q.fifo[w], D, n, pos)
    BY <1>5, LenProperties DEF Stores
  <2>2. n < pos
    BY <2>1 DEF In!Waiting
  <2>3. t = D[n + 1]
    <3>1. n \in n .. pos - 1
      BY <2>1, <2>2
    <3>2. q.fifo[w][n % InN] = D[n + 1]
      BY <2>1, <3>1 DEF Holds
    <3> QED
      BY <2>1, <3>2 DEF In!TokenOf
  <2> HIDE DEF t
  <2>4. t \in Token
    <3>1. n + 1 \in 1 .. Len(D)
      BY <2>1, <2>2
    <3> QED
      BY <2>3, <3>1, ElementOfSeq
  <2>5. U \in Seq(Token) /\ Len(U) = n + 1 /\ \A k \in 1 .. n + 1 : U[k] = IF k = n + 1 THEN t ELSE V[k]
    BY <2>4
  <2> HIDE DEF U
  <2>6. p.read_pos[w] = n + 1 /\ p.write_pos[w] = pos /\ p.fifo[w] = q.fifo[w]
    BY <1>1, <1>2, <2>1
  <2>7. \A k \in 1 .. n + 1 : U[k] = D[k]
    BY <2>1, <2>3, <2>5
  <2>8. Holds(q.fifo[w], D, n + 1, pos)
    BY <2>1 DEF Holds
  <2> HIDE DEF n, pos
  <2>9. n + 1 <= pos /\ pos - (n + 1) <= InN - 1
    BY <2>1, <2>2, LengthAssumption
  <2> QED
    BY <2>1, <2>5, <2>6, <2>7, <2>8, <2>9 DEF Stores, t, U
<1>6. ASSUME NEW w \in S, NEW D \in Seq(Token), NEW V \in Seq(Token)
      PROVE  LET next == Append(V, In!TokenOf(q, w))
             IN  /\ IsOpen(q, w, D, V) => next \in Seq(Token) /\ IsOpen(p, w, D, next)
                 /\ IsClosing(q, w, D, V) => next \in Seq(Token) /\ IsClosing(p, w, D, next)
  <2>1. Drained(q, w, D) => Drained(p, w, D)
    BY <1>1 DEF Drained
  <2> QED
    BY <2>1, <1>1, <1>2, <1>5 DEF IsOpen, IsClosing
<1> QED
  BY <1>1, <1>2, <1>3, <1>4, <1>6

LEMMA Consumed ==
  ASSUME NEW q, InShape(q), q.kind \in In!InKinds, q.writers # <<>>, In!tokens_available(q),
         q.kind = "any" => In!Excepting(q) = {},
         NEW p, p = In!commit(In!peek(q).queue)
  PROVE  /\ InShape(p) /\ In!WriterSet(p) \subseteq In!WriterSet(q)
         /\ \A w : w \notin In!peek(q).taken => Keeps(p, q, w)
         /\ \A w \in In!peek(q).taken :
              /\ w \in In!WriterSet(q)
              /\ \A D, V \in Seq(Token) :
                   LET next == Append(V, In!TokenOf(q, w))
                   IN  /\ IsOpen(q, w, D, V) =>
                            /\ next \in Seq(Token) /\ IsOpen(p, w, D, next)
                            /\ p.write_pos[w] = q.write_pos[w]
                            /\ w \in DOMAIN p.termination <=> w \in DOMAIN q.termination
                       /\ IsSettled(q, w, D, V) => next \in Seq(Token) /\ IsSettled(p, w, D, next)
<1> DEFINE S == In!peek(q).taken
           m == In!peek(q).queue
<1>1. (\A w \in S : w \in In!WriterSet(q) /\ In!Waiting(q, w)) /\ Took(m, q, S)
  BY PeekTakes
<1>2. p = Settle(m, DOMAIN In!TransferAll(m).termination)
  BY DEF In!commit, Settle
<1> HIDE DEF S, m
<1>3. /\ InShape(m) /\ In!WriterSet(m) = In!WriterSet(q)
      /\ m.write_pos = q.write_pos /\ m.termination = q.termination
      /\ \A w : w \notin S => Keeps(m, q, w)
      /\ \A w \in S : \A D, V \in Seq(Token) :
           LET next == Append(V, In!TokenOf(q, w))
           IN  /\ IsOpen(q, w, D, V) => next \in Seq(Token) /\ IsOpen(m, w, D, next)
               /\ IsClosing(q, w, D, V) => next \in Seq(Token) /\ IsClosing(m, w, D, next)
  BY <1>1, TokenTaken
<1>4. /\ InShape(p) /\ In!WriterSet(p) \subseteq In!WriterSet(m) /\ \A w : Keeps(p, m, w)
  BY <1>2, <1>3, Settling
<1>5. ASSUME NEW w, w \notin S PROVE Keeps(p, q, w)
  BY <1>3, <1>4, <1>5, KeepsTwice
<1>6. ASSUME NEW w \in S, NEW D \in Seq(Token), NEW V \in Seq(Token)
      PROVE  LET next == Append(V, In!TokenOf(q, w))
             IN  /\ IsOpen(q, w, D, V) =>
                            /\ next \in Seq(Token) /\ IsOpen(p, w, D, next)
                            /\ p.write_pos[w] = q.write_pos[w]
                            /\ w \in DOMAIN p.termination <=> w \in DOMAIN q.termination
                 /\ IsSettled(q, w, D, V) => next \in Seq(Token) /\ IsSettled(p, w, D, next)
  <2> DEFINE next == Append(V, In!TokenOf(q, w))
  <2>1. /\ IsOpen(q, w, D, V) => next \in Seq(Token) /\ IsOpen(m, w, D, next)
        /\ IsClosing(q, w, D, V) => next \in Seq(Token) /\ IsClosing(m, w, D, next)
    BY <1>3
  <2>2. ~IsGone(q, w, D, V)
    BY <1>1 DEF IsGone
  <2> HIDE DEF next
  <2>3. Keeps(p, m, w)
    BY <1>4
  <2>4. IsOpen(q, w, D, V) =>
           /\ next \in Seq(Token) /\ IsOpen(p, w, D, next)
           /\ p.write_pos[w] = q.write_pos[w]
           /\ w \in DOMAIN p.termination <=> w \in DOMAIN q.termination
    BY <2>1, <2>3, <1>3 DEF Keeps
  <2>5. IsSettled(q, w, D, V) => next \in Seq(Token) /\ IsSettled(p, w, D, next)
    BY <2>1, <2>2, <2>3 DEF Keeps, IsSettled
  <2> QED
    BY <2>4, <2>5 DEF next
<1> QED
  BY <1>1, <1>3, <1>4, <1>5, <1>6 DEF S

-----------------------------------------------------------------------------
(* The other side: an outport's queue and one of its readers.              *)
OutShape(q) ==
  /\ HasReaders(q)
  /\ DOMAIN q.fifo = Out!ReaderSet(q)
  /\ DOMAIN q.write_pos = Out!ReaderSet(q)
  /\ DOMAIN q.read_pos = Out!ReaderSet(q)
  /\ DOMAIN q.tentative_read_pos = Out!ReaderSet(q)
  /\ DOMAIN q.reader_offset = Out!ReaderSet(q)

(* The reader's ring holds what is not committed of the tokens D that were *)
(* dispatched to it, which count from its offset.                          *)
Sends(q, r, D) ==
  LET from == q.reader_offset[r]
      pos == q.read_pos[r]
      tent == q.tentative_read_pos[r]
      to == q.write_pos[r]
  IN  /\ from \in Nat /\ pos \in from .. to /\ tent \in from .. to /\ to \in Nat
      /\ to - pos <= OutN - 1
      /\ to - from = Len(D)
      /\ q.fifo[r] \in [0 .. OutN - 1 -> Token \cup {NoToken}]
      /\ \A k \in from .. to - 1 : q.fifo[r][k % OutN] \in Token
      /\ \A k \in pos .. to - 1 : q.fifo[r][k % OutN] = D[k - from + 1]

SameReader(p, q, r) ==
  /\ r \in Out!ReaderSet(p) <=> r \in Out!ReaderSet(q)
  /\ r \in Out!ReaderSet(q) =>
       /\ p.fifo[r] = q.fifo[r] /\ p.write_pos[r] = q.write_pos[r]
       /\ p.read_pos[r] = q.read_pos[r] /\ p.tentative_read_pos[r] = q.tentative_read_pos[r]
       /\ p.reader_offset[r] = q.reader_offset[r]

LEMMA SameReaderSends ==
  ASSUME NEW p, NEW q, NEW r \in Out!ReaderSet(q), SameReader(p, q, r), NEW D, Sends(q, r, D)
  PROVE  Sends(p, r, D)
BY DEF SameReader, Sends

(* Positions of a reader move.                                             *)
Repositioned(p, q, r, pos, tent) ==
  /\ SameReaders(p, q) /\ p.fifo = q.fifo /\ p.write_pos = q.write_pos
  /\ p.reader_offset = q.reader_offset
  /\ DOMAIN p.read_pos = DOMAIN q.read_pos
  /\ DOMAIN p.tentative_read_pos = DOMAIN q.tentative_read_pos
  /\ p.read_pos[r] = pos /\ p.tentative_read_pos[r] = tent
  /\ \A s : s # r => p.read_pos[s] = q.read_pos[s]
                     /\ p.tentative_read_pos[s] = q.tentative_read_pos[s]

SendsFrom(p, q, r, D, pos, tent) ==
  /\ OutShape(p) /\ Out!ReaderSet(p) = Out!ReaderSet(q) /\ p.kind = q.kind
  /\ \A s : s # r => SameReader(p, q, s)
  /\ Sends(p, r, D)
  /\ p.read_pos[r] = pos /\ p.tentative_read_pos[r] = tent
  /\ p.write_pos = q.write_pos /\ p.reader_offset = q.reader_offset

LEMMA PositionsMoved ==
  ASSUME NEW q, OutShape(q), NEW r \in Out!ReaderSet(q), NEW D, Sends(q, r, D),
         NEW pos, pos \in q.read_pos[r] .. q.write_pos[r],
         NEW tent, tent \in q.reader_offset[r] .. q.write_pos[r],
         NEW p, Repositioned(p, q, r, pos, tent)
  PROVE  SendsFrom(p, q, r, D, pos, tent)
<1>1. SameReaders(p, q) /\ p.kind = q.kind
  BY DEF Repositioned, SameReaders
<1>2. HasReaders(p) /\ Out!ReaderSet(p) = Out!ReaderSet(q)
  BY <1>1, SameReadersKeeps DEF OutShape
<1>3. OutShape(p)
  BY <1>2 DEF OutShape, Repositioned
<1>4. ASSUME NEW s, s # r PROVE SameReader(p, q, s)
  BY <1>2, <1>4 DEF SameReader, OutShape, Repositioned
<1>5. Sends(p, r, D)
  <2> DEFINE from == q.reader_offset[r]
             old == q.read_pos[r]
             to == q.write_pos[r]
  <2>1. /\ from \in Nat /\ old \in from .. to /\ to \in Nat /\ to - old <= OutN - 1
        /\ to - from = Len(D) /\ q.fifo[r] \in [0 .. OutN - 1 -> Token \cup {NoToken}]
        /\ \A k \in from .. to - 1 : q.fifo[r][k % OutN] \in Token
        /\ \A k \in old .. to - 1 : q.fifo[r][k % OutN] = D[k - from + 1]
    BY DEF Sends
  <2>2. pos \in old .. to /\ tent \in from .. to
    OBVIOUS
  <2> HIDE DEF from, old, to
  <2>3. pos \in from .. to /\ to - pos <= OutN - 1 /\ pos .. to - 1 \subseteq old .. to - 1
    BY <2>1, <2>2, LengthAssumption
  <2>4. \A k \in pos .. to - 1 : q.fifo[r][k % OutN] = D[k - from + 1]
    BY <2>1, <2>3
  <2>5. p.fifo[r] = q.fifo[r] /\ p.write_pos[r] = to /\ p.reader_offset[r] = from
        /\ p.read_pos[r] = pos /\ p.tentative_read_pos[r] = tent
    BY DEF to, from, Repositioned
  <2> QED
    BY ONLY <2>1, <2>2, <2>3, <2>4, <2>5 DEF Sends
<1> QED
  BY <1>1, <1>2, <1>3, <1>4, <1>5 DEF SendsFrom, Repositioned

LEMMA Cancelled ==
  ASSUME NEW q, OutShape(q), NEW r \in Out!ReaderSet(q), NEW D, Sends(q, r, D),
         NEW seq \in Nat, NEW p, p = Out!com_cancel(q, r, seq)
  PROVE  SendsFrom(p, q, r, D, q.read_pos[r], p.tentative_read_pos[r])
<1> DEFINE tent == seq + q.reader_offset[r]
           pos == q.read_pos[r]
<1>0. DOMAIN q = OutFields /\ r \in DOMAIN q.tentative_read_pos
  BY DEF OutShape, HasReaders
<1>1. CASE tent >= q.tentative_read_pos[r]
  <2>1. p = q
    BY <1>1 DEF Out!com_cancel
  <2> QED
    BY <2>1 DEF SameReader, SendsFrom
<1>2. CASE ~(tent >= q.tentative_read_pos[r])
  <2>1. p = [q EXCEPT !.tentative_read_pos[r] = tent]
    BY <1>2 DEF Out!com_cancel
  <2>2. /\ pos \in pos .. q.write_pos[r] /\ tent \in q.reader_offset[r] .. q.write_pos[r]
    BY <1>2 DEF Sends
  <2> HIDE DEF tent
  <2>3. Repositioned(p, q, r, pos, tent)
    BY <2>1, <1>0 DEF Repositioned, SameReaders, OutFields
  <2> HIDE DEF pos
  <2>4. pos \in q.read_pos[r] .. q.write_pos[r]
    BY <2>2 DEF pos
  <2>5. SendsFrom(p, q, r, D, pos, tent)
    BY <2>2, <2>3, <2>4, PositionsMoved
  <2> QED
    BY <2>5 DEF pos, SendsFrom
<1> QED
  BY <1>1, <1>2

LEMMA Committed ==
  ASSUME NEW q, OutShape(q), NEW r \in Out!ReaderSet(q), NEW D, Sends(q, r, D),
         NEW seq \in Nat, NEW p, p = Out!com_commit(q, r, seq)
  PROVE  /\ SendsFrom(p, q, r, D, p.read_pos[r], q.tentative_read_pos[r])
         /\ \/ p.read_pos[r] = q.read_pos[r]
            \/ p.read_pos[r] = q.read_pos[r] + 1 /\ p.read_pos[r] - q.reader_offset[r] = seq + 1
<1> DEFINE tent == q.tentative_read_pos[r]
           pos == q.read_pos[r] + 1
<1>0. DOMAIN q = OutFields /\ r \in DOMAIN q.read_pos
  BY DEF OutShape, HasReaders
<1>1. CASE seq + q.reader_offset[r] = q.read_pos[r] /\ q.read_pos[r] < q.tentative_read_pos[r]
  <2>1. p = [q EXCEPT !.read_pos[r] = pos]
    BY <1>1 DEF Out!com_commit
  <2>2. /\ pos \in q.read_pos[r] .. q.write_pos[r] /\ tent \in q.reader_offset[r] .. q.write_pos[r]
        /\ pos - q.reader_offset[r] = seq + 1
    <3> DEFINE from == q.reader_offset[r]
               old == q.read_pos[r]
               to == q.write_pos[r]
    <3>1. from \in Nat /\ old \in from .. to /\ to \in Nat /\ tent \in from .. to
      BY DEF Sends
    <3>2. seq + from = old /\ old < tent
      BY <1>1
    <3> HIDE DEF from, old, to, tent
    <3>3. old + 1 \in old .. to /\ (old + 1) - from = seq + 1
      BY <3>1, <3>2
    <3> QED
      BY <3>1, <3>3 DEF from, old, to
  <2> HIDE DEF pos
  <2>3. Repositioned(p, q, r, pos, tent)
    BY <2>1, <1>0 DEF Repositioned, SameReaders, OutFields
  <2> HIDE DEF tent
  <2>4. SendsFrom(p, q, r, D, pos, tent)
    BY <2>2, <2>3, PositionsMoved
  <2> QED
    BY <2>2, <2>4 DEF pos, tent, SendsFrom
<1>2. CASE ~(seq + q.reader_offset[r] = q.read_pos[r] /\ q.read_pos[r] < q.tentative_read_pos[r])
  <2>1. p = q
    BY <1>2 DEF Out!com_commit
  <2> QED
    BY <2>1 DEF SameReader, SendsFrom
<1> QED
  BY <1>1, <1>2

LEMMA SentOn ==
  ASSUME NEW q, OutShape(q), NEW r \in Out!ReaderSet(q), NEW D, Sends(q, r, D),
         NEW tent, tent \in q.reader_offset[r] .. q.write_pos[r],
         NEW p, p = Out!Peeked(q, r, tent)
  PROVE  SendsFrom(p, q, r, D, q.read_pos[r], tent)
<1> DEFINE pos == q.read_pos[r]
<1>0. DOMAIN q = OutFields /\ r \in DOMAIN q.tentative_read_pos
  BY DEF OutShape, HasReaders
<1>1. p = [q EXCEPT !.tentative_read_pos[r] = tent]
  BY DEF Out!Peeked
<1>2. Repositioned(p, q, r, pos, tent)
  BY <1>0, <1>1 DEF Repositioned, SameReaders, OutFields
<1>3. pos \in q.read_pos[r] .. q.write_pos[r]
  BY DEF Sends
<1> HIDE DEF pos
<1>4. SendsFrom(p, q, r, D, pos, tent)
  BY <1>2, <1>3, PositionsMoved
<1> QED
  BY <1>4 DEF pos

LEMMA MovedOn ==
  ASSUME NEW q, OutShape(q), NEW r \in Out!ReaderSet(q), NEW D, Sends(q, r, D),
         q.tentative_read_pos[r] = q.read_pos[r],
         NEW count \in Nat, q.read_pos[r] + count <= q.write_pos[r],
         NEW p, p = Out!Moved(q, r, count)
  PROVE  SendsFrom(p, q, r, D, q.read_pos[r] + count, q.read_pos[r] + count)
<1> DEFINE pos == q.read_pos[r] + count
<1>0. DOMAIN q = OutFields /\ r \in DOMAIN q.tentative_read_pos /\ r \in DOMAIN q.read_pos
  BY DEF OutShape, HasReaders
<1>1. p = [q EXCEPT !.tentative_read_pos[r] = pos, !.read_pos[r] = pos]
  BY <1>0 DEF Out!Moved, OutFields
<1>2. pos \in q.read_pos[r] .. q.write_pos[r] /\ pos \in q.reader_offset[r] .. q.write_pos[r]
  BY DEF Sends
<1> HIDE DEF pos
<1>3. Repositioned(p, q, r, pos, pos)
  BY <1>0, <1>1 DEF Repositioned, SameReaders, OutFields
<1>4. SendsFrom(p, q, r, D, pos, pos)
  BY <1>2, <1>3, PositionsMoved
<1> QED
  BY <1>4 DEF pos

LEMMA PutSends ==
  ASSUME NEW q, NEW r, NEW D \in Seq(Token), Sends(q, r, D), Out!Free(q, r) > 0,
         NEW token \in Token, NEW p,
         p.fifo[r] = [q.fifo[r] EXCEPT ![q.write_pos[r] % OutN] = token],
         p.write_pos[r] = q.write_pos[r] + 1,
         p.read_pos[r] = q.read_pos[r], p.tentative_read_pos[r] = q.tentative_read_pos[r],
         p.reader_offset[r] = q.reader_offset[r]
  PROVE  Sends(p, r, Append(D, token))
<1> DEFINE from == q.reader_offset[r]
           pos == q.read_pos[r]
           tent == q.tentative_read_pos[r]
           to == q.write_pos[r]
           ring == q.fifo[r]
           ring1 == p.fifo[r]
           D1 == Append(D, token)
           Ring == [0 .. OutN - 1 -> Token \cup {NoToken}]
<1>1. /\ from \in Nat /\ pos \in from .. to /\ tent \in from .. to /\ to \in Nat
      /\ to - pos <= OutN - 1 /\ to - from = Len(D) /\ ring \in Ring
      /\ \A k \in from .. to - 1 : ring[k % OutN] \in Token
      /\ \A k \in pos .. to - 1 : ring[k % OutN] = D[k - from + 1]
  BY DEF Sends
<1>2. ring1 = [ring EXCEPT ![to % OutN] = token]
  OBVIOUS
<1>3. (OutN - 1) - (to - pos) > 0
  BY DEF Out!Free, Out!Room
<1>4. OutN \in Nat \ {0}
  BY LengthAssumption
<1>5. Len(D1) = Len(D) + 1 /\ Len(D) \in Nat /\ D1[Len(D) + 1] = token
      /\ \A k \in 1 .. Len(D) : D1[k] = D[k]
  BY AppendProperties, LenProperties
<1>6. p.write_pos[r] = to + 1 /\ p.read_pos[r] = pos /\ p.tentative_read_pos[r] = tent
      /\ p.reader_offset[r] = from
  OBVIOUS
<1> HIDE DEF from, pos, tent, to, ring, ring1, D1
<1>7. \A k \in Int : k % OutN \in 0 .. OutN - 1
  BY <1>4, ModRange
<1>8. ring1 \in Ring /\ \A s \in 0 .. OutN - 1 : ring1[s] = IF s = to % OutN THEN token ELSE ring[s]
  <2>1. to % OutN \in 0 .. OutN - 1
    BY <1>1, <1>7
  <2> QED
    BY <2>1, <1>1, <1>2
<1> HIDE DEF Ring
<1>9. ASSUME NEW k \in from .. to PROVE ring1[k % OutN] \in Token
  <2>0. k \in Int /\ to \in Int
    BY <1>1
  <2>1. k % OutN \in 0 .. OutN - 1
    BY ONLY <2>0, <1>7
  <2>2. CASE k = to
    BY <2>1, <2>2, <1>8
  <2>3. CASE k < to
    <3>1. k \in from .. to - 1
      BY <2>3, <1>1
    <3> QED
      BY <2>1, <3>1, <1>1, <1>8
  <2>4. k = to \/ k < to
    BY <1>1
  <2> QED
    BY <2>2, <2>3, <2>4
<1>10. ASSUME NEW k \in pos .. to PROVE ring1[k % OutN] = D1[k - from + 1]
  <2>0. k \in Int /\ to \in Int
    BY <1>1
  <2>1. k % OutN \in 0 .. OutN - 1
    BY ONLY <2>0, <1>7
  <2>2. CASE k = to
    BY <2>1, <2>2, <1>1, <1>5, <1>8
  <2>3. CASE k < to
    <3>1. k \in pos .. to - 1 /\ to - k < OutN /\ k - from + 1 \in 1 .. Len(D)
      BY <2>0, <2>3, <1>1, <1>3, <1>4
    <3>2. k % OutN # to % OutN
      BY ONLY <2>0, <2>3, <3>1, <1>4, SlotsDistinct
    <3> QED
      BY <2>1, <3>1, <3>2, <1>1, <1>5, <1>8
  <2>4. k = to \/ k < to
    BY <1>1
  <2> QED
    BY <2>2, <2>3, <2>4
<1>11. /\ pos \in from .. to + 1 /\ tent \in from .. to + 1 /\ to + 1 \in Nat
       /\ (to + 1) - pos <= OutN - 1 /\ (to + 1) - from = Len(D1) /\ (to + 1) - 1 = to
  BY <1>1, <1>3, <1>4, <1>5
<1>12. ring1 \in [0 .. OutN - 1 -> Token \cup {NoToken}] /\ ring1 = p.fifo[r]
  BY <1>8 DEF Ring, ring1
<1>13. from \in Nat
  BY <1>1
<1>14. Sends(p, r, D1)
  BY ONLY <1>6, <1>9, <1>10, <1>11, <1>12, <1>13 DEF Sends
<1> QED
  BY <1>14 DEF D1

LEMMA WrittenOut ==
  ASSUME NEW q, OutShape(q), NEW to, to \subseteq Out!ReaderSet(q), NEW token \in Token,
         NEW w \in Out!write(q, to, token)
  PROVE  /\ OutShape(w) /\ Out!ReaderSet(w) = Out!ReaderSet(q) /\ w.kind = q.kind
         /\ w.read_pos = q.read_pos /\ w.reader_offset = q.reader_offset
         /\ w.tentative_read_pos = q.tentative_read_pos
         /\ \A r : r \notin to => SameReader(w, q, r)
         /\ \A r \in to : \A D \in Seq(Token) :
              Sends(q, r, D) /\ Out!Free(q, r) > 0 => Sends(w, r, Append(D, token))
<1>1. HasReaders(w) /\ Out!ReaderSet(w) = Out!ReaderSet(q) /\ w.kind = q.kind
  BY WrittenReaders DEF OutShape
<1>2. PICK p \in Out!Turned(q) : w = Out!Put(p, to, token)
  BY WrittenReaders DEF OutShape
<1>3. DOMAIN q = OutFields
  BY DEF OutShape, HasReaders
<1>4. /\ DOMAIN p = OutFields /\ p.fifo = q.fifo /\ p.write_pos = q.write_pos
      /\ p.read_pos = q.read_pos /\ p.tentative_read_pos = q.tentative_read_pos
      /\ p.reader_offset = q.reader_offset
  BY <1>2, <1>3 DEF Out!Turned, OutFields
<1>5. /\ w.fifo = [r \in DOMAIN q.fifo |->
              IF r \in to THEN [q.fifo[r] EXCEPT ![q.write_pos[r] % OutN] = token]
                          ELSE q.fifo[r]]
      /\ w.write_pos = [r \in DOMAIN q.write_pos |->
              IF r \in to THEN q.write_pos[r] + 1 ELSE q.write_pos[r]]
      /\ w.read_pos = q.read_pos /\ w.tentative_read_pos = q.tentative_read_pos
      /\ w.reader_offset = q.reader_offset
  BY <1>2, <1>4 DEF Out!Put, OutFields
<1>6. OutShape(w)
  BY <1>1, <1>5 DEF OutShape
<1>7. ASSUME NEW r, r \notin to PROVE SameReader(w, q, r)
  BY <1>1, <1>5, <1>7 DEF SameReader, OutShape
<1>8. ASSUME NEW r \in to, NEW D \in Seq(Token), Sends(q, r, D), Out!Free(q, r) > 0
      PROVE  Sends(w, r, Append(D, token))
  <2>1. r \in DOMAIN q.fifo /\ r \in DOMAIN q.write_pos
    BY DEF OutShape
  <2>2. w.fifo[r] = [q.fifo[r] EXCEPT ![q.write_pos[r] % OutN] = token]
        /\ w.write_pos[r] = q.write_pos[r] + 1
    BY <2>1, <1>5
  <2> QED
    BY <2>2, <1>5, <1>8, PutSends
<1> QED
  BY <1>1, <1>5, <1>6, <1>7, <1>8

(* A token goes only to readers that have a free slot.                     *)
LEMMA SlotFree ==
  ASSUME NEW q, HasReaders(q), q.kind \in Out!OutKinds, Out!slots_available(q),
         \A r \in Out!ReaderSet(q) : Out!Free(q, r) \in Nat,
         NEW mapping, NEW to \in Out!Destinations(q, mapping), to \subseteq Out!ReaderSet(q),
         NEW r \in to
  PROVE  Out!Free(q, r) > 0
<1> DEFINE R == Out!ReaderSet(q)
<1>1. CASE q.kind \in Out!TurnKinds
  <2>1. Out!Free(q, Out!NextReader(q)) > 0
    BY <1>1 DEF Out!slots_available, Out!TurnKinds
  <2>2. to = {Out!NextReader(q)}
    <3>1. Out!Destinations(q, mapping) = {{Out!NextReader(q)}}
      BY <1>1 DEF Out!Destinations, Out!TurnKinds
    <3> QED
      BY <3>1
  <2> QED
    BY <2>1, <2>2
<1>2. CASE q.kind \notin Out!TurnKinds /\ q.kind # "balanced"
  BY <1>2 DEF Out!slots_available
<1>3. CASE q.kind = "balanced"
  <2> DEFINE Best(x) == \A p \in R : \/ Out!Free(q, x) > Out!Free(q, p)
                                     \/ Out!Free(q, x) = Out!Free(q, p) /\ x >= p
  <2>1. q.kind \notin Out!TurnKinds
    BY <1>3 DEF Out!TurnKinds
  <2>2. to = {CHOOSE x \in R : Best(x)}
    BY <1>3, <2>1 DEF Out!Destinations
  <2>3. PICK y \in R : Out!Free(q, y) > 0
    BY <1>3, <2>1 DEF Out!slots_available
  <2>4. R \in SUBSET Nat /\ IsFiniteSet(R)
    BY DEF HasReaders
  <2> DEFINE F == {Out!Free(q, x) : x \in R}
  <2>5. F \in SUBSET Nat /\ F # {} /\ IsFiniteSet(F)
    <3>1. IsFiniteSet(F)
      <4> DEFINE f == [x \in R |-> Out!Free(q, x)]
      <4>1. F = {f[x] : x \in R} /\ f \in Surjection(R, F)
        BY DEF Surjection
      <4> HIDE DEF f, F, R
      <4> QED
        BY <4>1, <2>4, FS_Surjection
    <3> QED
      BY <2>3, <3>1
  <2>6. PICK m \in F : \A x \in F : x <= m
    BY ONLY <2>5, LeastExists
  <2> DEFINE T == {x \in R : Out!Free(q, x) = m}
  <2>7. T \in SUBSET Nat /\ T # {} /\ IsFiniteSet(T)
    BY <2>4, <2>6, FS_Subset
  <2>8. PICK b \in T : \A x \in T : x <= b
    BY ONLY <2>7, LeastExists
  <2>9. Best(b)
    <3> SUFFICES ASSUME NEW p \in R
                 PROVE  \/ Out!Free(q, b) > Out!Free(q, p)
                        \/ Out!Free(q, b) = Out!Free(q, p) /\ b >= p
      OBVIOUS
    <3>1. Out!Free(q, p) \in Nat /\ m \in Nat /\ Out!Free(q, p) <= m /\ Out!Free(q, b) = m
          /\ b \in Nat /\ p \in Nat
      BY <2>4, <2>5, <2>6, <2>8
    <3>2. CASE Out!Free(q, p) = m
      BY <3>1, <3>2, <2>8
    <3> QED
      BY <3>1, <3>2
  <2>10. b \in R
    BY <2>8
  <2> HIDE DEF Best, R
  <2>11. (CHOOSE x \in R : Best(x)) \in R /\ Best(CHOOSE x \in R : Best(x))
    BY <2>9, <2>10
  <2>12. r \in R /\ Best(r)
    BY <2>2, <2>11
  <2>13. Out!Free(q, r) \in Nat /\ Out!Free(q, y) \in Nat
    BY <2>12, <2>3 DEF R
  <2>14. Out!Free(q, r) > Out!Free(q, y) \/ Out!Free(q, r) = Out!Free(q, y)
    BY <2>12, <2>3 DEF Best
  <2> QED
    BY <2>3, <2>13, <2>14
<1> QED
  BY <1>1, <1>2, <1>3

LEMMA ItemPeeked ==
  ASSUME NEW q, NEW r, NEW D \in Seq(Token), Sends(q, r, D),
         NEW k \in q.reader_offset[r] .. q.write_pos[r] - 1
  PROVE  /\ Out!com_peek(q, r, k) \in Item
         /\ Out!com_peek(q, r, k).seq = k - q.reader_offset[r]
         /\ Out!com_peek(q, r, k).seq \in 0 .. Len(D) - 1
         /\ q.read_pos[r] <= k => Out!com_peek(q, r, k).token = D[k - q.reader_offset[r] + 1]
<1> DEFINE from == q.reader_offset[r]
           pos == q.read_pos[r]
           to == q.write_pos[r]
           item == Out!com_peek(q, r, k)
<1>1. /\ from \in Nat /\ pos \in from .. to /\ to \in Nat /\ to - from = Len(D)
      /\ \A j \in from .. to - 1 : q.fifo[r][j % OutN] \in Token
      /\ \A j \in pos .. to - 1 : q.fifo[r][j % OutN] = D[j - from + 1]
  BY DEF Sends
<1>2. item = [seq |-> k - from, token |-> q.fifo[r][k % OutN]]
  BY DEF Out!com_peek
<1>3. k \in from .. to - 1
  OBVIOUS
<1> HIDE DEF from, pos, to, item
<1>4. k - from \in Nat /\ k - from \in 0 .. Len(D) - 1 /\ (pos <= k => k \in pos .. to - 1)
  BY <1>1, <1>3
<1>5. item \in Item /\ item.seq = k - from /\ item.token = q.fifo[r][k % OutN]
  BY <1>1, <1>2, <1>3, <1>4 DEF Item
<1>6. item.seq \in 0 .. Len(D) - 1
  BY ONLY <1>4, <1>5
<1> QED
  BY <1>1, <1>4, <1>5, <1>6 DEF from, pos, item

LEMMA RemainingRest ==
  ASSUME NEW q, NEW r, NEW D \in Seq(Token), Sends(q, r, D), q.reader_offset[r] = 0
  PROVE  /\ q.read_pos[r] \in 0 .. Len(D)
         /\ Rest(Out!Remaining(q, r), D, q.read_pos[r], Len(D) - q.read_pos[r])
<1> DEFINE pos == q.read_pos[r]
           to == q.write_pos[r]
           items == Out!Remaining(q, r)
           ring == q.fifo[r]
<1>1. /\ pos \in 0 .. to /\ to \in Nat /\ to - 0 = Len(D)
      /\ \A j \in pos .. to - 1 : ring[j % OutN] = D[j - 0 + 1]
  BY DEF Sends
<1>2. items = [k \in 1 .. to - pos |-> [seq |-> pos + k - 1, token |-> ring[(pos + k - 1) % OutN]]]
  BY DEF Out!Remaining
<1> HIDE DEF pos, to, items, ring
<1>3. to = Len(D) /\ pos \in Nat
  BY <1>1
<1>4. ASSUME NEW k \in 1 .. Len(D) - pos
      PROVE  ring[(pos + k - 1) % OutN] = D[pos + k]
  <2>1. pos + k - 1 \in pos .. to - 1 /\ (pos + k - 1) - 0 + 1 = pos + k
    BY <1>1, <1>3
  <2> QED
    BY ONLY <2>1, <1>1
<1>5. items = [k \in 1 .. Len(D) - pos |-> [seq |-> pos + k - 1, token |-> D[pos + k]]]
  BY <1>2, <1>3, <1>4
<1> QED
  BY <1>1, <1>3, <1>5 DEF pos, items, Rest

LEMMA RemovedOut ==
  ASSUME NEW q, OutShape(q), NEW r \in Out!ReaderSet(q), NEW w \in Out!remove_reader(q, r)
  PROVE  /\ OutShape(w) /\ Out!ReaderSet(w) = Out!ReaderSet(q) \ {r} /\ w.kind = q.kind
         /\ \A s : s # r => SameReader(w, q, s)
<1>1. HasReaders(q)
  BY DEF OutShape
<1>2. /\ HasReaders(w) /\ w.kind = q.kind /\ Out!ReaderSet(w) = Out!ReaderSet(q) \ {r}
      /\ w.fifo = Out!Without(q.fifo, {r})
      /\ w.write_pos = Out!Without(q.write_pos, {r})
      /\ w.read_pos = Out!Without(q.read_pos, {r})
      /\ w.tentative_read_pos = Out!Without(q.tentative_read_pos, {r})
      /\ w.reader_offset = Out!Without(q.reader_offset, {r})
  <2>1. /\ HasReaders(w) /\ w.kind = q.kind
        /\ Out!ReaderSet(w) = Out!ReaderSet(q) \ {r}
        /\ Len(w.readers) = Len(q.readers) - 1
        /\ Len(w.readers) \in Nat
        /\ w.fifo = Out!Without(q.fifo, {r})
        /\ w.write_pos = Out!Without(q.write_pos, {r})
        /\ w.read_pos = Out!Without(q.read_pos, {r})
        /\ w.tentative_read_pos = Out!Without(q.tentative_read_pos, {r})
        /\ w.reader_offset = Out!Without(q.reader_offset, {r})
        /\ w.reader_turn \in Out!ResetTurns(q, Len(q.readers) - 1)
        /\ w.turn_pos = IF q.kind \in Out!TurnKinds THEN 0 ELSE q.turn_pos
    BY <1>1, ReaderRemoved, Zenon
  <2> QED
    BY ONLY <2>1
<1>3. OutShape(w)
  BY <1>2 DEF OutShape, Out!Without
<1>4. ASSUME NEW s, s # r PROVE SameReader(w, q, s)
  BY <1>2, <1>4 DEF SameReader, OutShape, Out!Without
<1> QED
  BY <1>2, <1>3, <1>4

LEMMA OldestExists ==
  ASSUME NEW q, OutShape(q), Out!ReaderSet(q) # {},
         \A s \in Out!ReaderSet(q) : \E D \in Seq(Token) : Sends(q, s, D)
  PROVE  (CHOOSE p \in Out!ReaderSet(q) :
            \A s \in Out!ReaderSet(q) : q.read_pos[p] <= q.read_pos[s]) \in Out!ReaderSet(q)
<1> DEFINE R == Out!ReaderSet(q)
           S == {q.read_pos[s] : s \in R}
           Oldest(p) == \A s \in R : q.read_pos[p] <= q.read_pos[s]
<1>1. \A s \in R : q.read_pos[s] \in Nat
  BY DEF Sends
<1>2. IsFiniteSet(R) /\ DOMAIN q.read_pos = R
  BY DEF OutShape, HasReaders
<1>3. S \in SUBSET Nat /\ S # {} /\ IsFiniteSet(S)
  <2>1. IsFiniteSet(S)
    <3> DEFINE f == [x \in R |-> q.read_pos[x]]
    <3>1. S = {f[x] : x \in R} /\ f \in Surjection(R, S)
      BY DEF Surjection
    <3> HIDE DEF f, S, R
    <3> QED
      BY <3>1, <1>2, FS_Surjection
  <2> QED
    BY <1>1, <2>1
<1>4. PICK m \in S : \A x \in S : m <= x
  BY ONLY <1>3, LeastExists
<1>5. \E p \in R : Oldest(p)
  BY <1>4
<1> QED
  BY <1>5

LEMMA AddedOut ==
  ASSUME NEW q, OutShape(q), NEW r \in Nat, r \notin Out!ReaderSet(q),
         Out!ReaderSet(q) # {},
         NEW T \in SUBSET Token,
         \A s \in Out!ReaderSet(q) : \E D \in Seq(T) : Sends(q, s, D),
         NEW w, w = Out!add_reader(q, r)
  PROVE  LET held == Out!Remaining(w, r)
             D == [k \in DOMAIN held |-> held[k].token]
         IN  /\ OutShape(w) /\ Out!ReaderSet(w) = Out!ReaderSet(q) \cup {r} /\ w.kind = q.kind
             /\ \A s : s # r => SameReader(w, q, s)
             /\ D \in Seq(T) /\ D \in Seq(Token) /\ Sends(w, r, D)
             /\ w.read_pos[r] = w.reader_offset[r] /\ w.tentative_read_pos[r] = w.read_pos[r]
             /\ w.kind # "fanout" => w.reader_offset[r] = 0
<1> DEFINE oldest == CHOOSE p \in Out!ReaderSet(q) :
                        \A s \in Out!ReaderSet(q) : q.read_pos[p] <= q.read_pos[s]
           late == q.kind = "fanout"
           from == IF late THEN q.read_pos[oldest] ELSE 0
           to == IF late THEN q.write_pos[oldest] ELSE 0
           ring == IF late THEN q.fifo[oldest] ELSE Out!EmptyRing
           held == Out!Remaining(w, r)
           D == [k \in DOMAIN held |-> held[k].token]
<1>0. \A E \in Seq(T) : E \in Seq(Token)
  BY SeqDef
<1>1. oldest \in Out!ReaderSet(q)
  BY <1>0, OldestExists
<1> HIDE DEF oldest
<1>2. DOMAIN q = OutFields
  BY DEF OutShape, HasReaders
<1>3. /\ w.fifo = Out!With(q.fifo, r, ring) /\ w.write_pos = Out!With(q.write_pos, r, to)
      /\ w.read_pos = Out!With(q.read_pos, r, from)
      /\ w.tentative_read_pos = Out!With(q.tentative_read_pos, r, from)
      /\ w.reader_offset = Out!With(q.reader_offset, r, from)
  BY <1>2, Zenon DEF Out!add_reader, OutFields, oldest
<1>4. /\ from \in Nat /\ to \in Nat /\ from <= to /\ to - from <= OutN - 1
      /\ ring \in [0 .. OutN - 1 -> Token \cup {NoToken}]
      /\ \A k \in from .. to - 1 : ring[k % OutN] \in T
  <2>1. CASE late
    <3>1. PICK E \in Seq(T) : Sends(q, oldest, E)
      BY <1>1
    <3> DEFINE off == q.reader_offset[oldest]
               a == q.read_pos[oldest]
               b == q.write_pos[oldest]
    <3>2. /\ off \in Nat /\ a \in off .. b /\ b \in Nat /\ b - a <= OutN - 1
          /\ q.fifo[oldest] \in [0 .. OutN - 1 -> Token \cup {NoToken}]
          /\ \A k \in a .. b - 1 : q.fifo[oldest][k % OutN] = E[k - off + 1]
          /\ b - off = Len(E)
      BY <3>1 DEF Sends
    <3>3. from = a /\ to = b /\ ring = q.fifo[oldest]
      BY <2>1
    <3> HIDE DEF off, a, b, from, to, ring, late
    <3>4. a \in Nat /\ a <= b
      BY <3>2
    <3>5. ASSUME NEW k \in a .. b - 1 PROVE q.fifo[oldest][k % OutN] \in T
      <4>1. k - off + 1 \in 1 .. Len(E)
        BY <3>2
      <4>2. E[k - off + 1] \in T
        BY ONLY <4>1, E \in Seq(T), ElementOfSeq
      <4> QED
        BY <3>2, <4>2
    <3> QED
      BY <3>2, <3>3, <3>4, <3>5
  <2>2. CASE ~late
    <3>1. from = 0 /\ to = 0 /\ ring = Out!EmptyRing
      BY <2>2
    <3> HIDE DEF from, to, ring, late
    <3> QED
      BY <3>1, LengthAssumption DEF Out!EmptyRing, Out!Slots
  <2> QED
    BY <2>1, <2>2
<1>5. w.kind # "fanout" => from = 0
  <2>1. w.kind = q.kind
    BY ReaderAdded DEF OutShape
  <2> QED
    BY <2>1
<1> HIDE DEF late, from, to, ring
<1>6. /\ w.fifo[r] = ring /\ w.write_pos[r] = to /\ w.read_pos[r] = from
      /\ w.tentative_read_pos[r] = from /\ w.reader_offset[r] = from
  BY <1>3 DEF Out!With
<1>7. HasReaders(w) /\ Out!ReaderSet(w) = Out!ReaderSet(q) \cup {r} /\ w.kind = q.kind
  BY ReaderAdded DEF OutShape
<1>8. OutShape(w)
  BY <1>3, <1>7 DEF OutShape, Out!With
<1>9. ASSUME NEW s, s # r PROVE SameReader(w, q, s)
  BY <1>3, <1>7, <1>9 DEF SameReader, OutShape, Out!With
<1>10. D = [k \in 1 .. to - from |-> ring[(from + k - 1) % OutN]]
  <2>1. held = [k \in 1 .. to - from |->
                  [seq |-> from + k - 1, token |-> ring[(from + k - 1) % OutN]]]
    BY <1>6 DEF Out!Remaining
  <2>2. DOMAIN held = 1 .. to - from
    BY <2>1
  <2>3. \A k \in 1 .. to - from : held[k].token = ring[(from + k - 1) % OutN]
    BY <2>1
  <2> HIDE DEF held
  <2> QED
    BY <2>2, <2>3
<1>11. to - from \in Nat
  BY <1>4
<1>12. ASSUME NEW k \in 1 .. to - from PROVE ring[(from + k - 1) % OutN] \in T
  <2>1. from + k - 1 \in from .. to - 1
    BY <1>4
  <2> QED
    BY ONLY <2>1, <1>4
<1> HIDE DEF D
<1>13. D \in Seq(T) /\ D \in Seq(Token) /\ Len(D) = to - from
  <2>1. D \in [1 .. to - from -> T]
    BY <1>10, <1>12
  <2>2. D \in Seq(T) /\ Len(D) = to - from
    BY ONLY <2>1, <1>11, IsList
  <2> QED
    BY <1>0, <2>2
<1>14. ASSUME NEW k \in from .. to - 1 PROVE ring[k % OutN] = D[k - from + 1]
  <2>1. k - from + 1 \in 1 .. to - from /\ from + (k - from + 1) - 1 = k
    BY <1>4
  <2> QED
    BY ONLY <2>1, <1>10
<1>15. from \in from .. to
  BY <1>4
<1>16. Sends(w, r, D)
  BY ONLY <1>4, <1>6, <1>13, <1>14, <1>15 DEF Sends
<1> QED
  BY <1>5, <1>6, <1>7, <1>8, <1>9, <1>13, <1>16 DEF D

-----------------------------------------------------------------------------
(* Messages of a link, and those that carry what remains of a writer.      *)
LEMMA MessageTaken ==
  ASSUME NEW X, NEW s \in Seq(X), s # <<>>
  PROVE  /\ Tail(s) \in Seq(X) /\ Head(s) \in X /\ Head(s) \in Items(s) /\ Head(s) = s[1]
         /\ Len(s) \in Nat /\ Len(s) >= 1 /\ Len(Tail(s)) = Len(s) - 1
         /\ \A k \in 1 .. Len(s) - 1 : Tail(s)[k] = s[k + 1]
         /\ Items(Tail(s)) \subseteq Items(s)
<1>1. Len(s) \in Nat /\ Len(s) >= 1 /\ DOMAIN s = 1 .. Len(s)
  BY EmptySeq, LenProperties
<1>2. /\ Head(s) = s[1] /\ Head(s) \in X /\ Tail(s) \in Seq(X)
      /\ Len(Tail(s)) = Len(s) - 1 /\ \A k \in 1 .. Len(s) - 1 : Tail(s)[k] = s[k + 1]
  BY HeadTailProperties
<1>3. DOMAIN Tail(s) = 1 .. Len(s) - 1
  BY <1>2, LenProperties
<1>4. \A k \in 1 .. Len(s) - 1 : k + 1 \in 1 .. Len(s)
  BY <1>1
<1>5. Items(Tail(s)) \subseteq Items(s)
  BY <1>1, <1>2, <1>3, <1>4 DEF Items
<1>6. Head(s) \in Items(s)
  BY <1>1, <1>2 DEF Items
<1> QED
  BY <1>1, <1>2, <1>5, <1>6

LEMMA MessagesSent ==
  ASSUME NEW X, NEW s \in Seq(X), NEW t \in Seq(X)
  PROVE  /\ s \o t \in Seq(X) /\ Items(s \o t) = Items(s) \cup Items(t)
         /\ Len(s) \in Nat /\ Len(t) \in Nat /\ Len(s \o t) = Len(s) + Len(t)
         /\ \A k \in 1 .. Len(s) : (s \o t)[k] = s[k]
         /\ \A k \in 1 .. Len(t) : (s \o t)[Len(s) + k] = t[k]
<1>1. /\ s \o t \in Seq(X) /\ Len(s \o t) = Len(s) + Len(t) /\ Len(s) \in Nat /\ Len(t) \in Nat
      /\ \A k \in 1 .. Len(s) + Len(t) :
           (s \o t)[k] = IF k <= Len(s) THEN s[k] ELSE t[k - Len(s)]
  BY ConcatProperties, LenProperties
<1>2. DOMAIN s = 1 .. Len(s) /\ DOMAIN t = 1 .. Len(t) /\ DOMAIN (s \o t) = 1 .. Len(s) + Len(t)
  BY <1>1, LenProperties
<1>3. ASSUME NEW k \in 1 .. Len(s) PROVE k \in 1 .. Len(s) + Len(t) /\ (s \o t)[k] = s[k]
  BY <1>1
<1>4. ASSUME NEW k \in 1 .. Len(t)
      PROVE  Len(s) + k \in 1 .. Len(s) + Len(t) /\ (s \o t)[Len(s) + k] = t[k]
  <2>1. Len(s) + k \in 1 .. Len(s) + Len(t) /\ ~(Len(s) + k <= Len(s)) /\ (Len(s) + k) - Len(s) = k
    BY <1>1
  <2> QED
    BY ONLY <2>1, <1>1
<1>5. ASSUME NEW k \in 1 .. Len(s) + Len(t)
      PROVE  (s \o t)[k] \in Items(s) \cup Items(t)
  <2>1. CASE k <= Len(s)
    BY <1>1, <1>2, <1>3, <2>1 DEF Items
  <2>2. CASE ~(k <= Len(s))
    <3>1. k - Len(s) \in 1 .. Len(t)
      BY <1>1, <2>2
    <3> QED
      BY <1>1, <1>2, <2>2, <3>1 DEF Items
  <2> QED
    BY <2>1, <2>2
<1>6. Items(s \o t) = Items(s) \cup Items(t)
  <2>1. Items(s \o t) \subseteq Items(s) \cup Items(t)
    <3> SUFFICES ASSUME NEW x \in Items(s \o t) PROVE x \in Items(s) \cup Items(t)
      OBVIOUS
    <3>1. PICK k \in 1 .. Len(s) + Len(t) : x = (s \o t)[k]
      BY <1>2 DEF Items
    <3> QED
      BY ONLY <3>1, <1>5
  <2>2. Items(s) \subseteq Items(s \o t)
    <3> SUFFICES ASSUME NEW x \in Items(s) PROVE x \in Items(s \o t)
      OBVIOUS
    <3>1. PICK k \in 1 .. Len(s) : x = s[k]
      BY <1>2 DEF Items
    <3>2. k \in DOMAIN (s \o t) /\ x = (s \o t)[k]
      BY <3>1, <1>2, <1>3
    <3> QED
      BY ONLY <3>2 DEF Items
  <2>3. Items(t) \subseteq Items(s \o t)
    <3> SUFFICES ASSUME NEW x \in Items(t) PROVE x \in Items(s \o t)
      OBVIOUS
    <3>1. PICK k \in 1 .. Len(t) : x = t[k]
      BY <1>2 DEF Items
    <3>2. Len(s) + k \in DOMAIN (s \o t) /\ x = (s \o t)[Len(s) + k]
      BY <3>1, <1>2, <1>4
    <3> QED
      BY ONLY <3>2 DEF Items
  <2> QED
    BY <2>1, <2>2, <2>3
<1> QED
  BY <1>1, <1>3, <1>4, <1>6

Bears(m, o) == m.kind # "TOKEN" /\ o \in DOMAIN m.remaining

NoBearer(s, o) == \A m \in Items(s) : ~Bears(m, o)

OneBearer(s, o, D, pos) ==
  \E k \in 1 .. Len(s) :
    /\ Bears(s[k], o) /\ Rests(s[k].remaining[o], D, pos)
    /\ \A j \in 1 .. Len(s) : j # k => ~Bears(s[j], o)

LEMMA BearerTaken ==
  ASSUME NEW X, NEW s \in Seq(X), s # <<>>, NEW o, NEW D, NEW pos, OneBearer(s, o, D, pos)
  PROVE  /\ Bears(Head(s), o) => Rests(Head(s).remaining[o], D, pos) /\ NoBearer(Tail(s), o)
         /\ ~Bears(Head(s), o) => OneBearer(Tail(s), o, D, pos)
<1>1. /\ Head(s) = s[1] /\ Len(s) \in Nat /\ Len(s) >= 1 /\ Len(Tail(s)) = Len(s) - 1
      /\ \A k \in 1 .. Len(s) - 1 : Tail(s)[k] = s[k + 1]
      /\ Tail(s) \in Seq(X)
  BY MessageTaken
<1>2. DOMAIN Tail(s) = 1 .. Len(s) - 1
  BY <1>1, LenProperties
<1>3. PICK k \in 1 .. Len(s) : /\ Bears(s[k], o) /\ Rests(s[k].remaining[o], D, pos)
                               /\ \A j \in 1 .. Len(s) : j # k => ~Bears(s[j], o)
  BY DEF OneBearer
<1>4. CASE Bears(Head(s), o)
  <2>1. k = 1
    BY <1>1, <1>3, <1>4
  <2>2. \A j \in 1 .. Len(s) - 1 : j + 1 \in 1 .. Len(s) /\ j + 1 # k
    BY <1>1, <2>1
  <2>3. NoBearer(Tail(s), o)
    BY <1>1, <1>2, <1>3, <2>2 DEF NoBearer, Items
  <2> QED
    BY <1>1, <1>3, <1>4, <2>1, <2>3
<1>5. CASE ~Bears(Head(s), o)
  <2> DEFINE n == k - 1
  <2>1. k # 1
    BY <1>1, <1>3, <1>5
  <2>2. n \in 1 .. Len(Tail(s)) /\ n + 1 = k
    BY <1>1, <2>1
  <2>3. Tail(s)[n] = s[k]
    BY <1>1, <2>2
  <2>4. ASSUME NEW j \in 1 .. Len(Tail(s)), j # n PROVE ~Bears(Tail(s)[j], o)
    <3>1. j + 1 \in 1 .. Len(s) /\ j + 1 # k /\ Tail(s)[j] = s[j + 1]
      BY <1>1, <2>2, <2>4
    <3> QED
      BY <3>1, <1>3
  <2> HIDE DEF n
  <2>5. OneBearer(Tail(s), o, D, pos)
    BY <1>3, <2>2, <2>3, <2>4 DEF OneBearer
  <2> QED
    BY <2>5, <1>5
<1> QED
  BY <1>4, <1>5

LEMMA BearerKept ==
  ASSUME NEW X, NEW s \in Seq(X), NEW t \in Seq(X), NEW o, NEW D, NEW pos,
         OneBearer(s, o, D, pos), NoBearer(t, o)
  PROVE  OneBearer(s \o t, o, D, pos)
<1>1. /\ Len(s) \in Nat /\ Len(t) \in Nat /\ Len(s \o t) = Len(s) + Len(t)
      /\ \A k \in 1 .. Len(s) : (s \o t)[k] = s[k]
      /\ \A k \in 1 .. Len(t) : (s \o t)[Len(s) + k] = t[k]
  BY MessagesSent
<1>2. PICK k \in 1 .. Len(s) : /\ Bears(s[k], o) /\ Rests(s[k].remaining[o], D, pos)
                               /\ \A j \in 1 .. Len(s) : j # k => ~Bears(s[j], o)
  BY DEF OneBearer
<1>3. k \in 1 .. Len(s \o t) /\ (s \o t)[k] = s[k]
  BY <1>1
<1>4. ASSUME NEW j \in 1 .. Len(s \o t), j # k PROVE ~Bears((s \o t)[j], o)
  <2>1. CASE j <= Len(s)
    <3>1. j \in 1 .. Len(s)
      BY <1>1, <2>1
    <3> QED
      BY <3>1, <1>1, <1>2, <1>4
  <2>2. CASE ~(j <= Len(s))
    <3> DEFINE n == j - Len(s)
    <3>1. n \in 1 .. Len(t) /\ Len(s) + n = j
      BY <1>1, <2>2
    <3>2. (s \o t)[j] = t[n]
      BY <3>1, <1>1
    <3>3. DOMAIN t = 1 .. Len(t)
      BY LenProperties
    <3> HIDE DEF n
    <3>4. t[n] \in Items(t)
      BY <3>1, <3>3 DEF Items
    <3> QED
      BY <3>2, <3>4 DEF NoBearer
  <2> QED
    BY <2>1, <2>2
<1> QED
  BY <1>2, <1>3, <1>4 DEF OneBearer

LEMMA BearerSent ==
  ASSUME NEW X, NEW s \in Seq(X), NEW m \in X, NEW o, NEW D, NEW pos,
         NoBearer(s, o), Bears(m, o), Rests(m.remaining[o], D, pos)
  PROVE  OneBearer(s \o <<m>>, o, D, pos)
<1>0. <<m>> \in Seq(X) /\ Len(<<m>>) = 1 /\ <<m>>[1] = m
  OBVIOUS
<1>1. /\ Len(s) \in Nat /\ Len(s \o <<m>>) = Len(s) + 1
      /\ \A k \in 1 .. Len(s) : (s \o <<m>>)[k] = s[k]
      /\ (s \o <<m>>)[Len(s) + 1] = m
  BY <1>0, MessagesSent
<1> DEFINE k == Len(s) + 1
<1>2. k \in 1 .. Len(s \o <<m>>)
  BY <1>1
<1>3. ASSUME NEW j \in 1 .. Len(s \o <<m>>), j # k PROVE ~Bears((s \o <<m>>)[j], o)
  <2>1. j \in 1 .. Len(s)
    BY <1>1, <1>3
  <2>2. s[j] \in Items(s)
    BY <2>1, LenProperties DEF Items
  <2> QED
    BY <2>1, <2>2, <1>1 DEF NoBearer
<1> QED
  BY <1>1, <1>2, <1>3 DEF OneBearer

LEMMA RestsLater ==
  ASSUME NEW items, NEW D, NEW pos \in Nat, Rests(items, D, pos), NEW to \in Nat, pos <= to
  PROVE  Rests(items, D, to)
<1>1. 0 .. pos \subseteq 0 .. to
  OBVIOUS
<1> QED
  BY <1>1 DEF Rests

LEMMA BearerLater ==
  ASSUME NEW s, NEW o, NEW D, NEW pos \in Nat, OneBearer(s, o, D, pos), NEW to \in Nat, pos <= to
  PROVE  OneBearer(s, o, D, to)
BY RestsLater DEF OneBearer

-----------------------------------------------------------------------------
(* The invariant of a link.  The inport's queue is open for it.            *)
Opened(l) == IsOpen(inq[l[2]], l[1], dispatched[l], delivered[l])

(* The outport's queue still sends to it.                                  *)
Attached(l) ==
  LET q == outq[l[1]]
      r == l[2]
      acked == q.read_pos[r] - q.reader_offset[r]
      stored == inq[r].write_pos[l[1]]
  IN  /\ l \in out_endpoint /\ HasReader(l)
      /\ Opened(l)
      /\ NoBearer(to_in[l], l[1])
      /\ Sends(q, r, dispatched[l])
      /\ acked <= stored
      /\ ~IsTunnel(l) => acked = stored /\ q.tentative_read_pos[r] = q.read_pos[r]
      /\ q.reader_offset[r] # 0 => l \in conf.late /\ conf.out = "fanout"

(* What remains is on its way to the inport.                               *)
HandedOver(l) ==
  /\ l \notin out_endpoint /\ ~HasReader(l)
  /\ Opened(l)
  /\ OneBearer(to_in[l], l[1], dispatched[l], inq[l[2]].write_pos[l[1]])

(* It is all there, or read.                                               *)
Settled(l) ==
  /\ l \notin out_endpoint /\ ~HasReader(l)
  /\ IsSettled(inq[l[2]], l[1], dispatched[l], delivered[l])
  /\ NoBearer(to_in[l], l[1])

Fresh(l) ==
  /\ l \in conf.late /\ l \notin out_endpoint /\ l \notin in_endpoint
  /\ dispatched[l] = <<>> /\ delivered[l] = <<>>
  /\ to_in[l] = <<>> /\ to_out[l] = <<>>
  /\ ~HasReader(l)
  /\ IsGone(inq[l[2]], l[1], <<>>, <<>>)

InMessage(l) ==
  [kind : {"TOKEN"}, item : Item] \cup
  [kind : {"DISCONNECT", "DISCONNECTED"},
   remaining : [{l[1]} -> Seq(Item)] \cup [{} -> Seq(Item)]]

OutMessage == [kind : {"ACK", "NACK"}, seq : Nat] \cup [kind : {"DISCONNECT", "DISCONNECTED"}]

(* A token that the inport will take is the one with its number.           *)
TokenIs(item, D, pos, open) ==
  item.seq < Len(D) /\ (open /\ pos <= item.seq => item.token = D[item.seq + 1])

ToInFits(l, m) ==
  /\ m.kind = "TOKEN" =>
       TokenIs(m.item, dispatched[l], inq[l[2]].write_pos[l[1]], l \in in_endpoint)
  /\ m.kind = "DISCONNECT" => DOMAIN m.remaining = {l[1]}
  /\ m.kind = "DISCONNECTED" /\ l[1] \in DOMAIN m.remaining => l \notin in_endpoint

ToOutFits(l, m) ==
  /\ m.kind = "ACK" /\ l \in out_endpoint => m.seq < inq[l[2]].write_pos[l[1]]
  /\ m.kind = "DISCONNECT" => l \notin in_endpoint /\ l \in conf.exhausted

ToInRight(l) ==
  to_in[l] \in Seq(InMessage(l)) /\ \A m \in Items(to_in[l]) : ToInFits(l, m)

ToOutRight(l) ==
  to_out[l] \in Seq(OutMessage) /\ \A m \in Items(to_out[l]) : ToOutFits(l, m)

Plain(D) == \A k \in 1 .. Len(D) : D[k] > 0

LinkInv(l) ==
  /\ Attached(l) \/ HandedOver(l) \/ Settled(l)
  /\ l \in unjoined => Fresh(l)
  /\ l \in in_endpoint => Opened(l)
  /\ Opened(l) /\ l \notin in_endpoint => l[1] \in DOMAIN inq[l[2]].termination
  /\ ~IsTunnel(l) => to_in[l] = <<>> /\ to_out[l] = <<>>
  /\ ToInRight(l)
  /\ ToOutRight(l)
  /\ ~conf.exceptions => Plain(dispatched[l])

(* Nothing but what Keeps allows happens to a link.                        *)
Aside(l) ==
  /\ conf' = conf
  /\ dispatched'[l] = dispatched[l] /\ delivered'[l] = delivered[l]
  /\ to_in'[l] = to_in[l] /\ to_out'[l] = to_out[l]
  /\ l \in out_endpoint' <=> l \in out_endpoint
  /\ l \in in_endpoint' <=> l \in in_endpoint
  /\ l \in unjoined' => l \in unjoined
  /\ SameReader(outq'[l[1]], outq[l[1]], l[2])
  /\ Keeps(inq'[l[2]], inq[l[2]], l[1])
  /\ l[1] \in In!WriterSet(inq'[l[2]]) => l[1] \in In!WriterSet(inq[l[2]])

LEMMA KeepsOpen ==
  ASSUME NEW p, NEW q, NEW w, Keeps(p, q, w), NEW D \in Seq(Token), NEW V \in Seq(Token),
         IsOpen(q, w, D, V)
  PROVE  /\ IsOpen(p, w, D, V) /\ p.write_pos[w] = q.write_pos[w]
         /\ w \in DOMAIN p.termination <=> w \in DOMAIN q.termination
BY DEF Keeps

LEMMA KeepsSettled ==
  ASSUME NEW p, NEW q, NEW w, Keeps(p, q, w), NEW D \in Seq(Token), NEW V \in Seq(Token),
         IsSettled(q, w, D, V)
  PROVE  IsSettled(p, w, D, V)
BY DEF Keeps

LEMMA OpenOrSettled ==
  ASSUME NEW q, NEW w, NEW D, NEW V, IsSettled(q, w, D, V)
  PROVE  ~IsOpen(q, w, D, V)
BY DEF IsSettled, IsClosing, IsGone, IsOpen

LEMMA AsideAttached ==
  ASSUME NEW l \in Links, dispatched[l] \in Seq(Token), delivered[l] \in Seq(Token),
         Aside(l), Attached(l)
  PROVE  Attached(l)'
<1> DEFINE p == inq[l[2]]
           o == l[1]
<1>1. IsOpen(inq'[l[2]], o, dispatched'[l], delivered'[l])
      /\ inq'[l[2]].write_pos[o] = p.write_pos[o]
  <2>1. Keeps(inq'[l[2]], p, o) /\ IsOpen(p, o, dispatched[l], delivered[l])
    BY DEF Aside, Attached, Opened
  <2>2. IsOpen(inq'[l[2]], o, dispatched[l], delivered[l])
        /\ inq'[l[2]].write_pos[o] = p.write_pos[o]
    BY <2>1, KeepsOpen
  <2> QED
    BY <2>2 DEF Aside
<1>2. Sends(outq'[o], l[2], dispatched[l])
  BY SameReaderSends DEF Aside, Attached, HasReader
<1> QED
  BY <1>1, <1>2 DEF Aside, Attached, SameReader, HasReader, Opened, IsTunnel

LEMMA AsideHandedOver ==
  ASSUME NEW l \in Links, dispatched[l] \in Seq(Token), delivered[l] \in Seq(Token),
         Aside(l), HandedOver(l)
  PROVE  HandedOver(l)'
<1> DEFINE p == inq[l[2]]
           o == l[1]
<1>1. IsOpen(inq'[l[2]], o, dispatched[l], delivered[l])
      /\ inq'[l[2]].write_pos[o] = p.write_pos[o]
  <2>1. Keeps(inq'[l[2]], p, o) /\ IsOpen(p, o, dispatched[l], delivered[l])
    BY DEF Aside, HandedOver, Opened
  <2> QED
    BY <2>1, KeepsOpen
<1> QED
  BY <1>1 DEF Aside, HandedOver, SameReader, HasReader, Opened

LEMMA AsideSettled ==
  ASSUME NEW l \in Links, dispatched[l] \in Seq(Token), delivered[l] \in Seq(Token),
         Aside(l), Settled(l)
  PROVE  Settled(l)'
<1>1. IsSettled(inq'[l[2]], l[1], dispatched[l], delivered[l])
  BY KeepsSettled DEF Aside, Settled
<1> QED
  BY <1>1 DEF Aside, Settled, SameReader, HasReader

LEMMA LinkKept ==
  ASSUME NEW l \in Links, dispatched[l] \in Seq(Token), delivered[l] \in Seq(Token),
         Aside(l), LinkInv(l)
  PROVE  LinkInv(l)'
<1> DEFINE q == inq[l[2]]
           p == inq'[l[2]]
           o == l[1]
<1>1. (Attached(l) \/ HandedOver(l) \/ Settled(l))'
  BY AsideAttached, AsideHandedOver, AsideSettled DEF LinkInv
<1>2. Opened(l) => Opened(l)' /\ p.write_pos[o] = q.write_pos[o]
                   /\ (o \in DOMAIN p.termination <=> o \in DOMAIN q.termination)
  <2> SUFFICES ASSUME Opened(l)
               PROVE  Opened(l)' /\ p.write_pos[o] = q.write_pos[o]
                      /\ (o \in DOMAIN p.termination <=> o \in DOMAIN q.termination)
    OBVIOUS
  <2>1. IsOpen(q, o, dispatched[l], delivered[l]) /\ Keeps(p, q, o)
    BY DEF Opened, Aside
  <2>2. /\ IsOpen(p, o, dispatched[l], delivered[l]) /\ p.write_pos[o] = q.write_pos[o]
        /\ (o \in DOMAIN p.termination <=> o \in DOMAIN q.termination)
    BY <2>1, KeepsOpen
  <2> QED
    BY <2>2 DEF Opened, Aside
<1>3. Opened(l)' => Opened(l)
  <2>1. CASE Opened(l)
    BY <2>1
  <2>2. CASE ~Opened(l)
    <3>1. Settled(l)
      BY <2>2 DEF LinkInv, Attached, HandedOver
    <3>2. IsSettled(p, o, dispatched'[l], delivered'[l])
      BY <3>1, AsideSettled DEF Settled
    <3> QED
      BY <3>2, OpenOrSettled DEF Opened
  <2> QED
    BY <2>1, <2>2
<1>4. (l \in unjoined => Fresh(l))'
  <2> SUFFICES ASSUME l \in unjoined' PROVE Fresh(l)'
    OBVIOUS
  <2>1. Fresh(l) /\ IsGone(q, o, <<>>, <<>>)
    BY DEF LinkInv, Aside, Fresh
  <2>2. dispatched[l] = <<>> /\ delivered[l] = <<>> /\ o \notin In!WriterSet(q)
    BY <2>1 DEF Fresh, IsGone
  <2>3. IsSettled(q, o, <<>>, <<>>) /\ <<>> \in Seq(Token)
    BY <2>1, EmptySeq DEF IsSettled
  <2>4. IsSettled(p, o, <<>>, <<>>)
    BY <2>3, KeepsSettled DEF Aside
  <2>5. IsGone(p, o, <<>>, <<>>)
    BY <2>2, <2>4 DEF IsSettled, IsClosing, Aside
  <2> QED
    BY <2>1, <2>2, <2>5 DEF Fresh, Aside, SameReader, HasReader
<1>5. (l \in in_endpoint => Opened(l))'
  BY <1>2 DEF LinkInv, Aside
<1>6. (Opened(l) /\ l \notin in_endpoint => l[1] \in DOMAIN inq[l[2]].termination)'
  BY <1>2, <1>3 DEF LinkInv, Aside
<1>7. (~IsTunnel(l) => to_in[l] = <<>> /\ to_out[l] = <<>>)'
  BY DEF LinkInv, Aside, IsTunnel
<1>8. l \in in_endpoint => p.write_pos[o] = q.write_pos[o]
  BY <1>2 DEF LinkInv
<1>9. ToInRight(l)'
  BY <1>8 DEF LinkInv, ToInRight, ToInFits, Aside, InMessage, TokenIs
<1>10. l \in out_endpoint => p.write_pos[o] = q.write_pos[o]
  BY <1>2 DEF LinkInv, Attached, HandedOver, Settled
<1>11. ToOutRight(l)'
  BY <1>10 DEF LinkInv, ToOutRight, ToOutFits, Aside
<1>12. (~conf.exceptions => Plain(dispatched[l]))'
  BY DEF LinkInv, Aside, Plain
<1> QED
  BY <1>1, <1>4, <1>5, <1>6, <1>7, <1>9, <1>11, <1>12 DEF LinkInv

(* The operations on an inport's queue leave its kind.                     *)
LEMMA KindKept ==
  ASSUME NEW q, DOMAIN q = InFields, NEW w
  PROVE  /\ \A item : In!com_write(q, w, item).kind = q.kind
         /\ \A items : In!com_write_all(q, w, items).kind = q.kind
         /\ In!add_writer(q, w).kind = q.kind
         /\ In!exhaust(q, w).kind = q.kind /\ DOMAIN In!exhaust(q, w) = InFields
         /\ In!commit(q).kind = q.kind
         /\ \A tokens : In!set_exhausted_tokens(q, tokens).kind = q.kind
<1>1. \A item : In!com_write(q, w, item).kind = q.kind
  BY DEF In!com_write, InFields
<1>2. \A items : In!com_write_all(q, w, items).kind = q.kind
  BY DEF In!com_write_all, InFields
<1>3. In!add_writer(q, w).kind = q.kind
  BY DEF In!add_writer, InFields
<1>4. In!exhaust(q, w).kind = q.kind /\ DOMAIN In!exhaust(q, w) = InFields
  BY DEF In!exhaust, InFields
<1>5. ASSUME NEW p, DOMAIN p = InFields
      PROVE  In!TransferAll(p).kind = p.kind /\ DOMAIN In!TransferAll(p) = InFields
  BY <1>5 DEF In!TransferAll, InFields
<1>6. ASSUME NEW p, DOMAIN p = InFields, NEW S PROVE In!Removed(p, S).kind = p.kind
  BY <1>6 DEF In!Removed, InFields
<1>7. In!commit(q).kind = q.kind
  BY <1>5, <1>6 DEF In!commit
<1>8. ASSUME NEW tokens PROVE In!set_exhausted_tokens(q, tokens).kind = q.kind
  <2> DEFINE got == DOMAIN tokens
             Old(v) == IF v \in DOMAIN q.exhausted_tokens THEN q.exhausted_tokens[v] ELSE <<>>
             filed == [q EXCEPT
                     !.exhausted_tokens =
                        [v \in DOMAIN @ \cup got |->
                           IF v \in got THEN Old(v) \o tokens[v] ELSE @[v]],
                     !.termination =
                        [v \in DOMAIN @ |-> IF v \in got THEN TRUE ELSE @[v]]]
             moved == In!TransferAll(filed)
  <2>1. In!set_exhausted_tokens(q, tokens) = In!Removed(moved, In!Finished(moved, got))
    BY DEF In!set_exhausted_tokens
  <2>2. DOMAIN filed = InFields /\ filed.kind = q.kind
    BY DEF InFields
  <2> HIDE DEF filed
  <2>3. moved.kind = q.kind /\ DOMAIN moved = InFields
    BY <2>2, <1>5
  <2> HIDE DEF moved
  <2> QED
    BY <2>1, <2>3, <1>6
<1> QED
  BY <1>1, <1>2, <1>3, <1>4, <1>7, <1>8

-----------------------------------------------------------------------------
Shared ==
  /\ conf \in Scenarios
  /\ DOMAIN outq = Outs /\ DOMAIN inq = Ins
  /\ DOMAIN to_in = Links /\ DOMAIN to_out = Links
  /\ dispatched \in [Links -> Seq(Token)] /\ delivered \in [Links -> Seq(Token)]
  /\ out_endpoint \subseteq Links /\ in_endpoint \subseteq Links /\ unjoined \subseteq Links
  /\ serial \in 0 .. MaxTokens

OutRight(o) ==
  /\ OutShape(outq[o]) /\ outq[o].kind = conf.out
  /\ \A r \in Out!ReaderSet(outq[o]) : <<o, r>> \in Links

InRight(i) ==
  /\ InShape(inq[i]) /\ inq[i].kind = conf.in
  /\ \A w \in In!WriterSet(inq[i]) : <<w, i>> \in Links

ChannelInv ==
  /\ Shared
  /\ \A o \in Outs : OutRight(o)
  /\ \A i \in Ins : InRight(i)
  /\ \A l \in Links : LinkInv(l)

(* The scenarios but those in which the code loses a token or reads it     *)
(* again: a replica's link to a "fanout" queue that is exhausted           *)
(* (FanoutBase.exhaust, reader_offset), and exceptions that an "any" queue *)
(* takes (CollectAny.peek).  TLC refutes the theorems in either.           *)
Faultless ==
  /\ conf.out = "fanout" => conf.late \cap conf.exhausted = {}
  /\ conf.exceptions => conf.in # "any"

(* Steps that concern one link.                                            *)
OnlyOut(l) ==
  /\ DOMAIN outq' = Outs
  /\ \A o \in Outs : o # l[1] => outq'[o] = outq[o]
  /\ OutShape(outq'[l[1]]) /\ outq'[l[1]].kind = outq[l[1]].kind
  /\ \A r : r # l[2] => SameReader(outq'[l[1]], outq[l[1]], r)

OnlyIn(l) ==
  /\ DOMAIN inq' = Ins
  /\ \A i \in Ins : i # l[2] => inq'[i] = inq[i]
  /\ InShape(inq'[l[2]]) /\ inq'[l[2]].kind = inq[l[2]].kind
  /\ \A w : w # l[1] => /\ Keeps(inq'[l[2]], inq[l[2]], w)
                        /\ w \in In!WriterSet(inq'[l[2]]) => w \in In!WriterSet(inq[l[2]])

OnlyEnds(l) ==
  /\ UNCHANGED <<conf, serial>>
  /\ DOMAIN to_in' = Links /\ DOMAIN to_out' = Links
  /\ dispatched' \in [Links -> Seq(Token)] /\ delivered' = delivered
  /\ \A m \in Links : m # l =>
       /\ dispatched'[m] = dispatched[m]
       /\ to_in'[m] = to_in[m] /\ to_out'[m] = to_out[m]
  /\ out_endpoint' \in {out_endpoint, out_endpoint \cup {l}, out_endpoint \ {l}}
  /\ in_endpoint' \in {in_endpoint, in_endpoint \cup {l}, in_endpoint \ {l}}
  /\ unjoined' \subseteq unjoined

LEMMA SameKeeps ==
  ASSUME NEW q, NEW w
  PROVE  Keeps(q, q, w)
BY DEF Keeps

LEMMA LinksApart ==
  ASSUME conf \in Scenarios, NEW l \in Links, NEW m \in Links, m # l
  PROVE  /\ m[1] = l[1] => m[2] # l[2]
         /\ m[2] = l[2] => m[1] # l[1]
<1>1. l = <<l[1], l[2]>> /\ m = <<m[1], m[2]>>
  BY LinkEnds
<1> QED
  BY <1>1

LEMMA LinkStep ==
  ASSUME ChannelInv, NEW l \in Links, OnlyOut(l), OnlyIn(l), OnlyEnds(l), LinkInv(l)'
  PROVE  ChannelInv'
<1>1. Links' = Links /\ Outs' = Outs /\ Ins' = Ins /\ conf' = conf
  BY DEF OnlyEnds, Links, Outs, Ins
<1>2. l[1] \in Outs /\ l[2] \in Ins /\ l = <<l[1], l[2]>>
  BY LinkEnds DEF ChannelInv, Shared
<1>3. Shared'
  BY <1>1 DEF Shared, ChannelInv, OnlyEnds, OnlyOut, OnlyIn
<1>4. ASSUME NEW o \in Outs PROVE OutRight(o)'
  <2>1. OutRight(o)
    BY DEF ChannelInv
  <2>2. CASE o # l[1]
    BY <1>1, <2>1, <2>2 DEF OnlyOut, OutRight
  <2>3. CASE o = l[1]
    <3>1. \A r \in Out!ReaderSet(outq'[o]) : <<o, r>> \in Links
      <4> SUFFICES ASSUME NEW r \in Out!ReaderSet(outq'[o]), r # l[2] PROVE <<o, r>> \in Links
        BY <1>2, <2>3
      <4>1. r \in Out!ReaderSet(outq[o])
        BY <2>3 DEF OnlyOut, SameReader
      <4> QED
        BY <2>1, <4>1 DEF OutRight
    <3> QED
      BY <1>1, <2>1, <2>3, <3>1 DEF OnlyOut, OutRight
  <2> QED
    BY <2>2, <2>3
<1>5. ASSUME NEW i \in Ins PROVE InRight(i)'
  <2>1. InRight(i)
    BY DEF ChannelInv
  <2>2. CASE i # l[2]
    BY <1>1, <2>1, <2>2 DEF OnlyIn, InRight
  <2>3. CASE i = l[2]
    <3>1. \A w \in In!WriterSet(inq'[i]) : <<w, i>> \in Links
      <4> SUFFICES ASSUME NEW w \in In!WriterSet(inq'[i]), w # l[1] PROVE <<w, i>> \in Links
        BY <1>2, <2>3
      <4>1. w \in In!WriterSet(inq[i])
        BY <2>3 DEF OnlyIn
      <4> QED
        BY <2>1, <4>1 DEF InRight
    <3> QED
      BY <1>1, <2>1, <2>3, <3>1 DEF OnlyIn, InRight
  <2> QED
    BY <2>2, <2>3
<1>6. ASSUME NEW m \in Links, m # l PROVE LinkInv(m)'
  <2>1. m[1] \in Outs /\ m[2] \in Ins
    BY LinkEnds DEF ChannelInv, Shared
  <2>2. SameReader(outq'[m[1]], outq[m[1]], m[2])
    <3>1. CASE m[1] # l[1]
      BY <2>1, <3>1 DEF OnlyOut, SameReader
    <3>2. CASE m[1] = l[1]
      <4>1. m[2] # l[2]
        BY <1>6, <3>2, LinksApart DEF ChannelInv, Shared
      <4> QED
        BY <3>2, <4>1 DEF OnlyOut
    <3> QED
      BY <3>1, <3>2
  <2>3. /\ Keeps(inq'[m[2]], inq[m[2]], m[1])
        /\ m[1] \in In!WriterSet(inq'[m[2]]) => m[1] \in In!WriterSet(inq[m[2]])
    <3>1. CASE m[2] # l[2]
      BY <2>1, <3>1, SameKeeps DEF OnlyIn
    <3>2. CASE m[2] = l[2]
      <4>1. m[1] # l[1]
        BY <1>6, <3>2, LinksApart DEF ChannelInv, Shared
      <4> QED
        BY <3>2, <4>1 DEF OnlyIn
    <3> QED
      BY <3>1, <3>2
  <2>4. Aside(m)
    BY <1>6, <2>2, <2>3 DEF Aside, OnlyEnds
  <2>5. dispatched[m] \in Seq(Token) /\ delivered[m] \in Seq(Token) /\ LinkInv(m)
    BY DEF ChannelInv, Shared
  <2> QED
    BY <2>4, <2>5, LinkKept
<1> QED
  BY <1>1, <1>3, <1>4, <1>5, <1>6 DEF ChannelInv

LEMMA OutUnchanged ==
  ASSUME ChannelInv, NEW l \in Links, UNCHANGED outq
  PROVE  OnlyOut(l)
BY LinkEnds DEF ChannelInv, Shared, OutRight, OnlyOut, SameReader

LEMMA InUnchanged ==
  ASSUME ChannelInv, NEW l \in Links, UNCHANGED inq
  PROVE  OnlyIn(l)
BY LinkEnds, SameKeeps DEF ChannelInv, Shared, InRight, OnlyIn

LEMMA OutChanged ==
  ASSUME ChannelInv, NEW l \in Links, NEW w, outq' = [outq EXCEPT ![l[1]] = w],
         OutShape(w), w.kind = outq[l[1]].kind,
         \A r : r # l[2] => SameReader(w, outq[l[1]], r)
  PROVE  OnlyOut(l) /\ outq'[l[1]] = w
<1>1. l[1] \in Outs /\ DOMAIN outq = Outs
  BY LinkEnds DEF ChannelInv, Shared
<1> QED
  BY <1>1 DEF OnlyOut

LEMMA InChanged ==
  ASSUME ChannelInv, NEW l \in Links, NEW p, inq' = [inq EXCEPT ![l[2]] = p],
         InShape(p), p.kind = inq[l[2]].kind,
         \A w : w # l[1] => /\ Keeps(p, inq[l[2]], w)
                            /\ w \in In!WriterSet(p) => w \in In!WriterSet(inq[l[2]])
  PROVE  OnlyIn(l) /\ inq'[l[2]] = p
<1>1. l[2] \in Ins /\ DOMAIN inq = Ins
  BY LinkEnds DEF ChannelInv, Shared
<1> QED
  BY <1>1 DEF OnlyIn

(* Steps of a link after which nothing new is dispatched to it.            *)
GoesOn(l) ==
  /\ conf' = conf /\ l \notin unjoined'
  /\ dispatched'[l] = dispatched[l]
  /\ l \in in_endpoint' => l \in in_endpoint /\ Opened(l)'
  /\ l \in out_endpoint' => l \in out_endpoint
  /\ Opened(l)' /\ l \notin in_endpoint' => l[1] \in DOMAIN inq'[l[2]].termination
  /\ l \in in_endpoint' \cup out_endpoint' =>
       /\ inq[l[2]].write_pos[l[1]] \in Nat /\ inq'[l[2]].write_pos[l[1]] \in Nat
       /\ inq[l[2]].write_pos[l[1]] <= inq'[l[2]].write_pos[l[1]]
  /\ ~IsTunnel(l) => to_in'[l] = <<>> /\ to_out'[l] = <<>>
  /\ to_in'[l] \in Seq(InMessage(l))
  /\ \A m \in Items(to_in'[l]) : m \in Items(to_in[l]) \/ ToInFits(l, m)'
  /\ to_out'[l] \in Seq(OutMessage)
  /\ \A m \in Items(to_out'[l]) : m \in Items(to_out[l]) \/ ToOutFits(l, m)'

LEMMA MessageKinds ==
  ASSUME NEW l
  PROVE  /\ \A m \in InMessage(l) :
              /\ m.kind \in {"TOKEN", "DISCONNECT", "DISCONNECTED"}
              /\ m.kind = "TOKEN" => m.item \in Item /\ m.item.seq \in Nat /\ m.item.token \in Token
              /\ m.kind # "TOKEN" =>
                   /\ DOMAIN m.remaining = {} \/ DOMAIN m.remaining = {l[1]}
                   /\ l[1] \in DOMAIN m.remaining => m.remaining[l[1]] \in Seq(Item)
         /\ \A m \in OutMessage :
              /\ m.kind \in {"ACK", "NACK", "DISCONNECT", "DISCONNECTED"}
              /\ m.kind \in {"ACK", "NACK"} => m.seq \in Nat
<1>1. ASSUME NEW m \in InMessage(l)
      PROVE  /\ m.kind \in {"TOKEN", "DISCONNECT", "DISCONNECTED"}
             /\ m.kind = "TOKEN" => m.item \in Item /\ m.item.seq \in Nat /\ m.item.token \in Token
             /\ m.kind # "TOKEN" =>
                  /\ DOMAIN m.remaining = {} \/ DOMAIN m.remaining = {l[1]}
                  /\ l[1] \in DOMAIN m.remaining => m.remaining[l[1]] \in Seq(Item)
  <2>1. CASE m \in [kind : {"TOKEN"}, item : Item]
    BY <2>1 DEF Item
  <2>2. CASE m \in [kind : {"DISCONNECT", "DISCONNECTED"},
                    remaining : [{l[1]} -> Seq(Item)] \cup [{} -> Seq(Item)]]
    <3>1. /\ m.kind \in {"DISCONNECT", "DISCONNECTED"}
          /\ m.remaining \in [{l[1]} -> Seq(Item)] \/ m.remaining \in [{} -> Seq(Item)]
      BY <2>2
    <3> QED
      BY <3>1
  <2> QED
    BY <2>1, <2>2 DEF InMessage
<1>2. ASSUME NEW m \in OutMessage
      PROVE  /\ m.kind \in {"ACK", "NACK", "DISCONNECT", "DISCONNECTED"}
             /\ m.kind \in {"ACK", "NACK"} => m.seq \in Nat
  BY DEF OutMessage
<1> QED
  BY <1>1, <1>2

LEMMA FitsStill ==
  ASSUME NEW l \in Links, LinkInv(l), GoesOn(l)
  PROVE  /\ \A m \in Items(to_in[l]) : ToInFits(l, m) => ToInFits(l, m)'
         /\ \A m \in Items(to_out[l]) : ToOutFits(l, m) => ToOutFits(l, m)'
<1>1. ASSUME NEW m \in Items(to_in[l]), ToInFits(l, m) PROVE ToInFits(l, m)'
  <2>1. m \in InMessage(l)
    BY ElementOfSeq, LenProperties DEF LinkInv, ToInRight, Items
  <2>2. m.kind = "TOKEN" => m.item.seq \in Nat
    BY <2>1, MessageKinds
  <2> DEFINE a == inq[l[2]].write_pos[l[1]]
             b == inq'[l[2]].write_pos[l[1]]
  <2>3. l \in in_endpoint' => a \in Nat /\ b \in Nat /\ a <= b /\ l \in in_endpoint
    BY DEF GoesOn
  <2>4. /\ m.kind = "TOKEN" => TokenIs(m.item, dispatched[l], a, l \in in_endpoint)
        /\ m.kind = "DISCONNECT" => DOMAIN m.remaining = {l[1]}
        /\ m.kind = "DISCONNECTED" /\ l[1] \in DOMAIN m.remaining => l \notin in_endpoint
    BY <1>1 DEF ToInFits
  <2> HIDE DEF a, b
  <2>5. m.kind = "TOKEN" => TokenIs(m.item, dispatched[l], b, l \in in_endpoint')
    BY <2>2, <2>3, <2>4 DEF TokenIs
  <2>6. dispatched'[l] = dispatched[l] /\ (l \notin in_endpoint => l \notin in_endpoint')
    BY DEF GoesOn
  <2> QED
    BY <2>4, <2>5, <2>6 DEF ToInFits, b
<1>2. ASSUME NEW m \in Items(to_out[l]), ToOutFits(l, m) PROVE ToOutFits(l, m)'
  <2>1. m \in OutMessage
    BY ElementOfSeq, LenProperties DEF LinkInv, ToOutRight, Items
  <2>2. m.kind = "ACK" => m.seq \in Nat
    BY <2>1, MessageKinds
  <2> DEFINE a == inq[l[2]].write_pos[l[1]]
             b == inq'[l[2]].write_pos[l[1]]
  <2>3. l \in out_endpoint' => a \in Nat /\ b \in Nat /\ a <= b /\ l \in out_endpoint
    BY DEF GoesOn
  <2>4. /\ m.kind = "ACK" /\ l \in out_endpoint => m.seq < a
        /\ m.kind = "DISCONNECT" => l \notin in_endpoint /\ l \in conf.exhausted
    BY <1>2 DEF ToOutFits
  <2> HIDE DEF a, b
  <2>5. m.kind = "ACK" /\ l \in out_endpoint' => m.seq < b
    BY <2>2, <2>3, <2>4
  <2>6. conf' = conf /\ (l \notin in_endpoint => l \notin in_endpoint')
    BY DEF GoesOn
  <2> QED
    BY <2>4, <2>5, <2>6 DEF ToOutFits, b
<1> QED
  BY <1>1, <1>2

LEMMA LinkGoesOn ==
  ASSUME NEW l \in Links, LinkInv(l), GoesOn(l), (Attached(l) \/ HandedOver(l) \/ Settled(l))'
  PROVE  LinkInv(l)'
<1>1. ToInRight(l)'
  <2>1. \A m \in Items(to_in[l]) : ToInFits(l, m)
    BY DEF LinkInv, ToInRight
  <2>2. \A m \in Items(to_in'[l]) : ToInFits(l, m)'
    BY <2>1, FitsStill DEF GoesOn
  <2>3. to_in'[l] \in Seq(InMessage(l)')
    BY DEF GoesOn, InMessage
  <2> QED
    BY <2>2, <2>3 DEF ToInRight
<1>2. ToOutRight(l)'
  <2>1. \A m \in Items(to_out[l]) : ToOutFits(l, m)
    BY DEF LinkInv, ToOutRight
  <2>2. \A m \in Items(to_out'[l]) : ToOutFits(l, m)'
    BY <2>1, FitsStill DEF GoesOn
  <2> QED
    BY <2>2 DEF ToOutRight, GoesOn
<1>3. (~IsTunnel(l) => to_in[l] = <<>> /\ to_out[l] = <<>>)'
  BY DEF GoesOn, IsTunnel
<1>4. (~conf.exceptions => Plain(dispatched[l]))'
  BY DEF LinkInv, GoesOn, Plain
<1> QED
  BY <1>1, <1>2, <1>3, <1>4 DEF LinkInv, GoesOn

LEMMA LinkFacts ==
  ASSUME ChannelInv, NEW l \in Links
  PROVE  /\ LinkInv(l) /\ InRight(l[2]) /\ OutRight(l[1])
         /\ dispatched[l] \in Seq(Token) /\ delivered[l] \in Seq(Token)
         /\ Opened(l) => inq[l[2]].write_pos[l[1]] \in Nat
         /\ l \in out_endpoint => Attached(l)
         /\ l \in unjoined => Fresh(l)
BY LinkEnds DEF ChannelInv, Shared, LinkInv, HandedOver, Settled, Opened, IsOpen, Stores

LEMMA QueueFilling ==
  ASSUME ChannelInv, NEW i \in Ins
  PROVE  InShape(inq[i]) /\ Filling(inq[i])
<1>1. InRight(i)
  BY DEF ChannelInv
<1>2. ASSUME NEW w \in In!WriterSet(inq[i])
      PROVE  \E D, V \in Seq(Token) : IsOpen(inq[i], w, D, V) \/ IsClosing(inq[i], w, D, V)
  <2> DEFINE l == <<w, i>>
             D == dispatched[l]
             V == delivered[l]
  <2>1. l \in Links /\ l[1] = w /\ l[2] = i
    BY <1>1, <1>2 DEF InRight
  <2>2. LinkInv(l) /\ D \in Seq(Token) /\ V \in Seq(Token)
    BY <2>1, LinkFacts
  <2>3. Opened(l) \/ IsSettled(inq[i], w, D, V)
    <3> HIDE DEF l
    <3> QED
      BY <2>1, <2>2 DEF LinkInv, Attached, HandedOver, Settled
  <2>4. IsOpen(inq[i], w, D, V) \/ IsClosing(inq[i], w, D, V)
    BY <2>1, <2>3, <1>2 DEF Opened, IsSettled, IsGone
  <2> QED
    BY <2>2, <2>4
<1> QED
  BY <1>1, <1>2 DEF InRight, Filling

(* The writers of an inport's queue take their turns as before the step,   *)
(* unless the step has changed who they are.                               *)
TurnGoesOn(i) ==
  inq[i].writers = In!Ascending(In!WriterSet(inq[i])) =>
    /\ inq'[i].writers = In!Ascending(In!WriterSet(inq'[i]))
    /\ In!WriterSet(inq'[i]) = In!WriterSet(inq[i]) => StaysInTurn(inq'[i], inq[i])

LEMMA StaysGoesOn ==
  ASSUME NEW i, StaysInTurn(inq'[i], inq[i])
  PROVE  TurnGoesOn(i)
<1>1. In!WriterSet(inq'[i]) = In!WriterSet(inq[i]) /\ inq'[i].writers = inq[i].writers
  BY SameWritersListed DEF StaysInTurn
<1> QED
  BY <1>1 DEF TurnGoesOn

LEMMA CommunicateKeeps ==
  ASSUME ChannelInv, NEW l \in Links, Communicate(l)
  PROVE  ChannelInv'
<1> DEFINE o == l[1]
           r == l[2]
           q == outq[o]
           D == dispatched[l]
           from == q.tentative_read_pos[r]
           off == q.reader_offset[r]
           to == q.write_pos[r]
           stored == inq[r].write_pos[o]
           count == IF bulk[l] THEN Out!Unsent(q, r) ELSE 1
           items == [k \in 1 .. count |-> Out!com_peek(q, r, from + k - 1)]
           tokens == [k \in 1 .. count |-> [kind |-> "TOKEN", item |-> items[k]]]
           w == Out!Peeked(q, r, from + count)
<1>1. /\ LinkInv(l) /\ OutRight(o) /\ D \in Seq(Token) /\ Attached(l) /\ l \notin unjoined
      /\ Opened(l) /\ stored \in Nat
  BY LinkFacts DEF Communicate, CanTransmit, Fresh, Attached
<1>2. /\ Out!Unsent(q, r) > 0 /\ IsTunnel(l) /\ outq' = [outq EXCEPT ![o] = w]
      /\ to_in' = Send(to_in, l, tokens)
      /\ UNCHANGED <<conf, inq, out_endpoint, in_endpoint, unjoined, to_out, serial,
                     dispatched, delivered>>
  BY DEF Communicate, CanTransmit, ends
<1>3. Sends(q, r, D) /\ HasReader(l) /\ OutShape(q) /\ r \in Out!ReaderSet(q)
  BY <1>1 DEF Attached, OutRight, HasReader
<1>4. /\ off \in Nat /\ from \in off .. to /\ to \in Nat /\ q.read_pos[r] \in off .. to
      /\ q.read_pos[r] - off <= stored
  BY <1>1, <1>3 DEF Sends, Attached
<1>5. count \in Nat /\ count >= 1 /\ from + count <= to
  <2>1. Out!Unsent(q, r) = to - from
    BY DEF Out!Unsent
  <2> HIDE DEF from, to
  <2> QED
    BY <1>2, <1>4, <2>1
<1>6. ASSUME NEW k \in 1 .. count
      PROVE  items[k] \in Item /\ TokenIs(items[k], D, stored, l \in in_endpoint)
  <2> DEFINE j == from + k - 1
             pos == q.read_pos[r]
             item == Out!com_peek(q, r, j)
  <2> HIDE DEF count
  <2>1. j \in off .. to - 1
    BY <1>4, <1>5
  <2>2. /\ item \in Item /\ item.seq = j - off /\ item.seq \in 0 .. Len(D) - 1
        /\ pos <= j => item.token = D[j - off + 1]
    <3> HIDE DEF j
    <3> QED
      BY ONLY <1>1, <1>3, <2>1, ItemPeeked
  <2> HIDE DEF j, item, pos, off, to, stored
  <2>3. stored <= item.seq => pos <= j
    <3>1. /\ off \in Nat /\ to \in Nat /\ pos \in off .. to /\ pos - off <= stored /\ stored \in Nat
          /\ j \in off .. to - 1 /\ item.seq = j - off
      BY <1>1, <1>4, <2>1, <2>2 DEF pos
    <3> QED
      BY ONLY <3>1
  <2>4. item.seq < Len(D) /\ item.seq + 1 = j - off + 1
    BY <2>2, LenProperties
  <2>5. items[k] = item
    BY DEF item, j
  <2> QED
    BY <2>2, <2>3, <2>4, <2>5 DEF TokenIs
<1>7. tokens \in Seq(InMessage(l)) /\ \A m \in Items(tokens) :
        m.kind = "TOKEN" /\ TokenIs(m.item, D, stored, l \in in_endpoint)
  <2> HIDE DEF items, count, stored, D
  <2>1. \A k \in 1 .. count : tokens[k] \in InMessage(l) /\ tokens[k].kind = "TOKEN"
          /\ TokenIs(tokens[k].item, D, stored, l \in in_endpoint)
    BY <1>6 DEF InMessage
  <2>2. tokens \in [1 .. count -> InMessage(l)] /\ DOMAIN tokens = 1 .. count
    BY <2>1
  <2>3. tokens \in Seq(InMessage(l))
    BY ONLY <2>2, <1>5, IsList
  <2> HIDE DEF tokens
  <2> QED
    BY <2>1, <2>2, <2>3 DEF Items
<1> HIDE DEF tokens, items
<1>8. /\ to_in'[l] = to_in[l] \o tokens /\ DOMAIN to_in' = Links
      /\ \A m \in Links : m # l => to_in'[m] = to_in[m]
  BY <1>2 DEF Send, ChannelInv, Shared
<1>9. to_in'[l] \in Seq(InMessage(l)) /\ Items(to_in'[l]) = Items(to_in[l]) \cup Items(tokens)
  <2>1. to_in[l] \in Seq(InMessage(l))
    BY <1>1 DEF LinkInv, ToInRight
  <2> QED
    BY <1>7, <1>8, <2>1, MessagesSent
<1>10. SendsFrom(w, q, r, D, q.read_pos[r], from + count)
  <2>1. from + count \in off .. to
    BY <1>4, <1>5
  <2> HIDE DEF from, count, off, to, q, D
  <2>2. from + count \in q.reader_offset[r] .. q.write_pos[r] /\ w = Out!Peeked(q, r, from + count)
    BY <2>1 DEF off, to
  <2> HIDE DEF w
  <2> QED
    BY ONLY <1>3, <2>2, SentOn
<1> HIDE DEF w, count
<1>11. OnlyOut(l) /\ outq'[o] = w
  BY <1>2, <1>10, OutChanged DEF SendsFrom
<1>12. OnlyIn(l)
  BY <1>2, InUnchanged
<1>13. OnlyEnds(l)
  BY <1>2, <1>8 DEF OnlyEnds, ChannelInv, Shared
<1>14. Attached(l)'
  <2>1. NoBearer(to_in'[l], o)
    BY <1>1, <1>7, <1>9 DEF NoBearer, Bears, Attached
  <2>2. /\ Sends(w, r, D) /\ w.read_pos[r] = q.read_pos[r] /\ w.reader_offset = q.reader_offset
        /\ r \in Out!ReaderSet(w)
    BY <1>3, <1>10 DEF SendsFrom
  <2> QED
    BY <1>1, <1>2, <1>11, <2>1, <2>2 DEF Attached, HasReader, Opened, IsTunnel
<1>15. GoesOn(l)
  <2>1. \A m \in Items(to_in'[l]) : m \in Items(to_in[l]) \/ ToInFits(l, m)'
    <3>1. \A m \in Items(tokens) : ToInFits(l, m)'
      BY <1>2, <1>7 DEF ToInFits
    <3> QED
      BY <1>9, <3>1
  <2>2. to_out'[l] \in Seq(OutMessage)
    BY <1>1, <1>2 DEF LinkInv, ToOutRight
  <2>3. Opened(l)' <=> Opened(l)
    BY <1>2 DEF Opened
  <2>4. l \notin in_endpoint => l[1] \in DOMAIN inq[l[2]].termination
    BY <1>1 DEF LinkInv
  <2> QED
    BY <1>1, <1>2, <1>9, <2>1, <2>2, <2>3, <2>4 DEF GoesOn, IsTunnel
<1> QED
  BY <1>1, <1>11, <1>12, <1>13, <1>14, <1>15, LinkGoesOn, LinkStep

(* A message is taken from the channel to the outport.                     *)
LEMMA ReplyTaken ==
  ASSUME ChannelInv, NEW l \in Links, to_out[l] # <<>>, to_out' = Received(to_out, l)
  PROVE  /\ l \notin unjoined /\ IsTunnel(l)
         /\ DOMAIN to_out' = Links /\ (\A m \in Links : m # l => to_out'[m] = to_out[m])
         /\ to_out'[l] \in Seq(OutMessage) /\ Items(to_out'[l]) \subseteq Items(to_out[l])
         /\ Head(to_out[l]) \in OutMessage /\ ToOutFits(l, Head(to_out[l]))
<1>1. LinkInv(l) /\ DOMAIN to_out = Links
  BY LinkFacts DEF ChannelInv, Shared
<1>2. to_out[l] \in Seq(OutMessage) /\ \A m \in Items(to_out[l]) : ToOutFits(l, m)
  BY <1>1 DEF LinkInv, ToOutRight
<1>3. /\ Tail(to_out[l]) \in Seq(OutMessage) /\ Head(to_out[l]) \in OutMessage
      /\ Head(to_out[l]) \in Items(to_out[l])
      /\ Items(Tail(to_out[l])) \subseteq Items(to_out[l])
  BY <1>2, MessageTaken
<1>4. to_out'[l] = Tail(to_out[l]) /\ DOMAIN to_out' = Links
      /\ \A m \in Links : m # l => to_out'[m] = to_out[m]
  BY <1>1 DEF Received
<1> QED
  BY <1>1, <1>2, <1>3, <1>4 DEF LinkInv, Fresh

LEMMA ReceiveReplyKeeps ==
  ASSUME ChannelInv, NEW l \in Links, ReceiveReply(l)
  PROVE  ChannelInv'
<1> DEFINE o == l[1]
           r == l[2]
           q == outq[o]
           D == dispatched[l]
           m == Head(to_out[l])
           stored == inq[r].write_pos[o]
           w == IF m.kind = "ACK" THEN Out!com_commit(q, r, m.seq)
                                  ELSE Out!com_cancel(q, r, m.seq)
<1>1. /\ LinkInv(l) /\ OutRight(o) /\ D \in Seq(Token)
  BY LinkFacts
<1>2. /\ to_out[l] # <<>> /\ m.kind \in {"ACK", "NACK"} /\ to_out' = Received(to_out, l)
      /\ UNCHANGED <<conf, inq, out_endpoint, in_endpoint, unjoined, to_in, serial,
                     dispatched, delivered>>
      /\ IF l \notin out_endpoint THEN UNCHANGED outq ELSE outq' = [outq EXCEPT ![o] = w]
  BY DEF ReceiveReply, Arrived
<1>3. /\ l \notin unjoined /\ IsTunnel(l)
      /\ DOMAIN to_out' = Links /\ (\A n \in Links : n # l => to_out'[n] = to_out[n])
      /\ to_out'[l] \in Seq(OutMessage) /\ Items(to_out'[l]) \subseteq Items(to_out[l])
      /\ m \in OutMessage /\ ToOutFits(l, m)
  BY <1>2, ReplyTaken
<1>4. m.seq \in Nat
  BY <1>2, <1>3, MessageKinds
<1>5. OnlyIn(l)
  BY <1>2, InUnchanged
<1>6. OnlyEnds(l)
  BY <1>2, <1>3 DEF OnlyEnds, ChannelInv, Shared
<1>7. GoesOn(l)
  <2>1. to_in'[l] \in Seq(InMessage(l))
    BY <1>1, <1>2 DEF LinkInv, ToInRight
  <2>2. Opened(l)' <=> Opened(l)
    BY <1>2 DEF Opened
  <2>3. Opened(l) /\ l \notin in_endpoint => l[1] \in DOMAIN inq[l[2]].termination
    BY <1>1 DEF LinkInv
  <2>4. l \in in_endpoint \cup out_endpoint =>
          inq[l[2]].write_pos[l[1]] \in Nat /\ inq[l[2]].write_pos[l[1]] <= inq[l[2]].write_pos[l[1]]
    <3>1. l \in in_endpoint => Opened(l)
      BY <1>1 DEF LinkInv
    <3>2. l \in out_endpoint => Opened(l)
      <4>1. l \in out_endpoint => Attached(l)
        BY LinkFacts
      <4> QED
        BY ONLY <4>1 DEF Attached
    <3>3. Opened(l) => inq[l[2]].write_pos[l[1]] \in Nat
      BY LinkFacts
    <3> QED
      BY ONLY <3>1, <3>2, <3>3
  <2>5. l \in in_endpoint => Opened(l)
    BY <1>1 DEF LinkInv
  <2>6. conf' = conf /\ inq' = inq /\ dispatched' = dispatched /\ unjoined' = unjoined
        /\ in_endpoint' = in_endpoint /\ out_endpoint' = out_endpoint /\ to_in' = to_in
    BY <1>2
  <2>7. IsTunnel(l) /\ l \notin unjoined /\ to_out'[l] \in Seq(OutMessage)
        /\ Items(to_out'[l]) \subseteq Items(to_out[l])
    BY <1>3
  <2>8. /\ \A n \in Items(to_in'[l]) : n \in Items(to_in[l])
        /\ \A n \in Items(to_out'[l]) : n \in Items(to_out[l])
    BY ONLY <2>6, <2>7
  <2> QED
    BY ONLY <2>1, <2>2, <2>3, <2>4, <2>5, <2>6, <2>7, <2>8 DEF GoesOn
<1>8. CASE l \notin out_endpoint
  <2>1. OnlyOut(l)
    BY <1>2, <1>8, OutUnchanged
  <2>2. (HandedOver(l) \/ Settled(l))'
    BY <1>1, <1>2, <1>8 DEF LinkInv, Attached, HandedOver, Settled, HasReader, Opened
  <2> QED
    BY <1>1, <1>5, <1>6, <1>7, <2>1, <2>2, LinkGoesOn, LinkStep
<1>9. CASE l \in out_endpoint
  <2>1. Attached(l) /\ Sends(q, r, D) /\ OutShape(q) /\ r \in Out!ReaderSet(q) /\ HasReader(l)
        /\ q.read_pos[r] - q.reader_offset[r] <= stored /\ stored \in Nat
    BY <1>1, <1>9, LinkFacts DEF Attached, OutRight, HasReader
  <2>2. outq' = [outq EXCEPT ![o] = w]
    BY <1>2, <1>9
  <2>3. \E pos, tent : SendsFrom(w, q, r, D, pos, tent) /\ pos - q.reader_offset[r] <= stored
    <3>1. CASE m.kind = "ACK"
      <4>1. w = Out!com_commit(q, r, m.seq)
        BY <3>1
      <4> HIDE DEF w
      <4>2. /\ SendsFrom(w, q, r, D, w.read_pos[r], q.tentative_read_pos[r])
            /\ \/ w.read_pos[r] = q.read_pos[r]
               \/ /\ w.read_pos[r] = q.read_pos[r] + 1
                  /\ w.read_pos[r] - q.reader_offset[r] = m.seq + 1
        BY ONLY <2>1, <4>1, <1>4, Committed
      <4>3. m.seq < stored
        BY <3>1, <1>3, <1>9 DEF ToOutFits
      <4>4. m.seq + 1 <= stored
        BY ONLY <4>3, <1>4, <2>1
      <4>5. w.read_pos[r] - q.reader_offset[r] <= stored
        BY <4>2, <4>4, <2>1
      <4> QED
        BY <4>2, <4>5
    <3>2. CASE m.kind # "ACK"
      <4>1. w = Out!com_cancel(q, r, m.seq)
        BY <3>2
      <4> HIDE DEF w
      <4>2. SendsFrom(w, q, r, D, q.read_pos[r], w.tentative_read_pos[r])
        BY ONLY <2>1, <4>1, <1>4, Cancelled
      <4> QED
        BY <4>2, <2>1
    <3> QED
      BY <3>1, <3>2
  <2> HIDE DEF w
  <2>4. PICK pos, tent : SendsFrom(w, q, r, D, pos, tent) /\ pos - q.reader_offset[r] <= stored
    BY <2>3
  <2>5. OnlyOut(l) /\ outq'[o] = w
    BY <2>2, <2>4, OutChanged DEF SendsFrom
  <2>6. Attached(l)'
    <3>1. /\ Sends(w, r, D) /\ w.read_pos[r] = pos /\ w.reader_offset = q.reader_offset
          /\ r \in Out!ReaderSet(w)
      BY <2>1, <2>4 DEF SendsFrom
    <3> QED
      BY <1>2, <1>3, <2>1, <2>4, <2>5, <3>1 DEF Attached, HasReader, Opened, IsTunnel
  <2> QED
    BY <1>1, <1>5, <1>6, <1>7, <2>5, <2>6, LinkGoesOn, LinkStep
<1> QED
  BY <1>8, <1>9

LEMMA DisconnectedPeerOutKeeps ==
  ASSUME ChannelInv, NEW l \in Links, DisconnectedPeerOut(l)
  PROVE  ChannelInv'
<1>1. LinkInv(l)
  BY LinkFacts
<1>2. /\ to_out[l] # <<>> /\ to_out' = Received(to_out, l)
      /\ UNCHANGED <<conf, outq, inq, out_endpoint, in_endpoint, unjoined, to_in, serial,
                     dispatched, delivered>>
  BY DEF DisconnectedPeerOut, Arrived, queues, ends
<1>3. /\ l \notin unjoined /\ IsTunnel(l)
      /\ DOMAIN to_out' = Links /\ (\A n \in Links : n # l => to_out'[n] = to_out[n])
      /\ to_out'[l] \in Seq(OutMessage) /\ Items(to_out'[l]) \subseteq Items(to_out[l])
  BY <1>2, ReplyTaken
<1>4. OnlyIn(l) /\ OnlyOut(l)
  BY <1>2, InUnchanged, OutUnchanged
<1>5. OnlyEnds(l)
  BY <1>2, <1>3 DEF OnlyEnds, ChannelInv, Shared
<1>6. GoesOn(l)
  <2>1. to_in'[l] \in Seq(InMessage(l))
    BY <1>1, <1>2 DEF LinkInv, ToInRight
  <2>2. Opened(l)' <=> Opened(l)
    BY <1>2 DEF Opened
  <2>3. Opened(l) /\ l \notin in_endpoint => l[1] \in DOMAIN inq[l[2]].termination
    BY <1>1 DEF LinkInv
  <2>4. l \in in_endpoint \cup out_endpoint =>
          inq[l[2]].write_pos[l[1]] \in Nat /\ inq[l[2]].write_pos[l[1]] <= inq[l[2]].write_pos[l[1]]
    <3>1. l \in in_endpoint => Opened(l)
      BY <1>1 DEF LinkInv
    <3>2. l \in out_endpoint => Opened(l)
      <4>1. l \in out_endpoint => Attached(l)
        BY LinkFacts
      <4> QED
        BY ONLY <4>1 DEF Attached
    <3>3. Opened(l) => inq[l[2]].write_pos[l[1]] \in Nat
      BY LinkFacts
    <3> QED
      BY ONLY <3>1, <3>2, <3>3
  <2>5. l \in in_endpoint => Opened(l)
    BY <1>1 DEF LinkInv
  <2>6. conf' = conf /\ inq' = inq /\ dispatched' = dispatched /\ unjoined' = unjoined
        /\ in_endpoint' = in_endpoint /\ out_endpoint' = out_endpoint /\ to_in' = to_in
    BY <1>2
  <2>7. IsTunnel(l) /\ l \notin unjoined /\ to_out'[l] \in Seq(OutMessage)
        /\ Items(to_out'[l]) \subseteq Items(to_out[l])
    BY <1>3
  <2>8. /\ \A n \in Items(to_in'[l]) : n \in Items(to_in[l])
        /\ \A n \in Items(to_out'[l]) : n \in Items(to_out[l])
    BY ONLY <2>6, <2>7
  <2> QED
    BY ONLY <2>1, <2>2, <2>3, <2>4, <2>5, <2>6, <2>7, <2>8 DEF GoesOn
<1>7. (Attached(l) \/ HandedOver(l) \/ Settled(l))'
  BY <1>1, <1>2 DEF LinkInv, Attached, HandedOver, Settled, HasReader, Opened, IsTunnel
<1> QED
  BY <1>1, <1>4, <1>5, <1>6, <1>7, LinkGoesOn, LinkStep

(* A message is taken from the channel to the inport.                      *)
LEMMA MessageArrives ==
  ASSUME ChannelInv, NEW l \in Links, to_in[l] # <<>>, to_in' = Received(to_in, l)
  PROVE  /\ l \notin unjoined /\ IsTunnel(l)
         /\ DOMAIN to_in' = Links /\ (\A m \in Links : m # l => to_in'[m] = to_in[m])
         /\ to_in'[l] \in Seq(InMessage(l)) /\ Items(to_in'[l]) \subseteq Items(to_in[l])
         /\ Head(to_in[l]) \in InMessage(l) /\ ToInFits(l, Head(to_in[l]))
         /\ NoBearer(to_in[l], l[1]) => ~Bears(Head(to_in[l]), l[1]) /\ NoBearer(to_in'[l], l[1])
         /\ \A D, pos : OneBearer(to_in[l], l[1], D, pos) =>
              IF Bears(Head(to_in[l]), l[1])
              THEN Rests(Head(to_in[l]).remaining[l[1]], D, pos) /\ NoBearer(to_in'[l], l[1])
              ELSE OneBearer(to_in'[l], l[1], D, pos)
<1>1. LinkInv(l) /\ DOMAIN to_in = Links
  BY LinkFacts DEF ChannelInv, Shared
<1>2. to_in[l] \in Seq(InMessage(l)) /\ \A m \in Items(to_in[l]) : ToInFits(l, m)
  BY <1>1 DEF LinkInv, ToInRight
<1>3. /\ Tail(to_in[l]) \in Seq(InMessage(l)) /\ Head(to_in[l]) \in InMessage(l)
      /\ Head(to_in[l]) \in Items(to_in[l])
      /\ Items(Tail(to_in[l])) \subseteq Items(to_in[l])
  BY <1>2, MessageTaken
<1>4. to_in'[l] = Tail(to_in[l]) /\ DOMAIN to_in' = Links
      /\ \A m \in Links : m # l => to_in'[m] = to_in[m]
  BY <1>1 DEF Received
<1>5. ASSUME NEW D, NEW pos, OneBearer(to_in[l], l[1], D, pos)
      PROVE  IF Bears(Head(to_in[l]), l[1])
             THEN Rests(Head(to_in[l]).remaining[l[1]], D, pos) /\ NoBearer(to_in'[l], l[1])
             ELSE OneBearer(to_in'[l], l[1], D, pos)
  BY <1>2, <1>4, <1>5, BearerTaken
<1>6. NoBearer(to_in[l], l[1]) => ~Bears(Head(to_in[l]), l[1]) /\ NoBearer(to_in'[l], l[1])
  BY <1>3, <1>4 DEF NoBearer
<1> QED
  BY <1>1, <1>2, <1>3, <1>4, <1>5, <1>6 DEF LinkInv, Fresh

LEMMA MessageSent ==
  ASSUME NEW X, NEW s \in Seq(X), NEW m \in X
  PROVE  s \o <<m>> \in Seq(X) /\ Items(s \o <<m>>) = Items(s) \cup {m}
<1>1. <<m>> \in Seq(X) /\ DOMAIN <<m>> = {1} /\ <<m>>[1] = m
  OBVIOUS
<1>2. Items(<<m>>) = {m}
  BY <1>1 DEF Items
<1>3. s \o <<m>> \in Seq(X) /\ Items(s \o <<m>>) = Items(s) \cup Items(<<m>>)
  BY ONLY <1>1, MessagesSent
<1> QED
  BY <1>2, <1>3

LEMMA ReceiveTokenKeeps ==
  ASSUME ChannelInv, NEW l \in Links, ReceiveToken(l)
  PROVE  ChannelInv' /\ StaysInTurn(inq'[l[2]], inq[l[2]])
<1> DEFINE o == l[1]
           r == l[2]
           D == dispatched[l]
           V == delivered[l]
           q == inq[r]
           p == inq'[r]
           m == Head(to_in[l])
           item == m.item
           new == item.seq = q.write_pos[o]
           ok == IF new THEN In!InFree(q, o) > 0 ELSE item.seq < q.write_pos[o]
           reply == [kind |-> IF ok THEN "ACK" ELSE "NACK", seq |-> item.seq]
<1>1. /\ LinkInv(l) /\ InRight(r) /\ D \in Seq(Token) /\ V \in Seq(Token)
  BY LinkFacts
<1>2. /\ to_in[l] # <<>> /\ m.kind = "TOKEN" /\ to_in' = Received(to_in, l)
      /\ UNCHANGED <<conf, outq, out_endpoint, in_endpoint, unjoined, serial,
                     dispatched, delivered>>
      /\ IF l \notin in_endpoint THEN UNCHANGED <<inq, to_out>>
         ELSE /\ inq' = [inq EXCEPT ![r] = IF new /\ ok THEN In!com_write(q, o, item) ELSE q]
              /\ to_out' = Send(to_out, l, <<reply>>)
  BY DEF ReceiveToken, Arrived, ends
<1>3. /\ l \notin unjoined /\ IsTunnel(l)
      /\ DOMAIN to_in' = Links /\ (\A n \in Links : n # l => to_in'[n] = to_in[n])
      /\ to_in'[l] \in Seq(InMessage(l)) /\ Items(to_in'[l]) \subseteq Items(to_in[l])
      /\ m \in InMessage(l) /\ ToInFits(l, m)
      /\ NoBearer(to_in[l], o) => ~Bears(m, o) /\ NoBearer(to_in'[l], o)
      /\ \A E, pos : OneBearer(to_in[l], o, E, pos) =>
           IF Bears(m, o)
           THEN Rests(m.remaining[o], E, pos) /\ NoBearer(to_in'[l], o)
           ELSE OneBearer(to_in'[l], o, E, pos)
  BY <1>2, MessageArrives
<1>4. /\ item \in Item /\ item.seq \in Nat /\ ~Bears(m, o)
      /\ TokenIs(item, D, q.write_pos[o], l \in in_endpoint)
  BY <1>2, <1>3, MessageKinds DEF ToInFits, Bears
<1>5. Opened(l) => q.write_pos[o] \in Nat
  BY LinkFacts
<1>6. l \in in_endpoint => Opened(l)
  BY <1>1 DEF LinkInv
<1>7. /\ OnlyIn(l)
      /\ IF Opened(l)
         THEN /\ Opened(l)' /\ q.write_pos[o] <= p.write_pos[o] /\ p.write_pos[o] \in Nat
              /\ o \in DOMAIN p.termination <=> o \in DOMAIN q.termination
         ELSE p = q
      /\ l \in in_endpoint /\ reply.kind = "ACK" => item.seq < p.write_pos[o]
      /\ StaysInTurn(p, q)
  <2>1. CASE l \in in_endpoint /\ new /\ ok
    <3> DEFINE w == In!com_write(q, o, item)
    <3>1. /\ InShape(q) /\ IsOpen(q, o, D, V) /\ In!InFree(q, o) > 0
          /\ item.seq = q.write_pos[o] /\ item.seq < Len(D) /\ item.token = D[item.seq + 1]
      BY <1>1, <1>4, <1>6, <2>1 DEF InRight, Opened, TokenIs
    <3>2. inq' = [inq EXCEPT ![r] = w] /\ w = In!com_write(q, o, item)
      BY <1>2, <2>1
    <3>3. w.kind = q.kind
      <4>1. DOMAIN q = InFields
        BY <3>1 DEF InShape
      <4>2. \A it : In!com_write(q, o, it).kind = q.kind
        BY ONLY <4>1, KindKept
      <4> QED
        BY <4>2
    <3> HIDE DEF w
    <3>4. WrittenTo(w, q, o, D, V, q.write_pos[o] + 1)
      BY ONLY <1>1, <3>1, <3>2, OneWritten
    <3>5. \A v : v # o => Keeps(w, q, v) /\ (v \in In!WriterSet(w) => v \in In!WriterSet(q))
      BY <3>4, SameWriterKeeps DEF WrittenTo
    <3>6. OnlyIn(l) /\ p = w
      BY <3>2, <3>3, <3>4, <3>5, InChanged DEF WrittenTo
    <3>7. StaysInTurn(p, q)
      <4>1. DOMAIN q = InFields
        BY <3>1 DEF InShape
      <4>2. w.writers = q.writers /\ w.turn_pos = q.turn_pos
        BY ONLY <3>2, <4>1, TurnKept
      <4>3. q.write_pos[o] <= q.write_pos[o] + 1
        BY <1>5, <1>6, <2>1
      <4>4. StaysInTurn(w, q)
        BY ONLY <1>1, <3>1, <3>4, <4>2, <4>3, WrittenInTurn
      <4> QED
        BY <3>6, <4>4
    <3> QED
      BY <1>2, <1>5, <1>6, <2>1, <3>4, <3>6, <3>7 DEF WrittenTo, Opened
  <2>2. CASE ~(l \in in_endpoint /\ new /\ ok)
    <3>1. inq' = inq \/ inq' = [inq EXCEPT ![r] = q]
      BY <1>2, <2>2
    <3>2. OnlyIn(l) /\ p = q
      BY <1>1, <3>1, InUnchanged, InChanged, SameKeeps DEF InRight
    <3>3. Opened(l) => Opened(l)'
      BY <1>2, <3>2 DEF Opened
    <3>4. l \in in_endpoint /\ ok => item.seq < q.write_pos[o]
      BY <2>2
    <3>5. StaysInTurn(p, q)
      BY <3>2 DEF StaysInTurn
    <3> QED
      BY <1>5, <3>2, <3>3, <3>4, <3>5
  <2> QED
    BY <2>1, <2>2
<1>8. OnlyOut(l)
  BY <1>2, OutUnchanged
<1>9. /\ DOMAIN to_out' = Links /\ (\A n \in Links : n # l => to_out'[n] = to_out[n])
      /\ to_out'[l] \in Seq(OutMessage)
      /\ \A n \in Items(to_out'[l]) : n \in Items(to_out[l]) \/ ToOutFits(l, n)'
  <2>1. to_out[l] \in Seq(OutMessage) /\ DOMAIN to_out = Links
    BY <1>1 DEF LinkInv, ToOutRight, ChannelInv, Shared
  <2>2. CASE l \notin in_endpoint
    BY <1>2, <2>1, <2>2
  <2>3. CASE l \in in_endpoint
    <3>1. reply \in OutMessage
      BY <1>4 DEF OutMessage
    <3>2. ASSUME NEW n, n = reply PROVE ToOutFits(l, n)'
      BY <1>2, <1>7, <2>3, <3>2 DEF ToOutFits
    <3> HIDE DEF reply
    <3>3. /\ to_out'[l] = to_out[l] \o <<reply>> /\ DOMAIN to_out' = Links
          /\ \A n \in Links : n # l => to_out'[n] = to_out[n]
      BY <1>2, <2>1, <2>3 DEF Send
    <3>4. to_out'[l] \in Seq(OutMessage) /\ Items(to_out'[l]) = Items(to_out[l]) \cup {reply}
      BY <2>1, <3>1, <3>3, MessageSent
    <3> QED
      BY <3>2, <3>3, <3>4
  <2> QED
    BY <2>2, <2>3
<1>10. OnlyEnds(l)
  BY <1>2, <1>3, <1>9 DEF OnlyEnds, ChannelInv, Shared
<1>11. GoesOn(l)
  <2>1. Opened(l)' => Opened(l)
    BY <1>2, <1>7 DEF Opened
  <2>2. Opened(l) /\ l \notin in_endpoint => o \in DOMAIN q.termination
    BY <1>1 DEF LinkInv
  <2>3. l \in in_endpoint \cup out_endpoint => Opened(l)
    BY <1>1, <1>6, LinkFacts DEF Attached
  <2> QED
    BY ONLY <1>2, <1>3, <1>5, <1>7, <1>9, <2>1, <2>2, <2>3 DEF GoesOn
<1>12. (Attached(l) \/ HandedOver(l) \/ Settled(l))'
  <2>1. CASE Attached(l)
    <3>1. outq'[o].read_pos[r] - outq'[o].reader_offset[r] <= p.write_pos[o]
      <4>1. /\ outq[o].read_pos[r] - outq[o].reader_offset[r] <= q.write_pos[o]
            /\ outq[o].read_pos[r] \in Int /\ outq[o].reader_offset[r] \in Int
            /\ q.write_pos[o] \in Nat /\ p.write_pos[o] \in Nat /\ q.write_pos[o] <= p.write_pos[o]
        <5>1. Sends(outq[o], r, D) /\ outq[o].read_pos[r] - outq[o].reader_offset[r] <= q.write_pos[o]
          BY <2>1 DEF Attached
        <5>2. outq[o].read_pos[r] \in Int /\ outq[o].reader_offset[r] \in Int
          <6>1. /\ outq[o].reader_offset[r] \in Nat /\ outq[o].write_pos[r] \in Nat
                /\ outq[o].read_pos[r] \in outq[o].reader_offset[r] .. outq[o].write_pos[r]
            BY ONLY <5>1 DEF Sends
          <6> HIDE DEF o, r
          <6> QED
            BY ONLY <6>1
        <5>3. q.write_pos[o] \in Nat /\ p.write_pos[o] \in Nat /\ q.write_pos[o] <= p.write_pos[o]
          BY <1>5, <1>7, <2>1 DEF Attached
        <5> QED
          BY <5>1, <5>2, <5>3
      <4>2. outq'[o] = outq[o]
        BY <1>2
      <4> HIDE DEF p, q, o, r
      <4> QED
        BY ONLY <4>1, <4>2
    <3> QED
      BY <1>2, <1>3, <1>7, <2>1, <3>1 DEF Attached, HasReader, IsTunnel
  <2>2. CASE HandedOver(l)
    <3>1. OneBearer(to_in'[l], o, D, q.write_pos[o]) /\ q.write_pos[o] \in Nat
          /\ p.write_pos[o] \in Nat /\ q.write_pos[o] <= p.write_pos[o] /\ Opened(l)'
      BY <1>3, <1>4, <1>5, <1>7, <2>2 DEF HandedOver
    <3>2. OneBearer(to_in'[l], o, D, p.write_pos[o])
      BY ONLY <3>1, BearerLater
    <3> QED
      BY <1>2, <2>2, <3>1, <3>2 DEF HandedOver, HasReader
  <2>3. CASE Settled(l)
    <3>1. p = q
      BY <1>7, <2>3, OpenOrSettled DEF Settled, Opened
    <3> QED
      BY <1>2, <1>3, <2>3, <3>1 DEF Settled, HasReader
  <2> QED
    BY <1>1, <2>1, <2>2, <2>3 DEF LinkInv
<1> QED
  BY <1>1, <1>7, <1>8, <1>10, <1>11, <1>12, LinkGoesOn, LinkStep

LEMMA CommunicateLocalKeeps ==
  ASSUME ChannelInv, NEW l \in Links, CommunicateLocal(l)
  PROVE  ChannelInv' /\ StaysInTurn(inq'[l[2]], inq[l[2]])
<1> DEFINE o == l[1]
           r == l[2]
           D == dispatched[l]
           V == delivered[l]
           q == outq[o]
           p == inq[r]
           off == q.reader_offset[r]
           from == q.tentative_read_pos[r]
           end == q.write_pos[r]
           stored == p.write_pos[o]
           room == In!InFree(p, o)
           count == IF room < Out!Unsent(q, r) THEN room ELSE Out!Unsent(q, r)
           items == [k \in 1 .. count |-> Out!com_peek(q, r, from + k - 1)]
           w == Out!Moved(q, r, count)
           v == In!com_write_all(p, o, items)
<1>1. /\ LinkInv(l) /\ InRight(r) /\ OutRight(o) /\ D \in Seq(Token) /\ V \in Seq(Token)
      /\ Attached(l) /\ Opened(l) /\ l \notin unjoined /\ stored \in Nat
      /\ o \in Outs /\ r \in Ins
  BY LinkFacts, LinkEnds DEF CommunicateLocal, CanTransmit, Fresh, Attached, ChannelInv, Shared
<1>2. /\ Out!Unsent(q, r) > 0 /\ ~IsTunnel(l) /\ room > 0
      /\ outq' = [outq EXCEPT ![o] = w] /\ inq' = [inq EXCEPT ![r] = v]
      /\ UNCHANGED <<conf, out_endpoint, in_endpoint, unjoined, to_in, to_out, serial,
                     dispatched, delivered>>
  <2>1. DOMAIN outq = Outs /\ DOMAIN inq = Ins
    BY DEF ChannelInv, Shared
  <2> QED
    BY <1>1, <2>1 DEF CommunicateLocal, CanTransmit, ends, air
<1>3. /\ Sends(q, r, D) /\ OutShape(q) /\ r \in Out!ReaderSet(q) /\ HasReader(l)
      /\ InShape(p) /\ IsOpen(p, o, D, V)
  BY <1>1 DEF Attached, OutRight, InRight, HasReader, Opened
<1>4. /\ off \in Nat /\ from \in off .. end /\ end \in Nat /\ q.read_pos[r] = from
      /\ from - off = stored /\ end - off = Len(D)
  BY <1>1, <1>2, <1>3 DEF Sends, Attached
<1>5. room \in Int
  <2>1. p.write_pos[o] \in Int /\ p.read_pos[o] \in Int /\ InN \in Int
    BY <1>1, <1>3, LengthAssumption DEF IsOpen, Stores
  <2> HIDE DEF p, o
  <2> QED
    BY ONLY <2>1 DEF In!InFree, In!Room
<1>6. count \in Nat /\ count <= room /\ from + count <= end /\ stored + count <= Len(D)
  <2>1. Out!Unsent(q, r) = end - from
    BY DEF Out!Unsent
  <2>2. Out!Unsent(q, r) > 0 /\ room > 0
    BY <1>2
  <2>3. Len(D) \in Nat
    BY <1>1, LenProperties
  <2> HIDE DEF room, from, end, off, stored, D, q, r
  <2> QED
    BY ONLY <1>1, <1>4, <1>5, <2>1, <2>2, <2>3
<1>7. Rest(items, D, stored, count)
  <2> HIDE DEF count
  <2>1. ASSUME NEW k \in 1 .. count
        PROVE  items[k] = [seq |-> stored + k - 1, token |-> D[stored + k]]
    <3> DEFINE j == from + k - 1
    <3>1. j \in off .. end - 1 /\ j - off = stored + k - 1 /\ j - off + 1 = stored + k /\ from <= j
      <4> HIDE DEF from, off, end, stored
      <4> QED
        BY <1>4, <1>6
    <3> HIDE DEF j
    <3>2. Out!com_peek(q, r, j).seq = j - off /\ Out!com_peek(q, r, j).token = D[j - off + 1]
      <4>1. j \in q.reader_offset[r] .. q.write_pos[r] - 1 /\ q.read_pos[r] <= j
        BY <1>4, <3>1
      <4> HIDE DEF D, q, r
      <4>2. /\ Out!com_peek(q, r, j).seq = j - q.reader_offset[r]
            /\ Out!com_peek(q, r, j).token = D[j - q.reader_offset[r] + 1]
        BY ONLY <1>1, <1>3, <4>1, ItemPeeked
      <4> QED
        BY <4>2 DEF off
    <3>3. items[k] = Out!com_peek(q, r, j)
      BY DEF j
    <3> QED
      BY <3>1, <3>2, <3>3 DEF Out!com_peek
  <2>2. items = [k \in 1 .. count |-> items[k]]
    OBVIOUS
  <2> HIDE DEF items, stored, D
  <2> QED
    BY <2>1, <2>2 DEF Rest
<1>8. SendsFrom(w, q, r, D, q.read_pos[r] + count, q.read_pos[r] + count)
  <2>1. q.tentative_read_pos[r] = q.read_pos[r] /\ q.read_pos[r] + count <= q.write_pos[r]
    BY <1>4, <1>6
  <2>2. w = Out!Moved(q, r, count)
    OBVIOUS
  <2> HIDE DEF w, count, q, D, o, r
  <2> QED
    BY ONLY <1>3, <1>6, <2>1, <2>2, MovedOn
<1>9. WrittenTo(v, p, o, D, V, stored + count)
  <2>1. v = In!com_write_all(p, o, items)
    OBVIOUS
  <2> HIDE DEF v, count, items, D, V, o, r, p
  <2> QED
    BY ONLY <1>1, <1>3, <1>6, <1>7, <2>1, AllWritten DEF room, stored
<1>10. v.kind = p.kind
  <2>1. DOMAIN p = InFields
    BY <1>3 DEF InShape
  <2>2. v = In!com_write_all(p, o, items)
    OBVIOUS
  <2> HIDE DEF items, v, p, o
  <2> QED
    BY ONLY <2>1, <2>2 DEF In!com_write_all, InFields
<1> HIDE DEF w, v, count, items
<1>11. OnlyOut(l) /\ outq'[o] = w
  BY <1>2, <1>8, OutChanged DEF SendsFrom
<1>12. OnlyIn(l) /\ inq'[r] = v
  <2>1. \A u : u # o => Keeps(v, p, u) /\ (u \in In!WriterSet(v) => u \in In!WriterSet(p))
    BY <1>9, SameWriterKeeps DEF WrittenTo
  <2> QED
    BY <1>2, <1>9, <1>10, <2>1, InChanged DEF WrittenTo
<1>13. OnlyEnds(l)
  BY <1>2 DEF OnlyEnds, ChannelInv, Shared
<1>14. /\ Opened(l)' /\ v.write_pos[o] = stored + count
       /\ o \in DOMAIN v.termination <=> o \in DOMAIN p.termination
  BY <1>2, <1>9, <1>12 DEF WrittenTo, Opened
<1>15. Attached(l)'
  <2>1. /\ Sends(w, r, D) /\ w.read_pos[r] = q.read_pos[r] + count
        /\ w.tentative_read_pos[r] = q.read_pos[r] + count
        /\ w.reader_offset = q.reader_offset /\ r \in Out!ReaderSet(w)
    BY <1>3, <1>8 DEF SendsFrom
  <2>2. w.read_pos[r] - w.reader_offset[r] = stored + count
    <3> HIDE DEF off, from, end, stored
    <3>1. w.reader_offset[r] = off
      BY <2>1 DEF off
    <3> QED
      BY <1>4, <1>6, <2>1, <3>1
  <2>3. stored + count <= stored + count
    BY <1>1, <1>6
  <2> QED
    BY <1>1, <1>2, <1>11, <1>12, <1>14, <2>1, <2>2, <2>3 DEF Attached, HasReader, IsTunnel
<1>16. GoesOn(l)
  <2>1. v.write_pos[o] \in Nat /\ stored <= v.write_pos[o]
    <3> HIDE DEF stored
    <3> QED
      BY <1>1, <1>6, <1>14
  <2>2. l \notin in_endpoint => o \in DOMAIN p.termination
    BY <1>1 DEF LinkInv
  <2>3. /\ to_in'[l] = <<>> /\ to_out'[l] = <<>> /\ to_in'[l] \in Seq(InMessage(l))
        /\ to_out'[l] \in Seq(OutMessage)
    BY <1>1, <1>2 DEF LinkInv, ToInRight, ToOutRight
  <2> QED
    BY <1>1, <1>2, <1>12, <1>14, <2>1, <2>2, <2>3 DEF GoesOn
<1>17. StaysInTurn(inq'[r], inq[r])
  <2>1. DOMAIN p = InFields
    BY <1>3 DEF InShape
  <2>2. v.writers = p.writers /\ v.turn_pos = p.turn_pos
    BY ONLY <2>1, TurnKept DEF v
  <2>3. p.write_pos[o] <= stored + count
    BY <1>1, <1>6
  <2> HIDE DEF p, o, D, V, stored
  <2>4. StaysInTurn(v, p)
    BY ONLY <1>3, <1>9, <2>2, <2>3, WrittenInTurn
  <2> QED
    BY <1>12, <2>4 DEF p
<1> QED
  BY <1>1, <1>11, <1>12, <1>13, <1>15, <1>16, <1>17, LinkGoesOn, LinkStep

(* A message is put on the channel to the inport, or to the outport.       *)
LEMMA MessageLeaves ==
  ASSUME ChannelInv, NEW l \in Links, NEW m \in InMessage(l), to_in' = Send(to_in, l, <<m>>)
  PROVE  /\ DOMAIN to_in' = Links /\ (\A n \in Links : n # l => to_in'[n] = to_in[n])
         /\ to_in'[l] \in Seq(InMessage(l)) /\ Items(to_in'[l]) = Items(to_in[l]) \cup {m}
         /\ NoBearer(to_in[l], l[1]) /\ ~Bears(m, l[1]) => NoBearer(to_in'[l], l[1])
         /\ \A D, pos : OneBearer(to_in[l], l[1], D, pos) /\ ~Bears(m, l[1]) =>
              OneBearer(to_in'[l], l[1], D, pos)
         /\ \A D, pos : Rests(m.remaining[l[1]], D, pos) =>
              (NoBearer(to_in[l], l[1]) /\ Bears(m, l[1]) => OneBearer(to_in'[l], l[1], D, pos))
<1>1. to_in[l] \in Seq(InMessage(l)) /\ DOMAIN to_in = Links
  BY LinkFacts DEF LinkInv, ToInRight, ChannelInv, Shared
<1>2. to_in'[l] = to_in[l] \o <<m>> /\ DOMAIN to_in' = Links
      /\ \A n \in Links : n # l => to_in'[n] = to_in[n]
  BY <1>1 DEF Send
<1>3. to_in'[l] \in Seq(InMessage(l)) /\ Items(to_in'[l]) = Items(to_in[l]) \cup {m}
  <2> DEFINE X == InMessage(l)
             s == to_in[l]
  <2>1. s \in Seq(X) /\ m \in X
    BY <1>1
  <2> HIDE DEF X, s
  <2>2. s \o <<m>> \in Seq(X) /\ Items(s \o <<m>>) = Items(s) \cup {m}
    BY ONLY <2>1, MessageSent
  <2> QED
    BY <1>2, <2>2 DEF X, s
<1>4. NoBearer(to_in[l], l[1]) /\ ~Bears(m, l[1]) => NoBearer(to_in'[l], l[1])
  BY <1>3 DEF NoBearer
<1>5. ASSUME NEW D, NEW pos, OneBearer(to_in[l], l[1], D, pos), ~Bears(m, l[1])
      PROVE  OneBearer(to_in'[l], l[1], D, pos)
  <2>1. <<m>> \in Seq(InMessage(l)) /\ Items(<<m>>) = {m}
    <3>1. <<m>> \in Seq(InMessage(l)) /\ DOMAIN <<m>> = {1} /\ <<m>>[1] = m
      OBVIOUS
    <3> QED
      BY <3>1 DEF Items
  <2>2. NoBearer(<<m>>, l[1])
    BY <1>5, <2>1 DEF NoBearer
  <2> DEFINE X == InMessage(l)
             s == to_in[l]
             t == <<m>>
             o == l[1]
  <2>3. s \in Seq(X) /\ t \in Seq(X) /\ OneBearer(s, o, D, pos) /\ NoBearer(t, o)
    BY <1>1, <1>5, <2>1, <2>2
  <2> HIDE DEF X, s, t, o
  <2>4. OneBearer(s \o t, o, D, pos)
    BY ONLY <2>3, BearerKept
  <2> QED
    BY <1>2, <2>4 DEF s, t, o
<1>6. ASSUME NEW D, NEW pos, NoBearer(to_in[l], l[1]), Bears(m, l[1]),
             Rests(m.remaining[l[1]], D, pos)
      PROVE  OneBearer(to_in'[l], l[1], D, pos)
  BY <1>1, <1>2, <1>6, BearerSent
<1> QED
  BY <1>2, <1>3, <1>4, <1>5, <1>6

LEMMA ReplyLeaves ==
  ASSUME ChannelInv, NEW l \in Links, NEW m \in OutMessage, to_out' = Send(to_out, l, <<m>>)
  PROVE  /\ DOMAIN to_out' = Links /\ (\A n \in Links : n # l => to_out'[n] = to_out[n])
         /\ to_out'[l] \in Seq(OutMessage) /\ Items(to_out'[l]) = Items(to_out[l]) \cup {m}
<1>1. to_out[l] \in Seq(OutMessage) /\ DOMAIN to_out = Links
  BY LinkFacts DEF LinkInv, ToOutRight, ChannelInv, Shared
<1>2. to_out'[l] = to_out[l] \o <<m>> /\ DOMAIN to_out' = Links
      /\ \A n \in Links : n # l => to_out'[n] = to_out[n]
  BY <1>1 DEF Send
<1> DEFINE s == to_out[l]
<1>3. s \in Seq(OutMessage) /\ m \in OutMessage
  BY <1>1
<1> HIDE DEF s
<1>4. s \o <<m>> \in Seq(OutMessage) /\ Items(s \o <<m>>) = Items(s) \cup {m}
  BY ONLY <1>3, MessageSent
<1> QED
  BY <1>2, <1>4 DEF s

(* What remains at an outport that is detached is all that is not stored.  *)
LEMMA Detached ==
  ASSUME ChannelInv, Faultless, NEW l \in Links, DetachOut(l),
         l \in out_endpoint, l \in conf.exhausted
  PROVE  /\ OnlyOut(l) /\ ~HasReader(l)' /\ out_endpoint' = out_endpoint \ {l}
         /\ RemainingAt(l) \in [{l[1]} -> Seq(Item)]
         /\ Rests(RemainingAt(l)[l[1]], dispatched[l], inq[l[2]].write_pos[l[1]])
<1> DEFINE o == l[1]
           r == l[2]
           q == outq[o]
           D == dispatched[l]
           stored == inq[r].write_pos[o]
           rest == Out!Remaining(q, r)
<1>1. /\ OutRight(o) /\ D \in Seq(Token) /\ Attached(l) /\ stored \in Nat
  BY LinkFacts DEF Attached
<1>2. /\ Sends(q, r, D) /\ OutShape(q) /\ r \in Out!ReaderSet(q)
      /\ q.reader_offset[r] = 0 /\ q.read_pos[r] - q.reader_offset[r] <= stored
  BY <1>1 DEF Attached, OutRight, HasReader, Faultless
<1>3. PICK w \in Out!remove_reader(q, r) : outq' = [outq EXCEPT ![o] = w]
  BY DEF DetachOut
<1>4. /\ OutShape(w) /\ Out!ReaderSet(w) = Out!ReaderSet(q) \ {r} /\ w.kind = q.kind
      /\ \A s : s # r => SameReader(w, q, s)
  BY ONLY <1>2, <1>3, RemovedOut
<1>5. OnlyOut(l) /\ outq'[o] = w
  BY <1>3, <1>4, OutChanged
<1>6. /\ q.read_pos[r] \in 0 .. Len(D)
      /\ Rest(rest, D, q.read_pos[r], Len(D) - q.read_pos[r])
  BY ONLY <1>1, <1>2, RemainingRest
<1>7. Rests(rest, D, stored) /\ rest \in Seq(Item)
  <2> DEFINE a == q.read_pos[r]
             count == Len(D) - a
  <2> HIDE DEF rest, D
  <2>1. a \in Nat /\ count \in Nat /\ a + count <= Len(D) /\ Rest(rest, D, a, count)
        /\ D \in Seq(Token)
    BY <1>1, <1>6, LenProperties
  <2>2. a \in 0 .. stored
    BY <1>1, <1>2, <2>1
  <2> HIDE DEF a, count
  <2>3. rest \in Seq(Item)
    BY ONLY <2>1, RestItems
  <2>4. Rests(rest, D, stored)
    BY <1>6, <2>2 DEF Rests, a
  <2> QED
    BY <2>3, <2>4
<1>8. RemainingAt(l) = [x \in {o} |-> rest]
  BY DEF RemainingAt
<1>9. ~HasReader(l)'
  BY <1>4, <1>5 DEF HasReader
<1> HIDE DEF rest
<1> QED
  BY <1>5, <1>7, <1>8, <1>9 DEF DetachOut

(* The tokens that remain leave with the request or with the reply.        *)
LEMMA HandsOver ==
  ASSUME ChannelInv, Faultless, NEW l \in Links, DetachOut(l), IsTunnel(l),
         l \in out_endpoint, l \in conf.exhausted,
         NEW kind \in {"DISCONNECT", "DISCONNECTED"},
         kind = "DISCONNECTED" => l \notin in_endpoint,
         to_in' = Send(to_in, l, <<[kind |-> kind, remaining |-> RemainingAt(l)]>>),
         UNCHANGED <<conf, inq, in_endpoint, unjoined, serial, dispatched, delivered>>,
         DOMAIN to_out' = Links, \A n \in Links : n # l => to_out'[n] = to_out[n],
         to_out'[l] \in Seq(OutMessage), Items(to_out'[l]) \subseteq Items(to_out[l])
  PROVE  ChannelInv'
<1> DEFINE m == [kind |-> kind, remaining |-> RemainingAt(l)]
           o == l[1]
           D == dispatched[l]
           stored == inq[l[2]].write_pos[o]
<1>1. /\ OnlyOut(l) /\ ~HasReader(l)' /\ out_endpoint' = out_endpoint \ {l}
      /\ RemainingAt(l) \in [{o} -> Seq(Item)]
      /\ Rests(RemainingAt(l)[o], D, stored)
  BY Detached
<1>2. /\ LinkInv(l) /\ Attached(l) /\ Opened(l) /\ stored \in Nat /\ l \notin unjoined
      /\ NoBearer(to_in[l], o)
  BY LinkFacts DEF Attached, Fresh
<1>3. /\ m \in InMessage(l) /\ Bears(m, o) /\ Rests(m.remaining[o], D, stored)
      /\ DOMAIN m.remaining = {o} /\ m.kind = kind
  BY <1>1 DEF InMessage, Bears
<1> HIDE DEF m
<1>4. /\ DOMAIN to_in' = Links /\ (\A n \in Links : n # l => to_in'[n] = to_in[n])
      /\ to_in'[l] \in Seq(InMessage(l)) /\ Items(to_in'[l]) = Items(to_in[l]) \cup {m}
      /\ OneBearer(to_in'[l], o, D, stored)
  BY <1>2, <1>3, MessageLeaves DEF m
<1>5. OnlyEnds(l)
  BY <1>1, <1>4 DEF OnlyEnds, ChannelInv, Shared
<1>6. OnlyIn(l)
  BY InUnchanged
<1>7. HandedOver(l)'
  BY <1>1, <1>2, <1>4 DEF HandedOver, Opened
<1>8. GoesOn(l)
  <2>1. ASSUME NEW n, n = m PROVE ToInFits(l, n)'
    BY <1>3, <2>1 DEF ToInFits
  <2>2. \A n \in Items(to_in'[l]) : n \in Items(to_in[l]) \/ ToInFits(l, n)'
    BY <1>4, <2>1
  <2>3. stored <= stored
    BY <1>2
  <2>4. Opened(l)' /\ (l \notin in_endpoint => o \in DOMAIN inq[l[2]].termination)
    BY <1>2 DEF Opened, LinkInv
  <2> QED
    BY <1>1, <1>2, <1>4, <2>2, <2>3, <2>4 DEF GoesOn
<1> QED
  BY <1>1, <1>2, <1>5, <1>6, <1>7, <1>8, LinkGoesOn, LinkStep

LEMMA ExhaustOutKeeps ==
  ASSUME ChannelInv, Faultless, NEW l \in Links, ExhaustOut(l)
  PROVE  ChannelInv'
<1>1. to_out[l] \in Seq(OutMessage) /\ DOMAIN to_out = Links
  BY LinkFacts DEF LinkInv, ToOutRight, ChannelInv, Shared
<1>2. /\ DetachOut(l) /\ IsTunnel(l) /\ l \in out_endpoint /\ l \in conf.exhausted
      /\ to_in' = Send(to_in, l, <<[kind |-> "DISCONNECT", remaining |-> RemainingAt(l)]>>)
      /\ UNCHANGED <<conf, inq, in_endpoint, unjoined, to_out, serial, dispatched, delivered>>
  BY DEF ExhaustOut
<1> QED
  BY <1>1, <1>2, HandsOver

LEMMA DisconnectionRequestOutKeeps ==
  ASSUME ChannelInv, Faultless, NEW l \in Links, DisconnectionRequestOut(l)
  PROVE  ChannelInv'
<1> DEFINE o == l[1]
           stored == inq[l[2]].write_pos[o]
           m == [kind |-> "DISCONNECTED", remaining |-> Nothing]
<1>1. /\ to_out[l] # <<>> /\ Head(to_out[l]).kind = "DISCONNECT" /\ to_out' = Received(to_out, l)
      /\ UNCHANGED <<conf, inq, in_endpoint, unjoined, serial, dispatched, delivered>>
  BY DEF DisconnectionRequestOut, Arrived
<1>2. /\ l \notin unjoined /\ IsTunnel(l)
      /\ DOMAIN to_out' = Links /\ (\A n \in Links : n # l => to_out'[n] = to_out[n])
      /\ to_out'[l] \in Seq(OutMessage) /\ Items(to_out'[l]) \subseteq Items(to_out[l])
      /\ l \notin in_endpoint /\ l \in conf.exhausted
  BY <1>1, ReplyTaken DEF ToOutFits
<1>3. CASE l \in out_endpoint
  <2>1. /\ DetachOut(l)
        /\ to_in' = Send(to_in, l, <<[kind |-> "DISCONNECTED", remaining |-> RemainingAt(l)]>>)
    BY <1>3 DEF DisconnectionRequestOut
  <2> QED
    BY <1>1, <1>2, <1>3, <2>1, HandsOver
<1>4. CASE l \notin out_endpoint
  <2>1. to_in' = Send(to_in, l, <<m>>) /\ UNCHANGED <<outq, out_endpoint>>
    BY <1>4 DEF DisconnectionRequestOut
  <2>2. m \in InMessage(l) /\ ~Bears(m, o) /\ m.kind = "DISCONNECTED" /\ DOMAIN m.remaining = {}
    BY DEF InMessage, Bears, Nothing
  <2> HIDE DEF m
  <2>3. /\ DOMAIN to_in' = Links /\ (\A n \in Links : n # l => to_in'[n] = to_in[n])
        /\ to_in'[l] \in Seq(InMessage(l)) /\ Items(to_in'[l]) = Items(to_in[l]) \cup {m}
        /\ NoBearer(to_in[l], o) => NoBearer(to_in'[l], o)
        /\ \A D, pos : OneBearer(to_in[l], o, D, pos) => OneBearer(to_in'[l], o, D, pos)
    BY <2>1, <2>2, MessageLeaves
  <2>4. LinkInv(l)
    BY LinkFacts
  <2>5. OnlyEnds(l)
    BY <1>1, <1>2, <2>1, <2>3 DEF OnlyEnds, ChannelInv, Shared
  <2>6. OnlyIn(l) /\ OnlyOut(l)
    BY <1>1, <2>1, InUnchanged, OutUnchanged
  <2>7. (HandedOver(l) \/ Settled(l))'
    BY <1>1, <1>4, <2>1, <2>3, <2>4 DEF LinkInv, Attached, HandedOver, Settled, HasReader, Opened
  <2>8. GoesOn(l)
    <3>1. ASSUME NEW n, n = m PROVE ToInFits(l, n)'
      BY <2>2, <3>1 DEF ToInFits
    <3>2. \A n \in Items(to_in'[l]) : n \in Items(to_in[l]) \/ ToInFits(l, n)'
      BY <2>3, <3>1
    <3>3. (Opened(l)' <=> Opened(l)) /\ (Opened(l) => o \in DOMAIN inq[l[2]].termination)
      BY <1>1, <1>2, <2>4 DEF Opened, LinkInv
    <3> QED
      BY <1>1, <1>2, <1>4, <2>1, <2>3, <3>2, <3>3 DEF GoesOn
  <2> QED
    BY <2>4, <2>5, <2>6, <2>7, <2>8, LinkGoesOn, LinkStep
<1> QED
  BY <1>3, <1>4

LEMMA ExhaustInKeeps ==
  ASSUME ChannelInv, NEW l \in Links, ExhaustIn(l)
  PROVE  ChannelInv' /\ StaysInTurn(inq'[l[2]], inq[l[2]])
<1> DEFINE o == l[1]
           r == l[2]
           D == dispatched[l]
           V == delivered[l]
           q == inq[r]
           p == In!exhaust(q, o)
           m == [kind |-> "DISCONNECT"]
<1>1. /\ l \in in_endpoint /\ l \in conf.exhausted /\ IsTunnel(l)
      /\ in_endpoint' = in_endpoint \ {l} /\ inq' = [inq EXCEPT ![r] = p]
      /\ to_out' = Send(to_out, l, <<m>>)
      /\ UNCHANGED <<conf, outq, out_endpoint, unjoined, to_in, serial, dispatched, delivered>>
  <2>1. DOMAIN inq = Ins /\ r \in Ins
    BY LinkEnds DEF ChannelInv, Shared
  <2> QED
    BY <2>1 DEF ExhaustIn
<1>2. /\ LinkInv(l) /\ Opened(l) /\ InRight(r) /\ l \notin unjoined /\ q.write_pos[o] \in Nat
  BY <1>1, LinkFacts DEF LinkInv, Fresh
<1>3. InShape(q) /\ o \in In!WriterSet(q) /\ IsOpen(q, o, D, V)
  BY <1>2 DEF InRight, Opened, IsOpen
<1>4. /\ InShape(p) /\ In!WriterSet(p) = In!WriterSet(q)
      /\ \A v : v # o => SameWriter(p, q, v)
      /\ o \in DOMAIN p.termination /\ IsOpen(p, o, D, V) /\ p.write_pos[o] = q.write_pos[o]
  <2>1. p = In!exhaust(q, o)
    OBVIOUS
  <2> HIDE DEF p, D, V, q, o
  <2> QED
    BY ONLY <1>3, <2>1, Exhausting
<1>5. p.kind = q.kind
  <2>1. DOMAIN q = InFields
    BY <1>3 DEF InShape
  <2> QED
    BY ONLY <2>1, KindKept
<1> HIDE DEF p
<1>6. OnlyIn(l) /\ inq'[r] = p
  <2>1. \A v : v # o => Keeps(p, q, v) /\ (v \in In!WriterSet(p) => v \in In!WriterSet(q))
    BY <1>4, SameWriterKeeps
  <2> QED
    BY <1>1, <1>4, <1>5, <2>1, InChanged
<1>7. m \in OutMessage /\ m.kind = "DISCONNECT"
  BY DEF OutMessage
<1> HIDE DEF m
<1>8. /\ DOMAIN to_out' = Links /\ (\A n \in Links : n # l => to_out'[n] = to_out[n])
      /\ to_out'[l] \in Seq(OutMessage) /\ Items(to_out'[l]) = Items(to_out[l]) \cup {m}
  BY <1>1, <1>7, ReplyLeaves
<1>9. OnlyEnds(l)
  BY <1>1, <1>8 DEF OnlyEnds, ChannelInv, Shared
<1>10. Opened(l)'
  BY <1>1, <1>4, <1>6 DEF Opened
<1>11. (Attached(l) \/ HandedOver(l) \/ Settled(l))'
  <2>1. Attached(l) \/ HandedOver(l)
    BY <1>2, OpenOrSettled DEF LinkInv, Settled, Opened
  <2>2. CASE Attached(l)
    BY <1>1, <1>4, <1>6, <1>10, <2>2 DEF Attached, HasReader, IsTunnel
  <2>3. CASE HandedOver(l)
    BY <1>1, <1>4, <1>6, <1>10, <2>3 DEF HandedOver, HasReader
  <2> QED
    BY <2>1, <2>2, <2>3
<1>12. GoesOn(l)
  <2>1. ASSUME NEW n, n = m PROVE ToOutFits(l, n)'
    BY <1>1, <1>7, <2>1 DEF ToOutFits
  <2>2. \A n \in Items(to_out'[l]) : n \in Items(to_out[l]) \/ ToOutFits(l, n)'
    BY <1>8, <2>1
  <2>3. to_in'[l] \in Seq(InMessage(l))
    BY <1>1, <1>2 DEF LinkInv, ToInRight
  <2>4. q.write_pos[o] <= p.write_pos[o]
    BY <1>2, <1>4
  <2> QED
    BY <1>1, <1>2, <1>4, <1>6, <1>8, <1>10, <2>2, <2>3, <2>4 DEF GoesOn
<1>13. StaysInTurn(p, q)
  <2>1. DOMAIN q = InFields
    BY <1>3 DEF InShape
  <2> QED
    BY ONLY <2>1, ExhaustedInTurn DEF p
<1> QED
  BY <1>1, <1>2, <1>6, <1>9, <1>11, <1>12, <1>13, OutUnchanged, LinkGoesOn, LinkStep

(* What remains of a writer arrives, when its end is not or no more        *)
(* attached here.                                                          *)
LEMMA RemainingArrives ==
  ASSUME ChannelInv, NEW l \in Links, NEW q, NEW tokens,
         \/ q = inq[l[2]]
         \/ q = In!exhaust(inq[l[2]], l[1]),
         Opened(l), l[1] \in DOMAIN q.termination,
         DOMAIN tokens = {l[1]}, tokens[l[1]] \in Seq(Item),
         Rests(tokens[l[1]], dispatched[l], inq[l[2]].write_pos[l[1]]),
         NEW p, p = In!set_exhausted_tokens(q, tokens), inq' = [inq EXCEPT ![l[2]] = p]
  PROVE  /\ OnlyIn(l) /\ inq'[l[2]] = p /\ IsSettled(p, l[1], dispatched[l], delivered[l])
         /\ TurnGoesOn(l[2])
<1> DEFINE o == l[1]
           r == l[2]
           D == dispatched[l]
           V == delivered[l]
           before == inq[r]
<1>1. D \in Seq(Token) /\ V \in Seq(Token) /\ InRight(r) /\ IsOpen(before, o, D, V)
  BY LinkFacts DEF Opened
<1>2. InShape(before) /\ o \in In!WriterSet(before) /\ DOMAIN before = InFields
  BY <1>1 DEF InRight, IsOpen, InShape
<1>3. /\ InShape(q) /\ In!WriterSet(q) = In!WriterSet(before) /\ q.kind = before.kind
      /\ \A v : v # o => Keeps(q, before, v)
      /\ IsOpen(q, o, D, V) /\ q.write_pos[o] = before.write_pos[o]
  <2>1. CASE q = before
    BY <1>1, <1>2, <2>1, SameKeeps
  <2>2. CASE q = In!exhaust(before, o)
    <3> HIDE DEF before, o, D, V
    <3>1. q.kind = before.kind
      BY ONLY <1>2, <2>2, KindKept
    <3>2. /\ InShape(q) /\ In!WriterSet(q) = In!WriterSet(before)
          /\ \A v : v # o => SameWriter(q, before, v)
          /\ \A E, W : IsOpen(before, o, E, W) =>
               IsOpen(q, o, E, W) /\ q.write_pos[o] = before.write_pos[o]
      BY ONLY <1>2, <2>2, Exhausting
    <3>3. \A v : v # o => Keeps(q, before, v)
      BY ONLY <3>2, SameWriterKeeps
    <3> QED
      BY <1>1, <3>1, <3>2, <3>3
  <2> QED
    BY <2>1, <2>2
<1>4. /\ InShape(p) /\ In!WriterSet(p) \subseteq In!WriterSet(q)
      /\ \A v : v \notin DOMAIN tokens => Keeps(p, q, v)
      /\ o \in DOMAIN tokens =>
           \A E, W \in Seq(Token) :
             IsOpen(q, o, E, W) /\ Rests(tokens[o], E, q.write_pos[o]) => IsSettled(p, o, E, W)
  <2> DEFINE d == DOMAIN tokens
  <2>1. /\ DOMAIN tokens = {} \/ DOMAIN tokens = {o}
        /\ o \in DOMAIN tokens => o \in DOMAIN q.termination /\ tokens[o] \in Seq(Item)
    OBVIOUS
  <2> HIDE DEF o
  <2> QED
    BY ONLY <1>3, <2>1, p = In!set_exhausted_tokens(q, tokens), TokensSet
<1>5. p.kind = before.kind
  <2>1. DOMAIN q = InFields
    BY <1>3 DEF InShape
  <2>2. p.kind = q.kind
    BY ONLY <2>1, p = In!set_exhausted_tokens(q, tokens), KindKept
  <2> QED
    BY <1>3, <2>2
<1>6. \A v : v # o => /\ Keeps(p, before, v)
                      /\ v \in In!WriterSet(p) => v \in In!WriterSet(before)
  BY <1>3, <1>4, KeepsTwice
<1>7. OnlyIn(l) /\ inq'[r] = p
  BY <1>4, <1>5, <1>6, InChanged
<1>8. IsSettled(p, o, D, V)
  BY <1>1, <1>3, <1>4
<1>9. TurnGoesOn(r)
  <2>1. InShape(before) /\ Filling(before)
    BY QueueFilling, LinkEnds DEF ChannelInv, Shared
  <2>2. Remains(before, o, q, tokens)
    BY <1>1, <1>2, <2>1 DEF Remains
  <2>3. /\ p.writers = In!Ascending(In!WriterSet(p))
        /\ before.writers = In!Ascending(In!WriterSet(before))
             /\ In!WriterSet(p) = In!WriterSet(before) => StaysInTurn(p, before)
    <3> HIDE DEF before, o, D, V
    <3> QED
      BY ONLY <2>2, p = In!set_exhausted_tokens(q, tokens), RemainingInTurn
  <2> QED
    BY <1>7, <2>3 DEF TurnGoesOn
<1> QED
  BY <1>7, <1>8, <1>9

LEMMA DisconnectionRequestInKeeps ==
  ASSUME ChannelInv, NEW l \in Links, DisconnectionRequestIn(l)
  PROVE  ChannelInv' /\ TurnGoesOn(l[2])
<1> DEFINE o == l[1]
           r == l[2]
           m == Head(to_in[l])
           q == IF l \in in_endpoint THEN In!exhaust(inq[r], o) ELSE inq[r]
           p == In!set_exhausted_tokens(q, m.remaining)
           reply == [kind |-> "DISCONNECTED"]
<1>1. /\ to_in[l] # <<>> /\ m.kind = "DISCONNECT" /\ to_in' = Received(to_in, l)
      /\ in_endpoint' = in_endpoint \ {l} /\ inq' = [inq EXCEPT ![r] = p]
      /\ to_out' = Send(to_out, l, <<reply>>)
      /\ UNCHANGED <<conf, outq, out_endpoint, unjoined, serial, dispatched, delivered>>
  BY DEF DisconnectionRequestIn, Arrived, ExhaustedTokens
<1>2. /\ l \notin unjoined /\ IsTunnel(l)
      /\ DOMAIN to_in' = Links /\ (\A n \in Links : n # l => to_in'[n] = to_in[n])
      /\ to_in'[l] \in Seq(InMessage(l)) /\ Items(to_in'[l]) \subseteq Items(to_in[l])
      /\ m \in InMessage(l) /\ ToInFits(l, m)
      /\ NoBearer(to_in[l], o) => ~Bears(m, o) /\ NoBearer(to_in'[l], o)
      /\ \A E, pos : OneBearer(to_in[l], o, E, pos) =>
           IF Bears(m, o)
           THEN Rests(m.remaining[o], E, pos) /\ NoBearer(to_in'[l], o)
           ELSE OneBearer(to_in'[l], o, E, pos)
  BY <1>1, MessageArrives
<1>3. DOMAIN m.remaining = {o} /\ m.remaining[o] \in Seq(Item) /\ Bears(m, o)
  BY <1>1, <1>2, MessageKinds DEF ToInFits, Bears
<1>4. /\ LinkInv(l) /\ HandedOver(l) /\ Opened(l) /\ InRight(r)
  BY <1>2, <1>3, LinkFacts DEF LinkInv, Attached, Settled, HandedOver
<1>5. /\ Rests(m.remaining[o], dispatched[l], inq[r].write_pos[o]) /\ NoBearer(to_in'[l], o)
  BY <1>2, <1>3, <1>4 DEF HandedOver
<1>6. o \in DOMAIN q.termination
  <2>1. CASE l \in in_endpoint
    <3>1. InShape(inq[r]) /\ o \in In!WriterSet(inq[r])
      BY <1>4 DEF InRight, Opened, IsOpen
    <3>2. q = In!exhaust(inq[r], o)
      BY <2>1
    <3> HIDE DEF q
    <3> QED
      BY ONLY <3>1, <3>2, Exhausting
  <2>2. CASE l \notin in_endpoint
    BY <1>4, <2>2 DEF LinkInv
  <2> QED
    BY <2>1, <2>2
<1>7. q = inq[r] \/ q = In!exhaust(inq[r], o)
  OBVIOUS
<1>8. p = In!set_exhausted_tokens(q, m.remaining)
  OBVIOUS
<1> DEFINE tokens == m.remaining
<1> HIDE DEF q, p
<1>9. OnlyIn(l) /\ inq'[r] = p /\ IsSettled(p, o, dispatched[l], delivered[l]) /\ TurnGoesOn(r)
  <2>1. /\ ChannelInv /\ l \in Links
        /\ q = inq[l[2]] \/ q = In!exhaust(inq[l[2]], l[1])
        /\ Opened(l) /\ l[1] \in DOMAIN q.termination
        /\ DOMAIN tokens = {l[1]} /\ tokens[l[1]] \in Seq(Item)
        /\ Rests(tokens[l[1]], dispatched[l], inq[l[2]].write_pos[l[1]])
        /\ p = In!set_exhausted_tokens(q, tokens) /\ inq' = [inq EXCEPT ![l[2]] = p]
    BY <1>1, <1>3, <1>4, <1>5, <1>6, <1>7, <1>8
  <2> HIDE DEF tokens
  <2> QED
    BY ONLY <2>1, RemainingArrives
<1> HIDE DEF m, tokens
<1>10. Settled(l)' /\ ~Opened(l)'
  BY <1>1, <1>4, <1>5, <1>9, OpenOrSettled DEF Settled, HandedOver, HasReader, Opened
<1>11. reply \in OutMessage /\ reply.kind = "DISCONNECTED"
  BY DEF OutMessage
<1> HIDE DEF reply
<1>12. /\ DOMAIN to_out' = Links /\ (\A n \in Links : n # l => to_out'[n] = to_out[n])
       /\ to_out'[l] \in Seq(OutMessage) /\ Items(to_out'[l]) = Items(to_out[l]) \cup {reply}
  BY <1>1, <1>11, ReplyLeaves
<1>13. OnlyEnds(l)
  BY <1>1, <1>2, <1>12 DEF OnlyEnds, ChannelInv, Shared
<1>14. GoesOn(l)
  <2>1. ASSUME NEW n, n = reply PROVE ToOutFits(l, n)'
    BY <1>11, <2>1 DEF ToOutFits
  <2>2. \A n \in Items(to_out'[l]) : n \in Items(to_out[l]) \/ ToOutFits(l, n)'
    BY <1>12, <2>1
  <2>3. l \notin in_endpoint' /\ l \notin out_endpoint'
    BY <1>1, <1>4 DEF HandedOver
  <2> QED
    BY <1>1, <1>2, <1>10, <1>12, <2>2, <2>3 DEF GoesOn
<1> QED
  BY <1>1, <1>4, <1>9, <1>10, <1>13, <1>14, OutUnchanged, LinkGoesOn, LinkStep

LEMMA DisconnectedPeerInKeeps ==
  ASSUME ChannelInv, NEW l \in Links, DisconnectedPeerIn(l)
  PROVE  ChannelInv' /\ TurnGoesOn(l[2])
<1> DEFINE o == l[1]
           r == l[2]
           D == dispatched[l]
           V == delivered[l]
           m == Head(to_in[l])
           q == inq[r]
           p == In!set_exhausted_tokens(q, m.remaining)
<1>1. /\ to_in[l] # <<>> /\ m.kind = "DISCONNECTED" /\ to_in' = Received(to_in, l)
      /\ inq' = [inq EXCEPT ![r] = p]
      /\ UNCHANGED <<conf, outq, out_endpoint, in_endpoint, unjoined, to_out, serial,
                     dispatched, delivered>>
  BY DEF DisconnectedPeerIn, Arrived, ExhaustedTokens
<1>2. /\ l \notin unjoined /\ IsTunnel(l)
      /\ DOMAIN to_in' = Links /\ (\A n \in Links : n # l => to_in'[n] = to_in[n])
      /\ to_in'[l] \in Seq(InMessage(l)) /\ Items(to_in'[l]) \subseteq Items(to_in[l])
      /\ m \in InMessage(l) /\ ToInFits(l, m)
      /\ NoBearer(to_in[l], o) => ~Bears(m, o) /\ NoBearer(to_in'[l], o)
      /\ \A E, pos : OneBearer(to_in[l], o, E, pos) =>
           IF Bears(m, o)
           THEN Rests(m.remaining[o], E, pos) /\ NoBearer(to_in'[l], o)
           ELSE OneBearer(to_in'[l], o, E, pos)
  BY <1>1, MessageArrives
<1>3. /\ DOMAIN m.remaining = {} \/ DOMAIN m.remaining = {o}
      /\ o \in DOMAIN m.remaining => m.remaining[o] \in Seq(Item)
      /\ Bears(m, o) <=> o \in DOMAIN m.remaining
  BY <1>1, <1>2, MessageKinds DEF Bears
<1>4. /\ LinkInv(l) /\ InRight(r) /\ D \in Seq(Token) /\ V \in Seq(Token)
      /\ Opened(l) => q.write_pos[o] \in Nat
  BY LinkFacts
<1>5. p = In!set_exhausted_tokens(q, m.remaining)
  OBVIOUS
<1> HIDE DEF p
<1>6. OnlyEnds(l)
  BY <1>1, <1>2 DEF OnlyEnds, ChannelInv, Shared
<1>7. to_out'[l] \in Seq(OutMessage)
  BY <1>1, <1>4 DEF LinkInv, ToOutRight
<1>8. CASE o \in DOMAIN m.remaining
  <2>1. l \notin in_endpoint /\ HandedOver(l) /\ Opened(l)
    BY <1>1, <1>2, <1>3, <1>4, <1>8 DEF ToInFits, LinkInv, Attached, Settled, HandedOver
  <2>2. o \in DOMAIN q.termination
    BY <1>4, <2>1 DEF LinkInv
  <2>3. Rests(m.remaining[o], D, q.write_pos[o]) /\ NoBearer(to_in'[l], o)
    BY <1>2, <1>3, <1>8, <2>1 DEF HandedOver
  <2>4. DOMAIN m.remaining = {o} /\ m.remaining[o] \in Seq(Item)
    BY <1>3, <1>8
  <2> DEFINE tokens == m.remaining
  <2>5. OnlyIn(l) /\ inq'[r] = p /\ IsSettled(p, o, D, V) /\ TurnGoesOn(r)
    <3>1. /\ ChannelInv /\ l \in Links
          /\ q = inq[l[2]] \/ q = In!exhaust(inq[l[2]], l[1])
          /\ Opened(l) /\ l[1] \in DOMAIN q.termination
          /\ DOMAIN tokens = {l[1]} /\ tokens[l[1]] \in Seq(Item)
          /\ Rests(tokens[l[1]], dispatched[l], inq[l[2]].write_pos[l[1]])
          /\ p = In!set_exhausted_tokens(q, tokens) /\ inq' = [inq EXCEPT ![l[2]] = p]
      BY <1>1, <1>5, <2>1, <2>2, <2>3, <2>4
    <3> HIDE DEF tokens, q
    <3> QED
      BY ONLY <3>1, RemainingArrives
  <2> HIDE DEF m, tokens
  <2>6. Settled(l)' /\ ~Opened(l)'
    BY <1>1, <2>1, <2>3, <2>5, OpenOrSettled DEF Settled, HandedOver, HasReader, Opened
  <2>7. GoesOn(l)
    <3>1. l \notin in_endpoint' /\ l \notin out_endpoint'
      BY <1>1, <2>1 DEF HandedOver
    <3> QED
      BY <1>1, <1>2, <1>7, <2>6, <3>1 DEF GoesOn
  <2> QED
    BY <1>1, <1>4, <1>6, <2>5, <2>6, <2>7, OutUnchanged, LinkGoesOn, LinkStep
<1>9. CASE o \notin DOMAIN m.remaining
  <2> DEFINE tokens == m.remaining
  <2>1. DOMAIN tokens = {} /\ ~Bears(m, o) /\ InShape(q) /\ DOMAIN q = InFields
    BY <1>3, <1>4, <1>9 DEF InRight, InShape
  <2>2. p = In!set_exhausted_tokens(q, tokens)
    BY <1>5
  <2> HIDE DEF m, tokens
  <2>3. /\ InShape(p) /\ In!WriterSet(p) \subseteq In!WriterSet(q)
        /\ \A v : v \notin DOMAIN tokens => Keeps(p, q, v)
    <3> HIDE DEF o, q
    <3>1. /\ DOMAIN tokens = {} \/ DOMAIN tokens = {o}
          /\ o \in DOMAIN tokens => o \in DOMAIN q.termination /\ tokens[o] \in Seq(Item)
      BY <2>1
    <3> QED
      BY ONLY <2>1, <2>2, <3>1, TokensSet
  <2>4. p.kind = q.kind
    BY ONLY <2>1, <2>2, KindKept
  <2>5. OnlyIn(l) /\ inq'[r] = p
    BY <1>1, <2>1, <2>3, <2>4, InChanged
  <2>6. Keeps(p, q, o)
    BY <2>1, <2>3
  <2>7. Opened(l) => /\ Opened(l)' /\ p.write_pos[o] = q.write_pos[o]
                     /\ o \in DOMAIN p.termination <=> o \in DOMAIN q.termination
    <3> SUFFICES ASSUME Opened(l)
                 PROVE  /\ Opened(l)' /\ p.write_pos[o] = q.write_pos[o]
                        /\ o \in DOMAIN p.termination <=> o \in DOMAIN q.termination
      OBVIOUS
    <3>1. IsOpen(q, o, D, V)
      BY DEF Opened
    <3>2. /\ IsOpen(p, o, D, V) /\ p.write_pos[o] = q.write_pos[o]
          /\ o \in DOMAIN p.termination <=> o \in DOMAIN q.termination
      BY <1>4, <2>6, <3>1, KeepsOpen
    <3> QED
      BY <1>1, <2>5, <3>2 DEF Opened
  <2>8. Settled(l) => Settled(l)' /\ ~Opened(l)'
    <3> SUFFICES ASSUME Settled(l) PROVE Settled(l)' /\ ~Opened(l)'
      OBVIOUS
    <3>1. IsSettled(p, o, D, V)
      BY <1>4, <2>6, KeepsSettled DEF Settled
    <3> QED
      BY <1>1, <1>2, <2>5, <3>1, OpenOrSettled DEF Settled, HasReader, Opened
  <2>9. (Attached(l) \/ HandedOver(l) \/ Settled(l))'
    <3>1. CASE Attached(l)
      BY <1>1, <1>2, <2>5, <2>7, <3>1 DEF Attached, HasReader, IsTunnel
    <3>2. CASE HandedOver(l)
      BY <1>1, <1>2, <2>1, <2>5, <2>7, <3>2 DEF HandedOver, HasReader
    <3> QED
      BY <1>4, <2>8, <3>1, <3>2 DEF LinkInv
  <2>10. GoesOn(l)
    <3>1. Opened(l) \/ Settled(l)
      BY <1>4 DEF LinkInv, Attached, HandedOver
    <3>2. Opened(l) => q.write_pos[o] <= p.write_pos[o] /\ p.write_pos[o] \in Nat
      BY <1>4, <2>7
    <3>3. l \in in_endpoint \cup out_endpoint => Opened(l)
      BY <1>4, LinkFacts DEF LinkInv, Attached
    <3>4. Opened(l) /\ l \notin in_endpoint => o \in DOMAIN q.termination
      BY <1>4 DEF LinkInv
    <3> QED
      BY <1>1, <1>2, <1>4, <1>7, <2>5, <2>7, <2>8, <3>1, <3>2, <3>3, <3>4 DEF GoesOn
  <2>11. TurnGoesOn(r)
    <3>1. InShape(q) /\ Filling(q)
      BY QueueFilling, LinkEnds DEF ChannelInv, Shared
    <3>2. Remains(q, o, q, tokens)
      BY <2>1, <3>1 DEF Remains
    <3>3. /\ p.writers = In!Ascending(In!WriterSet(p))
          /\ q.writers = In!Ascending(In!WriterSet(q))
               /\ In!WriterSet(p) = In!WriterSet(q) => StaysInTurn(p, q)
      <4> HIDE DEF q, o, D, V
      <4> QED
        BY ONLY <2>2, <3>2, RemainingInTurn
    <3> QED
      BY <2>5, <3>3 DEF TurnGoesOn
  <2> QED
    BY <1>1, <1>4, <1>6, <2>5, <2>9, <2>10, <2>11, OutUnchanged, LinkGoesOn, LinkStep
<1> QED
  BY <1>8, <1>9

LEMMA ExhaustLocalKeeps ==
  ASSUME ChannelInv, Faultless, NEW l \in Links, ExhaustLocal(l)
  PROVE  ChannelInv' /\ TurnGoesOn(l[2])
<1> DEFINE o == l[1]
           r == l[2]
           D == dispatched[l]
           stored == inq[r].write_pos[o]
           q == In!exhaust(inq[r], o)
           tokens == RemainingAt(l)
           p == In!set_exhausted_tokens(q, tokens)
<1>1. /\ l \in out_endpoint /\ l \in conf.exhausted /\ ~IsTunnel(l) /\ DetachOut(l)
      /\ in_endpoint' = in_endpoint \ {l} /\ inq' = [inq EXCEPT ![r] = p]
      /\ UNCHANGED <<conf, unjoined, to_in, to_out, serial, dispatched, delivered>>
  BY DEF ExhaustLocal, ExhaustedTokens, air
<1>2. /\ OnlyOut(l) /\ ~HasReader(l)' /\ out_endpoint' = out_endpoint \ {l}
      /\ tokens \in [{o} -> Seq(Item)]
      /\ Rests(tokens[o], D, stored)
  BY <1>1, Detached
<1>3. /\ LinkInv(l) /\ Opened(l) /\ NoBearer(to_in[l], o) /\ InRight(r) /\ l \notin unjoined
  BY <1>1, LinkFacts DEF Attached, Fresh
<1>4. InShape(inq[r]) /\ o \in In!WriterSet(inq[r])
  BY <1>3 DEF InRight, Opened, IsOpen
<1>5. o \in DOMAIN q.termination
  BY ONLY <1>4, Exhausting
<1> HIDE DEF tokens
<1>6. OnlyIn(l) /\ inq'[r] = p /\ IsSettled(p, o, D, delivered[l]) /\ TurnGoesOn(r)
  <2>1. /\ ChannelInv /\ l \in Links
        /\ q = inq[l[2]] \/ q = In!exhaust(inq[l[2]], l[1])
        /\ Opened(l) /\ l[1] \in DOMAIN q.termination
        /\ DOMAIN tokens = {l[1]} /\ tokens[l[1]] \in Seq(Item)
        /\ Rests(tokens[l[1]], dispatched[l], inq[l[2]].write_pos[l[1]])
        /\ p = In!set_exhausted_tokens(q, tokens) /\ inq' = [inq EXCEPT ![l[2]] = p]
    BY <1>1, <1>2, <1>3, <1>5
  <2> HIDE DEF q, p
  <2> QED
    BY ONLY <2>1, RemainingArrives
<1> HIDE DEF q, p
<1>7. Settled(l)' /\ ~Opened(l)'
  BY <1>1, <1>2, <1>3, <1>6, OpenOrSettled DEF Settled, Opened
<1>8. OnlyEnds(l)
  BY <1>1, <1>2 DEF OnlyEnds, ChannelInv, Shared
<1>9. GoesOn(l)
  <2>1. /\ to_in'[l] = <<>> /\ to_out'[l] = <<>> /\ to_in'[l] \in Seq(InMessage(l))
        /\ to_out'[l] \in Seq(OutMessage)
    BY <1>1, <1>3 DEF LinkInv, ToInRight, ToOutRight
  <2> QED
    BY <1>1, <1>2, <1>3, <1>7, <2>1 DEF GoesOn
<1> QED
  BY <1>2, <1>3, <1>6, <1>7, <1>8, <1>9, LinkGoesOn, LinkStep

LEMMA JoinKeeps ==
  ASSUME ChannelInv, NEW l \in Links, Join(l)
  PROVE  ChannelInv' /\ TurnGoesOn(l[2])
<1> DEFINE o == l[1]
           r == l[2]
           q == outq[o]
           w == Out!add_reader(q, r)
           held == Out!Remaining(w, r)
           D == [k \in DOMAIN held |-> held[k].token]
           p == In!add_writer(inq[r], o)
           T == IF conf.exceptions THEN Token ELSE {t \in Token : t > 0}
<1>1. /\ l \in unjoined /\ unjoined' = unjoined \ {l}
      /\ out_endpoint' = out_endpoint \cup {l} /\ in_endpoint' = in_endpoint \cup {l}
      /\ outq' = [outq EXCEPT ![o] = w] /\ dispatched' = [dispatched EXCEPT ![l] = D]
      /\ inq' = [inq EXCEPT ![r] = p]
      /\ UNCHANGED <<conf, to_in, to_out, serial, delivered>>
  <2>1. DOMAIN inq = Ins /\ r \in Ins
    BY LinkEnds DEF ChannelInv, Shared
  <2> QED
    BY <2>1 DEF Join, air
<1>2. PICK m \in out_endpoint : m[1] = o
  BY DEF Join
<1>3. Fresh(l) /\ LinkInv(l) /\ OutRight(o) /\ InRight(r) /\ r \in Nat /\ o \in Nat
  BY <1>1, LinkFacts, LinkEnds DEF ChannelInv, Shared
<1>4. /\ OutShape(q) /\ r \notin Out!ReaderSet(q) /\ InShape(inq[r])
      /\ IsGone(inq[r], o, <<>>, <<>>) /\ delivered[l] = <<>>
  BY <1>3 DEF Fresh, OutRight, InRight, HasReader
<1>5. Out!ReaderSet(q) # {}
  <2>1. m \in Links
    BY DEF ChannelInv, Shared
  <2>2. Attached(m)
    BY <2>1, LinkFacts
  <2> QED
    BY <1>2, <2>2 DEF Attached, HasReader
<1>6. ASSUME NEW s \in Out!ReaderSet(q) PROVE \E E \in Seq(T) : Sends(q, s, E)
  <2> DEFINE n == <<o, s>>
             E == dispatched[n]
  <2>1. n \in Links /\ n[1] = o /\ n[2] = s
    BY <1>3, <1>6 DEF OutRight
  <2>2. E \in Seq(Token) /\ LinkInv(n) /\ HasReader(n)
    BY <1>6, <2>1, LinkFacts DEF HasReader
  <2>3. Sends(q, s, E)
    BY <2>1, <2>2 DEF LinkInv, Attached, HandedOver, Settled
  <2>4. ~conf.exceptions => Plain(E)
    BY <2>2 DEF LinkInv
  <2> HIDE DEF E, n
  <2>5. E \in Seq(T)
    <3>1. Len(E) \in Nat /\ E \in [1 .. Len(E) -> Token]
      BY <2>2, LenProperties
    <3>2. E \in [1 .. Len(E) -> T]
      <4>1. DOMAIN E = 1 .. Len(E) /\ E = [k \in 1 .. Len(E) |-> E[k]]
        BY <3>1
      <4>2. \A k \in 1 .. Len(E) : E[k] \in T
        BY <2>4, <3>1 DEF Plain
      <4> HIDE DEF T
      <4> QED
        BY <4>1, <4>2
    <3> HIDE DEF T
    <3> QED
      BY ONLY <3>1, <3>2, IsList
  <2> QED
    BY <2>3, <2>5
<1>7. T \in SUBSET Token
  OBVIOUS
<1>8. /\ OutShape(w) /\ Out!ReaderSet(w) = Out!ReaderSet(q) \cup {r} /\ w.kind = q.kind
      /\ \A s : s # r => SameReader(w, q, s)
      /\ D \in Seq(T) /\ D \in Seq(Token) /\ Sends(w, r, D)
      /\ w.read_pos[r] = w.reader_offset[r] /\ w.tentative_read_pos[r] = w.read_pos[r]
      /\ w.kind # "fanout" => w.reader_offset[r] = 0
  <2>1. w = Out!add_reader(q, r)
    OBVIOUS
  <2> HIDE DEF T, w, q, r
  <2> QED
    BY ONLY <1>3, <1>4, <1>5, <1>6, <1>7, <2>1, AddedOut
<1>9. ~conf.exceptions => Plain(D)
  <2> HIDE DEF D
  <2> QED
    BY <1>8, ElementOfSeq DEF Plain
<1> HIDE DEF T, D, w, held
<1>10. /\ InShape(p) /\ In!WriterSet(p) = In!WriterSet(inq[r]) \cup {o}
       /\ \A v : v # o => SameWriter(p, inq[r], v)
       /\ IsOpen(p, o, D, <<>>) /\ p.write_pos[o] = 0
       /\ p.writers = In!Ascending(In!WriterSet(p))
  <2>1. p = In!add_writer(inq[r], o)
    OBVIOUS
  <2> HIDE DEF p, o, r
  <2> QED
    BY ONLY <1>3, <1>4, <1>8, <2>1, Adding
<1>11. p.kind = inq[r].kind
  <2>1. DOMAIN inq[r] = InFields
    BY <1>4 DEF InShape
  <2> QED
    BY ONLY <2>1, KindKept
<1> HIDE DEF p
<1>12. OnlyIn(l) /\ inq'[r] = p
  <2>1. \A v : v # o => Keeps(p, inq[r], v) /\ (v \in In!WriterSet(p) => v \in In!WriterSet(inq[r]))
    BY <1>10, SameWriterKeeps
  <2> QED
    BY <1>1, <1>10, <1>11, <2>1, InChanged
<1>13. OnlyOut(l) /\ outq'[o] = w
  BY <1>1, <1>8, OutChanged
<1>14. /\ dispatched' \in [Links -> Seq(Token)] /\ dispatched'[l] = D
       /\ \A n \in Links : n # l => dispatched'[n] = dispatched[n]
  <2>1. dispatched \in [Links -> Seq(Token)]
    BY DEF ChannelInv, Shared
  <2> QED
    BY <1>1, <1>8, <2>1
<1>15. OnlyEnds(l)
  BY <1>1, <1>14 DEF OnlyEnds, ChannelInv, Shared
<1>16. Opened(l)'
  BY <1>1, <1>4, <1>10, <1>12, <1>14 DEF Opened
<1>17. to_in'[l] = <<>> /\ to_out'[l] = <<>> /\ Items(<<>>) = {}
  BY <1>1, <1>3 DEF Fresh, Items
<1>18. Attached(l)'
  <2>1. w.reader_offset[r] \in Nat
    BY <1>8 DEF Sends
  <2>2. w.read_pos[r] - w.reader_offset[r] = 0
    BY <1>8, <2>1
  <2>3. NoBearer(to_in'[l], o)
    BY <1>17 DEF NoBearer
  <2>4. HasReader(l)'
    BY <1>8, <1>13 DEF HasReader
  <2>5. w.reader_offset[r] # 0 => l \in conf.late /\ conf.out = "fanout"
    BY <1>3, <1>8 DEF Fresh, OutRight
  <2> QED
    BY <1>1, <1>8, <1>10, <1>12, <1>13, <1>14, <1>16, <2>2, <2>3, <2>4, <2>5 DEF Attached
<1>19. LinkInv(l)'
  <2>1. ToInRight(l)' /\ ToOutRight(l)'
    BY <1>17, EmptySeq DEF ToInRight, ToOutRight
  <2> QED
    BY <1>1, <1>9, <1>14, <1>16, <1>17, <1>18, <2>1 DEF LinkInv
<1>20. TurnGoesOn(r)
  <2>1. In!WriterSet(p) # In!WriterSet(inq[r])
    BY <1>4, <1>10 DEF IsGone
  <2> QED
    BY <1>10, <1>12, <2>1 DEF TurnGoesOn
<1> QED
  BY <1>12, <1>13, <1>15, <1>19, <1>20, LinkStep

LEMMA Appended ==
  ASSUME NEW D \in Seq(Token), NEW token \in Token, NEW E, E = Append(D, token)
  PROVE  /\ E \in Seq(Token) /\ Len(D) \in Nat /\ Len(E) = Len(D) + 1
         /\ \A k \in 1 .. Len(D) : E[k] = D[k]
         /\ E[Len(D) + 1] = token
BY AppendProperties, LenProperties

LEMMA StoresMore ==
  ASSUME NEW q, NEW w, NEW D \in Seq(Token), NEW V \in Seq(Token), NEW token \in Token,
         Stores(q, w, D, V)
  PROVE  Stores(q, w, Append(D, token), V)
<1> DEFINE E == Append(D, token)
           stored == q.write_pos[w]
           n == Len(V)
<1>1. /\ Len(D) \in Nat /\ Len(E) = Len(D) + 1 /\ n \in Nat
      /\ \A k \in 1 .. Len(D) : E[k] = D[k]
  BY Appended, LenProperties
<1>2. /\ q.read_pos[w] = n /\ stored \in Nat /\ n <= stored /\ stored <= Len(D)
      /\ stored - n <= InN - 1
      /\ \A k \in 1 .. n : V[k] = D[k]
      /\ IsInRing(q.fifo[w])
      /\ \A k \in n .. stored - 1 : q.fifo[w][k % InN] = D[k + 1]
  BY DEF Stores, Holds
<1> HIDE DEF E, stored, n
<1>3. \A k \in 1 .. n : k \in 1 .. Len(D)
  BY <1>1, <1>2
<1>4. \A k \in n .. stored - 1 : k + 1 \in 1 .. Len(D)
  BY <1>1, <1>2
<1>5. stored <= Len(E)
  BY <1>1, <1>2
<1>6. (\A k \in 1 .. n : V[k] = E[k]) /\ (\A k \in n .. stored - 1 : q.fifo[w][k % InN] = E[k + 1])
  BY <1>1, <1>2, <1>3, <1>4
<1> QED
  BY <1>2, <1>5, <1>6 DEF Stores, Holds, E, stored, n

LEMMA TokenIsStill ==
  ASSUME NEW D \in Seq(Token), NEW token \in Token, NEW item, item.seq \in Nat,
         NEW pos, NEW open, TokenIs(item, D, pos, open)
  PROVE  TokenIs(item, Append(D, token), pos, open)
<1> DEFINE E == Append(D, token)
           n == item.seq
<1>1. /\ Len(D) \in Nat /\ Len(E) = Len(D) + 1
      /\ \A k \in 1 .. Len(D) : E[k] = D[k]
  BY Appended
<1>2. n \in Nat /\ n < Len(D) /\ (open /\ pos <= n => item.token = D[n + 1])
  BY DEF TokenIs
<1> HIDE DEF E, n
<1>3. n + 1 \in 1 .. Len(D) /\ n < Len(E)
  BY <1>1, <1>2
<1> QED
  BY <1>1, <1>2, <1>3 DEF TokenIs, E, n

(* A token is dispatched to a link.                                        *)
LEMMA LinkProduces ==
  ASSUME ChannelInv, NEW l \in Links, HasReader(l), NEW token \in Token,
         ~conf.exceptions => token > 0,
         UNCHANGED <<conf, inq, ends, air, delivered>>,
         dispatched'[l] = Append(dispatched[l], token),
         LET q == outq[l[1]]
             w == outq'[l[1]]
         IN  /\ Out!ReaderSet(w) = Out!ReaderSet(q) /\ w.read_pos = q.read_pos
             /\ w.reader_offset = q.reader_offset
             /\ w.tentative_read_pos = q.tentative_read_pos
             /\ Sends(w, l[2], Append(dispatched[l], token))
  PROVE  LinkInv(l)'
<1> DEFINE o == l[1]
           r == l[2]
           D == dispatched[l]
           E == Append(D, token)
           V == delivered[l]
<1>1. /\ LinkInv(l) /\ D \in Seq(Token) /\ V \in Seq(Token)
      /\ Attached(l) /\ Opened(l) /\ l \notin unjoined
  BY LinkFacts DEF LinkInv, Attached, HandedOver, Settled, Fresh
<1>2. /\ E \in Seq(Token) /\ Len(D) \in Nat /\ Len(E) = Len(D) + 1
      /\ (\A k \in 1 .. Len(D) : E[k] = D[k]) /\ E[Len(D) + 1] = token
  BY <1>1, Appended
<1>3. dispatched'[l] = E /\ inq' = inq /\ conf' = conf /\ delivered' = delivered
      /\ UNCHANGED <<out_endpoint, in_endpoint, unjoined, to_in, to_out>>
  BY DEF ends, air
<1> HIDE DEF E
<1>4. IsOpen(inq[r], o, E, V)
  BY <1>1, StoresMore DEF Opened, IsOpen, E
<1>5. Opened(l)'
  BY <1>3, <1>4 DEF Opened
<1>6. Attached(l)'
  BY <1>1, <1>3, <1>5 DEF Attached, HasReader, E, IsTunnel
<1>7. ToInRight(l)'
  <2>1. to_in[l] \in Seq(InMessage(l)) /\ \A m \in Items(to_in[l]) : ToInFits(l, m)
    BY <1>1 DEF LinkInv, ToInRight
  <2>2. ASSUME NEW m \in Items(to_in[l]) PROVE ToInFits(l, m)'
    <3>1. m \in InMessage(l) /\ ToInFits(l, m)
      BY <2>1, ElementOfSeq, LenProperties DEF Items
    <3>2. m.kind = "TOKEN" => m.item.seq \in Nat
      BY <3>1, MessageKinds
    <3>3. m.kind = "TOKEN" => TokenIs(m.item, E, inq[r].write_pos[o], l \in in_endpoint)
      BY <1>1, <3>1, <3>2, TokenIsStill DEF ToInFits, E
    <3> QED
      BY <1>3, <3>1, <3>3 DEF ToInFits
  <2> QED
    BY <1>3, <2>1, <2>2 DEF ToInRight, InMessage
<1>8. ToOutRight(l)'
  BY <1>1, <1>3 DEF LinkInv, ToOutRight, ToOutFits
<1>9. (~conf.exceptions => Plain(dispatched[l]))'
  <2> SUFFICES ASSUME ~conf.exceptions PROVE Plain(E)
    BY <1>3
  <2>1. Plain(D) /\ token > 0
    BY <1>1 DEF LinkInv
  <2>2. \A k \in 1 .. Len(E) : k \in 1 .. Len(D) \/ k = Len(D) + 1
    BY <1>2
  <2> QED
    BY <1>2, <2>1, <2>2 DEF Plain
<1> QED
  BY <1>1, <1>3, <1>5, <1>6, <1>7, <1>8, <1>9 DEF LinkInv, IsTunnel

LEMMA ProduceKeeps ==
  ASSUME ChannelInv, NEW o \in Outs, Produce(o)
  PROVE  ChannelInv'
<1> DEFINE q == outq[o]
<1>1. /\ serial < MaxTokens /\ Out!slots_available(q) /\ serial' = serial + 1
      /\ UNCHANGED <<conf, inq, ends, air, told, delivered>>
  BY DEF Produce
<1>2. PICK token \in {serial'} \cup (IF conf.exceptions THEN {-serial'} ELSE {}),
           to \in Out!Destinations(q, ReadersOf(Links, o)) :
        IF Out!TurnRaises(q) \/ ~(to \subseteq Out!ReaderSet(q))
        THEN UNCHANGED <<outq, dispatched, turns>>
        ELSE /\ \E w \in Out!write(q, to, token) : outq' = [outq EXCEPT ![o] = w]
             /\ dispatched' = [l \in Links |-> IF l[1] = o /\ l[2] \in to
                                               THEN Append(dispatched[l], token)
                                               ELSE dispatched[l]]
  BY DEF Produce
<1>3. Shared /\ serial \in Nat /\ serial <= MaxTokens /\ MaxTokens \in Nat
  BY BoundAssumption DEF ChannelInv, Shared
<1>4. token \in Token /\ (~conf.exceptions => token > 0) /\ serial' \in 0 .. MaxTokens
  <2>1. serial' \in 1 .. MaxTokens
    BY <1>1, <1>3
  <2>2. token = serial' \/ (conf.exceptions /\ token = -serial')
    BY <1>2
  <2> DEFINE n == serial'
  <2>3. n \in Int /\ 1 <= n /\ n <= MaxTokens
    BY <1>3, <2>1
  <2>6. token = n \/ (conf.exceptions /\ token = -n)
    BY <2>2
  <2> HIDE DEF n
  <2>4. CASE token = n
    BY <1>3, <2>3, <2>4 DEF Token, n
  <2>5. CASE conf.exceptions /\ token = -n
    <3>1. token \in -MaxTokens .. MaxTokens /\ token # 0
      BY ONLY <1>3, <2>3, <2>5
    <3>2. token \in Token
      BY ONLY <3>1 DEF Token
    <3>3. serial' \in 0 .. MaxTokens
      BY <1>3, <2>3 DEF n
    <3>4. ~conf.exceptions => token > 0
      BY ONLY <2>5
    <3> QED
      BY <3>2, <3>3, <3>4
  <2> QED
    BY <2>4, <2>5, <2>6
<1>5. Links' = Links /\ Outs' = Outs /\ Ins' = Ins /\ conf' = conf
  BY <1>1 DEF Links, Outs, Ins
<1>6. \A i \in Ins : InRight(i)'
  BY <1>1, <1>5 DEF ChannelInv, InRight
<1>7. \A m \in Links : LinkInv(m) /\ dispatched[m] \in Seq(Token) /\ delivered[m] \in Seq(Token)
                       /\ m[1] \in Outs /\ m[2] \in Ins /\ m = <<m[1], m[2]>>
  BY LinkFacts, LinkEnds DEF ChannelInv, Shared
<1>8. CASE Out!TurnRaises(q) \/ ~(to \subseteq Out!ReaderSet(q))
  <2>1. UNCHANGED <<outq, dispatched>>
    BY <1>2, <1>8
  <2>2. ASSUME NEW m \in Links PROVE LinkInv(m)'
    <3>1. Aside(m)
      BY <1>1, <2>1, SameKeeps DEF Aside, SameReader, ends, air
    <3> QED
      BY <1>7, <3>1, LinkKept
  <2>3. \A p \in Outs : OutRight(p)'
    BY <1>5, <2>1 DEF ChannelInv, OutRight
  <2>4. Shared'
    BY <1>1, <1>3, <1>4, <1>5, <2>1 DEF Shared, ends, air
  <2> QED
    BY <1>5, <1>6, <2>2, <2>3, <2>4 DEF ChannelInv
<1>9. CASE ~(Out!TurnRaises(q) \/ ~(to \subseteq Out!ReaderSet(q)))
  <2>1. /\ to \subseteq Out!ReaderSet(q)
        /\ dispatched' = [l \in Links |-> IF l[1] = o /\ l[2] \in to
                                          THEN Append(dispatched[l], token)
                                          ELSE dispatched[l]]
    BY <1>2, <1>9
  <2>2. PICK w \in Out!write(q, to, token) : outq' = [outq EXCEPT ![o] = w]
    BY <1>2, <1>9
  <2>3. OutRight(o) /\ OutShape(q) /\ q.kind = conf.out /\ q.kind \in Out!OutKinds
    BY <1>3, ScenarioAssumption DEF ChannelInv, OutRight, Shared, Out!OutKinds, Out!TurnKinds
  <2>4. ASSUME NEW r \in Out!ReaderSet(q)
        PROVE  /\ <<o, r>> \in Links /\ HasReader(<<o, r>>)
               /\ Sends(q, r, dispatched[<<o, r>>]) /\ Out!Free(q, r) \in Nat
    <3>1. <<o, r>> \in Links /\ <<o, r>>[1] = o /\ <<o, r>>[2] = r
      BY <2>3, <2>4 DEF OutRight
    <3>2. HasReader(<<o, r>>)
      BY <2>4, <3>1 DEF HasReader
    <3>3. Attached(<<o, r>>)
      BY <1>7, <3>1, <3>2 DEF LinkInv, HandedOver, Settled
    <3>4. Sends(q, r, dispatched[<<o, r>>])
      BY <3>1, <3>3 DEF Attached
    <3> DEFINE a == q.read_pos[r]
               b == q.write_pos[r]
    <3>5. b \in Nat /\ a \in Int /\ a <= b /\ b - a <= OutN - 1
      BY <3>4 DEF Sends
    <3> HIDE DEF a, b
    <3>6. Out!Free(q, r) = OutN - 1 - (b - a)
      BY DEF Out!Free, Out!Room, a, b
    <3>7. Out!Free(q, r) \in Nat
      BY <3>5, <3>6, LengthAssumption
    <3> QED
      BY <3>1, <3>2, <3>4, <3>7
  <2>5. /\ OutShape(w) /\ Out!ReaderSet(w) = Out!ReaderSet(q) /\ w.kind = q.kind
        /\ w.read_pos = q.read_pos /\ w.reader_offset = q.reader_offset
        /\ w.tentative_read_pos = q.tentative_read_pos
        /\ \A r : r \notin to => SameReader(w, q, r)
        /\ \A r \in to : \A D \in Seq(Token) :
             Sends(q, r, D) /\ Out!Free(q, r) > 0 => Sends(w, r, Append(D, token))
    <3> HIDE DEF q
    <3> QED
      BY ONLY <1>4, <2>1, <2>2, <2>3, WrittenOut
  <2>6. ASSUME NEW r \in to PROVE Out!Free(q, r) > 0
    <3>1. HasReaders(q) /\ \A s \in Out!ReaderSet(q) : Out!Free(q, s) \in Nat
      BY <2>3, <2>4 DEF OutShape
    <3>2. to \in Out!Destinations(q, ReadersOf(Links, o)) /\ r \in to
      BY <2>6
    <3> HIDE DEF q
    <3> QED
      BY ONLY <1>1, <2>1, <2>3, <3>1, <3>2, SlotFree
  <2>7. /\ outq'[o] = w /\ DOMAIN outq' = Outs
        /\ \A p \in Outs : p # o => outq'[p] = outq[p]
    BY <1>3, <2>2 DEF Shared
  <2>8. ASSUME NEW m \in Links PROVE LinkInv(m)'
    <3>1. CASE m[1] = o /\ m[2] \in to
      <4>1. HasReader(m)
        BY <2>1, <3>1 DEF HasReader
      <4>2. dispatched'[m] = Append(dispatched[m], token)
        BY <2>1, <3>1
      <4>3. Sends(w, m[2], Append(dispatched[m], token))
        <5>1. m[2] \in Out!ReaderSet(q) /\ <<o, m[2]>> = m
          BY <1>7, <2>1, <3>1
        <5>2. Sends(q, m[2], dispatched[m]) /\ Out!Free(q, m[2]) > 0
          BY <2>4, <2>6, <3>1, <5>1
        <5> QED
          BY <1>7, <2>5, <3>1, <5>2
      <4> QED
        BY <1>1, <1>4, <2>5, <2>7, <3>1, <4>1, <4>2, <4>3, LinkProduces
    <3>2. CASE ~(m[1] = o /\ m[2] \in to)
      <4>1. dispatched'[m] = dispatched[m]
        BY <2>1, <3>2
      <4>2. SameReader(outq'[m[1]], outq[m[1]], m[2])
        <5>1. CASE m[1] # o
          BY <1>7, <2>7, <5>1 DEF SameReader
        <5>2. CASE m[1] = o
          BY <2>5, <2>7, <3>2, <5>2
        <5> QED
          BY <5>1, <5>2
      <4>3. Aside(m)
        BY <1>1, <4>1, <4>2, SameKeeps DEF Aside, ends, air
      <4> QED
        BY <1>7, <4>3, LinkKept
    <3> QED
      BY <3>1, <3>2
  <2>9. ASSUME NEW p \in Outs PROVE OutRight(p)'
    <3>1. OutRight(p)
      BY DEF ChannelInv
    <3> QED
      BY <1>5, <2>3, <2>5, <2>7, <3>1 DEF OutRight
  <2>10. dispatched' \in [Links -> Seq(Token)]
    <3>1. ASSUME NEW m \in Links
          PROVE  Append(dispatched[m], token) \in Seq(Token) /\ dispatched[m] \in Seq(Token)
      BY <1>4, <1>7, Appended
    <3> QED
      BY <2>1, <3>1
  <2>11. Shared'
    BY <1>1, <1>3, <1>4, <1>5, <2>7, <2>10 DEF Shared, ends, air
  <2> QED
    BY <1>5, <1>6, <2>8, <2>9, <2>11 DEF ChannelInv
<1> QED
  BY <1>8, <1>9

(* A plain link never has an exception to be taken.                        *)
LEMMA NoneExcepts ==
  ASSUME ChannelInv, ~conf.exceptions, NEW i \in Ins
  PROVE  In!Excepting(inq[i]) = {}
<1> DEFINE q == inq[i]
<1>1. InRight(i)
  BY DEF ChannelInv
<1> SUFFICES ASSUME NEW k \in DOMAIN q.writers, In!Waiting(q, q.writers[k])
             PROVE  ~In!IsException(In!TokenOf(q, q.writers[k]))
  BY DEF In!Excepting
<1> DEFINE w == q.writers[k]
           l == <<w, i>>
           D == dispatched[l]
           V == delivered[l]
           n == Len(V)
<1>2. w \in In!WriterSet(q) /\ l \in Links /\ l[1] = w /\ l[2] = i
  BY <1>1 DEF InRight, In!WriterSet
<1>3. LinkInv(l) /\ V \in Seq(Token) /\ D \in Seq(Token)
  BY <1>2, LinkFacts
<1>4. Stores(q, w, D, V) /\ Plain(D)
  BY <1>2, <1>3 DEF LinkInv, Attached, HandedOver, Settled, Opened, IsOpen, IsSettled,
                    IsClosing, IsGone
<1>5. /\ q.read_pos[w] = n /\ n \in Nat /\ q.write_pos[w] \in Nat /\ q.write_pos[w] <= Len(D)
      /\ \A j \in n .. q.write_pos[w] - 1 : q.fifo[w][j % InN] = D[j + 1]
  BY <1>3, <1>4, LenProperties DEF Stores, Holds
<1>6. q.write_pos[w] > q.read_pos[w]
  BY DEF In!Waiting
<1> DEFINE stored == q.write_pos[w]
<1>7. stored > n /\ stored \in Nat /\ stored <= Len(D) /\ Len(D) \in Nat
  BY <1>3, <1>5, <1>6, LenProperties
<1> HIDE DEF D, n, stored
<1>8. n \in n .. stored - 1 /\ n + 1 \in 1 .. Len(D)
  BY <1>5, <1>7
<1>9. In!TokenOf(q, w) = D[n + 1]
  BY <1>5, <1>8 DEF In!TokenOf, stored
<1>10. D[n + 1] > 0 /\ D[n + 1] \in Int
  BY <1>3, <1>4, <1>8, ElementOfSeq DEF Plain, Token
<1> QED
  BY <1>9, <1>10 DEF In!IsException

(* A token of a link is read.                                              *)
LEMMA LinkConsumes ==
  ASSUME ChannelInv, NEW l \in Links, HasWriter(l),
         UNCHANGED <<conf, outq, ends, air, dispatched>>,
         LET q == inq[l[2]]
             p == inq'[l[2]]
             w == l[1]
             D == dispatched[l]
         IN  /\ IsOpen(q, w, D, delivered[l]) =>
                  /\ IsOpen(p, w, D, delivered'[l]) /\ p.write_pos[w] = q.write_pos[w]
                  /\ w \in DOMAIN p.termination <=> w \in DOMAIN q.termination
             /\ IsSettled(q, w, D, delivered[l]) => IsSettled(p, w, D, delivered'[l])
  PROVE  LinkInv(l)'
<1> DEFINE q == inq[l[2]]
           p == inq'[l[2]]
           w == l[1]
<1>1. LinkInv(l) /\ (Opened(l) => q.write_pos[w] \in Nat)
  BY LinkFacts
<1>2. /\ conf' = conf /\ outq' = outq /\ dispatched' = dispatched
      /\ UNCHANGED <<out_endpoint, in_endpoint, unjoined, to_in, to_out>>
  BY DEF ends, air
<1>3. l \notin unjoined
  BY <1>1 DEF LinkInv, Fresh, IsGone, HasWriter
<1>4. Opened(l) => /\ Opened(l)' /\ p.write_pos[w] = q.write_pos[w]
                   /\ w \in DOMAIN p.termination <=> w \in DOMAIN q.termination
  BY <1>2 DEF Opened
<1>5. Settled(l) => Settled(l)' /\ ~Opened(l)'
  BY <1>2, OpenOrSettled DEF Settled, Opened, HasReader
<1>6. (Attached(l) \/ HandedOver(l) \/ Settled(l))'
  <2>1. CASE Attached(l)
    BY <1>2, <1>4, <2>1 DEF Attached, HasReader, IsTunnel
  <2>2. CASE HandedOver(l)
    BY <1>2, <1>4, <2>2 DEF HandedOver, HasReader
  <2> QED
    BY <1>1, <1>5, <2>1, <2>2 DEF LinkInv
<1>7. GoesOn(l)
  <2>1. Opened(l) \/ Settled(l)
    BY <1>1 DEF LinkInv, Attached, HandedOver
  <2>2. Opened(l) => q.write_pos[w] <= p.write_pos[w] /\ p.write_pos[w] \in Nat
    BY <1>1, <1>4
  <2>3. l \in in_endpoint \cup out_endpoint => Opened(l)
    BY <1>1, LinkFacts DEF LinkInv, Attached
  <2>4. Opened(l) /\ l \notin in_endpoint => w \in DOMAIN q.termination
    BY <1>1 DEF LinkInv
  <2>5. to_in'[l] \in Seq(InMessage(l)) /\ to_out'[l] \in Seq(OutMessage)
    BY <1>1, <1>2 DEF LinkInv, ToInRight, ToOutRight
  <2>6. ~IsTunnel(l) => to_in'[l] = <<>> /\ to_out'[l] = <<>>
    BY <1>1, <1>2 DEF LinkInv
  <2> QED
    BY <1>1, <1>2, <1>3, <1>4, <1>5, <2>1, <2>2, <2>3, <2>4, <2>5, <2>6 DEF GoesOn
<1> QED
  BY <1>1, <1>6, <1>7, LinkGoesOn

LEMMA ConsumeKeeps ==
  ASSUME ChannelInv, Faultless, NEW i \in Ins, Consume(i)
  PROVE  ChannelInv'
<1> DEFINE q == inq[i]
           taken == In!peek(q).taken
           p == In!commit(In!peek(q).queue)
<1>1. /\ q.writers # <<>> /\ In!tokens_available(q)
      /\ inq' = [inq EXCEPT ![i] = p]
      /\ delivered' = [l \in Links |->
           IF l[2] = i /\ l[1] \in taken
           THEN Append(delivered[l], In!TokenOf(q, l[1])) ELSE delivered[l]]
      /\ UNCHANGED <<conf, outq, ends, air, in_enabled, serial, dispatched, turns>>
  BY DEF Consume, CanConsume
<1>2. Shared /\ InRight(i)
  BY DEF ChannelInv
<1>3. InShape(q) /\ q.kind \in In!InKinds
  BY <1>2, ScenarioAssumption DEF InRight, Shared, In!InKinds
<1>4. q.kind = "any" => In!Excepting(q) = {}
  BY <1>2, NoneExcepts DEF Faultless, InRight
<1>5. /\ InShape(p) /\ In!WriterSet(p) \subseteq In!WriterSet(q)
      /\ \A w : w \notin taken => Keeps(p, q, w)
      /\ \A w \in taken :
           /\ w \in In!WriterSet(q)
           /\ \A D, V \in Seq(Token) :
                LET next == Append(V, In!TokenOf(q, w))
                IN  /\ IsOpen(q, w, D, V) =>
                         /\ next \in Seq(Token) /\ IsOpen(p, w, D, next)
                         /\ p.write_pos[w] = q.write_pos[w]
                         /\ w \in DOMAIN p.termination <=> w \in DOMAIN q.termination
                    /\ IsSettled(q, w, D, V) => next \in Seq(Token) /\ IsSettled(p, w, D, next)
  <2>1. p = In!commit(In!peek(q).queue)
    OBVIOUS
  <2> HIDE DEF q, p
  <2> QED
    BY ONLY <1>1, <1>3, <1>4, <2>1, Consumed
<1>6. p.kind = q.kind
  <2>1. DOMAIN q = InFields
    BY <1>3 DEF InShape
  <2>2. DOMAIN In!peek(q).queue = InFields /\ In!peek(q).queue.kind = q.kind
    <3> HIDE DEF q
    <3>1. Took(In!peek(q).queue, q, In!peek(q).taken)
      BY ONLY <1>1, <1>3, <1>4, PeekTakes
    <3> QED
      BY <2>1, <3>1 DEF Took, InFields
  <2> DEFINE t == In!peek(q).queue
  <2>3. p = In!commit(t) /\ DOMAIN t = InFields
    BY <2>2
  <2> HIDE DEF t
  <2>4. In!commit(t).kind = t.kind
    BY ONLY <2>3, KindKept
  <2> QED
    BY <2>2, <2>3, <2>4 DEF t
<1> HIDE DEF p, taken
<1>7. /\ inq'[i] = p /\ DOMAIN inq' = Ins
      /\ \A j \in Ins : j # i => inq'[j] = inq[j]
  BY <1>1, <1>2 DEF Shared
<1>8. Links' = Links /\ Outs' = Outs /\ Ins' = Ins /\ conf' = conf
  BY <1>1 DEF Links, Outs, Ins
<1>9. \A m \in Links : LinkInv(m) /\ dispatched[m] \in Seq(Token) /\ delivered[m] \in Seq(Token)
                       /\ m[1] \in Outs /\ m[2] \in Ins
  BY <1>2, LinkFacts, LinkEnds DEF Shared
<1>10. ASSUME NEW m \in Links PROVE LinkInv(m)' /\ delivered'[m] \in Seq(Token)
  <2> DEFINE next == Append(delivered[m], In!TokenOf(q, m[1]))
  <2>1. CASE m[2] = i /\ m[1] \in taken
    <3>1. delivered'[m] = next
      BY <1>1, <2>1
    <3>2. HasWriter(m)
      BY <1>5, <2>1 DEF HasWriter
    <3>3. /\ IsOpen(q, m[1], dispatched[m], delivered[m]) =>
               /\ next \in Seq(Token) /\ IsOpen(p, m[1], dispatched[m], next)
               /\ p.write_pos[m[1]] = q.write_pos[m[1]]
               /\ m[1] \in DOMAIN p.termination <=> m[1] \in DOMAIN q.termination
          /\ IsSettled(q, m[1], dispatched[m], delivered[m]) =>
               next \in Seq(Token) /\ IsSettled(p, m[1], dispatched[m], next)
      BY <1>5, <1>9, <2>1
    <3>4. \/ IsOpen(q, m[1], dispatched[m], delivered[m])
          \/ IsSettled(q, m[1], dispatched[m], delivered[m])
      BY <1>9, <2>1 DEF LinkInv, Attached, HandedOver, Settled, Opened
    <3> HIDE DEF next
    <3>5. LinkInv(m)'
      BY <1>1, <1>7, <2>1, <3>1, <3>2, <3>3, LinkConsumes
    <3> QED
      BY <3>1, <3>3, <3>4, <3>5
  <2>2. CASE ~(m[2] = i /\ m[1] \in taken)
    <3>1. delivered'[m] = delivered[m]
      BY <1>1, <2>2
    <3>2. /\ Keeps(inq'[m[2]], inq[m[2]], m[1])
          /\ m[1] \in In!WriterSet(inq'[m[2]]) => m[1] \in In!WriterSet(inq[m[2]])
      <4>1. CASE m[2] # i
        BY <1>7, <1>9, <4>1, SameKeeps
      <4>2. CASE m[2] = i
        BY <1>5, <1>7, <2>2, <4>2
      <4> QED
        BY <4>1, <4>2
    <3>3. Aside(m)
      BY <1>1, <3>1, <3>2 DEF Aside, SameReader, ends, air
    <3> QED
      BY <1>9, <3>1, <3>3, LinkKept
  <2> QED
    BY <2>1, <2>2
<1>11. delivered' \in [Links -> Seq(Token)]
  <2>1. DOMAIN delivered' = Links /\ delivered' = [l \in Links |-> delivered'[l]]
    BY <1>1
  <2> QED
    BY <1>10, <2>1
<1>12. Shared'
  BY <1>1, <1>2, <1>7, <1>8, <1>11 DEF Shared, ends, air
<1>13. \A o \in Outs : OutRight(o)'
  BY <1>1, <1>8 DEF ChannelInv, OutRight
<1>14. ASSUME NEW j \in Ins PROVE InRight(j)'
  <2>1. InRight(j)
    BY DEF ChannelInv
  <2> QED
    BY <1>2, <1>5, <1>6, <1>7, <1>8, <2>1 DEF InRight
<1> QED
  BY <1>8, <1>10, <1>12, <1>13, <1>14 DEF ChannelInv

LEMMA WritersFinite ==
  ASSUME conf \in Scenarios, NEW links \in SUBSET Links, NEW i
  PROVE  WritersOf(links, i) \in SUBSET Nat /\ IsFiniteSet(WritersOf(links, i))
<1>1. IsFiniteSet(links)
  BY FS_Subset, ScenarioAssumption DEF Links
<1>2. IsFiniteSet({l \in links : l[2] = i})
  BY <1>1, FS_Subset
<1> DEFINE S == {l \in links : l[2] = i}
           f == [l \in S |-> l[1]]
<1>3. f \in Surjection(S, WritersOf(links, i))
  <2>1. f \in [S -> WritersOf(links, i)] /\ \A w \in WritersOf(links, i) : \E l \in S : f[l] = w
    BY DEF WritersOf
  <2> QED
    BY <2>1, Fun_IsSurj
<1>4. IsFiniteSet(WritersOf(links, i))
  BY <1>2, <1>3, FS_Surjection
<1> QED
  BY <1>4, LinkEnds DEF WritersOf

(* Queues start with empty rings.                                          *)
LEMMA OutStarts ==
  ASSUME NEW kind, NEW R \in SUBSET Nat, IsFiniteSet(R), NEW q \in Out!NewOutQueues(kind, R)
  PROVE  /\ OutShape(q) /\ Out!ReaderSet(q) = R /\ q.kind = kind
         /\ \A r \in R :
              /\ Sends(q, r, <<>>) /\ q.reader_offset[r] = 0
              /\ q.read_pos[r] = 0 /\ q.tentative_read_pos[r] = 0
<1>1. PICK turn \in Out!FirstTurns(kind, Cardinality(R)) :
        q = [kind |-> kind, readers |-> Out!Ascending(R), reader_turn |-> turn,
             turn_pos |-> 0,
             fifo |-> [r \in R |-> Out!EmptyRing],
             write_pos |-> [r \in R |-> 0],
             read_pos |-> [r \in R |-> 0],
             tentative_read_pos |-> [r \in R |-> 0],
             reader_offset |-> [r \in R |-> 0]]
  <2>1. \A T : Out!Cardinality(T) = Cardinality(T)
    BY DEF Out!Cardinality, Cardinality
  <2> QED
    BY <2>1 DEF Out!NewOutQueues
<1>2. DOMAIN q = OutFields /\ q.readers = Out!Ascending(R) /\ q.kind = kind
  BY <1>1 DEF OutFields
<1>3. HasReaders(q) /\ Out!ReaderSet(q) = R
  BY ONLY <1>2, R \in SUBSET Nat, IsFiniteSet(R), ReadersListed
<1>4. /\ q.fifo = [r \in R |-> Out!EmptyRing] /\ q.write_pos = [r \in R |-> 0]
      /\ q.read_pos = [r \in R |-> 0] /\ q.tentative_read_pos = [r \in R |-> 0]
      /\ q.reader_offset = [r \in R |-> 0]
  BY <1>1
<1>5. OutShape(q)
  BY <1>3, <1>4 DEF OutShape
<1>6. ASSUME NEW r \in R PROVE Sends(q, r, <<>>)
  <2>1. /\ q.fifo[r] = Out!EmptyRing /\ q.write_pos[r] = 0 /\ q.read_pos[r] = 0
        /\ q.tentative_read_pos[r] = 0 /\ q.reader_offset[r] = 0
    BY <1>4
  <2>2. Out!EmptyRing \in [0 .. OutN - 1 -> Token \cup {NoToken}]
    BY DEF Out!EmptyRing, Out!Slots
  <2>3. Len(<<>>) = 0 /\ 0 - 0 <= OutN - 1 /\ 0 .. 0 - 1 = {} /\ 0 \in 0 .. 0 /\ 0 - 0 = 0
    BY LengthAssumption, EmptySeq
  <2> QED
    BY ONLY <2>1, <2>2, <2>3 DEF Sends
<1> QED
  BY <1>2, <1>3, <1>4, <1>5, <1>6

LEMMA InStarts ==
  ASSUME NEW kind, NEW W \in SUBSET Nat, IsFiniteSet(W), NEW q, q = In!NewInQueue(kind, W)
  PROVE  /\ InShape(q) /\ In!WriterSet(q) = W /\ q.kind = kind
         /\ \A w \in W : IsOpen(q, w, <<>>, <<>>) /\ q.write_pos[w] = 0
         /\ \A w : w \notin W => IsGone(q, w, <<>>, <<>>)
<1>1. q = [kind |-> kind, writers |-> In!Ascending(W),
           fifo |-> [w \in W |-> In!EmptyRing],
           write_pos |-> [w \in W |-> 0],
           read_pos |-> [w \in W |-> 0],
           turn_pos |-> 0,
           exhausted_tokens |-> [w \in {} |-> <<>>],
           termination |-> [w \in {} |-> FALSE]]
  BY DEF In!NewInQueue
<1>2. /\ DOMAIN q = InFields /\ q.writers = In!Ascending(W) /\ q.kind = kind /\ q.turn_pos = 0
      /\ q.fifo = [w \in W |-> In!EmptyRing] /\ q.write_pos = [w \in W |-> 0]
      /\ q.read_pos = [w \in W |-> 0]
      /\ DOMAIN q.exhausted_tokens = {} /\ DOMAIN q.termination = {}
  BY <1>1 DEF InFields
<1>3. IsAscending(q.writers, W)
  BY <1>2, InAscending
<1>4. In!WriterSet(q) = W
  BY <1>3, AscendingList DEF In!WriterSet
<1>5. InShape(q)
  BY <1>2, <1>3, <1>4 DEF InShape
<1>6. ASSUME NEW w \in W PROVE IsOpen(q, w, <<>>, <<>>) /\ q.write_pos[w] = 0
  <2>1. q.fifo[w] = In!EmptyRing /\ q.write_pos[w] = 0 /\ q.read_pos[w] = 0
    BY <1>2
  <2>2. IsInRing(In!EmptyRing)
    BY DEF In!EmptyRing, In!Slots, IsInRing
  <2>3. Len(<<>>) = 0 /\ 0 - 0 <= InN - 1 /\ 0 .. 0 - 1 = {} /\ 1 .. 0 = {} /\ 0 \in Nat
        /\ 0 <= 0
    BY LengthAssumption, EmptySeq
  <2>4. Stores(q, w, <<>>, <<>>)
    BY ONLY <2>1, <2>2, <2>3 DEF Stores, Holds
  <2> QED
    BY <1>2, <1>4, <2>1, <2>4 DEF IsOpen
<1> QED
  BY <1>2, <1>4, <1>5, <1>6 DEF IsGone

LEMMA ChannelInit ==
  ASSUME Init
  PROVE  ChannelInv
<1> DEFINE first == conf.links \ conf.late
<1>1. /\ conf \in Scenarios /\ DOMAIN outq = Outs /\ out_endpoint = first /\ in_endpoint = first
      /\ unjoined = conf.late /\ first \in SUBSET Links /\ conf.late \subseteq Links
      /\ inq = [i \in Ins |-> In!NewInQueue(conf.in, WritersOf(first, i))]
      /\ to_in = [l \in Links |-> <<>>] /\ to_out = [l \in Links |-> <<>>]
      /\ dispatched = [l \in Links |-> <<>>] /\ delivered = [l \in Links |-> <<>>]
      /\ serial = 0
  BY ScenarioAssumption DEF Init, Links
<1>2. Shared
  BY <1>1, BoundAssumption, EmptySeq DEF Shared
<1>3. \A l \in Links : l[1] \in Outs /\ l[2] \in Ins /\ l = <<l[1], l[2]>>
  BY <1>1, LinkEnds
<1>4. ASSUME NEW o \in Outs
      PROVE  /\ OutShape(outq[o]) /\ outq[o].kind = conf.out
             /\ Out!ReaderSet(outq[o]) = ReadersOf(first, o)
             /\ \A r \in ReadersOf(first, o) :
                  /\ Sends(outq[o], r, <<>>) /\ outq[o].reader_offset[r] = 0
                  /\ outq[o].read_pos[r] = 0 /\ outq[o].tentative_read_pos[r] = 0
  <2> DEFINE q == outq[o]
  <2>1. Out!ReaderSet(q) = ReadersOf(first, o)
    BY DEF Init
  <2>2. PICK p \in Outs : q \in Out!NewOutQueues(conf.out, ReadersOf(first, p))
    <3>1. outq \in [Outs -> UNION {Out!NewOutQueues(conf.out, ReadersOf(first, p)) : p \in Outs}]
      BY DEF Init
    <3>2. q \in UNION {Out!NewOutQueues(conf.out, ReadersOf(first, p)) : p \in Outs}
      BY ONLY <3>1, o \in Outs
    <3> QED
      BY ONLY <3>2
  <2>3. ReadersOf(first, p) \in SUBSET Nat /\ IsFiniteSet(ReadersOf(first, p))
    BY <1>1, ReadersFinite
  <2> DEFINE R == ReadersOf(first, p)
  <2> HIDE DEF q
  <2>4. /\ OutShape(q) /\ Out!ReaderSet(q) = R /\ q.kind = conf.out
        /\ \A r \in R :
             /\ Sends(q, r, <<>>) /\ q.reader_offset[r] = 0
             /\ q.read_pos[r] = 0 /\ q.tentative_read_pos[r] = 0
    BY <2>2, <2>3, OutStarts
  <2> QED
    BY <2>1, <2>4 DEF q
<1>5. ASSUME NEW i \in Ins
      PROVE  /\ InShape(inq[i]) /\ inq[i].kind = conf.in
             /\ In!WriterSet(inq[i]) = WritersOf(first, i)
             /\ \A w \in WritersOf(first, i) :
                  IsOpen(inq[i], w, <<>>, <<>>) /\ inq[i].write_pos[w] = 0
             /\ \A w : w \notin WritersOf(first, i) => IsGone(inq[i], w, <<>>, <<>>)
  <2>1. WritersOf(first, i) \in SUBSET Nat /\ IsFiniteSet(WritersOf(first, i))
    BY <1>1, WritersFinite
  <2>2. inq[i] = In!NewInQueue(conf.in, WritersOf(first, i))
    BY <1>1
  <2> DEFINE q == inq[i]
             W == WritersOf(first, i)
             kind == conf.in
  <2>3. W \in SUBSET Nat /\ IsFiniteSet(W) /\ q = In!NewInQueue(kind, W)
    BY <2>1, <2>2
  <2> HIDE DEF q, W, kind
  <2>4. /\ InShape(q) /\ In!WriterSet(q) = W /\ q.kind = kind
        /\ \A w \in W : IsOpen(q, w, <<>>, <<>>) /\ q.write_pos[w] = 0
        /\ \A w : w \notin W => IsGone(q, w, <<>>, <<>>)
    BY ONLY <2>3, InStarts
  <2> QED
    BY <2>4 DEF q, W, kind
<1>6. ASSUME NEW o \in Outs PROVE OutRight(o)
  <2>1. ASSUME NEW r \in ReadersOf(first, o) PROVE <<o, r>> \in Links
    BY <1>1, <1>3 DEF ReadersOf
  <2> QED
    BY <1>4, <2>1 DEF OutRight
<1>7. ASSUME NEW i \in Ins PROVE InRight(i)
  <2>1. ASSUME NEW w \in WritersOf(first, i) PROVE <<w, i>> \in Links
    BY <1>1, <1>3 DEF WritersOf
  <2> QED
    BY <1>5, <2>1 DEF InRight
<1>8. ASSUME NEW l \in Links PROVE LinkInv(l)
  <2> DEFINE o == l[1]
             r == l[2]
  <2>1. /\ dispatched[l] = <<>> /\ delivered[l] = <<>> /\ to_in[l] = <<>> /\ to_out[l] = <<>>
        /\ o \in Outs /\ r \in Ins
    BY <1>1, <1>3
  <2>2. l \in first <=> r \in ReadersOf(first, o)
    BY <1>1, <1>3 DEF ReadersOf
  <2>3. l \in first <=> o \in WritersOf(first, r)
    BY <1>1, <1>3 DEF WritersOf
  <2>4. /\ NoBearer(to_in[l], o) /\ ToInRight(l) /\ ToOutRight(l) /\ Plain(dispatched[l])
    BY <2>1, EmptySeq DEF NoBearer, ToInRight, ToOutRight, Plain, Items
  <2>5. CASE l \in first
    <3>1. Opened(l) /\ inq[r].write_pos[o] = 0
      BY <1>5, <2>1, <2>3, <2>5 DEF Opened
    <3>2. HasReader(l)
      BY <1>4, <2>1, <2>2, <2>5 DEF HasReader
    <3>3. /\ Sends(outq[o], r, dispatched[l]) /\ outq[o].reader_offset[r] = 0
          /\ outq[o].read_pos[r] = 0 /\ outq[o].tentative_read_pos[r] = 0
      BY <1>4, <2>1, <2>2, <2>5
    <3>4. Attached(l)
      <4>1. outq[o].read_pos[r] - outq[o].reader_offset[r] = 0
        BY <3>3
      <4> QED
        BY <1>1, <2>4, <2>5, <3>1, <3>2, <3>3, <4>1 DEF Attached
    <3> QED
      BY <1>1, <2>1, <2>4, <2>5, <3>1, <3>4 DEF LinkInv
  <2>6. CASE l \notin first
    <3>1. l \in conf.late
      BY <2>6 DEF Links
    <3>2. IsGone(inq[r], o, <<>>, <<>>)
      BY <1>5, <2>1, <2>3, <2>6
    <3>3. ~HasReader(l)
      BY <1>4, <2>1, <2>2, <2>6 DEF HasReader
    <3>4. Fresh(l) /\ Settled(l)
      BY <1>1, <2>1, <2>4, <2>6, <3>1, <3>2, <3>3 DEF Fresh, Settled, IsSettled
    <3>5. ~Opened(l)
      BY <3>2 DEF Opened, IsOpen, IsGone
    <3> QED
      BY <1>1, <2>1, <2>4, <2>6, <3>4, <3>5 DEF LinkInv
  <2> QED
    BY <2>5, <2>6
<1> QED
  BY <1>2, <1>6, <1>7, <1>8 DEF ChannelInv

LEMMA ChannelNext ==
  ASSUME ChannelInv, Faultless, [Next]_vars
  PROVE  ChannelInv'
<1>1. CASE UNCHANGED vars
  <2>1. UNCHANGED <<conf, outq, inq, out_endpoint, in_endpoint, unjoined, to_in, to_out,
                    serial, dispatched, delivered>>
    BY <1>1 DEF vars, queues, ends, air
  <2>2. Links' = Links /\ Outs' = Outs /\ Ins' = Ins
    BY <2>1 DEF Links, Outs, Ins
  <2>3. Shared'
    BY <2>1, <2>2 DEF ChannelInv, Shared
  <2>4. (\A o \in Outs : OutRight(o)') /\ (\A i \in Ins : InRight(i)')
    BY <2>1, <2>2 DEF ChannelInv, OutRight, InRight
  <2>5. ASSUME NEW l \in Links PROVE LinkInv(l)'
    <3>1. Aside(l)
      BY <2>1, SameKeeps DEF Aside, SameReader
    <3> QED
      BY <3>1, LinkFacts, LinkKept
  <2> QED
    BY <2>2, <2>3, <2>4, <2>5 DEF ChannelInv
<1>2. ASSUME NEW o \in Outs, Produce(o) PROVE ChannelInv'
  BY <1>2, ProduceKeeps
<1>3. ASSUME NEW i \in Ins, Consume(i) PROVE ChannelInv'
  BY <1>3, ConsumeKeeps
<1>4. ASSUME NEW l \in Links, Transmit(l) PROVE ChannelInv'
  BY <1>4, CommunicateKeeps, CommunicateLocalKeeps DEF Transmit
<1>5. ASSUME NEW l \in Links, ArriveIn(l) PROVE ChannelInv'
  BY <1>5, ReceiveTokenKeeps, DisconnectionRequestInKeeps, DisconnectedPeerInKeeps DEF ArriveIn
<1>6. ASSUME NEW l \in Links, ArriveOut(l) PROVE ChannelInv'
  BY <1>6, ReceiveReplyKeeps, DisconnectionRequestOutKeeps, DisconnectedPeerOutKeeps DEF ArriveOut
<1>7. ASSUME NEW l \in Links, ExhaustOut(l) \/ ExhaustIn(l) \/ ExhaustLocal(l) \/ Join(l)
      PROVE  ChannelInv'
  BY <1>7, ExhaustOutKeeps, ExhaustInKeeps, ExhaustLocalKeeps, JoinKeeps
<1> QED
  BY <1>1, <1>2, <1>3, <1>4, <1>5, <1>6, <1>7 DEF Next

LEMMA ScenarioStays ==
  ASSUME [Next]_vars
  PROVE  conf' = conf
<1>1. CASE UNCHANGED vars
  BY <1>1 DEF vars
<1>2. ASSUME NEW l \in Links, Transmit(l) \/ ArriveIn(l) \/ ArriveOut(l) PROVE conf' = conf
  BY <1>2 DEF Transmit, ArriveIn, ArriveOut, Communicate, CommunicateLocal, ReceiveToken,
              ReceiveReply, DisconnectionRequestIn, DisconnectionRequestOut,
              DisconnectedPeerIn, DisconnectedPeerOut
<1>3. ASSUME NEW l \in Links, ExhaustOut(l) \/ ExhaustIn(l) \/ ExhaustLocal(l) \/ Join(l)
      PROVE  conf' = conf
  BY <1>3 DEF ExhaustOut, ExhaustIn, ExhaustLocal, Join
<1> QED
  BY <1>1, <1>2, <1>3 DEF Next, Produce, Consume

LEMMA ChannelAlways == Spec => [](Faultless => ChannelInv)
<1>1. Init => (Faultless => ChannelInv)
  BY ChannelInit
<1>2. (Faultless => ChannelInv) /\ [Next]_vars => (Faultless => ChannelInv)'
  <2>1. [Next]_vars => (Faultless' <=> Faultless)
    BY ScenarioStays DEF Faultless
  <2> QED
    BY <2>1, ChannelNext
<1> QED
  BY <1>1, <1>2, PTL DEF Spec

(* What has been read from a link is the first part of what was sent.      *)
LEMMA ReadIsPrefix ==
  ASSUME NEW D \in Seq(Token), NEW V \in Seq(Token), Len(V) <= Len(D),
         \A k \in 1 .. Len(V) : V[k] = D[k]
  PROVE  IsPrefixOf(V, D)
<1> DEFINE n == Len(V)
<1>1. n \in Nat /\ Len(D) \in Nat /\ n <= Len(D)
  BY LenProperties
<1>2. 1 \in 1 .. Len(D) + 1 /\ n \in 1 - 1 .. Len(D) /\ (n - 1) + 1 = n
  BY <1>1
<1>3. /\ SubSeq(D, 1, n) \in Seq(Token) /\ Len(SubSeq(D, 1, n)) = n
      /\ \A k \in 1 .. n : SubSeq(D, 1, n)[k] = D[k]
  BY <1>1
<1>4. V = SubSeq(D, 1, n)
  BY <1>3, SeqEqual
<1> QED
  BY <1>1, <1>4 DEF IsPrefixOf

(* Every link is a channel that delivers in order and once, whichever      *)
(* readers and writers come and go: fanout_base.py, fanout_fifo.py,        *)
(* collect_base.py and the endpoints and connections between them, where   *)
(* no replica's link to a "fanout" queue is exhausted and no exception     *)
(* reaches an "any" queue.                                                 *)
THEOREM LinksDeliverInOrder == Spec => [](Faultless => DeliveryPrefix)
<1>1. ChannelInv => DeliveryPrefix
  <2> SUFFICES ASSUME ChannelInv, NEW l \in Links PROVE IsPrefixOf(delivered[l], dispatched[l])
    BY DEF DeliveryPrefix
  <2> DEFINE D == dispatched[l]
             V == delivered[l]
  <2>1. LinkInv(l) /\ D \in Seq(Token) /\ V \in Seq(Token)
    BY LinkFacts
  <2>2. Stores(inq[l[2]], l[1], D, V) \/ V = D
    BY <2>1 DEF LinkInv, Attached, HandedOver, Settled, Opened, IsOpen, IsSettled, IsClosing,
                IsGone
  <2> HIDE DEF D, V
  <2>3. Len(V) \in Nat /\ Len(D) \in Nat
    BY <2>1, LenProperties
  <2>4. Len(V) <= Len(D) /\ \A k \in 1 .. Len(V) : V[k] = D[k]
    BY <2>2, <2>3 DEF Stores
  <2> QED
    BY <2>1, <2>4, ReadIsPrefix DEF D, V
<1> QED
  BY <1>1, ChannelAlways, PTL

(* Exhaustion preserves the tokens: FanoutBase.exhaust hands them over and *)
(* CollectBase.set_exhausted_tokens takes them, and remove_writer waits    *)
(* until they are read.                                                    *)
THEOREM ExhaustionPreserves == Spec => [](Faultless => ExhaustPreserves)
<1>1. ChannelInv => ExhaustPreserves
  <2> SUFFICES ASSUME ChannelInv, NEW l \in Links, ~HasReader(l), ~HasWriter(l)
               PROVE  delivered[l] = dispatched[l]
    BY DEF ExhaustPreserves
  <2>1. LinkInv(l)
    BY LinkFacts
  <2> QED
    BY <2>1 DEF LinkInv, Attached, HandedOver, Settled, Opened, IsOpen, IsSettled, IsClosing,
                IsGone, HasWriter
<1> QED
  BY <1>1, ChannelAlways, PTL

LEMMA RestHolds ==
  ASSUME NEW D \in Seq(Token), NEW pos \in Nat, NEW items, Rests(items, D, pos),
         NEW k \in pos + 1 .. Len(D)
  PROVE  [seq |-> k - 1, token |-> D[k]] \in Items(items)
<1>1. PICK a \in 0 .. pos : Rest(items, D, a, Len(D) - a)
  BY DEF Rests
<1> DEFINE j == k - a
           n == Len(D) - a
<1>2. j \in 1 .. n /\ a + j - 1 = k - 1 /\ a + j = k
  BY <1>1, LenProperties
<1>3. items = [i \in 1 .. n |-> [seq |-> a + i - 1, token |-> D[a + i]]]
  BY <1>1 DEF Rest
<1> HIDE DEF j, n
<1>4. j \in DOMAIN items /\ items[j] = [seq |-> a + j - 1, token |-> D[a + j]]
  BY <1>2, <1>3
<1> QED
  BY <1>2, <1>4 DEF Items

(* Through the hand-over each token that is not read is where it will be   *)
(* found: what the rings, the messages of TunnelConnection and             *)
(* CollectBase.exhausted_tokens hold together.                             *)
THEOREM TokensAreHeld == Spec => [](Faultless => EveryTokenHeld)
<1>1. ChannelInv => EveryTokenHeld
  <2> SUFFICES ASSUME ChannelInv, NEW l \in Links, HasWriter(l)
               PROVE  LET p == inq[l[2]]
                          stored == p.write_pos[l[1]]
                      IN  /\ Len(delivered[l]) = p.read_pos[l[1]]
                          /\ \A k \in p.read_pos[l[1]] + 1 .. stored :
                               p.fifo[l[1]][(k - 1) % InN] = dispatched[l][k]
                          /\ \A k \in stored + 1 .. Len(dispatched[l]) :
                               [seq |-> k - 1, token |-> dispatched[l][k]] \in Held(l)
    BY DEF EveryTokenHeld
  <2> DEFINE o == l[1]
             r == l[2]
             q == outq[o]
             p == inq[r]
             D == dispatched[l]
             V == delivered[l]
             stored == p.write_pos[o]
  <2>1. LinkInv(l) /\ D \in Seq(Token) /\ V \in Seq(Token)
    BY LinkFacts
  <2>2. Stores(p, o, D, V)
    BY <2>1 DEF LinkInv, Attached, HandedOver, Settled, Opened, IsOpen, IsSettled, IsClosing,
                IsGone, HasWriter
  <2>3. /\ stored \in Nat /\ p.read_pos[o] = Len(V)
        /\ \A k \in Len(V) .. stored - 1 : p.fifo[o][k % InN] = D[k + 1]
    BY <2>2 DEF Stores, Holds
  <2>4. ASSUME NEW k \in p.read_pos[o] + 1 .. stored PROVE p.fifo[o][(k - 1) % InN] = D[k]
    <3>1. Len(V) \in Nat
      BY <2>1, LenProperties
    <3> DEFINE n == Len(V)
    <3> HIDE DEF n, stored, D
    <3>2. k \in n + 1 .. stored
      BY <2>3 DEF n
    <3>3. k - 1 \in n .. stored - 1 /\ k - 1 + 1 = k
      BY <2>3, <3>1, <3>2 DEF n
    <3> QED
      BY <2>3, <3>3 DEF n
  <2>5. ASSUME NEW k \in stored + 1 .. Len(D)
        PROVE  [seq |-> k - 1, token |-> D[k]] \in Held(l)
    <3>1. CASE Attached(l)
      <4> DEFINE off == q.reader_offset[r]
                 a == q.read_pos[r]
                 b == q.write_pos[r]
                 j == off + (k - 1)
      <4>1. /\ Sends(q, r, D) /\ HasReader(l) /\ off \in Nat /\ a \in off .. b /\ b \in Nat
            /\ b - off = Len(D) /\ a - off <= stored
        BY <3>1 DEF Attached, Sends
      <4>2. /\ j \in off .. b - 1 /\ a <= j /\ j \in a .. b - 1
            /\ j - off = k - 1 /\ j - off + 1 = k
        <5>1. Len(D) \in Nat
          BY <2>1, LenProperties
        <5>2. j = off + (k - 1)
          OBVIOUS
        <5>3. k \in Nat /\ stored \in Nat /\ stored + 1 <= k /\ k <= Len(D)
          BY <2>3, <5>1
        <5>4. a \in Nat /\ off <= a /\ a - off <= stored
          BY <4>1
        <5> HIDE DEF off, a, b, stored, D, j
        <5> QED
          BY ONLY <4>1, <5>1, <5>2, <5>3, <5>4
      <4> HIDE DEF j
      <4>3. Out!com_peek(q, r, j).seq = k - 1 /\ Out!com_peek(q, r, j).token = D[k]
        <5>1. j \in q.reader_offset[r] .. q.write_pos[r] - 1 /\ q.read_pos[r] <= j
          BY <4>2
        <5> HIDE DEF D, q, r
        <5>2. /\ Out!com_peek(q, r, j).seq = j - q.reader_offset[r]
              /\ Out!com_peek(q, r, j).token = D[j - q.reader_offset[r] + 1]
          BY ONLY <2>1, <4>1, <5>1, ItemPeeked
        <5> QED
          BY <4>2, <5>2 DEF off
      <4>4. Out!com_peek(q, r, j) = [seq |-> k - 1, token |-> D[k]]
        BY <4>3 DEF Out!com_peek
      <4> QED
        BY <4>1, <4>2, <4>4 DEF Held
    <3>2. CASE HandedOver(l)
      <4>1. PICK n \in 1 .. Len(to_in[l]) :
              Bears(to_in[l][n], o) /\ Rests(to_in[l][n].remaining[o], D, stored)
        BY <3>2 DEF HandedOver, OneBearer
      <4> DEFINE m == to_in[l][n]
      <4>2. to_in[l] \in Seq(InMessage(l))
        BY <2>1 DEF LinkInv, ToInRight
      <4>3. m \in Items(to_in[l])
        BY <4>2, LenProperties DEF Items
      <4> HIDE DEF m, D, stored
      <4>4. [seq |-> k - 1, token |-> D[k]] \in Items(m.remaining[o])
        BY <2>1, <2>3, <4>1, RestHolds DEF m
      <4>5. m.kind # "TOKEN" /\ DOMAIN m.remaining # {}
        BY <4>1 DEF Bears, m
      <4>6. [seq |-> k - 1, token |-> D[k]] \in Carried(l)
        BY <4>3, <4>4, <4>5 DEF Carried
      <4> QED
        BY <4>6 DEF Held
    <3>3. CASE Settled(l)
      <4>1. Drained(p, o, D)
        BY <3>3 DEF Settled, IsSettled, IsClosing, IsGone, HasWriter
      <4>2. o \in DOMAIN p.exhausted_tokens /\ Rests(p.exhausted_tokens[o], D, stored)
        <5>1. stored # Len(D)
          BY <2>1, <2>3, LenProperties
        <5> QED
          BY <4>1, <5>1 DEF Drained
      <4> HIDE DEF D, stored
      <4>3. [seq |-> k - 1, token |-> D[k]] \in Items(p.exhausted_tokens[o])
        BY <2>1, <2>3, <4>2, RestHolds
      <4> QED
        BY <4>2, <4>3 DEF Held
    <3> QED
      BY <2>1, <3>1, <3>2, <3>3 DEF LinkInv
  <2> QED
    BY <2>3, <2>4, <2>5
<1> QED
  BY <1>1, ChannelAlways, PTL

-----------------------------------------------------------------------------
(* An unordered inport's queue, and how often it has been read while a     *)
(* token of w waited: as often at most as there are other writers, less    *)
(* those whose turn is before that of w.                                   *)
Serves(q, w, count) ==
  LET n == Len(q.writers)
  IN  \/ count = 0
      \/ /\ In!Waiting(q, w)
         /\ \E d \in 0 .. n - 1 :
              q.writers[((q.turn_pos + d) % n) + 1] = w /\ count + d <= n - 1

ServedInv ==
  conf.in = "unordered" =>
    /\ \A i \in Ins : inq[i].writers = In!Ascending(In!WriterSet(inq[i]))
    /\ \A l \in Links :
         /\ passed[l] \in Nat
         /\ HasWriter(l) => Serves(inq[l[2]], l[1], passed[l])

LEMMA StillServes ==
  ASSUME NEW p, NEW q, StaysInTurn(p, q), NEW w \in In!WriterSet(q), NEW count,
         Serves(q, w, count)
  PROVE  Serves(p, w, count)
BY DEF Serves, StaysInTurn

(* What peek does to an unordered queue.                                   *)
LEMMA PeekServes ==
  ASSUME NEW q, InShape(q), q.kind = "unordered", NEW m, m = In!peek(q).queue
  PROVE  LET k == In!Served(q)
         IN  /\ In!peek(q).taken = {q.writers[k]}
             /\ m.writers = q.writers /\ m.turn_pos = k % Len(q.writers)
             /\ m.write_pos = q.write_pos
             /\ \A w \in In!WriterSet(q) : w # q.writers[k] => m.read_pos[w] = q.read_pos[w]
<1> DEFINE k == In!Served(q)
           A == In!Advanced(q, {q.writers[k]})
<1>1. /\ In!peek(q).taken = {q.writers[k]}
      /\ m = [A EXCEPT !.turn_pos = k % Len(q.writers)]
  BY DEF In!peek
<1>2. DOMAIN q = InFields /\ DOMAIN q.read_pos = In!WriterSet(q)
  BY DEF InShape
<1> HIDE DEF k
<1>3. /\ DOMAIN A = InFields /\ A.writers = q.writers /\ A.write_pos = q.write_pos
      /\ \A w \in In!WriterSet(q) : w # q.writers[k] => A.read_pos[w] = q.read_pos[w]
  BY <1>2 DEF In!Advanced, InFields
<1> HIDE DEF A
<1>4. /\ m.writers = A.writers /\ m.write_pos = A.write_pos /\ m.read_pos = A.read_pos
      /\ m.turn_pos = k % Len(q.writers)
  BY <1>1, <1>3 DEF InFields
<1> QED
  BY <1>1, <1>3, <1>4 DEF k

(* Reading a token brings the turn of each writer that waits nearer by     *)
(* one at least.                                                           *)
LEMMA TurnNearer ==
  ASSUME NEW q, InShape(q), q.kind = "unordered", \E w \in In!WriterSet(q) : In!Waiting(q, w),
         NEW m, m = In!peek(q).queue,
         NEW w \in In!WriterSet(q), w \notin In!peek(q).taken, In!Waiting(q, w),
         NEW count \in Nat, Serves(q, w, count)
  PROVE  Serves(m, w, count + 1)
<1> DEFINE n == Len(q.writers)
           t == q.turn_pos
           s == In!Served(q)
           At(d) == ((t + d) % n) + 1
<1>1. /\ n \in Nat \ {0}
      /\ \E k \in 0 .. n - 1 :
           /\ s = At(k) /\ s \in 1 .. n /\ In!Waiting(q, q.writers[s])
           /\ \A j \in 0 .. k - 1 : ~In!Waiting(q, q.writers[At(j)])
  BY ServedWaits
<1>2. PICK k \in 0 .. n - 1 : s = At(k) /\ \A j \in 0 .. k - 1 : ~In!Waiting(q, q.writers[At(j)])
  BY <1>1
<1>3. /\ In!peek(q).taken = {q.writers[s]} /\ m.writers = q.writers /\ m.turn_pos = s % n
      /\ m.write_pos = q.write_pos
      /\ \A v \in In!WriterSet(q) : v # q.writers[s] => m.read_pos[v] = q.read_pos[v]
  BY PeekServes
<1>4. t \in Nat /\ DOMAIN q.writers = 1 .. n
  <2>1. q.writers \in Seq(Nat) /\ q.turn_pos \in Nat
    BY AscendingList DEF InShape
  <2> QED
    BY <2>1
<1> HIDE DEF s
<1>5. w # q.writers[s] /\ In!Waiting(m, w)
  BY <1>3 DEF In!Waiting
<1>6. \E d \in 0 .. n - 1 : q.writers[At(d)] = w /\ count + d <= n - 1
  <2>1. CASE count = 0
    <3>1. PICK j \in 1 .. n : q.writers[j] = w
      BY <1>4 DEF In!WriterSet
    <3> HIDE DEF n, t
    <3>2. j - 1 \in 0 .. n - 1 /\ t \in Int /\ (j - 1) + 1 = j
      BY <1>1, <1>4
    <3>3. PICK d \in 0 .. n - 1 : (t + d) % n = j - 1
      BY ONLY <3>2, <1>1, ModReaches
    <3>4. At(d) = j
      BY <3>2, <3>3
    <3>5. count + d <= n - 1
      BY <2>1, <1>1
    <3> QED
      BY <3>1, <3>4, <3>5
  <2>2. CASE count # 0
    BY <2>2 DEF Serves
  <2> QED
    BY <2>1, <2>2
<1>7. PICK d \in 0 .. n - 1 : q.writers[At(d)] = w /\ count + d <= n - 1
  BY <1>6
<1>8. d \notin 0 .. k - 1 /\ d # k
  BY <1>2, <1>5, <1>7
<1> DEFINE e == d - (k + 1)
<1>9. e \in 0 .. n - 1 /\ (count + 1) + e <= n - 1 /\ (t + k) + 1 \in Int /\ e \in Int
      /\ ((t + k) + 1) + e = t + d /\ t + k \in Int
  <2> HIDE DEF n, t
  <2> QED
    BY <1>1, <1>4, <1>7, <1>8
<1>10. (m.turn_pos + e) % n = (t + d) % n
  <2> HIDE DEF n, t, e
  <2>1. s % n = ((t + k) + 1) % n
    BY <1>1, <1>2, <1>9, ModNext
  <2>2. ((((t + k) + 1) % n) + e) % n = (((t + k) + 1) + e) % n
    BY ONLY <1>1, <1>9, ModAdds
  <2> QED
    BY <1>3, <1>9, <2>1, <2>2
<1>11. m.writers[((m.turn_pos + e) % n) + 1] = w
  BY <1>3, <1>7, <1>10
<1> HIDE DEF e, t, At
<1>12. Len(m.writers) = n
  BY <1>3
<1> HIDE DEF n
<1> QED
  BY <1>5, <1>9, <1>11, <1>12 DEF Serves

LEMMA ServesOn ==
  ASSUME NEW q, InShape(q), Filling(q), q.kind = "unordered",
         q.writers # <<>>, In!tokens_available(q),
         q.writers = In!Ascending(In!WriterSet(q)),
         NEW p, p = In!commit(In!peek(q).queue)
  PROVE  /\ p.writers = In!Ascending(In!WriterSet(p))
         /\ In!WriterSet(p) = In!WriterSet(q) =>
              \A w \in In!WriterSet(q) : \A count \in Nat :
                Serves(q, w, count) =>
                  Serves(p, w, IF w \in In!peek(q).taken THEN 0
                               ELSE IF In!Waiting(q, w) THEN count + 1 ELSE count)
<1> DEFINE m == In!peek(q).queue
           taken == In!peek(q).taken
<1>1. (\A w \in taken : w \in In!WriterSet(q) /\ In!Waiting(q, w)) /\ Took(m, q, taken)
  BY PeekTakes DEF In!InKinds
<1>2. m.writers = q.writers
  BY PeekServes
<1>3. /\ InShape(m) /\ In!WriterSet(m) = In!WriterSet(q)
      /\ \A w : w \notin taken => Keeps(m, q, w)
      /\ \A w \in taken : \A D, V \in Seq(Token) :
           LET next == Append(V, In!TokenOf(q, w))
           IN  /\ IsOpen(q, w, D, V) => next \in Seq(Token) /\ IsOpen(m, w, D, next)
               /\ IsClosing(q, w, D, V) => next \in Seq(Token) /\ IsClosing(m, w, D, next)
  <2> HIDE DEF m, taken
  <2> QED
    BY ONLY <1>1, InShape(q), TokenTaken
<1>4. p = Settle(m, DOMAIN In!TransferAll(m).termination)
  BY DEF In!commit, Settle
<1>5. ASSUME NEW w \in In!WriterSet(q), w \notin taken, In!Waiting(q, w),
             NEW count \in Nat, Serves(q, w, count)
      PROVE  Serves(m, w, count + 1)
  BY <1>5, TurnNearer
<1> HIDE DEF m, taken
<1>6. Filling(m)
  <2> SUFFICES ASSUME NEW w \in In!WriterSet(q)
               PROVE  \E D, V \in Seq(Token) : IsOpen(m, w, D, V) \/ IsClosing(m, w, D, V)
    BY <1>3 DEF Filling
  <2>1. PICK D \in Seq(Token), V \in Seq(Token) : IsOpen(q, w, D, V) \/ IsClosing(q, w, D, V)
    BY DEF Filling
  <2>2. CASE w \in taken
    <3>1. LET next == Append(V, In!TokenOf(q, w))
          IN  next \in Seq(Token) /\ (IsOpen(m, w, D, next) \/ IsClosing(m, w, D, next))
      BY <1>3, <2>1, <2>2
    <3> QED
      BY <3>1
  <2>3. CASE w \notin taken
    <3>1. IsOpen(m, w, D, V) \/ IsSettled(m, w, D, V)
      BY <1>3, <2>1, <2>3 DEF Keeps, IsSettled
    <3> QED
      BY <3>1, <1>3 DEF IsSettled, IsGone
  <2> QED
    BY <2>2, <2>3
<1>7. /\ p.writers = In!Ascending(In!WriterSet(p))
      /\ m.writers = In!Ascending(In!WriterSet(m))
           /\ In!WriterSet(p) = In!WriterSet(m) => StaysInTurn(p, m)
  BY ONLY <1>3, <1>4, <1>6, SettledInTurn
<1>8. ASSUME In!WriterSet(p) = In!WriterSet(q), NEW w \in In!WriterSet(q),
             NEW count \in Nat, Serves(q, w, count)
      PROVE  Serves(p, w, IF w \in taken THEN 0
                          ELSE IF In!Waiting(q, w) THEN count + 1 ELSE count)
  <2>1. CASE w \in taken \/ ~In!Waiting(q, w)
    BY <2>1, <1>8 DEF Serves
  <2>2. CASE w \notin taken /\ In!Waiting(q, w)
    <3>1. Serves(m, w, count + 1) /\ StaysInTurn(p, m) /\ w \in In!WriterSet(m)
      BY <1>2, <1>3, <1>5, <1>7, <1>8, <2>2
    <3>2. Serves(p, w, count + 1)
      BY ONLY <3>1, StillServes
    <3> QED
      BY <2>2, <3>2
  <2> QED
    BY <2>1, <2>2
<1> QED
  BY <1>7, <1>8 DEF taken

(* Steps that do not read from a queue.                                    *)
LEMMA ServedGoesOn ==
  ASSUME ServedInv, conf' = conf, conf \in Scenarios, NEW r,
         \A i \in Ins : i # r => inq'[i] = inq[i],
         TurnGoesOn(r),
         \A l \in Links :
           \/ passed'[l] = 0
           \/ /\ passed'[l] = passed[l]
              /\ l[2] = r => In!WriterSet(inq'[r]) = In!WriterSet(inq[r])
  PROVE  ServedInv'
<1> SUFFICES ASSUME conf.in = "unordered"
             PROVE  /\ \A i \in Ins : inq'[i].writers = In!Ascending(In!WriterSet(inq'[i]))
                    /\ \A l \in Links :
                         /\ passed'[l] \in Nat
                         /\ l[1] \in In!WriterSet(inq'[l[2]]) => Serves(inq'[l[2]], l[1], passed'[l])
  BY DEF ServedInv, HasWriter, Links, Ins
<1>1. ASSUME NEW i \in Ins PROVE inq'[i].writers = In!Ascending(In!WriterSet(inq'[i]))
  BY DEF ServedInv, TurnGoesOn
<1>2. ASSUME NEW l \in Links PROVE passed'[l] \in Nat
  BY DEF ServedInv
<1>3. ASSUME NEW l \in Links, l[1] \in In!WriterSet(inq'[l[2]])
      PROVE  Serves(inq'[l[2]], l[1], passed'[l])
  <2>1. CASE passed'[l] = 0
    BY <2>1 DEF Serves
  <2>2. CASE passed'[l] # 0 /\ l[2] # r
    <3>1. inq'[l[2]] = inq[l[2]] /\ passed'[l] = passed[l]
      BY <2>2, LinkEnds
    <3> QED
      BY <3>1, <1>3 DEF ServedInv, HasWriter
  <2>3. CASE passed'[l] # 0 /\ l[2] = r
    <3>1. r \in Ins
      BY <2>3, LinkEnds
    <3>2. /\ In!WriterSet(inq'[r]) = In!WriterSet(inq[r]) /\ passed'[l] = passed[l]
          /\ StaysInTurn(inq'[r], inq[r])
      BY <2>3, <3>1 DEF ServedInv, TurnGoesOn
    <3>3. l[1] \in In!WriterSet(inq[r]) /\ Serves(inq[r], l[1], passed[l])
      BY <1>3, <2>3, <3>2 DEF ServedInv, HasWriter
    <3>4. Serves(inq'[r], l[1], passed[l])
      BY ONLY <3>2, <3>3, StillServes
    <3> QED
      BY <2>3, <3>2, <3>4
  <2> QED
    BY <2>1, <2>2, <2>3
<1> QED
  BY <1>1, <1>2, <1>3

LEMMA ServedStill ==
  ASSUME ServedInv, conf' = conf, conf \in Scenarios, inq' = inq, passed' = passed
  PROVE  ServedInv'
BY DEF ServedInv, HasWriter, Links, Ins

LEMMA ServedInit ==
  ASSUME Init
  PROVE  ServedInv
<1> DEFINE first == conf.links \ conf.late
<1>1. /\ conf \in Scenarios /\ first \in SUBSET Links
      /\ inq = [i \in Ins |-> In!NewInQueue(conf.in, WritersOf(first, i))]
      /\ passed = [l \in Links |-> 0]
  BY DEF Init, Links
<1>2. ASSUME NEW i \in Ins
      PROVE  inq[i].writers = In!Ascending(In!WriterSet(inq[i]))
  <2> DEFINE q == inq[i]
             W == WritersOf(first, i)
             kind == conf.in
  <2>1. W \in SUBSET Nat /\ IsFiniteSet(W)
    BY <1>1, WritersFinite
  <2>2. q = In!NewInQueue(kind, W)
    BY <1>1
  <2> HIDE DEF q, W, kind
  <2>3. In!WriterSet(q) = W
    BY ONLY <2>1, <2>2, InStarts
  <2>4. q.writers = In!Ascending(W)
    BY ONLY <2>2 DEF In!NewInQueue
  <2> QED
    BY <2>3, <2>4 DEF q
<1>3. \A l \in Links : passed[l] \in Nat /\ Serves(inq[l[2]], l[1], passed[l])
  BY <1>1 DEF Serves
<1> QED
  BY <1>2, <1>3 DEF ServedInv

LEMMA ConsumeServes ==
  ASSUME ChannelInv, ServedInv, NEW i \in Ins, Consume(i)
  PROVE  ServedInv'
<1> DEFINE q == inq[i]
           taken == In!peek(q).taken
           p == In!commit(In!peek(q).queue)
<1>1. /\ q.writers # <<>> /\ In!tokens_available(q)
      /\ conf' = conf /\ inq' = [inq EXCEPT ![i] = p]
      /\ passed' = [l \in Links |->
           IF l[2] # i THEN passed[l]
           ELSE IF In!WriterSet(inq'[i]) # In!WriterSet(q) \/ l[1] \in taken THEN 0
           ELSE IF l[1] \in In!WriterSet(q) /\ In!Waiting(q, l[1]) THEN passed[l] + 1
           ELSE passed[l]]
  BY DEF Consume, CanConsume
<1>2. /\ inq'[i] = p /\ \A j \in Ins : j # i => inq'[j] = inq[j]
  BY <1>1 DEF ChannelInv, Shared
<1>3. InShape(q) /\ Filling(q) /\ q.kind = conf.in /\ conf \in Scenarios
  BY QueueFilling DEF ChannelInv, InRight, Shared
<1> SUFFICES ASSUME conf.in = "unordered"
             PROVE  /\ \A j \in Ins : inq'[j].writers = In!Ascending(In!WriterSet(inq'[j]))
                    /\ \A l \in Links :
                         /\ passed'[l] \in Nat
                         /\ l[1] \in In!WriterSet(inq'[l[2]]) => Serves(inq'[l[2]], l[1], passed'[l])
  BY <1>1 DEF ServedInv, HasWriter, Links, Ins
<1>4. /\ \A j \in Ins : inq[j].writers = In!Ascending(In!WriterSet(inq[j]))
      /\ \A l \in Links :
           /\ passed[l] \in Nat
           /\ l[1] \in In!WriterSet(inq[l[2]]) => Serves(inq[l[2]], l[1], passed[l])
  BY DEF ServedInv, HasWriter
<1>5. /\ p.writers = In!Ascending(In!WriterSet(p))
      /\ In!WriterSet(p) = In!WriterSet(q) =>
           \A w \in In!WriterSet(q) : \A count \in Nat :
             Serves(q, w, count) =>
               Serves(p, w, IF w \in taken THEN 0
                            ELSE IF In!Waiting(q, w) THEN count + 1 ELSE count)
  <2>1. InShape(q) /\ Filling(q) /\ q.kind = "unordered"
        /\ q.writers # <<>> /\ In!tokens_available(q)
        /\ q.writers = In!Ascending(In!WriterSet(q)) /\ p = In!commit(In!peek(q).queue)
    BY <1>1, <1>3, <1>4
  <2> HIDE DEF q, p
  <2> QED
    BY ONLY <2>1, ServesOn
<1> HIDE DEF taken, p
<1>6. ASSUME NEW j \in Ins PROVE inq'[j].writers = In!Ascending(In!WriterSet(inq'[j]))
  BY <1>2, <1>4, <1>5
<1>7. ASSUME NEW l \in Links PROVE passed'[l] \in Nat
  BY <1>1, <1>4
<1>8. ASSUME NEW l \in Links, l[1] \in In!WriterSet(inq'[l[2]])
      PROVE  Serves(inq'[l[2]], l[1], passed'[l])
  <2>1. CASE l[2] # i
    <3>1. inq'[l[2]] = inq[l[2]] /\ passed'[l] = passed[l]
      BY <1>1, <1>2, <1>3, <2>1, LinkEnds
    <3> QED
      BY <3>1, <1>4, <1>8
  <2>2. CASE l[2] = i /\ In!WriterSet(p) # In!WriterSet(q)
    <3>1. passed'[l] = 0
      BY <1>1, <1>2, <2>2
    <3> QED
      BY <3>1 DEF Serves
  <2>3. CASE l[2] = i /\ In!WriterSet(p) = In!WriterSet(q)
    <3>1. l[1] \in In!WriterSet(q) /\ passed[l] \in Nat /\ Serves(q, l[1], passed[l])
      BY <1>2, <1>4, <1>8, <2>3
    <3>2. passed'[l] = IF l[1] \in taken THEN 0
                       ELSE IF In!Waiting(q, l[1]) THEN passed[l] + 1 ELSE passed[l]
      BY <1>1, <1>2, <2>3, <3>1
    <3> HIDE DEF q
    <3>3. Serves(p, l[1], IF l[1] \in taken THEN 0
                          ELSE IF In!Waiting(q, l[1]) THEN passed[l] + 1 ELSE passed[l])
      BY ONLY <1>5, <2>3, <3>1
    <3> QED
      BY <1>2, <2>3, <3>2, <3>3
  <2> QED
    BY <2>1, <2>2, <2>3
<1> QED
  BY <1>6, <1>7, <1>8

(* Steps of a link.                                                        *)
LEMMA WrittenServes ==
  ASSUME ChannelInv, ServedInv, NEW l \in Links,
         conf' = conf, passed' = passed, \A i \in Ins : i # l[2] => inq'[i] = inq[i],
         StaysInTurn(inq'[l[2]], inq[l[2]])
  PROVE  ServedInv'
<1> DEFINE r == l[2]
<1>1. TurnGoesOn(r) /\ In!WriterSet(inq'[r]) = In!WriterSet(inq[r])
  BY StaysGoesOn, SameWritersListed DEF StaysInTurn
<1>2. conf \in Scenarios
  BY DEF ChannelInv, Shared
<1>3. \A i \in Ins : i # r => inq'[i] = inq[i]
  OBVIOUS
<1> HIDE DEF r
<1> QED
  BY <1>1, <1>2, <1>3, ServedGoesOn

LEMMA LinkServes ==
  ASSUME ChannelInv, ServedInv, Faultless, NEW l \in Links,
         \/ CommunicateLocal(l) \/ ReceiveToken(l) \/ ExhaustIn(l)
         \/ DisconnectionRequestIn(l) \/ DisconnectedPeerIn(l) \/ ExhaustLocal(l) \/ Join(l)
  PROVE  ServedInv'
<1>1. conf \in Scenarios /\ DOMAIN inq = Ins /\ l[2] \in Ins
  BY LinkEnds DEF ChannelInv, Shared
<1>2. CASE CommunicateLocal(l) \/ ReceiveToken(l) \/ ExhaustIn(l)
  <2>1. conf' = conf /\ passed' = passed /\ \A i \in Ins : i # l[2] => inq'[i] = inq[i]
    BY <1>1, <1>2 DEF CommunicateLocal, ReceiveToken, ExhaustIn, told
  <2>2. StaysInTurn(inq'[l[2]], inq[l[2]])
    BY <1>2, CommunicateLocalKeeps, ReceiveTokenKeeps, ExhaustInKeeps
  <2> QED
    BY <2>1, <2>2, WrittenServes
<1>3. CASE DisconnectionRequestIn(l) \/ DisconnectedPeerIn(l) \/ ExhaustLocal(l)
  <2>1. TurnGoesOn(l[2])
    BY <1>3, DisconnectionRequestInKeeps, DisconnectedPeerInKeeps, ExhaustLocalKeeps
  <2>2. /\ conf' = conf /\ \A i \in Ins : i # l[2] => inq'[i] = inq[i]
        /\ passed' = [m \in Links |->
             IF m[2] = l[2] /\ In!WriterSet(inq'[l[2]]) # In!WriterSet(inq[l[2]])
             THEN 0 ELSE passed[m]]
    BY <1>1, <1>3 DEF DisconnectionRequestIn, DisconnectedPeerIn, ExhaustLocal, ExhaustedTokens
  <2>3. \A m \in Links :
          \/ passed'[m] = 0
          \/ /\ passed'[m] = passed[m]
             /\ m[2] = l[2] => In!WriterSet(inq'[l[2]]) = In!WriterSet(inq[l[2]])
    BY <2>2
  <2> DEFINE r == l[2]
  <2> HIDE DEF r
  <2> QED
    BY <1>1, <2>1, <2>2, <2>3, ServedGoesOn DEF r
<1>4. CASE Join(l)
  <2>1. TurnGoesOn(l[2])
    BY <1>4, JoinKeeps
  <2>2. /\ conf' = conf /\ \A i \in Ins : i # l[2] => inq'[i] = inq[i]
        /\ passed' = [m \in Links |-> IF m[2] = l[2] THEN 0 ELSE passed[m]]
    BY <1>1, <1>4 DEF Join
  <2>3. \A m \in Links :
          \/ passed'[m] = 0
          \/ /\ passed'[m] = passed[m]
             /\ m[2] = l[2] => In!WriterSet(inq'[l[2]]) = In!WriterSet(inq[l[2]])
    BY <2>2
  <2> QED
    BY <1>1, <2>1, <2>2, <2>3, ServedGoesOn
<1> QED
  BY <1>2, <1>3, <1>4

LEMMA ServedNext ==
  ASSUME ChannelInv, ServedInv, Faultless, [Next]_vars
  PROVE  ServedInv'
<1>1. CASE UNCHANGED vars
  BY <1>1, ServedStill DEF vars, queues, told, ChannelInv, Shared
<1>2. ASSUME NEW o \in Outs, Produce(o) PROVE ServedInv'
  BY <1>2, ServedStill DEF Produce, told, ChannelInv, Shared
<1>3. ASSUME NEW i \in Ins, Consume(i) PROVE ServedInv'
  BY <1>3, ConsumeServes
<1>4. ASSUME NEW l \in Links,
             \/ Communicate(l) \/ ReceiveReply(l) \/ ExhaustOut(l)
             \/ DisconnectionRequestOut(l) \/ DisconnectedPeerOut(l)
      PROVE  ServedInv'
  <2>1. conf' = conf /\ inq' = inq /\ passed' = passed
    BY <1>4 DEF Communicate, ReceiveReply, ExhaustOut, DisconnectionRequestOut,
                DisconnectedPeerOut, queues, told
  <2> QED
    BY <2>1, ServedStill DEF ChannelInv, Shared
<1> QED
  BY <1>1, <1>2, <1>3, <1>4, LinkServes DEF Next, Transmit, ArriveIn, ArriveOut

(* An inport that takes tokens as they come serves its writers in turn:    *)
(* CollectUnordered.peek and turn_pos (collect_unordered.py), while        *)
(* writers come and go and exhausted tokens fill up their rings.           *)
THEOREM WritersServedInTurn == Spec => [](Faultless => ServedInTurn)
<1> DEFINE Inv == ChannelInv /\ ServedInv
<1>1. Init => (Faultless => Inv)
  BY ChannelInit, ServedInit
<1>2. (Faultless => Inv) /\ [Next]_vars => (Faultless => Inv)'
  <2>1. [Next]_vars => (Faultless' <=> Faultless)
    BY ScenarioStays DEF Faultless
  <2> QED
    BY <2>1, ChannelNext, ServedNext
<1>3. (Faultless => Inv) => (Faultless => ServedInTurn)
  <2> SUFFICES ASSUME ChannelInv, ServedInv, conf.in = "unordered", NEW l \in Links, HasWriter(l)
               PROVE  passed[l] < Len(inq[l[2]].writers)
    BY DEF ServedInTurn
  <2> DEFINE q == inq[l[2]]
             n == Len(q.writers)
  <2>1. passed[l] \in Nat /\ Serves(q, l[1], passed[l]) /\ InShape(q)
    BY LinkFacts DEF ServedInv, InRight
  <2>2. n \in Nat \ {0}
    <3>1. q.writers \in Seq(Nat) /\ q.writers # <<>>
      BY <2>1, AscendingList DEF InShape, HasWriter, In!WriterSet
    <3> QED
      BY <3>1
  <2>3. passed[l] = 0 \/ \E d \in 0 .. n - 1 : passed[l] + d <= n - 1
    BY <2>1 DEF Serves
  <2> HIDE DEF n
  <2>4. passed[l] < n
    BY <2>1, <2>2, <2>3
  <2> QED
    BY <2>4 DEF n
<1> QED
  BY <1>1, <1>2, <1>3, PTL DEF Spec

-----------------------------------------------------------------------------
(* A link that the outport is attached to has room for what the two rings  *)
(* hold.                                                                   *)
LEMMA AttachedHolds ==
  ASSUME ChannelInv, NEW l \in Links, Attached(l)
  PROVE  Len(dispatched[l]) - Len(delivered[l]) <= (OutN - 1) + (InN - 1)
<1> DEFINE D == dispatched[l]
           V == delivered[l]
           q == outq[l[1]]
           from == q.reader_offset[l[2]]
           pos == q.read_pos[l[2]]
           to == q.write_pos[l[2]]
           stored == inq[l[2]].write_pos[l[1]]
           L == Len(D)
           read == Len(V)
<1>1. /\ from \in Nat /\ pos \in from .. to /\ to \in Nat /\ to - pos <= OutN - 1
      /\ to - from = L /\ pos - from <= stored
  BY DEF Attached, Sends
<1>2. stored \in Nat /\ stored - read <= InN - 1
  BY DEF Attached, Opened, IsOpen, Stores
<1>3. L \in Nat /\ read \in Nat
  BY LinkFacts, LenProperties
<1> HIDE DEF from, pos, to, stored, L, read
<1>4. L - read <= (OutN - 1) + (InN - 1)
  BY ONLY <1>1, <1>2, <1>3, LengthAssumption
<1> QED
  BY <1>4 DEF L, read

(* What is known of each link.                                             *)
LinksRight ==
  \A l \in Links :
    /\ dispatched[l] \in Seq(Token) /\ delivered[l] \in Seq(Token)
    /\ Stores(inq[l[2]], l[1], dispatched[l], delivered[l]) \/ delivered[l] = dispatched[l]
    /\ l \in out_endpoint =>
         Len(dispatched[l]) - Len(delivered[l]) <= (OutN - 1) + (InN - 1)

LEMMA RightNow == ChannelInv => LinksRight
<1> SUFFICES ASSUME ChannelInv, NEW l \in Links
             PROVE  /\ dispatched[l] \in Seq(Token) /\ delivered[l] \in Seq(Token)
                    /\ \/ Stores(inq[l[2]], l[1], dispatched[l], delivered[l])
                       \/ delivered[l] = dispatched[l]
                    /\ l \in out_endpoint =>
                         Len(dispatched[l]) - Len(delivered[l]) <= (OutN - 1) + (InN - 1)
  BY DEF LinksRight
<1>1. LinkInv(l) /\ dispatched[l] \in Seq(Token) /\ delivered[l] \in Seq(Token)
  BY LinkFacts
<1>2. Stores(inq[l[2]], l[1], dispatched[l], delivered[l]) \/ delivered[l] = dispatched[l]
  BY <1>1 DEF LinkInv, Attached, HandedOver, Settled, Opened, IsOpen, IsSettled, IsClosing, IsGone
<1> QED
  BY <1>1, <1>2, LinkFacts, AttachedHolds

LEMMA RightAfter == ChannelInv' => LinksRight'
BY RightNow, PTL

(* A step after which the outport is attached finds room on the link for   *)
(* what it sends.                                                          *)
LEMMA FullLinkWaits ==
  ASSUME ChannelInv, ChannelInv', NEW l \in Links, l \in out_endpoint', UNCHANGED <<conf, delivered>>,
         NEW t, dispatched'[l] = Append(dispatched[l], t)
  PROVE  /\ Len(dispatched[l]) - Len(delivered[l]) < (OutN - 1) + (InN - 1)
         /\ t \in Token
<1> DEFINE L == Len(dispatched[l])
           M == Len(dispatched'[l])
           read == Len(delivered[l])
<1>1. l \in Links' /\ delivered'[l] = delivered[l]
  BY DEF Links
<1>2. M - read <= (OutN - 1) + (InN - 1) /\ dispatched'[l] \in Seq(Token)
  BY <1>1, RightAfter DEF LinksRight
<1>3. /\ L \in Nat /\ read \in Nat /\ M = L + 1
      /\ dispatched'[l][L + 1] = t
  <2>1. dispatched[l] \in Seq(Token) /\ delivered[l] \in Seq(Token)
    BY LinkFacts
  <2> QED
    BY <2>1, LenProperties
<1>4. t \in Token
  BY <1>2, <1>3, ElementOfSeq
<1> HIDE DEF L, M, read
<1>5. L - read < (OutN - 1) + (InN - 1)
  BY ONLY <1>2, <1>3, LengthAssumption
<1> QED
  BY <1>4, <1>5 DEF L, read

LEMMA ProduceSends ==
  ASSUME ChannelInv, ChannelInv', NEW o \in Outs, Produce(o)
  PROVE  [Channels!Next]_Channels!vars
<1>1. UNCHANGED <<conf, out_endpoint, delivered>>
  BY DEF Produce, ends
<1>2. PICK token \in {serial'} \cup (IF conf.exceptions THEN {-serial'} ELSE {}),
           to \in Out!Destinations(outq[o], ReadersOf(Links, o)) :
        IF Out!TurnRaises(outq[o]) \/ ~(to \subseteq Out!ReaderSet(outq[o]))
        THEN UNCHANGED <<outq, dispatched, turns>>
        ELSE dispatched' = [l \in Links |-> IF l[1] = o /\ l[2] \in to
                                            THEN Append(dispatched[l], token)
                                            ELSE dispatched[l]]
  BY DEF Produce
<1>3. CASE UNCHANGED dispatched
  BY <1>1, <1>3 DEF Channels!vars
<1>4. CASE dispatched' # dispatched
  <2> DEFINE some == {l \in Links : l[1] = o /\ l[2] \in to}
  <2>1. /\ to \subseteq Out!ReaderSet(outq[o])
        /\ dispatched' = [l \in Links |-> IF l \in some THEN Append(dispatched[l], token)
                                          ELSE dispatched[l]]
    BY <1>2, <1>4
  <2>2. ASSUME NEW l \in some
        PROVE  /\ Len(dispatched[l]) - Len(delivered[l]) < (OutN - 1) + (InN - 1)
               /\ token \in Token
    <3>1. l \in Links /\ HasReader(l)
      BY <2>1 DEF HasReader
    <3>2. l \in out_endpoint
      BY <3>1, LinkFacts DEF LinkInv, Attached, HandedOver, Settled
    <3>3. dispatched'[l] = Append(dispatched[l], token)
      BY <2>1, <3>1
    <3> QED
      BY <1>1, <3>1, <3>2, <3>3, FullLinkWaits
  <2>3. some # {}
    <3>1. dispatched = [l \in Links |-> dispatched[l]]
      BY DEF ChannelInv, Shared
    <3> HIDE DEF some
    <3> QED
      BY <1>4, <2>1, <3>1
  <2>4. token \in Token
    BY <2>2, <2>3
  <2>5. \A l, m \in some : l[1] = m[1]
    OBVIOUS
  <2>6. some \in SUBSET conf.links
    BY DEF Links
  <2> HIDE DEF some
  <2>7. Channels!Send(token, some)
    BY <1>1, <2>1, <2>2, <2>5 DEF Channels!Send, Links
  <2> QED
    BY <2>4, <2>6, <2>7 DEF Channels!Next
<1> QED
  BY <1>3, <1>4

(* What has just been read from a link is what has been sent next.         *)
LEMMA ReadsWhatIsSent ==
  ASSUME ChannelInv, ChannelInv', NEW l \in Links, UNCHANGED <<conf, dispatched>>,
         NEW t, delivered'[l] = Append(delivered[l], t)
  PROVE  /\ Len(delivered[l]) < Len(dispatched[l])
         /\ t = dispatched[l][Len(delivered[l]) + 1]
<1> DEFINE D == dispatched[l]
           V == delivered[l]
           W == delivered'[l]
           n == Len(V)
<1>1. l \in Links' /\ dispatched'[l] = D
  BY DEF Links
<1>2. Stores(inq'[l[2]], l[1], D, W) \/ W = D
  BY <1>1, RightAfter DEF LinksRight, Stores
<1>3. D \in Seq(Token) /\ V \in Seq(Token) /\ W \in Seq(Token)
  BY <1>1, LinkFacts, RightAfter DEF LinksRight
<1> HIDE DEF D, W
<1>4. n \in Nat /\ Len(D) \in Nat /\ Len(W) = n + 1 /\ W[n + 1] = t
  BY <1>3, LenProperties DEF W
<1>5. Len(W) <= Len(D) /\ \A k \in 1 .. Len(W) : W[k] = D[k]
  BY <1>2, <1>4 DEF Stores
<1>6. n < Len(D) /\ n + 1 \in 1 .. Len(W)
  BY ONLY <1>4, <1>5
<1> QED
  BY <1>4, <1>5, <1>6 DEF D

LEMMA ConsumeReceives ==
  ASSUME ChannelInv, ChannelInv', NEW i \in Ins, Consume(i)
  PROVE  Channels!Next
<1> DEFINE taken == In!peek(inq[i]).taken
           some == {l \in Links : l[2] = i /\ l[1] \in taken}
<1>1. /\ UNCHANGED <<conf, dispatched>>
      /\ delivered' = [l \in Links |->
           IF l \in some THEN Append(delivered[l], In!TokenOf(inq[i], l[1])) ELSE delivered[l]]
  BY DEF Consume
<1>2. some \in SUBSET conf.links /\ \A l, m \in some : l[2] = m[2]
  BY DEF Links
<1> HIDE DEF some
<1>3. ASSUME NEW l \in some
      PROVE  /\ Len(delivered[l]) < Len(dispatched[l])
             /\ delivered'[l] = Append(delivered[l], dispatched[l][Len(delivered[l]) + 1])
  <2>1. l \in Links /\ delivered'[l] = Append(delivered[l], In!TokenOf(inq[i], l[1]))
    BY <1>1, <1>2 DEF Links
  <2> QED
    BY <1>1, <2>1, ReadsWhatIsSent
<1>4. delivered' = [l \in Links |->
        IF l \in some THEN Append(delivered[l], dispatched[l][Len(delivered[l]) + 1])
        ELSE delivered[l]]
  BY <1>1, <1>3
<1>5. Channels!Receive(some)
  BY <1>1, <1>2, <1>3, <1>4 DEF Channels!Receive, Links
<1> QED
  BY <1>2, <1>5 DEF Channels!Next

LastOf(q, D) ==
  \E s \in Out!ReaderSet(q) : \A E \in Seq(Token) :
    Sends(q, s, E) => \E k \in 1 .. Len(E) : D = SubSeq(E, k, Len(E))

(* The tokens that the reader of a replica starts with are the last that   *)
(* another reader was sent.                                                *)
LEMMA StartsWithSuffix ==
  ASSUME NEW q, OutShape(q), NEW r \in Nat, r \notin Out!ReaderSet(q),
         Out!ReaderSet(q) # {},
         \A s \in Out!ReaderSet(q) : \E E \in Seq(Token) : Sends(q, s, E),
         NEW w, w = Out!add_reader(q, r),
         NEW held, held = Out!Remaining(w, r),
         NEW D, D = [k \in DOMAIN held |-> held[k].token]
  PROVE  D = <<>> \/ LastOf(q, D)
<1> DEFINE s == CHOOSE p \in Out!ReaderSet(q) :
                   \A v \in Out!ReaderSet(q) : q.read_pos[p] <= q.read_pos[v]
           late == q.kind = "fanout"
           from == IF late THEN q.read_pos[s] ELSE 0
           to == IF late THEN q.write_pos[s] ELSE 0
           ring == IF late THEN q.fifo[s] ELSE Out!EmptyRing
<1>1. s \in Out!ReaderSet(q)
  BY OldestExists
<1> HIDE DEF s
<1>2. DOMAIN q = OutFields
  BY DEF OutShape, HasReaders
<1>3. /\ w.fifo = Out!With(q.fifo, r, ring) /\ w.write_pos = Out!With(q.write_pos, r, to)
      /\ w.read_pos = Out!With(q.read_pos, r, from)
  BY <1>2, Zenon DEF Out!add_reader, OutFields, s
<1>4. w.fifo[r] = ring /\ w.write_pos[r] = to /\ w.read_pos[r] = from
  BY <1>3 DEF Out!With
<1>5. D = [k \in 1 .. to - from |-> ring[(from + k - 1) % OutN]]
  <2> HIDE DEF from, to, ring
  <2>1. held = [k \in 1 .. to - from |->
                  [seq |-> from + k - 1, token |-> ring[(from + k - 1) % OutN]]]
    BY <1>4 DEF Out!Remaining
  <2>2. DOMAIN held = 1 .. to - from
    BY <2>1
  <2>3. \A k \in 1 .. to - from : held[k].token = ring[(from + k - 1) % OutN]
    BY <2>1
  <2> QED
    BY <2>2, <2>3
<1>6. CASE ~late
  <2>1. from = 0 /\ to = 0 /\ 1 .. 0 - 0 = {}
    BY <1>6
  <2> HIDE DEF from, to, ring
  <2> QED
    BY <1>5, <2>1
<1>7. CASE late
  <2> DEFINE off == q.reader_offset[s]
             a == q.read_pos[s]
             b == q.write_pos[s]
  <2>1. from = a /\ to = b /\ ring = q.fifo[s]
    BY <1>7
  <2> SUFFICES ASSUME D # <<>>, NEW E \in Seq(Token), Sends(q, s, E)
               PROVE  \E k \in 1 .. Len(E) : D = SubSeq(E, k, Len(E))
    BY <1>1 DEF LastOf
  <2>2. /\ off \in Nat /\ a \in off .. b /\ b \in Nat /\ b - off = Len(E)
        /\ \A k \in a .. b - 1 : ring[k % OutN] = E[k - off + 1]
    BY <2>1 DEF Sends
  <2>3. D = [k \in 1 .. b - a |-> ring[(a + k - 1) % OutN]]
    BY <1>5, <2>1
  <2> HIDE DEF off, a, b, from, to, ring, late
  <2>4. a # b
    <3> SUFFICES ASSUME a = b PROVE D = <<>>
      OBVIOUS
    <3>1. 1 .. b - a = {}
      BY <2>2
    <3> QED
      BY ONLY <2>3, <3>1
  <2> DEFINE k == a - off + 1
             n == Len(E)
  <2>5. /\ k \in 1 .. n /\ n \in Nat /\ n - k + 1 = b - a
        /\ b - a \in Nat
        /\ \A j \in 1 .. b - a : /\ a + j - 1 \in a .. b - 1
                                 /\ (a + j - 1) - off + 1 = k + j - 1
                                 /\ k + j - 1 \in 1 .. n
    <3>1. n \in Nat /\ n = b - off
      BY <2>2, LenProperties
    <3> HIDE DEF n
    <3> QED
      BY ONLY <2>2, <2>4, <3>1
  <2>6. \A j \in 1 .. b - a : ring[(a + j - 1) % OutN] = E[k + j - 1]
    BY ONLY <2>2, <2>5
  <2>7. D = [j \in 1 .. b - a |-> E[k + j - 1]]
    BY ONLY <2>3, <2>6
  <2> HIDE DEF k, n
  <2>8. D = SubSeq(E, k, n)
    <3>1. \A j \in 1 .. b - a : E[k + j - 1] \in Token
      BY <2>5, ElementOfSeq DEF n
    <3>2. D \in Seq(Token) /\ Len(D) = b - a
      <4>1. D \in [1 .. b - a -> Token]
        BY ONLY <2>7, <3>1
      <4> QED
        BY ONLY <2>5, <4>1, IsList
    <3>3. k \in 1 .. Len(E) + 1 /\ n \in k - 1 .. Len(E)
      BY <2>5 DEF n
    <3>4. /\ SubSeq(E, k, n) \in Seq(Token) /\ Len(SubSeq(E, k, n)) = b - a
          /\ \A j \in 1 .. b - a : SubSeq(E, k, n)[j] = E[k + j - 1]
      BY <2>5, <3>3
    <3> QED
      BY <2>7, <3>2, <3>4, SeqEqual
  <2> QED
    BY <2>5, <2>8 DEF n
<1> QED
  BY <1>6, <1>7

LEMMA JoinStarts ==
  ASSUME ChannelInv, ChannelInv', NEW l \in Links, Join(l)
  PROVE  [Channels!Next]_Channels!vars
<1> DEFINE o == l[1]
           r == l[2]
           q == outq[o]
           w == Out!add_reader(q, r)
           held == Out!Remaining(w, r)
           D == [k \in DOMAIN held |-> held[k].token]
<1>1. /\ l \in unjoined /\ out_endpoint' = out_endpoint \cup {l}
      /\ dispatched' = [dispatched EXCEPT ![l] = D]
      /\ UNCHANGED <<conf, delivered>>
  BY DEF Join
<1>2. PICK m \in out_endpoint : m[1] = o
  BY DEF Join
<1>3. Fresh(l) /\ OutRight(o) /\ r \in Nat
  BY <1>1, LinkFacts, LinkEnds DEF ChannelInv, Shared
<1>4. OutShape(q) /\ r \notin Out!ReaderSet(q)
  BY <1>3 DEF Fresh, OutRight, HasReader
<1>5. Out!ReaderSet(q) # {}
  <2>1. m \in Links /\ Attached(m)
    BY LinkFacts DEF ChannelInv, Shared
  <2> QED
    BY <1>2, <2>1 DEF Attached, HasReader
<1>6. ASSUME NEW s \in Out!ReaderSet(q)
      PROVE  /\ <<o, s>> \in Links /\ dispatched[<<o, s>>] \in Seq(Token)
             /\ Sends(q, s, dispatched[<<o, s>>])
  <2>1. <<o, s>> \in Links /\ HasReader(<<o, s>>)
    BY <1>3, <1>6 DEF OutRight, HasReader
  <2>2. Attached(<<o, s>>) /\ dispatched[<<o, s>>] \in Seq(Token)
    BY <2>1, LinkFacts DEF LinkInv, HandedOver, Settled
  <2> QED
    BY <2>1, <2>2 DEF Attached
<1>7. D = <<>> \/ LastOf(q, D)
  <2>1. \A s \in Out!ReaderSet(q) : \E E \in Seq(Token) : Sends(q, s, E)
    BY <1>6
  <2>2. /\ w = Out!add_reader(q, r) /\ held = Out!Remaining(w, r)
        /\ D = [k \in DOMAIN held |-> held[k].token]
    OBVIOUS
  <2> HIDE DEF D, held, w, q, r
  <2> QED
    BY ONLY <1>3, <1>4, <1>5, <2>1, <2>2, StartsWithSuffix
<1>8. /\ dispatched \in [Links -> Seq(Token)] /\ dispatched[l] = <<>>
      /\ dispatched'[l] = D
  BY <1>1, <1>3 DEF ChannelInv, Shared, Fresh
<1> HIDE DEF D
<1>9. CASE D = <<>>
  BY <1>1, <1>8, <1>9 DEF Channels!vars
<1>10. CASE D # <<>>
  <2>1. PICK s \in Out!ReaderSet(q) : \A E \in Seq(Token) : Sends(q, s, E) =>
           \E k \in 1 .. Len(E) : D = SubSeq(E, k, Len(E))
    BY <1>7, <1>10 DEF LastOf
  <2> DEFINE n == <<o, s>>
             L == Len(dispatched[n])
  <2>2. PICK k \in 1 .. L : D = SubSeq(dispatched[n], k, L)
    BY <1>6, <2>1
  <2>3. n \in Links /\ n[1] = o /\ dispatched[n] \in Seq(Token)
    BY <1>6
  <2>4. L - (k - 1) <= (OutN - 1) + (InN - 1)
    <3>1. L \in Nat /\ k \in Nat /\ Len(D) = L - (k - 1)
      BY <2>2, <2>3, LenProperties
    <3>2. l \in Links' /\ l \in out_endpoint' /\ delivered'[l] = <<>>
      BY <1>1, <1>3 DEF Links, Fresh
    <3>3. Len(D) - Len(<<>>) <= (OutN - 1) + (InN - 1)
      <4>1. Len(dispatched'[l]) - Len(delivered'[l]) <= (OutN - 1) + (InN - 1)
        BY <3>2, RightAfter DEF LinksRight
      <4> QED
        BY <1>8, <3>2, <4>1
    <3> HIDE DEF L
    <3> QED
      BY <3>1, <3>3, EmptySeq
  <2> HIDE DEF n
  <2>5. dispatched' = [dispatched EXCEPT ![l] = SubSeq(dispatched[n], k, L)]
    BY <1>1, <2>2 DEF D
  <2>6. Channels!Join(l, n, k)
    BY <1>1, <1>8, <2>3, <2>4, <2>5 DEF Channels!Join
  <2> QED
    BY <2>3, <2>6 DEF Channels!Next, Links
<1> QED
  BY <1>9, <1>10

LEMMA LinkStutters ==
  ASSUME NEW l \in Links, \/ Transmit(l) \/ ArriveIn(l) \/ ArriveOut(l)
                          \/ ExhaustOut(l) \/ ExhaustIn(l) \/ ExhaustLocal(l)
  PROVE  UNCHANGED Channels!vars
<1>1. CASE Transmit(l) \/ ArriveIn(l) \/ ArriveOut(l)
  BY <1>1 DEF Transmit, ArriveIn, ArriveOut, Communicate, CommunicateLocal, ReceiveToken,
              ReceiveReply, DisconnectionRequestIn, DisconnectionRequestOut,
              DisconnectedPeerIn, DisconnectedPeerOut, Channels!vars
<1>2. CASE ExhaustOut(l) \/ ExhaustIn(l) \/ ExhaustLocal(l)
  BY <1>2 DEF ExhaustOut, ExhaustIn, ExhaustLocal, Channels!vars
<1> QED
  BY <1>1, <1>2

(* The ports, their queues and what goes on between them implement a set   *)
(* of reliable channels of the capacity of two queues: fanout_base.py,     *)
(* fanout_fifo.py, collect_base.py, and the endpoints and connections      *)
(* between them, in the same scenarios.                                    *)
THEOREM LinksRefineChannels == Spec => (Faultless => LinksAreChannels)
<1>1. Init => Channels!Init
  BY DEF Init, Channels!Init, Links
<1>2. ChannelInv /\ ChannelInv' /\ [Next]_vars => [Channels!Next]_Channels!vars
  <2> SUFFICES ASSUME ChannelInv, ChannelInv', [Next]_vars PROVE [Channels!Next]_Channels!vars
    OBVIOUS
  <2>1. CASE UNCHANGED vars
    BY <2>1 DEF vars, Channels!vars
  <2>2. ASSUME NEW o \in Outs, Produce(o) PROVE [Channels!Next]_Channels!vars
    BY <2>2, ProduceSends
  <2>3. ASSUME NEW i \in Ins, Consume(i) PROVE [Channels!Next]_Channels!vars
    BY <2>3, ConsumeReceives
  <2>4. ASSUME NEW l \in Links, Join(l) PROVE [Channels!Next]_Channels!vars
    BY <2>4, JoinStarts
  <2> QED
    BY <2>1, <2>2, <2>3, <2>4, LinkStutters DEF Next
<1>3. Faultless /\ [Next]_vars => Faultless'
  BY ScenarioStays DEF Faultless
<1> QED
  BY <1>1, <1>2, <1>3, ChannelAlways, PTL DEF Spec, LinksAreChannels, Channels!Spec

-----------------------------------------------------------------------------
(* Types.  What the invariant of the links does not say: the schedules,    *)
(* and that dictionaries are functions.                                    *)
IsMap(f) == f = [x \in DOMAIN f |-> f[x]]

OutMaps(q) ==
  /\ IsMap(q.fifo) /\ IsMap(q.write_pos) /\ IsMap(q.read_pos)
  /\ IsMap(q.tentative_read_pos) /\ IsMap(q.reader_offset)

OutTyped(q) ==
  /\ q.turn_pos \in Nat /\ q.reader_turn \in Seq(Nat)
  /\ q.kind \in {"ordered", "round-robin"} => Timetable(q)
  /\ OutMaps(q)

LEMMA MapChanged == ASSUME NEW f, NEW x, NEW v PROVE IsMap([f EXCEPT ![x] = v])
BY DEF IsMap

LEMMA MapWithout == ASSUME NEW f, NEW S PROVE IsMap(Out!Without(f, S)) /\ IsMap(In!Without(f, S))
BY DEF IsMap, Out!Without, In!Without

LEMMA MapWith ==
  ASSUME NEW f, NEW x, NEW v PROVE IsMap(Out!With(f, x, v)) /\ IsMap(In!With(f, x, v))
BY DEF IsMap, Out!With, In!With

LEMMA IndexList ==
  ASSUME NEW n \in Nat, NEW s \in Seq(0 .. n - 1)
  PROVE  s \in Seq(Nat)
OBVIOUS

(* A list of numbers stays one when one of them is changed.                *)
LEMMA ListChanged ==
  ASSUME NEW S, NEW s \in Seq(S), NEW k \in Int, NEW v \in S
  PROVE  /\ [s EXCEPT ![k] = v] \in Seq(S)
         /\ Len([s EXCEPT ![k] = v]) = Len(s)
<1>1. Len(s) \in Nat /\ s \in [1 .. Len(s) -> S]
  BY LenProperties
<1>2. [s EXCEPT ![k] = v] \in [1 .. Len(s) -> S]
  BY ONLY <1>1, v \in S
<1> QED
  BY ONLY <1>1, <1>2, IsList

(* Communicating with a reader leaves the schedule alone.                  *)
LEMMA SameReadersTyped ==
  ASSUME NEW q, NEW p, OutTyped(q), SameReaders(p, q), OutMaps(p)
  PROVE  OutTyped(p)
BY DEF OutTyped, SameReaders, Timetable

LEMMA CommunicatingTyped ==
  ASSUME NEW q, DOMAIN q = OutFields, OutTyped(q), NEW r, NEW k, NEW to, NEW token
  PROVE  /\ OutTyped(Out!Peeked(q, r, k))
         /\ OutTyped(Out!Moved(q, r, k))
         /\ OutTyped(Out!com_commit(q, r, k))
         /\ OutTyped(Out!com_cancel(q, r, k))
         /\ OutTyped(Out!Put(q, to, token))
<1> DEFINE p == Out!Put(q, to, token)
<1>1. OutMaps(Out!Peeked(q, r, k))
  BY MapChanged DEF OutTyped, OutMaps, Out!Peeked, OutFields
<1>2. OutMaps(Out!Moved(q, r, k))
  BY MapChanged DEF OutTyped, OutMaps, Out!Moved, OutFields
<1>3. OutMaps(Out!com_commit(q, r, k)) /\ OutMaps(Out!com_cancel(q, r, k))
  BY MapChanged DEF OutTyped, OutMaps, Out!com_commit, Out!com_cancel, OutFields
<1>4. OutMaps(p)
  <2>1. /\ p.fifo = [x \in DOMAIN q.fifo |->
              IF x \in to THEN [q.fifo[x] EXCEPT ![q.write_pos[x] % OutN] = token] ELSE q.fifo[x]]
        /\ p.write_pos = [x \in DOMAIN q.write_pos |->
              IF x \in to THEN q.write_pos[x] + 1 ELSE q.write_pos[x]]
        /\ p.read_pos = q.read_pos /\ p.tentative_read_pos = q.tentative_read_pos
        /\ p.reader_offset = q.reader_offset
    BY DEF Out!Put, OutFields
  <2> HIDE DEF p
  <2>2. IsMap(p.fifo)
    BY <2>1 DEF IsMap
  <2>3. IsMap(p.write_pos)
    BY <2>1 DEF IsMap
  <2> QED
    BY <2>1, <2>2, <2>3 DEF OutTyped, OutMaps
<1> QED
  BY <1>1, <1>2, <1>3, <1>4, CommunicatingSameReaders, SameReadersTyped

(* Writing.                                                                *)
LEMMA TurnedTyped ==
  ASSUME NEW q, HasReaders(q), OutTyped(q), q.readers # <<>>, ~Out!TurnRaises(q),
         NEW p \in Out!Turned(q)
  PROVE  OutTyped(p) /\ DOMAIN p = OutFields
<1> DEFINE n == Len(q.readers)
           t == q.turn_pos
           r == q.reader_turn
<1>1. /\ n \in Nat \ {0} /\ OutN \in Nat \ {0} /\ OutN >= 2 /\ t \in Nat /\ r \in Seq(Nat)
      /\ DOMAIN q = OutFields
  <2>1. q.readers \in Seq(Nat)
    BY AscendingList DEF HasReaders
  <2> QED
    BY <2>1, LengthAssumption DEF OutTyped, HasReaders
<1>2. CASE q.kind \notin Out!TurnKinds
  <2>1. p = q
    BY <1>2 DEF Out!Turned
  <2> QED
    BY <1>1, <2>1
<1>3. CASE q.kind \in Out!TurnKinds
  <2>1. PICK v \in IF q.kind = "random" THEN 0 .. n - 1 ELSE {(Out!TurnAt(q, t - 1) + 1) % n} :
          p = [q EXCEPT !.reader_turn[(t % OutN) + 1] = v, !.turn_pos = @ + 1]
    BY <1>3 DEF Out!Turned
  <2>2. /\ p.reader_turn = [r EXCEPT ![(t % OutN) + 1] = v] /\ p.turn_pos = t + 1
        /\ DOMAIN p = OutFields /\ p.kind = q.kind /\ p.readers = q.readers
    BY <1>1, <2>1 DEF OutFields
  <2>3. OutMaps(p)
    BY <1>1, <2>1 DEF OutTyped, OutMaps, OutFields
  <2> DEFINE k == (t % OutN) + 1
             j == ((t - 1) % OutN) + 1
  <2>4. k \in Int
    <3>1. t \in Int
      BY <1>1
    <3>2. t % OutN \in 0 .. OutN - 1
      BY ONLY <1>1, <3>1, ModRange
    <3> QED
      BY <1>1, <3>2
  <2> HIDE DEF n, t, r, k
  <2>5. CASE q.kind = "random"
    <3>1. v \in Nat
      BY <1>1, <2>1, <2>5
    <3>2. p.reader_turn \in Seq(Nat)
      <4>1. [r EXCEPT ![k] = v] \in Seq(Nat)
        BY ONLY <1>1, <2>4, <3>1, ListChanged
      <4> QED
        BY <2>2, <4>1 DEF k
    <3> QED
      BY <1>1, <2>2, <2>3, <2>5, <3>2 DEF OutTyped
  <2>6. CASE q.kind \in {"ordered", "round-robin"}
    <3>1. Timetable(q) /\ j \in DOMAIN r
      BY <2>6 DEF OutTyped, Out!TurnRaises, t, r
    <3>2. r \in Seq(0 .. n - 1) /\ Len(r) \in Nat /\ Len(r) <= OutN /\ (Len(r) < OutN => t = 0)
      BY <3>1 DEF Timetable, t, r, n
    <3>3. Len(r) = OutN
      <4>1. CASE t = 0
        <5>1. t - 1 \in Int /\ OutN - 1 \in 0 .. OutN - 1 /\ t - 1 + OutN = OutN - 1
          BY <1>1, <4>1
        <5>2. (t - 1 + OutN) % OutN = (t - 1) % OutN
          BY ONLY <1>1, <5>1, ModPlus
        <5>3. (OutN - 1) % OutN = OutN - 1
          BY ONLY <1>1, <5>1, ModSmall
        <5> QED
          BY <1>1, <3>1, <3>2, <5>1, <5>2, <5>3
      <4> QED
        BY <1>1, <3>2, <4>1
    <3>4. Out!TurnAt(q, t - 1) \in Nat
      <4> HIDE DEF j
      <4>1. r[j] \in 0 .. n - 1
        BY ONLY <1>1, <3>1, <3>2
      <4> QED
        BY <1>1, <4>1 DEF Out!TurnAt, r, j
    <3>5. v \in 0 .. n - 1
      <4>1. v = (Out!TurnAt(q, t - 1) + 1) % n
        BY <2>1, <2>6
      <4>2. Out!TurnAt(q, t - 1) + 1 \in Int
        BY <3>4
      <4> QED
        BY ONLY <1>1, <4>1, <4>2, ModRange
    <3>6. p.reader_turn \in Seq(0 .. n - 1) /\ Len(p.reader_turn) = OutN
      <4> DEFINE I == 0 .. n - 1
      <4>0. r \in Seq(I) /\ v \in I
        BY <3>2, <3>5
      <4> HIDE DEF I
      <4>1. /\ [r EXCEPT ![k] = v] \in Seq(I)
            /\ Len([r EXCEPT ![k] = v]) = Len(r)
        BY ONLY <4>0, <2>4, ListChanged
      <4> QED
        BY <2>2, <3>3, <4>1 DEF k, I
    <3>7. p.reader_turn \in Seq(Nat)
      BY <1>1, <3>6, IndexList
    <3>8. p.reader_turn # <<>> /\ n = Len(p.readers) /\ p.turn_pos \in Nat
      BY <1>1, <2>2, <3>6 DEF n
    <3>9. Timetable(p)
      BY <1>1, <3>6, <3>8 DEF Timetable
    <3> QED
      BY <2>2, <2>3, <3>7, <3>8, <3>9 DEF OutTyped
  <2> QED
    BY <1>3, <2>2, <2>5, <2>6 DEF Out!TurnKinds
<1> QED
  BY <1>2, <1>3

LEMMA WrittenTyped ==
  ASSUME NEW q, HasReaders(q), OutTyped(q), q.readers # <<>>, ~Out!TurnRaises(q),
         NEW to, NEW token, NEW p \in Out!write(q, to, token)
  PROVE  OutTyped(p)
<1>1. PICK w \in Out!Turned(q) : p = Out!Put(w, to, token)
  BY DEF Out!write
<1> QED
  BY <1>1, TurnedTyped, CommunicatingTyped

(* A reader that is removed, and one that joins.                           *)
LEMMA RemovedTyped ==
  ASSUME NEW q, HasReaders(q), OutTyped(q), q.kind \in Out!OutKinds,
         NEW r \in Out!ReaderSet(q), NEW p \in Out!remove_reader(q, r)
  PROVE  OutTyped(p)
<1>0. HasReaders(q) /\ r \in Out!ReaderSet(q) /\ p \in Out!remove_reader(q, r)
  OBVIOUS
<1>1. /\ HasReaders(p) /\ p.kind = q.kind
      /\ Out!ReaderSet(p) = Out!ReaderSet(q) \ {r}
      /\ Len(p.readers) = Len(q.readers) - 1
      /\ Len(p.readers) \in Nat
      /\ p.fifo = Out!Without(q.fifo, {r})
      /\ p.write_pos = Out!Without(q.write_pos, {r})
      /\ p.read_pos = Out!Without(q.read_pos, {r})
      /\ p.tentative_read_pos = Out!Without(q.tentative_read_pos, {r})
      /\ p.reader_offset = Out!Without(q.reader_offset, {r})
      /\ p.reader_turn \in Out!ResetTurns(q, Len(q.readers) - 1)
      /\ p.turn_pos = IF q.kind \in Out!TurnKinds THEN 0 ELSE q.turn_pos
  BY <1>0, ReaderRemoved, Zenon
<1>2. OutMaps(p)
  BY <1>1, MapWithout DEF OutMaps
<1>3. p.turn_pos \in Nat
  BY <1>1 DEF OutTyped
<1>4. CASE q.kind \in {"ordered", "round-robin"}
  <2>1. Schedule(p)
    BY <1>4, TurnsReset DEF OutTyped
  <2>2. p.reader_turn \in Seq(Nat)
    BY <1>1, <2>1, IndexList DEF Schedule, Timetable
  <2> QED
    BY <1>2, <1>3, <2>1, <2>2 DEF OutTyped, Schedule
<1>5. CASE q.kind = "random"
  <2> DEFINE n == Len(p.readers)
  <2>1. p.reader_turn \in IF n = 0 THEN {<<>>} ELSE [1 .. OutN -> 0 .. n - 1]
    BY <1>1, <1>5 DEF Out!ResetTurns
  <2>0. n \in Nat
    BY <1>1
  <2> HIDE DEF n
  <2>2. p.reader_turn \in Seq(Nat)
    <3>1. CASE n = 0
      <4>1. p.reader_turn = <<>>
        BY ONLY <2>1, <3>1
      <4> QED
        BY ONLY <4>1
    <3>2. CASE n # 0
      <4>0. p.reader_turn \in [1 .. OutN -> 0 .. n - 1]
        BY ONLY <2>1, <3>2
      <4>1. p.reader_turn \in [1 .. OutN -> Nat]
        BY ONLY <2>0, <4>0
      <4> QED
        BY <4>1, LengthAssumption, IsList
    <3> QED
      BY <3>1, <3>2
  <2> QED
    BY <1>1, <1>2, <1>3, <1>5, <2>2 DEF OutTyped
<1>6. CASE q.kind \notin Out!TurnKinds
  <2>1. p.reader_turn = q.reader_turn
    BY <1>1, <1>6 DEF Out!ResetTurns, Out!TurnKinds
  <2> QED
    BY <1>1, <1>2, <1>3, <1>6, <2>1 DEF OutTyped, Out!TurnKinds
<1> QED
  BY <1>4, <1>5, <1>6 DEF Out!TurnKinds

LEMMA AddedTyped ==
  ASSUME NEW q, HasReaders(q), OutTyped(q), q.readers # <<>>, NEW r \in Nat
  PROVE  OutTyped(Out!add_reader(q, r))
<1> DEFINE p == Out!add_reader(q, r)
<1>1. /\ p.kind = q.kind /\ p.reader_turn = q.reader_turn /\ p.turn_pos = q.turn_pos
      /\ p.readers = Out!Ascending(Out!ReaderSet(q) \cup {r})
  BY DEF Out!add_reader, HasReaders, OutFields
<1>2. OutMaps(p)
  BY MapWith DEF OutMaps, Out!add_reader, HasReaders, OutFields
<1>3. /\ Len(p.readers) \in Nat /\ Len(q.readers) \in Nat /\ Len(q.readers) > 0
      /\ Len(q.readers) <= Len(p.readers)
  <2> DEFINE R == Out!ReaderSet(q)
  <2>1. IsFiniteSet(R) /\ R \in SUBSET Nat /\ IsAscending(q.readers, R)
    BY DEF HasReaders
  <2>2. Len(q.readers) = Cardinality(R) /\ q.readers \in Seq(Nat)
    BY <2>1, AscendingList
  <2>3. HasReaders(p) /\ Out!ReaderSet(p) = R \cup {r}
    BY ReaderAdded
  <2> HIDE DEF p, R
  <2>4. IsFiniteSet(R \cup {r}) /\ IsAscending(p.readers, R \cup {r}) /\ R \cup {r} \in SUBSET Nat
    BY <2>3 DEF HasReaders
  <2>5. Len(p.readers) = Cardinality(R \cup {r})
    BY <2>4, AscendingList
  <2>6. Cardinality(R) <= Cardinality(R \cup {r})
    BY <2>4, FS_Subset
  <2> QED
    BY <2>1, <2>2, <2>4, <2>5, <2>6, FS_CardinalityType
<1> HIDE DEF p
<1>4. Timetable(q) => Timetable(p)
  <2>1. ASSUME NEW s \in Seq(0 .. Len(q.readers) - 1) PROVE s \in Seq(0 .. Len(p.readers) - 1)
    BY <1>3
  <2> QED
    BY <1>1, <1>3, <2>1 DEF Timetable
<1> QED
  BY <1>1, <1>2, <1>4 DEF OutTyped, p

(* Inports' queues.                                                        *)
InTyped(q, W) ==
  /\ IsMap(q.fifo) /\ IsMap(q.write_pos) /\ IsMap(q.read_pos) /\ IsMap(q.termination)
  /\ DOMAIN q.exhausted_tokens \subseteq W /\ DOMAIN q.termination \subseteq W

LEMMA SettleTyped ==
  ASSUME NEW q, DOMAIN q = InFields, NEW W, InTyped(q, W), NEW S
  PROVE  InTyped(Settle(q, S), W)
<1> DEFINE m == In!TransferAll(q)
           T == In!Finished(m, S)
           p == In!Removed(m, T)
<1>1. /\ DOMAIN m = InFields /\ IsMap(m.fifo) /\ IsMap(m.write_pos)
      /\ m.read_pos = q.read_pos /\ m.termination = q.termination
      /\ DOMAIN m.exhausted_tokens \subseteq DOMAIN q.exhausted_tokens
  BY DEF In!TransferAll, InFields, IsMap
<1> HIDE DEF m, T
<1>2. /\ p.fifo = In!Without(m.fifo, T) /\ p.write_pos = In!Without(m.write_pos, T)
      /\ p.read_pos = In!Without(m.read_pos, T)
      /\ p.termination = In!Without(m.termination, T)
      /\ p.exhausted_tokens = m.exhausted_tokens
  BY <1>1 DEF In!Removed, InFields
<1>3. DOMAIN p.termination \subseteq DOMAIN m.termination
  BY <1>2 DEF In!Without
<1> HIDE DEF p
<1>4. InTyped(p, W)
  BY <1>1, <1>2, <1>3, MapWithout DEF InTyped
<1> QED
  BY <1>4 DEF Settle, p, T, m

LEMMA CollectingTyped ==
  ASSUME NEW q, DOMAIN q = InFields, NEW W, InTyped(q, W),
         NEW w, NEW item, NEW items
  PROVE  /\ InTyped(In!com_write(q, w, item), W)
         /\ InTyped(In!com_write_all(q, w, items), W)
         /\ InTyped(In!add_writer(q, w), W)
         /\ InTyped(In!exhaust(q, w), W \cup {w})
<1>1. InTyped(In!com_write(q, w, item), W)
  BY MapChanged DEF In!com_write, InTyped, InFields
<1>2. InTyped(In!com_write_all(q, w, items), W)
  BY MapChanged DEF In!com_write_all, InTyped, InFields
<1>3. InTyped(In!add_writer(q, w), W)
  BY MapWith DEF In!add_writer, InTyped, InFields
<1>4. InTyped(In!exhaust(q, w), W \cup {w})
  <2>1. DOMAIN In!With(q.termination, w, FALSE) = DOMAIN q.termination \cup {w}
    BY DEF In!With
  <2> QED
    BY <2>1, MapWith DEF In!exhaust, InTyped, InFields
<1> QED
  BY <1>1, <1>2, <1>3, <1>4

LEMMA PeekedTyped ==
  ASSUME NEW q, DOMAIN q = InFields, NEW W, InTyped(q, W)
  PROVE  InTyped(In!peek(q).queue, W) /\ DOMAIN In!peek(q).queue = InFields
<1>1. ASSUME NEW S
      PROVE  InTyped(In!Advanced(q, S), W) /\ DOMAIN In!Advanced(q, S) = InFields
  BY DEF In!Advanced, InTyped, InFields, IsMap
<1>2. ASSUME NEW p, DOMAIN p = InFields, InTyped(p, W), NEW x
      PROVE  InTyped([p EXCEPT !.turn_pos = x], W)
             /\ DOMAIN [p EXCEPT !.turn_pos = x] = InFields
  BY <1>2 DEF InTyped, InFields
<1>3. ASSUME NEW p, DOMAIN p = InFields, InTyped(p, W), NEW x, IsMap(x)
      PROVE  InTyped([p EXCEPT !.read_pos = x], W)
             /\ DOMAIN [p EXCEPT !.read_pos = x] = InFields
  BY <1>3 DEF InTyped, InFields
<1>4. InTyped(In!Alone(q).queue, W) /\ DOMAIN In!Alone(q).queue = InFields
  <2> DEFINE k == In!FirstExcepting(q)
             back == {q.writers[j] : j \in {j \in 1 .. k - 1 : ~In!Waiting(q, q.writers[j])}}
             a == In!Advanced(q, {q.writers[k]})
             x == [w \in DOMAIN a.read_pos |->
                     IF w \in back THEN a.read_pos[w] - 1 ELSE a.read_pos[w]]
  <2>1. In!Alone(q).queue = [a EXCEPT !.read_pos = x]
    BY DEF In!Alone
  <2>2. IsMap(x)
    BY DEF IsMap
  <2>3. InTyped(a, W) /\ DOMAIN a = InFields
    BY <1>1
  <2> HIDE DEF a, x
  <2> QED
    BY <2>1, <2>2, <2>3, <1>3
<1> DEFINE k == In!Served(q)
           b == In!Advanced(q, {q.writers[k]})
           S == {w \in In!WriterSet(q) : In!Waiting(q, w)}
<1>5. InTyped(b, W) /\ DOMAIN b = InFields
  BY <1>1
<1>6. \/ In!peek(q).queue = [b EXCEPT !.turn_pos = k % Len(q.writers)]
      \/ In!peek(q).queue = In!Alone(q).queue
      \/ In!peek(q).queue = In!Advanced(q, S)
  BY DEF In!peek
<1> HIDE DEF b, k, S
<1> QED
  BY <1>1, <1>2, <1>4, <1>5, <1>6

LEMMA CommittedTyped ==
  ASSUME NEW q, DOMAIN q = InFields, NEW W, InTyped(q, W)
  PROVE  InTyped(In!commit(q), W)
<1>1. In!commit(q) = Settle(q, DOMAIN In!TransferAll(q).termination)
  BY DEF In!commit, Settle
<1> QED
  BY <1>1, SettleTyped

LEMMA TokensSetTyped ==
  ASSUME NEW q, DOMAIN q = InFields, NEW W, InTyped(q, W), NEW tokens, DOMAIN tokens \subseteq W
  PROVE  InTyped(In!set_exhausted_tokens(q, tokens), W)
<1> DEFINE got == DOMAIN tokens
           t == Filed(q, tokens)
<1>1. In!set_exhausted_tokens(q, tokens) = Settle(t, got)
  BY DEF In!set_exhausted_tokens, Settle, Filed
<1>2. InTyped(t, W) /\ DOMAIN t = InFields
  BY DEF Filed, InTyped, InFields, IsMap
<1> HIDE DEF t
<1> QED
  BY <1>1, <1>2, SettleTyped

TypedInv ==
  /\ \A o \in Outs : OutTyped(outq[o])
  /\ \A i \in Ins : InTyped(inq[i], WritersOf(Links, i))
  /\ unjoined \subseteq conf.late
  /\ bulk \in [Links -> BOOLEAN] /\ in_enabled \in [Ins -> BOOLEAN]
  /\ IsMap(to_out)
  /\ turns \in [Outs -> Seq(Ins)] /\ passed \in [Links -> Nat]

LEMMA OutTypedNext ==
  ASSUME ChannelInv, TypedInv, [Next]_vars
  PROVE  \A o \in Outs : OutTyped(outq'[o])
<1> DEFINE Typed == \A o \in Outs : OutTyped(outq'[o])
<1>0. conf \in Scenarios
  BY DEF ChannelInv, Shared
<1>1. ASSUME NEW o \in Outs
      PROVE  /\ OutTyped(outq[o]) /\ HasReaders(outq[o]) /\ DOMAIN outq[o] = OutFields
             /\ outq[o].kind \in Out!OutKinds
  <2>1. conf.out \in Out!OutKinds
    BY <1>0, ScenarioAssumption DEF Out!OutKinds, Out!TurnKinds
  <2> QED
    BY <2>1 DEF TypedInv, ChannelInv, OutRight, OutShape, HasReaders
<1>2. ASSUME outq' = outq PROVE Typed
  BY <1>1, <1>2
<1>3. ASSUME NEW o \in Outs, NEW q, OutTyped(q), outq' = [outq EXCEPT ![o] = q] PROVE Typed
  BY <1>1, <1>3
<1>4. ASSUME NEW l \in Links
      PROVE  /\ l[1] \in Outs /\ l[2] \in Nat
             /\ l \in out_endpoint => /\ l[2] \in Out!ReaderSet(outq[l[1]])
                                      /\ outq[l[1]].readers # <<>>
  <2>1. l[1] \in Outs /\ l[2] \in Nat
    BY <1>0, LinkEnds
  <2>2. l \in out_endpoint => l[2] \in Out!ReaderSet(outq[l[1]])
    BY LinkFacts DEF LinkInv, Attached, HandedOver, Settled, HasReader
  <2> QED
    BY <2>1, <2>2 DEF Out!ReaderSet
<1>5. ASSUME NEW l \in out_endpoint, DetachOut(l) PROVE Typed
  <2>1. l \in Links /\ l[1] \in Outs
    BY <1>4 DEF ChannelInv, Shared
  <2>2. PICK q \in Out!remove_reader(outq[l[1]], l[2]) : outq' = [outq EXCEPT ![l[1]] = q]
    BY <1>5 DEF DetachOut
  <2>3. OutTyped(q)
    BY <1>1, <1>4, <2>1, <2>2, RemovedTyped
  <2> QED
    BY <1>3, <2>1, <2>2, <2>3
<1>6. ASSUME NEW o \in Outs, Produce(o) PROVE Typed
  <2>1. PICK l \in out_endpoint : l[1] = o
    BY <1>6 DEF Produce
  <2>2. l \in Links /\ outq[o].readers # <<>>
    BY <1>4, <2>1 DEF ChannelInv, Shared
  <2>3. \/ outq' = outq
        \/ /\ ~Out!TurnRaises(outq[o])
           /\ \E token, to : \E q \in Out!write(outq[o], to, token) : outq' = [outq EXCEPT ![o] = q]
    BY <1>6 DEF Produce
  <2>4. ASSUME ~Out!TurnRaises(outq[o]), NEW token, NEW to,
               NEW q \in Out!write(outq[o], to, token), outq' = [outq EXCEPT ![o] = q]
        PROVE  Typed
    <3>1. OutTyped(q)
      BY <1>1, <2>2, <2>4, WrittenTyped
    <3> QED
      BY <1>3, <2>4, <3>1
  <2> QED
    BY <1>2, <2>3, <2>4
<1>7. ASSUME NEW l \in Links, Transmit(l) \/ ReceiveReply(l) PROVE Typed
  <2>1. \/ outq' = outq
        \/ \E q : /\ outq' = [outq EXCEPT ![l[1]] = q]
                  /\ \E k : \/ q = Out!Peeked(outq[l[1]], l[2], k)
                            \/ q = Out!Moved(outq[l[1]], l[2], k)
                            \/ q = Out!com_commit(outq[l[1]], l[2], k)
                            \/ q = Out!com_cancel(outq[l[1]], l[2], k)
    BY <1>7 DEF Transmit, Communicate, CommunicateLocal, ReceiveReply
  <2> QED
    BY <1>1, <1>2, <1>3, <1>4, <2>1, CommunicatingTyped
<1>8. ASSUME NEW l \in Links, ExhaustOut(l) \/ ExhaustLocal(l) \/ DisconnectionRequestOut(l)
      PROVE  Typed
  <2>1. CASE ExhaustOut(l) \/ ExhaustLocal(l)
    BY <1>5, <2>1 DEF ExhaustOut, ExhaustLocal
  <2>2. CASE DisconnectionRequestOut(l)
    BY <1>2, <1>5, <2>2 DEF DisconnectionRequestOut
  <2> QED
    BY <1>8, <2>1, <2>2
<1>9. ASSUME NEW l \in Links, Join(l) PROVE Typed
  <2>1. PICK m \in out_endpoint : m[1] = l[1]
    BY <1>9 DEF Join
  <2>2. m \in Links /\ outq[l[1]].readers # <<>>
    BY <1>4, <2>1 DEF ChannelInv, Shared
  <2>3. outq' = [outq EXCEPT ![l[1]] = Out!add_reader(outq[l[1]], l[2])]
    BY <1>9 DEF Join
  <2> QED
    BY <1>1, <1>3, <1>4, <2>2, <2>3, AddedTyped
<1>10. ASSUME NEW l \in Links,
              \/ ReceiveToken(l) \/ DisconnectionRequestIn(l) \/ DisconnectedPeerIn(l)
              \/ DisconnectedPeerOut(l) \/ ExhaustIn(l)
       PROVE  Typed
  BY <1>2, <1>10 DEF ReceiveToken, DisconnectionRequestIn, DisconnectedPeerIn,
                     DisconnectedPeerOut, ExhaustIn, queues
<1>11. CASE UNCHANGED vars
  BY <1>2, <1>11 DEF vars, queues
<1>12. ASSUME NEW i \in Ins, Consume(i) PROVE Typed
  BY <1>2, <1>12 DEF Consume
<1>13. Typed
  BY <1>6, <1>7, <1>8, <1>9, <1>10, <1>11, <1>12 DEF Next, ArriveIn, ArriveOut
<1> QED
  BY <1>13 DEF Typed

LEMMA InTypedNext ==
  ASSUME ChannelInv, TypedInv, [Next]_vars
  PROVE  \A i \in Ins : InTyped(inq'[i], WritersOf(Links, i))
<1> DEFINE Typed == \A i \in Ins : InTyped(inq'[i], WritersOf(Links, i))
<1>1. ASSUME NEW i \in Ins
      PROVE  InTyped(inq[i], WritersOf(Links, i)) /\ DOMAIN inq[i] = InFields
  BY DEF TypedInv, ChannelInv, InRight, InShape
<1>2. ASSUME inq' = inq PROVE Typed
  BY <1>1, <1>2
<1>3. ASSUME NEW i \in Ins, NEW q, InTyped(q, WritersOf(Links, i)), inq' = [inq EXCEPT ![i] = q]
      PROVE  Typed
  BY <1>1, <1>3
<1>4. ASSUME NEW l \in Links
      PROVE  l[2] \in Ins /\ WritersOf(Links, l[2]) \cup {l[1]} = WritersOf(Links, l[2])
  BY DEF Ins, WritersOf
<1>5. ASSUME NEW l \in Links
      PROVE  /\ InTyped(In!exhaust(inq[l[2]], l[1]), WritersOf(Links, l[2]))
             /\ DOMAIN In!exhaust(inq[l[2]], l[1]) = InFields
  <2> DEFINE q == inq[l[2]]
             W == WritersOf(Links, l[2])
  <2>1. InTyped(q, W) /\ DOMAIN q = InFields /\ W \cup {l[1]} = W
    BY <1>1, <1>4
  <2> HIDE DEF q, W
  <2>2. DOMAIN In!exhaust(q, l[1]) = InFields
    BY <2>1 DEF In!exhaust, InFields
  <2>3. InTyped(In!exhaust(q, l[1]), W \cup {l[1]})
    BY <2>1, CollectingTyped
  <2> QED
    BY <2>1, <2>2, <2>3 DEF q, W
<1>6. ASSUME NEW l \in Links, NEW q, InTyped(q, WritersOf(Links, l[2])), DOMAIN q = InFields,
             NEW tokens, DOMAIN tokens \subseteq {l[1]}, ExhaustedTokens(l, q, tokens)
      PROVE  Typed
  <2>1. inq' = [inq EXCEPT ![l[2]] = In!set_exhausted_tokens(q, tokens)]
    BY <1>6 DEF ExhaustedTokens
  <2>2. DOMAIN tokens \subseteq WritersOf(Links, l[2])
    BY <1>4, <1>6
  <2>3. InTyped(In!set_exhausted_tokens(q, tokens), WritersOf(Links, l[2]))
    BY <1>6, <2>2, TokensSetTyped
  <2> QED
    BY <1>3, <1>4, <2>1, <2>3
<1>7. ASSUME NEW l \in Links, Arrived(to_in, l, {"DISCONNECT", "DISCONNECTED"})
      PROVE  DOMAIN Head(to_in[l]).remaining \subseteq {l[1]}
  <2>1. to_in[l] \in Seq(InMessage(l)) /\ to_in[l] # <<>>
        /\ Head(to_in[l]).kind \in {"DISCONNECT", "DISCONNECTED"}
    BY <1>7, LinkFacts DEF Arrived, LinkInv, ToInRight
  <2>2. Head(to_in[l]) \in InMessage(l)
    BY <2>1
  <2> QED
    BY <2>1, <2>2 DEF InMessage
<1>8. ASSUME NEW i \in Ins, Consume(i) PROVE Typed
  <2>1. inq' = [inq EXCEPT ![i] = In!commit(In!peek(inq[i]).queue)]
    BY <1>8 DEF Consume
  <2>2. /\ InTyped(In!peek(inq[i]).queue, WritersOf(Links, i))
        /\ DOMAIN In!peek(inq[i]).queue = InFields
    BY <1>1, PeekedTyped
  <2>3. InTyped(In!commit(In!peek(inq[i]).queue), WritersOf(Links, i))
    BY <2>2, CommittedTyped
  <2> QED
    BY <1>3, <2>1, <2>3
<1>9. ASSUME NEW l \in Links, CommunicateLocal(l) \/ ReceiveToken(l) \/ Join(l)
      PROVE  Typed
  <2>1. \/ inq' = inq
        \/ inq' = [inq EXCEPT ![l[2]] = inq[l[2]]]
        \/ \E x : \/ inq' = [inq EXCEPT ![l[2]] = In!com_write(inq[l[2]], l[1], x)]
                  \/ inq' = [inq EXCEPT ![l[2]] = In!com_write_all(inq[l[2]], l[1], x)]
                  \/ inq' = [inq EXCEPT ![l[2]] = In!add_writer(inq[l[2]], l[1])]
    BY <1>9 DEF CommunicateLocal, ReceiveToken, Join
  <2> QED
    BY <1>1, <1>2, <1>3, <1>4, <2>1, CollectingTyped
<1>10. ASSUME NEW l \in Links, ExhaustIn(l) PROVE Typed
  <2>1. inq' = [inq EXCEPT ![l[2]] = In!exhaust(inq[l[2]], l[1])]
    BY <1>10 DEF ExhaustIn
  <2> QED
    BY <1>3, <1>4, <1>5, <2>1
<1>11. ASSUME NEW l \in Links, DisconnectionRequestIn(l) PROVE Typed
  <2> DEFINE q == IF l \in in_endpoint THEN In!exhaust(inq[l[2]], l[1]) ELSE inq[l[2]]
  <2>1. ExhaustedTokens(l, q, Head(to_in[l]).remaining)
        /\ Arrived(to_in, l, {"DISCONNECT", "DISCONNECTED"})
    BY <1>11 DEF DisconnectionRequestIn, Arrived
  <2>2. InTyped(q, WritersOf(Links, l[2])) /\ DOMAIN q = InFields
    BY <1>1, <1>4, <1>5
  <2> HIDE DEF q
  <2> QED
    BY <1>6, <1>7, <2>1, <2>2
<1>12. ASSUME NEW l \in Links, DisconnectedPeerIn(l) PROVE Typed
  <2>1. ExhaustedTokens(l, inq[l[2]], Head(to_in[l]).remaining)
        /\ Arrived(to_in, l, {"DISCONNECT", "DISCONNECTED"})
    BY <1>12 DEF DisconnectedPeerIn, Arrived
  <2> QED
    BY <1>1, <1>4, <1>6, <1>7, <2>1
<1>13. ASSUME NEW l \in Links, ExhaustLocal(l) PROVE Typed
  <2>1. ExhaustedTokens(l, In!exhaust(inq[l[2]], l[1]), RemainingAt(l))
    BY <1>13 DEF ExhaustLocal
  <2>2. DOMAIN RemainingAt(l) \subseteq {l[1]}
    BY DEF RemainingAt
  <2> QED
    BY <1>5, <1>6, <2>1, <2>2
<1>14. ASSUME NEW l \in Links,
              \/ Communicate(l) \/ ReceiveReply(l) \/ ExhaustOut(l)
              \/ DisconnectionRequestOut(l) \/ DisconnectedPeerOut(l)
       PROVE  Typed
  BY <1>2, <1>14 DEF Communicate, ReceiveReply, ExhaustOut, DisconnectionRequestOut,
                     DisconnectedPeerOut, queues
<1>15. CASE UNCHANGED vars
  BY <1>2, <1>15 DEF vars, queues
<1>16. ASSUME NEW o \in Outs, Produce(o) PROVE Typed
  BY <1>2, <1>16 DEF Produce
<1>17. Typed
  BY <1>8, <1>9, <1>10, <1>11, <1>12, <1>13, <1>14, <1>15, <1>16
     DEF Next, Transmit, ArriveIn, ArriveOut
<1> QED
  BY <1>17 DEF Typed

(* The turns that were taken, and what is only ever set.                   *)
LEMMA TurnsTyped ==
  ASSUME ChannelInv, TypedInv, NEW o \in Outs, Produce(o)
  PROVE  turns' \in [Outs -> Seq(Ins)]
<1>1. PICK to \in Out!Destinations(outq[o], ReadersOf(Links, o)) :
        \/ turns' = turns
        \/ /\ to \subseteq Out!ReaderSet(outq[o]) /\ conf.out \in Out!TurnKinds
           /\ turns' = [turns EXCEPT ![o] = Append(@, CHOOSE r \in to : TRUE)]
  BY DEF Produce
<1>2. turns \in [Outs -> Seq(Ins)]
  BY DEF TypedInv
<1>3. CASE turns' = turns
  BY <1>2, <1>3
<1>4. ASSUME to \subseteq Out!ReaderSet(outq[o]), conf.out \in Out!TurnKinds,
             turns' = [turns EXCEPT ![o] = Append(@, CHOOSE r \in to : TRUE)]
      PROVE  turns' \in [Outs -> Seq(Ins)]
  <2>1. outq[o].kind = conf.out /\ \A r \in Out!ReaderSet(outq[o]) : r \in Ins
    <3>1. \A r : <<o, r>> \in Links => r \in Ins
      BY DEF Ins
    <3> QED
      BY <3>1 DEF ChannelInv, OutRight
  <2>2. to = {Out!NextReader(outq[o])}
    BY <1>1, <1>4, <2>1 DEF Out!Destinations, Out!TurnKinds
  <2>3. (CHOOSE r \in to : TRUE) \in Ins
    BY <1>4, <2>1, <2>2
  <2> DEFINE r == CHOOSE r \in to : TRUE
  <2> HIDE DEF r
  <2>4. Append(turns[o], r) \in Seq(Ins)
    BY <1>2, <2>3 DEF r
  <2>5. turns' = [turns EXCEPT ![o] = Append(turns[o], r)]
    BY <1>4 DEF r
  <2> QED
    BY ONLY <1>2, <2>4, <2>5
<1> QED
  BY <1>1, <1>3, <1>4

LEMMA OthersTypedNext ==
  ASSUME ChannelInv, TypedInv, [Next]_vars
  PROVE  /\ unjoined' \subseteq conf.late
         /\ bulk' \in [Links -> BOOLEAN] /\ in_enabled' \in [Ins -> BOOLEAN]
         /\ IsMap(to_out')
         /\ turns' \in [Outs -> Seq(Ins)] /\ passed' \in [Links -> Nat]
<1> DEFINE Typed == /\ unjoined' \subseteq conf.late
                    /\ bulk' \in [Links -> BOOLEAN] /\ in_enabled' \in [Ins -> BOOLEAN]
                    /\ IsMap(to_out')
                    /\ turns' \in [Outs -> Seq(Ins)] /\ passed' \in [Links -> Nat]
<1>1. /\ unjoined \subseteq conf.late
      /\ bulk \in [Links -> BOOLEAN] /\ in_enabled \in [Ins -> BOOLEAN]
      /\ IsMap(to_out)
      /\ turns \in [Outs -> Seq(Ins)] /\ passed \in [Links -> Nat]
  BY DEF TypedInv
<1>2. ASSUME NEW l \in Links, NEW msgs
      PROVE  IsMap(Received(to_out, l)) /\ IsMap(Send(to_out, l, msgs))
  BY MapChanged DEF Received, Send
<1>3. ASSUME NEW l, turns' = [turns EXCEPT ![l] = <<>>] PROVE turns' \in [Outs -> Seq(Ins)]
  BY <1>1, <1>3, EmptySeq
<1>4. ASSUME NEW l \in Links, NEW q, NEW tokens, ExhaustedTokens(l, q, tokens)
      PROVE  in_enabled' \in [Ins -> BOOLEAN] /\ passed' \in [Links -> Nat]
  <2>0. passed' \in [Links -> Nat]
    BY <1>1, <1>4 DEF ExhaustedTokens
  <2>1. l[2] \in Ins
    BY DEF Ins
  <2>2. in_enabled' = [in_enabled EXCEPT ![l[2]] =
           @ /\ ((\E m \in in_endpoint' : m[2] = l[2])
                 \/ In!is_exhausting(In!set_exhausted_tokens(q, tokens)))]
    BY <1>4 DEF ExhaustedTokens
  <2> DEFINE b == (\E m \in in_endpoint' : m[2] = l[2])
                  \/ In!is_exhausting(In!set_exhausted_tokens(q, tokens))
  <2>3. b \in BOOLEAN
    OBVIOUS
  <2>4. in_enabled' = [in_enabled EXCEPT ![l[2]] = @ /\ b]
    BY <2>2
  <2> HIDE DEF b
  <2>5. (in_enabled[l[2]] /\ b) \in BOOLEAN
    OBVIOUS
  <2> QED
    BY ONLY <1>1, <2>0, <2>1, <2>4, <2>5
<1>5. ASSUME NEW l \in Links, DetachOut(l) PROVE turns' \in [Outs -> Seq(Ins)]
  BY <1>3, <1>5 DEF DetachOut
<1>6. ASSUME UNCHANGED <<unjoined, bulk, in_enabled, to_out, passed>>, turns' \in [Outs -> Seq(Ins)]
      PROVE  Typed
  BY <1>1, <1>6
<1>7. CASE UNCHANGED vars
  BY <1>1, <1>7 DEF vars, ends, air, told
<1>8. ASSUME NEW o \in Outs, Produce(o) PROVE Typed
  <2>1. UNCHANGED <<unjoined, bulk, in_enabled, to_out, passed>>
    BY <1>8 DEF Produce, ends, air, told
  <2> QED
    BY <1>6, <1>8, <2>1, TurnsTyped
<1>9. ASSUME NEW i \in Ins, Consume(i) PROVE Typed
  <2>1. UNCHANGED <<unjoined, bulk, in_enabled, to_out, turns>>
    BY <1>9 DEF Consume, ends, air
  <2>2. PICK taken, p :
          passed' = [l \in Links |->
            IF l[2] # i THEN passed[l]
            ELSE IF p # In!WriterSet(inq[i]) \/ l[1] \in taken THEN 0
            ELSE IF l[1] \in In!WriterSet(inq[i]) /\ In!Waiting(inq[i], l[1]) THEN passed[l] + 1
            ELSE passed[l]]
    BY <1>9 DEF Consume
  <2>3. passed' \in [Links -> Nat]
    BY <1>1, <2>2
  <2> QED
    BY <1>1, <2>1, <2>3
<1>10. ASSUME NEW l \in Links, Transmit(l) PROVE Typed
  BY <1>1, <1>6, <1>10 DEF Transmit, Communicate, CommunicateLocal, ends, air, told
<1>11. ASSUME NEW l \in Links, ReceiveToken(l) PROVE Typed
  <2>1. UNCHANGED <<unjoined, bulk, in_enabled, turns, passed>>
    BY <1>11 DEF ReceiveToken, ends, told
  <2>2. to_out' = to_out \/ \E msgs : to_out' = Send(to_out, l, msgs)
    BY <1>11 DEF ReceiveToken
  <2> QED
    BY <1>1, <1>2, <2>1, <2>2
<1>12. ASSUME NEW l \in Links, ReceiveReply(l) PROVE Typed
  <2>1. UNCHANGED <<unjoined, in_enabled, turns, passed>> /\ to_out' = Received(to_out, l)
    BY <1>12 DEF ReceiveReply, told
  <2>2. bulk' = bulk \/ bulk' = [bulk EXCEPT ![l] = Head(to_out[l]).kind = "ACK"]
    BY <1>12 DEF ReceiveReply
  <2>3. bulk' \in [Links -> BOOLEAN]
    BY <1>1, <2>2
  <2> QED
    BY <1>1, <1>2, <2>1, <2>3
<1>13. ASSUME NEW l \in Links, ExhaustOut(l) PROVE Typed
  <2>1. UNCHANGED <<unjoined, bulk, in_enabled, to_out, passed>> /\ DetachOut(l)
    BY <1>13 DEF ExhaustOut, told
  <2> QED
    BY <1>5, <1>6, <2>1
<1>14. ASSUME NEW l \in Links, ExhaustIn(l) PROVE Typed
  <2>1. UNCHANGED <<unjoined, bulk, in_enabled, turns, passed>> /\ \E msgs : to_out' = Send(to_out, l, msgs)
    BY <1>14 DEF ExhaustIn, told
  <2> QED
    BY <1>1, <1>2, <2>1
<1>15. ASSUME NEW l \in Links, DisconnectionRequestIn(l) PROVE Typed
  <2>1. /\ UNCHANGED <<unjoined, bulk, turns>>
        /\ \E msgs : to_out' = Send(to_out, l, msgs)
        /\ \E q, tokens : ExhaustedTokens(l, q, tokens)
    BY <1>15 DEF DisconnectionRequestIn
  <2> QED
    BY <1>1, <1>2, <1>4, <2>1
<1>16. ASSUME NEW l \in Links, DisconnectedPeerIn(l) PROVE Typed
  <2>1. /\ UNCHANGED <<unjoined, bulk, turns, to_out>>
        /\ \E q, tokens : ExhaustedTokens(l, q, tokens)
    BY <1>16 DEF DisconnectedPeerIn
  <2> QED
    BY <1>1, <1>4, <2>1
<1>17. ASSUME NEW l \in Links, DisconnectionRequestOut(l) PROVE Typed
  <2>1. /\ UNCHANGED <<unjoined, bulk, in_enabled, passed>> /\ to_out' = Received(to_out, l)
        /\ turns' = turns \/ DetachOut(l)
    BY <1>17 DEF DisconnectionRequestOut, told
  <2> QED
    BY <1>1, <1>2, <1>5, <2>1
<1>18. ASSUME NEW l \in Links, DisconnectedPeerOut(l) PROVE Typed
  <2>1. UNCHANGED <<unjoined, bulk, in_enabled, turns, passed>> /\ to_out' = Received(to_out, l)
    BY <1>18 DEF DisconnectedPeerOut, ends, told
  <2> QED
    BY <1>1, <1>2, <2>1
<1>19. ASSUME NEW l \in Links, ExhaustLocal(l) PROVE Typed
  <2>1. /\ UNCHANGED <<unjoined, bulk, to_out>> /\ DetachOut(l)
        /\ \E q, tokens : ExhaustedTokens(l, q, tokens)
    BY <1>19 DEF ExhaustLocal, air
  <2> QED
    BY <1>1, <1>4, <1>5, <2>1
<1>20. ASSUME NEW l \in Links, Join(l) PROVE Typed
  <2>1. /\ unjoined' \subseteq unjoined /\ UNCHANGED <<bulk, to_out>>
        /\ in_enabled' = [in_enabled EXCEPT ![l[2]] = TRUE]
        /\ turns' = [turns EXCEPT ![l[1]] = <<>>]
        /\ passed' = [m \in Links |-> IF m[2] = l[2] THEN 0 ELSE passed[m]]
    BY <1>20 DEF Join, air
  <2>2. in_enabled' \in [Ins -> BOOLEAN] /\ passed' \in [Links -> Nat]
    BY <1>1, <2>1
  <2> QED
    BY <1>1, <1>3, <2>1, <2>2
<1> QED
  BY <1>7, <1>8, <1>9, <1>10, <1>11, <1>12, <1>13, <1>14, <1>15, <1>16, <1>17, <1>18, <1>19,
     <1>20 DEF Next, ArriveIn, ArriveOut

LEMMA TypedNext ==
  ASSUME ChannelInv, TypedInv, [Next]_vars
  PROVE  TypedInv'
<1>1. conf' = conf /\ Links' = Links /\ Outs' = Outs /\ Ins' = Ins
  BY ScenarioStays DEF Links, Outs, Ins
<1>2. \A i : WritersOf(Links, i)' = WritersOf(Links, i)
  BY <1>1 DEF WritersOf
<1> QED
  BY <1>1, OutTypedNext, InTypedNext, OthersTypedNext DEF TypedInv, WritersOf

LEMMA TypedInit ==
  ASSUME Init
  PROVE  TypedInv
<1> DEFINE first == conf.links \ conf.late
<1>1. /\ conf \in Scenarios /\ first \in SUBSET Links
      /\ unjoined = conf.late
      /\ bulk = [l \in Links |-> TRUE] /\ to_out = [l \in Links |-> <<>>]
      /\ turns = [o \in Outs |-> <<>>] /\ passed = [l \in Links |-> 0]
      /\ inq = [i \in Ins |-> In!NewInQueue(conf.in, WritersOf(first, i))]
      /\ in_enabled = [i \in Ins |-> WritersOf(first, i) # {}]
  BY DEF Init, Links
<1>2. ASSUME NEW o \in Outs PROVE OutTyped(outq[o])
  <2> DEFINE q == outq[o]
  <2>1. PICK p \in Outs : q \in Out!NewOutQueues(conf.out, ReadersOf(first, p))
    <3>1. outq \in [Outs -> UNION {Out!NewOutQueues(conf.out, ReadersOf(first, p)) : p \in Outs}]
      BY DEF Init
    <3>2. q \in UNION {Out!NewOutQueues(conf.out, ReadersOf(first, p)) : p \in Outs}
      BY ONLY <3>1, o \in Outs
    <3> QED
      BY ONLY <3>2
  <2> DEFINE R == ReadersOf(first, p)
             n == Cardinality(R)
  <2>2. R \in SUBSET Nat /\ IsFiniteSet(R)
    BY <1>1, ReadersFinite
  <2>3. PICK turn \in Out!FirstTurns(conf.out, n) :
          q = [kind |-> conf.out, readers |-> Out!Ascending(R), reader_turn |-> turn,
               turn_pos |-> 0,
               fifo |-> [r \in R |-> Out!EmptyRing],
               write_pos |-> [r \in R |-> 0],
               read_pos |-> [r \in R |-> 0],
               tentative_read_pos |-> [r \in R |-> 0],
               reader_offset |-> [r \in R |-> 0]]
    <3>1. \A T : Out!Cardinality(T) = Cardinality(T)
      BY DEF Out!Cardinality, Cardinality
    <3> QED
      BY <2>1, <3>1 DEF Out!NewOutQueues
  <2>4. conf.out \in {"ordered", "round-robin"} => Schedule(q)
    BY ReadersInit
  <2>5. n \in Nat
    BY <2>2, FS_CardinalityType
  <2> HIDE DEF q, R, n
  <2>6. q.reader_turn = turn /\ q.turn_pos = 0 /\ q.kind = conf.out /\ OutMaps(q)
    BY <2>3 DEF OutMaps, IsMap
  <2>7. q.reader_turn \in Seq(Nat)
    <3>1. CASE conf.out \in {"ordered", "round-robin"}
      <4>1. Len(q.readers) \in Nat
        BY <2>2, <2>3, ReadersListed, <2>6, <2>5, OutAscending, AscendingList
      <4> QED
        BY <2>4, <3>1, <4>1, IndexList DEF Schedule, Timetable
    <3>2. CASE conf.out = "random"
      <4>1. turn \in [1 .. OutN -> 0 .. n - 1]
        BY <3>2 DEF Out!FirstTurns
      <4>2. turn \in [1 .. OutN -> Nat]
        BY ONLY <2>5, <4>1
      <4> QED
        BY <2>6, <4>2, LengthAssumption, IsList
    <3>3. CASE conf.out \notin Out!TurnKinds
      <4>1. turn = <<>>
        BY <3>3 DEF Out!FirstTurns, Out!TurnKinds
      <4> QED
        BY <2>6, <4>1, EmptySeq
    <3> QED
      BY <3>1, <3>2, <3>3 DEF Out!TurnKinds
  <2> QED
    BY <2>4, <2>6, <2>7 DEF OutTyped, Schedule, q
<1>3. ASSUME NEW i \in Ins PROVE InTyped(inq[i], WritersOf(Links, i))
  <2>1. inq[i] = In!NewInQueue(conf.in, WritersOf(first, i))
    BY <1>1
  <2> QED
    BY <2>1 DEF In!NewInQueue, InTyped, IsMap
<1>4. IsMap(to_out) /\ turns \in [Outs -> Seq(Ins)] /\ passed \in [Links -> Nat]
  BY <1>1, EmptySeq DEF IsMap
<1> QED
  BY <1>1, <1>2, <1>3, <1>4 DEF TypedInv

(* The records and functions are what TypeOK says.                         *)
LEMMA OutQueueTypes ==
  ASSUME ChannelInv, TypedInv, NEW o \in Outs
  PROVE  Out!IsOutQueue(outq[o], Ins, Token)
<1> DEFINE q == outq[o]
           R == Out!ReaderSet(q)
<1>1. /\ OutShape(q) /\ q.kind = conf.out /\ OutTyped(q) /\ conf \in Scenarios
      /\ \A r \in R : <<o, r>> \in Links
  BY DEF ChannelInv, OutRight, TypedInv, Shared
<1>2. q.kind \in Out!OutKinds
  BY <1>1, ScenarioAssumption DEF Out!OutKinds, Out!TurnKinds
<1>3. \A r \in R : r \in Ins
  <2>1. \A r : <<o, r>> \in Links => r \in Ins
    BY DEF Ins
  <2> QED
    BY <1>1, <2>1
<1>4. ASSUME NEW r \in R
      PROVE  \E D \in Seq(Token) : Sends(q, r, D)
  <2> DEFINE l == <<o, r>>
  <2>1. l \in Links /\ HasReader(l) /\ l[1] = o /\ l[2] = r
    BY <1>1 DEF HasReader
  <2>2. LinkInv(l) /\ dispatched[l] \in Seq(Token)
    BY <2>1, LinkFacts
  <2>3. Attached(l)
    BY <2>1, <2>2 DEF LinkInv, HandedOver, Settled
  <2>4. Sends(q, r, dispatched[l])
    BY <2>1, <2>3 DEF Attached
  <2> QED
    BY <2>2, <2>4
<1> HIDE DEF q, R
<1>5. ASSUME NEW r \in R
      PROVE  /\ q.fifo[r] \in [Out!Slots -> Token \cup {NoToken}]
             /\ q.write_pos[r] \in Nat /\ q.read_pos[r] \in Nat
             /\ q.tentative_read_pos[r] \in Nat /\ q.reader_offset[r] \in Nat
  BY <1>4, <1>5 DEF Sends, Out!Slots
<1>6. /\ DOMAIN q = OutFields /\ DOMAIN q.fifo = R /\ DOMAIN q.write_pos = R
      /\ DOMAIN q.read_pos = R /\ DOMAIN q.tentative_read_pos = R
      /\ DOMAIN q.reader_offset = R /\ q.readers \in Seq(R)
  BY <1>1, AscendingList DEF OutShape, HasReaders, R
<1>7. q.readers \in Seq(Ins)
  BY <1>3, <1>6
<1>8. /\ q.fifo \in [R -> [Out!Slots -> Token \cup {NoToken}]]
      /\ q.write_pos \in [R -> Nat] /\ q.read_pos \in [R -> Nat]
      /\ q.tentative_read_pos \in [R -> Nat] /\ q.reader_offset \in [R -> Nat]
  BY <1>1, <1>5, <1>6 DEF OutTyped, OutMaps, IsMap
<1> QED
  BY <1>1, <1>2, <1>6, <1>7, <1>8 DEF Out!IsOutQueue, OutTyped, OutFields, q, R

LEMMA InQueueTypes ==
  ASSUME ChannelInv, TypedInv, NEW i \in Ins
  PROVE  In!IsInQueue(inq[i], Outs, Token)
<1> DEFINE q == inq[i]
           W == In!WriterSet(q)
<1>1. /\ InShape(q) /\ q.kind = conf.in /\ InTyped(q, WritersOf(Links, i)) /\ conf \in Scenarios
      /\ \A w \in W : <<w, i>> \in Links
  BY DEF ChannelInv, InRight, TypedInv, Shared
<1>2. q.kind \in In!InKinds
  BY <1>1, ScenarioAssumption DEF In!InKinds
<1>3. \A w \in W : w \in Outs
  <2>1. \A w : <<w, i>> \in Links => w \in Outs
    BY DEF Outs
  <2> QED
    BY <1>1, <2>1
<1>4. ASSUME NEW w, <<w, i>> \in Links
      PROVE  \E D, V \in Seq(Token) : IsOpen(q, w, D, V) \/ IsClosing(q, w, D, V) \/ IsGone(q, w, D, V)
  <2> DEFINE l == <<w, i>>
  <2>1. l \in Links /\ l[1] = w /\ l[2] = i
    BY <1>4
  <2>2. LinkInv(l) /\ dispatched[l] \in Seq(Token) /\ delivered[l] \in Seq(Token)
    BY <2>1, LinkFacts
  <2>3. Opened(l) \/ IsSettled(q, w, dispatched[l], delivered[l])
    BY <2>1, <2>2 DEF LinkInv, Attached, HandedOver, Settled
  <2> QED
    BY <2>1, <2>2, <2>3 DEF Opened, IsSettled
<1>5. ASSUME NEW w \in WritersOf(Links, i) PROVE <<w, i>> \in Links
  <2>1. PICK l \in Links : l[2] = i /\ l[1] = w
    BY DEF WritersOf
  <2> QED
    BY <1>1, <2>1, LinkEnds
<1> HIDE DEF q, W
<1>6. ASSUME NEW w \in W
      PROVE  /\ q.fifo[w] \in [In!Slots -> Token \cup {NoToken}]
             /\ q.write_pos[w] \in Nat /\ q.read_pos[w] \in Nat
  <2>1. PICK D, V \in Seq(Token) : Stores(q, w, D, V)
    BY <1>1, <1>4, <1>6 DEF IsOpen, IsClosing, IsGone, W
  <2>2. Len(V) \in Nat
    BY LenProperties
  <2> QED
    BY <2>1, <2>2 DEF Stores, IsInRing, In!Slots
<1>7. /\ DOMAIN q = InFields /\ DOMAIN q.fifo = W /\ DOMAIN q.write_pos = W
      /\ DOMAIN q.read_pos = W /\ q.writers \in Seq(W) /\ q.turn_pos \in Nat
  BY <1>1, AscendingList DEF InShape, W
<1>8. q.writers \in Seq(Outs)
  BY <1>3, <1>7
<1>9. /\ q.fifo \in [W -> [In!Slots -> Token \cup {NoToken}]]
      /\ q.write_pos \in [W -> Nat] /\ q.read_pos \in [W -> Nat]
  BY <1>1, <1>6, <1>7 DEF InTyped, IsMap
<1>10. ASSUME NEW w \in DOMAIN q.exhausted_tokens
       PROVE  q.exhausted_tokens[w] \in Seq(Item) /\ w \in DOMAIN q.termination
  <2>1. PICK D, V \in Seq(Token) : IsClosing(q, w, D, V)
    BY <1>1, <1>4, <1>5 DEF InTyped, IsOpen, IsGone
  <2>2. /\ Rests(q.exhausted_tokens[w], D, q.write_pos[w])
        /\ q.write_pos[w] \in Nat /\ q.write_pos[w] <= Len(D) /\ Len(D) \in Nat
    BY <2>1, LenProperties DEF IsClosing, Drained, Stores
  <2>3. PICK a \in 0 .. q.write_pos[w] : Rest(q.exhausted_tokens[w], D, a, Len(D) - a)
    BY <2>2 DEF Rests
  <2>4. a \in Nat /\ Len(D) - a \in Nat /\ a + (Len(D) - a) <= Len(D)
    BY <2>2
  <2>5. q.exhausted_tokens[w] \in Seq(Item)
    BY ONLY <2>3, <2>4, D \in Seq(Token), RestItems
  <2> QED
    BY <2>1, <2>5 DEF IsClosing
<1>11. ASSUME NEW w \in DOMAIN q.termination
       PROVE  q.termination[w] \in BOOLEAN /\ w \in W
  <2>1. PICK D, V \in Seq(Token) : IsOpen(q, w, D, V) \/ IsClosing(q, w, D, V)
    BY <1>1, <1>4, <1>5 DEF InTyped, IsGone
  <2> QED
    BY <2>1 DEF IsOpen, IsClosing, W
<1>12. q.termination \in [DOMAIN q.termination -> BOOLEAN]
  BY <1>1, <1>11 DEF InTyped, IsMap
<1> QED
  BY <1>1, <1>2, <1>7, <1>8, <1>9, <1>10, <1>11, <1>12 DEF In!IsInQueue, InFields, Item, q, W

LEMMA TypesImplied ==
  ASSUME ChannelInv, TypedInv
  PROVE  TypeOK
<1>1. /\ conf \in Scenarios
      /\ dispatched \in [Links -> Seq(Token)] /\ delivered \in [Links -> Seq(Token)]
      /\ out_endpoint \subseteq Links /\ in_endpoint \subseteq Links
      /\ serial \in 0 .. MaxTokens /\ DOMAIN to_out = Links
  BY DEF ChannelInv, Shared
<1>2. /\ unjoined \subseteq conf.late
      /\ bulk \in [Links -> BOOLEAN] /\ in_enabled \in [Ins -> BOOLEAN]
      /\ turns \in [Outs -> Seq(Ins)] /\ passed \in [Links -> Nat]
  BY DEF TypedInv
<1>3. to_out \in [Links -> Seq(OutMessage)]
  <2>1. \A l \in Links : to_out[l] \in Seq(OutMessage)
    BY LinkFacts DEF LinkInv, ToOutRight
  <2> QED
    BY <1>1, <2>1 DEF TypedInv, IsMap
<1>4. ASSUME NEW l \in Links, NEW k \in DOMAIN to_in[l]
      PROVE  LET m == to_in[l][k]
             IN  \/ m \in [kind : {"TOKEN"}, item : Item]
                 \/ /\ m.kind \in {"DISCONNECT", "DISCONNECTED"}
                    /\ DOMAIN m.remaining \subseteq Outs
                    /\ \A o \in DOMAIN m.remaining : m.remaining[o] \in Seq(Item)
  <2>1. to_in[l] \in Seq(InMessage(l)) /\ l[1] \in Outs
    BY <1>1, LinkFacts, LinkEnds DEF LinkInv, ToInRight
  <2>2. to_in[l][k] \in InMessage(l)
    BY <2>1
  <2> DEFINE m == to_in[l][k]
  <2>3. m \in InMessage(l) /\ l[1] \in Outs
    BY <2>1, <2>2
  <2> HIDE DEF m
  <2>4. \/ m \in [kind : {"TOKEN"}, item : Item]
        \/ /\ m.kind \in {"DISCONNECT", "DISCONNECTED"}
           /\ DOMAIN m.remaining \subseteq Outs
           /\ \A o \in DOMAIN m.remaining : m.remaining[o] \in Seq(Item)
    BY <2>3 DEF InMessage
  <2> QED
    BY <2>4 DEF m
<1> QED
  BY <1>1, <1>2, <1>3, <1>4, OutQueueTypes, InQueueTypes DEF TypeOK, Item, OutMessage

(* Queues, endpoints and messages have the types the code gives them,      *)
(* whatever comes and goes: positions stay natural numbers, a schedule     *)
(* names readers, a list of exhausted tokens belongs to a writer that is   *)
(* to be removed (fanout_base.py, collect_base.py).                        *)
THEOREM PortQueuesTypes == Spec => [](Faultless => TypeOK)
<1> DEFINE Inv == ChannelInv /\ TypedInv
<1>1. Init => (Faultless => Inv)
  BY ChannelInit, TypedInit
<1>2. (Faultless => Inv) /\ [Next]_vars => (Faultless => Inv)'
  <2>1. [Next]_vars => (Faultless' <=> Faultless)
    BY ScenarioStays DEF Faultless
  <2> QED
    BY <2>1, ChannelNext, TypedNext
<1>3. (Faultless => Inv) => (Faultless => TypeOK)
  BY TypesImplied
<1> QED
  BY <1>1, <1>2, <1>3, PTL DEF Spec
=============================================================================
