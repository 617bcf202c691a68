---------------------------- MODULE SchedulerProofs ----------------------------
(* What TLAPS proves about Scheduler, for any endpoints, delays and events *)
(* and any number of tasks: there is always a delayed call for the first   *)
(* task, the periodic tasks go on in time, and no endpoint backs off for   *)
(* longer than a replication interval after its slot.                      *)
EXTENDS Scheduler, SequenceTheorems, WellFoundedInduction, TLAPS

Task == [due : Int, what : Whats]

Agenda == [tasks : Seq(Task), scheduled : BOOLEAN, timer : Int]

TasksOf(a) == {a.tasks[k] : k \in DOMAIN a.tasks}

InOrder(a) == \A j, k \in DOMAIN a.tasks : j <= k => a.tasks[j].due <= a.tasks[k].due

(* The list is in order, nothing in it is overdue, and the watchdog has    *)
(* not been needed.                                                        *)
Sane(a) ==
  /\ a \in Agenda
  /\ InOrder(a)
  /\ \A t \in TasksOf(a) : t.due >= 0 /\ t.what # "watchdog"

(* The delayed call comes in time for each task.                           *)
Ahead(a) ==
  /\ a.scheduled = TRUE
  /\ a.timer \in Nat
  /\ \A t \in TasksOf(a) : a.timer <= t.due

Has(a, whats, bound) == \E t \in TasksOf(a) : t.what \in whats /\ t.due <= bound

Loops(a, pressed) ==
  /\ Has(a, {"replication"}, ReplicationInterval)
  /\ Has(a, {"maintenance"}, MaintenanceDelay)
  /\ pressed => Has(a, {"pressure"}, 0)

(* An endpoint whose slot has passed is tried again by a strategy that is  *)
(* in the list, or by the one that the next replication task inserts.      *)
Retries(a, b) ==
  \A ep \in Endpoints :
    b[ep].step > 0 /\ b[ep].left < 0 =>
      Has(a, {"replication", "strategy"}, ReplicationInterval + b[ep].left)

AlarmIn(a, al) == al = "armed" => Has(a, {"timer"}, TimerDelay)

IInv ==
  /\ TypeOK
  /\ Sane(agenda)
  /\ Ahead(agenda)
  /\ Loops(agenda, pressured)
  /\ Retries(agenda, backoff)
  /\ AlarmIn(agenda, alarm)

-----------------------------------------------------------------------------
(* A set of places in a list that is not empty has a first one.            *)
LEMMA FirstPlace ==
  ASSUME NEW S, S \subseteq Nat, S # {}
  PROVE  \E k \in S : \A j \in S : k <= j
<1>1. PICK k \in S : \A j \in S : ~(<<j, k>> \in OpToRel(<, Nat))
  <2>1. IsWellFoundedOn(OpToRel(<, Nat), Nat)
    BY NatLessThanWellFounded
  <2> QED
    BY <2>1, WFMin
<1>2. ASSUME NEW j \in S PROVE k <= j
  <2>1. j \in Nat /\ k \in Nat
    OBVIOUS
  <2>2. <<j, k>> \in Nat \X Nat /\ <<j, k>>[1] = j /\ <<j, k>>[2] = k
    BY <2>1
  <2>3. ~(j < k)
    BY <1>1, <2>1, <2>2 DEF OpToRel
  <2> QED
    BY <2>1, <2>3
<1> QED
  BY <1>1, <1>2

(* Where insert_task puts a task: behind all that are not later.           *)
LEMMA PlaceFacts ==
  ASSUME NEW a \in Agenda, InOrder(a), NEW delay \in Nat
  PROVE  LET k == Place(a.tasks, delay)
         IN  /\ k \in 1 .. Len(a.tasks) + 1
             /\ \A j \in DOMAIN a.tasks : j < k => a.tasks[j].due <= delay
             /\ \A j \in DOMAIN a.tasks : k <= j => a.tasks[j].due > delay
<1> DEFINE n == Len(a.tasks)
           later == {k \in DOMAIN a.tasks : a.tasks[k].due > delay}
<1>1. n \in Nat /\ DOMAIN a.tasks = 1 .. n /\ \A j \in 1 .. n : a.tasks[j] \in Task
  BY LenProperties, ElementOfSeq DEF Agenda
<1>2. CASE later = {}
  <2>1. Place(a.tasks, delay) = n + 1
    BY <1>2 DEF Place
  <2> QED
    BY <1>1, <1>2, <2>1 DEF Task
<1>3. CASE later # {}
  <2>1. \E k \in later : \A j \in later : k <= j
    <3>1. later \subseteq Nat
      BY <1>1
    <3> QED
      BY <1>3, <3>1, FirstPlace
  <2>2. Place(a.tasks, delay) \in later /\ \A j \in later : Place(a.tasks, delay) <= j
    BY <1>3, <2>1 DEF Place
  <2>3. \A j \in DOMAIN a.tasks : Place(a.tasks, delay) <= j => a.tasks[j].due > delay
    BY <1>1, <2>2 DEF InOrder, Task
  <2> QED
    BY <1>1, <2>2, <2>3 DEF Task
<1> QED
  BY <1>2, <1>3

(* A list with a task inserted has the tasks it had, and this one.         *)
LEMMA InsertedFacts ==
  ASSUME NEW tasks \in Seq(Task), NEW k \in 1 .. Len(tasks) + 1, NEW task \in Task
  PROVE  /\ Inserted(tasks, k, task) \in Seq(Task)
         /\ Len(Inserted(tasks, k, task)) = Len(tasks) + 1
         /\ Inserted(tasks, k, task)[k] = task
         /\ \A j \in 1 .. Len(tasks) + 1 : j < k => Inserted(tasks, k, task)[j] = tasks[j]
         /\ \A j \in 1 .. Len(tasks) + 1 : k < j => Inserted(tasks, k, task)[j] = tasks[j - 1]
<1> DEFINE n == Len(tasks)
           b == Inserted(tasks, k, task)
<1>1. n \in Nat /\ DOMAIN tasks = 1 .. n /\ \A j \in 1 .. n : tasks[j] \in Task
  BY LenProperties, ElementOfSeq
<1>2. b = [j \in 1 .. n + 1 |-> IF j < k THEN tasks[j] ELSE IF j = k THEN task ELSE tasks[j - 1]]
  BY DEF Inserted
<1>3. b \in [1 .. n + 1 -> Task]
  <2>1. ASSUME NEW j \in 1 .. n + 1
        PROVE  (IF j < k THEN tasks[j] ELSE IF j = k THEN task ELSE tasks[j - 1]) \in Task
    <3>1. CASE j < k
      <4>1. j \in 1 .. n
        BY <1>1, <3>1
      <4> QED
        BY <1>1, <3>1, <4>1
    <3>2. CASE j = k
      BY <3>2
    <3>3. CASE k < j
      <4>1. j - 1 \in 1 .. n
        BY <1>1, <3>3
      <4> QED
        BY <1>1, <3>3, <4>1
    <3> QED
      BY <1>1, <3>1, <3>2, <3>3
  <2> QED
    BY <1>2, <2>1
<1>4. b \in Seq(Task)
  BY <1>1, <1>3, IsASeq
<1>5. Len(b) = n + 1
  BY <1>1, <1>3, <1>4, LenProperties
<1> QED
  BY <1>1, <1>2, <1>4, <1>5

(* The delayed call is made again, call_later after a cancel.              *)
LEMMA CalledAgain ==
  ASSUME NEW a \in Agenda, NEW delay \in Int
  PROVE  [a EXCEPT !.scheduled = TRUE, !.timer = delay]
           = [tasks |-> a.tasks, scheduled |-> TRUE, timer |-> delay]
<1> DEFINE b == [a EXCEPT !.scheduled = TRUE, !.timer = delay]
<1>1. b \in Agenda /\ b.tasks = a.tasks /\ b.scheduled = TRUE /\ b.timer = delay
  BY DEF Agenda
<1> HIDE DEF b
<1>2. b = [tasks |-> a.tasks, scheduled |-> TRUE, timer |-> delay]
  BY <1>1 DEF Agenda
<1> QED
  BY <1>2 DEF b

(* insert_task keeps the list in order and every task in it, and there is  *)
(* such a task in time, the new one or the one it has been coalesced with. *)
LEMMA InsertFacts ==
  ASSUME NEW a, Sane(a), NEW what \in Whats, what # "watchdog", NEW delay \in Nat
  PROVE  LET b == Insert(a, what, delay)
         IN  /\ Sane(b)
             /\ TasksOf(a) \subseteq TasksOf(b)
             /\ Has(b, {what}, delay)
             /\ Ahead(a) \/ a.tasks = <<>> => Ahead(b)
<1> DEFINE k == Place(a.tasks, delay)
           n == Len(a.tasks)
           task == [due |-> delay, what |-> what]
           new == Inserted(a.tasks, k, task)
           b == Insert(a, what, delay)
<1>1. /\ a \in Agenda /\ a.tasks \in Seq(Task) /\ task \in Task
      /\ n \in Nat /\ DOMAIN a.tasks = 1 .. n /\ \A j \in 1 .. n : a.tasks[j] \in Task
  <2>1. a \in Agenda /\ a.tasks \in Seq(Task)
    BY DEF Sane, Agenda
  <2>2. task \in Task
    BY DEF Task
  <2> QED
    BY <2>1, <2>2, LenProperties, ElementOfSeq
<1>2. /\ k \in 1 .. n + 1
      /\ \A j \in 1 .. n : j < k => a.tasks[j].due <= delay
      /\ \A j \in 1 .. n : k <= j => a.tasks[j].due > delay
  BY <1>1, PlaceFacts DEF Sane
<1>3. CASE k > 1 /\ delay = 0 /\ a.tasks[k - 1].what = what
  <2>1. b = a
    BY <1>3 DEF Insert
  <2>2. k - 1 \in 1 .. n /\ a.tasks[k - 1].due <= delay
    BY <1>1, <1>2, <1>3
  <2>3. Has(b, {what}, delay)
    BY <1>1, <1>3, <2>1, <2>2 DEF Has, TasksOf
  <2>4. a.tasks # <<>>
    BY <1>1, <2>2
  <2> QED
    BY <2>1, <2>3, <2>4
<1>4. CASE ~(k > 1 /\ delay = 0 /\ a.tasks[k - 1].what = what)
  <2>1. b = IF k = 1 THEN [tasks |-> new, scheduled |-> TRUE, timer |-> delay]
            ELSE [tasks |-> new, scheduled |-> a.scheduled, timer |-> a.timer]
    <3> DEFINE c == [a EXCEPT !.tasks = new]
    <3>1. new \in Seq(Task)
      BY <1>1, <1>2, InsertedFacts
    <3>2. c \in Agenda /\ c.tasks = new /\ c.scheduled = a.scheduled /\ c.timer = a.timer
      BY <1>1, <3>1 DEF Agenda
    <3>3. c = [tasks |-> new, scheduled |-> a.scheduled, timer |-> a.timer]
      BY <3>2 DEF Agenda
    <3>4. [c EXCEPT !.scheduled = TRUE, !.timer = delay]
            = [tasks |-> new, scheduled |-> TRUE, timer |-> delay]
      <4> HIDE DEF c
      <4>1. [c EXCEPT !.scheduled = TRUE, !.timer = delay]
              = [tasks |-> c.tasks, scheduled |-> TRUE, timer |-> delay]
        <5>1. delay \in Int
          OBVIOUS
        <5> QED
          BY <3>2, <5>1, CalledAgain, Zenon
      <4> QED
        BY <3>2, <4>1
    <3>5. b = IF k = 1 THEN [c EXCEPT !.scheduled = TRUE, !.timer = delay] ELSE c
      BY <1>4, Zenon DEF Insert
    <3> QED
      BY <3>3, <3>4, <3>5, Zenon
  <2>2. /\ new \in Seq(Task) /\ Len(new) = n + 1 /\ new[k] = task
        /\ \A j \in 1 .. n + 1 : j < k => new[j] = a.tasks[j]
        /\ \A j \in 1 .. n + 1 : k < j => new[j] = a.tasks[j - 1]
    <3> HIDE DEF k, task
    <3>1. a.tasks \in Seq(Task) /\ k \in 1 .. n + 1 /\ n \in Nat /\ task \in Task
      BY <1>1, <1>2
    <3> HIDE DEF new
    <3>2. /\ new \in Seq(Task) /\ Len(new) = n + 1 /\ new[k] = task
          /\ \A j \in 1 .. n + 1 : j < k => new[j] = a.tasks[j]
      BY <3>1, InsertedFacts DEF new
    <3>3. \A j \in 1 .. n + 1 : k < j => new[j] = a.tasks[j - 1]
      BY <3>1, InsertedFacts, ZenonT(30) DEF new
    <3> QED
      BY <3>2, <3>3
  <2>3. DOMAIN new = 1 .. n + 1
    BY <1>1, <2>2, LenProperties
  <2>4. b \in Agenda
    <3>1. a.scheduled \in BOOLEAN /\ a.timer \in Int
      BY <1>1 DEF Agenda
    <3>2. CASE k = 1
      <4>1. [tasks |-> new, scheduled |-> TRUE, timer |-> delay] \in Agenda
        BY <2>2 DEF Agenda
      <4> QED
        BY <2>1, <3>2, <4>1
    <3>3. CASE k # 1
      <4>1. [tasks |-> new, scheduled |-> a.scheduled, timer |-> a.timer] \in Agenda
        BY <2>2, <3>1 DEF Agenda
      <4> QED
        BY <2>1, <3>3, <4>1
    <3> QED
      BY <3>2, <3>3
  <2>5. ASSUME NEW t \in TasksOf(a) PROVE t \in TasksOf(b)
    <3>1. PICK j \in 1 .. n : t = a.tasks[j]
      BY <1>1 DEF TasksOf
    <3>2. CASE j < k
      BY <1>1, <2>1, <2>2, <2>3, <3>1, <3>2 DEF TasksOf
    <3>3. CASE k <= j
      <4>1. j + 1 \in 1 .. n + 1 /\ k < j + 1 /\ (j + 1) - 1 = j
        BY <1>1, <1>2, <3>3
      <4>2. new[j + 1] = t
        BY <2>2, <3>1, <4>1
      <4> QED
        BY <2>1, <2>3, <4>1, <4>2 DEF TasksOf
    <3> QED
      BY <1>1, <1>2, <3>2, <3>3
  <2>6. ASSUME NEW t \in TasksOf(b) PROVE t = task \/ t \in TasksOf(a)
    <3>1. PICK j \in 1 .. n + 1 : t = new[j]
      BY <2>1, <2>3 DEF TasksOf
    <3>2. CASE j < k
      <4>1. j \in 1 .. n
        BY <1>1, <1>2, <3>2
      <4> QED
        BY <1>1, <2>2, <3>1, <3>2, <4>1 DEF TasksOf
    <3>3. CASE j = k
      BY <2>2, <3>1, <3>3
    <3>4. CASE k < j
      <4>1. j - 1 \in 1 .. n
        BY <1>1, <1>2, <3>4
      <4> QED
        BY <1>1, <2>2, <3>1, <3>4, <4>1 DEF TasksOf
    <3> QED
      BY <1>1, <1>2, <3>2, <3>3, <3>4
  <2>7. InOrder(b)
    <3>1. SUFFICES ASSUME NEW i \in 1 .. n + 1, NEW j \in 1 .. n + 1, i <= j
                   PROVE  new[i].due <= new[j].due
      BY <2>1, <2>3 DEF InOrder
    <3>2. \A p, q \in 1 .. n : p <= q => a.tasks[p].due <= a.tasks[q].due
      BY <1>1 DEF Sane, InOrder
    <3>3. \A p \in 1 .. n : a.tasks[p].due \in Int
      BY <1>1 DEF Task
    <3>4. CASE j < k
      <4>1. i \in 1 .. n /\ j \in 1 .. n /\ i < k
        BY <1>1, <1>2, <3>1, <3>4
      <4> QED
        <5>1. new[i] = a.tasks[i] /\ new[j] = a.tasks[j]
          BY <2>2, <3>4, <4>1
        <5> QED
          BY <3>1, <3>2, <4>1, <5>1
    <3>5. CASE j = k /\ i < k
      <4>1. i \in 1 .. n
        BY <1>1, <1>2, <3>5
      <4> QED
        <5>1. new[i] = a.tasks[i] /\ new[j] = task
          BY <2>2, <3>5, <4>1
        <5> QED
          BY <1>2, <3>5, <4>1, <5>1
    <3>6. CASE j = k /\ i = k
      BY <2>2, <3>6
    <3>7. CASE k < j /\ i < k
      <4>1. i \in 1 .. n /\ j - 1 \in 1 .. n /\ i <= j - 1
        BY <1>1, <1>2, <3>7
      <4> QED
        BY <2>2, <3>2, <3>7, <4>1
    <3>8. CASE k < j /\ i = k
      <4>1. j - 1 \in 1 .. n /\ k <= j - 1
        BY <1>1, <1>2, <3>8
      <4> QED
        <5>1. new[j] = a.tasks[j - 1] /\ new[i].due = delay
          BY <2>2, <3>8
        <5>2. a.tasks[j - 1].due > delay /\ a.tasks[j - 1].due \in Int
          BY <1>2, <3>3, <4>1
        <5> QED
          BY <5>1, <5>2
    <3>9. CASE k < j /\ k < i
      <4>1. i - 1 \in 1 .. n /\ j - 1 \in 1 .. n /\ i - 1 <= j - 1
        BY <1>1, <1>2, <3>1, <3>9
      <4> QED
        BY <2>2, <3>2, <3>9, <4>1
    <3> QED
      BY <1>1, <1>2, <3>1, <3>4, <3>5, <3>6, <3>7, <3>8, <3>9
  <2>8. Sane(b)
    BY <2>4, <2>6, <2>7 DEF Sane
  <2>9. Has(b, {what}, delay)
    <3>1. task \in TasksOf(b)
      BY <1>2, <2>1, <2>2, <2>3 DEF TasksOf
    <3> QED
      BY <3>1 DEF Has
  <2>10. ASSUME Ahead(a) \/ a.tasks = <<>> PROVE Ahead(b)
    <3>1. CASE k = 1
      <4>1. \A t \in TasksOf(a) : delay <= t.due
        BY <1>1, <1>2, <3>1 DEF TasksOf, Task
      <4>2. b.scheduled = TRUE /\ b.timer = delay
        BY <2>1, <3>1
      <4>3. \A t \in TasksOf(b) : delay <= t.due
        BY <2>6, <4>1
      <4> QED
        BY <4>2, <4>3 DEF Ahead
    <3>2. CASE k > 1
      <4>1. 1 \in 1 .. n /\ a.tasks[1].due <= delay
        BY <1>1, <1>2, <3>2
      <4>2. Ahead(a) /\ a.tasks[1] \in TasksOf(a)
        BY <1>1, <2>10, <4>1 DEF TasksOf
      <4>3. a.timer <= delay
        BY <1>1, <4>1, <4>2 DEF Ahead, Task
      <4>4. a.scheduled = TRUE /\ a.timer \in Nat /\ \A t \in TasksOf(a) : a.timer <= t.due
        BY <4>2 DEF Ahead
      <4>5. b.scheduled = TRUE /\ b.timer = a.timer
        BY <2>1, <3>2, <4>4
      <4>6. \A t \in TasksOf(b) : a.timer <= t.due
        BY <2>6, <4>3, <4>4
      <4> QED
        BY <4>4, <4>5, <4>6 DEF Ahead
    <3> QED
      BY <1>1, <1>2, <3>1, <3>2
  <2> QED
    BY <2>5, <2>8, <2>9, <2>10
<1> QED
  BY <1>3, <1>4
-----------------------------------------------------------------------------
(* Taking the first task from the list keeps all the others.               *)
LEMMA PoppedFacts ==
  ASSUME Sane(agenda), agenda.tasks # <<>>
  PROVE  /\ Sane(Popped)
         /\ \A t \in TasksOf(agenda) : t = Head(agenda.tasks) \/ t \in TasksOf(Popped)
<1> DEFINE s == agenda.tasks
           n == Len(s)
<1>1. s \in Seq(Task) /\ n \in Nat /\ n > 0 /\ DOMAIN s = 1 .. n
  <2>1. s \in Seq(Task)
    BY DEF Sane, Agenda
  <2> QED
    BY <2>1, LenProperties, EmptySeq
<1>2. /\ Tail(s) \in Seq(Task) /\ Len(Tail(s)) = n - 1 /\ DOMAIN Tail(s) = 1 .. n - 1
      /\ \A j \in 1 .. n - 1 : Tail(s)[j] = s[j + 1]
  BY <1>1, HeadTailProperties, LenProperties
<1>3. Popped = [tasks |-> Tail(s), scheduled |-> FALSE, timer |-> 0]
  BY DEF Popped
<1>4. Popped \in Agenda
  BY <1>2, <1>3 DEF Agenda
<1>5. InOrder(Popped)
  <2>1. SUFFICES ASSUME NEW i \in 1 .. n - 1, NEW j \in 1 .. n - 1, i <= j
                 PROVE  Tail(s)[i].due <= Tail(s)[j].due
    BY <1>2, <1>3 DEF InOrder
  <2>2. i + 1 \in 1 .. n /\ j + 1 \in 1 .. n /\ i + 1 <= j + 1
    BY <1>1, <2>1
  <2>3. s[i + 1].due <= s[j + 1].due
    BY <1>1, <2>2 DEF Sane, InOrder
  <2> QED
    BY <1>2, <2>3
<1>6. TasksOf(Popped) \subseteq TasksOf(agenda)
  <2>1. ASSUME NEW j \in 1 .. n - 1 PROVE Tail(s)[j] \in TasksOf(agenda)
    <3>1. j + 1 \in 1 .. n
      BY <1>1
    <3> QED
      BY <1>1, <1>2, <3>1 DEF TasksOf
  <2> QED
    BY <1>2, <1>3, <2>1 DEF TasksOf
<1>7. ASSUME NEW t \in TasksOf(agenda), t # Head(s) PROVE t \in TasksOf(Popped)
  <2>1. PICK j \in 1 .. n : t = s[j]
    BY <1>1 DEF TasksOf
  <2>2. j # 1
    BY <1>1, <1>7, <2>1
  <2>3. j - 1 \in 1 .. n - 1 /\ (j - 1) + 1 = j
    BY <1>1, <2>2
  <2>4. t = Tail(s)[j - 1]
    BY <1>2, <2>1, <2>3
  <2> QED
    BY <1>2, <1>3, <2>3, <2>4 DEF TasksOf
<1> QED
  BY <1>4, <1>5, <1>6, <1>7 DEF Sane

(* The end of _process_next: the delayed call is made for the first task.  *)
LEMMA RescheduledFacts ==
  ASSUME NEW a, Sane(a), a.tasks # <<>>
  PROVE  /\ Sane(Rescheduled(a))
         /\ Ahead(Rescheduled(a))
         /\ TasksOf(Rescheduled(a)) = TasksOf(a)
<1> DEFINE s == a.tasks
           r == Rescheduled(a)
<1>1. a \in Agenda /\ s \in Seq(Task)
  BY DEF Sane, Agenda
<1>2. Len(s) \in Nat /\ Len(s) > 0 /\ DOMAIN s = 1 .. Len(s) /\ Head(s) = s[1] /\ s[1] \in Task
  BY <1>1, LenProperties, EmptySeq, ElementOfSeq
<1>3. s[1] \in TasksOf(a) /\ s[1].due \in Nat
  BY <1>2 DEF Sane, TasksOf, Task
<1>4. r = [tasks |-> s, scheduled |-> TRUE, timer |-> s[1].due]
  <2>1. s[1].due = IF Head(s).due > 0 THEN Head(s).due ELSE 0
    BY <1>2, <1>3
  <2>2. r = [a EXCEPT !.scheduled = TRUE, !.timer = s[1].due]
    BY <2>1 DEF Rescheduled
  <2> QED
    BY <1>1, <2>2 DEF Agenda
<1>5. r.tasks = s /\ r.scheduled = TRUE /\ r.timer = s[1].due /\ r \in Agenda
  <2>1. [tasks |-> s, scheduled |-> TRUE, timer |-> s[1].due] \in Agenda
    BY <1>1, <1>3 DEF Agenda
  <2> QED
    BY <1>4, <2>1
<1>6. TasksOf(r) = TasksOf(a)
  BY <1>5 DEF TasksOf
<1>7. Sane(r)
  BY <1>5, <1>6 DEF Sane, InOrder
<1>8. \A t \in TasksOf(a) : s[1].due <= t.due
  BY <1>2 DEF Sane, InOrder, TasksOf
<1> QED
  BY <1>3, <1>5, <1>6, <1>7, <1>8 DEF Ahead

(* Whatever a list promises, a list with more tasks promises.              *)
LEMMA MoreTasks ==
  ASSUME NEW a, NEW b, TasksOf(a) \subseteq TasksOf(b), NEW p, NEW slots, NEW al
  PROVE  /\ \A whats, bound : Has(a, whats, bound) => Has(b, whats, bound)
         /\ Loops(a, p) => Loops(b, p)
         /\ Retries(a, slots) => Retries(b, slots)
         /\ AlarmIn(a, al) => AlarmIn(b, al)
<1>1. \A whats, bound : Has(a, whats, bound) => Has(b, whats, bound)
  BY DEF Has
<1> QED
  BY <1>1, Zenon DEF Loops, Retries, AlarmIn
(* The same for the list whose first task has been taken: it promises all  *)
(* but what the first task was for.                                        *)
LEMMA PoppedPromises ==
  ASSUME IInv
  PROVE  /\ Sane(Popped)
         /\ \A whats, bound :
              Has(agenda, whats, bound) /\ Head(agenda.tasks).what \notin whats =>
                Has(Popped, whats, bound)
<1>1. agenda.tasks # <<>>
  <2>1. PICK t \in TasksOf(agenda) : TRUE
    BY DEF IInv, Loops, Has
  <2>2. DOMAIN agenda.tasks # {}
    BY <2>1 DEF TasksOf
  <2> QED
    BY <2>2
<1>2. /\ Sane(Popped)
      /\ \A t \in TasksOf(agenda) : t = Head(agenda.tasks) \/ t \in TasksOf(Popped)
  BY <1>1, PoppedFacts DEF IInv
<1> QED
  BY <1>2 DEF Has

(* One tick brings every promise nearer.                                   *)
LEMMA TickFacts ==
  ASSUME IInv, Tick
  PROVE  /\ Sane(agenda') /\ Ahead(agenda')
         /\ \A whats : \A bound \in Int :
              Has(agenda, whats, bound) => Has(agenda', whats, bound - 1)
<1> DEFINE s == agenda.tasks
<1>1. /\ s \in Seq(Task) /\ agenda \in Agenda /\ DOMAIN s = 1 .. Len(s) /\ Len(s) \in Nat
      /\ \A k \in 1 .. Len(s) : s[k] \in Task /\ s[k].due >= agenda.timer
      /\ agenda.timer \in Nat /\ agenda.scheduled = TRUE
  <2>1. s \in Seq(Task) /\ agenda \in Agenda
    BY DEF IInv, Sane, Agenda
  <2>2. DOMAIN s = 1 .. Len(s) /\ Len(s) \in Nat /\ \A k \in 1 .. Len(s) : s[k] \in Task
    BY <2>1, LenProperties, ElementOfSeq
  <2> QED
    BY <2>1, <2>2 DEF IInv, Ahead, TasksOf
<1>2. agenda.timer > 0 /\ \A k \in 1 .. Len(s) : s[k].due - 1 \in Nat
  BY <1>1 DEF Tick, Task
<1>3. \A d \in Nat : Later(d) = d - 1
  BY DelayAssumption DEF Later, Overdue
<1> DEFINE new == [k \in DOMAIN s |-> [due |-> Later(s[k].due), what |-> s[k].what]]
<1>4. agenda'.tasks = new /\ agenda'.scheduled = TRUE /\ agenda'.timer = agenda.timer - 1
  BY <1>1 DEF Tick, Agenda
<1>5. \A k \in 1 .. Len(s) :
        /\ new[k] \in Task
        /\ s[k].due \in Int
        /\ new[k].due = s[k].due - 1
        /\ new[k].what = s[k].what
  <2>1. SUFFICES ASSUME NEW k \in 1 .. Len(s)
                 PROVE  /\ new[k] \in Task
                        /\ s[k].due \in Int
                        /\ new[k].due = s[k].due - 1
                        /\ new[k].what = s[k].what
    OBVIOUS
  <2>2. s[k].due \in Int /\ s[k].what \in Whats /\ s[k].due - 1 \in Nat
    BY <1>1, <1>2 DEF Task
  <2>3. Later(s[k].due) = s[k].due - 1
    BY <1>3, <2>2 DEF Later, Overdue
  <2>4. new[k] = [due |-> s[k].due - 1, what |-> s[k].what]
    BY <1>1, <2>3
  <2>5. [due |-> s[k].due - 1, what |-> s[k].what] \in Task
    BY <2>2 DEF Task
  <2> QED
    BY <2>2, <2>4, <2>5
<1>6. new \in [1 .. Len(s) -> Task]
  BY <1>1, <1>5
<1>7. new \in Seq(Task) /\ DOMAIN new = 1 .. Len(s)
  BY <1>1, <1>6, IsASeq
<1>8. agenda' \in Agenda
  <2>1. agenda' = [agenda EXCEPT !.tasks = new, !.timer = agenda.timer - 1]
    BY <1>1 DEF Tick
  <2>2. \A a \in Agenda, t \in Seq(Task), d \in Int : [a EXCEPT !.tasks = t, !.timer = d] \in Agenda
    BY DEF Agenda
  <2>3. agenda.timer - 1 \in Int
    BY <1>1
  <2> QED
    BY <1>1, <1>7, <2>1, <2>2, <2>3, Zenon
<1> HIDE DEF new
<1>9. TasksOf(agenda') = {new[k] : k \in 1 .. Len(s)}
  BY <1>4, <1>7 DEF TasksOf
<1>10. Sane(agenda')
  <2>1. InOrder(agenda')
    <3>1. \A j, k \in 1 .. Len(s) : j <= k => s[j].due <= s[k].due
      BY <1>1 DEF IInv, Sane, InOrder
    <3>2. ASSUME NEW j \in 1 .. Len(s), NEW k \in 1 .. Len(s), j <= k
          PROVE  new[j].due <= new[k].due
      <4>1. s[j].due <= s[k].due
        BY <3>1, <3>2
      <4> QED
        BY <1>5, <4>1
    <3> QED
      BY <1>4, <1>7, <3>2 DEF InOrder
  <2>2. \A k \in 1 .. Len(s) : s[k].what # "watchdog"
    BY <1>1 DEF IInv, Sane, TasksOf
  <2>3. ASSUME NEW k \in 1 .. Len(s) PROVE new[k].due >= 0 /\ new[k].what # "watchdog"
    BY <1>2, <1>5, <2>2
  <2> QED
    BY <1>8, <1>9, <2>1, <2>3 DEF Sane
<1>11. Ahead(agenda')
  <2>1. ASSUME NEW k \in 1 .. Len(s) PROVE agenda.timer - 1 <= new[k].due
    BY <1>1, <1>5
  <2>2. \A t \in TasksOf(agenda') : agenda'.timer <= t.due
    BY <1>4, <1>9, <2>1
  <2> QED
    BY <1>1, <1>2, <1>4, <2>2 DEF Ahead
<1>12. ASSUME NEW whats, NEW bound \in Int, Has(agenda, whats, bound)
       PROVE  Has(agenda', whats, bound - 1)
  <2>1. PICK k \in 1 .. Len(s) : s[k].what \in whats /\ s[k].due <= bound
    BY <1>1, <1>12 DEF Has, TasksOf
  <2>2. new[k].what \in whats /\ new[k].due <= bound - 1
    BY <1>5, <2>1
  <2> QED
    BY <1>9, <2>1, <2>2 DEF Has
<1> QED
  BY <1>10, <1>11, <1>12

(* The list part of the type invariant follows from Sane.                  *)
LEMMA AgendaType ==
  ASSUME Sane(agenda)
  PROVE  agenda \in [tasks : Seq([due : Int, what : Whats]), scheduled : BOOLEAN, timer : Int]
BY DEF Sane, Agenda, Task

-----------------------------------------------------------------------------
LEMMA InitHolds == Init => IInv
<1> SUFFICES ASSUME Init PROVE IInv
  OBVIOUS
<1> DEFINE a0 == [tasks |-> <<>>, scheduled |-> FALSE, timer |-> 0]
           a1 == Insert(a0, "maintenance", MaintenanceDelay)
           a2 == Insert(a1, "replication", ReplicationInterval)
           a3 == Insert(a2, "strategy", 0)
<1>1. Sane(a0) /\ a0.tasks = <<>>
  <2>1. a0 \in Agenda /\ TasksOf(a0) = {}
    BY DEF Agenda, TasksOf
  <2> QED
    BY <2>1 DEF Sane, InOrder
<1> HIDE DEF a0
<1>2. Sane(a1) /\ Ahead(a1) /\ Has(a1, {"maintenance"}, MaintenanceDelay)
  BY <1>1, InsertFacts, DelayAssumption DEF Whats
<1> HIDE DEF a1
<1>3. /\ Sane(a2) /\ Ahead(a2) /\ TasksOf(a1) \subseteq TasksOf(a2)
      /\ Has(a2, {"replication"}, ReplicationInterval)
  BY <1>2, InsertFacts, DelayAssumption DEF Whats
<1> HIDE DEF a2
<1>4. Sane(a3) /\ Ahead(a3) /\ TasksOf(a2) \subseteq TasksOf(a3)
  BY <1>3, InsertFacts DEF Whats
<1>5. agenda = a3
  BY DEF Init, a0, a1, a2
<1> HIDE DEF a3
<1>6. Loops(agenda, pressured)
  BY <1>2, <1>3, <1>4, <1>5 DEF Loops, Has, Init
<1>7. Retries(agenda, backoff) /\ AlarmIn(agenda, alarm)
  BY DEF Init, Retries, AlarmIn, NoBackoff
<1>8. TypeOK
  <2>1. \A ep \in Endpoints : backoff[ep] = NoBackoff
    BY DEF Init
  <2>2. NoBackoff \in [left : Int, step : 0 .. MaxBackoff] /\ NoBackoff.left <= NoBackoff.step
    BY DelayAssumption DEF NoBackoff
  <2>3. backoff \in [Endpoints -> [left : Int, step : 0 .. MaxBackoff]]
    BY <2>2 DEF Init
  <2> QED
    BY <1>4, <1>5, <2>1, <2>2, <2>3, AgendaType DEF TypeOK, Init
<1> QED
  BY <1>4, <1>5, <1>6, <1>7, <1>8 DEF IInv

-----------------------------------------------------------------------------
(* What a task leaves behind keeps the promises of the list it has made.   *)
LEMMA RescheduledPromises ==
  ASSUME NEW a, Sane(a), NEW p, NEW slots, NEW al,
         Loops(a, p), Retries(a, slots), AlarmIn(a, al)
  PROVE  LET r == Rescheduled(a)
         IN  Sane(r) /\ Ahead(r) /\ Loops(r, p) /\ Retries(r, slots) /\ AlarmIn(r, al)
<1>1. a.tasks # <<>>
  <2>1. PICK t \in TasksOf(a) : TRUE
    BY DEF Loops, Has
  <2>2. DOMAIN a.tasks # {}
    BY <2>1 DEF TasksOf
  <2> QED
    BY <2>2
<1>2. /\ Sane(Rescheduled(a)) /\ Ahead(Rescheduled(a))
      /\ TasksOf(a) \subseteq TasksOf(Rescheduled(a))
  BY <1>1, RescheduledFacts
<1> QED
  BY <1>2, MoreTasks

LEMMA RunStrategyKeeps ==
  ASSUME IInv, RunStrategy
  PROVE  IInv'
<1>1. PICK moved \in BOOLEAN, pressure \in BOOLEAN, next \in NextAlarms :
        /\ backoff' = BackoffChecked(moved)
        /\ pressured' = (pressured \/ pressure)
        /\ alarm' = next
        /\ \E activity \in {TRUE} \cup (IF next # alarm THEN {} ELSE {FALSE}) :
             LET a == Armed(Pressed(Popped, pressure), next)
             IN  agenda' = Rescheduled(IF activity THEN Insert(a, "strategy", 0) ELSE a)
  BY DEF RunStrategy
<1> DEFINE p1 == Pressed(Popped, pressure)
           p2 == Armed(p1, next)
<1>2. PICK activity \in BOOLEAN :
        agenda' = Rescheduled(IF activity THEN Insert(p2, "strategy", 0) ELSE p2)
  BY <1>1
<1> DEFINE p3 == IF activity THEN Insert(p2, "strategy", 0) ELSE p2
<1>3. Head(agenda.tasks).what = "strategy"
  BY DEF RunStrategy, Called
<1>4. /\ Sane(Popped)
      /\ Loops(Popped, pressured)
      /\ alarm = "armed" => Has(Popped, {"timer"}, TimerDelay)
  <2>1. /\ Sane(Popped)
        /\ \A whats, bound :
              Has(agenda, whats, bound) /\ "strategy" \notin whats => Has(Popped, whats, bound)
    BY <1>3, PoppedPromises
  <2> QED
    BY <2>1 DEF IInv, Loops, AlarmIn
<1>5. /\ Sane(p1) /\ TasksOf(Popped) \subseteq TasksOf(p1)
      /\ pressure => Has(p1, {"pressure"}, 0)
  BY <1>4, InsertFacts DEF Pressed, Whats
<1> HIDE DEF p1
<1>6. /\ Sane(p2) /\ TasksOf(p1) \subseteq TasksOf(p2)
      /\ next = "armed" /\ alarm # "armed" => Has(p2, {"timer"}, TimerDelay)
  BY <1>5, InsertFacts, DelayAssumption DEF Armed, Whats
<1> HIDE DEF p2
<1>7. Sane(p3) /\ TasksOf(p2) \subseteq TasksOf(p3)
  BY <1>6, InsertFacts DEF Whats
<1> HIDE DEF p3
<1>8. Loops(p3, pressured')
  <2>1. \A whats, bound : Has(Popped, whats, bound) => Has(p3, whats, bound)
    BY <1>5, <1>6, <1>7 DEF Has
  <2>2. pressure => Has(p3, {"pressure"}, 0)
    BY <1>5, <1>6, <1>7 DEF Has
  <2>3. pressured' => pressured \/ pressure
    BY <1>1
  <2> QED
    BY <1>4, <2>1, <2>2, <2>3 DEF Loops
<1>9. AlarmIn(p3, alarm')
  <2>1. CASE alarm = "armed"
    BY <1>4, <1>5, <1>6, <1>7, <2>1 DEF AlarmIn, Has
  <2>2. CASE alarm # "armed"
    BY <1>1, <1>6, <1>7, <2>2 DEF AlarmIn, Has
  <2> QED
    BY <2>1, <2>2
<1>10. /\ backoff' \in [Endpoints -> [left : Int, step : 0 .. MaxBackoff]]
       /\ \A ep \in Endpoints : backoff'[ep] = NoBackoff
                                \/ (backoff'[ep] = backoff[ep] /\ ~(backoff[ep].left < 0))
  <2>1. NoBackoff \in [left : Int, step : 0 .. MaxBackoff]
    BY DelayAssumption DEF NoBackoff
  <2>2. backoff \in [Endpoints -> [left : Int, step : 0 .. MaxBackoff]]
    BY DEF IInv, TypeOK
  <2> QED
    BY <1>1, <2>1, <2>2 DEF BackoffChecked
<1>11. Retries(p3, backoff')
  BY <1>10 DEF Retries, NoBackoff
<1>12. agenda' = Rescheduled(p3)
  BY <1>2 DEF p3
<1>13. /\ Sane(agenda') /\ Ahead(agenda') /\ Loops(agenda', pressured')
       /\ Retries(agenda', backoff') /\ AlarmIn(agenda', alarm')
  BY <1>7, <1>8, <1>9, <1>11, <1>12, RescheduledPromises
<1>14. TypeOK'
  <2>1. pressured' \in BOOLEAN
    BY <1>1 DEF IInv, TypeOK
  <2>2. alarm' \in {"idle", "armed", "triggered"}
    BY <1>1 DEF IInv, TypeOK, NextAlarms
  <2>3. \A ep \in Endpoints : backoff'[ep].left <= backoff'[ep].step
    <3>1. \A ep \in Endpoints : backoff[ep].left <= backoff[ep].step
      BY DEF IInv, TypeOK
    <3>2. NoBackoff.left <= NoBackoff.step
      BY DEF NoBackoff
    <3> QED
      BY <1>10, <3>1, <3>2
  <2>4. served' \in BOOLEAN
    BY DEF RunStrategy
  <2>5. agenda' \in [tasks : Seq([due : Int, what : Whats]), scheduled : BOOLEAN, timer : Int]
    BY <1>13 DEF Sane, Agenda, Task
  <2> QED
    BY <1>10, <2>1, <2>2, <2>3, <2>4, <2>5 DEF TypeOK
<1> QED
  BY <1>13, <1>14 DEF IInv

LEMMA RunReplicationKeeps ==
  ASSUME IInv, RunReplication
  PROVE  IInv'
<1> DEFINE soon == \E k \in Pending(Popped, {"replication"}) :
                     Popped.tasks[k].due < ReplicationInterval
           p1 == IF soon THEN Popped ELSE Insert(Popped, "replication", ReplicationInterval)
           p2 == Insert(p1, "strategy", 0)
<1>1. agenda' = Rescheduled(p2) /\ Head(agenda.tasks).what = "replication"
  BY DEF RunReplication, Called
<1>2. /\ Sane(Popped)
      /\ Has(Popped, {"maintenance"}, MaintenanceDelay)
      /\ pressured => Has(Popped, {"pressure"}, 0)
      /\ AlarmIn(Popped, alarm)
  <2>1. /\ Sane(Popped)
        /\ \A whats, bound :
              Has(agenda, whats, bound) /\ "replication" \notin whats => Has(Popped, whats, bound)
    BY <1>1, PoppedPromises
  <2> QED
    BY <2>1 DEF IInv, Loops, AlarmIn
<1>3. /\ Sane(p1) /\ TasksOf(Popped) \subseteq TasksOf(p1)
      /\ Has(p1, {"replication"}, ReplicationInterval)
  <2>1. CASE soon
    <3>1. PICK k \in DOMAIN Popped.tasks : /\ Popped.tasks[k].what = "replication"
                                           /\ Popped.tasks[k].due < ReplicationInterval
      BY <2>1 DEF Pending
    <3>2. Popped.tasks[k] \in Task
      <4>1. Popped.tasks \in Seq(Task)
        BY <1>2 DEF Sane, Agenda
      <4> QED
        BY <3>1, <4>1, ElementOfSeq, LenProperties
    <3>3. Popped.tasks[k].due <= ReplicationInterval
      BY <3>1, <3>2, DelayAssumption DEF Task
    <3> QED
      BY <1>2, <2>1, <3>1, <3>3 DEF Has, TasksOf
  <2>2. CASE ~soon
    BY <1>2, <2>2, InsertFacts, DelayAssumption DEF Whats
  <2> QED
    BY <2>1, <2>2
<1> HIDE DEF p1
<1>4. /\ Sane(p2) /\ TasksOf(p1) \subseteq TasksOf(p2) /\ Has(p2, {"strategy"}, 0)
  BY <1>3, InsertFacts DEF Whats
<1> HIDE DEF p2
<1>5. Loops(p2, pressured) /\ AlarmIn(p2, alarm)
  BY <1>2, <1>3, <1>4 DEF Loops, AlarmIn, Has
<1>6. Retries(p2, backoff)
  <2>1. SUFFICES ASSUME NEW ep \in Endpoints, backoff[ep].step > 0, backoff[ep].left < 0
                 PROVE  Has(p2, {"replication", "strategy"}, ReplicationInterval + backoff[ep].left)
    BY DEF Retries
  <2>2. Has(agenda, {"replication", "strategy"}, ReplicationInterval + backoff[ep].left)
    BY <2>1 DEF IInv, Retries
  <2>3. backoff[ep].left \in Int
    BY DEF IInv, TypeOK
  <2>4. 0 <= ReplicationInterval + backoff[ep].left
    <3>1. PICK t \in TasksOf(agenda) : t.due <= ReplicationInterval + backoff[ep].left
      BY <2>2 DEF Has
    <3>2. t.due >= 0 /\ t.due \in Int
      <4>1. agenda.tasks \in Seq(Task)
        BY DEF IInv, Sane, Agenda
      <4>2. t \in Task
        BY <4>1, ElementOfSeq, LenProperties DEF TasksOf
      <4> QED
        BY <4>2 DEF IInv, Sane, Task
    <3> QED
      BY <2>3, <3>1, <3>2, DelayAssumption
  <2>5. PICK t \in TasksOf(p2) : t.what = "strategy" /\ t.due <= 0
    BY <1>4 DEF Has
  <2>6. t.due \in Int
    <3>1. p2.tasks \in Seq(Task)
      BY <1>4 DEF Sane, Agenda
    <3>2. t \in Task
      BY <3>1, ElementOfSeq, LenProperties DEF TasksOf
    <3> QED
      BY <3>2 DEF Task
  <2>7. t.due <= ReplicationInterval + backoff[ep].left
    BY <2>3, <2>4, <2>5, <2>6, DelayAssumption
  <2> QED
    BY <2>5, <2>7 DEF Has
<1>7. /\ Sane(agenda') /\ Ahead(agenda') /\ Loops(agenda', pressured)
      /\ Retries(agenda', backoff) /\ AlarmIn(agenda', alarm)
  BY <1>1, <1>4, <1>5, <1>6, RescheduledPromises
<1>8. agenda' \in [tasks : Seq([due : Int, what : Whats]), scheduled : BOOLEAN, timer : Int]
  BY <1>7 DEF Sane, Agenda, Task
<1> QED
  BY <1>7, <1>8 DEF IInv, TypeOK, RunReplication

LEMMA RunMaintenanceKeeps ==
  ASSUME IInv, RunMaintenance
  PROVE  IInv'
<1> DEFINE p1 == Insert(Popped, "strategy", 0)
           p2 == Insert(p1, "maintenance", MaintenanceDelay)
<1>1. agenda' = Rescheduled(p2) /\ Head(agenda.tasks).what = "maintenance"
  BY DEF RunMaintenance, Called
<1>2. /\ Sane(Popped)
      /\ Has(Popped, {"replication"}, ReplicationInterval)
      /\ pressured => Has(Popped, {"pressure"}, 0)
      /\ Retries(Popped, backoff)
      /\ AlarmIn(Popped, alarm)
  <2>1. /\ Sane(Popped)
        /\ \A whats, bound :
              Has(agenda, whats, bound) /\ "maintenance" \notin whats => Has(Popped, whats, bound)
    BY <1>1, PoppedPromises
  <2> QED
    BY <2>1 DEF IInv, Loops, AlarmIn, Retries
<1>3. Sane(p1) /\ TasksOf(Popped) \subseteq TasksOf(p1)
  BY <1>2, InsertFacts DEF Whats
<1> HIDE DEF p1
<1>4. /\ Sane(p2) /\ TasksOf(p1) \subseteq TasksOf(p2)
      /\ Has(p2, {"maintenance"}, MaintenanceDelay)
  BY <1>3, InsertFacts, DelayAssumption DEF Whats
<1> HIDE DEF p2
<1>5. Loops(p2, pressured) /\ AlarmIn(p2, alarm) /\ Retries(p2, backoff)
  <2>1. \A whats, bound : Has(Popped, whats, bound) => Has(p2, whats, bound)
    BY <1>3, <1>4 DEF Has
  <2> QED
    BY <1>2, <1>4, <2>1 DEF Loops, AlarmIn, Retries
<1>6. /\ Sane(agenda') /\ Ahead(agenda') /\ Loops(agenda', pressured)
      /\ Retries(agenda', backoff) /\ AlarmIn(agenda', alarm)
  BY <1>1, <1>4, <1>5, RescheduledPromises
<1>7. agenda' \in [tasks : Seq([due : Int, what : Whats]), scheduled : BOOLEAN, timer : Int]
  BY <1>6 DEF Sane, Agenda, Task
<1> QED
  BY <1>6, <1>7 DEF IInv, TypeOK, RunMaintenance

LEMMA RunPressureKeeps ==
  ASSUME IInv, RunPressure
  PROVE  IInv'
<1> DEFINE p1 == IF Pending(Popped, {"pressure"}) # {} THEN Popped
                 ELSE Insert(Popped, "pressure", PressureDelay)
<1>1. agenda' = Rescheduled(p1) /\ Head(agenda.tasks).what = "pressure"
  BY DEF RunPressure, Called
<1>2. Sane(Popped) /\ Loops(Popped, FALSE) /\ Retries(Popped, backoff) /\ AlarmIn(Popped, alarm)
  <2>1. /\ Sane(Popped)
        /\ \A whats, bound :
              Has(agenda, whats, bound) /\ "pressure" \notin whats => Has(Popped, whats, bound)
    BY <1>1, PoppedPromises
  <2> QED
    BY <2>1 DEF IInv, Loops, AlarmIn, Retries
<1>3. Sane(p1) /\ TasksOf(Popped) \subseteq TasksOf(p1)
  BY <1>2, InsertFacts, DelayAssumption DEF Whats
<1> HIDE DEF p1
<1>4. Loops(p1, FALSE) /\ Retries(p1, backoff) /\ AlarmIn(p1, alarm)
  BY <1>2, <1>3, MoreTasks
<1>5. /\ Sane(agenda') /\ Ahead(agenda') /\ Loops(agenda', FALSE)
      /\ Retries(agenda', backoff) /\ AlarmIn(agenda', alarm)
  BY <1>1, <1>3, <1>4, RescheduledPromises
<1>6. agenda' \in [tasks : Seq([due : Int, what : Whats]), scheduled : BOOLEAN, timer : Int]
  BY <1>5 DEF Sane, Agenda, Task
<1> QED
  BY <1>5, <1>6 DEF IInv, TypeOK, RunPressure

LEMMA FireTimerKeeps ==
  ASSUME IInv, FireTimer
  PROVE  IInv'
<1> DEFINE p1 == Insert(Popped, "strategy", 0)
<1>1. agenda' = Rescheduled(p1) /\ Head(agenda.tasks).what = "timer" /\ alarm' = "triggered"
  BY DEF FireTimer, Called
<1>2. Sane(Popped) /\ Loops(Popped, pressured) /\ Retries(Popped, backoff)
  <2>1. /\ Sane(Popped)
        /\ \A whats, bound :
              Has(agenda, whats, bound) /\ "timer" \notin whats => Has(Popped, whats, bound)
    BY <1>1, PoppedPromises
  <2> QED
    BY <2>1 DEF IInv, Loops, Retries
<1>3. Sane(p1) /\ TasksOf(Popped) \subseteq TasksOf(p1)
  BY <1>2, InsertFacts DEF Whats
<1> HIDE DEF p1
<1>4. Loops(p1, pressured) /\ Retries(p1, backoff) /\ AlarmIn(p1, alarm')
  BY <1>1, <1>2, <1>3, MoreTasks DEF AlarmIn
<1>5. /\ Sane(agenda') /\ Ahead(agenda') /\ Loops(agenda', pressured)
      /\ Retries(agenda', backoff) /\ AlarmIn(agenda', alarm')
  BY <1>1, <1>3, <1>4, RescheduledPromises
<1>6. agenda' \in [tasks : Seq([due : Int, what : Whats]), scheduled : BOOLEAN, timer : Int]
  BY <1>5 DEF Sane, Agenda, Task
<1> QED
  BY <1>1, <1>5, <1>6 DEF IInv, TypeOK, FireTimer

-----------------------------------------------------------------------------
(* An event inserts a task and takes none.                                 *)
LEMMA InsertedPromises ==
  ASSUME IInv, NEW what \in Whats, what # "watchdog", NEW delay \in Nat
  PROVE  LET b == Insert(agenda, what, delay)
         IN  /\ Sane(b) /\ Ahead(b) /\ Has(b, {what}, delay)
             /\ Loops(b, pressured) /\ Retries(b, backoff) /\ AlarmIn(b, alarm)
<1>1. /\ Sane(Insert(agenda, what, delay))
      /\ Ahead(Insert(agenda, what, delay))
      /\ TasksOf(agenda) \subseteq TasksOf(Insert(agenda, what, delay))
      /\ Has(Insert(agenda, what, delay), {what}, delay)
  BY InsertFacts DEF IInv
<1> QED
  BY <1>1, MoreTasks DEF IInv

LEMMA EventKeeps ==
  ASSUME IInv, TunnelRx \/ ReplicationDirect \/ TriggerMaintenanceLoop \/ TriggerPressureEvent
  PROVE  IInv'
<1>1. PICK what \in Whats, delay \in Nat :
        /\ what # "watchdog"
        /\ agenda' = Insert(agenda, what, delay)
        /\ \/ pressured' = pressured
           \/ what = "pressure" /\ delay = 0 /\ pressured' = TRUE
        /\ backoff' = backoff /\ alarm' = alarm /\ served' \in BOOLEAN
  <2>1. CASE TunnelRx
    BY <2>1 DEF TunnelRx, Whats
  <2>2. CASE ReplicationDirect
    <3>1. PICK delay \in DirectDelays : agenda' = Insert(agenda, "replication", delay)
      BY <2>2 DEF ReplicationDirect
    <3>2. delay \in Nat
      BY DelayAssumption
    <3> QED
      BY <2>2, <3>1, <3>2 DEF ReplicationDirect, Whats, IInv, TypeOK
  <2>3. CASE TriggerMaintenanceLoop
    BY <2>3 DEF TriggerMaintenanceLoop, Whats, IInv, TypeOK
  <2>4. CASE TriggerPressureEvent
    BY <2>4 DEF TriggerPressureEvent, Pressed, Whats, IInv, TypeOK
  <2> QED
    BY <2>1, <2>2, <2>3, <2>4
<1>2. /\ Sane(agenda') /\ Ahead(agenda') /\ Has(agenda', {what}, delay)
      /\ Loops(agenda', pressured) /\ Retries(agenda', backoff') /\ AlarmIn(agenda', alarm')
  BY <1>1, InsertedPromises
<1>3. Loops(agenda', pressured') /\ pressured' \in BOOLEAN
  <2>1. CASE pressured' = pressured
    BY <1>2, <2>1, Zenon DEF IInv, TypeOK
  <2>2. CASE what = "pressure" /\ delay = 0 /\ pressured' = TRUE
    <3>1. Has(agenda', {"pressure"}, 0)
      BY <1>2, <2>2
    <3>2. pressured' \in BOOLEAN
      BY <2>2
    <3> QED
      BY <1>2, <3>1, <3>2, Zenon DEF Loops
  <2> QED
    BY <1>1, <2>1, <2>2
<1>4. agenda' \in [tasks : Seq([due : Int, what : Whats]), scheduled : BOOLEAN, timer : Int]
  BY <1>2 DEF Sane, Agenda, Task
<1> QED
  BY <1>1, <1>2, <1>3, <1>4 DEF IInv, TypeOK

(* The step of a back-off stays within its bounds.                         *)
LEMMA NextStepFacts ==
  ASSUME NEW step \in Nat
  PROVE  NextStep(step) \in 1 .. MaxBackoff
BY DelayAssumption DEF NextStep

LEMMA TunnelTxAckKeeps ==
  ASSUME IInv, NEW ep \in Endpoints, TunnelTxAck(ep)
  PROVE  IInv'
<1>1. /\ Sane(agenda') /\ Ahead(agenda') /\ Loops(agenda', pressured')
      /\ Retries(agenda', backoff) /\ AlarmIn(agenda', alarm')
  BY InsertedPromises DEF TunnelTxAck, Whats
<1>2. /\ backoff' \in [Endpoints -> [left : Int, step : 0 .. MaxBackoff]]
      /\ \A other \in Endpoints : backoff'[other] = NoBackoff \/ backoff'[other] = backoff[other]
  <2>1. NoBackoff \in [left : Int, step : 0 .. MaxBackoff]
    BY DelayAssumption DEF NoBackoff
  <2>2. backoff \in [Endpoints -> [left : Int, step : 0 .. MaxBackoff]]
    BY DEF IInv, TypeOK
  <2> QED
    BY <2>1, <2>2 DEF TunnelTxAck
<1>3. NoBackoff.left = 0 /\ NoBackoff.step = 0
  BY DEF NoBackoff
<1>4. Retries(agenda', backoff')
  BY <1>1, <1>2, <1>3 DEF Retries
<1>5. \A other \in Endpoints : backoff'[other].left <= backoff'[other].step
  <2>1. \A other \in Endpoints : backoff[other].left <= backoff[other].step
    BY DEF IInv, TypeOK
  <2> QED
    BY <1>2, <1>3, <2>1
<1>6. agenda' \in [tasks : Seq([due : Int, what : Whats]), scheduled : BOOLEAN, timer : Int]
  BY <1>1 DEF Sane, Agenda, Task
<1> QED
  BY <1>1, <1>2, <1>4, <1>5, <1>6 DEF IInv, TypeOK, TunnelTxAck

LEMMA UnregisterEndpointKeeps ==
  ASSUME IInv, NEW ep \in Endpoints, UnregisterEndpoint(ep)
  PROVE  IInv'
<1>1. /\ backoff' \in [Endpoints -> [left : Int, step : 0 .. MaxBackoff]]
      /\ \A other \in Endpoints : backoff'[other] = NoBackoff \/ backoff'[other] = backoff[other]
  <2>1. NoBackoff \in [left : Int, step : 0 .. MaxBackoff]
    BY DelayAssumption DEF NoBackoff
  <2>2. backoff \in [Endpoints -> [left : Int, step : 0 .. MaxBackoff]]
    BY DEF IInv, TypeOK
  <2> QED
    BY <2>1, <2>2 DEF UnregisterEndpoint
<1>2. NoBackoff.left = 0 /\ NoBackoff.step = 0
  BY DEF NoBackoff
<1>3. Retries(agenda, backoff')
  BY <1>1, <1>2 DEF Retries, IInv
<1>4. \A other \in Endpoints : backoff'[other].left <= backoff'[other].step
  <2>1. \A other \in Endpoints : backoff[other].left <= backoff[other].step
    BY DEF IInv, TypeOK
  <2> QED
    BY <1>1, <1>2, <2>1
<1> QED
  BY <1>1, <1>3, <1>4 DEF IInv, TypeOK, UnregisterEndpoint

LEMMA TunnelTxNackKeeps ==
  ASSUME IInv, NEW ep \in Endpoints, TunnelTxNack(ep)
  PROVE  IInv'
<1> DEFINE step == NextStep(backoff[ep].step)
<1>1. step \in 1 .. MaxBackoff
  <2>1. backoff[ep].step \in Nat
    BY DEF IInv, TypeOK
  <2> QED
    BY <2>1, NextStepFacts
<1>2. backoff' = [backoff EXCEPT ![ep] = [left |-> step, step |-> step]]
  BY DEF TunnelTxNack, BackedOff
<1> HIDE DEF step
<1>3. /\ backoff' \in [Endpoints -> [left : Int, step : 0 .. MaxBackoff]]
      /\ backoff'[ep].left = step /\ backoff'[ep].step = step
      /\ \A other \in Endpoints \ {ep} : backoff'[other] = backoff[other]
  <2>1. [left |-> step, step |-> step] \in [left : Int, step : 0 .. MaxBackoff]
    BY <1>1, DelayAssumption
  <2>2. backoff \in [Endpoints -> [left : Int, step : 0 .. MaxBackoff]]
    BY DEF IInv, TypeOK
  <2> QED
    BY <1>2, <2>1, <2>2
<1>4. \A other \in Endpoints : backoff'[other].left <= backoff'[other].step
  <2>1. \A other \in Endpoints : backoff[other].left <= backoff[other].step
    BY DEF IInv, TypeOK
  <2> QED
    BY <1>1, <1>3, <2>1
<1>5. PICK delay \in Nat : agenda' = Insert(agenda, "strategy", delay)
  <2>1. PICK first \in BackingOff' :
          agenda' = Insert(agenda, "strategy",
                           IF backoff'[first].left > 0 THEN backoff'[first].left ELSE 0)
    BY DEF TunnelTxNack
  <2>2. backoff'[first].left \in Int
    BY <1>3, <2>1 DEF BackingOff
  <2>3. (IF backoff'[first].left > 0 THEN backoff'[first].left ELSE 0) \in Nat
    BY <2>2
  <2> QED
    BY <2>1, <2>3
<1>6. /\ Sane(agenda') /\ Ahead(agenda') /\ Loops(agenda', pressured')
      /\ Retries(agenda', backoff) /\ AlarmIn(agenda', alarm')
  BY <1>5, InsertedPromises DEF TunnelTxNack, Whats
<1>7. Retries(agenda', backoff')
  <2>1. SUFFICES ASSUME NEW other \in Endpoints, backoff'[other].step > 0, backoff'[other].left < 0
                 PROVE  Has(agenda', {"replication", "strategy"},
                            ReplicationInterval + backoff'[other].left)
    BY DEF Retries
  <2>2. other # ep
    BY <1>1, <1>3, <2>1
  <2> QED
    BY <1>3, <1>6, <2>1, <2>2 DEF Retries
<1>8. agenda' \in [tasks : Seq([due : Int, what : Whats]), scheduled : BOOLEAN, timer : Int]
  BY <1>6 DEF Sane, Agenda, Task
<1> QED
  BY <1>3, <1>4, <1>6, <1>7, <1>8 DEF IInv, TypeOK, TunnelTxNack

(* When a slot passes, the next replication task is at most one interval   *)
(* away, and it inserts a strategy.                                        *)
LEMMA TickKeeps ==
  ASSUME IInv, Tick
  PROVE  IInv'
<1>1. /\ Sane(agenda') /\ Ahead(agenda')
      /\ \A whats : \A bound \in Int : Has(agenda, whats, bound) => Has(agenda', whats, bound - 1)
  BY TickFacts
<1>2. ASSUME NEW whats, NEW bound \in Int, Has(agenda, whats, bound)
      PROVE  Has(agenda', whats, bound - 1) /\ Has(agenda', whats, bound)
  <2>1. Has(agenda', whats, bound - 1)
    BY <1>1, <1>2, Zenon
  <2>2. PICK t \in TasksOf(agenda') : t.what \in whats /\ t.due <= bound - 1
    BY <2>1, Zenon DEF Has
  <2>3. t.due \in Int
    <3>1. agenda'.tasks \in Seq(Task)
      BY <1>1 DEF Sane, Agenda
    <3>2. t \in Task
      BY <3>1, ElementOfSeq, LenProperties DEF TasksOf
    <3> QED
      BY <3>2 DEF Task
  <2>4. t.due <= bound
    BY <2>2, <2>3
  <2>5. Has(agenda', whats, bound)
    BY <2>2, <2>4, Zenon DEF Has
  <2> QED
    BY <2>1, <2>5
<1>3. /\ ReplicationInterval \in Int /\ MaintenanceDelay \in Int
      /\ 0 \in Int /\ TimerDelay \in Int
  BY DelayAssumption
<1>4. Loops(agenda', pressured') /\ AlarmIn(agenda', alarm')
  BY <1>2, <1>3 DEF IInv, Loops, AlarmIn, Tick
<1>5. ASSUME NEW ep \in Endpoints, backoff[ep].step > 0
      PROVE  /\ backoff'[ep] = [left |-> backoff[ep].left - 1, step |-> backoff[ep].step]
             /\ backoff[ep].left < 0 =>
                  Has(agenda, {"replication", "strategy"}, ReplicationInterval + backoff[ep].left)
  <2>1. backoff[ep] \in [left : Int, step : 0 .. MaxBackoff]
    BY DEF IInv, TypeOK
  <2>2. backoff[ep].left < 0 =>
          Has(agenda, {"replication", "strategy"}, ReplicationInterval + backoff[ep].left)
    BY <1>5 DEF IInv, Retries
  <2>3. backoff[ep].left > Overdue
    <3>1. CASE backoff[ep].left < 0
      <4>1. PICK t \in TasksOf(agenda) : t.due <= ReplicationInterval + backoff[ep].left
        BY <2>2, <3>1 DEF Has
      <4>2. t.due >= 0 /\ t.due \in Int
        <5>1. agenda.tasks \in Seq(Task)
          BY DEF IInv, Sane, Agenda
        <5>2. t \in Task
          BY <5>1, ElementOfSeq, LenProperties DEF TasksOf
        <5> QED
          BY <5>2 DEF IInv, Sane, Task
      <4> QED
        BY <2>1, <4>1, <4>2, DelayAssumption DEF Overdue
    <3>2. CASE backoff[ep].left >= 0
      BY <2>1, <3>2, DelayAssumption DEF Overdue
    <3> QED
      BY <2>1, <3>1, <3>2
  <2>4. backoff'[ep] = [backoff[ep] EXCEPT !.left = Later(@)]
    BY <1>5 DEF Tick
  <2>5. Later(backoff[ep].left) = backoff[ep].left - 1
    BY <2>3 DEF Later
  <2> QED
    BY <2>1, <2>2, <2>4, <2>5
<1>6. ASSUME NEW ep \in Endpoints, ~(backoff[ep].step > 0)
      PROVE  backoff'[ep] = backoff[ep]
  BY <1>6 DEF Tick
<1>7. \A ep \in Endpoints : /\ backoff'[ep] \in [left : Int, step : 0 .. MaxBackoff]
                            /\ backoff'[ep].left <= backoff'[ep].step
  <2>1. SUFFICES ASSUME NEW ep \in Endpoints
                 PROVE  /\ backoff'[ep] \in [left : Int, step : 0 .. MaxBackoff]
                        /\ backoff'[ep].left <= backoff'[ep].step
    OBVIOUS
  <2>2. /\ backoff[ep] \in [left : Int, step : 0 .. MaxBackoff]
        /\ backoff[ep].left <= backoff[ep].step
    BY DEF IInv, TypeOK
  <2>3. CASE backoff[ep].step > 0
    <3>1. /\ backoff'[ep] = [left |-> backoff[ep].left - 1, step |-> backoff[ep].step]
          /\ backoff[ep].left \in Int /\ backoff[ep].step \in 0 .. MaxBackoff
      BY <1>5, <2>2, <2>3
    <3>2. backoff[ep].left - 1 \in Int /\ backoff[ep].left - 1 <= backoff[ep].step
      BY <2>2, <3>1, DelayAssumption
    <3> QED
      BY <3>1, <3>2
  <2>4. CASE ~(backoff[ep].step > 0)
    BY <1>6, <2>2, <2>4
  <2> QED
    BY <2>3, <2>4
<1>8. backoff' \in [Endpoints -> [left : Int, step : 0 .. MaxBackoff]]
  BY <1>7 DEF Tick
<1>9. Retries(agenda', backoff')
  <2>1. SUFFICES ASSUME NEW ep \in Endpoints, backoff'[ep].step > 0, backoff'[ep].left < 0
                 PROVE  Has(agenda', {"replication", "strategy"},
                            ReplicationInterval + backoff'[ep].left)
    BY DEF Retries
  <2>2. backoff[ep].step > 0
    BY <1>6, <2>1
  <2>3. /\ backoff'[ep].left = backoff[ep].left - 1
        /\ backoff[ep].left \in Int
    <3>1. backoff[ep] \in [left : Int, step : 0 .. MaxBackoff]
      BY DEF IInv, TypeOK
    <3>2. backoff'[ep] = [left |-> backoff[ep].left - 1, step |-> backoff[ep].step]
      BY <1>5, <2>2
    <3> QED
      BY <3>1, <3>2
  <2>4. CASE backoff[ep].left < 0
    <3>1. Has(agenda, {"replication", "strategy"}, ReplicationInterval + backoff[ep].left)
      BY <1>5, <2>2, <2>4
    <3>2. ReplicationInterval + backoff[ep].left \in Int
      BY <1>3, <2>3
    <3>3. Has(agenda', {"replication", "strategy"}, (ReplicationInterval + backoff[ep].left) - 1)
      BY <1>2, <3>1, <3>2, Zenon
    <3>4. (ReplicationInterval + backoff[ep].left) - 1 = ReplicationInterval + backoff'[ep].left
      BY <1>3, <2>3
    <3> QED
      BY <3>3, <3>4
  <2>5. CASE backoff[ep].left = 0
    <3>1. Has(agenda', {"replication"}, ReplicationInterval - 1)
      BY <1>2, <1>3 DEF IInv, Loops
    <3>2. ReplicationInterval - 1 = ReplicationInterval + backoff'[ep].left
      BY <1>3, <2>3, <2>5
    <3> QED
      BY <3>1, <3>2 DEF Has
  <2> QED
    BY <2>1, <2>3, <2>4, <2>5
<1>10. agenda' \in [tasks : Seq([due : Int, what : Whats]), scheduled : BOOLEAN, timer : Int]
  BY <1>1 DEF Sane, Agenda, Task
<1> QED
  BY <1>1, <1>4, <1>7, <1>8, <1>9, <1>10 DEF IInv, TypeOK, Tick

-----------------------------------------------------------------------------
LEMMA StepHolds == IInv /\ [Next]_vars => IInv'
<1> SUFFICES ASSUME IInv, [Next]_vars PROVE IInv'
  OBVIOUS
<1>1. CASE UNCHANGED vars
  BY <1>1 DEF vars, IInv, TypeOK, Sane, Ahead, Loops, Retries, AlarmIn, Has, InOrder, TasksOf
<1>2. CASE RunStrategy
  BY <1>2, RunStrategyKeeps
<1>3. CASE RunReplication
  BY <1>3, RunReplicationKeeps
<1>4. CASE RunMaintenance
  BY <1>4, RunMaintenanceKeeps
<1>5. CASE RunPressure
  BY <1>5, RunPressureKeeps
<1>6. CASE FireTimer
  BY <1>6, FireTimerKeeps
<1>7. CASE TunnelRx \/ ReplicationDirect \/ TriggerMaintenanceLoop \/ TriggerPressureEvent
  BY <1>7, EventKeeps
<1>8. ASSUME NEW ep \in Endpoints,
             TunnelTxAck(ep) \/ TunnelTxNack(ep) \/ UnregisterEndpoint(ep)
      PROVE  IInv'
  BY <1>8, TunnelTxAckKeeps, TunnelTxNackKeeps, UnregisterEndpointKeeps
<1>9. CASE Tick
  BY <1>9, TickKeeps
<1> QED
  BY <1>1, <1>2, <1>3, <1>4, <1>5, <1>6, <1>7, <1>8, <1>9 DEF Next, ProcessNext

(* The inductive invariant holds in every state the scheduler can reach.   *)
THEOREM Inductive == Spec => []IInv
<1>1. Init => IInv
  BY InitHolds
<1>2. IInv /\ [Next]_vars => IInv'
  BY StepHolds
<1> QED
  BY <1>1, <1>2, PTL DEF Spec

(* The scheduler's lists, delayed call and back-offs have their types.     *)
THEOREM SchedulerTypeCorrect == Spec => []TypeOK
<1>1. IInv => TypeOK
  BY DEF IInv
<1> QED
  BY <1>1, Inductive, PTL

(* However tasks are inserted, coalesced and taken, there is a delayed     *)
(* call, not later than any task of the list.                              *)
THEOREM AlwaysTimerSet == Spec => []TimerSet
<1>1. IInv => TimerSet
  <2> SUFFICES ASSUME IInv PROVE TimerSet
    OBVIOUS
  <2>1. agenda.scheduled
    BY DEF IInv, Ahead
  <2>2. agenda.tasks # <<>>
    <3>1. PICK t \in TasksOf(agenda) : TRUE
      BY DEF IInv, Loops, Has
    <3>2. DOMAIN agenda.tasks # {}
      BY <3>1 DEF TasksOf
    <3> QED
      BY <3>2
  <2>3. \A k \in DOMAIN agenda.tasks : agenda.timer <= agenda.tasks[k].due
    BY DEF IInv, Ahead, TasksOf
  <2>4. Pending(agenda, {"watchdog"}) = {}
    BY DEF IInv, Sane, TasksOf, Pending
  <2> QED
    BY <2>1, <2>2, <2>3, <2>4 DEF TimerSet
<1> QED
  BY <1>1, Inductive, PTL

(* The periodic tasks go on in time, for every delay that replications     *)
(* are brought forward or put off by.                                      *)
THEOREM LoopsNeverStop == Spec => []LoopsGoOn
<1>1. IInv => LoopsGoOn
  BY DEF IInv, Loops, Has, LoopsGoOn, Pending, TasksOf
<1> QED
  BY <1>1, Inductive, PTL

(* No endpoint is left backing off for more than one replication interval  *)
(* after its slot, whatever the other endpoints' slots are.                *)
THEOREM AlwaysRetriedInTime == Spec => []RetriedInTime
<1>1. IInv => RetriedInTime
  <2> SUFFICES ASSUME IInv, NEW ep \in BackingOff PROVE backoff[ep].left >= -ReplicationInterval
    BY DEF RetriedInTime
  <2>1. ep \in Endpoints /\ backoff[ep].step > 0
    BY DEF BackingOff
  <2>2. backoff[ep].left \in Int
    BY <2>1 DEF IInv, TypeOK
  <2>3. CASE backoff[ep].left < 0
    <3>1. PICK t \in TasksOf(agenda) : t.due <= ReplicationInterval + backoff[ep].left
      BY <2>1, <2>3 DEF IInv, Retries, Has
    <3>2. t.due >= 0 /\ t.due \in Int
      <4>1. agenda.tasks \in Seq(Task)
        BY DEF IInv, Sane, Agenda
      <4>2. t \in Task
        BY <4>1, ElementOfSeq, LenProperties DEF TasksOf
      <4> QED
        BY <4>2 DEF IInv, Sane, Task
    <3> QED
      BY <2>2, <3>1, <3>2, DelayAssumption
  <2>4. CASE backoff[ep].left >= 0
    BY <2>2, <2>4, DelayAssumption
  <2> QED
    BY <2>2, <2>3, <2>4
<1> QED
  BY <1>1, Inductive, PTL

(* The timer an armed actor waits for stays in the list, and comes in time. *)
THEOREM AlarmNotLost == Spec => []AlarmPending
<1>1. IInv => AlarmPending
  BY DEF IInv, AlarmIn, Has, AlarmPending, Pending, TasksOf
<1> QED
  BY <1>1, Inductive, PTL

-----------------------------------------------------------------------------
(* A strategy is due as long as an event has not been served.              *)
EventIn(a, done) == done = FALSE => Has(a, {"strategy"}, 0)

(* What a task leaves in the list stays there when the next is scheduled,  *)
(* and when it is not the first.                                           *)
LEMMA EventRescheduled ==
  ASSUME NEW a, Sane(a), NEW done, Has(a, {"strategy"}, 0)
  PROVE  EventIn(Rescheduled(a), done)
<1>1. a.tasks # <<>>
  BY DEF Has, TasksOf
<1>2. TasksOf(Rescheduled(a)) = TasksOf(a)
  BY <1>1, RescheduledFacts
<1> QED
  BY <1>2 DEF EventIn, Has

(* Tasks that insert a strategy for themselves.                            *)
LEMMA StrategyInserted ==
  ASSUME NEW a, Sane(a)
  PROVE  LET b == Insert(a, "strategy", 0)
         IN  /\ Sane(b) /\ Has(b, {"strategy"}, 0)
BY InsertFacts DEF Whats

LEMMA TaskKeepsEvent ==
  ASSUME IInv, EventIn(agenda, served), ProcessNext
  PROVE  EventIn(agenda', served')
<1>1. /\ Sane(Popped)
      /\ \A whats, bound :
           Has(agenda, whats, bound) /\ Head(agenda.tasks).what \notin whats =>
             Has(Popped, whats, bound)
  BY PoppedPromises
<1>2. CASE RunStrategy
  BY <1>2 DEF RunStrategy, EventIn
<1>3. CASE RunReplication
  <2> DEFINE a == IF \E k \in Pending(Popped, {"replication"}) :
                       Popped.tasks[k].due < ReplicationInterval
                  THEN Popped
                  ELSE Insert(Popped, "replication", ReplicationInterval)
             b == Insert(a, "strategy", 0)
  <2>1. agenda' = Rescheduled(b)
    BY <1>3 DEF RunReplication
  <2>2. Sane(a)
    BY <1>1, InsertFacts, DelayAssumption DEF Whats
  <2> HIDE DEF a
  <2>3. Sane(b) /\ Has(b, {"strategy"}, 0)
    BY <2>2, StrategyInserted
  <2> HIDE DEF b
  <2> QED
    BY <2>1, <2>3, EventRescheduled
<1>4. CASE RunMaintenance
  <2> DEFINE a == Insert(Popped, "strategy", 0)
             b == Insert(a, "maintenance", MaintenanceDelay)
  <2>1. agenda' = Rescheduled(b)
    BY <1>4 DEF RunMaintenance
  <2>2. Sane(a) /\ Has(a, {"strategy"}, 0)
    BY <1>1, StrategyInserted
  <2> HIDE DEF a
  <2>3. Sane(b) /\ TasksOf(a) \subseteq TasksOf(b)
    BY <2>2, InsertFacts, DelayAssumption DEF Whats
  <2> HIDE DEF b
  <2>4. Has(b, {"strategy"}, 0)
    BY <2>2, <2>3 DEF Has
  <2> QED
    BY <2>1, <2>3, <2>4, EventRescheduled
<1>5. CASE RunPressure
  <2> DEFINE a == IF Pending(Popped, {"pressure"}) # {} THEN Popped
                  ELSE Insert(Popped, "pressure", PressureDelay)
  <2>1. agenda' = Rescheduled(a) /\ served' = served /\ Head(agenda.tasks).what = "pressure"
    BY <1>5 DEF RunPressure, Called
  <2>2. Sane(a) /\ TasksOf(Popped) \subseteq TasksOf(a)
    BY <1>1, InsertFacts, DelayAssumption DEF Whats
  <2> HIDE DEF a
  <2>3. CASE served = FALSE
    <3>1. Has(Popped, {"strategy"}, 0)
      BY <1>1, <2>1, <2>3 DEF EventIn
    <3>2. Has(a, {"strategy"}, 0)
      BY <2>2, <3>1 DEF Has
    <3> QED
      BY <2>1, <2>2, <3>2, EventRescheduled
  <2>4. CASE served # FALSE
    BY <2>1, <2>4 DEF EventIn
  <2> QED
    BY <2>3, <2>4
<1>6. CASE FireTimer
  <2> DEFINE b == Insert(Popped, "strategy", 0)
  <2>1. agenda' = Rescheduled(b)
    BY <1>6 DEF FireTimer
  <2>2. Sane(b) /\ Has(b, {"strategy"}, 0)
    BY <1>1, StrategyInserted
  <2> HIDE DEF b
  <2> QED
    BY <2>1, <2>2, EventRescheduled
<1> QED
  BY <1>2, <1>3, <1>4, <1>5, <1>6 DEF ProcessNext

(* An event inserts the strategy, or leaves it in the list.                *)
LEMMA InsertKeepsEvent ==
  ASSUME IInv, EventIn(agenda, served), NEW what \in Whats, what # "watchdog", NEW delay \in Nat,
         agenda' = Insert(agenda, what, delay),
         served' = served \/ (what = "strategy" /\ delay = 0)
  PROVE  EventIn(agenda', served')
<1>1. TasksOf(agenda) \subseteq TasksOf(agenda') /\ Has(agenda', {what}, delay)
  BY InsertFacts DEF IInv
<1>2. CASE served' = served
  BY <1>1, <1>2 DEF EventIn, Has
<1>3. CASE what = "strategy" /\ delay = 0
  BY <1>1, <1>3 DEF EventIn
<1> QED
  BY <1>2, <1>3

LEMMA EventStays ==
  ASSUME IInv, EventIn(agenda, served), [Next]_vars
  PROVE  EventIn(agenda', served')
<1>1. CASE UNCHANGED vars
  BY <1>1 DEF vars
<1>2. CASE TunnelRx
  BY <1>2, InsertKeepsEvent DEF TunnelRx, Whats
<1>3. CASE ReplicationDirect
  <2>1. PICK delay \in DirectDelays : agenda' = Insert(agenda, "replication", delay)
    BY <1>3 DEF ReplicationDirect
  <2>2. delay \in Nat /\ served' = served /\ "replication" \in Whats
    BY <1>3, DelayAssumption DEF ReplicationDirect, Whats
  <2> QED
    BY <2>1, <2>2, InsertKeepsEvent
<1>4. CASE TriggerMaintenanceLoop
  BY <1>4, InsertKeepsEvent DEF TriggerMaintenanceLoop, Whats
<1>5. CASE TriggerPressureEvent
  BY <1>5, InsertKeepsEvent DEF TriggerPressureEvent, Pressed, Whats
<1>6. ASSUME NEW ep \in Endpoints, TunnelTxAck(ep) PROVE EventIn(agenda', served')
  BY <1>6, InsertKeepsEvent DEF TunnelTxAck, Whats
<1>7. ASSUME NEW ep \in Endpoints, TunnelTxNack(ep) PROVE EventIn(agenda', served')
  <2>1. PICK first \in BackingOff' :
          agenda' = Insert(agenda, "strategy",
                           IF backoff'[first].left > 0 THEN backoff'[first].left ELSE 0)
    BY <1>7 DEF TunnelTxNack
  <2>2. backoff'[first].left \in Int
    <3>1. IInv'
      BY <1>7, TunnelTxNackKeeps
    <3>2. first \in Endpoints
      BY DEF BackingOff
    <3> QED
      BY <3>1, <3>2 DEF IInv, TypeOK
  <2> DEFINE delay == IF backoff'[first].left > 0 THEN backoff'[first].left ELSE 0
  <2>3. delay \in Nat /\ served' = served /\ "strategy" \in Whats
    BY <1>7, <2>2 DEF TunnelTxNack, Whats
  <2> HIDE DEF delay
  <2>4. agenda' = Insert(agenda, "strategy", delay)
    BY <2>1 DEF delay
  <2> QED
    BY <2>3, <2>4, InsertKeepsEvent
<1>8. ASSUME NEW ep \in Endpoints, UnregisterEndpoint(ep) PROVE EventIn(agenda', served')
  BY <1>8 DEF UnregisterEndpoint
<1>9. CASE Tick
  <2>1. served' = served /\ (agenda.scheduled => agenda.timer > 0)
    BY <1>9 DEF Tick
  <2>2. ~Has(agenda, {"strategy"}, 0)
    <3>1. agenda.timer \in Nat /\ agenda.timer > 0 /\ \A t \in TasksOf(agenda) : agenda.timer <= t.due
      BY <2>1 DEF IInv, Ahead
    <3>2. \A t \in TasksOf(agenda) : t.due \in Int
      <4> SUFFICES ASSUME NEW t \in TasksOf(agenda) PROVE t.due \in Int
        OBVIOUS
      <4>1. agenda.tasks \in Seq(Task)
        BY DEF IInv, Sane, Agenda
      <4>2. t \in Task
        BY <4>1, ElementOfSeq, LenProperties DEF TasksOf
      <4> QED
        BY <4>2 DEF Task
    <3> QED
      BY <3>1, <3>2 DEF Has
  <2> QED
    BY <2>1, <2>2 DEF EventIn
<1> QED
  BY <1>1, <1>2, <1>3, <1>4, <1>5, <1>6, <1>7, <1>8, <1>9, TaskKeepsEvent DEF Next

(* No event is lost to another task, and no time passes before it is       *)
(* served: insert_task and _process_next (scheduler.py), wakeup by tokens, *)
(* replies and timers.                                                     *)
THEOREM EventsNotLost == Spec => []EventPending
<1> DEFINE Inv == IInv /\ EventIn(agenda, served)
<1>1. Init => Inv
  <2>1. Init => EventIn(agenda, served)
    BY DEF Init, EventIn
  <2> QED
    BY <2>1, InitHolds
<1>2. Inv /\ [Next]_vars => Inv'
  BY StepHolds, EventStays
<1>3. Inv => EventPending
  <2> SUFFICES ASSUME IInv, EventIn(agenda, served), ~served PROVE EventPending
    BY DEF EventPending
  <2>1. PICK t \in TasksOf(agenda) : t.what = "strategy" /\ t.due <= 0
    BY DEF EventIn, Has, IInv, TypeOK
  <2>2. PICK k \in DOMAIN agenda.tasks : t = agenda.tasks[k]
    BY DEF TasksOf
  <2>3. k \in Pending(agenda, {"strategy"}) /\ agenda.tasks[k].due <= 0
    BY <2>1, <2>2 DEF Pending
  <2>4. agenda.scheduled /\ agenda.timer \in Nat /\ agenda.timer <= t.due
    BY DEF IInv, Ahead
  <2>5. agenda.timer <= 0
    <3>1. t.due \in Int
      <4>1. agenda.tasks \in Seq(Task)
        BY DEF IInv, Sane, Agenda
      <4>2. t \in Task
        BY <2>2, <4>1, ElementOfSeq, LenProperties
      <4> QED
        BY <4>2 DEF Task
    <3> QED
      BY <2>1, <2>4, <3>1
  <2> QED
    BY <2>3, <2>4, <2>5 DEF EventPending
<1> QED
  BY <1>1, <1>2, <1>3, PTL DEF Spec
=============================================================================
