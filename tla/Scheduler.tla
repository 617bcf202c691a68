------------------------------- MODULE Scheduler -------------------------------
(***************************************************************************)
(* The scheduler of a runtime: a list of tasks in the order of their time, *)
(* and one delayed call of the event loop for the first of them            *)
(* (runtime/north/scheduler.py, runtime/north/monitor.py).                 *)
(*                                                                         *)
(* Times are ticks from now: a task that is due has 0, and every tick of   *)
(* the clock takes one from all of them.  The event loop is punctual, and  *)
(* tasks take no time.  Only a task that no delayed call stands for can be *)
(* overdue; how long is told apart up to Overdue.                          *)
(***************************************************************************)
EXTENDS Integers, Sequences, FiniteSets, FiniteSetsExt

CONSTANTS Endpoints,            \* outgoing endpoints over tunnels
          ReplicationInterval,  \* _replication_interval
          MaintenanceDelay,     \* _maintenance_delay
          PressureDelay,        \* until the pressure is checked again
          WatchdogDelay,        \* until the watchdog, when there is no task
          MinBackoff, MaxBackoff,
          DirectDelays,         \* delays of replication_direct
          TimerDelay,           \* timeout of the timer of an actor
          Raises,               \* tasks that may raise, in FaultySpec
          MaxTasks              \* bound: events come while there are fewer tasks

Whats == {"strategy", "replication", "maintenance", "pressure", "watchdog", "timer"}

ASSUME DelayAssumption ==
  /\ ReplicationInterval \in Nat \ {0}
  /\ MaintenanceDelay \in Nat \ {0}
  /\ PressureDelay \in Nat \ {0}
  /\ WatchdogDelay \in Nat \ {0}
  /\ MinBackoff \in Nat \ {0}
  /\ MaxBackoff \in Nat
  /\ MinBackoff <= MaxBackoff
  /\ DirectDelays \subseteq Nat
  /\ TimerDelay \in Nat

ASSUME FaultAssumption == Raises \subseteq Whats /\ MaxTasks \in Nat

VARIABLES agenda,    \* _tasks, and the delayed call: whether it is to come, when
          backoff,   \* Event_Monitor._backoff; a step of 0: the endpoint is not in it
          pressured, \* _pressure_event_actor_ids is not empty
          alarm,     \* the timer of an actor
          served     \* history: the strategy has been run since the last event

vars == <<agenda, backoff, pressured, alarm, served>>

Overdue == -ReplicationInterval - 1

NoBackoff == [left |-> 0, step |-> 0]

BackingOff == {ep \in Endpoints : backoff[ep].step > 0}

Pending(a, whats) == {k \in DOMAIN a.tasks : a.tasks[k].what \in whats}

-----------------------------------------------------------------------------
(* insert_task: before the first task that is later, but not after the     *)
(* same task when it is to be done at once.  The delayed call is made      *)
(* again only for a task that comes first.                                 *)
Place(tasks, delay) ==
  LET later == {k \in DOMAIN tasks : tasks[k].due > delay}
  IN  IF later = {} THEN Len(tasks) + 1 ELSE CHOOSE k \in later : \A j \in later : k <= j

Inserted(tasks, k, task) ==
  [j \in 1 .. Len(tasks) + 1 |->
     IF j < k THEN tasks[j] ELSE IF j = k THEN task ELSE tasks[j - 1]]

Insert_MUT(a, what, delay) ==
  LET k == Place(a.tasks, delay)
  IN  IF k > 1 /\ delay = 0 /\ a.tasks[k - 1].what = what
      THEN a
      ELSE [tasks |-> Inserted(a.tasks, k, [due |-> delay, what |-> what]),
            scheduled |-> TRUE,
            timer |-> IF a.scheduled THEN a.timer ELSE delay]

Insert_any_MUT(a, what, delay) ==
  LET k == Place(a.tasks, delay)
  IN  IF k > 1 /\ delay = 0
      THEN a
      ELSE LET b == [a EXCEPT !.tasks = Inserted(@, k, [due |-> delay, what |-> what])]
           IN  IF k = 1 THEN [b EXCEPT !.scheduled = TRUE, !.timer = delay] ELSE b

Insert(a, what, delay) ==
  LET k == Place(a.tasks, delay)
  IN  IF k > 1 /\ delay = 0 /\ a.tasks[k - 1].what = what
      THEN a
      ELSE LET b == [a EXCEPT !.tasks = Inserted(@, k, [due |-> delay, what |-> what])]
           IN  IF k = 1 THEN [b EXCEPT !.scheduled = TRUE, !.timer = delay] ELSE b

(* BaseScheduler.run                                                       *)
Init ==
  /\ agenda = Insert(Insert(Insert([tasks |-> <<>>, scheduled |-> FALSE, timer |-> 0],
                                   "maintenance", MaintenanceDelay),
                            "replication", ReplicationInterval),
                     "strategy", 0)
  /\ backoff = [ep \in Endpoints |-> NoBackoff]
  /\ pressured = FALSE
  /\ alarm = "idle"
  /\ served = TRUE

-----------------------------------------------------------------------------
(* _process_next: the first task is taken from the list and done, and      *)
(* then the delayed call is made for the one that is first now.            *)
Popped == [tasks |-> Tail(agenda.tasks), scheduled |-> FALSE, timer |-> 0]

Called(what) ==
  /\ agenda.scheduled
  /\ agenda.timer <= 0
  /\ Head(agenda.tasks).what = what

Rescheduled_MUT(a) == IF a.tasks = <<>> THEN Insert(a, "watchdog", WatchdogDelay) ELSE a

Rescheduled(a) ==
  IF a.tasks = <<>>
  THEN Insert(a, "watchdog", WatchdogDelay)
  ELSE [a EXCEPT !.scheduled = TRUE,
                 !.timer = IF Head(a.tasks).due > 0 THEN Head(a.tasks).due ELSE 0]

(* _check_backoff: the time must be past, and the clock moves on between   *)
(* ticks.                                                                  *)
BackoffChecked(moved) ==
  [ep \in Endpoints |->
     IF backoff[ep].left < 0 \/ (moved /\ backoff[ep].left = 0) THEN NoBackoff
     ELSE backoff[ep]]

(* trigger_pressure_event, from a full inport.                             *)
Pressed(a, pressure) == IF pressure THEN Insert(a, "pressure", 0) ELSE a

(* What the actor that fires does with its timer.                          *)
NextAlarms ==
  CASE alarm = "idle"      -> {"idle", "armed"}
    [] alarm = "triggered" -> {"triggered", "idle", "armed"}
    [] OTHER               -> {alarm}

Armed_MUT(a, next) ==
  IF next = "armed" /\ alarm = "idle" THEN Insert(a, "timer", TimerDelay) ELSE a

Armed(a, next) ==
  IF next = "armed" /\ alarm # "armed" THEN Insert(a, "timer", TimerDelay) ELSE a

(* SimpleScheduler.strategy: endpoints communicate, actors fire, and the   *)
(* same again when something has been done.                                *)
RunStrategy ==
  /\ Called("strategy")
  /\ \E moved, pressure \in BOOLEAN, next \in NextAlarms :
       /\ backoff' = BackoffChecked(moved)
       /\ pressured' = (pressured \/ pressure)
       /\ alarm' = next
       /\ \E activity \in {TRUE} \cup (IF next # alarm THEN {} ELSE {FALSE}) :
            LET a == Armed(Pressed(Popped, pressure), next)
            IN  agenda' = Rescheduled(IF activity THEN Insert(a, "strategy", 0) ELSE a)
  /\ served' = TRUE

RunReplication_any_MUT ==
  /\ Called("replication")
  /\ LET a == IF Pending(Popped, {"replication"}) # {} THEN Popped
              ELSE Insert(Popped, "replication", ReplicationInterval)
     IN  agenda' = Rescheduled(Insert(a, "strategy", 0))
  /\ UNCHANGED <<backoff, pressured, alarm, served>>

RunReplication_alone_MUT ==
  /\ Called("replication")
  /\ agenda' = Rescheduled(
       IF \E k \in Pending(Popped, {"replication"}) :
            Popped.tasks[k].due < ReplicationInterval
       THEN Popped
       ELSE Insert(Popped, "replication", ReplicationInterval))
  /\ UNCHANGED <<backoff, pressured, alarm, served>>

(* _check_replication                                                      *)
RunReplication ==
  /\ Called("replication")
  /\ LET a == IF \E k \in Pending(Popped, {"replication"}) :
                   Popped.tasks[k].due < ReplicationInterval
              THEN Popped
              ELSE Insert(Popped, "replication", ReplicationInterval)
     IN  agenda' = Rescheduled(Insert(a, "strategy", 0))
  /\ UNCHANGED <<backoff, pressured, alarm, served>>

(* _maintenance_loop; the migrations it starts are other modules'.         *)
RunMaintenance ==
  /\ Called("maintenance")
  /\ agenda' = Rescheduled(Insert(Insert(Popped, "strategy", 0),
                                  "maintenance", MaintenanceDelay))
  /\ UNCHANGED <<backoff, pressured, alarm, served>>

(* _check_pressure                                                         *)
RunPressure ==
  /\ Called("pressure")
  /\ agenda' = Rescheduled(IF Pending(Popped, {"pressure"}) # {} THEN Popped
                           ELSE Insert(Popped, "pressure", PressureDelay))
  /\ pressured' = FALSE
  /\ UNCHANGED <<backoff, alarm, served>>

(* watchdog                                                                *)
RunWatchdog ==
  /\ Called("watchdog")
  /\ agenda' = Rescheduled(Insert(Popped, "strategy", 0))
  /\ UNCHANGED <<backoff, pressured, alarm, served>>

(* Calvinsys._fire_timer and Timer._fire, which wakes the scheduler up.    *)
FireTimer ==
  /\ Called("timer")
  /\ alarm' = "triggered"
  /\ served' = FALSE
  /\ agenda' = Rescheduled(Insert(Popped, "strategy", 0))
  /\ UNCHANGED <<backoff, pressured>>

(* The task raises an exception before it has inserted another one: the    *)
(* event loop logs it, and _process_next does not come to its end.         *)
TaskRaises ==
  \E what \in Raises :
    /\ Called(what)
    /\ agenda' = Popped
    /\ backoff' = IF what = "strategy" THEN BackoffChecked(TRUE) ELSE backoff
    /\ UNCHANGED <<pressured, alarm, served>>

-----------------------------------------------------------------------------
(* Events: what the endpoints, the control API and actors tell.            *)
Event == Len(agenda.tasks) < MaxTasks

(* tunnel_rx, schedule_calvinsys, register_endpoint                        *)
TunnelRx ==
  /\ Event
  /\ agenda' = Insert(agenda, "strategy", 0)
  /\ served' = FALSE
  /\ UNCHANGED <<backoff, pressured, alarm>>

TunnelTxAck(ep) ==
  /\ Event
  /\ backoff' = [backoff EXCEPT ![ep] = NoBackoff]
  /\ agenda' = Insert(agenda, "strategy", 0)
  /\ served' = FALSE
  /\ UNCHANGED <<pressured, alarm>>

(* set_backoff and next_slot                                               *)
NextStep(step) ==
  LET next == IF step < MinBackoff THEN MinBackoff ELSE 2 * step
  IN  IF next < MaxBackoff THEN next ELSE MaxBackoff

BackedOff(ep) ==
  LET step == NextStep(backoff[ep].step)
  IN  [backoff EXCEPT ![ep] = [left |-> step, step |-> step]]

TunnelTxNack(ep) ==
  /\ Event
  /\ backoff' = BackedOff(ep)
  /\ \E first \in BackingOff' :
       /\ \A other \in BackingOff' : backoff'[first].left <= backoff'[other].left
       /\ agenda' = Insert(agenda, "strategy",
                           IF backoff'[first].left > 0 THEN backoff'[first].left ELSE 0)
  /\ UNCHANGED <<pressured, alarm, served>>

UnregisterEndpoint(ep) ==
  /\ backoff[ep] # NoBackoff
  /\ backoff' = [backoff EXCEPT ![ep] = NoBackoff]
  /\ UNCHANGED <<agenda, pressured, alarm, served>>

ReplicationDirect ==
  /\ Event
  /\ \E delay \in DirectDelays : agenda' = Insert(agenda, "replication", delay)
  /\ UNCHANGED <<backoff, pressured, alarm, served>>

TriggerMaintenanceLoop ==
  /\ Event
  /\ agenda' = Insert(agenda, "maintenance", 0)
  /\ UNCHANGED <<backoff, pressured, alarm, served>>

TriggerPressureEvent ==
  /\ Event
  /\ agenda' = Pressed(agenda, TRUE)
  /\ pressured' = TRUE
  /\ UNCHANGED <<backoff, alarm, served>>

Later(d) == IF d > Overdue THEN d - 1 ELSE d

Tick ==
  /\ agenda.scheduled => agenda.timer > 0
  /\ agenda' = [agenda EXCEPT
                  !.tasks = [k \in DOMAIN @ |-> [due |-> Later(@[k].due), what |-> @[k].what]],
                  !.timer = IF agenda.scheduled THEN @ - 1 ELSE @]
  /\ backoff' = [ep \in Endpoints |->
                   IF backoff[ep].step > 0
                   THEN [backoff[ep] EXCEPT !.left = Later(@)] ELSE backoff[ep]]
  /\ UNCHANGED <<pressured, alarm, served>>

-----------------------------------------------------------------------------
ProcessNext ==
  RunStrategy \/ RunReplication \/ RunMaintenance \/ RunPressure \/ FireTimer

Next ==
  \/ ProcessNext
  \/ TunnelRx \/ ReplicationDirect \/ TriggerMaintenanceLoop \/ TriggerPressureEvent
  \/ \E ep \in Endpoints : TunnelTxAck(ep) \/ TunnelTxNack(ep) \/ UnregisterEndpoint(ep)
  \/ Tick

Spec == Init /\ [][Next]_vars

(* The event loop makes the delayed calls.  This is weak fairness of       *)
(* ProcessNext, with the condition of the call in place of its ENABLED,    *)
(* which takes TLC too long.                                               *)
FairSpec ==
  Spec /\ ([]<>~(agenda.scheduled /\ agenda.timer <= 0) \/ []<><<ProcessNext>>_vars)

(* With tasks that raise exceptions.  Only then can the list run empty and *)
(* the watchdog be set (TimerSet).  Time passes as well, and tokens arrive *)
(* again and again.                                                        *)
FaultyProcessNext == ProcessNext \/ TaskRaises \/ RunWatchdog

FaultySpec ==
  /\ Init /\ [][Next \/ FaultyProcessNext]_vars
  /\ WF_vars(FaultyProcessNext) /\ WF_vars(Tick) /\ WF_vars(TunnelRx)

-----------------------------------------------------------------------------
TypeOK ==
  /\ agenda \in [tasks : Seq([due : Int, what : Whats]), scheduled : BOOLEAN, timer : Int]
  /\ backoff \in [Endpoints -> [left : Int, step : 0 .. MaxBackoff]]
  /\ \A ep \in Endpoints : backoff[ep].left <= backoff[ep].step
  /\ pressured \in BOOLEAN
  /\ alarm \in {"idle", "armed", "triggered"}
  /\ served \in BOOLEAN

(* There is always a delayed call, and it stands for the first task of the *)
(* list, behind which no earlier one waits: no insertion, coalescing or    *)
(* rescheduling leaves the list to itself.  The watchdog is not needed.    *)
TimerSet ==
  /\ agenda.scheduled
  /\ agenda.tasks # <<>>
  /\ \A k \in DOMAIN agenda.tasks : agenda.timer <= agenda.tasks[k].due
  /\ Pending(agenda, {"watchdog"}) = {}

(* The periodic tasks go on, whatever events bring their like forward:     *)
(* replications are looked after in every interval, maintenance in every   *)
(* delay, and actors whose pressure was reported are checked at once.      *)
LoopsGoOn ==
  /\ \E k \in Pending(agenda, {"replication"}) : agenda.tasks[k].due <= ReplicationInterval
  /\ \E k \in Pending(agenda, {"maintenance"}) : agenda.tasks[k].due <= MaintenanceDelay
  /\ pressured => \E k \in Pending(agenda, {"pressure"}) : agenda.tasks[k].due <= 0

(* An endpoint that backs off is tried again within one replication        *)
(* interval of its slot, although a strategy is inserted only for the      *)
(* endpoint with the earliest slot, and may come a moment too early.       *)
RetriedInTime == \A ep \in BackingOff : backoff[ep].left >= -ReplicationInterval

(* The timer that an actor waits for has not been forgotten or coalesced   *)
(* with another task.                                                      *)
AlarmPending ==
  alarm = "armed" => \E k \in Pending(agenda, {"timer"}) : agenda.tasks[k].due <= TimerDelay

(* An event is not lost when its task is coalesced with another one: until *)
(* the strategy has run there is one in the list that is due, so that no   *)
(* time passes before.                                                     *)
EventPending ==
  ~served => /\ agenda.scheduled /\ agenda.timer <= 0
             /\ \E k \in Pending(agenda, {"strategy"}) : agenda.tasks[k].due <= 0

(* Every event is followed by a run of the strategy, though its task may   *)
(* have been coalesced with another one.                                   *)
EventuallyServed == []<>served

(* After an exception in a task there is a delayed call again.             *)
EventuallyScheduled == []<>agenda.scheduled
=============================================================================
