------------------------ MODULE ScheduleTriggersProofs ------------------------
(***************************************************************************)
(* Theorems about the main loop of every replica and about the reconciler  *)
(* of ScheduleTriggers, for any number of replicas and triggers.  The maps *)
(* of TriggersState and the scheduler are kept in step by giving each task *)
(* an id that no other live task has; what a Controller schedules exists   *)
(* because only the replica that runs removes the finalizer, as long as no *)
(* second one runs beside it.                                              *)
(***************************************************************************)
EXTENDS ScheduleTriggers, FiniteSetTheorems, TLAPS

\* The Controllers are there between the start of a turn and its end only.
TurnsInOrder ==
    \A p \in Replicas : loop[p] \in {"top", "drain", "exited"} => controllers[p] = "none"

LeadInv == LeadTypeOK /\ TurnsInOrder

LEMMA LeadInvInit == LeadInit => LeadInv
BY LeaseBoundsAssumption DEF LeadInit, LeadInv, LeadTypeOK, TurnsInOrder

\* The lease, the signals and what the external library tells.
LEMMA LeadOutside ==
    ASSUME LeadInv, NEW p \in Replicas,
           Lease(p) \/ LeaseTaskEnds(p) \/ LeaseExpires \/ SignalArrives(p)
    PROVE  LeadInv'
<1>1. UNCHANGED <<loop, is_leader, controllers, shutdown>>
  BY DEF Lease, LeaseAcquired, LeaseLost, LeaseTaskEnds, LeaseExpires, SignalArrives
<1>2. TurnsInOrder'
  BY <1>1 DEF LeadInv, TurnsInOrder
<1>3. lease' \in Replicas \cup {NoOne, Dead} /\ told' \in [Replicas -> BOOLEAN]
  BY DEF Lease, LeaseAcquired, LeaseLost, LeaseTaskEnds, LeaseExpires, SignalArrives, LeadInv,
         LeadTypeOK
<1>4. moves' \in 0..MaxLeaseMoves
  BY LeaseBoundsAssumption
     DEF Lease, LeaseAcquired, LeaseLost, LeaseTaskEnds, LeaseExpires, SignalArrives, LeadInv,
         LeadTypeOK
<1>5. /\ lease_task' \in [Replicas -> {"running", "ended"}]
      /\ signalled' \in [Replicas -> BOOLEAN]
  BY DEF Lease, LeaseAcquired, LeaseLost, LeaseTaskEnds, LeaseExpires, SignalArrives, LeadInv,
         LeadTypeOK
<1> QED
  BY <1>1, <1>2, <1>3, <1>4, <1>5 DEF LeadInv, LeadTypeOK

\* The main loop, and the end of the Controllers and of the process.
LEMMA LeadInside ==
    ASSUME LeadInv, NEW p \in Replicas,
           Turn(p) \/ MainLoop(p) \/ ControllersFinish(p) \/ Crash(p)
    PROVE  LeadInv'
<1>t. /\ loop \in [Replicas -> {"top", "select", "stop", "join", "drain", "exited"}]
      /\ controllers \in [Replicas -> {"none", "running", "stopping"}]
      /\ told \in [Replicas -> BOOLEAN] /\ shutdown \in [Replicas -> BOOLEAN]
      /\ is_leader \in [Replicas -> BOOLEAN] /\ signalled \in [Replicas -> BOOLEAN]
      /\ lease_task \in [Replicas -> {"running", "ended"}]
      /\ lease \in Replicas \cup {NoOne, Dead} /\ moves \in 0..MaxLeaseMoves
      /\ TurnsInOrder
  BY DEF LeadInv, LeadTypeOK
<1>1. CASE Turn(p)
  <2>1. LeadTypeOK'
    BY <1>1, <1>t DEF Turn, LeadTypeOK
  <2>2. TurnsInOrder'
    BY <1>1, <1>t DEF Turn, TurnsInOrder
  <2> QED
    BY <2>1, <2>2 DEF LeadInv
<1>2. CASE OnSignal(p) \/ OnLeaderChange(p) \/ Spin(p)
  <2>1. LeadTypeOK'
    BY <1>2, <1>t DEF OnSignal, OnLeaderChange, Spin, LeadTypeOK
  <2>2. TurnsInOrder'
    BY <1>2, <1>t DEF OnSignal, OnLeaderChange, Spin, TurnsInOrder
  <2> QED
    BY <2>1, <2>2 DEF LeadInv
<1>3. CASE StopControllers(p)
  <2>1. LeadTypeOK'
    BY <1>3, <1>t DEF StopControllers, LeadTypeOK
  <2>2. TurnsInOrder'
    BY <1>3, <1>t DEF StopControllers, TurnsInOrder
  <2> QED
    BY <2>1, <2>2 DEF LeadInv
<1>4. CASE Joined(p)
  <2>1. LeadTypeOK'
    BY <1>4, <1>t DEF Joined, LeadTypeOK
  <2>2. TurnsInOrder'
    BY <1>4, <1>t DEF Joined, TurnsInOrder
  <2> QED
    BY <2>1, <2>2 DEF LeadInv
<1>5. CASE Exit(p)
  <2>1. LeadTypeOK'
    BY <1>5, <1>t DEF Exit, LeadTypeOK
  <2>2. TurnsInOrder'
    BY <1>5, <1>t DEF Exit, TurnsInOrder
  <2> QED
    BY <2>1, <2>2 DEF LeadInv
<1>6. CASE ControllersFinish(p)
  <2>1. LeadTypeOK'
    BY <1>6, <1>t DEF ControllersFinish, LeadTypeOK
  <2>2. TurnsInOrder'
    BY <1>6, <1>t DEF ControllersFinish, TurnsInOrder
  <2> QED
    BY <2>1, <2>2 DEF LeadInv
<1>7. CASE Crash(p)
  <2>1. moves' \in 0..MaxLeaseMoves
    BY <1>7, <1>t, LeaseBoundsAssumption DEF Crash
  <2>2. LeadTypeOK'
    BY <1>7, <1>t, <2>1 DEF Crash, LeadTypeOK
  <2>3. TurnsInOrder'
    BY <1>7, <1>t DEF Crash, TurnsInOrder
  <2> QED
    BY <2>2, <2>3 DEF LeadInv
<1> QED
  BY <1>1, <1>2, <1>3, <1>4, <1>5, <1>6, <1>7 DEF MainLoop

\* When the main loop of src/bin/git-events-runner.rs drops the lease channel and
\* ends, no Controller or scheduled task of the process is left, for any number
\* of replicas, losses of the lease and crashes.
THEOREM NothingLeftBehindCorrect == LeadSpec => []NothingLeftBehind
<1>1. ASSUME LeadInv, [LeadNext]_leadVars PROVE LeadInv'
  <2>1. CASE LeaseExpires
    BY <1>1, <2>1, ReplicasAssumption, LeadOutside
  <2>2. CASE UNCHANGED leadVars
    BY <1>1, <2>2 DEF leadVars, LeadInv, LeadTypeOK, TurnsInOrder
  <2> QED
    BY <1>1, <2>1, <2>2, LeadOutside, LeadInside DEF LeadNext
<1>2. LeadInv => NothingLeftBehind
  BY DEF LeadInv, TurnsInOrder, NothingLeftBehind
<1> QED
  BY <1>1, <1>2, LeadInvInit, PTL DEF LeadSpec

-----------------------------------------------------------------------------
\* The map m of tasks and the tasks l of the scheduler stand for each other.
InStep(m, l) ==
    /\ DOMAIN m \subseteq Triggers
    /\ \A k \in DOMAIN m : m[k] \in Nat
    /\ l \subseteq Task
    /\ IsFiniteSet(l)
    /\ \A t \in l : t.trigger \in DOMAIN m /\ m[t.trigger] = t.id
    /\ \A k \in DOMAIN m : \E t \in l : t.trigger = k
    /\ \A t, u \in l : t.id = u.id => t = u

Domains == DOMAIN tasks = Replicas /\ DOMAIN schedules = Replicas /\ DOMAIN live = Replicas

TasksInStep == Domains /\ \A p \in Replicas : InStep(tasks[p], live[p])

\* What run_leader_controllers keeps in memory goes with it.
NothingKept ==
    \A p \in Replicas : controllers[p] = "none" =>
        /\ live[p] = {} /\ schedules[p] = Empty
        /\ store[p] = [k \in Triggers |-> Absent]

OneRuns ==
    ~overlapped => \A p, q \in Replicas :
        controllers[p] = "running" /\ controllers[q] = "running" => p = q

\* Only what exists carries a finalizer.
FinalizersExist == \A k \in Triggers : api[k].finalizer => api[k].exists

\* While one replica runs at a time, what its Controller would schedule, and
\* what it has scheduled, still exists and waits for its finalizer.
FinalizersKept ==
    ~overlapped => \A p \in Replicas : controllers[p] = "running" =>
        /\ \A k \in Triggers : Applies(p, k) => api[k].finalizer
        /\ \A t \in live[p] : api[t.trigger].finalizer

ScheduleInv ==
    /\ TypeOK
    /\ TurnsInOrder
    /\ TasksInStep
    /\ NothingKept
    /\ OneRuns
    /\ FinalizersExist
    /\ FinalizersKept
    /\ SchedulesAreActual

-----------------------------------------------------------------------------
(* The scheduler and the map of tasks.                                     *)

\* Cancelling by id takes exactly the task of the trigger.
LEMMA CancelInStep ==
    ASSUME NEW m, NEW l, InStep(m, l), NEW k \in Triggers
    PROVE  /\ {t \in l : ~(k \in DOMAIN m /\ t.id = m[k])} = {t \in l : t.trigger # k}
           /\ InStep(Without(m, k), {t \in l : t.trigger # k})
<1> DEFINE rest == {t \in l : t.trigger # k}
           n == Without(m, k)
<1>1. \A t \in l : t.trigger = k <=> k \in DOMAIN m /\ t.id = m[k]
  BY DEF InStep
<1>2. DOMAIN n = DOMAIN m \ {k} /\ \A x \in DOMAIN n : n[x] = m[x]
  BY DEF Without
<1>3. rest \subseteq l /\ IsFiniteSet(rest)
  BY FS_Subset DEF InStep
<1> HIDE DEF n
<1>4. InStep(n, rest)
  BY <1>2, <1>3 DEF InStep
<1> QED
  BY <1>1, <1>4 DEF n

\* A task with an id of its own takes the place of the trigger's task.
LEMMA AddInStep ==
    ASSUME NEW m, NEW l, InStep(m, l), NEW k \in Triggers, NEW id \in Nat,
           NEW s \in Schedules, \A t \in l : t.id # id
    PROVE  InStep(Put(m, k, id),
                  {t \in l : t.trigger # k} \cup {[id |-> id, trigger |-> k, schedule |-> s]})
<1> DEFINE rest == {t \in l : t.trigger # k}
           new == [id |-> id, trigger |-> k, schedule |-> s]
           n == Put(m, k, id)
<1>1. DOMAIN n = DOMAIN m \cup {k} /\ n[k] = id /\ \A x \in DOMAIN m \ {k} : n[x] = m[x]
  BY DEF Put
<1>2. new \in Task /\ new.id = id /\ new.trigger = k
  BY DEF Task
<1>3. rest \subseteq l /\ IsFiniteSet(rest) /\ IsFiniteSet(rest \cup {new})
  BY FS_Subset, FS_AddElement DEF InStep
<1> HIDE DEF n, new
<1>4. /\ DOMAIN n \subseteq Triggers /\ \A x \in DOMAIN n : n[x] \in Nat
      /\ rest \cup {new} \subseteq Task
  BY <1>1, <1>2, <1>3 DEF InStep
<1>5. \A t \in rest \cup {new} : t.trigger \in DOMAIN n /\ n[t.trigger] = t.id
  BY <1>1, <1>2 DEF InStep
<1>6. \A x \in DOMAIN n : \E t \in rest \cup {new} : t.trigger = x
  BY <1>1, <1>2 DEF InStep
<1>7. \A t, u \in rest \cup {new} : t.id = u.id => t = u
  BY <1>2 DEF InStep
<1> QED
  BY <1>3, <1>4, <1>5, <1>6, <1>7 DEF InStep, n, new

\* Among one more number than there are tasks, one is no task's id.
LEMMA FreshIdExists ==
    ASSUME NEW l \in SUBSET Task, IsFiniteSet(l)
    PROVE  \E n \in 1..(Cardinality(l) + 1) : \A t \in l : t.id # n
<1> DEFINE ids == {t.id : t \in l}
           c == Cardinality(l)
<1>1. c \in Nat
  BY FS_CardinalityType
<1>2. IsFiniteSet(ids) /\ Cardinality(ids) <= c /\ Cardinality(ids) \in Nat
  <2> DEFINE f == [t \in l |-> t.id]
  <2>1. f \in Surjection(l, ids)
    BY DEF Surjection
  <2> HIDE DEF f, ids
  <2> QED
    BY <2>1, FS_Surjection, FS_CardinalityType
<1>3. IsFiniteSet(1..(c + 1)) /\ Cardinality(1..(c + 1)) = c + 1
  BY <1>1, FS_Interval
<1>4. ~(1..(c + 1) \subseteq ids)
  <2> SUFFICES ASSUME 1..(c + 1) \subseteq ids PROVE FALSE
    OBVIOUS
  <2>1. Cardinality(1..(c + 1)) <= Cardinality(ids)
    BY <1>2, FS_Subset
  <2> QED
    BY <1>1, <1>2, <1>3, <2>1
<1> QED
  BY <1>4

LEMMA FreshIdIsFresh ==
    ASSUME NEW p, live[p] \subseteq Task, IsFiniteSet(live[p])
    PROVE  FreshId(p) \in Nat /\ \A t \in live[p] : t.id # FreshId(p)
<1>1. Cardinality(live[p]) \in Nat
  BY FS_CardinalityType
<1>2. \E n \in 1..(Cardinality(live[p]) + 1) : \A t \in live[p] : t.id # n
  BY FreshIdExists
<1>3. /\ FreshId(p) \in 1..(Cardinality(live[p]) + 1)
      /\ \A t \in live[p] : t.id # FreshId(p)
  BY <1>2 DEF FreshId
<1> QED
  BY <1>1, <1>3

\* What a step of the reconciler for trigger k does to the tasks of replica p:
\* k is scheduled as W, everything else as before.
Retimed(p, k, W) ==
    /\ DOMAIN tasks' = Replicas /\ DOMAIN live' = Replicas
    /\ \A q \in Replicas \ {p} : tasks'[q] = tasks[q] /\ live'[q] = live[q]
    /\ InStep(tasks'[p], live'[p])
    /\ \A x \in Triggers \ {k} : Scheduled(p, x)' = Scheduled(p, x)
    /\ Scheduled(p, k)' = W
    /\ \A t \in live'[p] : (t \in live[p] /\ t.trigger # k) \/ (t.trigger = k /\ W # {})

LEMMA CancelTakesOne ==
    ASSUME NEW p \in Replicas, InStep(tasks[p], live[p]), NEW k \in Triggers
    PROVE  /\ StillLive(p, k) = {t \in live[p] : t.trigger # k}
           /\ InStep(Without(tasks[p], k), {t \in live[p] : t.trigger # k})
<1> DEFINE m == tasks[p]
           l == live[p]
<1>1. StillLive(p, k) = {t \in l : ~(k \in DOMAIN m /\ t.id = m[k])}
  BY DEF StillLive
<1> HIDE DEF m, l
<1>2. InStep(m, l)
  BY DEF m, l
<1>3. /\ {t \in l : ~(k \in DOMAIN m /\ t.id = m[k])} = {t \in l : t.trigger # k}
      /\ InStep(Without(m, k), {t \in l : t.trigger # k})
  BY <1>2, CancelInStep
<1> QED
  BY <1>1, <1>3 DEF m, l

LEMMA CancelRetimes ==
    ASSUME TasksInStep, NEW p \in Replicas, NEW k \in Triggers, Cancel(p, k)
    PROVE  Retimed(p, k, {})
<1> DEFINE rest == {t \in live[p] : t.trigger # k}
<1>1. DOMAIN tasks = Replicas /\ DOMAIN live = Replicas /\ InStep(tasks[p], live[p])
  BY DEF TasksInStep, Domains
<1>2. StillLive(p, k) = rest /\ InStep(Without(tasks[p], k), rest)
  BY <1>1, CancelTakesOne
<1>3. /\ tasks' = [tasks EXCEPT ![p] = Without(tasks[p], k)]
      /\ live' = [live EXCEPT ![p] = rest]
  BY <1>2 DEF Cancel
<1>4. /\ DOMAIN tasks' = Replicas /\ DOMAIN live' = Replicas
      /\ tasks'[p] = Without(tasks[p], k) /\ live'[p] = rest
      /\ \A q \in Replicas \ {p} : tasks'[q] = tasks[q] /\ live'[q] = live[q]
  BY <1>1, <1>3
<1>5. /\ \A x \in Triggers \ {k} : Scheduled(p, x)' = Scheduled(p, x)
      /\ Scheduled(p, k)' = {}
  BY <1>4 DEF Scheduled
<1> QED
  BY <1>2, <1>4, <1>5 DEF Retimed

LEMMA RescheduleRetimes ==
    ASSUME TasksInStep, NEW p \in Replicas, NEW k \in Triggers, Reschedule(p, k),
           store[p][k].schedule \in Schedules
    PROVE  Retimed(p, k, {store[p][k].schedule} \cap Valid)
<1> DEFINE s == store[p][k].schedule
           rest == {t \in live[p] : t.trigger # k}
           new == [id |-> FreshId(p), trigger |-> k, schedule |-> s]
<1>1. CASE s \notin Valid
  <2>1. Cancel(p, k) /\ {s} \cap Valid = {}
    BY <1>1 DEF Reschedule
  <2> QED
    BY <2>1, CancelRetimes
<1>2. CASE s \in Valid
  <2>1. DOMAIN tasks = Replicas /\ DOMAIN live = Replicas /\ InStep(tasks[p], live[p])
    BY DEF TasksInStep, Domains
  <2>2. FreshId(p) \in Nat /\ \A t \in live[p] : t.id # FreshId(p)
    BY <2>1, FreshIdIsFresh DEF InStep
  <2>3. StillLive(p, k) = rest
    BY <2>1, CancelTakesOne
  <2>4. InStep(Put(tasks[p], k, FreshId(p)), rest \cup {new})
    BY <2>1, <2>2, AddInStep
  <2>5. /\ tasks' = [tasks EXCEPT ![p] = Put(tasks[p], k, FreshId(p))]
        /\ live' = [live EXCEPT ![p] = rest \cup {new}]
    BY <1>2, <2>3 DEF Reschedule
  <2>6. new.trigger = k /\ new.schedule = s
    OBVIOUS
  <2> HIDE DEF new
  <2>7. /\ DOMAIN tasks' = Replicas /\ DOMAIN live' = Replicas
        /\ tasks'[p] = Put(tasks[p], k, FreshId(p)) /\ live'[p] = rest \cup {new}
        /\ \A q \in Replicas \ {p} : tasks'[q] = tasks[q] /\ live'[q] = live[q]
    BY <2>1, <2>5
  <2>8. \A x \in Triggers \ {k} : Scheduled(p, x)' = Scheduled(p, x)
    BY <2>6, <2>7 DEF Scheduled
  <2>9. Scheduled(p, k)' = {s} /\ {s} \cap Valid = {s}
    BY <1>2, <2>6, <2>7 DEF Scheduled
  <2>10. \A t \in live'[p] : (t \in live[p] /\ t.trigger # k) \/ (t.trigger = k /\ {s} # {})
    BY <2>6, <2>7
  <2> QED
    BY <2>4, <2>7, <2>8, <2>9, <2>10 DEF Retimed
<1> QED
  BY <1>1, <1>2

-----------------------------------------------------------------------------
(* The main loop and the lease, as the reconciler's steps leave them.      *)

\* The steps of the reconciler that go on, and the writes of users and tasks.
Quiet(p, k) ==
    \/ CreateTrigger(k) \/ ChangeSchedule(k) \/ DeleteTrigger(k)
    \/ ControllerEvent(p, k) \/ TaskRuns(p, k) \/ AddFinalizer(p, k)
    \/ ReconcileUnchanged(p, k) \/ ReconcileOk(p, k) \/ ReconcileFailsEarly(p, k)
    \/ ReconcileFailsLate(p, k) \/ CleanupAndRelease(p, k)

LEMMA NextKinds ==
    ASSUME Next
    PROVE  \E p \in Replicas :
              \/ RunLeaderControllers(p) \/ SchedulerShutdown(p) \/ CrashForgets(p)
              \/ OtherwiseLeads(p)
              \/ \E k \in Triggers : Quiet(p, k) \/ ReconcilePanics(p, k)
BY ReplicasAssumption DEF Next, Quiet, ReconcileNamespaced

LEMMA QuietLeads ==
    ASSUME NEW p, NEW k, Quiet(p, k)
    PROVE  UNCHANGED <<leadVars, panicked, overlapped>>
<1>1. CASE CreateTrigger(k) \/ ChangeSchedule(k) \/ DeleteTrigger(k)
  BY <1>1 DEF CreateTrigger, ChangeSchedule, DeleteTrigger, UserWrites
<1>2. CASE \/ ControllerEvent(p, k) \/ TaskRuns(p, k) \/ AddFinalizer(p, k)
           \/ ReconcileUnchanged(p, k) \/ CleanupAndRelease(p, k)
  BY <1>2 DEF ControllerEvent, TaskRuns, AddFinalizer, ReconcileUnchanged, CleanupAndRelease
<1>3. CASE ReconcileOk(p, k) \/ ReconcileFailsEarly(p, k) \/ ReconcileFailsLate(p, k)
  BY <1>3 DEF ReconcileOk, ReconcileFailsEarly, ReconcileFailsLate, Reconcile
<1> QED
  BY <1>1, <1>2, <1>3 DEF Quiet

LEMMA LeadPart ==
    ASSUME LeadInv, [Next]_vars
    PROVE  LeadInv'
<1>1. ASSUME UNCHANGED leadVars PROVE LeadInv'
  BY <1>1 DEF leadVars, LeadInv, LeadTypeOK, TurnsInOrder
<1>2. ASSUME NEW p \in Replicas, NEW k \in Triggers, Quiet(p, k) PROVE LeadInv'
  BY <1>1, <1>2, QuietLeads
<1>3. ASSUME NEW p \in Replicas, NEW k \in Triggers, ReconcilePanics(p, k) PROVE LeadInv'
  <2>1. /\ controllers[p] = "running" /\ controllers' = [controllers EXCEPT ![p] = "stopping"]
        /\ UNCHANGED <<lease, told, lease_task, moves, loop, is_leader, signalled, shutdown>>
    BY <1>3 DEF ReconcilePanics, Reconciling
  <2>2. controllers \in [Replicas -> {"none", "running", "stopping"}]
    BY DEF LeadInv, LeadTypeOK
  <2>3. LeadTypeOK'
    BY <2>1, <2>2 DEF LeadInv, LeadTypeOK
  <2>4. TurnsInOrder'
    BY <2>1, <2>2 DEF LeadInv, TurnsInOrder
  <2> QED
    BY <2>3, <2>4 DEF LeadInv
<1>4. ASSUME NEW p \in Replicas, \/ RunLeaderControllers(p) \/ SchedulerShutdown(p)
                                 \/ CrashForgets(p) \/ OtherwiseLeads(p)
      PROVE  LeadInv'
  BY <1>4, LeadOutside, LeadInside
     DEF RunLeaderControllers, SchedulerShutdown, CrashForgets, OtherwiseLeads
<1>5. UNCHANGED vars => UNCHANGED leadVars
  BY DEF vars
<1> QED
  BY <1>1, <1>2, <1>3, <1>4, <1>5, NextKinds

-----------------------------------------------------------------------------
(* The objects.                                                            *)

LEMMA AbsentType == Absent \in Object /\ ~Absent.exists /\ ~Absent.finalizer
<1>1. (CHOOSE s \in Schedules : TRUE) \in Schedules
  BY SchedulesAssumption
<1> QED
  BY <1>1 DEF Absent, Object

LEMMA WriteMoves ==
    ASSUME api \in [Triggers -> Object], events \in [Replicas -> SUBSET Triggers],
           NEW k \in Triggers, NEW obj \in Object, Write(k, obj)
    PROVE  /\ api' \in [Triggers -> Object] /\ events' \in [Replicas -> SUBSET Triggers]
           /\ api'[k] = obj /\ \A x \in Triggers \ {k} : api'[x] = api[x]
BY DEF Write

\* What a step may do to the object of a trigger: whoever takes a finalizer away
\* has cleaned up before, and nothing that is gone has one.
ObjectStep(x) ==
    /\ api'[x].finalizer => api'[x].exists
    /\ api[x].finalizer => api'[x].finalizer \/ \E p \in Replicas : CleanupAndRelease(p, x)

ObjectTypeOK == api \in [Triggers -> Object] /\ events \in [Replicas -> SUBSET Triggers]

LEMMA ObjectsStep ==
    ASSUME ObjectTypeOK, FinalizersExist, [Next]_vars
    PROVE  ObjectTypeOK' /\ \A x \in Triggers : ObjectStep(x)
<1> DEFINE Goal == ObjectTypeOK' /\ \A x \in Triggers : ObjectStep(x)
<1>t. api \in [Triggers -> Object] /\ events \in [Replicas -> SUBSET Triggers]
  BY DEF ObjectTypeOK
<1>1. ASSUME UNCHANGED api, events' \in [Replicas -> SUBSET Triggers] PROVE Goal
  BY <1>1, <1>t DEF ObjectTypeOK, ObjectStep, FinalizersExist
<1>2. ASSUME NEW k \in Triggers, NEW obj \in Object, Write(k, obj),
             obj.finalizer => obj.exists,
             api[k].finalizer => obj.finalizer \/ \E p \in Replicas : CleanupAndRelease(p, k)
      PROVE  Goal
  <2>1. /\ api' \in [Triggers -> Object] /\ events' \in [Replicas -> SUBSET Triggers]
        /\ api'[k] = obj /\ \A x \in Triggers \ {k} : api'[x] = api[x]
    BY <1>2, <1>t, WriteMoves
  <2>2. ASSUME NEW x \in Triggers PROVE ObjectStep(x)
    <3>1. CASE x = k
      BY <1>2, <2>1, <3>1 DEF ObjectStep
    <3>2. CASE x # k
      BY <2>1, <3>2 DEF ObjectStep, FinalizersExist
    <3> QED
      BY <3>1, <3>2
  <2> QED
    BY <2>1, <2>2 DEF ObjectTypeOK
<1>o. ASSUME NEW k \in Triggers, NEW lr \in {"Unset", "Never", "time"}
      PROVE  /\ [api[k] EXCEPT !.last_run = lr] \in Object
             /\ [api[k] EXCEPT !.last_run = lr].finalizer = api[k].finalizer
             /\ [api[k] EXCEPT !.last_run = lr].exists = api[k].exists
  BY <1>t DEF Object
<1>3. ASSUME NEW k \in Triggers, CreateTrigger(k) PROVE Goal
  <2>1. PICK s \in Schedules : UserWrites(k, [Absent EXCEPT !.exists = TRUE, !.schedule = s])
    BY <1>3 DEF CreateTrigger
  <2> DEFINE obj == [Absent EXCEPT !.exists = TRUE, !.schedule = s]
  <2>2. obj \in Object /\ obj.exists
    BY AbsentType DEF Object
  <2>3. ~api[k].finalizer
    BY <1>3 DEF CreateTrigger, FinalizersExist
  <2>4. Write(k, obj)
    BY <2>1 DEF UserWrites
  <2> HIDE DEF obj
  <2> QED
    BY <1>2, <2>2, <2>3, <2>4
<1>4. ASSUME NEW k \in Triggers, ChangeSchedule(k) PROVE Goal
  <2>1. PICK s \in Schedules : UserWrites(k, [api[k] EXCEPT !.schedule = s])
    BY <1>4 DEF ChangeSchedule
  <2> DEFINE obj == [api[k] EXCEPT !.schedule = s]
  <2>2. obj \in Object /\ obj.exists = api[k].exists /\ obj.finalizer = api[k].finalizer
    BY <1>t DEF Object
  <2>3. Write(k, obj)
    BY <2>1 DEF UserWrites
  <2> HIDE DEF obj
  <2> QED
    BY <1>2, <2>2, <2>3 DEF FinalizersExist
<1>5. ASSUME NEW k \in Triggers, DeleteTrigger(k) PROVE Goal
  <2> DEFINE obj == IF api[k].finalizer THEN [api[k] EXCEPT !.deleting = TRUE] ELSE Absent
  <2>1. Write(k, obj)
    BY <1>5 DEF DeleteTrigger, UserWrites
  <2>2. /\ [api[k] EXCEPT !.deleting = TRUE] \in Object
        /\ [api[k] EXCEPT !.deleting = TRUE].exists = api[k].exists
        /\ [api[k] EXCEPT !.deleting = TRUE].finalizer = api[k].finalizer
    BY <1>t DEF Object
  <2>3. obj \in Object /\ (obj.finalizer => obj.exists) /\ (api[k].finalizer => obj.finalizer)
    BY <2>2, AbsentType DEF FinalizersExist
  <2> HIDE DEF obj
  <2> QED
    BY <1>2, <2>1, <2>3
<1>6. ASSUME NEW p \in Replicas, NEW k \in Triggers, ControllerEvent(p, k) PROVE Goal
  BY <1>1, <1>6, <1>t DEF ControllerEvent
<1>7. ASSUME NEW p \in Replicas, NEW k \in Triggers, AddFinalizer(p, k) PROVE Goal
  <2> DEFINE obj == [api[k] EXCEPT !.finalizer = TRUE]
  <2>1. obj \in Object /\ obj.finalizer /\ obj.exists = api[k].exists
    BY <1>t DEF Object
  <2>2. (api[k].exists /\ Write(k, obj)) \/ NoWrite
    BY <1>7 DEF AddFinalizer
  <2> HIDE DEF obj
  <2> QED
    BY <1>1, <1>2, <1>t, <2>1, <2>2 DEF NoWrite
<1>8. ASSUME NEW p \in Replicas, NEW k \in Triggers, ReconcileOk(p, k) \/ TaskRuns(p, k)
      PROVE  Goal
  <2>1. PICK lr \in {"Unset", "Never", "time"} : Write(k, [api[k] EXCEPT !.last_run = lr])
    <3>1. api[k].last_run \in {"Unset", "Never", "time"}
      BY <1>t DEF Object
    <3> QED
      BY <1>8, <3>1 DEF ReconcileOk, TaskRuns
  <2> DEFINE obj == [api[k] EXCEPT !.last_run = lr]
  <2>2. obj \in Object /\ obj.finalizer = api[k].finalizer /\ obj.exists = api[k].exists
    BY <1>o
  <2> HIDE DEF obj
  <2> QED
    BY <1>2, <2>1, <2>2 DEF FinalizersExist, obj
<1>9. ASSUME NEW p \in Replicas, NEW k \in Triggers,
             \/ ReconcileUnchanged(p, k) \/ ReconcileFailsEarly(p, k)
             \/ ReconcileFailsLate(p, k) \/ ReconcilePanics(p, k)
      PROVE  Goal
  BY <1>1, <1>9, <1>t DEF ReconcileUnchanged, ReconcileFailsEarly, ReconcileFailsLate,
                          ReconcilePanics, NoWrite
<1>10. ASSUME NEW p \in Replicas, NEW k \in Triggers, CleanupAndRelease(p, k) PROVE Goal
  <2> DEFINE obj == IF api[k].deleting THEN Absent ELSE [api[k] EXCEPT !.finalizer = FALSE]
  <2>1. obj \in Object /\ ~obj.finalizer
    BY <1>t, AbsentType DEF Object
  <2>2. Write(k, obj) \/ NoWrite
    BY <1>10 DEF CleanupAndRelease
  <2> HIDE DEF obj
  <2> QED
    BY <1>1, <1>2, <1>10, <1>t, <2>1, <2>2 DEF NoWrite
<1>11. ASSUME NEW p \in Replicas, \/ RunLeaderControllers(p) \/ SchedulerShutdown(p)
                                  \/ CrashForgets(p) \/ OtherwiseLeads(p)
       PROVE  Goal
  BY <1>1, <1>11, <1>t DEF RunLeaderControllers, SchedulerShutdown, CrashForgets, OtherwiseLeads
<1>12. UNCHANGED vars => Goal
  BY <1>1, <1>t DEF vars
<1> QED
  BY <1>3, <1>4, <1>5, <1>6, <1>7, <1>8, <1>9, <1>10, <1>11, <1>12, NextKinds DEF Quiet
-----------------------------------------------------------------------------
(* The Controller's copies, the map of schedules and the counters.         *)

CountersOK ==
    /\ edits \in 0..MaxEdits /\ failures \in 0..MaxFailures
    /\ panicked \subseteq Replicas /\ overlapped \in BOOLEAN

CopiesOK ==
    /\ store \in [Replicas -> [Triggers -> Object]]
    /\ queued \in [Replicas -> SUBSET Triggers]

SchedulesOK ==
    /\ DOMAIN schedules = Replicas
    /\ \A p \in Replicas :
          /\ DOMAIN schedules[p] \subseteq Triggers
          /\ \A k \in DOMAIN schedules[p] : schedules[p][k] \in Schedules

LEMMA CountersStep ==
    ASSUME CountersOK, [Next]_vars
    PROVE  /\ CountersOK'
           /\ failures' = 0 => failures = 0
           /\ overlapped => overlapped'
<1> DEFINE Goal == /\ CountersOK'
                   /\ failures' = 0 => failures = 0
                   /\ overlapped => overlapped'
<1>1. ASSUME UNCHANGED <<edits, failures, panicked>>, overlapped' \in BOOLEAN, overlapped => overlapped'
      PROVE  Goal
  BY <1>1 DEF CountersOK
<1>2. ASSUME NEW k \in Triggers, CreateTrigger(k) \/ ChangeSchedule(k) \/ DeleteTrigger(k)
      PROVE  Goal
  <2>1. edits < MaxEdits /\ edits' = edits + 1 /\ UNCHANGED <<failures, panicked, overlapped>>
    BY <1>2 DEF CreateTrigger, ChangeSchedule, DeleteTrigger, UserWrites
  <2> QED
    BY <2>1, TriggerBoundsAssumption DEF CountersOK
<1>3. ASSUME UNCHANGED <<edits, panicked, overlapped>>, UNCHANGED failures \/ Fails
      PROVE  Goal
  BY <1>3, TriggerBoundsAssumption DEF CountersOK, Fails
<1>4. ASSUME NEW p \in Replicas, NEW k \in Triggers,
             ControllerEvent(p, k) \/ TaskRuns(p, k) \/ ReconcileUnchanged(p, k)
      PROVE  Goal
  BY <1>3, <1>4 DEF ControllerEvent, TaskRuns, ReconcileUnchanged, Reconciling
<1>5. ASSUME NEW p \in Replicas, NEW k \in Triggers,
             \/ AddFinalizer(p, k) \/ CleanupAndRelease(p, k) \/ ReconcileOk(p, k)
             \/ ReconcileFailsEarly(p, k) \/ ReconcileFailsLate(p, k)
      PROVE  Goal
  <2>1. UNCHANGED <<panicked, overlapped>>
    BY <1>5, QuietLeads DEF Quiet
  <2>2. UNCHANGED edits
    BY <1>5 DEF AddFinalizer, CleanupAndRelease, ReconcileOk, ReconcileFailsEarly,
                ReconcileFailsLate, Reconcile, Reconciling
  <2>3. UNCHANGED failures \/ Fails
    BY <1>5 DEF AddFinalizer, CleanupAndRelease, ReconcileOk, ReconcileFailsEarly,
                ReconcileFailsLate
  <2> QED
    BY <1>3, <2>1, <2>2, <2>3
<1>6. ASSUME NEW p \in Replicas, NEW k \in Triggers, ReconcilePanics(p, k) PROVE Goal
  BY <1>6 DEF ReconcilePanics, Reconciling, CountersOK
<1>7. ASSUME NEW p \in Replicas, \/ RunLeaderControllers(p) \/ SchedulerShutdown(p)
                                 \/ CrashForgets(p) \/ OtherwiseLeads(p)
      PROVE  Goal
  <2>1. overlapped' \in BOOLEAN /\ (overlapped => overlapped')
    BY <1>7 DEF CountersOK, RunLeaderControllers, SchedulerShutdown, CrashForgets, OtherwiseLeads
  <2>2. UNCHANGED <<edits, failures, panicked>>
    BY <1>7 DEF RunLeaderControllers, SchedulerShutdown, CrashForgets, OtherwiseLeads
  <2> QED
    BY <1>1, <2>1, <2>2
<1>8. UNCHANGED vars => Goal
  BY DEF vars, CountersOK
<1> QED
  BY <1>2, <1>4, <1>5, <1>6, <1>7, <1>8, NextKinds DEF Quiet

LEMMA CopiesStep ==
    ASSUME CopiesOK, ObjectTypeOK, [Next]_vars
    PROVE  CopiesOK'
<1>t. /\ store \in [Replicas -> [Triggers -> Object]] /\ queued \in [Replicas -> SUBSET Triggers]
      /\ api \in [Triggers -> Object]
  BY DEF CopiesOK, ObjectTypeOK
<1>1. ASSUME NEW p \in Replicas, NEW k \in Triggers, ControllerEvent(p, k) PROVE CopiesOK'
  <2>1. /\ store' = [store EXCEPT ![p][k] = api[k]]
        /\ queued' = [queued EXCEPT ![p] = IF api[k].exists THEN @ \cup {k} ELSE @ \ {k}]
    BY <1>1 DEF ControllerEvent
  <2>2. api[k] \in Object /\ queued[p] \cup {k} \subseteq Triggers /\ queued[p] \ {k} \subseteq Triggers
    BY <1>t
  <2>3. store' \in [Replicas -> [Triggers -> Object]]
    BY <1>t, <2>1, <2>2
  <2>4. queued' \in [Replicas -> SUBSET Triggers]
    BY <1>t, <2>1, <2>2
  <2> QED
    BY <2>3, <2>4 DEF CopiesOK
<1>2. ASSUME NEW p \in Replicas, NEW k \in Triggers, Reconciling(p, k) PROVE CopiesOK'
  BY <1>2, <1>t DEF Reconciling, CopiesOK
<1>3. ASSUME NEW p \in Replicas, Forget(p) PROVE CopiesOK'
  <2>1. [k \in Triggers |-> Absent] \in [Triggers -> Object]
    BY AbsentType
  <2> QED
    BY <1>3, <1>t, <2>1 DEF Forget, CopiesOK
<1>4. ASSUME UNCHANGED watched PROVE CopiesOK'
  BY <1>4 DEF watched, CopiesOK
<1>5. ASSUME NEW p \in Replicas, NEW k \in Triggers, Quiet(p, k) \/ ReconcilePanics(p, k)
      PROVE  CopiesOK'
  <2>1. CASE CreateTrigger(k) \/ ChangeSchedule(k) \/ DeleteTrigger(k) \/ TaskRuns(p, k)
    BY <1>4, <2>1 DEF CreateTrigger, ChangeSchedule, DeleteTrigger, UserWrites, TaskRuns
  <2>2. CASE \/ AddFinalizer(p, k) \/ ReconcileUnchanged(p, k) \/ ReconcileOk(p, k)
             \/ ReconcileFailsEarly(p, k) \/ ReconcileFailsLate(p, k)
             \/ CleanupAndRelease(p, k) \/ ReconcilePanics(p, k)
    BY <1>2, <2>2 DEF AddFinalizer, ReconcileUnchanged, ReconcileOk, ReconcileFailsEarly,
                      ReconcileFailsLate, Reconcile, CleanupAndRelease, ReconcilePanics
  <2> QED
    BY <1>1, <1>5, <2>1, <2>2 DEF Quiet
<1>6. ASSUME NEW p \in Replicas, \/ RunLeaderControllers(p) \/ SchedulerShutdown(p)
                                 \/ CrashForgets(p) \/ OtherwiseLeads(p)
      PROVE  CopiesOK'
  BY <1>3, <1>4, <1>6 DEF RunLeaderControllers, SchedulerShutdown, CrashForgets, OtherwiseLeads
<1>7. UNCHANGED vars => CopiesOK'
  BY <1>4 DEF vars
<1> QED
  BY <1>5, <1>6, <1>7, NextKinds
-----------------------------------------------------------------------------
(* TriggersState and the scheduler, step by step.                          *)

SchedulesMove(p, k) ==
    /\ DOMAIN schedules' = Replicas
    /\ \A q \in Replicas \ {p} : schedules'[q] = schedules[q]
    /\ DOMAIN schedules'[p] \ {k} = DOMAIN schedules[p] \ {k}
    /\ \A x \in DOMAIN schedules[p] \ {k} : schedules'[p][x] = schedules[p][x]

\* What is remembered after a step of reconcile for k: the schedule W of the task, unless
\* reconcile failed, panicked, or met an object that was gone.
Remembers(p, k, W) ==
    k \in DOMAIN schedules'[p] =>
        /\ schedules'[p][k] \in Schedules
        /\ \/ W = {schedules'[p][k]} \cap Valid
           \/ failures' # 0 \/ controllers'[p] # "running"
           \/ Applies(p, k) /\ ~api[k].exists

MemoryStep(p, k, W) ==
    /\ controllers[p] = "running"
    /\ SchedulesMove(p, k)
    /\ Retimed(p, k, W)
    /\ W # {} => Applies(p, k)
    /\ Remembers(p, k, W)

Typed == LeadTypeOK /\ ObjectTypeOK /\ CountersOK /\ CopiesOK /\ SchedulesOK

LEMMA KeptSchedules ==
    ASSUME SchedulesOK, NEW p \in Replicas, NEW k \in Triggers, UNCHANGED schedules
    PROVE  /\ SchedulesMove(p, k)
           /\ k \in DOMAIN schedules'[p] => schedules'[p][k] \in Schedules
BY DEF SchedulesOK, SchedulesMove

LEMMA MemorySteps ==
    ASSUME Typed, TasksInStep, [Next]_vars
    PROVE  \/ UNCHANGED memory
           \/ \E p \in Replicas : Forget(p) /\ controllers'[p] = "none"
           \/ \E p \in Replicas, k \in Triggers, W \in SUBSET Schedules : MemoryStep(p, k, W)
<1>t. /\ SchedulesOK /\ failures \in Nat /\ store \in [Replicas -> [Triggers -> Object]]
      /\ controllers \in [Replicas -> {"none", "running", "stopping"}]
  BY TriggerBoundsAssumption DEF Typed, CountersOK, CopiesOK, LeadTypeOK
<1>s. ASSUME NEW p \in Replicas, NEW k \in Triggers PROVE store[p][k].schedule \in Schedules
  BY <1>t DEF Object
<1>1. ASSUME NEW p \in Replicas, NEW k \in Triggers, ReconcilePanics(p, k)
      PROVE  MemoryStep(p, k, {})
  <2>1. controllers[p] = "running" /\ Cancel(p, k) /\ controllers'[p] # "running" /\ UNCHANGED schedules
    BY <1>1, <1>t DEF ReconcilePanics, Reconciling
  <2>2. Retimed(p, k, {})
    BY <2>1, CancelRetimes
  <2>3. SchedulesMove(p, k) /\ Remembers(p, k, {})
    BY <1>t, <2>1, KeptSchedules DEF Remembers
  <2> QED
    BY <2>1, <2>2, <2>3 DEF MemoryStep
<1>2. ASSUME NEW p \in Replicas, NEW k \in Triggers, ReconcileFailsEarly(p, k)
      PROVE  MemoryStep(p, k, {})
  <2>1. controllers[p] = "running" /\ Cancel(p, k) /\ failures' # 0 /\ UNCHANGED schedules
    BY <1>2, <1>t DEF ReconcileFailsEarly, Reconcile, Reconciling, Fails
  <2>2. Retimed(p, k, {})
    BY <2>1, CancelRetimes
  <2>3. SchedulesMove(p, k) /\ Remembers(p, k, {})
    BY <1>t, <2>1, KeptSchedules DEF Remembers
  <2> QED
    BY <2>1, <2>2, <2>3 DEF MemoryStep
<1>3. ASSUME NEW p \in Replicas, NEW k \in Triggers, ReconcileFailsLate(p, k)
      PROVE  MemoryStep(p, k, {store[p][k].schedule} \cap Valid)
  <2> DEFINE W == {store[p][k].schedule} \cap Valid
  <2>1. /\ controllers[p] = "running" /\ Applies(p, k) /\ Reschedule(p, k)
        /\ failures' # 0 \/ ~api[k].exists
        /\ UNCHANGED schedules
    BY <1>3, <1>t DEF ReconcileFailsLate, Reconcile, Reconciling, Fails
  <2>2. Retimed(p, k, W) /\ W \in SUBSET Schedules
    BY <1>s, <2>1, RescheduleRetimes
  <2> HIDE DEF W
  <2>3. SchedulesMove(p, k) /\ Remembers(p, k, W)
    BY <1>t, <2>1, KeptSchedules DEF Remembers
  <2> QED
    BY <2>1, <2>2, <2>3 DEF MemoryStep, W
<1>4. ASSUME NEW p \in Replicas, NEW k \in Triggers, ReconcileOk(p, k)
      PROVE  MemoryStep(p, k, {store[p][k].schedule} \cap Valid)
  <2> DEFINE s == store[p][k].schedule
             W == {s} \cap Valid
             new == Put(schedules[p], k, s)
  <2>1. /\ controllers[p] = "running" /\ Applies(p, k) /\ Reschedule(p, k)
        /\ schedules' = [schedules EXCEPT ![p] = new]
    BY <1>4 DEF ReconcileOk, Reconcile, Reconciling
  <2>2. Retimed(p, k, W) /\ W \in SUBSET Schedules /\ s \in Schedules
    BY <1>s, <2>1, RescheduleRetimes
  <2>3. /\ DOMAIN new = DOMAIN schedules[p] \cup {k} /\ new[k] = s
        /\ \A x \in DOMAIN schedules[p] \ {k} : new[x] = schedules[p][x]
    BY DEF Put
  <2> HIDE DEF new, W, s
  <2>4. SchedulesMove(p, k) /\ schedules'[p][k] = s
    BY <1>t, <2>1, <2>3 DEF SchedulesOK, SchedulesMove
  <2>5. Remembers(p, k, W)
    BY <2>2, <2>4 DEF Remembers, W
  <2> QED
    BY <2>1, <2>2, <2>4, <2>5 DEF MemoryStep, W, s
<1>5. ASSUME NEW p \in Replicas, NEW k \in Triggers, CleanupAndRelease(p, k)
      PROVE  MemoryStep(p, k, {})
  <2> DEFINE new == Without(schedules[p], k)
  <2>1. /\ controllers[p] = "running" /\ Cancel(p, k)
        /\ schedules' = [schedules EXCEPT ![p] = new]
    BY <1>5 DEF CleanupAndRelease, Reconciling, Cleanup
  <2>2. Retimed(p, k, {})
    BY <2>1, CancelRetimes
  <2>3. /\ DOMAIN new = DOMAIN schedules[p] \ {k}
        /\ \A x \in DOMAIN new : new[x] = schedules[p][x]
    BY DEF Without
  <2> HIDE DEF new
  <2>4. SchedulesMove(p, k) /\ k \notin DOMAIN schedules'[p]
    BY <1>t, <2>1, <2>3 DEF SchedulesOK, SchedulesMove
  <2> QED
    BY <2>1, <2>2, <2>4 DEF MemoryStep, Remembers
<1>6. ASSUME NEW p \in Replicas, SchedulerShutdown(p) \/ CrashForgets(p)
      PROVE  Forget(p) /\ controllers'[p] = "none"
  BY <1>6, <1>t DEF SchedulerShutdown, CrashForgets, ControllersFinish, Crash
<1>7. ASSUME NEW p \in Replicas, NEW k \in Triggers,
             \/ CreateTrigger(k) \/ ChangeSchedule(k) \/ DeleteTrigger(k) \/ TaskRuns(p, k)
             \/ ControllerEvent(p, k) \/ AddFinalizer(p, k) \/ ReconcileUnchanged(p, k)
      PROVE  UNCHANGED memory
  BY <1>7 DEF CreateTrigger, ChangeSchedule, DeleteTrigger, UserWrites, TaskRuns,
              ControllerEvent, AddFinalizer, ReconcileUnchanged
<1>8. ASSUME NEW p \in Replicas, RunLeaderControllers(p) \/ OtherwiseLeads(p)
      PROVE  UNCHANGED memory
  BY <1>8 DEF RunLeaderControllers, OtherwiseLeads
<1>9. UNCHANGED vars => UNCHANGED memory
  BY DEF vars
<1>10. /\ {} \in SUBSET Schedules
       /\ \A p \in Replicas, k \in Triggers : {store[p][k].schedule} \cap Valid \in SUBSET Schedules
  BY SchedulesAssumption
<1> QED
  BY <1>10, <1>1, <1>2, <1>3, <1>4, <1>5, <1>6, <1>7, <1>8, <1>9, NextKinds DEF Quiet
LEMMA EmptyInStep == InStep(Empty, {})
<1>1. IsFiniteSet({}) /\ DOMAIN Empty = {}
  BY FS_EmptySet DEF Empty
<1> QED
  BY <1>1 DEF InStep

\* After Forget nothing of p is left and nobody else is touched.
LEMMA ForgetEmpties ==
    ASSUME Typed, TasksInStep, NEW p \in Replicas, Forget(p)
    PROVE  /\ DOMAIN tasks' = Replicas /\ DOMAIN live' = Replicas /\ DOMAIN schedules' = Replicas
           /\ tasks'[p] = Empty /\ live'[p] = {} /\ schedules'[p] = Empty
           /\ store'[p] = [k \in Triggers |-> Absent]
           /\ \A q \in Replicas \ {p} : /\ tasks'[q] = tasks[q] /\ live'[q] = live[q]
                                       /\ schedules'[q] = schedules[q] /\ store'[q] = store[q]
BY DEF Forget, TasksInStep, Domains, Typed, CopiesOK

LEMMA InStepPart ==
    ASSUME Typed, TasksInStep, [Next]_vars
    PROVE  TasksInStep' /\ SchedulesOK'
<1>t. SchedulesOK /\ Domains /\ \A p \in Replicas : InStep(tasks[p], live[p])
  BY DEF Typed, TasksInStep
<1>1. CASE UNCHANGED memory
  BY <1>1, <1>t DEF memory, TasksInStep, Domains, SchedulesOK, InStep
<1>2. ASSUME NEW p \in Replicas, Forget(p) PROVE TasksInStep' /\ SchedulesOK'
  <2>1. /\ DOMAIN tasks' = Replicas /\ DOMAIN live' = Replicas /\ DOMAIN schedules' = Replicas
        /\ tasks'[p] = Empty /\ live'[p] = {} /\ schedules'[p] = Empty
        /\ \A q \in Replicas \ {p} : /\ tasks'[q] = tasks[q] /\ live'[q] = live[q]
                                    /\ schedules'[q] = schedules[q]
    BY <1>2, ForgetEmpties
  <2>2. \A q \in Replicas : InStep(tasks'[q], live'[q])
    BY <1>t, <2>1, EmptyInStep
  <2>3. TasksInStep'
    BY <2>1, <2>2 DEF TasksInStep, Domains, InStep
  <2>4. DOMAIN Empty = {}
    BY DEF Empty
  <2> QED
    BY <1>t, <2>1, <2>3, <2>4 DEF SchedulesOK
<1>3. ASSUME NEW p \in Replicas, NEW k \in Triggers, NEW W \in SUBSET Schedules,
             MemoryStep(p, k, W)
      PROVE  TasksInStep' /\ SchedulesOK'
  <2>1. Retimed(p, k, W) /\ Remembers(p, k, W)
    BY <1>3 DEF MemoryStep
  <2>2. SchedulesMove(p, k) /\ (k \in DOMAIN schedules'[p] => schedules'[p][k] \in Schedules)
    BY <1>3, <2>1 DEF MemoryStep, Remembers
  <2>3. \A q \in Replicas : InStep(tasks'[q], live'[q])
    BY <1>t, <2>1 DEF Retimed
  <2>4. DOMAIN tasks' = Replicas /\ DOMAIN live' = Replicas /\ DOMAIN schedules' = Replicas
    BY <2>1, <2>2 DEF Retimed, SchedulesMove
  <2>5. TasksInStep'
    BY <2>3, <2>4 DEF TasksInStep, Domains, InStep
  <2>6. SchedulesOK'
    BY <1>t, <2>2 DEF SchedulesOK, SchedulesMove
  <2> QED
    BY <2>5, <2>6
<1> QED
  BY <1>1, <1>2, <1>3, MemorySteps

-----------------------------------------------------------------------------
(* Who runs, and what each replica keeps.                                  *)

\* The Controllers of q start in a turn of the main loop and end with everything
\* they keep; only while they run is the Controller's copy replaced.
ReplicaStep(q) ==
    /\ \/ controllers'[q] = controllers[q]
       \/ Forget(q) /\ controllers'[q] = "none"
       \/ controllers'[q] = "stopping" /\ controllers[q] = "running"
       \/ controllers'[q] = "none" /\ controllers[q] = "none"
       \/ RunLeaderControllers(q) /\ told[q] /\ controllers[q] = "none"
    /\ \/ store'[q] = store[q]
       \/ Forget(q)
       \/ /\ controllers[q] = "running" /\ UNCHANGED api
          /\ \A k \in Triggers : store'[q][k] \in {store[q][k], api[k]}

LEMMA ReplicaSteps ==
    ASSUME LeadInv, Typed, TasksInStep, [Next]_vars, NEW q \in Replicas
    PROVE  ReplicaStep(q)
<1>t. /\ controllers \in [Replicas -> {"none", "running", "stopping"}]
      /\ store \in [Replicas -> [Triggers -> Object]]
      /\ \A p \in Replicas : loop[p] = "top" => controllers[p] = "none"
  BY DEF LeadInv, LeadTypeOK, Typed, CopiesOK, TurnsInOrder
<1>1. ASSUME NEW p \in Replicas, NEW k \in Triggers, ControllerEvent(p, k) PROVE ReplicaStep(q)
  <2>1. /\ controllers[p] = "running" /\ UNCHANGED <<api, controllers>>
        /\ store' = [store EXCEPT ![p][k] = api[k]]
    BY <1>1 DEF ControllerEvent, leadVars
  <2>2. CASE q # p
    BY <1>t, <2>1, <2>2 DEF ReplicaStep
  <2>3. CASE q = p
    <3>1. \A x \in Triggers : store'[q][x] \in {store[q][x], api[x]}
      BY <1>t, <2>1, <2>3
    <3> QED
      BY <2>1, <2>3, <3>1 DEF ReplicaStep
  <2> QED
    BY <2>2, <2>3
<1>2. ASSUME UNCHANGED <<controllers, store>> PROVE ReplicaStep(q)
  BY <1>2 DEF ReplicaStep
<1>3. ASSUME NEW p \in Replicas, NEW k \in Triggers, Quiet(p, k) PROVE ReplicaStep(q)
  <2>1. UNCHANGED controllers
    BY <1>3, QuietLeads DEF leadVars
  <2>2. CreateTrigger(k) \/ ChangeSchedule(k) \/ DeleteTrigger(k) \/ TaskRuns(p, k) => UNCHANGED store
    BY DEF CreateTrigger, ChangeSchedule, DeleteTrigger, UserWrites, TaskRuns, watched
  <2>3. ASSUME \/ AddFinalizer(p, k) \/ ReconcileUnchanged(p, k) \/ ReconcileOk(p, k)
               \/ ReconcileFailsEarly(p, k) \/ ReconcileFailsLate(p, k)
               \/ CleanupAndRelease(p, k)
        PROVE  UNCHANGED store
    BY <2>3 DEF AddFinalizer, ReconcileUnchanged, ReconcileOk, ReconcileFailsEarly,
           ReconcileFailsLate, Reconcile, Reconciling, CleanupAndRelease
  <2> QED
    BY <1>1, <1>2, <1>3, <2>1, <2>2, <2>3 DEF Quiet
<1>4. ASSUME NEW p \in Replicas, NEW k \in Triggers, ReconcilePanics(p, k) PROVE ReplicaStep(q)
  BY <1>4, <1>t DEF ReconcilePanics, Reconciling, ReplicaStep
<1>5. ASSUME NEW p \in Replicas, RunLeaderControllers(p) PROVE ReplicaStep(q)
  <2>1. /\ controllers[p] = "none" /\ UNCHANGED store
        /\ controllers' = [controllers EXCEPT ![p] = IF told[p] THEN "running" ELSE "none"]
    BY <1>5, <1>t DEF RunLeaderControllers, Turn, watched
  <2>2. CASE q = p
    BY <1>5, <1>t, <2>1, <2>2 DEF ReplicaStep
  <2>3. CASE q # p
    BY <1>t, <2>1, <2>3 DEF ReplicaStep
  <2> QED
    BY <2>2, <2>3
<1>6. ASSUME NEW p \in Replicas, SchedulerShutdown(p) \/ CrashForgets(p) PROVE ReplicaStep(q)
  <2>1. Forget(p) /\ controllers' = [controllers EXCEPT ![p] = "none"]
    BY <1>6 DEF SchedulerShutdown, CrashForgets, ControllersFinish, Crash
  <2>2. q # p => store'[q] = store[q]
    BY <1>t, <2>1 DEF Forget
  <2> QED
    BY <1>t, <2>1, <2>2 DEF ReplicaStep
<1>7. ASSUME NEW p \in Replicas, OtherwiseLeads(p) PROVE ReplicaStep(q)
  <2>1. UNCHANGED store /\ (UNCHANGED controllers \/ StopControllers(p))
    BY <1>7 DEF OtherwiseLeads, watched, Lease, LeaseAcquired, LeaseLost, LeaseTaskEnds, LeaseExpires,
                SignalArrives, MainLoop, OnSignal, OnLeaderChange, Spin, Joined, Exit
  <2>2. CASE StopControllers(p)
    BY <1>t, <2>1, <2>2 DEF StopControllers, ReplicaStep
  <2> QED
    BY <1>2, <2>1, <2>2
<1>8. UNCHANGED vars => UNCHANGED <<controllers, store>>
  BY DEF vars, leadVars, watched
<1> QED
  BY <1>2, <1>3, <1>4, <1>5, <1>6, <1>7, <1>8, NextKinds
\* What p keeps changes only while it runs, or is dropped as a whole.
LEMMA MemoryOf ==
    ASSUME Typed, TasksInStep, [Next]_vars, NEW p \in Replicas, controllers[p] # "running"
    PROVE  (live'[p] = live[p] /\ schedules'[p] = schedules[p]) \/ Forget(p)
<1>1. CASE UNCHANGED memory
  BY <1>1 DEF memory
<1>2. ASSUME NEW q \in Replicas, Forget(q), q # p
      PROVE  live'[p] = live[p] /\ schedules'[p] = schedules[p]
  BY <1>2, ForgetEmpties
<1>3. ASSUME NEW q \in Replicas, NEW k \in Triggers, NEW W \in SUBSET Schedules,
             MemoryStep(q, k, W)
      PROVE  live'[p] = live[p] /\ schedules'[p] = schedules[p]
  BY <1>3 DEF MemoryStep, Retimed, SchedulesMove
<1> QED
  BY <1>1, <1>2, <1>3, MemorySteps

LEMMA KeptPart ==
    ASSUME LeadInv, Typed, TasksInStep, NothingKept, [Next]_vars
    PROVE  NothingKept'
<1> SUFFICES ASSUME NEW p \in Replicas, controllers'[p] = "none"
             PROVE  /\ live'[p] = {} /\ schedules'[p] = Empty
                    /\ store'[p] = [k \in Triggers |-> Absent]
  BY DEF NothingKept, Empty, Absent
<1>1. CASE Forget(p)
  BY <1>1, ForgetEmpties
<1>2. CASE ~Forget(p)
  <2>1. ReplicaStep(p)
    BY ReplicaSteps
  <2>2. controllers[p] = "none" \/ (RunLeaderControllers(p) /\ told[p])
    BY <1>2, <2>1 DEF ReplicaStep
  <2>3. controllers[p] = "none"
    BY <2>2, <2>1, <1>2 DEF ReplicaStep
  <2>4. store'[p] = store[p]
    BY <1>2, <2>1, <2>3 DEF ReplicaStep
  <2>5. live'[p] = live[p] /\ schedules'[p] = schedules[p]
    BY <1>2, <2>3, MemoryOf
  <2> QED
    BY <2>3, <2>4, <2>5 DEF NothingKept
<1> QED
  BY <1>1, <1>2

LEMMA OnePart ==
    ASSUME LeadInv, Typed, TasksInStep, OneRuns, [Next]_vars
    PROVE  OneRuns'
<1> SUFFICES ASSUME ~overlapped', NEW p \in Replicas, NEW q \in Replicas,
                    controllers'[p] = "running", controllers'[q] = "running"
             PROVE  p = q
  BY DEF OneRuns
<1>1. overlapped \in BOOLEAN /\ ~overlapped
  BY CountersStep DEF Typed, CountersOK
<1>2. ASSUME NEW r \in Replicas, controllers'[r] = "running"
      PROVE  controllers[r] = "running" \/ (RunLeaderControllers(r) /\ told[r])
  <2>1. ReplicaStep(r)
    BY ReplicaSteps
  <2> QED
    BY <1>2, <2>1 DEF ReplicaStep
<1>3. ASSUME NEW r \in Replicas, NEW u \in Replicas, r # u,
             RunLeaderControllers(r), told[r], controllers'[u] = "running"
      PROVE  FALSE
  <2>1. controllers \in [Replicas -> {"none", "running", "stopping"}]
    BY DEF LeadInv, LeadTypeOK
  <2>2. controllers[u] = "running"
    BY <1>3, <2>1 DEF RunLeaderControllers, Turn
  <2> QED
    BY <1>3, <2>2 DEF RunLeaderControllers, RunElsewhere
<1>4. CASE controllers[p] = "running" /\ controllers[q] = "running"
  BY <1>1, <1>4 DEF OneRuns
<1> QED
  BY <1>2, <1>3, <1>4

\* cleanup takes the task of its trigger away before the finalizer goes.
LEMMA CleanupRetimes ==
    ASSUME TasksInStep, NEW p \in Replicas, NEW k \in Triggers, CleanupAndRelease(p, k)
    PROVE  Retimed(p, k, {}) /\ ~Applies(p, k) /\ UNCHANGED store /\ controllers[p] = "running"
<1>1. Cancel(p, k)
  BY DEF CleanupAndRelease, Cleanup
<1>2. ~Applies(p, k) /\ UNCHANGED store /\ controllers[p] = "running"
  BY DEF CleanupAndRelease, Applies, Reconciling
<1> QED
  BY <1>1, <1>2, CancelRetimes

\* What p has scheduled after a step it had before, or it is what the Controller asks for.
LEMMA LiveStep ==
    ASSUME Typed, TasksInStep, [Next]_vars, NEW p \in Replicas, NEW t \in live'[p]
    PROVE  t \in live[p] \/ Applies(p, t.trigger)
<1>1. CASE UNCHANGED memory
  BY <1>1 DEF memory
<1>2. ASSUME NEW q \in Replicas, Forget(q) PROVE t \in live[p]
  BY <1>2, ForgetEmpties
<1>3. ASSUME NEW q \in Replicas, NEW k \in Triggers, NEW W \in SUBSET Schedules,
             MemoryStep(q, k, W)
      PROVE  t \in live[p] \/ Applies(p, t.trigger)
  <2>1. Retimed(q, k, W) /\ (W # {} => Applies(q, k))
    BY <1>3 DEF MemoryStep
  <2>2. CASE p # q
    BY <2>1, <2>2 DEF Retimed
  <2>3. CASE p = q
    <3>1. t \in live[p] \/ (t.trigger = k /\ W # {})
      BY <2>1, <2>3 DEF Retimed
    <3> QED
      BY <2>1, <2>3, <3>1
  <2> QED
    BY <2>2, <2>3
<1> QED
  BY <1>1, <1>2, <1>3, MemorySteps

LEMMA FinalizerPart ==
    ASSUME LeadInv, Typed, TasksInStep, NothingKept, OneRuns, FinalizersExist, FinalizersKept,
           [Next]_vars
    PROVE  FinalizersExist' /\ FinalizersKept'
<1>o. \A x \in Triggers : ObjectStep(x)
  BY ObjectsStep DEF Typed
<1>1. FinalizersExist'
  BY <1>o DEF FinalizersExist, ObjectStep
<1>2. ASSUME ~overlapped', NEW p \in Replicas, controllers'[p] = "running"
      PROVE  /\ \A k \in Triggers : Applies(p, k)' => api'[k].finalizer
             /\ \A t \in live'[p] : api'[t.trigger].finalizer
  <2>1. ReplicaStep(p)
    BY ReplicaSteps
  <2>2. ~overlapped
    BY <1>2, CountersStep DEF Typed
  <2>3. TasksInStep'
    BY InStepPart
  <2>4. \A t \in live'[p] : t.trigger \in Triggers
    BY <2>3 DEF TasksInStep, InStep, Task
  <2>5. CASE controllers[p] # "running"
    <3>1. live'[p] = {} /\ store'[p] = [k \in Triggers |-> Absent]
      <4>1. CASE Forget(p)
        BY <4>1, ForgetEmpties
      <4>2. CASE ~Forget(p)
        <5>1. controllers[p] = "none" /\ store'[p] = store[p]
          BY <1>2, <2>1, <2>5, <4>2 DEF ReplicaStep
        <5>2. live'[p] = live[p]
          BY <2>5, <4>2, MemoryOf
        <5> QED
          BY <5>1, <5>2 DEF NothingKept
      <4> QED
        BY <4>1, <4>2
    <3> QED
      BY <3>1, AbsentType DEF Applies
  <2>6. CASE controllers[p] = "running"
    <3>1. /\ \A k \in Triggers : Applies(p, k) => api[k].finalizer
          /\ \A t \in live[p] : api[t.trigger].finalizer
      BY <2>2, <2>6 DEF FinalizersKept
    <3>2. ASSUME NEW k \in Triggers, api[k].finalizer, ~api'[k].finalizer
          PROVE  CleanupAndRelease(p, k)
      <4>1. PICK q \in Replicas : CleanupAndRelease(q, k)
        BY <1>o, <3>2 DEF ObjectStep
      <4>2. controllers[q] = "running"
        BY <4>1 DEF CleanupAndRelease, Reconciling
      <4>3. q = p
        BY <2>2, <2>6, <4>2 DEF OneRuns
      <4> QED
        BY <4>1, <4>3
    <3>3. ASSUME NEW k \in Triggers, Applies(p, k)' PROVE api'[k].finalizer
      <4>1. store'[p][k] = store[p][k] => Applies(p, k)
        BY <3>3 DEF Applies
      <4>2. UNCHANGED store => Applies(p, k)
        BY <4>1
      <4>3. ~CleanupAndRelease(p, k)
        BY <4>2, CleanupRetimes
      <4>4. CASE store'[p][k] = store[p][k]
        BY <3>1, <3>2, <4>1, <4>3, <4>4
      <4>5. CASE store'[p][k] = api[k] /\ UNCHANGED api
        BY <3>3, <4>5 DEF Applies
      <4>6. CASE Forget(p)
        <5>1. store'[p][k] = Absent
          BY <4>6, ForgetEmpties
        <5> QED
          BY <3>3, <5>1, AbsentType DEF Applies
      <4> QED
        BY <2>1, <4>4, <4>5, <4>6 DEF ReplicaStep
    <3>4. ASSUME NEW t \in live'[p] PROVE api'[t.trigger].finalizer
      <4>1. t.trigger \in Triggers
        BY <2>4
      <4>2. api[t.trigger].finalizer
        BY <3>1, <4>1, LiveStep
      <4>3. ~CleanupAndRelease(p, t.trigger)
        BY <4>1, CleanupRetimes DEF Retimed
      <4> QED
        BY <3>2, <4>1, <4>2, <4>3
    <3> QED
      BY <3>3, <3>4
  <2> QED
    BY <2>5, <2>6
<1>3. FinalizersKept'
  BY <1>2 DEF FinalizersKept
<1> QED
  BY <1>1, <1>3
LEMMA ActualPart ==
    ASSUME LeadInv, Typed, TasksInStep, NothingKept, FinalizersExist, FinalizersKept,
           SchedulesAreActual, [Next]_vars
    PROVE  SchedulesAreActual'
<1> SUFFICES ASSUME NEW p \in Replicas, NEW k \in DOMAIN schedules'[p],
                    controllers'[p] = "running", failures' = 0, ~overlapped'
             PROVE  Scheduled(p, k)' = {schedules'[p][k]} \cap Valid
  BY DEF SchedulesAreActual, Scheduled
<1>1. failures = 0 /\ ~overlapped
  BY CountersStep DEF Typed
<1>2. DOMAIN Empty = {} /\ k \in Triggers
  BY InStepPart DEF Empty, SchedulesOK
<1>3. ~Forget(p)
  BY <1>2, ForgetEmpties
<1>4. controllers[p] = "running"
  <2> SUFFICES ASSUME controllers[p] # "running" PROVE FALSE
    OBVIOUS
  <2>1. ReplicaStep(p)
    BY ReplicaSteps
  <2>2. controllers[p] = "none"
    BY <2>1, <1>3 DEF ReplicaStep
  <2>3. schedules'[p] = schedules[p]
    BY <1>3, <2>2, MemoryOf
  <2> QED
    BY <1>2, <2>2, <2>3 DEF NothingKept
<1>5. \A x \in DOMAIN schedules[p] : Scheduled(p, x) = {schedules[p][x]} \cap Valid
  BY <1>1, <1>4 DEF SchedulesAreActual
<1>6. ASSUME live'[p] = live[p], schedules'[p] = schedules[p]
      PROVE  Scheduled(p, k)' = {schedules'[p][k]} \cap Valid
  BY <1>5, <1>6 DEF Scheduled
<1>7. CASE UNCHANGED memory
  BY <1>6, <1>7 DEF memory
<1>8. ASSUME NEW q \in Replicas, Forget(q)
      PROVE  Scheduled(p, k)' = {schedules'[p][k]} \cap Valid
  BY <1>3, <1>6, <1>8, ForgetEmpties
<1>9. ASSUME NEW q \in Replicas, NEW x \in Triggers, NEW W \in SUBSET Schedules,
             MemoryStep(q, x, W)
      PROVE  Scheduled(p, k)' = {schedules'[p][k]} \cap Valid
  <2>1. Retimed(q, x, W) /\ SchedulesMove(q, x) /\ Remembers(q, x, W)
    BY <1>9 DEF MemoryStep
  <2>2. CASE q # p
    BY <1>6, <2>1, <2>2 DEF Retimed, SchedulesMove
  <2>3. CASE q = p /\ k # x
    <3>1. k \in DOMAIN schedules[p] /\ schedules'[p][k] = schedules[p][k]
      BY <2>1, <2>3 DEF SchedulesMove
    <3>2. Scheduled(p, k)' = Scheduled(p, k)
      BY <1>2, <2>1, <2>3 DEF Retimed
    <3> QED
      BY <1>5, <3>1, <3>2
  <2>4. CASE q = p /\ k = x
    <3>1. Scheduled(p, k)' = W
      BY <2>1, <2>4 DEF Retimed
    <3>2. Applies(p, k) => api[k].exists
      BY <1>1, <1>2, <1>4 DEF FinalizersKept, FinalizersExist
    <3>3. W = {schedules'[p][k]} \cap Valid
      BY <2>1, <2>4, <3>2 DEF Remembers
    <3> QED
      BY <3>1, <3>3
  <2> QED
    BY <2>2, <2>3, <2>4
<1> QED
  BY <1>7, <1>8, <1>9, MemorySteps

-----------------------------------------------------------------------------
LEMMA ScheduleInvTyped == ScheduleInv => LeadInv /\ Typed
BY DEF ScheduleInv, TypeOK, LeadInv, Typed, ObjectTypeOK, CountersOK, CopiesOK, SchedulesOK,
       TasksInStep, Domains

LEMMA TypedTypeOK == LeadInv /\ Typed /\ TasksInStep => TypeOK
BY DEF TypeOK, LeadInv, Typed, ObjectTypeOK, CountersOK, CopiesOK, SchedulesOK, TasksInStep, InStep

LEMMA ScheduleInvInit == Init => ScheduleInv
<1> SUFFICES ASSUME Init PROVE ScheduleInv
  OBVIOUS
<1>1. LeadInv /\ \A p \in Replicas : controllers[p] = "none"
  BY LeadInvInit DEF Init, LeadInit
<1>2. ObjectTypeOK /\ CopiesOK /\ CountersOK
  <2>1. ObjectTypeOK
    BY AbsentType DEF Init, ObjectTypeOK
  <2>2. [k \in Triggers |-> Absent] \in [Triggers -> Object]
    BY AbsentType
  <2>3. CopiesOK
    <3>1. /\ store = [p \in Replicas |-> [k \in Triggers |-> Absent]]
          /\ queued = [p \in Replicas |-> {}]
      BY DEF Init
    <3> QED
      BY <2>2, <3>1 DEF CopiesOK
  <2>4. CountersOK
    <3>1. edits \in 0..MaxEdits /\ failures \in 0..MaxFailures
      BY TriggerBoundsAssumption DEF Init
    <3> QED
      BY <3>1 DEF Init, CountersOK
  <2> QED
    BY <2>1, <2>3, <2>4
<1>3. /\ \A p \in Replicas : tasks[p] = Empty /\ schedules[p] = Empty /\ live[p] = {}
      /\ Domains
  BY DEF Init, Domains
<1>4. TasksInStep
  BY <1>3, EmptyInStep DEF TasksInStep
<1>5. DOMAIN Empty = {}
  BY DEF Empty
<1>6. SchedulesOK /\ SchedulesAreActual
  BY <1>3, <1>5 DEF SchedulesOK, SchedulesAreActual, Domains
<1>7. TypeOK
  BY <1>1, <1>2, <1>4, <1>6, TypedTypeOK DEF Typed, LeadInv
<1>8. NothingKept /\ OneRuns /\ FinalizersKept
  BY <1>1, <1>3 DEF Init, NothingKept, OneRuns, FinalizersKept
<1>9. FinalizersExist
  BY AbsentType DEF Init, FinalizersExist
<1> QED
  BY <1>1, <1>4, <1>6, <1>7, <1>8, <1>9 DEF ScheduleInv, LeadInv

LEMMA ScheduleInvStep == ScheduleInv /\ [Next]_vars => ScheduleInv'
<1> SUFFICES ASSUME ScheduleInv, [Next]_vars PROVE ScheduleInv'
  OBVIOUS
<1>1. /\ LeadInv /\ Typed /\ TasksInStep /\ NothingKept /\ OneRuns /\ FinalizersExist
      /\ FinalizersKept /\ SchedulesAreActual
  BY ScheduleInvTyped DEF ScheduleInv
<1>2. LeadInv'
  BY <1>1, LeadPart
<1>3. TasksInStep' /\ SchedulesOK'
  BY <1>1, InStepPart
<1>4. CountersOK' /\ CopiesOK' /\ ObjectTypeOK'
  BY <1>1, CountersStep, CopiesStep, ObjectsStep DEF Typed
<1>5. Typed'
  BY <1>2, <1>3, <1>4 DEF Typed, LeadInv
<1>6. TypeOK'
  BY <1>2, <1>3, <1>5, TypedTypeOK, PTL
<1>7. NothingKept' /\ OneRuns'
  BY <1>1, KeptPart, OnePart
<1>8. FinalizersExist' /\ FinalizersKept' /\ SchedulesAreActual'
  BY <1>1, FinalizerPart, ActualPart
<1> QED
  BY <1>2, <1>3, <1>6, <1>7, <1>8 DEF ScheduleInv, LeadInv

LEMMA ScheduleInvariant == Spec => []ScheduleInv
BY ScheduleInvInit, ScheduleInvStep, PTL DEF Spec

\* Every value of the model keeps its type, in every replica: the maps of TriggersState
\* and the scheduler, the objects and their copies, the bounds.
THEOREM ScheduleTypeCorrect == Spec => []TypeOK
<1>1. ScheduleInv => TypeOK
  BY DEF ScheduleInv
<1> QED
  BY <1>1, ScheduleInvariant, PTL

\* However reconcile and cleanup of src/resources/trigger.rs end, by success, failure or
\* panic, every scheduled task is the one that the map of tasks has for its trigger.
THEOREM TasksAreRecordedCorrect == Spec => []TasksAreRecorded
<1>1. ScheduleInv => TasksAreRecorded
  BY DEF ScheduleInv, TasksInStep, InStep, TasksAreRecorded
<1> QED
  BY <1>1, ScheduleInvariant, PTL

\* For any number of replicas, and as long as two of them never ran their Controllers at
\* once, a trigger that is gone from the API server has no task in a running replica.
THEOREM GoneIsUnscheduledCorrect == Spec => []GoneIsUnscheduled
<1>1. ScheduleInv => GoneIsUnscheduled
  <2>1. ASSUME ScheduleInv, NEW p \in Replicas, NEW t \in live[p] PROVE t.trigger \in Triggers
    BY <2>1 DEF ScheduleInv, TypeOK, Task
  <2> QED
    BY <2>1 DEF ScheduleInv, FinalizersKept, FinalizersExist, GoneIsUnscheduled
<1> QED
  BY <1>1, ScheduleInvariant, PTL

\* For any number of replicas, and as long as no request failed and two of them never ran
\* their Controllers at once, the schedule remembered is the one that the task runs on.
THEOREM SchedulesAreActualCorrect == Spec => []SchedulesAreActual
<1>1. ScheduleInv => SchedulesAreActual
  BY DEF ScheduleInv
<1> QED
  BY <1>1, ScheduleInvariant, PTL
=============================================================================
