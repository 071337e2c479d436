--------------------------- MODULE ScheduleTriggers ---------------------------
(***************************************************************************)
(* The ScheduleTrigger controller of every replica that believes to lead:  *)
(* reconcile and cleanup of src/resources/trigger.rs, called through the   *)
(* finalizer and error_policy of src/controller.rs.  The maps of           *)
(* TriggersState and the scheduler live in the memory of one call of       *)
(* run_leader_controllers; the triggers and their status in the API server *)
(* outlive it.                                                             *)
(*                                                                         *)
(* reconcile holds the write lock of TriggersState to its end, and kube    *)
(* never reconciles one object twice at a time: it is one action, with one *)
(* disjunct for each way it may return.                                    *)
(***************************************************************************)
EXTENDS Leadership

CONSTANTS
    Triggers,     \* keys of triggers
    Schedules,    \* schedules that users write
    Valid,        \* the ones for which is_valid() holds
    MaxEdits,     \* bound: changes of a trigger by its user
    MaxFailures   \* bound: requests of the reconciler that fail

ASSUME SchedulesAssumption == Valid \subseteq Schedules /\ Schedules # {}
ASSUME TriggerBoundsAssumption == MaxEdits \in Nat /\ MaxFailures \in Nat

VARIABLES
    api,        \* [Triggers -> the object in the API server]
    store,      \* [Replicas -> [Triggers -> the object as the Controller has it]]
    events,     \* [Replicas -> triggers whose latest change is on its way]
    queued,     \* [Replicas -> triggers to reconcile]
    schedules,  \* [Replicas -> TriggersState.schedules]
    tasks,      \* [Replicas -> TriggersState.tasks]
    live,       \* [Replicas -> tasks of the scheduler]
    edits,      \* changes by users so far, up to MaxEdits
    failures,   \* failed requests so far, up to MaxFailures
    panicked,   \* history: replicas in which reconcile has panicked
    overlapped  \* history: two replicas have run their Controllers at once

memory  == <<schedules, tasks, live>>
watched == <<store, queued>>
vars == <<leadVars, api, events, watched, memory, edits, failures, panicked, overlapped>>

\* last_run: "Unset" while there is no status.
Object == [exists : BOOLEAN, schedule : Schedules, finalizer : BOOLEAN,
           deleting : BOOLEAN, last_run : {"Unset", "Never", "time"}]

Absent == [exists |-> FALSE, schedule |-> CHOOSE s \in Schedules : TRUE,
           finalizer |-> FALSE, deleting |-> FALSE, last_run |-> "Unset"]

Task == [id : Nat, trigger : Triggers, schedule : Schedules]

Empty == [k \in {} |-> 0]

TypeOK ==
    /\ LeadTypeOK
    /\ api \in [Triggers -> Object]
    /\ store \in [Replicas -> [Triggers -> Object]]
    /\ events \in [Replicas -> SUBSET Triggers]
    /\ queued \in [Replicas -> SUBSET Triggers]
    /\ \A p \in Replicas :
          /\ DOMAIN tasks[p] \subseteq Triggers
          /\ \A k \in DOMAIN tasks[p] : tasks[p][k] \in Nat
          /\ DOMAIN schedules[p] \subseteq Triggers
          /\ \A k \in DOMAIN schedules[p] : schedules[p][k] \in Schedules
          /\ live[p] \subseteq Task
    /\ edits \in 0..MaxEdits
    /\ failures \in 0..MaxFailures
    /\ panicked \subseteq Replicas
    /\ overlapped \in BOOLEAN

Init ==
    /\ LeadInit
    /\ api = [k \in Triggers |-> Absent]
    /\ store = [p \in Replicas |-> [k \in Triggers |-> Absent]]
    /\ events = [p \in Replicas |-> {}]
    /\ queued = [p \in Replicas |-> {}]
    /\ schedules = [p \in Replicas |-> Empty]
    /\ tasks = [p \in Replicas |-> Empty]
    /\ live = [p \in Replicas |-> {}]
    /\ edits = 0
    /\ failures = 0
    /\ panicked = {}
    /\ overlapped = FALSE

-----------------------------------------------------------------------------
(* The API server: every write of an object is announced to the Controllers*)
(* that watch.                                                             *)

Write(k, obj) ==
    /\ api' = [api EXCEPT ![k] = obj]
    /\ events' = [p \in Replicas |-> IF controllers[p] = "running"
                                     THEN events[p] \cup {k} ELSE events[p]]

NoWrite == UNCHANGED <<api, events>>

UserWrites(k, obj) ==
    /\ edits < MaxEdits
    /\ edits' = edits + 1
    /\ Write(k, obj)
    /\ UNCHANGED <<leadVars, watched, memory, failures, panicked, overlapped>>

CreateTrigger(k) ==
    /\ ~api[k].exists
    /\ \E s \in Schedules : UserWrites(k, [Absent EXCEPT !.exists = TRUE, !.schedule = s])

ChangeSchedule(k) ==
    /\ api[k].exists
    /\ ~api[k].deleting
    /\ \E s \in Schedules \ {api[k].schedule} :
          UserWrites(k, [api[k] EXCEPT !.schedule = s])

\* An object with a finalizer stays until the finalizer is removed.
DeleteTrigger(k) ==
    /\ api[k].exists
    /\ ~api[k].deleting
    /\ UserWrites(k, IF api[k].finalizer THEN [api[k] EXCEPT !.deleting = TRUE] ELSE Absent)

\* The Controller gets the newest version; one that is gone is not reconciled.
ControllerEvent(p, k) ==
    /\ controllers[p] = "running"
    /\ k \in events[p]
    /\ events' = [events EXCEPT ![p] = @ \ {k}]
    /\ store' = [store EXCEPT ![p][k] = api[k]]
    /\ queued' = [queued EXCEPT ![p] = IF api[k].exists THEN @ \cup {k} ELSE @ \ {k}]
    /\ UNCHANGED <<leadVars, api, memory, edits, failures, panicked, overlapped>>

-----------------------------------------------------------------------------
(* run_leader_controllers begins and ends with empty maps and a scheduler  *)
(* of its own; the Controller starts with a list of all objects.           *)

Forget(p) ==
    /\ store' = [store EXCEPT ![p] = [k \in Triggers |-> Absent]]
    /\ queued' = [queued EXCEPT ![p] = {}]
    /\ schedules' = [schedules EXCEPT ![p] = Empty]
    /\ tasks' = [tasks EXCEPT ![p] = Empty]
    /\ live' = [live EXCEPT ![p] = {}]

RunElsewhere(p) == \E q \in Replicas \ {p} : controllers[q] = "running"

RunLeaderControllers(p) ==
    /\ Turn(p)
    /\ events' = [events EXCEPT ![p] = {k \in Triggers : told[p] /\ api[k].exists}]
    /\ overlapped' = (overlapped \/ (told[p] /\ RunElsewhere(p)))
    /\ UNCHANGED <<api, watched, memory, edits, failures, panicked>>

SchedulerShutdown(p) ==
    /\ ControllersFinish(p)
    /\ Forget(p)
    /\ events' = [events EXCEPT ![p] = {}]
    /\ UNCHANGED <<api, edits, failures, panicked, overlapped>>

CrashForgets(p) ==
    /\ Crash(p)
    /\ Forget(p)
    /\ events' = [events EXCEPT ![p] = {}]
    /\ UNCHANGED <<api, edits, failures, panicked, overlapped>>

OtherwiseLeads(p) ==
    /\ \/ Lease(p) \/ LeaseTaskEnds(p) \/ LeaseExpires
       \/ SignalArrives(p) \/ MainLoop(p)
    /\ UNCHANGED <<api, events, watched, memory, edits, failures, panicked, overlapped>>

-----------------------------------------------------------------------------
(* reconcile_namespaced.                                                   *)

Put(f, k, v) == [x \in DOMAIN f \cup {k} |-> IF x = k THEN v ELSE f[x]]

\* Mutant: the entry is cleared and not removed.
WithoutCleared(f, k) == [x \in DOMAIN f \cup {k} |-> IF x = k THEN -1 ELSE f[x]]

Without(f, k) == [x \in DOMAIN f \ {k} |-> f[x]]

Fails == failures < MaxFailures /\ failures' = failures + 1

Reconciling(p, k) ==
    /\ controllers[p] = "running"
    /\ k \in queued[p]
    /\ queued' = [queued EXCEPT ![p] = @ \ {k}]
    /\ UNCHANGED <<store, edits>>

\* finalizer(): the first call for an object only adds the finalizer.
AddFinalizer(p, k) ==
    /\ Reconciling(p, k)
    /\ ~store[p][k].finalizer
    /\ \/ /\ api[k].exists /\ ~api[k].finalizer
          /\ Write(k, [api[k] EXCEPT !.finalizer = TRUE])
          /\ UNCHANGED failures
       \/ /\ ~api[k].exists \/ api[k].finalizer
          /\ NoWrite
          /\ UNCHANGED failures
       \/ Fails /\ NoWrite
    /\ UNCHANGED <<leadVars, memory, panicked, overlapped>>

\* The task that tasks has for k leaves the scheduler.
StillLive(p, k) == {t \in live[p] : ~(k \in DOMAIN tasks[p] /\ t.id = tasks[p][k])}

Cancel(p, k) ==
    /\ tasks' = [tasks EXCEPT ![p] = Without(@, k)]
    /\ live' = [live EXCEPT ![p] = StillLive(p, k)]

FreshId(p) == CHOOSE n \in 1..(Cardinality(live[p]) + 1) : \A t \in live[p] : t.id # n

\* Mutant: the existing task is not cancelled.
RescheduleKeepsTask(p, k) ==
    LET s == store[p][k].schedule
        id == FreshId(p)
    IN  IF s \in Valid
        THEN /\ tasks' = [tasks EXCEPT ![p] = Put(@, k, id)]
             /\ live' = [live EXCEPT ![p] = @ \cup {[id |-> id, trigger |-> k, schedule |-> s]}]
        ELSE UNCHANGED <<tasks, live>>

\* The old task is cancelled; an invalid schedule gets no new one.
Reschedule(p, k) ==
    LET s == store[p][k].schedule
        id == FreshId(p)
    IN  IF s \in Valid
        THEN /\ tasks' = [tasks EXCEPT ![p] = Put(@, k, id)]
             /\ live' = [live EXCEPT ![p] = StillLive(p, k) \cup
                            {[id |-> id, trigger |-> k, schedule |-> s]}]
        ELSE Cancel(p, k)

\* Mutant: only the presence of a schedule is compared.
ChangedIfNew(p, k) == k \notin DOMAIN schedules[p]

Changed(p, k) ==
    k \in DOMAIN schedules[p] => store[p][k].schedule # schedules[p][k]

\* Finalizer::Apply.
Applies(p, k) == store[p][k].finalizer /\ ~store[p][k].deleting

ReconcileUnchanged(p, k) ==
    /\ Reconciling(p, k)
    /\ Applies(p, k)
    /\ ~Changed(p, k)
    /\ NoWrite
    /\ UNCHANGED <<leadVars, memory, failures, panicked, overlapped>>

\* The filter keeps exactly the text that is no time, and parsing it panics.
LastRunPanics(obj) == obj.last_run = "Never"

\* The old task is cancelled by then.  The panic ends the Controller and, as
\* after a stop, the scheduler; the main loop does not watch this.
ReconcilePanics(p, k) ==
    /\ Reconciling(p, k)
    /\ Applies(p, k)
    /\ Changed(p, k)
    /\ LastRunPanics(store[p][k])
    /\ Cancel(p, k)
    /\ controllers' = [controllers EXCEPT ![p] = "stopping"]
    /\ panicked' = panicked \cup {p}
    /\ NoWrite
    /\ UNCHANGED <<lease, told, lease_task, moves, loop, is_leader, signalled, shutdown, schedules,
                   failures, overlapped>>

Reconcile(p, k) ==
    /\ Reconciling(p, k)
    /\ Applies(p, k)
    /\ Changed(p, k)
    /\ ~LastRunPanics(store[p][k])
    /\ UNCHANGED <<leadVars, panicked, overlapped>>

\* update_trigger_status(None, None, None): lastRun comes from the ApiCache,
\* which may not have the latest status yet.
ReconcileOk(p, k) ==
    /\ Reconcile(p, k)
    /\ Reschedule(p, k)
    /\ api[k].exists
    /\ \E lr \in {"Never"} \cup ({api[k].last_run} \ {"Unset"}) :
          Write(k, [api[k] EXCEPT !.last_run = lr])
    /\ schedules' = [schedules EXCEPT ![p] = Put(@, k, store[p][k].schedule)]
    /\ UNCHANGED failures

\* scheduler.add or the validation event fails; error_policy then waits for a
\* change of the object.
ReconcileFailsEarly(p, k) ==
    /\ Reconcile(p, k)
    /\ Fails
    /\ Cancel(p, k)
    /\ NoWrite
    /\ UNCHANGED schedules

\* The status update fails, or the object is gone.
ReconcileFailsLate(p, k) ==
    /\ Reconcile(p, k)
    /\ Reschedule(p, k)
    /\ \/ Fails
       \/ ~api[k].exists /\ UNCHANGED failures
    /\ NoWrite
    /\ UNCHANGED schedules

\* Mutant: only the map of schedules is cleaned up.
CleanupKeepsTask(p, k) ==
    /\ schedules' = [schedules EXCEPT ![p] = Without(@, k)]
    /\ UNCHANGED <<tasks, live>>

\* Mutant: cleanup expects a task.
CleanupNeedsTask(p, k) ==
    /\ k \in DOMAIN tasks[p]
    /\ schedules' = [schedules EXCEPT ![p] = Without(@, k)]
    /\ Cancel(p, k)

Cleanup(p, k) ==
    /\ schedules' = [schedules EXCEPT ![p] = Without(@, k)]
    /\ Cancel(p, k)

\* Finalizer::Cleanup, and then the finalizer is removed.
CleanupAndRelease(p, k) ==
    /\ Reconciling(p, k)
    /\ store[p][k].finalizer
    /\ store[p][k].deleting
    /\ Cleanup(p, k)
    /\ \/ /\ api[k].finalizer
          /\ Write(k, IF api[k].deleting THEN Absent ELSE [api[k] EXCEPT !.finalizer = FALSE])
          /\ UNCHANGED failures
       \/ /\ ~api[k].finalizer
          /\ NoWrite
          /\ UNCHANGED failures
       \/ Fails /\ NoWrite
    /\ UNCHANGED <<leadVars, panicked, overlapped>>

\* A task of the scheduler runs (see TriggerCheck) and writes the status.
TaskRuns(p, k) ==
    /\ \E t \in live[p] : t.trigger = k
    /\ api[k].exists
    /\ \E lr \in {"Never", "time"} : Write(k, [api[k] EXCEPT !.last_run = lr])
    /\ UNCHANGED <<leadVars, watched, memory, edits, failures, panicked, overlapped>>

-----------------------------------------------------------------------------
ReconcileNamespaced(p, k) ==
    \/ AddFinalizer(p, k)
    \/ ReconcileUnchanged(p, k)
    \/ ReconcilePanics(p, k)
    \/ ReconcileOk(p, k)
    \/ ReconcileFailsEarly(p, k)
    \/ ReconcileFailsLate(p, k)
    \/ CleanupAndRelease(p, k)

Next ==
    \/ \E k \in Triggers : CreateTrigger(k) \/ ChangeSchedule(k) \/ DeleteTrigger(k)
    \/ \E p \in Replicas :
          \/ RunLeaderControllers(p)
          \/ SchedulerShutdown(p)
          \/ CrashForgets(p)
          \/ OtherwiseLeads(p)
          \/ \E k \in Triggers :
                ControllerEvent(p, k) \/ ReconcileNamespaced(p, k) \/ TaskRuns(p, k)

Spec == Init /\ [][Next]_vars

\* The lease expires, it is taken when it is free, the runtime polls the main loop and the
\* Controller, and the watch delivers.
Fairness ==
    \A p \in Replicas :
        /\ WF_vars(LeaseExpires /\ OtherwiseLeads(p))
        /\ SF_vars(LeaseAcquired(p) /\ OtherwiseLeads(p))
        /\ WF_vars(MainLoop(p) /\ OtherwiseLeads(p))
        /\ WF_vars(RunLeaderControllers(p))
        /\ WF_vars(SchedulerShutdown(p))
        /\ \A k \in Triggers :
              WF_vars(ControllerEvent(p, k)) /\ WF_vars(ReconcileNamespaced(p, k))

FairSpec == Spec /\ Fairness

-----------------------------------------------------------------------------
(* Properties.                                                             *)

\* The maps and the scheduler never drift apart: every scheduled task is the
\* one that tasks records for its trigger, so that it can still be cancelled
\* and a trigger never has two.
TasksAreRecorded ==
    \A p \in Replicas : \A t \in live[p] :
        /\ t.trigger \in DOMAIN tasks[p]
        /\ tasks[p][t.trigger] = t.id

\* The schedules of the tasks of trigger k.
Scheduled(p, k) == {t.schedule : t \in {u \in live[p] : u.trigger = k}}

\* "Actual (real world) schedule triggers state": the schedule remembered for
\* a trigger is the one its task runs on.  A status update that fails ends
\* reconcile between the two, and so does one for an object that the Controller
\* of another replica has cleaned up.
SchedulesAreActual ==
    \A p \in Replicas : \A k \in DOMAIN schedules[p] :
        controllers[p] = "running" /\ failures = 0 /\ ~overlapped =>
            Scheduled(p, k) = {schedules[p][k]} \cap Valid

\* Once the object of a trigger is gone its task is gone: cleanup comes first.
\* It runs in one replica only, so that a deposed leader that still reconciles
\* may take the object away from under the task of the next one.
GoneIsUnscheduled ==
    \A p \in Replicas : \A t \in live[p] :
        controllers[p] = "running" /\ ~overlapped => api[t.trigger].exists

\* The text kept in lastRun can be parsed.
NeverPanics == panicked = {}

\* What the scheduler should run for trigger k.
Wanted(k) == IF api[k].exists /\ ~api[k].deleting THEN {api[k].schedule} \cap Valid ELSE {}

\* What keeps the work from being done: a panic (see NeverPanics), a failed
\* request (error_policy waits for the next change), a deposed leader that
\* cleaned up what another had scheduled, or no replica that stays and can lead:
\* one whose lease task has ended never learns of the lease again, and its main
\* loop goes round until a signal ends it.
Hindered ==
    \/ panicked # {} \/ failures > 0 \/ overlapped
    \/ \A p \in Replicas : signalled[p] \/ lease_task[p] = "ended"

\* When users and the lease come to rest, the replica that holds the lease
\* schedules exactly what the triggers ask for.
ScheduleConverges ==
    <>[](\/ Hindered
         \/ \E p \in Replicas : lease = p /\ \A k \in Triggers : Scheduled(p, k) = Wanted(k))

\* A deleted trigger does not stay behind, waiting for its finalizer.
DeletionCompletes ==
    \A k \in Triggers : api[k].deleting ~> ~api[k].deleting \/ Hindered
=============================================================================
