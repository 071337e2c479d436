------------------------------ MODULE JobsWatch ------------------------------
(***************************************************************************)
(* The part of JobsQueue::init_and_watch (src/jobs.rs) that follows the    *)
(* Kubernetes Jobs of this controller instance through a kube watch and    *)
(* counts them in the atomic running_jobs, together with the cluster side  *)
(* it observes: the Jobs themselves, the ordered stream of their changes   *)
(* and the reflector store that the stream is applied to.                  *)
(*                                                                         *)
(* The handler never looks at the object of the event: it looks the Job up *)
(* in the store.  That matters during a re-list, when the stream yields    *)
(* every listed object while the store still holds the previous content.   *)
(***************************************************************************)
EXTENDS Integers, Sequences, FiniteSets

CONSTANTS
    Jobs,        \* the Jobs this instance may create (names are unique)
    JobSteps,    \* pairs <<s, t>>: the job controller may replace status s by t
    MaxDesyncs,  \* bound: how many times the watch loses its position
    Usize        \* number of values of a usize (2^64 in the build)

Unfinished == {"pending", "active"}       \* neither succeeded nor failed is set
Finished   == {"succeeded", "failed"}     \* that field of the status is set
Status     == Unfinished \cup Finished
NoStatus   == "no_status"
Gone       == {"absent", "deleted"}       \* not (yet, any more) in the cluster
JobState   == Status \cup Gone

Completion == {"Succeed", "Failed", "Expired", "Deleted", "CreateError"}

ASSUME JobsAssumption == IsFiniteSet(Jobs)
ASSUME JobStepsAssumption == JobSteps \subseteq Status \X Status
\* parallelism is 1 and Pods are not restarted (src/jobs.rs, the comment in the
\* handler): a status that reports success or failure is the last one.
ASSUME OneFinalStatus == \A step \in JobSteps : step[1] \notin Finished
ASSUME MaxDesyncsAssumption == MaxDesyncs \in Nat
\* The counter has room for every Job: of 2^64 values half are valid gauges.
ASSUME UsizeAssumption == Usize \in Nat /\ Usize > 2 * Cardinality(Jobs)

VARIABLES
    cluster,       \* [Jobs -> JobState]: the Job as the API server has it
    events,        \* [Jobs -> Seq(JobState)]: changes the watch has not delivered
    store,         \* [Jobs -> JobState]: the reflector store
    statuses,      \* [Jobs -> Status or NoStatus]: the handler's HashMap
    running_jobs,  \* the AtomicUsize
    relist,        \* a re-list in progress: its snapshot and the objects to yield
    desyncs,       \* re-lists so far, up to MaxDesyncs
    completed,     \* [Jobs -> Seq(Completion)]: increments of completed_count
    slots          \* history: the Jobs that hold one unit of running_jobs

watchVars == <<cluster, events, store, statuses, running_jobs, relist, desyncs,
               completed, slots>>

NoRelist == [on |-> FALSE, snapshot |-> [j \in Jobs |-> "absent"], todo |-> {}]

WatchTypeOK ==
    /\ cluster \in [Jobs -> JobState]
    /\ events \in [Jobs -> Seq(JobState)]
    /\ store \in [Jobs -> JobState]
    /\ statuses \in [Jobs -> Status \cup {NoStatus}]
    /\ running_jobs \in 0..(Usize - 1)
    /\ relist \in [on : BOOLEAN, snapshot : [Jobs -> JobState], todo : SUBSET Jobs]
    /\ desyncs \in 0..MaxDesyncs
    /\ completed \in [Jobs -> Seq(Completion)]
    /\ slots \subseteq Jobs

WatchInit ==
    /\ cluster = [j \in Jobs |-> "absent"]
    /\ events = [j \in Jobs |-> <<>>]
    /\ store = [j \in Jobs |-> "absent"]
    /\ statuses = [j \in Jobs |-> NoStatus]
    /\ running_jobs = 0
    /\ relist = NoRelist
    /\ desyncs = 0
    /\ completed = [j \in Jobs |-> <<>>]
    /\ slots = {}

-----------------------------------------------------------------------------
(* The cluster: every change of a Job is queued for the watch.             *)

Change(j, st) ==
    /\ cluster' = [cluster EXCEPT ![j] = st]
    /\ events' = [events EXCEPT ![j] = Append(@, st)]

\* POST of the Job succeeds: it exists with an empty status.
ServerCreate(j) ==
    /\ cluster[j] = "absent"
    /\ Change(j, "pending")
    /\ UNCHANGED <<store, statuses, running_jobs, relist, desyncs, completed, slots>>

JobProgress(j) ==
    /\ cluster[j] \in Status
    /\ \E st \in Status : <<cluster[j], st>> \in JobSteps /\ Change(j, st)
    /\ UNCHANGED <<store, statuses, running_jobs, relist, desyncs, completed, slots>>

\* Deletion by a user, by the garbage collector or by the TTL controller.
JobDelete(j) ==
    /\ cluster[j] \in Status
    /\ Change(j, "deleted")
    /\ UNCHANGED <<store, statuses, running_jobs, relist, desyncs, completed, slots>>

-----------------------------------------------------------------------------
(* The handler of touched objects; st is what store.get returns for j.     *)

\* Mutant: a Job is counted when it is first seen active.
AcquiresActive(j, st) == st = "active" /\ statuses[j] = NoStatus

Acquires(j, st) == st \in Status /\ statuses[j] = NoStatus

\* Mutant: a failed Job does not give its slot back.
FinishesSucceeded(j, st) == st = "succeeded" /\ statuses[j] \notin {NoStatus, st}

Finishes(j, st) == st \in Finished /\ statuses[j] \notin {NoStatus, st}

\* Mutant: the deletion of a finished Job is counted as well.
VanishesAny(j, st) == st \notin Status /\ statuses[j] # NoStatus

Vanishes(j, st) == st \notin Status /\ statuses[j] \in Unfinished

Releases(j, st) == Finishes(j, st) \/ Vanishes(j, st)

Outcome(j, st) ==
    CASE st = "succeeded" -> "Succeed"
      [] st = "failed"    -> "Failed"
      [] OTHER            -> "Deleted"

\* Mutant: the entry of a deleted Job stays in the map.
KeepsEntry(st) == st

\* Mutant: the entry of a finished Job is removed from the map.
ForgetsFinished(st) == IF st \in Unfinished THEN st ELSE NoStatus

\* The HashMap entry after the event: inserted, replaced or removed.
Entry(st) == IF st \in Status THEN st ELSE NoStatus

Handle(j, st) ==
    /\ statuses' = [statuses EXCEPT ![j] = Entry(st)]
    /\ running_jobs' = IF Acquires(j, st) THEN (running_jobs + 1) % Usize
                       ELSE IF Releases(j, st) THEN (running_jobs - 1) % Usize
                       ELSE running_jobs
    /\ slots' = IF Acquires(j, st) THEN slots \cup {j}
                ELSE IF Releases(j, st) THEN slots \ {j}
                ELSE slots
    /\ completed' = IF Releases(j, st)
                    THEN [completed EXCEPT ![j] = Append(@, Outcome(j, st))]
                    ELSE completed

\* The reflector applies the next Apply or Delete event, then the handler runs.
WatchEvent(j) ==
    /\ ~relist.on
    /\ events[j] # <<>>
    /\ events' = [events EXCEPT ![j] = Tail(@)]
    /\ store' = [store EXCEPT ![j] = Head(events[j])]
    /\ Handle(j, Head(events[j]))
    /\ UNCHANGED <<cluster, relist, desyncs>>

-----------------------------------------------------------------------------
(* The watch loses its position (HTTP 410): the watcher lists again.  Init *)
(* starts a fresh buffer from the list, the changes since the last event   *)
(* are never delivered, each listed object is yielded (InitApply) with the *)
(* store still unchanged, and InitDone swaps the store without an event.   *)

Desync ==
    /\ desyncs < MaxDesyncs
    /\ desyncs' = desyncs + 1
    /\ relist' = [on |-> TRUE, snapshot |-> cluster,
                  todo |-> {j \in Jobs : cluster[j] \in Status}]
    /\ events' = [j \in Jobs |-> <<>>]
    /\ UNCHANGED <<cluster, store, statuses, running_jobs, completed, slots>>

InitApply(j) ==
    /\ relist.on
    /\ j \in relist.todo
    /\ relist' = [relist EXCEPT !.todo = @ \ {j}]
    /\ Handle(j, store[j])
    /\ UNCHANGED <<cluster, events, store, desyncs>>

InitDone ==
    /\ relist.on
    /\ relist.todo = {}
    /\ store' = relist.snapshot
    /\ relist' = NoRelist
    /\ UNCHANGED <<cluster, events, statuses, running_jobs, desyncs, completed, slots>>

-----------------------------------------------------------------------------
WatchNext ==
    \/ \E j \in Jobs : ServerCreate(j)
    \/ \E j \in Jobs : JobProgress(j)
    \/ \E j \in Jobs : JobDelete(j)
    \/ \E j \in Jobs : WatchEvent(j)
    \/ Desync
    \/ \E j \in Jobs : InitApply(j)
    \/ InitDone

\* The watch and the handler make progress; nothing is promised of the Jobs.
WatchFairness ==
    /\ \A j \in Jobs : WF_watchVars(WatchEvent(j))
    /\ \A j \in Jobs : WF_watchVars(InitApply(j))
    /\ WF_watchVars(InitDone)

WatchSpec == WatchInit /\ [][WatchNext]_watchVars /\ WatchFairness

-----------------------------------------------------------------------------
(* Properties.                                                             *)

\* Every fetch_sub takes back the one fetch_add of the same Job, so that the
\* counter is the number of Jobs that still hold a slot and never wraps below
\* zero, whatever the watch loses.
CounterIsSlots == running_jobs = Cardinality(slots)

\* A Job whose last status the handler saw is unfinished is counted, even when
\* re-lists dropped events: the counter never falls below the Jobs it knows.
KnownUnfinishedHoldSlots == \A j \in Jobs : statuses[j] \in Unfinished => j \in slots

CaughtUp == ~relist.on /\ \A j \in Jobs : events[j] = <<>>

RunningInCluster == {j \in Jobs : cluster[j] \in Unfinished}

\* "calculate a number of the jobs running by this particular instance": once
\* the watch has delivered everything, running_jobs is that number.  It need
\* not be after a re-list, which does not report what was deleted meanwhile.
CaughtUpCount ==
    CaughtUp /\ desyncs = 0 => running_jobs = Cardinality(RunningInCluster)

\* The completed_count metric gets at most one increment per Job.
CompletedOnce == \A j \in Jobs : Len(completed[j]) <= 1

\* A Job that was reported as completed never takes a slot again.
NoSlotAfterCompletion ==
    [][\A j \in Jobs : completed[j] # <<>> => j \notin slots' \ slots]_watchVars

\* A Job that has finished or was deleted gives its slot back, unless the
\* watch loses its position.
SlotsAreReleased ==
    \A j \in Jobs :
        j \in slots /\ cluster[j] \notin Unfinished ~> j \notin slots \/ desyncs > 0
=============================================================================
