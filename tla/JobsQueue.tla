------------------------------ MODULE JobsQueue ------------------------------
(***************************************************************************)
(* The queue of Jobs of src/jobs.rs on top of JobsWatch: callers of        *)
(* enqueue on any thread, the one task of init_and_watch with its two      *)
(* loops that call run_queue (one woken by queue events, one by changes of *)
(* the runtime config), the lock run_queue holds across its awaits, the    *)
(* waiting timeout, and the task's end by shutdown or panic.               *)
(*                                                                         *)
(* run_queue is split where it awaits: the lock, every recv and every      *)
(* create.  Other threads enqueue at any time; the watch handler, a branch *)
(* of the same select!, runs while a pass awaits the API server.           *)
(***************************************************************************)
EXTENDS JobsWatch

CONSTANTS
    Limits,            \* values of action.maxRunningJobs
    Timeouts,          \* values of action.jobWaitingTimeoutSeconds
    ExpireAfter,       \* what callers pass as expire_after: ticks or NoExpire
    NoExpire,          \* None
    MaxTime,           \* bound on the clock
    MaxConfigChanges,  \* bound on updates of the ConfigMap
    LostReplies        \* TRUE: a create may take effect and still return Err

ASSUME LimitsAssumption == Limits # {} /\ Limits \subseteq Nat
ASSUME TimeoutsAssumption == Timeouts # {} /\ Timeouts \subseteq Nat
ASSUME ExpireAfterAssumption == ExpireAfter \subseteq Nat \cup {NoExpire} /\ NoExpire \notin Nat
ASSUME BoundsAssumption == MaxTime \in Nat /\ MaxConfigChanges \in Nat
ASSUME LostRepliesAssumption == LostReplies \in BOOLEAN

Loops == {"queue_events", "config_changes"}

Item == [job : Jobs, enqueued_at : Nat, expire_after : Nat \cup {NoExpire}]

VARIABLES
    task,       \* the init_and_watch task and JOBS_QUEUE, which it sets
    enq,        \* [Jobs -> where the one call of enqueue for that Job is]
    queue,      \* the mpsc channel: Seq(Item)
    config,     \* RuntimeConfig::get().action
    changes,    \* updates of config so far, up to MaxConfigChanges
    notified,   \* [Loops -> BOOLEAN]: the watch channel holds an unseen version
    pc,         \* [Loops -> where that loop is in run_queue]
    waiting,    \* [Loops -> waiting_jobs of its pass]
    free,       \* [Loops -> free_capacity of its pass]
    current,    \* [Loops -> the Job that is being created]
    now,        \* SystemTime::now()
    sent,       \* history: Jobs in the order they were put into the channel
    bound       \* history: [Loops -> what its pass may fill the cluster to]

passVars  == <<pc, waiting, free, current, bound>>
queueVars == <<task, enq, queue, config, changes, notified, now, sent>>
vars == <<watchVars, passVars, queueVars>>

NoJob == "no_job"

TypeOK ==
    /\ WatchTypeOK
    /\ task \in {"unset", "running", "stopped"}
    /\ enq \in [Jobs -> {"new", "put", "ok", "err"}]
    /\ queue \in Seq(Item)
    /\ config \in [max_running_jobs : Limits, job_waiting_timeout : Timeouts]
    /\ changes \in 0..MaxConfigChanges
    /\ notified \in [Loops -> BOOLEAN]
    /\ pc \in [Loops -> {"idle", "lock", "recv", "create", "reply"}]
    /\ waiting \in [Loops -> Nat]
    /\ free \in [Loops -> Nat]
    /\ current \in [Loops -> Jobs \cup {NoJob}]
    /\ now \in 0..MaxTime
    /\ sent \in Seq(Jobs)
    /\ bound \in [Loops -> Nat]

Init ==
    /\ WatchInit
    /\ task = "unset"
    /\ enq = [j \in Jobs |-> "new"]
    /\ queue = <<>>
    /\ config \in [max_running_jobs : Limits, job_waiting_timeout : Timeouts]
    /\ changes = 0
    /\ notified = [l \in Loops |-> FALSE]
    /\ pc = [l \in Loops |-> "idle"]
    /\ waiting = [l \in Loops |-> 0]
    /\ free = [l \in Loops |-> 0]
    /\ current = [l \in Loops |-> NoJob]
    /\ now = 0
    /\ sent = <<>>
    /\ bound = [l \in Loops |-> 0]

-----------------------------------------------------------------------------
(* enqueue: two calls on shared channels, on the caller's thread.          *)

EnqueueUnset(j) ==
    /\ task = "unset"
    /\ enq[j] = "new"
    /\ enq' = [enq EXCEPT ![j] = "err"]
    /\ UNCHANGED <<watchVars, passVars, task, queue, config, changes, notified, now, sent>>

\* The receiver lives in the static JOBS_QUEUE, so that this send never fails.
EnqueuePut(j, expire_after) ==
    /\ task # "unset"
    /\ enq[j] = "new"
    /\ enq' = [enq EXCEPT ![j] = "put"]
    /\ queue' = Append(queue, [job |-> j, enqueued_at |-> now,
                               expire_after |-> expire_after])
    /\ sent' = Append(sent, j)
    /\ UNCHANGED <<watchVars, passVars, task, config, changes, notified, now>>

\* The event receiver dies with the task: the caller then gets an error
\* although its Job is in the channel.
EnqueueNotify(j) ==
    /\ enq[j] = "put"
    /\ \/ /\ task = "running"
          /\ enq' = [enq EXCEPT ![j] = "ok"]
          /\ notified' = [notified EXCEPT !["queue_events"] = TRUE]
       \/ /\ task # "running"
          /\ enq' = [enq EXCEPT ![j] = "err"]
          /\ UNCHANGED notified
    /\ UNCHANGED <<watchVars, passVars, task, queue, config, changes, now, sent>>

-----------------------------------------------------------------------------
(* run_queue, called by loop l.                                            *)

HoldsLock(l) == pc[l] \in {"recv", "create", "reply"}

\* Jobs that run and that the watch handler has not counted yet.
Uncounted == RunningInCluster \ slots

\* run_queue returns (or is dropped): its locals go, the lock is released.
Leave(l) ==
    /\ pc' = [pc EXCEPT ![l] = "idle"]
    /\ waiting' = [waiting EXCEPT ![l] = 0]
    /\ free' = [free EXCEPT ![l] = 0]
    /\ bound' = [bound EXCEPT ![l] = 0]

Wake(l) ==
    /\ task = "running"
    /\ pc[l] = "idle"
    /\ notified[l]
    /\ notified' = [notified EXCEPT ![l] = FALSE]
    /\ pc' = [pc EXCEPT ![l] = "lock"]
    /\ UNCHANGED <<watchVars, waiting, free, current, bound, task, enq, queue, config,
                   changes, now, sent>>

\* Mutant: the capacity is computed without the early return.
BeginPassUnguarded(l) ==
    /\ pc[l] = "lock"
    /\ \A k \in Loops : ~HoldsLock(k)
    /\ pc' = [pc EXCEPT ![l] = "recv"]
    /\ waiting' = [waiting EXCEPT ![l] = Len(queue)]
    /\ free' = [free EXCEPT ![l] = config.max_running_jobs - running_jobs]
    /\ bound' = [bound EXCEPT ![l] = config.max_running_jobs + Cardinality(Uncounted)]
    /\ UNCHANGED <<watchVars, current, queueVars>>

\* Mutant: the pass does not wait for the lock.
BeginPassUnlocked(l) ==
    /\ pc[l] = "lock"
    /\ running_jobs <= config.max_running_jobs
    /\ pc' = [pc EXCEPT ![l] = "recv"]
    /\ waiting' = [waiting EXCEPT ![l] = Len(queue)]
    /\ free' = [free EXCEPT ![l] = config.max_running_jobs - running_jobs]
    /\ bound' = [bound EXCEPT ![l] = config.max_running_jobs + Cardinality(Uncounted)]
    /\ UNCHANGED <<watchVars, current, queueVars>>

\* The limit and the counter are read once, under the lock.
BeginPass(l) ==
    /\ pc[l] = "lock"
    /\ \A k \in Loops : ~HoldsLock(k)
    /\ \/ /\ running_jobs > config.max_running_jobs
          /\ Leave(l)
       \/ /\ running_jobs <= config.max_running_jobs
          /\ pc' = [pc EXCEPT ![l] = "recv"]
          /\ waiting' = [waiting EXCEPT ![l] = Len(queue)]
          /\ free' = [free EXCEPT ![l] = config.max_running_jobs - running_jobs]
          /\ bound' = [bound EXCEPT ![l] = config.max_running_jobs + Cardinality(Uncounted)]
    /\ UNCHANGED <<watchVars, current, queueVars>>

IsExpired(item) ==
    LET expired_after == IF item.expire_after = NoExpire
                         THEN config.job_waiting_timeout
                         ELSE item.expire_after
    IN  now > item.enqueued_at + expired_after

\* recv returns the oldest item; an expired one is dropped, otherwise the
\* request to create it goes out.
Recv(l) ==
    /\ pc[l] = "recv"
    /\ waiting[l] > 0
    /\ free[l] > 0
    /\ queue # <<>>
    /\ queue' = Tail(queue)
    /\ waiting' = [waiting EXCEPT ![l] = @ - 1]
    /\ LET item == Head(queue)
       IN \/ /\ IsExpired(item)
             /\ completed' = [completed EXCEPT ![item.job] = Append(@, "Expired")]
             /\ UNCHANGED <<pc, current>>
          \/ /\ ~IsExpired(item)
             /\ pc' = [pc EXCEPT ![l] = "create"]
             /\ current' = [current EXCEPT ![l] = item.job]
             /\ UNCHANGED completed
    /\ UNCHANGED <<cluster, events, store, statuses, running_jobs, relist, desyncs, slots,
                   free, bound, task, enq, config, changes, notified, now, sent>>

\* The API server creates the Job; its answer is still on the way.
CreateApplied(l) ==
    /\ pc[l] = "create"
    /\ ServerCreate(current[l])
    /\ pc' = [pc EXCEPT ![l] = "reply"]
    /\ UNCHANGED <<waiting, free, current, bound, queueVars>>

\* Mutant: a created Job does not use up capacity.
CreateOkFree(l) ==
    /\ pc[l] = "reply"
    /\ pc' = [pc EXCEPT ![l] = "recv"]
    /\ current' = [current EXCEPT ![l] = NoJob]
    /\ UNCHANGED <<watchVars, waiting, free, bound, queueVars>>

CreateOk(l) ==
    /\ pc[l] = "reply"
    /\ pc' = [pc EXCEPT ![l] = "recv"]
    /\ free' = [free EXCEPT ![l] = @ - 1]
    /\ current' = [current EXCEPT ![l] = NoJob]
    /\ UNCHANGED <<watchVars, waiting, bound, queueVars>>

\* Mutant: a Job that could not be created goes to the end of the queue.
CreateErrRequeues(l) ==
    /\ pc[l] = "create"
    /\ pc' = [pc EXCEPT ![l] = "recv"]
    /\ queue' = Append(queue, [job |-> current[l], enqueued_at |-> now,
                               expire_after |-> NoExpire])
    /\ current' = [current EXCEPT ![l] = NoJob]
    /\ UNCHANGED <<watchVars, waiting, free, bound, task, enq, config, changes, notified,
                   now, sent>>

\* The request was refused, or (LostReplies) took effect and failed after that:
\* no capacity is taken for that one, so that the pass may start one more.
CreateErr(l) ==
    /\ pc[l] = "create" \/ (LostReplies /\ pc[l] = "reply")
    /\ pc' = [pc EXCEPT ![l] = "recv"]
    /\ bound' = [bound EXCEPT ![l] = IF pc[l] = "reply" THEN @ + 1 ELSE @]
    /\ completed' = [completed EXCEPT ![current[l]] = Append(@, "CreateError")]
    /\ current' = [current EXCEPT ![l] = NoJob]
    /\ UNCHANGED <<cluster, events, store, statuses, running_jobs, relist, desyncs, slots,
                   waiting, free, queueVars>>

EndPass(l) ==
    /\ pc[l] = "recv"
    /\ waiting[l] = 0 \/ free[l] = 0
    /\ Leave(l)
    /\ UNCHANGED <<watchVars, current, queueVars>>

-----------------------------------------------------------------------------
(* The other branches of the select!, and the environment.                 *)

InitAndWatch ==
    /\ task = "unset"
    /\ task' = "running"
    /\ UNCHANGED <<watchVars, passVars, enq, queue, config, changes, notified, now, sent>>

Notify == notified' = [notified EXCEPT !["queue_events"] = TRUE]

\* Mutant: the handler does not trigger run_queue.
OnWatchEventSilent(j) ==
    /\ task = "running"
    /\ WatchEvent(j)
    /\ UNCHANGED <<passVars, queueVars>>

\* Every item of the stream, an error included, ends with a queue event.
OnWatchEvent(j) ==
    /\ task = "running"
    /\ WatchEvent(j)
    /\ Notify
    /\ UNCHANGED <<passVars, task, enq, queue, config, changes, now, sent>>

OnInitApply(j) ==
    /\ task = "running"
    /\ InitApply(j)
    /\ Notify
    /\ UNCHANGED <<passVars, task, enq, queue, config, changes, now, sent>>

OnDesync ==
    /\ task = "running"
    /\ Desync
    /\ Notify
    /\ UNCHANGED <<passVars, task, enq, queue, config, changes, now, sent>>

OnWatchError ==
    /\ task = "running"
    /\ Notify
    /\ UNCHANGED <<watchVars, passVars, task, enq, queue, config, changes, now, sent>>

OnInitDone ==
    /\ task = "running"
    /\ InitDone
    /\ UNCHANGED <<passVars, queueVars>>

\* The select! ends: every future is dropped, with the lock guard and the Job
\* whose creation was awaited.
Shutdown ==
    /\ task = "running"
    /\ task' = "stopped"
    /\ pc' = [l \in Loops |-> "idle"]
    /\ waiting' = [l \in Loops |-> 0]
    /\ free' = [l \in Loops |-> 0]
    /\ bound' = [l \in Loops |-> 0]
    /\ current' = [l \in Loops |-> NoJob]
    /\ UNCHANGED <<watchVars, enq, queue, config, changes, notified, now, sent>>

JobRuns(j) ==
    /\ JobProgress(j) \/ JobDelete(j)
    /\ UNCHANGED <<passVars, queueVars>>

\* send_replace of the config task: the value and its new version in one step.
ConfigUpdate ==
    /\ changes < MaxConfigChanges
    /\ changes' = changes + 1
    /\ config' \in [max_running_jobs : Limits, job_waiting_timeout : Timeouts]
    /\ notified' = [notified EXCEPT !["config_changes"] = @ \/ task = "running"]
    /\ UNCHANGED <<watchVars, passVars, task, enq, queue, now, sent>>

Tick ==
    /\ now < MaxTime
    /\ now' = now + 1
    /\ UNCHANGED <<watchVars, passVars, task, enq, queue, config, changes, notified, sent>>

-----------------------------------------------------------------------------
RunQueue(l) ==
    \/ Wake(l)
    \/ BeginPass(l)
    \/ Recv(l)
    \/ CreateApplied(l)
    \/ CreateOk(l)
    \/ CreateErr(l)
    \/ EndPass(l)

Next ==
    \/ InitAndWatch
    \/ \E j \in Jobs : EnqueueUnset(j)
    \/ \E j \in Jobs, e \in ExpireAfter : EnqueuePut(j, e)
    \/ \E j \in Jobs : EnqueueNotify(j)
    \/ \E l \in Loops : RunQueue(l)
    \/ \E j \in Jobs : OnWatchEvent(j)
    \/ \E j \in Jobs : OnInitApply(j)
    \/ OnDesync
    \/ OnWatchError
    \/ OnInitDone
    \/ Shutdown
    \/ \E j \in Jobs : JobRuns(j)
    \/ ConfigUpdate
    \/ Tick

Spec == Init /\ [][Next]_vars

\* The runtime polls the task's loops and the callers' threads, the watch
\* delivers and finishes a re-list, and Jobs end (activeDeadlineSeconds) and are
\* deleted (ttlSecondsAfterFinished).
Fairness ==
    /\ WF_vars(InitAndWatch)
    /\ \A j \in Jobs : WF_vars(EnqueueNotify(j))
    /\ \A l \in Loops : WF_vars(RunQueue(l))
    /\ \A j \in Jobs : WF_vars(OnWatchEvent(j))
    /\ \A j \in Jobs : WF_vars(OnInitApply(j))
    /\ WF_vars(OnInitDone)
    /\ \A j \in Jobs : WF_vars(JobRuns(j))

FairSpec == Spec /\ Fairness

-----------------------------------------------------------------------------
(* Properties.                                                             *)

\* A pass counts the waiting items once and later awaits recv while it holds
\* the lock: there is always an item left, so that it never blocks there and
\* never takes more than it counted.
RecvNeverBlocks == \A l \in Loops : HoldsLock(l) => waiting[l] <= Len(queue)

\* A pass never fills the cluster beyond the limit it read plus the Jobs that
\* were running uncounted when it read the counter and those it created itself
\* without getting the answer.
OvershootBounded ==
    \A l \in Loops : HoldsLock(l) => Cardinality(RunningInCluster) <= bound[l]

\* Slots of Jobs that are gone and whose deletion a re-list swallowed: nothing
\* that is still to come takes them back.
LeakedSlots == {j \in slots : cluster[j] = "deleted" /\ events[j] = <<>>}

NoCapacity == Cardinality(LeakedSlots) >= config.max_running_jobs

\* No Job is stranded, whatever happens to the limit, the watch and the clock:
\* once put into the queue it is created, expires or is refused, unless the task
\* stops or the queue has lost its capacity for good: the limit is zero, or
\* re-lists have leaked as many slots as it allows.
EveryJobSettles ==
    \A j \in Jobs : enq[j] \in {"put", "ok"} ~>
        \/ cluster[j] # "absent" \/ completed[j] # <<>>
        \/ task = "stopped"
        \/ []NoCapacity
=============================================================================
